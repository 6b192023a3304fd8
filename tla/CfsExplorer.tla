---------------------------- MODULE CfsExplorer ----------------------------
(***************************************************************************)
(* The disk manager of OS2 (window 4 of kernel_main.cpp), the notepad's    *)
(* SAVE and SAVE AS and the MKDIR command: everything that reads or writes *)
(* the CFS directory in sector 1002, the files' sectors, the cache         *)
(* cfs_files and the clipboard.                                            *)
(*                                                                         *)
(* A handler runs to its end before the next click is looked at.  What it  *)
(* reads it reads at once; the sectors it writes are queued in pending and *)
(* written one at a time, so that the power may fail between two of them.  *)
(* No handler looks at the result of a write but SAVE, which only shows    *)
(* it, and few at that of a read.                                          *)
(***************************************************************************)
EXTENDS Naturals, Sequences, FiniteSets

CONSTANTS
  Drives,        (* the drives the scan found                              *)
  Usb,           (* those that are USB sticks; the others are SATA         *)
  Flaky,         (* those whose reads and writes may fail                  *)
  Format0,       (* what each drive holds at first                         *)
  Formattable,   (* the drives the user formats                            *)
  NSlots,        (* directory entries; 28 in the code                      *)
  MkdirSlots,    (* those MKDIR looks at; 8 in the code                    *)
  FileSectors,   (* sectors COPY and PASTE move; 10 in the code            *)
  ForeignStarts, (* where the files an NTFS or FAT32 drive lists "start":  *)
                 (* an MFT record's number, or the first cluster's sector  *)
                 (* cut to 16 bits                                         *)
  ForeignFolders,(* which of them are folders                              *)
  RawStart,      (* the same of an entry in a sector that is no directory  *)
  Buttons        (* what the user uses                                     *)

NoDrive == "none"
Formats == {"cfs", "fat32", "ntfs", "blank"}
Foreign(format) == format \in {"fat32", "ntfs"}

(* Sectors: start_lba has 16 bits.  The directory, the sector SAVE falls    *)
(* back to and app.bin; the files' sectors begin at 4000.                  *)
LastLba    == 65535
Addresses  == 0 .. LastLba
DirLba     == 1002
ScratchLba == 500
AppLba     == 10000

AllButtons == {"copy", "paste", "file", "save", "saveas", "newfolder", "mkdir"}

ASSUME DrivesAssumption  == NoDrive \notin Drives /\ Usb \subseteq Drives
ASSUME FormatsAssumption == Format0 \in [Drives -> Formats] /\ Formattable \subseteq Drives
ASSUME SlotsAssumption   == NSlots \in Nat \ {0} /\ MkdirSlots \in 1 .. NSlots
ASSUME SectorsAssumption == FileSectors \in Nat \ {0} /\ 4000 + NSlots * FileSectors <= AppLba
ASSUME ForeignAssumption ==
  /\ ForeignStarts \in Seq(Addresses) /\ Len(ForeignStarts) <= NSlots
  /\ ForeignFolders \subseteq Nat /\ RawStart \in Addresses
ASSUME ButtonsAssumption == Buttons \subseteq AllButtons

VARIABLES
  boot,              (* sector 0 of each drive                             *)
  dir,               (* sector 1002                                        *)
  data,              (* the sectors of the files                           *)
  pending,           (* the sectors the running handler has yet to write   *)
  selected,          (* selected_drive_idx                                 *)
  opened,            (* dsk_mgr_opened: files are shown, not drives        *)
  is_mounted,
  is_ntfs_drive,
  is_fat32_drive,
  current_folder_id,
  cfs_files,
  buf_dir,           (* the directory buffer at 0x00901000                 *)
  clipboard_active,
  clipboard_is_folder,
  buffer,            (* 0x09000000: the clipboard, and the notepad's text  *)
  save_step,         (* where the SAVE AS dialog stands                    *)
  active_file_lba,   (* the sector SAVE writes, on whichever drive         *)
  unread             (* history: the running handler writes a directory    *)
                     (* that it could not read                             *)

diskVars == <<boot, dir, data>>
viewVars == <<selected, opened, is_mounted, is_ntfs_drive, is_fat32_drive, current_folder_id>>
clipVars == <<clipboard_active, clipboard_is_folder, buffer>>
noteVars == <<save_step, active_file_lba>>
vars     == <<diskVars, pending, viewVars, cfs_files, buf_dir, clipVars, unread, noteVars>>

Slots == 0 .. NSlots - 1
Root  == 255
Parts == 0 .. FileSectors - 1

(* The sectors whose contents are told apart.                              *)
Lbas == {ScratchLba} \cup 4000 .. 4000 + NSlots * FileSectors - 1
          \cup AppLba .. AppLba + FileSectors - 1

(* A sector holds a part of a document.                                    *)
Docs   == {"zeros", "note", "app", "other"}
Values == Docs \X Parts
Zeros  == <<"zeros", 0>>
Note   == <<"note", 0>>
Other(l) == <<"other", l % FileSectors>>

(* A directory entry, and an entry of the cache cfs_files.  The bytes of a *)
(* sector that is no directory read as entries too.                        *)
Entries == [type : {"free", "file", "folder", "foreign"}, start : Addresses, parent : Slots \cup {Root}]

Zeroed     == [type |-> "free", start |-> 0, parent |-> 0]
Cleared    == [type |-> "free", start |-> 0, parent |-> Root]
ForeignEnt == [type |-> "foreign", start |-> RawStart, parent |-> 0]

ZeroDir    == [s \in Slots |-> Zeroed]
ForeignDir == [s \in Slots |-> ForeignEnt]
NoFiles    == [s \in Slots |-> Cleared]
(* What memory holds that nothing has written yet.                         *)
RawDirs    == [Slots -> {Zeroed, ForeignEnt}]

File(lba, parent) == [type |-> "file", start |-> lba, parent |-> parent]
FolderOfNobody(parent) == [type |-> "folder", start |-> 0, parent |-> 0]
Folder(parent)    == [type |-> "folder", start |-> 0, parent |-> parent]

(* What the three kinds of drives hold before the system touches them.     *)
ForeignData == [l \in Lbas |-> Other(l)]

EmptyData == [l \in Lbas |-> IF l >= AppLba THEN <<"app", l - AppLba>> ELSE Zeros]

(* What the text of a note makes of a directory: bytes, then zeros.        *)
TextDirs == {[s \in Slots |-> IF s < n THEN ForeignEnt ELSE Zeroed] : n \in 0 .. NSlots}

Init ==
  /\ boot = Format0
  /\ dir \in [Drives -> {ZeroDir, ForeignDir}]
  /\ \A d \in Drives : Foreign(Format0[d]) \/ dir[d] = ZeroDir
  /\ data = [d \in Drives |-> IF Foreign(Format0[d]) THEN ForeignData ELSE EmptyData]
  /\ pending = << >>
  /\ selected = NoDrive
  /\ opened = FALSE
  /\ is_mounted = FALSE
  /\ is_ntfs_drive = FALSE
  /\ is_fat32_drive = FALSE
  /\ current_folder_id = Root
  /\ cfs_files = NoFiles
  /\ buf_dir \in RawDirs
  /\ clipboard_active = FALSE
  /\ clipboard_is_folder = FALSE
  /\ buffer = [k \in Parts |-> <<"other", 0>>]
  /\ save_step = "closed"
  /\ active_file_lba = 0
  /\ unread = FALSE

(***************************************************************************)
(* The disk.                                                               *)
(***************************************************************************)

Idle == pending = << >>

BootWrite(value)      == [where |-> "boot", lba |-> 0, value |-> value]
DirWrite(value)       == [where |-> "dir", lba |-> 0, value |-> value]
DataWrite(lba, value) == [where |-> "data", lba |-> lba, value |-> value]
TextWrite(value)      == [where |-> "text", lba |-> DirLba, value |-> value]

SectorOf(d, l) == IF l \in Lbas THEN data[d][l] ELSE Other(l)

(* disk_read_auto fails without a selected drive; disk_write_auto does not *)
(* know USB sticks.                                                        *)
ReadWorks  == selected # NoDrive
ReadFails  == selected = NoDrive \/ selected \in Flaky
WriteWorks == selected \in Drives \ Usb
WriteFails == ~WriteWorks \/ selected \in Flaky

ReadOutcomes == {works \in BOOLEAN : IF works THEN ReadWorks ELSE ReadFails}

(* One queued sector reaches the drive ...                                 *)
WriteNext ==
  /\ ~Idle
  /\ WriteWorks
  /\ LET w == Head(pending) IN
       /\ boot' = IF w.where = "boot" THEN [boot EXCEPT ![selected] = w.value] ELSE boot
       /\ dir'  = IF w.where \in {"dir", "text"} THEN [dir EXCEPT ![selected] = w.value] ELSE dir
       /\ data' = IF w.where = "data" /\ w.lba \in Lbas THEN [data EXCEPT ![selected][w.lba] = w.value] ELSE data
  /\ pending' = Tail(pending)
  /\ UNCHANGED <<viewVars, cfs_files, buf_dir, clipVars, unread, noteVars>>

(* ... or does not, and the handler goes on all the same.                  *)
WriteLost ==
  /\ ~Idle
  /\ WriteFails
  /\ pending' = Tail(pending)
  /\ UNCHANGED <<diskVars, viewVars, cfs_files, buf_dir, clipVars, unread, noteVars>>

(* The power fails, or the user reboots: the memory is lost.               *)
Reboot ==
  /\ UNCHANGED diskVars
  /\ pending' = << >>
  /\ selected' = NoDrive
  /\ opened' = FALSE
  /\ is_mounted' = FALSE
  /\ is_ntfs_drive' = FALSE
  /\ is_fat32_drive' = FALSE
  /\ current_folder_id' = Root
  /\ cfs_files' = NoFiles
  /\ buf_dir' \in RawDirs
  /\ clipboard_active' = FALSE
  /\ clipboard_is_folder' = FALSE
  /\ buffer' = [k \in Parts |-> <<"other", 0>>]
  /\ save_step' = "closed"
  /\ active_file_lba' = 0
  /\ unread' = FALSE

(***************************************************************************)
(* Directories.                                                            *)
(***************************************************************************)

FoldersAreFree(entries) == {s \in Slots : entries[s].type # "file"}

FreeSlots(entries) == {s \in Slots : entries[s].type = "free"}

FirstOf(slots) == CHOOSE s \in slots : \A t \in slots : s <= t

(* What the explorer shows of a CFS directory.                             *)
MountKeepsFiles(entries) ==
  [s \in Slots |-> IF entries[s].type = "free" THEN cfs_files[s] ELSE entries[s]]

FromDir(entries) ==
  [s \in Slots |-> IF entries[s].type = "free" THEN Cleared ELSE entries[s]]

(* What it lists of an NTFS or FAT32 drive: all in the folder it is in.    *)
ForeignListing(folder) ==
  [s \in Slots |-> IF s >= Len(ForeignStarts) THEN Cleared
                  ELSE IF s \in ForeignFolders THEN Folder(folder)
                  ELSE File(ForeignStarts[s + 1], folder)]

(* A refresh lists the drive again if it is taken for NTFS or FAT32: from  *)
(* the copy of the MFT, or from whatever the drive holds at the address of *)
(* the FAT32 folder.  It does nothing for CFS.                             *)
Refresh(ntfs, fat32, folder, files, entries) ==
  \/ /\ ~ntfs /\ ~fat32
     /\ cfs_files' = files
     /\ buf_dir' = entries
  \/ /\ ntfs
     /\ cfs_files' = ForeignListing(folder)
     /\ buf_dir' = entries
  \/ /\ fat32
     /\ ReadWorks
     /\ \/ cfs_files' = ForeignListing(folder) /\ buf_dir' = ForeignDir
        \/ boot[selected] # "fat32" /\ cfs_files' = NoFiles /\ buf_dir' = ZeroDir
  \/ /\ fat32
     /\ ReadFails
     /\ cfs_files' \in {ForeignListing(folder), NoFiles}
     /\ buf_dir' = entries

(***************************************************************************)
(* The view of the drives.                                                 *)
(***************************************************************************)

InDriveList == Idle /\ ~opened

SelectDrive(d) ==
  /\ InDriveList
  /\ selected' = d
  /\ is_mounted' = FALSE
  /\ UNCHANGED <<diskVars, pending, opened, is_ntfs_drive, is_fat32_drive, current_folder_id,
                 cfs_files, buf_dir, clipVars, unread, noteVars>>

FormatWrites == <<BootWrite("cfs"), DirWrite(ZeroDir)>>

Format ==
  /\ InDriveList
  /\ selected \in Formattable
  /\ pending' = FormatWrites
  /\ buf_dir' = ZeroDir
  /\ cfs_files' = NoFiles
  /\ is_mounted' = FALSE
  /\ current_folder_id' = Root
  /\ unread' = FALSE
  /\ UNCHANGED <<diskVars, selected, opened, is_ntfs_drive, is_fat32_drive, clipVars, noteVars>>

(* OPEN decides by sector 0; a sector that cannot be read looks blank.     *)
Found(format) ==
  \/ ReadWorks /\ format = boot[selected]
  \/ ReadFails /\ format = "blank"

Mounting ==
  /\ InDriveList
  /\ selected # NoDrive
  /\ is_mounted' = TRUE
  /\ current_folder_id' = Root
  /\ opened' = TRUE
  /\ UNCHANGED <<diskVars, pending, selected, clipVars, unread, noteVars>>

(* The mark that the drive is FAT32 is not cleared here.                   *)
MountCfs ==
  /\ Mounting
  /\ Found("cfs")
  /\ is_ntfs_drive' = FALSE
  /\ UNCHANGED is_fat32_drive
  /\ \E works \in ReadOutcomes :
       LET entries == IF works THEN dir[selected] ELSE ZeroDir
       IN  Refresh(FALSE, is_fat32_drive, Root, FromDir(entries), entries)

MountNtfs ==
  /\ Mounting
  /\ Found("ntfs")
  /\ is_ntfs_drive' = TRUE
  /\ is_fat32_drive' = FALSE
  /\ buf_dir' = ForeignDir
  /\ cfs_files' = ForeignListing(Root)

MountFat32 ==
  /\ Mounting
  /\ Found("fat32")
  /\ is_ntfs_drive' = FALSE
  /\ \E valid \in ReadOutcomes :
       /\ is_fat32_drive' = valid
       /\ buf_dir' = IF valid THEN ForeignDir ELSE buf_dir
       /\ cfs_files' = IF valid THEN ForeignListing(Root) ELSE NoFiles

(* Nothing known: mounted all the same, and taken for what it was before.  *)
MountUnknown ==
  /\ Mounting
  /\ Found("blank")
  /\ cfs_files' = NoFiles
  /\ UNCHANGED <<is_ntfs_drive, is_fat32_drive, buf_dir>>

(***************************************************************************)
(* The view of the files.                                                  *)
(***************************************************************************)

InFiles == Idle /\ opened

Shown(s) == cfs_files[s].type # "free" /\ cfs_files[s].parent = current_folder_id

BackToDrives ==
  /\ InFiles
  /\ current_folder_id = Root
  /\ opened' = FALSE
  /\ UNCHANGED <<diskVars, pending, selected, is_mounted, is_ntfs_drive, is_fat32_drive,
                 current_folder_id, cfs_files, buf_dir, clipVars, unread, noteVars>>

EnterFolder(s) ==
  /\ InFiles
  /\ Shown(s)
  /\ cfs_files[s].type = "folder"
  /\ current_folder_id' = s
  /\ Refresh(is_ntfs_drive, is_fat32_drive, s, cfs_files, buf_dir)
  /\ UNCHANGED <<diskVars, pending, selected, opened, is_mounted, is_ntfs_drive, is_fat32_drive,
                 clipVars, unread, noteVars>>

(* The button is drawn on NTFS and FAT32 drives only.                      *)
BackToRoot ==
  /\ InFiles
  /\ current_folder_id # Root
  /\ is_ntfs_drive \/ is_fat32_drive
  /\ current_folder_id' = Root
  /\ Refresh(is_ntfs_drive, is_fat32_drive, Root, cfs_files, buf_dir)
  /\ UNCHANGED <<diskVars, pending, selected, opened, is_mounted, is_ntfs_drive, is_fat32_drive,
                 clipVars, unread, noteVars>>

(* PREV, NEXT and REF, drawn in folders only.  Which page of a foreign     *)
(* folder is listed is left out.                                           *)
Relist ==
  /\ InFiles
  /\ current_folder_id # Root
  /\ Refresh(is_ntfs_drive, is_fat32_drive, current_folder_id, cfs_files, buf_dir)
  /\ UNCHANGED <<diskVars, pending, viewVars, clipVars, unread, noteVars>>

(* + FILE adds an entry for app.bin; the entry's parent stays what it was. *)
AddFile ==
  /\ InFiles
  /\ \E works \in ReadOutcomes :
       /\ unread' = ~works
       /\ LET entries == IF works THEN dir[selected] ELSE ZeroDir
              s       == FirstOf(FreeSlots(entries))
              updated == [entries EXCEPT ![s].type = "file", ![s].start = AppLba]
          IN  IF FreeSlots(entries) = {}
                THEN buf_dir' = entries /\ UNCHANGED <<pending, cfs_files>>
                ELSE /\ buf_dir' = updated
                     /\ pending' = <<DirWrite(updated)>>
                     /\ cfs_files' = [cfs_files EXCEPT ![s].type = "file", ![s].start = AppLba]
  /\ UNCHANGED <<diskVars, viewVars, clipVars, noteVars>>

(* A text opens in the notepad, a .BIN is loaded and a .WAV is played; the *)
(* directory is read along the way.  Names are left out: a file may be any *)
(* of the three.                                                           *)
OpenFile(s) ==
  /\ InFiles
  /\ Shown(s)
  /\ cfs_files[s].type # "folder"
  /\ active_file_lba' \in {active_file_lba, cfs_files[s].start}
  /\ \E works \in ReadOutcomes : buf_dir' = IF works THEN dir[selected] ELSE buf_dir
  /\ UNCHANGED <<diskVars, pending, viewVars, cfs_files, clipVars, unread, save_step>>

Copy(s) ==
  /\ InFiles
  /\ Shown(s)
  /\ clipboard_is_folder' = (cfs_files[s].type = "folder")
  /\ clipboard_active' = TRUE
  /\ LET content == [k \in Parts |-> SectorOf(selected, cfs_files[s].start + k)]
     IN  IF cfs_files[s].type = "folder"
           THEN UNCHANGED buffer
           ELSE /\ \E works \in [Parts -> ReadOutcomes] :
                     buffer' = [k \in Parts |-> IF works[k] THEN content[k] ELSE Zeros]
  /\ UNCHANGED <<diskVars, pending, viewVars, cfs_files, buf_dir, unread, noteVars>>

(* Where PASTE puts a file.                                                *)
PasteTarget(s) == 4000 + s * FileSectors

DirBeforeData(lba, updated) ==
  <<DirWrite(updated)>> \o [k \in 1 .. FileSectors |-> DataWrite(lba + k - 1, buffer[k - 1])]

PasteWrites(lba, updated) ==
  [k \in 1 .. FileSectors |-> DataWrite(lba + k - 1, buffer[k - 1])] \o <<DirWrite(updated)>>

PasteAllowed == ~is_ntfs_drive

Paste ==
  /\ InFiles
  /\ clipboard_active
  /\ PasteAllowed
  /\ \E works \in ReadOutcomes :
       /\ unread' = ~works
       /\ LET entries == IF works THEN dir[selected] ELSE ZeroDir
              s       == FirstOf(FreeSlots(entries))
              file    == [entries EXCEPT ![s] = File(PasteTarget(s), current_folder_id)]
              folder  == [entries EXCEPT ![s] = Folder(current_folder_id)]
              updated == IF clipboard_is_folder THEN folder ELSE file
          IN  IF FreeSlots(entries) = {}
                THEN buf_dir' = entries /\ UNCHANGED <<pending, cfs_files, clipboard_active>>
                ELSE /\ pending' = IF clipboard_is_folder THEN <<DirWrite(updated)>>
                                                          ELSE PasteWrites(PasteTarget(s), updated)
                     /\ clipboard_active' = FALSE
                     /\ Refresh(FALSE, is_fat32_drive, current_folder_id, cfs_files, updated)
  /\ UNCHANGED <<diskVars, viewVars, clipboard_is_folder, buffer, noteVars>>

(***************************************************************************)
(* The notepad, the SAVE AS dialog and the command line.  A note fits into *)
(* one sector.                                                             *)
(***************************************************************************)

(* SAVE writes the file's sector on the drive that is selected now.  That   *)
(* of a foreign file may be the directory's.                               *)
SaveLba == IF active_file_lba > 0 THEN active_file_lba ELSE ScratchLba

Save ==
  /\ Idle
  /\ buffer' = [buffer EXCEPT ![0] = Note]
  /\ IF SaveLba = DirLba THEN \E text \in TextDirs : pending' = <<TextWrite(text)>>
                          ELSE pending' = <<DataWrite(SaveLba, Note)>>
  /\ unread' = FALSE
  /\ UNCHANGED <<diskVars, viewVars, cfs_files, buf_dir, clipboard_active, clipboard_is_folder,
                 noteVars>>

OpenDialog ==
  /\ Idle
  /\ save_step' = "choose"
  /\ UNCHANGED <<diskVars, pending, viewVars, cfs_files, buf_dir, clipVars, unread, active_file_lba>>

(* Only here the dialog asks whether a drive is mounted.                   *)
ChooseAction(step) ==
  /\ Idle
  /\ save_step = "choose"
  /\ is_mounted
  /\ save_step' = step
  /\ UNCHANGED <<diskVars, pending, viewVars, cfs_files, buf_dir, clipVars, unread, active_file_lba>>

(* The directory buffer is not cleared first, and its start sector is that *)
(* of a one-sector file.                                                   *)
SaveAs ==
  /\ Idle
  /\ save_step = "file"
  /\ buffer' = [k \in Parts |-> IF k = 0 THEN Note ELSE Zeros]
  /\ \E works \in ReadOutcomes :
       /\ unread' = ~works
       /\ LET entries == IF works THEN dir[selected] ELSE buf_dir
              s       == FirstOf(FreeSlots(entries))
              file    == File(4000 + s, current_folder_id)
              updated == [entries EXCEPT ![s] = file]
          IN  IF FreeSlots(entries) = {}
                THEN buf_dir' = entries /\ UNCHANGED <<pending, cfs_files, active_file_lba>>
                ELSE /\ buf_dir' = updated
                     /\ pending' = <<DataWrite(4000 + s, Note), DirWrite(updated)>>
                     /\ cfs_files' = [cfs_files EXCEPT ![s] = file]
                     /\ active_file_lba' = 4000 + s
  /\ save_step' = "closed"
  /\ UNCHANGED <<diskVars, viewVars, clipboard_active, clipboard_is_folder>>

NewFolder ==
  /\ Idle
  /\ save_step = "folder"
  /\ \E works \in ReadOutcomes :
       /\ unread' = ~works
       /\ LET entries == IF works THEN dir[selected] ELSE buf_dir
              s       == FirstOf(FreeSlots(entries))
              updated == [entries EXCEPT ![s] = Folder(current_folder_id)]
          IN  IF FreeSlots(entries) = {}
                THEN buf_dir' = entries /\ UNCHANGED <<pending, cfs_files>>
                ELSE /\ buf_dir' = updated
                     /\ pending' = <<DirWrite(updated)>>
                     /\ cfs_files' = [cfs_files EXCEPT ![s] = Folder(current_folder_id)]
  /\ save_step' = "closed"
  /\ UNCHANGED <<diskVars, viewVars, clipVars, active_file_lba>>

(* MKDIR looks at the first slots only and leaves the parent as it was.    *)
MkDir ==
  /\ Idle
  /\ \E works \in ReadOutcomes :
       /\ unread' = ~works
       /\ LET entries == IF works THEN dir[selected] ELSE buf_dir
              free    == FreeSlots(entries) \cap 0 .. MkdirSlots - 1
              s       == FirstOf(free)
              updated == [entries EXCEPT ![s].type = "folder", ![s].start = 0]
          IN  IF free = {}
                THEN buf_dir' = entries /\ UNCHANGED pending
                ELSE /\ buf_dir' = updated
                     /\ pending' = <<DirWrite(updated)>>
  /\ UNCHANGED <<diskVars, viewVars, cfs_files, clipVars, noteVars>>

Browsing ==
  \/ \E d \in Drives : SelectDrive(d)
  \/ MountCfs
  \/ MountNtfs
  \/ MountFat32
  \/ MountUnknown
  \/ BackToDrives
  \/ BackToRoot
  \/ Relist
  \/ \E s \in Slots : EnterFolder(s)

Storing ==
  \/ Format
  \/ "file" \in Buttons /\ AddFile
  \/ "copy" \in Buttons /\ \E s \in Slots : Copy(s)
  \/ "paste" \in Buttons /\ Paste
  \/ "mkdir" \in Buttons /\ MkDir

Editing ==
  \/ "save" \in Buttons /\ (Save \/ \E s \in Slots : OpenFile(s))
  \/ "saveas" \in Buttons /\ (ChooseAction("file") \/ SaveAs)
  \/ "newfolder" \in Buttons /\ (ChooseAction("folder") \/ NewFolder)
  \/ {"saveas", "newfolder"} \cap Buttons # {} /\ OpenDialog

Next == WriteNext \/ WriteLost \/ Reboot \/ Browsing \/ Storing \/ Editing

Spec == Init /\ [][Next]_vars

(***************************************************************************)
(* Properties.                                                             *)
(***************************************************************************)

TypeOK ==
  /\ boot \in [Drives -> Formats]
  /\ dir \in [Drives -> [Slots -> Entries]]
  /\ data \in [Drives -> [Lbas -> Values]]
  /\ \A i \in DOMAIN pending : pending[i].where \in {"boot", "dir", "data", "text"} /\ pending[i].lba \in Addresses
  /\ selected \in Drives \cup {NoDrive}
  /\ opened \in BOOLEAN /\ is_mounted \in BOOLEAN
  /\ is_ntfs_drive \in BOOLEAN /\ is_fat32_drive \in BOOLEAN
  /\ current_folder_id \in Slots \cup {Root}
  /\ cfs_files \in [Slots -> Entries]
  /\ buf_dir \in [Slots -> Entries]
  /\ clipboard_active \in BOOLEAN /\ clipboard_is_folder \in BOOLEAN
  /\ buffer \in [Parts -> Values]
  /\ save_step \in {"closed", "choose", "file", "folder"}
  /\ active_file_lba \in Addresses
  /\ unread \in BOOLEAN

(* An entry of a CFS directory is lost or changed by nothing but FORMAT, a *)
(* handler that could not read the directory, and a SAVE into its sector:   *)
(* whoever else rewrites sector 1002 has read what is in it and leaves the  *)
(* entries that are in use alone.                                          *)
EntriesPersist ==
  [][\A d \in Drives : \A s \in Slots :
       boot[d] = "cfs" /\ dir[d][s].type # "free"
         => \/ dir'[d][s] = dir[d][s]
            \/ dir'[d] = ZeroDir
            \/ unread
            \/ Head(pending).where = "text"]_vars

(* What the explorer lists of a CFS drive is in the drive's directory, in  *)
(* the same slot and the same folder.                                      *)
CacheNeverLies ==
  InFiles /\ boot[selected] = "cfs" =>
    \A s \in Slots : cfs_files[s].type # "free" => cfs_files[s] = dir[selected][s]

(* Every entry lies in the root, or in a folder that can be reached from   *)
(* it by the OPEN buttons, however often the user changed drives and       *)
(* folders on the way, and nothing stored is out of reach: in any set of   *)
(* entries there is one that lies in the root or in a folder outside.      *)
Used(entries) == {s \in Slots : entries[s].type # "free"}

IsTree(entries) ==
  \A group \in SUBSET Used(entries) : group # {} =>
    \E s \in group :
      \/ entries[s].parent = Root
      \/ /\ entries[s].parent \in Used(entries) \ group
         /\ entries[entries[s].parent].type = "folder"

ReachableFromRoot == \A d \in Drives : boot[d] = "cfs" => IsTree(dir[d])

(* Directories are of their type and trees.                                *)
DirectoriesAreTrees == TypeOK /\ ReachableFromRoot

(* With COPY, PASTE and FORMAT alone a drive is a FileStore: the write of  *)
(* sector 1002 is the one moment at which a file comes to be, with all its *)
(* sectors, and the power may fail at any other.                           *)
Item(kind, parts) == [kind |-> kind, parts |-> parts]
NoParts == [k \in Parts |-> Zeros]

Stored(d, s) ==
  IF boot[d] # "cfs" THEN Item("nothing", NoParts)
  ELSE CASE dir[d][s].type = "free" -> Item("nothing", NoParts)
         [] dir[d][s].type = "file" -> Item("file", [k \in Parts |-> SectorOf(d, dir[d][s].start + k)])
         [] OTHER                   -> Item("folder", NoParts)

Held == IF clipboard_is_folder THEN Item("folder", NoParts) ELSE Item("file", buffer)

Stores == [d \in Drives |-> [s \in Slots |-> Stored(d, s)]]

Store == INSTANCE FileStore WITH Nothing <- Item("nothing", NoParts), store <- Stores, clip <- Held

ImplementsFileStore == Store!Spec
=============================================================================
