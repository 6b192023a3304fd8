---------------------------- MODULE Os1Explorer ----------------------------
(***************************************************************************)
(* The disk manager, the notepad and the SAVE AS dialog of OS1 (windows 4, *)
(* 0 and 2 of kernel.cpp, the rename keyboard that every window shows and  *)
(* the RECOVER list of window 10) on the disks of Os1Disks.                *)
(*                                                                         *)
(* file_table is the rows on the screen, the directory at sector 1002 is   *)
(* the files on the disk.  Every button reads the directory, changes it    *)
(* and the row of the same number, and writes it; what it works on is the  *)
(* drive that active_drive_idx means at that moment.  Transfers may fail   *)
(* and no button asks whether they did.                                    *)
(***************************************************************************)
EXTENDS Os1Disks

CONSTANTS
  FirstKinds,  (* what the first port's disk may be; the others hold CFS   *)
  FirstDirs,   (* directories that CFS disks may begin with                *)
  MaxClicks    (* bound: buttons the user presses                          *)

\* The lba of an entry: a file has the sector of its slot, a folder none, and
\* a free entry keeps what it had.
OwnSectors(dir) ==
  \A i \in Slots : dir[i].lba = CASE dir[i].type = 1 -> Sector(i)
                                  [] dir[i].type = 2 -> 0
                                  [] OTHER -> IF dir[i].lba = 0 THEN 0 ELSE Sector(i)
\* The disks begin with directories that FORMAT and the buttons below made.
ASSUME StartAssumption ==
  /\ FirstKinds \subseteq Kinds /\ MaxClicks \in Nat
  /\ \A dir \in FirstDirs : dir \in [Slots -> Entries] /\ OwnSectors(dir)

None == -1     (* no file, no selection; 255 for renaming_file_idx         *)

VARIABLES
  active_drive_idx, dsk_view, current_folder_view_idx, current_path_id,
  file_selection, renaming_file_idx,
  current_open_file, note_buf,
  dialog,        (* window 2: closed, or its save_step                     *)
  dir_ram,       (* 0x07000000: the directory read or changed last         *)
  oracle_ram,    (* 0x08000000: the same for the RECOVER list              *)
  shown,         (* history: the unit whose directory filled file_table,   *)
                 (* as long as every transfer since has worked, each row   *)
                 (* was changed with that disk, and no rename was given up *)
  clicks

listVars == <<drives, drive_count>>
lookVars == <<mft_known, is_ntfs>>
viewVars == <<active_drive_idx, dsk_view, current_folder_view_idx, current_path_id,
              file_selection, renaming_file_idx>>
noteVars == <<current_open_file, note_buf, dialog>>
vars == <<disk, drives, drive_count, file_table, mft_known, is_ntfs, fails,
          active_drive_idx, dsk_view, current_folder_view_idx, current_path_id,
          file_selection, renaming_file_idx, current_open_file, note_buf,
          dialog, dir_ram, oracle_ram, shown, clicks>>

NoFile == [exists |-> FALSE, is_folder |-> FALSE, name |-> "", sector |-> 0, parent |-> Root]
\* fs_init runs before any port is known: it names two files that no disk has
\* and clears the parents of eight rows.
FirstRows == [i \in Slots |-> CASE i <= 1 -> Label(NoFile, "fixed")
                                [] i \in 2 .. 7 -> NoFile
                                [] OTHER -> [NoFile EXCEPT !.parent = 0]]
First == CHOOSE p \in Ports : \A q \in Ports : p <= q

(* After start-up: ahci_mount_drive, ahci_read_mbr, then usb_mount_drive.   *)
(* A first disk that holds CFS may have been given it by FORMAT since then. *)
BootList(formatted) ==
  LET n == Cardinality(Ports)
      Port(i) == CHOOSE p \in Ports : Cardinality({q \in Ports : q < p}) = i
  IN  [i \in Places |->
         IF i < n THEN Drive(2, Port(i), Port(i), IF formatted /\ i = 0 THEN "formatted"
                                                  ELSE LabelOf(disk[Port(i)].kind))
         ELSE IF i = n /\ Sticks # {}
         THEN Drive(3, CHOOSE s \in Sticks : TRUE, StickPort, "none") ELSE Nothing]

Init ==
  /\ disk \in [Units -> [kind : Kinds, dir : FirstDirs \cup {NoDirectory},
                         data : {[l \in Lbas |-> "old"]}]]
  /\ \A u \in Units : IF u = First THEN disk[u].kind \in FirstKinds
                      ELSE disk[u].kind = IF u \in Ports THEN "cfs" ELSE "fat32"
  /\ \A u \in Units : disk[u].kind = "cfs" \/ disk[u].dir = NoDirectory
  /\ \E formatted \in {FALSE, disk[First].kind = "cfs"} : drives = BootList(formatted)
  /\ drive_count = Capped(Cardinality(Ports) + Cardinality(Sticks))
  /\ file_table = FirstRows
  /\ mft_known = FALSE /\ is_ntfs = FALSE /\ fails = 0
  /\ active_drive_idx = -1 /\ dsk_view = 0
  /\ current_folder_view_idx = -1 /\ current_path_id = Root
  /\ file_selection = None /\ renaming_file_idx = None
  /\ current_open_file = None /\ note_buf = "none" /\ dialog = "closed"
  /\ dir_ram = NoDirectory /\ oracle_ram = NoDirectory
  /\ shown = NoUnit /\ clicks = 0

Active == IF active_drive_idx \in Places THEN drives[active_drive_idx] ELSE Nothing

\* A press on a button of a window: the SAVE AS dialog blocks the others.
Press == clicks < MaxClicks /\ clicks' = clicks + 1 /\ dialog = "closed"
PressInDialog(step) == clicks < MaxClicks /\ clicks' = clicks + 1 /\ dialog = step

(***************************************************************************)
(* Transfers of a button: the directory read, the data and the directory   *)
(* written.  What fails leaves its target as it was.                       *)
(***************************************************************************)
Fetched(p, ok) == IF ok THEN disk[p].dir ELSE dir_ram
FreeSlots(dir) == {i \in Slots : dir[i].type = 0}
Lowest(S) == CHOOSE i \in S : \A j \in S : i <= j
\* A FreeSlot that looks for a row that is not on the screen.
FreeRows == {i \in Slots : ~file_table[i].exists}
SlotOfFreeRow(dir) == IF FreeRows = {} THEN None ELSE Lowest(FreeRows)
FreeSlot(dir) == IF FreeSlots(dir) = {} THEN None ELSE Lowest(FreeSlots(dir))

WriteData(d, p, lba, text, ok) ==
  IF ok /\ lba \in Lbas THEN [d EXCEPT ![p].data[lba] = text] ELSE d
WriteDir(d, p, dir, ok) == IF ok THEN [d EXCEPT ![p].dir = dir] ELSE d
DataAt(u, lba) == IF u \in Units /\ lba \in Lbas THEN disk[u].data[lba] ELSE "none"

\* What a button transfers at p; shown survives if all of it went well and,
\* where the button changes a row with the entry, if it went to that disk.
Attempts(p, steps) == [steps -> Outcomes(p)]
Transfers(p, outcomes) ==
  /\ Count(p, outcomes)
  /\ shown' = IF Failed(outcomes) THEN NoUnit ELSE shown
RowTransfers(p, outcomes) ==
  /\ Count(p, outcomes)
  /\ shown' = IF Failed(outcomes) \/ p # shown THEN NoUnit ELSE shown

(* + FILE and + FOLDER, SAVE and CREATE of the dialog: take the first free *)
(* entry of the directory just read.                                       *)
\* Created without the line that clears a folder's start_lba.
CreatedOver(dir, slot, t, n) ==
  [dir EXCEPT ![slot] = Entry(t, n, IF t = 1 THEN Sector(slot) ELSE dir[slot].lba)]
Created(dir, slot, t, n) ==
  [dir EXCEPT ![slot] = Entry(t, n, IF t = 1 THEN Sector(slot) ELSE 0)]

Create(p, o, t, n) ==
  LET dir  == Fetched(p, o["read"])
      slot == FreeSlot(dir)
      new  == IF slot = None THEN dir ELSE Created(dir, slot, t, n)
  IN  /\ dir_ram' = new
      /\ disk' = IF slot = None THEN disk ELSE WriteDir(disk, p, new, o["dir"])

\* Where SAVE and IMPORT put the data, and that without the slot added.
FirstDataSector(slot) == Sector(0)
DataLba(slot) == Sector(slot)

(***************************************************************************)
(* Window 4: the list of drives                                            *)
(***************************************************************************)
\* The planet opens the window and rescans; REF rescans.
OpenManager ==
  /\ Press /\ Mount
  /\ dsk_view' = 0 /\ current_path_id' = Root
  /\ UNCHANGED <<disk, file_table, lookVars, fails, active_drive_idx, current_folder_view_idx,
                 file_selection, renaming_file_idx, noteVars, dir_ram, oracle_ram, shown>>

Ref ==
  /\ Press /\ Mount
  /\ UNCHANGED <<disk, file_table, lookVars, fails, viewVars, noteVars, dir_ram, oracle_ram, shown>>

\* HOME forgets the folder, the X of the window does not.
Leave ==
  /\ Press
  /\ dsk_view' = 0 /\ current_path_id' = Root
  /\ current_folder_view_idx' \in {-1, current_folder_view_idx}
  /\ UNCHANGED <<disk, listVars, file_table, lookVars, fails, active_drive_idx,
                 file_selection, renaming_file_idx, noteVars, dir_ram, oracle_ram, shown>>

SelectDrive(i) ==
  /\ Press /\ dsk_view = 0 /\ i < drive_count
  /\ active_drive_idx' = i
  /\ UNCHANGED <<disk, listVars, file_table, lookVars, fails, dsk_view, current_folder_view_idx,
                 current_path_id, file_selection, renaming_file_idx, noteVars, dir_ram,
                 oracle_ram, shown>>

\* A buffer on the stack that no transfer filled holds what was there.
OnStack == {NoDirectory} \cup {disk[u].dir : u \in Units}
\* OPEN of a CFS disk reads four sectors into cfs_buf, which holds one.  The
\* rows are made of all four, but what lay behind the buffer is lost (where g++
\* puts it, the address of the screen), so this press may be the last one.
ClicksAfterOpen(kind) ==
  {clicks + 1} \cup (IF kind \in {"cfs", "apk"} THEN {MaxClicks} ELSE {})
OpenDrive ==
  /\ clicks < MaxClicks /\ dialog = "closed" /\ dsk_view = 0 /\ active_drive_idx # -1
  /\ dsk_view' = 1
  /\ \E o \in Attempts(Active.unit, {"look", "dir"}) :
       LET u    == Active.unit
           good == o["look"] /\ Reachable(active_drive_idx)
           kind == IF good THEN disk[u].kind ELSE "blank"
           read == o["dir"] /\ Reachable(active_drive_idx)
       IN  /\ Count(u, o) /\ LookAround(kind) /\ clicks' \in ClicksAfterOpen(kind)
           /\ \E dir \in (IF read THEN {disk[u].dir} ELSE OnStack), rows \in FoundRows(kind) :
                file_table' = OpenedTable(kind, BootSector(kind), dir, rows)
           /\ shown' = CASE kind = "cfs" /\ read -> u
                         [] kind \in {"ntfs", "gptother"} \/ (kind = "blank" /\ good) -> shown
                         [] OTHER -> NoUnit
  /\ UNCHANGED <<disk, listVars, active_drive_idx, current_folder_view_idx, current_path_id,
                 file_selection, renaming_file_idx, noteVars, dir_ram, oracle_ram>>

\* The protection asks the label only, and port is whatever the entry says.
FormatDrive ==
  /\ Press /\ dsk_view = 0 /\ active_drive_idx # -1 /\ ~Locked(Active)
  /\ LET p == Active.base_port
     IN  \E o \in Attempts(p, {"boot", "dir"}) :
           /\ Count(p, o)
           /\ shown' = IF Failed(o) \/ p = shown THEN NoUnit ELSE shown
           /\ disk' = LET d == IF o["boot"] THEN [disk EXCEPT ![p].kind = "cfs"] ELSE disk
                      IN  WriteDir(d, p, NoDirectory, o["dir"])
  /\ drives' = [drives EXCEPT ![active_drive_idx].label = "formatted"]
  /\ UNCHANGED <<drive_count, file_table, lookVars, viewVars, noteVars, dir_ram, oracle_ram>>

(***************************************************************************)
(* Window 4: the files of a drive                                          *)
(***************************************************************************)
Back ==
  /\ Press /\ dsk_view = 1
  /\ dsk_view' = 0 /\ active_drive_idx' = -1
  /\ UNCHANGED <<disk, listVars, file_table, lookVars, fails, current_folder_view_idx,
                 current_path_id, file_selection, renaming_file_idx, noteVars, dir_ram,
                 oracle_ram, shown>>

BackToRoot ==
  /\ Press /\ dsk_view = 2
  /\ dsk_view' = 1 /\ current_path_id' = Root
  /\ UNCHANGED <<disk, listVars, file_table, lookVars, fails, active_drive_idx,
                 current_folder_view_idx, file_selection, renaming_file_idx, noteVars, dir_ram,
                 oracle_ram, shown>>

\* A row that + FILE or + FOLDER writes keeps the folder it was in.
NewRow(i, t) == [file_table[i] EXCEPT !.exists = TRUE, !.is_folder = t = 2, !.name = "auto",
                                      !.sector = IF t = 1 THEN Sector(i) ELSE 0]

NewInRoot(t) ==
  /\ Press /\ dsk_view = 1 /\ SaysCfs(Active)
  /\ LET p == Active.base_port
     IN  \E o \in Attempts(p, {"read", "dir"}) :
           LET slot == FreeSlot(Fetched(p, o["read"]))
           IN  /\ RowTransfers(p, o) /\ Create(p, o, t, "auto")
               /\ file_table' = IF slot = None THEN file_table
                                ELSE [file_table EXCEPT ![slot] = NewRow(slot, t)]
  /\ UNCHANGED <<listVars, lookVars, viewVars, noteVars, oracle_ram>>

\* In a folder the row is made in memory only, at the first row that is free.
NewInFolder(t) ==
  /\ Press /\ dsk_view = 2 /\ SaysCfs(Active)
  /\ file_table' = IF FreeRows = {} THEN file_table
                   ELSE LET i == Lowest(FreeRows)
                        IN  [file_table EXCEPT ![i] =
                              [NewRow(i, t) EXCEPT !.parent = current_folder_view_idx]]
  /\ UNCHANGED <<disk, listVars, lookVars, fails, viewVars, noteVars, dir_ram, oracle_ram, shown>>

\* After a GPT disk with NTFS was opened once, every row that exists shows.
Shown(f) ==
  \/ dsk_view = 1 /\ renaming_file_idx = None /\ file_table[f].exists
     /\ (is_ntfs \/ file_table[f].parent = Root)
  \/ dsk_view = 2 /\ file_table[f].exists /\ file_table[f].parent = current_folder_view_idx

\* A click on a row enters the folder or shows the file in the notepad: its
\* sector of the drive that is selected.
Reads(f) == ~file_table[f].is_folder /\ (file_table[f].sector # 0 \/ dsk_view = 2)
FileStep(f) == IF Reads(f) THEN {"file"} ELSE {}
OpenRow(f, ok) ==
  /\ file_selection' = f
  /\ IF file_table[f].is_folder
     THEN /\ dsk_view' = 2 /\ current_folder_view_idx' = f /\ current_path_id' = f
          /\ UNCHANGED <<current_open_file, note_buf>>
     ELSE /\ current_open_file' = f
          /\ note_buf' = IF ok /\ Reachable(active_drive_idx)
                         THEN DataAt(Active.unit, file_table[f].sector) ELSE "none"
          /\ UNCHANGED <<dsk_view, current_folder_view_idx, current_path_id>>

ClickRow(f) ==
  /\ Press /\ Shown(f)
  /\ ~(dsk_view = 1 /\ file_selection = f /\ SaysFat(Active))
  /\ \E o \in Attempts(Active.unit, FileStep(f)) :
       Transfers(Active.unit, o) /\ OpenRow(f, Reads(f) /\ ~Failed(o))
  /\ UNCHANGED <<disk, listVars, file_table, lookVars, active_drive_idx, renaming_file_idx,
                 dialog, dir_ram, oracle_ram>>

\* DELETE marks the entry of the same number.
Deleted(dir, f) == [dir EXCEPT ![f].type = 0]
Erase(f, p, o) ==
  LET dir == Deleted(Fetched(p, o["read"]), f)
  IN  /\ RowTransfers(p, o)
      /\ dir_ram' = dir /\ disk' = WriteDir(disk, p, dir, o["dir"])
      /\ file_table' = [file_table EXCEPT ![f].exists = FALSE]

Delete(f) ==
  /\ Press /\ dsk_view = 1 /\ Shown(f) /\ file_selection = f /\ SaysCfs(Active)
  /\ \E o \in Attempts(Active.base_port, {"read", "dir"}) : Erase(f, Active.base_port, o)
  /\ file_selection' = None
  /\ UNCHANGED <<listVars, lookVars, active_drive_idx, dsk_view, current_folder_view_idx,
                 current_path_id, renaming_file_idx, noteVars, oracle_ram>>

\* Inside a folder DELETE works on drives that FORMAT labelled, and the same
\* press then goes on to the row it deleted.
DeleteInFolder(f) ==
  /\ Press /\ dsk_view = 2 /\ Shown(f) /\ file_selection = f /\ Active.label = "formatted"
  /\ \E o \in Attempts(Active.base_port, {"read", "dir"} \cup FileStep(f)) :
       Erase(f, Active.base_port, o) /\ OpenRow(f, Reads(f) /\ o["file"])
  /\ UNCHANGED <<listVars, lookVars, active_drive_idx, renaming_file_idx, dialog, oracle_ram>>

StartRename(f) ==
  /\ Press /\ Shown(f)
  /\ dsk_view = 1 => file_selection = f /\ SaysCfs(Active)
  /\ renaming_file_idx' = f
  /\ shown' = IF renaming_file_idx \in {None, f} THEN shown ELSE NoUnit
  /\ UNCHANGED <<disk, listVars, file_table, lookVars, fails, active_drive_idx, dsk_view,
                 current_folder_view_idx, current_path_id, file_selection, noteVars, dir_ram,
                 oracle_ram>>

\* Every window that the dialog does not block shows the keyboard, and so
\* does the dialog.
PressOnKeyboard == clicks < MaxClicks /\ clicks' = clicks + 1 /\ renaming_file_idx # None
EditName ==
  /\ PressOnKeyboard
  /\ \E n \in {"", "typed"} : file_table' = [file_table EXCEPT ![renaming_file_idx].name = n]
  /\ UNCHANGED <<disk, listVars, lookVars, fails, viewVars, noteVars, dir_ram, oracle_ram, shown>>

Renamed(dir, f) == [dir EXCEPT ![f].name = file_table[f].name]
SaveName ==
  /\ PressOnKeyboard
  /\ \E p \in PortsAt(active_drive_idx) :
       \E o \in Attempts(p, {"read", "dir"}) :
         LET dir == Renamed(Fetched(p, o["read"]), renaming_file_idx)
         IN  /\ RowTransfers(p, o)
             /\ dir_ram' = dir /\ disk' = WriteDir(disk, p, dir, o["dir"])
  /\ renaming_file_idx' = None
  /\ UNCHANGED <<listVars, file_table, lookVars, active_drive_idx, dsk_view,
                 current_folder_view_idx, current_path_id, file_selection, noteVars, oracle_ram>>

\* IMPORT copies a file of a FAT disk to the last drive that says CFS among
\* the first four; port 0 means that there is none.
ImportPort ==
  LET cfs == {i \in 0 .. 3 : SaysCfs(drives[i])}
  IN  IF cfs = {} THEN 0 ELSE drives[CHOOSE i \in cfs : \A j \in cfs : j <= i].base_port
Import(f) ==
  /\ Press /\ dsk_view = 1 /\ Shown(f) /\ file_selection = f /\ SaysFat(Active)
  /\ LET p == ImportPort
         src == Active.base_port
     IN  IF p = 0 THEN UNCHANGED <<disk, dir_ram, fails, shown>>
         ELSE \E o \in Attempts(p, {"read", "data", "dir"}), ok \in Outcomes(src) :
                LET slot == FreeSlot(Fetched(p, o["read"]))
                    text == IF ok THEN DataAt(src, file_table[f].sector) ELSE "none"
                    new  == Created(Fetched(p, o["read"]), slot, 1, file_table[f].name)
                IN  /\ Transfers(p, [o EXCEPT !["read"] = @ /\ ok])
                    /\ dir_ram' = IF slot = None THEN Fetched(p, o["read"]) ELSE new
                    /\ disk' = IF slot = None THEN disk
                               ELSE WriteDir(WriteData(disk, p, DataLba(slot), text, o["data"]),
                                             p, new, o["dir"])
  /\ UNCHANGED <<listVars, file_table, lookVars, viewVars, noteVars, oracle_ram>>

\* Window 10 lists the entries that are free but have a name.
Ghosts(dir) == {i \in Slots : dir[i].type = 0 /\ dir[i].name # ""}
Recovered(dir, i) == [dir EXCEPT ![i].type = IF dir[i].lba > 0 THEN 1 ELSE 2]
Recover(i) ==
  /\ Press /\ Reachable(active_drive_idx)
  /\ LET p == Active.base_port
     IN  \E o \in Attempts(p, {"read", "dir"}) :
           LET seen == IF o["read"] THEN disk[p].dir ELSE oracle_ram
           IN  /\ i \in Ghosts(seen)
               /\ Transfers(p, o)
               /\ oracle_ram' = Recovered(seen, i)
               /\ disk' = WriteDir(disk, p, Recovered(seen, i), o["dir"])
  /\ UNCHANGED <<listVars, file_table, lookVars, viewVars, noteVars, dir_ram>>

(***************************************************************************)
(* Window 0, the notepad, and window 2, SAVE AS                            *)
(***************************************************************************)
TypeText ==
  /\ Press /\ note_buf' = "typed"
  /\ UNCHANGED <<disk, listVars, file_table, lookVars, fails, viewVars, current_open_file,
                 dialog, dir_ram, oracle_ram, shown>>

NewNote ==
  /\ Press /\ note_buf' = "none" /\ current_open_file' = None
  /\ UNCHANGED <<disk, listVars, file_table, lookVars, fails, viewVars, dialog, dir_ram,
                 oracle_ram, shown>>

\* SAVE writes the sector of the row, on the drive that is selected now.
SaveNote ==
  /\ Press /\ current_open_file # None /\ file_table[current_open_file].sector # 0
  /\ \E p \in PortsAt(active_drive_idx) :
       \E o \in Attempts(p, {"write"}) :
         /\ Transfers(p, o)
         /\ disk' = WriteData(disk, p, file_table[current_open_file].sector, note_buf, o["write"])
  /\ UNCHANGED <<listVars, file_table, lookVars, viewVars, noteVars, dir_ram, oracle_ram>>

\* The dialog shows a drive: one that is not in the list becomes the first.
Clamped == IF Reachable(active_drive_idx) THEN active_drive_idx ELSE 0
SaveAs ==
  /\ Press /\ dialog' = "drive" /\ active_drive_idx' = Clamped
  /\ UNCHANGED <<disk, listVars, file_table, lookVars, fails, dsk_view, current_folder_view_idx,
                 current_path_id, file_selection, renaming_file_idx, current_open_file, note_buf,
                 dir_ram, oracle_ram, shown>>

\* The next drive, and its files if its label says CFS.
\* TableOfNext before "Laufwerk wechseln & Liste sauber laden": the rows stay.
TableKept(d, dir) ==
  IF SaysCfs(d) THEN file_table ELSE [i \in Slots |-> Absent(file_table[i])]
TableOfNext(d, dir) ==
  IF SaysCfs(d) THEN CfsRows(dir) ELSE [i \in Slots |-> Absent(file_table[i])]
NextDrive ==
  /\ PressInDialog("drive") /\ drive_count > 0
  /\ LET n == (active_drive_idx + 1) % drive_count
         u == drives[n].unit
     IN  /\ active_drive_idx' = n
         /\ \E o \in Attempts(u, {"read"}) :
              LET dir == IF o["read"] THEN disk[u].dir ELSE dir_ram
              IN  /\ Count(u, o)
                  /\ dir_ram' = dir /\ file_table' = TableOfNext(drives[n], dir)
                  /\ shown' = IF o["read"] THEN u ELSE NoUnit
  /\ current_path_id' = Root
  /\ UNCHANGED <<disk, listVars, lookVars, dsk_view, current_folder_view_idx, file_selection,
                 renaming_file_idx, noteVars, oracle_ram>>

EnterFolder ==
  /\ PressInDialog("drive")
  /\ current_path_id' \in {Root} \cup {f \in Slots : file_table[f].exists /\ file_table[f].is_folder
                                                     /\ file_table[f].parent = current_path_id}
  /\ UNCHANGED <<disk, listVars, file_table, lookVars, fails, active_drive_idx, dsk_view,
                 current_folder_view_idx, file_selection, renaming_file_idx, noteVars, dir_ram,
                 oracle_ram, shown>>

Turn(from, to) ==
  /\ PressInDialog(from) /\ dialog' = to
  /\ UNCHANGED <<disk, listVars, file_table, lookVars, fails, viewVars, current_open_file,
                 note_buf, dir_ram, oracle_ram, shown>>
TurnPage == Turn("drive", "name") \/ Turn("drive", "folder")
CloseDialog == \E from \in {"drive", "name", "folder"} : Turn(from, "closed")

\* SAVE: the text goes to the sector of the free entry, then the directory.
SaveRow(slot) == [exists |-> TRUE, is_folder |-> FALSE, name |-> "typed",
                  sector |-> Sector(slot), parent |-> current_path_id]
SaveFile ==
  /\ PressInDialog("name")
  /\ \E p \in PortsAt(active_drive_idx) :
       \E o \in Attempts(p, {"read", "data", "dir"}) :
         LET dir  == Fetched(p, o["read"])
             slot == FreeSlot(dir)
             new  == IF slot = None THEN dir ELSE Created(dir, slot, 1, "typed")
         IN  /\ RowTransfers(p, o) /\ dir_ram' = new
             /\ disk' = IF slot = None THEN disk
                        ELSE WriteDir(WriteData(disk, p, DataLba(slot), note_buf, o["data"]),
                                      p, new, o["dir"])
             /\ file_table' = IF slot = None THEN file_table
                              ELSE [file_table EXCEPT ![slot] = SaveRow(slot)]
  /\ dialog' = "closed"
  /\ UNCHANGED <<listVars, lookVars, viewVars, current_open_file, note_buf, oracle_ram>>

\* CREATE makes the folder on the disk only.
MakeFolder ==
  /\ PressInDialog("folder")
  /\ \E p \in PortsAt(active_drive_idx) :
       \E o \in Attempts(p, {"read", "dir"}) :
         /\ Transfers(p, o) /\ Create(p, o, 2, "typed")
  /\ dialog' = "drive" /\ active_drive_idx' = Clamped
  /\ UNCHANGED <<listVars, file_table, lookVars, dsk_view, current_folder_view_idx,
                 current_path_id, file_selection, renaming_file_idx, current_open_file,
                 note_buf, oracle_ram>>

Next ==
  \/ OpenManager \/ Ref \/ Leave \/ OpenDrive \/ FormatDrive \/ Back \/ BackToRoot
  \/ \E i \in 0 .. drive_count - 1 : SelectDrive(i)
  \/ \E t \in 1 .. 2 : NewInRoot(t) \/ NewInFolder(t)
  \/ \E f \in Slots : ClickRow(f) \/ Delete(f) \/ DeleteInFolder(f) \/ StartRename(f) \/ Import(f) \/ Recover(f)
  \/ EditName \/ SaveName
  \/ TypeText \/ NewNote \/ SaveNote \/ SaveAs
  \/ NextDrive \/ EnterFolder \/ TurnPage \/ CloseDialog \/ SaveFile \/ MakeFolder

Spec == Init /\ [][Next]_vars

(***************************************************************************)
(* Properties                                                              *)
(***************************************************************************)
\* The variables keep their types; the list never outgrows its places.
TypeOK ==
  /\ disk \in [Units -> [kind : Kinds, dir : [Slots -> Entries], data : [Lbas -> Texts]]]
  /\ drives \in [Places -> [type : {0, 2, 3}, unit : Units \cup {NoUnit},
                            base_port : Nat, label : Labels]]
  /\ drive_count \in 0 .. MaxDrives /\ active_drive_idx \in -1 .. MaxDrives - 1
  /\ file_table \in [Slots -> Rows]
  /\ mft_known \in BOOLEAN /\ is_ntfs \in BOOLEAN /\ fails \in 0 .. MaxFails
  /\ dsk_view \in 0 .. 2 /\ current_folder_view_idx \in Slots \cup {-1}
  /\ current_path_id \in Slots \cup {Root}
  /\ file_selection \in Slots \cup {None} /\ renaming_file_idx \in Slots \cup {None}
  /\ current_open_file \in Slots \cup {None} /\ note_buf \in Texts
  /\ dialog \in {"closed", "drive", "name", "folder"}
  /\ dir_ram \in [Slots -> Entries] /\ oracle_ram \in [Slots -> Entries]
  /\ shown \in Units \cup {NoUnit} /\ clicks \in 0 .. MaxClicks

\* A file of a directory owns the data sector of its slot and a folder owns
\* none, whichever button made the entry and whatever it was before: two
\* files never share a sector.
SlotOwnsItsSector ==
  \A u \in Units, i \in Slots :
    LET e == disk[u].dir[i]
    IN  e.type # 0 => e.lba = IF e.type = 1 THEN Sector(i) ELSE 0

\* Lists and directories are of their types, and no files share a sector.
DirectoriesAreSound == TypeOK /\ SlotOwnsItsSector

\* As long as the rows on the screen are those of a disk, a row at the root is
\* the entry of its number there: its buttons change the file that the user
\* sees.  The name of the row under the keyboard is not yet that of the entry.
RootRowsAreReal ==
  shown \in Units =>
    \A f \in Slots :
      LET row == file_table[f]
          e   == disk[shown].dir[f]
      IN  (row.exists /\ row.parent = Root) =>
            /\ e.type = (IF row.is_folder THEN 2 ELSE 1)
            /\ f # renaming_file_idx => e.name = row.name

\* A button whose transfers work changes at most one entry of one disk, or
\* formats it; a living entry is only renamed or given free.
OneEntryPerClick ==
  [][fails' = fails =>
       \A u \in Units :
         LET old == disk[u].dir
             new == disk'[u].dir
             changed == {i \in Slots : old[i] # new[i]}
         IN  new = NoDirectory \/ (Cardinality(changed) <= 1 /\ \A i \in changed :
               old[i].type # 0 => /\ new[i].type \in {0, old[i].type}
                                  /\ new[i].lba = old[i].lba)]_vars

\* Only SAVE of the notepad writes over a living file: new files, imports
\* and the dialog put their text where no file of that disk is.
LivingDataKept ==
  [][(fails' = fails /\ ~SaveNote) =>
       \A u \in Units, i \in Slots :
         disk[u].dir[i].type = 1 =>
           disk'[u].data[disk[u].dir[i].lba] = disk[u].data[disk[u].dir[i].lba]]_vars
=============================================================================
