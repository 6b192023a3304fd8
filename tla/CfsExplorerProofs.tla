------------------------- MODULE CfsExplorerProofs -------------------------
EXTENDS CfsExplorer, WellFoundedInduction, SequenceTheorems, TLAPS

LEMMA FirstOfIsFree ==
  ASSUME NEW free \in SUBSET Nat, free # {}
  PROVE  FirstOf(free) \in free
<1> DEFINE Less == OpToRel(<, Nat)
<1>1. IsWellFoundedOn(Less, Nat)
  BY NatLessThanWellFounded
<1>2. PICK s \in free : \A t \in free : ~ (<<t, s>> \in Less)
  <2> HIDE DEF Less
  <2> QED BY <1>1, WFMin
<1>3. \A t \in free : s <= t
  <2>1. SUFFICES ASSUME NEW t \in free, t < s PROVE FALSE
    OBVIOUS
  <2>2. Less = {p \in Nat \X Nat : p[1] < p[2]}
    BY DEF OpToRel
  <2>3. <<t, s>> \in {p \in Nat \X Nat : p[1] < p[2]}
    BY <2>1
  <2> QED BY <1>2, <2>2, <2>3
<1> QED
  BY <1>3 DEF FirstOf

LEMMA ExtentsApart ==
  ASSUME NEW s \in Nat, NEW t \in Nat, s < t, NEW f \in Nat \ {0}
  PROVE  s * f + f - 1 < t * f
<1>1. PICK m \in Nat : t = s + 1 + m
  <2>1. t - s - 1 \in Nat /\ t = s + 1 + (t - s - 1)
    OBVIOUS
  <2> QED BY <2>1
<1>2. m * f \in Nat /\ s * f \in Nat
  OBVIOUS
<1>3. t * f = s * f + f + m * f
  BY <1>1
<1> QED BY <1>2, <1>3
-----------------------------------------------------------------------------
(* The queue of a handler other than SAVE writes sector 1002 at most with  *)
(* one value, and sector 0 with the mark of CFS.                           *)

MayWrite(w, entries) ==
  /\ w.where = "dir" => w.value = entries
  /\ w.where = "boot" => w.value = "cfs"
  /\ w.where # "text"

WritesOnly(queue, entries) ==
  \E W : queue \in Seq(W) /\ \A w \in W : MayWrite(w, entries)

LEMMA QueueOf ==
  ASSUME NEW entries, NEW W, NEW queue \in Seq(W),
         \A w \in W : MayWrite(w, entries)
  PROVE  WritesOnly(queue, entries)
BY DEF WritesOnly

LEMMA EmptyQueue ==
  ASSUME NEW entries
  PROVE  WritesOnly(<< >>, entries)
<1> DEFINE W == {}
<1>1. << >> \in Seq(W) /\ \A w \in W : MayWrite(w, entries)
  OBVIOUS
<1> HIDE DEF W
<1> QED BY <1>1, QueueOf

LEMMA DataOnlyQueue ==
  ASSUME NEW entries, NEW lba, NEW value
  PROVE  WritesOnly(<<DataWrite(lba, value)>>, entries)
<1> DEFINE W == {DataWrite(lba, value)}
<1>1. <<DataWrite(lba, value)>> \in Seq(W)
  OBVIOUS
<1>2. \A w \in W : MayWrite(w, entries)
  BY DEF DataWrite, MayWrite
<1> HIDE DEF W
<1> QED BY <1>1, <1>2, QueueOf

LEMMA DirQueue ==
  ASSUME NEW entries
  PROVE  WritesOnly(<<DirWrite(entries)>>, entries)
<1> DEFINE W == {DirWrite(entries)}
<1>1. <<DirWrite(entries)>> \in Seq(W)
  OBVIOUS
<1>2. \A w \in W : MayWrite(w, entries)
  BY DEF DirWrite, MayWrite
<1> HIDE DEF W
<1> QED BY <1>1, <1>2, QueueOf

LEMMA FormatQueue == WritesOnly(FormatWrites, ZeroDir)
<1> DEFINE W == {BootWrite("cfs"), DirWrite(ZeroDir)}
<1>1. FormatWrites \in Seq(W)
  BY DEF FormatWrites
<1>2. \A w \in W : MayWrite(w, ZeroDir)
  BY DEF BootWrite, DirWrite, MayWrite
<1> HIDE DEF W
<1> QED BY <1>1, <1>2, QueueOf

LEMMA SaveAsQueue ==
  ASSUME NEW entries, NEW lba, NEW value
  PROVE  WritesOnly(<<DataWrite(lba, value), DirWrite(entries)>>, entries)
<1> DEFINE W == {DataWrite(lba, value), DirWrite(entries)}
<1>1. <<DataWrite(lba, value), DirWrite(entries)>> \in Seq(W)
  OBVIOUS
<1>2. \A w \in W : MayWrite(w, entries)
  BY DEF DataWrite, DirWrite, MayWrite
<1> HIDE DEF W
<1> QED BY <1>1, <1>2, QueueOf

LEMMA PasteQueue ==
  ASSUME NEW entries, NEW lba
  PROVE  WritesOnly(PasteWrites(lba, entries), entries)
<1> DEFINE Part(k) == DataWrite(lba + k - 1, buffer[k - 1])
           W       == {Part(k) : k \in 1 .. FileSectors} \cup {DirWrite(entries)}
<1>1. [k \in 1 .. FileSectors |-> Part(k)] \in Seq(W)
  <2>1. [k \in 1 .. FileSectors |-> Part(k)] \in [1 .. FileSectors -> W]
    OBVIOUS
  <2> HIDE DEF W, Part
  <2> QED BY <2>1, SectorsAssumption
<1>2. <<DirWrite(entries)>> \in Seq(W)
  OBVIOUS
<1>3. PasteWrites(lba, entries) \in Seq(W)
  <2>1. PasteWrites(lba, entries) = [k \in 1 .. FileSectors |-> Part(k)] \o <<DirWrite(entries)>>
    BY DEF PasteWrites
  <2> HIDE DEF W, Part
  <2> QED BY <1>1, <1>2, <2>1
<1>4. \A w \in W : MayWrite(w, entries)
  <2>1. \A k \in 1 .. FileSectors : Part(k).where = "data"
    BY DEF DataWrite
  <2>2. DirWrite(entries).value = entries /\ DirWrite(entries).where = "dir"
    BY DEF DirWrite
  <2> QED BY <2>1, <2>2 DEF MayWrite
<1> HIDE DEF W
<1> QED BY <1>3, <1>4, QueueOf

LEMMA QueueMovesOn ==
  ASSUME NEW entries, WritesOnly(pending, entries), pending # << >>
  PROVE  /\ WritesOnly(Tail(pending), entries)
         /\ Head(pending).where = "dir" => Head(pending).value = entries
         /\ Head(pending).where = "boot" => Head(pending).value = "cfs"
         /\ Head(pending).where # "text"
<1>1. PICK W : pending \in Seq(W) /\ \A w \in W : MayWrite(w, entries)
  BY DEF WritesOnly
<1>2. Tail(pending) \in Seq(W) /\ Head(pending) \in W
  BY <1>1
<1> QED BY <1>1, <1>2 DEF WritesOnly, MayWrite

-----------------------------------------------------------------------------
(* Types.  Every entry the system holds begins at a sector of 16 bits, and *)
(* the queue holds sectors of the kind it says.                            *)

Dirs == [Slots -> Entries]

BootWrites == [where : {"boot"}, lba : {0}, value : {"cfs"}]
DirWrites  == [where : {"dir"}, lba : {0}, value : Dirs]
DataWrites == [where : {"data"}, lba : Addresses, value : Values]
TextWrites == [where : {"text"}, lba : {DirLba}, value : Dirs]
Writes     == BootWrites \cup DirWrites \cup DataWrites \cup TextWrites

DiskTyped ==
  /\ boot \in [Drives -> Formats]
  /\ dir \in [Drives -> Dirs]
  /\ data \in [Drives -> [Lbas -> Values]]

ViewTyped ==
  /\ selected \in Drives \cup {NoDrive}
  /\ opened \in BOOLEAN /\ is_mounted \in BOOLEAN
  /\ is_ntfs_drive \in BOOLEAN /\ is_fat32_drive \in BOOLEAN
  /\ current_folder_id \in Slots \cup {Root}

ListTyped == cfs_files \in Dirs /\ buf_dir \in Dirs

ClipTyped ==
  /\ clipboard_active \in BOOLEAN /\ clipboard_is_folder \in BOOLEAN
  /\ buffer \in [Parts -> Values]

NoteTyped ==
  /\ unread \in BOOLEAN
  /\ save_step \in {"closed", "choose", "file", "folder"}
  /\ active_file_lba \in Addresses

TypeInv == DiskTyped /\ pending \in Seq(Writes) /\ ViewTyped /\ ListTyped /\ ClipTyped /\ NoteTyped

LEMMA SmallAddresses == Addresses \subseteq Nat /\ \A n \in Nat : n <= 10000 => n \in Addresses
<1>1. LastLba \in Nat /\ 10000 <= LastLba
  BY DEF LastLba
<1> QED BY <1>1 DEF Addresses

LEMMA LbaFacts ==
  /\ NSlots \in Nat \ {0} /\ FileSectors \in Nat \ {0}
  /\ 0 \in Addresses /\ AppLba \in Addresses /\ ScratchLba \in Addresses /\ DirLba \in Addresses
  /\ 0 \in Slots /\ 0 \in Parts
<1>1. NSlots \in Nat \ {0} /\ FileSectors \in Nat \ {0}
  BY SlotsAssumption, SectorsAssumption
<1>2. 0 \in Addresses /\ AppLba \in Addresses /\ ScratchLba \in Addresses /\ DirLba \in Addresses
  BY SmallAddresses DEF AppLba, ScratchLba, DirLba
<1> QED BY <1>1, <1>2 DEF Slots, Parts

LEMMA SlotLbas ==
  ASSUME NEW s \in Slots
  PROVE  /\ 4000 + s \in Addresses /\ PasteTarget(s) \in Addresses
         /\ \A k \in Parts : PasteTarget(s) + k \in Addresses /\ PasteTarget(s) + k \in Lbas
<1>1. s \in Nat /\ s < NSlots /\ NSlots \in Nat \ {0} /\ FileSectors \in Nat \ {0}
  BY LbaFacts DEF Slots
<1>2. PICK m \in Nat : NSlots = s + 1 + m
  <2>1. NSlots - s - 1 \in Nat /\ NSlots = s + 1 + (NSlots - s - 1)
    BY <1>1
  <2> QED BY <2>1
<1>3. PICK n \in Nat : FileSectors = 1 + n
  <2>1. FileSectors - 1 \in Nat /\ FileSectors = 1 + (FileSectors - 1)
    BY <1>1
  <2> QED BY <2>1
<1>4. s * FileSectors \in Nat /\ m * FileSectors \in Nat /\ s * n \in Nat
  BY <1>1, <1>2, <1>3
<1>5. NSlots * FileSectors = s * FileSectors + FileSectors + m * FileSectors
  BY <1>1, <1>2
<1>6. s * FileSectors = s + s * n
  BY <1>1, <1>3
<1> DEFINE a == s * FileSectors
           b == NSlots * FileSectors
<1>7. a \in Nat /\ b \in Nat /\ a + FileSectors <= b /\ s <= a
  BY <1>1, <1>4, <1>5, <1>6
<1>8. 4000 + b <= 10000
  BY SectorsAssumption DEF AppLba
<1> HIDE DEF a, b
<1>9. /\ 4000 + s \in Addresses /\ 4000 + a \in Addresses
      /\ \A k \in 0 .. FileSectors - 1 :
           4000 + a + k \in Addresses /\ 4000 + a + k \in 4000 .. 4000 + b - 1
  <2>1. 4000 + s \in Nat /\ 4000 + s <= 10000 /\ 4000 + a \in Nat /\ 4000 + a <= 10000
    BY <1>1, <1>7, <1>8
  <2>2. ASSUME NEW k \in 0 .. FileSectors - 1
        PROVE  4000 + a + k \in Nat /\ 4000 + a + k <= 10000 /\ 4000 + a + k \in 4000 .. 4000 + b - 1
    BY <1>1, <1>7, <1>8
  <2> QED BY <2>1, <2>2, SmallAddresses
<1>10. PasteTarget(s) = 4000 + a
  BY DEF PasteTarget, a
<1>11. 4000 .. 4000 + b - 1 \subseteq Lbas
  BY DEF Lbas, b
<1> QED BY <1>9, <1>10, <1>11 DEF Parts

LEMMA EntriesTyped ==
  /\ Zeroed \in Entries /\ Cleared \in Entries /\ ForeignEnt \in Entries
  /\ ZeroDir \in Dirs /\ ForeignDir \in Dirs /\ NoFiles \in Dirs
  /\ RawDirs \subseteq Dirs /\ TextDirs \subseteq Dirs
  /\ \A lba \in Addresses : \A parent \in Slots \cup {Root} : File(lba, parent) \in Entries
  /\ \A parent \in Slots \cup {Root} : Folder(parent) \in Entries
<1>1. /\ Zeroed \in Entries /\ Cleared \in Entries /\ ForeignEnt \in Entries
  BY LbaFacts, ForeignAssumption DEF Zeroed, Cleared, ForeignEnt, Entries
<1>2. /\ \A lba \in Addresses : \A parent \in Slots \cup {Root} : File(lba, parent) \in Entries
      /\ \A parent \in Slots \cup {Root} : Folder(parent) \in Entries
  BY LbaFacts DEF File, Folder, Entries
<1>3. RawDirs \subseteq Dirs
  BY <1>1 DEF RawDirs, Dirs
<1>4. TextDirs \subseteq Dirs
  BY <1>1 DEF TextDirs, Dirs
<1> QED BY <1>1, <1>2, <1>3, <1>4 DEF ZeroDir, ForeignDir, NoFiles, Dirs

LEMMA ListingTyped ==
  ASSUME NEW folder \in Slots \cup {Root}
  PROVE  ForeignListing(folder) \in Dirs
<1>1. ASSUME NEW s \in Slots, s < Len(ForeignStarts)
      PROVE  ForeignStarts[s + 1] \in Addresses
  <2>1. s \in Nat /\ Len(ForeignStarts) \in Nat
    BY LbaFacts, ForeignAssumption DEF Slots
  <2>2. s + 1 \in 1 .. Len(ForeignStarts)
    BY <1>1, <2>1
  <2> QED BY <2>2, ForeignAssumption
<1>2. \A s \in Slots : s >= Len(ForeignStarts) \/ s < Len(ForeignStarts)
  BY LbaFacts, ForeignAssumption DEF Slots
<1> QED BY <1>1, <1>2, EntriesTyped DEF ForeignListing, Dirs

LEMMA FromDirTyped ==
  ASSUME NEW entries \in Dirs
  PROVE  FromDir(entries) \in Dirs
BY EntriesTyped DEF FromDir, Dirs

LEMMA TypedTypes ==
  ASSUME TypeInv
  PROVE  TypeOK
<1>1. \A i \in DOMAIN pending : pending[i].where \in {"boot", "dir", "data", "text"} /\ pending[i].lba \in Addresses
  <2>1. \A i \in DOMAIN pending : pending[i] \in Writes
    BY DEF TypeInv
  <2>2. \A w \in Writes : w.where \in {"boot", "dir", "data", "text"} /\ w.lba \in Addresses
    BY LbaFacts DEF Writes, BootWrites, DirWrites, DataWrites, TextWrites
  <2> QED BY <2>1, <2>2
<1> QED BY <1>1 DEF TypeInv, DiskTyped, ViewTyped, ListTyped, Dirs, ClipTyped, NoteTyped, TypeOK

LEMMA ValuesThere ==
  /\ Zeros \in Values /\ Note \in Values /\ <<"other", 0>> \in Values
  /\ \A k \in Parts : <<"app", k>> \in Values
BY LbaFacts DEF Zeros, Note, Values, Docs

LEMMA OtherThere ==
  ASSUME NEW l \in Nat
  PROVE  Other(l) \in Values
BY LbaFacts DEF Other, Values, Docs, Parts

LEMMA SectorThere ==
  ASSUME DiskTyped, NEW d \in Drives, NEW l \in Nat
  PROVE  SectorOf(d, l) \in Values
BY OtherThere DEF SectorOf, DiskTyped

LEMMA LbasAreNumbers == Lbas \subseteq Nat
BY LbaFacts DEF Lbas, ScratchLba, AppLba

LEMMA DataTyped == ForeignData \in [Lbas -> Values] /\ EmptyData \in [Lbas -> Values]
<1>1. ForeignData \in [Lbas -> Values]
  BY OtherThere, LbasAreNumbers DEF ForeignData
<1>2. EmptyData \in [Lbas -> Values]
  <2>1. ASSUME NEW l \in Lbas, l >= AppLba
        PROVE  l - AppLba \in Parts
    <3>1. AppLba = 10000 /\ FileSectors \in Nat \ {0} /\ ScratchLba = 500
      BY LbaFacts DEF AppLba, ScratchLba
    <3>2. l \in AppLba .. AppLba + FileSectors - 1
      <4>1. NSlots * FileSectors \in Nat /\ 4000 + NSlots * FileSectors <= AppLba
        BY LbaFacts, SectorsAssumption
      <4> DEFINE b == NSlots * FileSectors
      <4>2. l \in {ScratchLba} \cup 4000 .. 4000 + b - 1 \cup AppLba .. AppLba + FileSectors - 1
        BY DEF Lbas
      <4> HIDE DEF b
      <4>3. b \in Nat /\ 4000 + b <= AppLba
        BY <4>1 DEF b
      <4> QED BY <2>1, <3>1, <4>2, <4>3
    <3> QED BY <3>1, <3>2 DEF Parts
  <2> QED BY <2>1, ValuesThere DEF EmptyData
<1> QED BY <1>1, <1>2

LEMMA InitTyped == Init => TypeInv
<1> SUFFICES ASSUME Init PROVE TypeInv
  OBVIOUS
<1>1. DiskTyped
  BY EntriesTyped, DataTyped, FormatsAssumption DEF Init, DiskTyped
<1>2. pending \in Seq(Writes)
  BY DEF Init
<1>3. ViewTyped
  BY DEF Init, ViewTyped
<1>4. ListTyped /\ ClipTyped
  BY EntriesTyped, ValuesThere DEF Init, ListTyped, ClipTyped
<1>5. NoteTyped
  BY LbaFacts DEF Init, NoteTyped
<1> QED BY <1>1, <1>2, <1>3, <1>4, <1>5 DEF TypeInv

LEMMA WriteTyped ==
  ASSUME TypeInv, WriteNext \/ WriteLost
  PROVE  TypeInv'
<1>1. /\ UNCHANGED <<selected, opened, is_mounted, is_ntfs_drive, is_fat32_drive, current_folder_id>>
      /\ UNCHANGED <<cfs_files, buf_dir, clipboard_active, clipboard_is_folder, buffer>>
      /\ UNCHANGED <<unread, save_step, active_file_lba>>
      /\ pending # << >> /\ pending' = Tail(pending)
  BY DEF WriteNext, WriteLost, Idle, viewVars, clipVars, noteVars
<1>2. ViewTyped' /\ ListTyped' /\ ClipTyped' /\ NoteTyped'
  BY <1>1 DEF TypeInv, ViewTyped, ListTyped, ClipTyped, NoteTyped
<1>3. Head(pending) \in Writes /\ pending' \in Seq(Writes)
  BY <1>1 DEF TypeInv
<1>4. DiskTyped'
  <2>1. CASE WriteLost
    BY <2>1 DEF WriteLost, diskVars, TypeInv, DiskTyped
  <2>2. CASE WriteNext
    <3> DEFINE w == Head(pending)
    <3>1. /\ boot' = IF w.where = "boot" THEN [boot EXCEPT ![selected] = w.value] ELSE boot
          /\ dir'  = IF w.where \in {"dir", "text"} THEN [dir EXCEPT ![selected] = w.value] ELSE dir
          /\ data' = IF w.where = "data" /\ w.lba \in Lbas THEN [data EXCEPT ![selected][w.lba] = w.value] ELSE data
      BY <2>2 DEF WriteNext
    <3>2. /\ w.where = "boot" => w.value \in Formats
          /\ w.where \in {"dir", "text"} => w.value \in Dirs
          /\ w.where = "data" => w.value \in Values
      BY <1>3 DEF Writes, BootWrites, DirWrites, DataWrites, TextWrites, Formats
    <3> HIDE DEF w
    <3>3. boot' \in [Drives -> Formats]
      BY <3>1, <3>2 DEF TypeInv, DiskTyped
    <3>4. dir' \in [Drives -> Dirs]
      BY <3>1, <3>2 DEF TypeInv, DiskTyped
    <3>5. data' \in [Drives -> [Lbas -> Values]]
      BY <3>1, <3>2 DEF TypeInv, DiskTyped
    <3> QED BY <3>3, <3>4, <3>5 DEF DiskTyped
  <2> QED BY <2>1, <2>2
<1> QED BY <1>2, <1>3, <1>4 DEF TypeInv

LEMMA RebootTyped ==
  ASSUME TypeInv, Reboot
  PROVE  TypeInv'
<1>1. DiskTyped'
  BY DEF Reboot, diskVars, TypeInv, DiskTyped
<1>2. pending' \in Seq(Writes)
  BY DEF Reboot
<1>3. ViewTyped' /\ ListTyped' /\ ClipTyped'
  BY EntriesTyped, ValuesThere DEF Reboot, ViewTyped, ListTyped, ClipTyped
<1>4. NoteTyped'
  BY LbaFacts DEF Reboot, NoteTyped
<1> QED BY <1>1, <1>2, <1>3, <1>4 DEF TypeInv

LEMMA RefreshTyped ==
  ASSUME NEW ntfs, NEW fat32, NEW folder \in Slots \cup {Root}, NEW files \in Dirs, NEW entries \in Dirs,
         Refresh(ntfs, fat32, folder, files, entries)
  PROVE  ListTyped'
<1>1. cfs_files' \in {files, ForeignListing(folder), NoFiles} /\ buf_dir' \in {entries, ForeignDir, ZeroDir}
  BY DEF Refresh
<1> QED BY <1>1, EntriesTyped, ListingTyped DEF ListTyped

LEMMA DirRead ==
  ASSUME TypeInv, NEW works \in ReadOutcomes, NEW other \in Dirs
  PROVE  (IF works THEN dir[selected] ELSE other) \in Dirs
BY DEF ReadOutcomes, ReadWorks, TypeInv, DiskTyped, ViewTyped

LEMMA BrowsingTyped ==
  ASSUME TypeInv, Browsing
  PROVE  TypeInv'
<1>1. /\ UNCHANGED <<boot, dir, data, pending, clipboard_active, clipboard_is_folder, buffer>>
      /\ UNCHANGED <<unread, save_step, active_file_lba>>
  BY DEF Browsing, SelectDrive, MountCfs, MountNtfs, MountFat32, MountUnknown, Mounting, BackToDrives,
         BackToRoot, Relist, EnterFolder, diskVars, clipVars, noteVars
<1>2. DiskTyped' /\ pending' \in Seq(Writes) /\ ClipTyped' /\ NoteTyped'
  BY <1>1 DEF TypeInv, DiskTyped, ClipTyped, NoteTyped
<1>3. ViewTyped'
  <2>1. CASE MountCfs \/ MountNtfs \/ MountUnknown
    BY <2>1 DEF MountCfs, MountNtfs, MountUnknown, Mounting, TypeInv, ViewTyped
  <2>2. CASE MountFat32
    BY <2>2 DEF MountFat32, Mounting, TypeInv, ViewTyped, ReadOutcomes
  <2>3. CASE BackToDrives \/ BackToRoot \/ Relist
    BY <2>3 DEF BackToDrives, BackToRoot, Relist, TypeInv, ViewTyped, viewVars
  <2>4. CASE \E d \in Drives : SelectDrive(d)
    BY <2>4 DEF SelectDrive, TypeInv, ViewTyped
  <2>5. CASE \E s \in Slots : EnterFolder(s)
    BY <2>5 DEF EnterFolder, TypeInv, ViewTyped
  <2> QED BY <2>1, <2>2, <2>3, <2>4, <2>5 DEF Browsing
<1>4. ListTyped'
  <2>1. CASE MountCfs
    <3>1. PICK works \in ReadOutcomes :
            Refresh(FALSE, is_fat32_drive, Root, FromDir(IF works THEN dir[selected] ELSE ZeroDir),
                    IF works THEN dir[selected] ELSE ZeroDir)
      BY <2>1 DEF MountCfs
    <3> DEFINE entries == IF works THEN dir[selected] ELSE ZeroDir
    <3>2. entries \in Dirs
      BY DirRead, EntriesTyped
    <3> HIDE DEF entries
    <3>3. FromDir(entries) \in Dirs
      BY <3>2, FromDirTyped
    <3>4. Refresh(FALSE, is_fat32_drive, Root, FromDir(entries), entries)
      BY <3>1 DEF entries
    <3> QED BY <3>2, <3>3, <3>4, RefreshTyped
  <2>2. CASE MountNtfs \/ MountUnknown \/ MountFat32
    <3>1. cfs_files' \in {ForeignListing(Root), NoFiles} /\ buf_dir' \in {buf_dir, ForeignDir}
      BY <2>2 DEF MountNtfs, MountUnknown, MountFat32
    <3> QED BY <3>1, EntriesTyped, ListingTyped DEF ListTyped, TypeInv
  <2>3. CASE BackToRoot \/ Relist \/ \E s \in Slots : EnterFolder(s)
    <3>1. PICK folder \in Slots \cup {Root} : Refresh(is_ntfs_drive, is_fat32_drive, folder, cfs_files, buf_dir)
      BY <2>3 DEF BackToRoot, Relist, EnterFolder, TypeInv, ViewTyped
    <3>2. cfs_files \in Dirs /\ buf_dir \in Dirs
      BY DEF TypeInv, ListTyped
    <3> QED BY <3>1, <3>2, RefreshTyped
  <2>4. CASE BackToDrives \/ \E d \in Drives : SelectDrive(d)
    BY <2>4 DEF BackToDrives, SelectDrive, ListTyped, TypeInv
  <2> QED BY <2>1, <2>2, <2>3, <2>4 DEF Browsing
<1> QED BY <1>2, <1>3, <1>4 DEF TypeInv

LEMMA FormatTyped ==
  ASSUME TypeInv, Format
  PROVE  TypeInv'
<1>1. /\ UNCHANGED <<boot, dir, data, selected, opened, is_ntfs_drive, is_fat32_drive>>
      /\ UNCHANGED <<clipboard_active, clipboard_is_folder, buffer, save_step, active_file_lba>>
  BY DEF Format, diskVars, clipVars, noteVars
<1>2. DiskTyped' /\ ClipTyped'
  BY <1>1 DEF TypeInv, DiskTyped, ClipTyped
<1>3. ViewTyped'
  BY <1>1 DEF Format, TypeInv, ViewTyped
<1>4. ListTyped'
  BY EntriesTyped DEF Format, ListTyped
<1>5. NoteTyped'
  BY <1>1, LbaFacts DEF Format, TypeInv, NoteTyped
<1>6. pending' \in Seq(Writes)
  <2>1. BootWrite("cfs") \in Writes /\ DirWrite(ZeroDir) \in Writes
    BY EntriesTyped DEF BootWrite, DirWrite, Writes, BootWrites, DirWrites
  <2>2. pending' = <<BootWrite("cfs"), DirWrite(ZeroDir)>>
    BY DEF Format, FormatWrites
  <2> QED BY <2>1, <2>2
<1> QED BY <1>2, <1>3, <1>4, <1>5, <1>6 DEF TypeInv

LEMMA FreeFound ==
  ASSUME NEW entries, NEW free \in SUBSET FreeSlots(entries), free # {}
  PROVE  FirstOf(free) \in Slots /\ FirstOf(free) \in free /\ entries[FirstOf(free)].type = "free"
<1>1. FirstOf(free) \in free
  BY FirstOfIsFree DEF FreeSlots, Slots
<1> QED BY <1>1 DEF FreeSlots

LEMMA EntryUpdated ==
  ASSUME NEW entries \in Dirs, NEW s \in Slots, NEW lba \in Addresses, NEW type \in {"file", "folder"}
  PROVE  /\ [entries EXCEPT ![s].type = type, ![s].start = lba] \in Dirs
         /\ [entries EXCEPT ![s].type = type, ![s].start = lba][s].type = type
         /\ [entries EXCEPT ![s].type = type, ![s].start = lba][s]
              = [type |-> type, start |-> lba, parent |-> entries[s].parent]
<1> DEFINE updated == [entries EXCEPT ![s].type = type, ![s].start = lba]
<1>1. entries[s] \in Entries
  BY DEF Dirs
<1>2. updated[s] = [[entries[s] EXCEPT !.type = type] EXCEPT !.start = lba]
  BY DEF Dirs
<1>3. updated[s] = [type |-> type, start |-> lba, parent |-> entries[s].parent]
  BY <1>1, <1>2 DEF Entries
<1>4. updated[s] \in Entries
  BY <1>1, <1>3 DEF Entries
<1>5. \A t \in Slots \ {s} : updated[t] = entries[t]
  BY DEF Dirs
<1>6. updated = [t \in Slots |-> updated[t]]
  BY DEF Dirs
<1> HIDE DEF updated
<1>7. updated \in Dirs
  BY <1>4, <1>5, <1>6 DEF Dirs
<1> USE DEF updated
<1> QED BY <1>3, <1>7

LEMMA WritesTyped ==
  ASSUME TypeInv
  PROVE  /\ \A updated \in Dirs : <<DirWrite(updated)>> \in Seq(Writes)
         /\ \A lba \in Addresses : <<DataWrite(lba, Note)>> \in Seq(Writes)
         /\ \A text \in TextDirs : <<TextWrite(text)>> \in Seq(Writes)
         /\ \A lba \in Addresses, updated \in Dirs : <<DataWrite(lba, Note), DirWrite(updated)>> \in Seq(Writes)
         /\ \A s \in Slots, updated \in Dirs : PasteWrites(PasteTarget(s), updated) \in Seq(Writes)
<1>1. \A updated \in Dirs : DirWrite(updated) \in Writes
  BY DEF DirWrite, Writes, DirWrites
<1>2. \A lba \in Addresses, value \in Values : DataWrite(lba, value) \in Writes
  BY DEF DataWrite, Writes, DataWrites
<1>3. Note \in Values
  BY ValuesThere
<1>4. \A text \in TextDirs : TextWrite(text) \in Writes
  BY EntriesTyped DEF TextWrite, Writes, TextWrites
<1>5. ASSUME NEW s \in Slots, NEW updated \in Dirs
      PROVE  PasteWrites(PasteTarget(s), updated) \in Seq(Writes)
  <2> DEFINE lba     == PasteTarget(s)
             Part(k) == DataWrite(lba + k - 1, buffer[k - 1])
  <2>1. ASSUME NEW k \in 1 .. FileSectors
        PROVE  Part(k) \in Writes
    <3>1. k - 1 \in Parts
      BY LbaFacts DEF Parts
    <3>2. lba \in Nat
      <4>1. lba \in Addresses
        BY SlotLbas
      <4> HIDE DEF lba
      <4> QED BY <4>1, SmallAddresses
    <3>3. lba + (k - 1) \in Addresses
      BY <3>1, SlotLbas
    <3> HIDE DEF lba
    <3>4. lba + (k - 1) = lba + k - 1
      BY <3>2, LbaFacts
    <3>5. buffer[k - 1] \in Values
      BY <3>1 DEF TypeInv, ClipTyped
    <3> QED BY <1>2, <3>3, <3>4, <3>5
  <2>2. DirWrite(updated) \in Writes
    BY <1>1
  <2>3. PasteWrites(lba, updated) = [k \in 1 .. FileSectors |-> Part(k)] \o <<DirWrite(updated)>>
    BY DEF PasteWrites
  <2> HIDE DEF Part, lba
  <2>4. [k \in 1 .. FileSectors |-> Part(k)] \in Seq(Writes)
    BY <2>1, LbaFacts
  <2>5. PasteWrites(lba, updated) \in Seq(Writes)
    BY <2>2, <2>3, <2>4
  <2> QED BY <2>5 DEF lba
<1> QED BY <1>1, <1>2, <1>3, <1>4, <1>5

LEMMA AddFileTyped ==
  ASSUME TypeInv, AddFile
  PROVE  TypeInv'
<1>1. /\ UNCHANGED <<boot, dir, data, clipboard_active, clipboard_is_folder, buffer, save_step, active_file_lba>>
      /\ UNCHANGED <<selected, opened, is_mounted, is_ntfs_drive, is_fat32_drive, current_folder_id>>
      /\ unread' \in BOOLEAN
  BY DEF AddFile, diskVars, viewVars, clipVars, noteVars, ReadOutcomes
<1>2. DiskTyped' /\ ViewTyped' /\ ClipTyped' /\ NoteTyped'
  BY <1>1 DEF TypeInv, DiskTyped, ViewTyped, ClipTyped, NoteTyped
<1>3. PICK works \in ReadOutcomes :
        LET entries == IF works THEN dir[selected] ELSE ZeroDir
            s       == FirstOf(FreeSlots(entries))
            updated == [entries EXCEPT ![s].type = "file", ![s].start = AppLba]
        IN  IF FreeSlots(entries) = {}
              THEN buf_dir' = entries /\ UNCHANGED <<pending, cfs_files>>
              ELSE /\ buf_dir' = updated
                   /\ pending' = <<DirWrite(updated)>>
                   /\ cfs_files' = [cfs_files EXCEPT ![s].type = "file", ![s].start = AppLba]
  BY DEF AddFile
<1> DEFINE entries == IF works THEN dir[selected] ELSE ZeroDir
           s       == FirstOf(FreeSlots(entries))
           updated == [entries EXCEPT ![s].type = "file", ![s].start = AppLba]
<1>4. entries \in Dirs
  BY DirRead, EntriesTyped
<1>5. CASE FreeSlots(entries) = {}
  BY <1>2, <1>3, <1>4, <1>5 DEF TypeInv, ListTyped
<1>6. CASE FreeSlots(entries) # {}
  <2>1. s \in Slots /\ AppLba \in Addresses
    <3> HIDE DEF entries
    <3> QED BY <1>6, FreeFound, LbaFacts
  <2>2. buf_dir' = updated /\ pending' = <<DirWrite(updated)>>
        /\ cfs_files' = [cfs_files EXCEPT ![s].type = "file", ![s].start = AppLba]
    BY <1>3, <1>6
  <2> HIDE DEF s, entries
  <2>3. updated \in Dirs
    BY <1>4, <2>1, EntryUpdated
  <2>4. cfs_files' \in Dirs
    BY <2>1, <2>2, EntryUpdated DEF TypeInv, ListTyped
  <2> HIDE DEF updated
  <2>5. pending' \in Seq(Writes)
    BY <2>2, <2>3, WritesTyped
  <2> QED BY <1>2, <2>2, <2>3, <2>4, <2>5 DEF TypeInv, ListTyped
<1> QED BY <1>5, <1>6

LEMMA MkDirTyped ==
  ASSUME TypeInv, MkDir
  PROVE  TypeInv'
<1>1. /\ UNCHANGED <<boot, dir, data, clipboard_active, clipboard_is_folder, buffer, save_step, active_file_lba>>
      /\ UNCHANGED <<selected, opened, is_mounted, is_ntfs_drive, is_fat32_drive, current_folder_id, cfs_files>>
      /\ unread' \in BOOLEAN
  BY DEF MkDir, diskVars, viewVars, clipVars, noteVars, ReadOutcomes
<1>2. DiskTyped' /\ ViewTyped' /\ ClipTyped' /\ NoteTyped'
  BY <1>1 DEF TypeInv, DiskTyped, ViewTyped, ClipTyped, NoteTyped
<1>3. PICK works \in ReadOutcomes :
        LET entries == IF works THEN dir[selected] ELSE buf_dir
            free    == FreeSlots(entries) \cap 0 .. MkdirSlots - 1
            s       == FirstOf(free)
            updated == [entries EXCEPT ![s].type = "folder", ![s].start = 0]
        IN  IF free = {}
              THEN buf_dir' = entries /\ UNCHANGED pending
              ELSE /\ buf_dir' = updated
                   /\ pending' = <<DirWrite(updated)>>
  BY DEF MkDir
<1> DEFINE entries == IF works THEN dir[selected] ELSE buf_dir
           free    == FreeSlots(entries) \cap 0 .. MkdirSlots - 1
           s       == FirstOf(free)
           updated == [entries EXCEPT ![s].type = "folder", ![s].start = 0]
<1>4. entries \in Dirs
  BY DirRead DEF TypeInv, ListTyped
<1>5. CASE free = {}
  BY <1>1, <1>2, <1>3, <1>4, <1>5 DEF TypeInv, ListTyped, NoteTyped
<1>6. CASE free # {}
  <2>1. s \in Slots /\ 0 \in Addresses
    <3>1. free \in SUBSET FreeSlots(entries)
      OBVIOUS
    <3> HIDE DEF entries, free
    <3>2. s \in Slots
      BY <1>6, <3>1, FreeFound
    <3> QED BY <3>2, LbaFacts
  <2>2. buf_dir' = updated /\ pending' = <<DirWrite(updated)>>
    BY <1>3, <1>6
  <2> HIDE DEF s, entries
  <2>3. updated \in Dirs
    BY <1>4, <2>1, EntryUpdated
  <2> HIDE DEF updated
  <2>4. pending' \in Seq(Writes)
    BY <2>2, <2>3, WritesTyped
  <2> QED BY <1>1, <1>2, <2>2, <2>3, <2>4 DEF TypeInv, ListTyped
<1> QED BY <1>5, <1>6

LEMMA NewFolderTyped ==
  ASSUME TypeInv, NewFolder
  PROVE  TypeInv'
<1>1. /\ UNCHANGED <<boot, dir, data, clipboard_active, clipboard_is_folder, buffer, active_file_lba>>
      /\ UNCHANGED <<selected, opened, is_mounted, is_ntfs_drive, is_fat32_drive, current_folder_id>>
      /\ save_step' = "closed" /\ unread' \in BOOLEAN
  BY DEF NewFolder, diskVars, viewVars, clipVars, ReadOutcomes
<1>2. DiskTyped' /\ ViewTyped' /\ ClipTyped' /\ NoteTyped'
  BY <1>1 DEF TypeInv, DiskTyped, ViewTyped, ClipTyped, NoteTyped
<1>3. PICK works \in ReadOutcomes :
        LET entries == IF works THEN dir[selected] ELSE buf_dir
            s       == FirstOf(FreeSlots(entries))
            updated == [entries EXCEPT ![s] = Folder(current_folder_id)]
        IN  IF FreeSlots(entries) = {}
              THEN buf_dir' = entries /\ UNCHANGED <<pending, cfs_files>>
              ELSE /\ buf_dir' = updated
                   /\ pending' = <<DirWrite(updated)>>
                   /\ cfs_files' = [cfs_files EXCEPT ![s] = Folder(current_folder_id)]
  BY DEF NewFolder
<1> DEFINE entries == IF works THEN dir[selected] ELSE buf_dir
           s       == FirstOf(FreeSlots(entries))
           updated == [entries EXCEPT ![s] = Folder(current_folder_id)]
<1>4. entries \in Dirs
  BY DirRead DEF TypeInv, ListTyped
<1>5. CASE FreeSlots(entries) = {}
  BY <1>1, <1>2, <1>3, <1>4, <1>5 DEF TypeInv, ListTyped, NoteTyped
<1>6. CASE FreeSlots(entries) # {}
  <2>1. s \in Slots
    <3> HIDE DEF entries
    <3> QED BY <1>6, FreeFound
  <2>2. buf_dir' = updated /\ pending' = <<DirWrite(updated)>>
        /\ cfs_files' = [cfs_files EXCEPT ![s] = Folder(current_folder_id)]
    BY <1>3, <1>6
  <2> HIDE DEF s, entries
  <2>3. Folder(current_folder_id) \in Entries
    BY EntriesTyped DEF TypeInv, ViewTyped
  <2>4. updated \in Dirs /\ cfs_files' \in Dirs
    BY <1>4, <2>1, <2>2, <2>3 DEF Dirs, TypeInv, ListTyped
  <2> HIDE DEF updated
  <2>5. pending' \in Seq(Writes)
    BY <2>2, <2>4, WritesTyped
  <2> QED BY <1>2, <2>2, <2>4, <2>5 DEF TypeInv, ListTyped
<1> QED BY <1>5, <1>6

LEMMA SaveAsTyped ==
  ASSUME TypeInv, SaveAs
  PROVE  TypeInv'
<1>1. /\ UNCHANGED <<boot, dir, data, clipboard_active, clipboard_is_folder>>
      /\ UNCHANGED <<selected, opened, is_mounted, is_ntfs_drive, is_fat32_drive, current_folder_id>>
      /\ save_step' = "closed" /\ buffer' = [k \in Parts |-> IF k = 0 THEN Note ELSE Zeros]
      /\ unread' \in BOOLEAN
  BY DEF SaveAs, diskVars, viewVars, ReadOutcomes
<1>2. DiskTyped' /\ ViewTyped' /\ ClipTyped'
  BY <1>1, ValuesThere DEF TypeInv, DiskTyped, ViewTyped, ClipTyped
<1>3. PICK works \in ReadOutcomes :
        LET entries == IF works THEN dir[selected] ELSE buf_dir
            s       == FirstOf(FreeSlots(entries))
            file    == File(4000 + s, current_folder_id)
            updated == [entries EXCEPT ![s] = file]
        IN  IF FreeSlots(entries) = {}
              THEN buf_dir' = entries /\ UNCHANGED <<pending, cfs_files, active_file_lba>>
              ELSE /\ buf_dir' = updated
                   /\ pending' = <<DataWrite(4000 + s, Note), DirWrite(updated)>>
                   /\ cfs_files' = [cfs_files EXCEPT ![s] = file]
                   /\ active_file_lba' = 4000 + s
  BY DEF SaveAs
<1> DEFINE entries == IF works THEN dir[selected] ELSE buf_dir
           s       == FirstOf(FreeSlots(entries))
           updated == [entries EXCEPT ![s] = File(4000 + s, current_folder_id)]
<1>4. entries \in Dirs
  BY DirRead DEF TypeInv, ListTyped
<1>5. CASE FreeSlots(entries) = {}
  BY <1>1, <1>2, <1>3, <1>4, <1>5 DEF TypeInv, ListTyped, NoteTyped
<1>6. CASE FreeSlots(entries) # {}
  <2>1. s \in Slots
    <3> HIDE DEF entries
    <3> QED BY <1>6, FreeFound
  <2>2. /\ buf_dir' = updated /\ pending' = <<DataWrite(4000 + s, Note), DirWrite(updated)>>
        /\ active_file_lba' = 4000 + s
        /\ cfs_files' = [cfs_files EXCEPT ![s] = File(4000 + s, current_folder_id)]
    BY <1>3, <1>6
  <2> HIDE DEF s, entries
  <2>3. 4000 + s \in Addresses
    BY <2>1, SlotLbas
  <2>4. File(4000 + s, current_folder_id) \in Entries
    BY <2>3, EntriesTyped DEF TypeInv, ViewTyped
  <2>5. updated \in Dirs /\ cfs_files' \in Dirs
    BY <1>4, <2>1, <2>2, <2>4 DEF Dirs, TypeInv, ListTyped
  <2> HIDE DEF updated
  <2>6. pending' \in Seq(Writes)
    BY <2>2, <2>3, <2>5, WritesTyped
  <2>7. NoteTyped'
    BY <1>1, <2>2, <2>3 DEF NoteTyped
  <2> QED BY <1>2, <2>2, <2>5, <2>6, <2>7 DEF TypeInv, ListTyped
<1> QED BY <1>5, <1>6

LEMMA PasteTyped ==
  ASSUME TypeInv, Paste
  PROVE  TypeInv'
<1>1. /\ UNCHANGED <<boot, dir, data, clipboard_is_folder, buffer, save_step, active_file_lba>>
      /\ UNCHANGED <<selected, opened, is_mounted, is_ntfs_drive, is_fat32_drive, current_folder_id>>
      /\ unread' \in BOOLEAN
  BY DEF Paste, diskVars, viewVars, noteVars, ReadOutcomes
<1>2. PICK works \in ReadOutcomes :
        LET entries == IF works THEN dir[selected] ELSE ZeroDir
            s       == FirstOf(FreeSlots(entries))
            file    == [entries EXCEPT ![s] = File(PasteTarget(s), current_folder_id)]
            folder  == [entries EXCEPT ![s] = Folder(current_folder_id)]
            updated == IF clipboard_is_folder THEN folder ELSE file
        IN  IF FreeSlots(entries) = {}
              THEN buf_dir' = entries /\ UNCHANGED <<pending, cfs_files, clipboard_active>>
              ELSE /\ pending' = IF clipboard_is_folder THEN <<DirWrite(updated)>>
                                                        ELSE PasteWrites(PasteTarget(s), updated)
                   /\ clipboard_active' = FALSE
                   /\ Refresh(FALSE, is_fat32_drive, current_folder_id, cfs_files, updated)
  BY DEF Paste
<1> DEFINE entries == IF works THEN dir[selected] ELSE ZeroDir
           s       == FirstOf(FreeSlots(entries))
           updated == IF clipboard_is_folder
                        THEN [entries EXCEPT ![s] = Folder(current_folder_id)]
                        ELSE [entries EXCEPT ![s] = File(PasteTarget(s), current_folder_id)]
<1>3. entries \in Dirs
  BY DirRead, EntriesTyped
<1>4. DiskTyped' /\ ViewTyped' /\ NoteTyped'
  BY <1>1 DEF TypeInv, DiskTyped, ViewTyped, NoteTyped
<1>5. CASE FreeSlots(entries) = {}
  BY <1>1, <1>2, <1>3, <1>4, <1>5 DEF TypeInv, ListTyped, ClipTyped, NoteTyped
<1>6. CASE FreeSlots(entries) # {}
  <2>1. s \in Slots
    <3> HIDE DEF entries
    <3> QED BY <1>6, FreeFound
  <2>2. /\ pending' = IF clipboard_is_folder THEN <<DirWrite(updated)>> ELSE PasteWrites(PasteTarget(s), updated)
        /\ clipboard_active' = FALSE
        /\ Refresh(FALSE, is_fat32_drive, current_folder_id, cfs_files, updated)
    BY <1>2, <1>6
  <2> HIDE DEF s, entries
  <2>3. PasteTarget(s) \in Addresses
    BY <2>1, SlotLbas
  <2>4. File(PasteTarget(s), current_folder_id) \in Entries /\ Folder(current_folder_id) \in Entries
    BY <2>3, EntriesTyped DEF TypeInv, ViewTyped
  <2>5. updated \in Dirs
    BY <1>3, <2>1, <2>4 DEF Dirs
  <2> HIDE DEF updated
  <2>6. pending' \in Seq(Writes)
    BY <2>1, <2>2, <2>5, WritesTyped
  <2>7. ListTyped'
    <3>1. cfs_files \in Dirs /\ current_folder_id \in Slots \cup {Root}
      BY DEF TypeInv, ListTyped, ViewTyped
    <3> QED BY <2>2, <2>5, <3>1, RefreshTyped
  <2>8. ClipTyped'
    BY <1>1, <2>2 DEF TypeInv, ClipTyped
  <2> QED BY <1>4, <2>6, <2>7, <2>8 DEF TypeInv
<1> QED BY <1>5, <1>6

LEMMA CopyTyped ==
  ASSUME TypeInv, NEW s \in Slots, Copy(s)
  PROVE  TypeInv'
<1>1. /\ UNCHANGED <<boot, dir, data, pending, cfs_files, buf_dir, unread, save_step, active_file_lba>>
      /\ UNCHANGED <<selected, opened, is_mounted, is_ntfs_drive, is_fat32_drive, current_folder_id>>
      /\ clipboard_active' = TRUE
  BY DEF Copy, diskVars, viewVars, noteVars
<1>2. clipboard_is_folder' \in BOOLEAN
  BY DEF Copy
<1>3. buffer' \in [Parts -> Values]
  <2>1. CASE cfs_files[s].type = "folder"
    BY <2>1 DEF Copy, TypeInv, ClipTyped
  <2>2. CASE cfs_files[s].type # "folder"
    <3>1. PICK works \in [Parts -> ReadOutcomes] :
            buffer' = [k \in Parts |-> IF works[k] THEN SectorOf(selected, cfs_files[s].start + k) ELSE Zeros]
      BY <2>2 DEF Copy
    <3>2. cfs_files[s].start \in Nat
      BY SmallAddresses DEF TypeInv, ListTyped, Dirs, Entries
    <3>3. ASSUME NEW k \in Parts, works[k]
          PROVE  SectorOf(selected, cfs_files[s].start + k) \in Values
      <4>1. selected \in Drives
        BY <3>3 DEF ReadOutcomes, ReadWorks, TypeInv, ViewTyped
      <4>2. cfs_files[s].start + k \in Nat
        BY <3>2, LbaFacts DEF Parts
      <4> QED BY <4>1, <4>2, SectorThere DEF TypeInv
    <3> QED BY <3>1, <3>3, ValuesThere
  <2> QED BY <2>1, <2>2
<1> QED BY <1>1, <1>2, <1>3 DEF TypeInv, DiskTyped, ViewTyped, ListTyped, ClipTyped, NoteTyped

LEMMA SaveTyped ==
  ASSUME TypeInv, Save
  PROVE  TypeInv'
<1>1. /\ UNCHANGED <<boot, dir, data, cfs_files, buf_dir, clipboard_active, clipboard_is_folder>>
      /\ UNCHANGED <<selected, opened, is_mounted, is_ntfs_drive, is_fat32_drive, current_folder_id>>
      /\ UNCHANGED <<save_step, active_file_lba>>
      /\ unread' = FALSE /\ buffer' = [buffer EXCEPT ![0] = Note]
  BY DEF Save, diskVars, viewVars, noteVars
<1>2. SaveLba \in Addresses
  BY LbaFacts DEF SaveLba, TypeInv, NoteTyped
<1>3. pending' \in Seq(Writes)
  <2>1. CASE SaveLba = DirLba
    BY <2>1, WritesTyped DEF Save
  <2>2. CASE SaveLba # DirLba
    BY <1>2, <2>2, WritesTyped DEF Save
  <2> QED BY <2>1, <2>2
<1>4. buffer' \in [Parts -> Values]
  BY <1>1, ValuesThere DEF TypeInv, ClipTyped
<1> QED BY <1>1, <1>3, <1>4 DEF TypeInv, DiskTyped, ViewTyped, ListTyped, ClipTyped, NoteTyped

LEMMA OpenFileTyped ==
  ASSUME TypeInv, NEW s \in Slots, OpenFile(s)
  PROVE  TypeInv'
<1>1. /\ UNCHANGED <<boot, dir, data, pending, cfs_files, clipboard_active, clipboard_is_folder, buffer>>
      /\ UNCHANGED <<selected, opened, is_mounted, is_ntfs_drive, is_fat32_drive, current_folder_id>>
      /\ UNCHANGED <<unread, save_step>>
  BY DEF OpenFile, diskVars, viewVars, clipVars
<1>2. active_file_lba' \in Addresses
  <2>1. cfs_files[s].start \in Addresses
    BY DEF TypeInv, ListTyped, Dirs, Entries
  <2> QED BY <2>1 DEF OpenFile, TypeInv, NoteTyped
<1>3. buf_dir' \in Dirs
  <2>1. PICK works \in ReadOutcomes : buf_dir' = IF works THEN dir[selected] ELSE buf_dir
    BY DEF OpenFile
  <2> QED BY <2>1, DirRead DEF TypeInv, ListTyped
<1> QED BY <1>1, <1>2, <1>3 DEF TypeInv, DiskTyped, ViewTyped, ListTyped, ClipTyped, NoteTyped

LEMMA DialogTyped ==
  ASSUME TypeInv, OpenDialog \/ ChooseAction("file") \/ ChooseAction("folder")
  PROVE  TypeInv'
<1>1. /\ UNCHANGED <<boot, dir, data, pending, cfs_files, buf_dir, clipboard_active, clipboard_is_folder, buffer>>
      /\ UNCHANGED <<selected, opened, is_mounted, is_ntfs_drive, is_fat32_drive, current_folder_id>>
      /\ UNCHANGED <<unread, active_file_lba>>
  BY DEF OpenDialog, ChooseAction, diskVars, viewVars, clipVars
<1>2. save_step' \in {"choose", "file", "folder"}
  BY DEF OpenDialog, ChooseAction
<1> QED BY <1>1, <1>2 DEF TypeInv, DiskTyped, ViewTyped, ListTyped, ClipTyped, NoteTyped

LEMMA StepTyped ==
  ASSUME TypeInv, [Next]_vars
  PROVE  TypeInv'
<1>1. CASE UNCHANGED vars
  BY <1>1 DEF vars, diskVars, viewVars, clipVars, noteVars, TypeInv, DiskTyped, ViewTyped, ListTyped, ClipTyped,
              NoteTyped
<1>2. CASE Storing
  BY <1>2, FormatTyped, AddFileTyped, CopyTyped, PasteTyped, MkDirTyped DEF Storing
<1>3. CASE Editing
  BY <1>3, SaveTyped, OpenFileTyped, DialogTyped, SaveAsTyped, NewFolderTyped DEF Editing
<1> QED BY <1>1, <1>2, <1>3, WriteTyped, RebootTyped, BrowsingTyped DEF Next

(* Whatever drives there are, whatever they hold and however many of their *)
(* reads and writes fail, every handler finds what it takes: entries,      *)
(* folders and slots in range, and a queue of whole sectors whose numbers  *)
(* have 16 bits.                                                           *)
THEOREM ExplorerIsTyped == Spec => []TypeOK
<1>1. TypeInv /\ [Next]_vars => TypeInv'
  BY StepTyped
<1> QED BY <1>1, InitTyped, TypedTypes, PTL DEF Spec
-----------------------------------------------------------------------------
(* EntriesPersist.  The invariant: SAVE writes its text, or the directory  *)
(* still to be written is empty, or it could not be read, or it extends    *)
(* the one on the selected drive; and no click can select another drive    *)
(* before it is written.                                                   *)

Extends(new, old) == \A s \in Slots : old[s].type # "free" => new[s] = old[s]

Keeps(entries) ==
  selected \in Drives => unread \/ entries = ZeroDir \/ Extends(entries, dir[selected])

(* The same of the step's end.                                             *)
WillKeep(entries) ==
  selected' \in Drives => unread' \/ entries = ZeroDir \/ Extends(entries, dir'[selected'])

SavesText == \E text \in TextDirs : pending = <<TextWrite(text)>>

KeepInv == SavesText \/ \E entries : WritesOnly(pending, entries) /\ Keeps(entries)

LEMMA IdleStep ==
  ASSUME pending' = << >>
  PROVE  KeepInv'
<1>1. WritesOnly(pending', ZeroDir)
  BY EmptyQueue
<1>2. Keeps(ZeroDir)'
  BY DEF Keeps
<1> QED BY <1>1, <1>2 DEF KeepInv

LEMMA QueueStep ==
  ASSUME NEW entries, WritesOnly(pending', entries), WillKeep(entries)
  PROVE  KeepInv'
BY DEF KeepInv, Keeps, WillKeep

(* A handler takes for the directory what is in it, or it could not read.  *)
LEMMA FreeSlotTaken ==
  ASSUME TypeInv, NEW works \in BOOLEAN, NEW other, unread' = ~works, dir' = dir, selected' = selected,
         NEW entries, entries = IF works THEN dir[selected] ELSE other,
         NEW free \in SUBSET FreeSlots(entries), free # {},
         NEW updated, \A t \in Slots \ {FirstOf(free)} : updated[t] = entries[t]
  PROVE  WillKeep(updated)
<1>1. FirstOf(free) \in free
  BY FirstOfIsFree DEF FreeSlots, Slots
<1>2. CASE works
  <2>1. entries = dir[selected]
    BY <1>2
  <2> QED BY <1>1, <2>1 DEF WillKeep, Extends, FreeSlots
<1>3. CASE ~works
  BY <1>3 DEF WillKeep
<1> QED BY <1>2, <1>3

LEMMA InitKeeps == Init => KeepInv
<1>1. WritesOnly(<< >>, ZeroDir)
  BY EmptyQueue
<1>2. Keeps(ZeroDir)
  BY DEF Keeps
<1> QED BY <1>1, <1>2 DEF Init, KeepInv

LEMMA TextAlone ==
  ASSUME SavesText
  PROVE  Tail(pending) = << >> /\ Head(pending).where = "text"
BY DEF SavesText, TextWrite

LEMMA WriteKeeps ==
  ASSUME TypeInv, KeepInv, WriteNext \/ WriteLost
  PROVE  KeepInv'
<1>1. /\ pending # << >> /\ pending' = Tail(pending) /\ selected' = selected /\ unread' = unread
      /\ WriteNext => selected \in Drives
  BY DEF WriteNext, WriteLost, WriteWorks, Idle, viewVars
<1>2. CASE SavesText
  BY <1>1, <1>2, TextAlone, IdleStep
<1>3. CASE ~SavesText
  <2>1. PICK entries : WritesOnly(pending, entries) /\ Keeps(entries)
    BY <1>3 DEF KeepInv
  <2>2. /\ WritesOnly(pending', entries)
        /\ Head(pending).where = "dir" => Head(pending).value = entries
        /\ Head(pending).where # "text"
    BY <1>1, <2>1, QueueMovesOn
  <2>3. dir' = dir \/ (selected \in Drives /\ dir' = [dir EXCEPT ![selected] = entries])
    BY <1>1, <2>2 DEF WriteNext, WriteLost, diskVars
  <2>4. WillKeep(entries)
    <3>1. SUFFICES ASSUME selected \in Drives
                   PROVE  unread' \/ entries = ZeroDir \/ Extends(entries, dir'[selected])
      BY <1>1 DEF WillKeep
    <3>2. CASE dir' = dir
      BY <1>1, <2>1, <3>1, <3>2 DEF Keeps
    <3>3. CASE dir' = [dir EXCEPT ![selected] = entries]
      <4>1. dir'[selected] = entries
        BY <3>1, <3>3 DEF TypeInv, DiskTyped
      <4> QED BY <4>1 DEF Extends
    <3> QED BY <2>3, <3>2, <3>3
  <2> QED BY <2>2, <2>4, QueueStep
<1> QED BY <1>2, <1>3

LEMMA BrowsingKeeps ==
  ASSUME Browsing
  PROVE  KeepInv'
<1>1. pending' = << >>
  BY DEF Browsing, SelectDrive, MountCfs, MountNtfs, MountFat32, MountUnknown, Mounting, BackToDrives,
         BackToRoot, Relist, EnterFolder, InDriveList, InFiles, Idle
<1> QED BY <1>1, IdleStep

LEMMA FormatKeeps ==
  ASSUME Format
  PROVE  KeepInv'
<1>1. WritesOnly(pending', ZeroDir)
  BY FormatQueue DEF Format
<1>2. WillKeep(ZeroDir)
  BY DEF WillKeep
<1> QED BY <1>1, <1>2, QueueStep

LEMMA AddFileKeeps ==
  ASSUME TypeInv, AddFile
  PROVE  KeepInv'
<1>1. dir' = dir /\ selected' = selected /\ pending = << >>
  BY DEF AddFile, diskVars, viewVars, InFiles, Idle
<1>2. PICK works \in ReadOutcomes :
        /\ unread' = ~works
        /\ LET entries == IF works THEN dir[selected] ELSE ZeroDir
               s       == FirstOf(FreeSlots(entries))
               updated == [entries EXCEPT ![s].type = "file", ![s].start = AppLba]
           IN  IF FreeSlots(entries) = {} THEN pending' = pending
               ELSE pending' = <<DirWrite(updated)>>
  BY DEF AddFile
<1> DEFINE entries == IF works THEN dir[selected] ELSE ZeroDir
           free    == FreeSlots(entries)
           s       == FirstOf(free)
           updated == [entries EXCEPT ![s].type = "file", ![s].start = AppLba]
<1>3. entries \in Dirs
  BY DirRead, EntriesTyped
<1>4. \A t \in Slots \ {s} : updated[t] = entries[t]
  <2> HIDE DEF entries, s
  <2> QED BY <1>3 DEF Dirs
<1>5. CASE free = {}
  BY <1>1, <1>2, <1>5, IdleStep
<1>6. CASE free # {}
  <2>1. works \in BOOLEAN /\ unread' = ~works /\ entries = IF works THEN dir[selected] ELSE ZeroDir
    BY <1>2 DEF ReadOutcomes
  <2>2. WritesOnly(pending', updated)
    BY <1>2, <1>6, DirQueue
  <2>3. free \in SUBSET FreeSlots(entries)
    OBVIOUS
  <2>4. \A t \in Slots \ {FirstOf(free)} : updated[t] = entries[t]
    BY <1>4
  <2> HIDE DEF entries, free, s, updated
  <2>5. WillKeep(updated)
    BY <1>1, <1>6, <2>1, <2>3, <2>4, FreeSlotTaken
  <2> QED BY <2>2, <2>5, QueueStep
<1> QED BY <1>5, <1>6

LEMMA MkDirKeeps ==
  ASSUME TypeInv, MkDir
  PROVE  KeepInv'
<1>1. dir' = dir /\ selected' = selected /\ pending = << >>
  BY DEF MkDir, diskVars, viewVars, InFiles, Idle
<1>2. PICK works \in ReadOutcomes :
        /\ unread' = ~works
        /\ LET entries == IF works THEN dir[selected] ELSE buf_dir
               free    == FreeSlots(entries) \cap 0 .. MkdirSlots - 1
               s       == FirstOf(free)
               updated == [entries EXCEPT ![s].type = "folder", ![s].start = 0]
           IN  IF free = {} THEN pending' = pending
               ELSE pending' = <<DirWrite(updated)>>
  BY DEF MkDir
<1> DEFINE entries == IF works THEN dir[selected] ELSE buf_dir
           free    == FreeSlots(entries) \cap 0 .. MkdirSlots - 1
           s       == FirstOf(free)
           updated == [entries EXCEPT ![s].type = "folder", ![s].start = 0]
<1>3. entries \in Dirs
  BY DirRead DEF TypeInv, ListTyped
<1>4. \A t \in Slots \ {s} : updated[t] = entries[t]
  <2> HIDE DEF entries, s
  <2> QED BY <1>3 DEF Dirs
<1>5. CASE free = {}
  BY <1>1, <1>2, <1>5, IdleStep
<1>6. CASE free # {}
  <2>1. works \in BOOLEAN /\ unread' = ~works /\ entries = IF works THEN dir[selected] ELSE buf_dir
    BY <1>2 DEF ReadOutcomes
  <2>2. WritesOnly(pending', updated)
    BY <1>2, <1>6, DirQueue
  <2>3. free \in SUBSET FreeSlots(entries)
    OBVIOUS
  <2>4. \A t \in Slots \ {FirstOf(free)} : updated[t] = entries[t]
    BY <1>4
  <2> HIDE DEF entries, free, s, updated
  <2>5. WillKeep(updated)
    BY <1>1, <1>6, <2>1, <2>3, <2>4, FreeSlotTaken
  <2> QED BY <2>2, <2>5, QueueStep
<1> QED BY <1>5, <1>6

LEMMA NewFolderKeeps ==
  ASSUME TypeInv, NewFolder
  PROVE  KeepInv'
<1>1. dir' = dir /\ selected' = selected /\ pending = << >>
  BY DEF NewFolder, diskVars, viewVars, InFiles, Idle
<1>2. PICK works \in ReadOutcomes :
        /\ unread' = ~works
        /\ LET entries == IF works THEN dir[selected] ELSE buf_dir
               s       == FirstOf(FreeSlots(entries))
               updated == [entries EXCEPT ![s] = Folder(current_folder_id)]
           IN  IF FreeSlots(entries) = {} THEN pending' = pending
               ELSE pending' = <<DirWrite(updated)>>
  BY DEF NewFolder
<1> DEFINE entries == IF works THEN dir[selected] ELSE buf_dir
           free    == FreeSlots(entries)
           s       == FirstOf(free)
           updated == [entries EXCEPT ![s] = Folder(current_folder_id)]
<1>3. entries \in Dirs
  BY DirRead DEF TypeInv, ListTyped
<1>4. \A t \in Slots \ {s} : updated[t] = entries[t]
  <2> HIDE DEF entries, s
  <2> QED BY <1>3 DEF Dirs
<1>5. CASE free = {}
  BY <1>1, <1>2, <1>5, IdleStep
<1>6. CASE free # {}
  <2>1. works \in BOOLEAN /\ unread' = ~works /\ entries = IF works THEN dir[selected] ELSE buf_dir
    BY <1>2 DEF ReadOutcomes
  <2>2. WritesOnly(pending', updated)
    BY <1>2, <1>6, DirQueue
  <2>3. free \in SUBSET FreeSlots(entries)
    OBVIOUS
  <2>4. \A t \in Slots \ {FirstOf(free)} : updated[t] = entries[t]
    BY <1>4
  <2> HIDE DEF entries, free, s, updated
  <2>5. WillKeep(updated)
    BY <1>1, <1>6, <2>1, <2>3, <2>4, FreeSlotTaken
  <2> QED BY <2>2, <2>5, QueueStep
<1> QED BY <1>5, <1>6

LEMMA SaveAsKeeps ==
  ASSUME TypeInv, SaveAs
  PROVE  KeepInv'
<1>1. dir' = dir /\ selected' = selected /\ pending = << >>
  BY DEF SaveAs, diskVars, viewVars, InFiles, Idle
<1>2. PICK works \in ReadOutcomes :
        /\ unread' = ~works
        /\ LET entries == IF works THEN dir[selected] ELSE buf_dir
               s       == FirstOf(FreeSlots(entries))
               updated == [entries EXCEPT ![s] = File(4000 + s, current_folder_id)]
           IN  IF FreeSlots(entries) = {} THEN pending' = pending
               ELSE pending' = <<DataWrite(4000 + s, Note), DirWrite(updated)>>
  BY DEF SaveAs
<1> DEFINE entries == IF works THEN dir[selected] ELSE buf_dir
           free    == FreeSlots(entries)
           s       == FirstOf(free)
           updated == [entries EXCEPT ![s] = File(4000 + s, current_folder_id)]
<1>3. entries \in Dirs
  BY DirRead DEF TypeInv, ListTyped
<1>4. \A t \in Slots \ {s} : updated[t] = entries[t]
  <2> HIDE DEF entries, s
  <2> QED BY <1>3 DEF Dirs
<1>5. CASE free = {}
  BY <1>1, <1>2, <1>5, IdleStep
<1>6. CASE free # {}
  <2>1. works \in BOOLEAN /\ unread' = ~works /\ entries = IF works THEN dir[selected] ELSE buf_dir
    BY <1>2 DEF ReadOutcomes
  <2>2. WritesOnly(pending', updated)
    BY <1>2, <1>6, SaveAsQueue
  <2>3. free \in SUBSET FreeSlots(entries)
    OBVIOUS
  <2>4. \A t \in Slots \ {FirstOf(free)} : updated[t] = entries[t]
    BY <1>4
  <2> HIDE DEF entries, free, s, updated
  <2>5. WillKeep(updated)
    BY <1>1, <1>6, <2>1, <2>3, <2>4, FreeSlotTaken
  <2> QED BY <2>2, <2>5, QueueStep
<1> QED BY <1>5, <1>6

LEMMA PasteKeeps ==
  ASSUME TypeInv, Paste
  PROVE  KeepInv'
<1>1. dir' = dir /\ selected' = selected /\ pending = << >>
  BY DEF Paste, diskVars, viewVars, InFiles, Idle
<1>2. PICK works \in ReadOutcomes :
        /\ unread' = ~works
        /\ LET entries == IF works THEN dir[selected] ELSE ZeroDir
               s       == FirstOf(FreeSlots(entries))
               updated == IF clipboard_is_folder
                      THEN [entries EXCEPT ![s] = Folder(current_folder_id)]
                      ELSE [entries EXCEPT ![s] = File(PasteTarget(s), current_folder_id)]
           IN  IF FreeSlots(entries) = {} THEN pending' = pending
               ELSE pending' = IF clipboard_is_folder THEN <<DirWrite(updated)>>
                               ELSE PasteWrites(PasteTarget(s), updated)
  BY DEF Paste
<1> DEFINE entries == IF works THEN dir[selected] ELSE ZeroDir
           free    == FreeSlots(entries)
           s       == FirstOf(free)
           updated == IF clipboard_is_folder
                      THEN [entries EXCEPT ![s] = Folder(current_folder_id)]
                      ELSE [entries EXCEPT ![s] = File(PasteTarget(s), current_folder_id)]
<1>3. entries \in Dirs
  BY DirRead, EntriesTyped
<1>4. \A t \in Slots \ {s} : updated[t] = entries[t]
  <2> HIDE DEF entries, s
  <2> QED BY <1>3 DEF Dirs
<1>5. CASE free = {}
  BY <1>1, <1>2, <1>5, IdleStep
<1>6. CASE free # {}
  <2>1. works \in BOOLEAN /\ unread' = ~works /\ entries = IF works THEN dir[selected] ELSE ZeroDir
    BY <1>2 DEF ReadOutcomes
  <2>2. WritesOnly(pending', updated)
    BY <1>2, <1>6, DirQueue, PasteQueue
  <2>3. free \in SUBSET FreeSlots(entries)
    OBVIOUS
  <2>4. \A t \in Slots \ {FirstOf(free)} : updated[t] = entries[t]
    BY <1>4
  <2> HIDE DEF entries, free, s, updated
  <2>5. WillKeep(updated)
    BY <1>1, <1>6, <2>1, <2>3, <2>4, FreeSlotTaken
  <2> QED BY <2>2, <2>5, QueueStep
<1> QED BY <1>5, <1>6

LEMMA SaveKeeps ==
  ASSUME Save
  PROVE  KeepInv'
<1>1. CASE SaveLba = DirLba
  BY <1>1 DEF Save, KeepInv, SavesText
<1>2. CASE SaveLba # DirLba
  <2>1. WritesOnly(pending', ZeroDir)
    BY <1>2, DataOnlyQueue DEF Save
  <2>2. WillKeep(ZeroDir)
    BY DEF WillKeep
  <2> QED BY <2>1, <2>2, QueueStep
<1> QED BY <1>1, <1>2

LEMMA IdleHandlersKeep ==
  ASSUME Reboot \/ OpenDialog \/ (\E step : ChooseAction(step)) \/ (\E s : Copy(s) \/ OpenFile(s))
  PROVE  KeepInv'
<1>1. pending' = << >>
  BY DEF Reboot, OpenDialog, ChooseAction, Copy, OpenFile, Idle, InFiles
<1> QED BY <1>1, IdleStep

LEMMA StepKeeps ==
  ASSUME TypeInv, KeepInv, [Next]_vars
  PROVE  KeepInv'
<1>1. CASE UNCHANGED vars
  BY <1>1 DEF vars, diskVars, viewVars, KeepInv, SavesText, WritesOnly, Keeps
<1>2. CASE Browsing
  BY <1>2, BrowsingKeeps
<1>3. CASE Storing
  BY <1>3, FormatKeeps, AddFileKeeps, PasteKeeps, MkDirKeeps, IdleHandlersKeep DEF Storing
<1>4. CASE Editing
  BY <1>4, SaveKeeps, SaveAsKeeps, NewFolderKeeps, IdleHandlersKeep DEF Editing
<1> QED BY <1>1, <1>2, <1>3, <1>4, WriteKeeps, IdleHandlersKeep DEF Next

(* The only steps that change a directory are those of the queue.          *)
LEMMA OnlyWritesReachTheDirectory ==
  ASSUME [Next]_vars, dir' # dir
  PROVE  WriteNext
BY DEF vars, Next, Browsing, Storing, Editing, WriteLost, Reboot, SelectDrive, MountCfs, MountNtfs, MountFat32,
       MountUnknown, Mounting, BackToDrives, BackToRoot, Relist, EnterFolder, Format, AddFile, Copy, Paste,
       MkDir, Save, OpenFile, ChooseAction, SaveAs, NewFolder, OpenDialog, diskVars

PersistStep ==
  \A d \in Drives : \A s \in Slots :
    boot[d] = "cfs" /\ dir[d][s].type # "free"
      => \/ dir'[d][s] = dir[d][s]
         \/ dir'[d] = ZeroDir
         \/ unread
         \/ Head(pending).where = "text"

LEMMA StepPersists ==
  ASSUME TypeInv, KeepInv, [Next]_vars
  PROVE  PersistStep
<1>1. CASE dir' = dir \/ unread \/ Head(pending).where = "text"
  BY <1>1 DEF PersistStep
<1>2. CASE dir' # dir /\ ~unread /\ Head(pending).where # "text"
  <2>1. WriteNext
    BY <1>2, OnlyWritesReachTheDirectory
  <2>2. PICK entries : WritesOnly(pending, entries) /\ Keeps(entries)
    BY <1>2, TextAlone DEF KeepInv
  <2>3. pending # << >> /\ selected \in Drives
    BY <2>1 DEF WriteNext, Idle, WriteWorks
  <2>4. dir' = [dir EXCEPT ![selected] = entries]
    <3>1. Head(pending).where = "dir" => Head(pending).value = entries
      BY <2>2, <2>3, QueueMovesOn
    <3> QED BY <1>2, <2>1, <3>1 DEF WriteNext
  <2>5. \A d \in Drives : dir'[d] = IF d = selected THEN entries ELSE dir[d]
    BY <2>4 DEF TypeInv, DiskTyped
  <2>6. entries = ZeroDir \/ Extends(entries, dir[selected])
    BY <1>2, <2>2, <2>3 DEF Keeps
  <2> QED BY <2>5, <2>6 DEF PersistStep, Extends
<1> QED BY <1>1, <1>2

(* Whatever the drives hold and however many of their reads and writes     *)
(* fail, no entry of a CFS directory is removed or changed but by FORMAT,  *)
(* by a handler that could not read the directory it then writes, and by a *)
(* SAVE into the directory's own sector: kernel_main.cpp takes only        *)
(* entries of type 0 wherever it rewrites sector 1002.                     *)
THEOREM EntriesAreKept == Spec => EntriesPersist
<1>1. TypeInv /\ KeepInv /\ [Next]_vars => TypeInv' /\ KeepInv'
  BY StepKeeps, StepTyped
<1>2. Init => TypeInv /\ KeepInv
  BY InitKeeps, InitTyped
<1>3. TypeInv /\ KeepInv /\ [Next]_vars => [PersistStep]_vars
  BY StepPersists
<1>4. EntriesPersist <=> [][PersistStep]_vars
  BY DEF EntriesPersist, PersistStep
<1> QED BY <1>1, <1>2, <1>3, <1>4, PTL DEF Spec
-----------------------------------------------------------------------------
(* What the handlers leave to be written, SAVE's text apart: sector 1002   *)
(* is written last, and then the selected drive's directory is Settled.    *)
(* Without a selected drive no files are shown and the dialog waits.       *)

DirLast ==
  /\ \A i \in 1 .. Len(pending) - 1 : pending[i].where # "dir"
  /\ \A i \in 1 .. Len(pending) : pending[i].where # "text"

Settled ==
  IF pending # << >> /\ pending[Len(pending)].where = "dir" THEN pending[Len(pending)].value ELSE dir[selected]

NothingWithoutDrive ==
  selected = NoDrive => ~opened /\ ~is_mounted /\ save_step \in {"closed", "choose"}

DriveInv == NothingWithoutDrive /\ DirLast

NoFaults == Flaky = {} /\ Usb = {}

LEMMA QueueSettles ==
  ASSUME TypeInv, DirLast, WriteNext
  PROVE  DirLast' /\ Settled' = Settled
<1>1. pending # << >> /\ pending' = Tail(pending) /\ selected \in Drives /\ selected' = selected
  BY DEF WriteNext, Idle, WriteWorks, viewVars
<1>2. pending \in Seq(Writes) /\ Len(pending) \in Nat \ {0} /\ Head(pending) = pending[1]
  BY <1>1 DEF TypeInv
<1>3. Len(pending') = Len(pending) - 1 /\ \A i \in 1 .. Len(pending) - 1 : pending'[i] = pending[i + 1]
  BY <1>1, <1>2
<1>4. dir' = IF pending[1].where = "dir" THEN [dir EXCEPT ![selected] = pending[1].value] ELSE dir
  <2>1. pending[1].where # "text"
    BY <1>2 DEF DirLast
  <2> QED BY <1>2, <2>1 DEF WriteNext
<1>5. DirLast'
  BY <1>2, <1>3 DEF DirLast
<1>6. Settled' = Settled
  <2>1. CASE Len(pending) = 1
    <3>1. pending' = << >>
      BY <1>1, <1>2, <1>3, <2>1
    <3>2. Settled' = dir'[selected]
      BY <1>1, <3>1 DEF Settled
    <3> QED BY <1>1, <1>4, <2>1, <3>2 DEF Settled, TypeInv, DiskTyped
  <2>2. CASE Len(pending) # 1
    <3>1. pending[1].where # "dir"
      <4>1. 1 \in 1 .. Len(pending) - 1
        BY <1>2, <2>2
      <4> QED BY <4>1 DEF DirLast
    <3>2. pending' # << >> /\ pending'[Len(pending')] = pending[Len(pending)]
      BY <1>2, <1>3, <2>2
    <3> QED BY <1>1, <1>4, <3>1, <3>2 DEF Settled
  <2> QED BY <2>1, <2>2
<1> QED BY <1>5, <1>6

LEMMA QueuesSettle ==
  ASSUME NEW updated, NEW lba
  PROVE  /\ pending' = <<DirWrite(updated)>> => DirLast' /\ Settled' = updated
         /\ \A value : pending' = <<DataWrite(lba, value), DirWrite(updated)>> => DirLast' /\ Settled' = updated
         /\ pending' = << >> => DirLast' /\ Settled' = (dir[selected])'
         /\ pending' = FormatWrites => DirLast'
<1>1. ASSUME pending' = << >> PROVE DirLast' /\ Settled' = (dir[selected])'
  BY <1>1 DEF DirLast, Settled
<1>2. ASSUME NEW w, pending' = <<w>>, w.where # "text" PROVE DirLast'
  <2>1. Len(pending') = 1 /\ pending'[1] = w
    BY <1>2
  <2>2. \A i \in 1 .. Len(pending') : i = 1
    BY <2>1
  <2> QED BY <1>2, <2>1, <2>2 DEF DirLast
<1>3. ASSUME NEW v, NEW w, pending' = <<v, w>>, v.where \notin {"dir", "text"}, w.where # "text" PROVE DirLast'
  <2>1. Len(pending') = 2 /\ pending'[1] = v /\ pending'[2] = w
    BY <1>3
  <2>2. (\A i \in 1 .. Len(pending') - 1 : i = 1) /\ \A i \in 1 .. Len(pending') : i \in {1, 2}
    BY <2>1
  <2> QED BY <1>3, <2>1, <2>2 DEF DirLast
<1>4. ASSUME pending' = <<DirWrite(updated)>> PROVE Settled' = updated
  <2>1. pending' # << >> /\ pending'[Len(pending')] = DirWrite(updated)
    BY <1>4
  <2> QED BY <2>1 DEF DirWrite, Settled
<1>5. ASSUME NEW value, pending' = <<DataWrite(lba, value), DirWrite(updated)>> PROVE Settled' = updated
  <2>1. pending' # << >> /\ pending'[Len(pending')] = DirWrite(updated)
    BY <1>5
  <2> QED BY <2>1 DEF DirWrite, Settled
<1>6. /\ BootWrite("cfs").where \notin {"dir", "text"} /\ \A value : DataWrite(lba, value).where \notin {"dir", "text"}
      /\ DirWrite(updated).where # "text" /\ DirWrite(ZeroDir).where # "text"
  BY DEF BootWrite, DataWrite, DirWrite
<1> QED BY <1>1, <1>2, <1>3, <1>4, <1>5, <1>6 DEF FormatWrites

LEMMA PasteSettles ==
  ASSUME NEW updated, NEW lba, pending' = PasteWrites(lba, updated)
  PROVE  DirLast' /\ Settled' = updated
<1> DEFINE Part(k) == DataWrite(lba + k - 1, buffer[k - 1])
           parts   == [k \in 1 .. FileSectors |-> Part(k)]
<1>1. FileSectors \in Nat \ {0}
  BY LbaFacts
<1>2. \A k \in 1 .. FileSectors : Part(k).where = "data"
  BY DEF DataWrite
<1>3. pending' = parts \o <<DirWrite(updated)>>
  BY DEF PasteWrites
<1> HIDE DEF Part
<1> DEFINE W == {Part(k) : k \in 1 .. FileSectors}
<1>4. parts \in Seq(W) /\ Len(parts) = FileSectors
  <2>1. parts \in [1 .. FileSectors -> W]
    OBVIOUS
  <2> HIDE DEF parts, W
  <2> QED BY <1>1, <2>1
<1>5. \A k \in 1 .. FileSectors : parts[k] = Part(k)
  OBVIOUS
<1> HIDE DEF parts
<1>6. Len(pending') = FileSectors + 1 /\ pending'[FileSectors + 1] = DirWrite(updated)
      /\ \A k \in 1 .. FileSectors : pending'[k] = parts[k]
  BY <1>1, <1>3, <1>4
<1>7. pending' # << >>
  BY <1>1, <1>6
<1>8. DirWrite(updated).where = "dir" /\ DirWrite(updated).value = updated
  BY DEF DirWrite
<1>9. \A k \in 1 .. FileSectors : pending'[k].where = "data"
  BY <1>2, <1>5, <1>6
<1>10. DirLast'
  <2>1. \A i \in 1 .. Len(pending') : i \in 1 .. FileSectors \/ i = FileSectors + 1
    BY <1>1, <1>6
  <2> QED BY <1>1, <1>6, <1>8, <1>9, <2>1 DEF DirLast
<1> QED BY <1>6, <1>7, <1>8, <1>10 DEF Settled

(* What a handler that stores an entry does.                               *)
StoresIn(s) ==
  /\ dir[selected][s].type = "free" /\ Settled'[s].type # "free"
  /\ \A t \in Slots \ {s} : Settled'[t] = dir[selected][t]
  /\ DirLast'

(* ... in the folder that is open.                                        *)
StoresHere(s) == StoresIn(s) /\ Settled'[s].parent = current_folder_id

StoresNothing == pending' = << >>

LEMMA ReadsDirectory ==
  ASSUME Flaky = {}, selected \in Drives, NEW works \in ReadOutcomes, NEW other
  PROVE  (IF works THEN dir[selected] ELSE other) = dir[selected]
BY DrivesAssumption DEF ReadOutcomes, ReadFails

(* An entry is put into a free slot of the directory that was read.        *)
LEMMA SlotFilled ==
  ASSUME TypeInv, selected \in Drives, NEW s \in Slots, dir[selected][s].type = "free",
         NEW updated, updated[s].type # "free", \A t \in Slots \ {s} : updated[t] = dir[selected][t],
         DirLast', Settled' = updated
  PROVE  StoresIn(s)
BY DEF StoresIn

LEMMA MkDirStores ==
  ASSUME NoFaults, TypeInv, MkDir, selected \in Drives
  PROVE  StoresNothing \/ \E s \in Slots : StoresIn(s)
<1>1. PICK works \in ReadOutcomes :
        LET entries == IF works THEN dir[selected] ELSE buf_dir
            free    == FreeSlots(entries) \cap 0 .. MkdirSlots - 1
            s       == FirstOf(free)
            updated == [entries EXCEPT ![s].type = "folder", ![s].start = 0]
        IN  IF free = {}
              THEN buf_dir' = entries /\ UNCHANGED pending
              ELSE pending' = <<DirWrite(updated)>>
  BY DEF MkDir
<1>2. pending = << >>
  BY DEF MkDir, Idle
<1> DEFINE entries == dir[selected]
           free    == FreeSlots(entries) \cap 0 .. MkdirSlots - 1
           s       == FirstOf(free)
           updated == [entries EXCEPT ![s].type = "folder", ![s].start = 0]
<1>3. selected \in Drives /\ entries \in Dirs
  BY DEF TypeInv, ViewTyped, DiskTyped
<1>4. (IF works THEN dir[selected] ELSE buf_dir) = entries
  BY <1>3, ReadsDirectory DEF NoFaults
<1>5. IF free = {} THEN UNCHANGED pending
      ELSE pending' = <<DirWrite(updated)>>
  BY <1>1, <1>4
<1>6. CASE free = {}
  BY <1>2, <1>5, <1>6 DEF StoresNothing
<1>7. CASE free # {}
  <2>1. s \in Slots /\ entries[s].type = "free"
    <3>1. free \in SUBSET FreeSlots(entries)
      OBVIOUS
    <3> HIDE DEF entries, free
    <3> QED BY <1>7, <3>1, FreeFound
  <2>2. pending' = <<DirWrite(updated)>>
    BY <1>5, <1>7
  <2> HIDE DEF s
  <2>3. updated[s].type = "folder"
    <3> HIDE DEF entries
    <3>1. entries[s] \in Entries
      BY <1>3, <2>1 DEF Dirs
    <3>2. updated[s] = [[entries[s] EXCEPT !.type = "folder"] EXCEPT !.start = 0]
      BY <1>3, <2>1 DEF Dirs
    <3> QED BY <3>1, <3>2 DEF Entries
  <2>4. \A t \in Slots \ {s} : updated[t] = entries[t]
    BY <1>3 DEF Dirs
  <2> HIDE DEF updated
  <2>5. DirLast' /\ Settled' = updated
    BY <2>2, QueuesSettle
  <2> QED BY <1>3, <2>1, <2>2, <2>3, <2>4, <2>5, SlotFilled
<1> QED BY <1>6, <1>7

LEMMA NewFolderStores ==
  ASSUME NoFaults, TypeInv, DriveInv, NewFolder
  PROVE  /\ selected \in Drives
         /\ StoresNothing \/ \E s \in Slots : StoresHere(s) /\ cfs_files' = [cfs_files EXCEPT ![s] = Settled'[s]]
         /\ StoresNothing => cfs_files' = cfs_files
<1>1. selected \in Drives
  BY DEF NewFolder, DriveInv, NothingWithoutDrive, TypeInv, ViewTyped
<1>2. PICK works \in ReadOutcomes :
        LET entries == IF works THEN dir[selected] ELSE buf_dir
            s       == FirstOf(FreeSlots(entries))
            updated == [entries EXCEPT ![s] = Folder(current_folder_id)]
        IN  IF FreeSlots(entries) = {}
              THEN UNCHANGED <<pending, cfs_files>>
              ELSE /\ pending' = <<DirWrite(updated)>>
                   /\ cfs_files' = [cfs_files EXCEPT ![s] = Folder(current_folder_id)]
  BY DEF NewFolder
<1>3. (IF works THEN dir[selected] ELSE buf_dir) = dir[selected]
  BY <1>1, ReadsDirectory DEF NoFaults
<1> DEFINE entries == dir[selected]
           s       == FirstOf(FreeSlots(entries))
           updated == [entries EXCEPT ![s] = Folder(current_folder_id)]
<1>4. IF FreeSlots(entries) = {}
        THEN UNCHANGED <<pending, cfs_files>>
        ELSE /\ pending' = <<DirWrite(updated)>>
             /\ cfs_files' = [cfs_files EXCEPT ![s] = Folder(current_folder_id)]
  BY <1>2, <1>3
<1>5. pending = << >> /\ entries \in Dirs
  BY <1>1 DEF NewFolder, Idle, TypeInv, DiskTyped
<1>6. CASE FreeSlots(entries) = {}
  BY <1>1, <1>4, <1>5, <1>6 DEF StoresNothing
<1>7. CASE FreeSlots(entries) # {}
  <2>1. s \in Slots /\ entries[s].type = "free"
    <3> HIDE DEF entries
    <3> QED BY <1>7, FreeFound
  <2>2. /\ pending' = <<DirWrite(updated)>>
        /\ cfs_files' = [cfs_files EXCEPT ![s] = Folder(current_folder_id)]
    BY <1>4, <1>7
  <2> HIDE DEF s
  <2>3. updated[s] = Folder(current_folder_id) /\ updated[s].type = "folder" /\ updated[s].parent = current_folder_id
    BY <1>5, <2>1 DEF Dirs, Folder
  <2>4. \A t \in Slots \ {s} : updated[t] = entries[t]
    BY <1>5 DEF Dirs
  <2> HIDE DEF updated
  <2>5. DirLast' /\ Settled' = updated
    BY <2>2, QueuesSettle
  <2>6. StoresHere(s) /\ cfs_files' = [cfs_files EXCEPT ![s] = Settled'[s]]
    <3>1. StoresIn(s)
      <4>1. updated[s].type # "free"
        BY <2>3
      <4> QED BY <1>1, <2>1, <2>4, <2>5, <4>1, SlotFilled
    <3>2. StoresHere(s)
      BY <2>3, <2>5, <3>1 DEF StoresHere
    <3>3. Settled'[s] = Folder(current_folder_id)
      BY <2>3, <2>5
    <3> QED BY <2>2, <3>2, <3>3
  <2>7. ~StoresNothing
    BY <2>2 DEF StoresNothing
  <2> QED BY <1>1, <2>1, <2>6, <2>7
<1> QED BY <1>6, <1>7

LEMMA SaveAsStores ==
  ASSUME NoFaults, TypeInv, DriveInv, SaveAs
  PROVE  /\ selected \in Drives
         /\ StoresNothing \/ \E s \in Slots : StoresHere(s) /\ cfs_files' = [cfs_files EXCEPT ![s] = Settled'[s]]
         /\ StoresNothing => cfs_files' = cfs_files
<1>1. selected \in Drives
  BY DEF SaveAs, DriveInv, NothingWithoutDrive, TypeInv, ViewTyped
<1>2. PICK works \in ReadOutcomes :
        LET entries == IF works THEN dir[selected] ELSE buf_dir
            s       == FirstOf(FreeSlots(entries))
            updated == [entries EXCEPT ![s] = File(4000 + s, current_folder_id)]
        IN  IF FreeSlots(entries) = {}
              THEN UNCHANGED <<pending, cfs_files>>
              ELSE /\ pending' = <<DataWrite(4000 + s, Note), DirWrite(updated)>>
                   /\ cfs_files' = [cfs_files EXCEPT ![s] = File(4000 + s, current_folder_id)]
  BY DEF SaveAs
<1>3. (IF works THEN dir[selected] ELSE buf_dir) = dir[selected]
  BY <1>1, ReadsDirectory DEF NoFaults
<1> DEFINE entries == dir[selected]
           s       == FirstOf(FreeSlots(entries))
           updated == [entries EXCEPT ![s] = File(4000 + s, current_folder_id)]
<1>4. IF FreeSlots(entries) = {}
        THEN UNCHANGED <<pending, cfs_files>>
        ELSE /\ pending' = <<DataWrite(4000 + s, Note), DirWrite(updated)>>
             /\ cfs_files' = [cfs_files EXCEPT ![s] = File(4000 + s, current_folder_id)]
  BY <1>2, <1>3
<1>5. pending = << >> /\ entries \in Dirs
  BY <1>1 DEF SaveAs, Idle, TypeInv, DiskTyped
<1>6. CASE FreeSlots(entries) = {}
  BY <1>1, <1>4, <1>5, <1>6 DEF StoresNothing
<1>7. CASE FreeSlots(entries) # {}
  <2>1. s \in Slots /\ entries[s].type = "free"
    <3> HIDE DEF entries
    <3> QED BY <1>7, FreeFound
  <2>2. /\ pending' = <<DataWrite(4000 + s, Note), DirWrite(updated)>>
        /\ cfs_files' = [cfs_files EXCEPT ![s] = File(4000 + s, current_folder_id)]
    BY <1>4, <1>7
  <2> HIDE DEF s
  <2>3. updated[s] = File(4000 + s, current_folder_id) /\ updated[s].type = "file" /\ updated[s].parent = current_folder_id
    BY <1>5, <2>1 DEF Dirs, File
  <2>4. \A t \in Slots \ {s} : updated[t] = entries[t]
    BY <1>5 DEF Dirs
  <2> HIDE DEF updated
  <2>5. DirLast' /\ Settled' = updated
    BY <2>2, QueuesSettle
  <2>6. StoresHere(s) /\ cfs_files' = [cfs_files EXCEPT ![s] = Settled'[s]]
    <3>1. StoresIn(s)
      <4>1. updated[s].type # "free"
        BY <2>3
      <4> QED BY <1>1, <2>1, <2>4, <2>5, <4>1, SlotFilled
    <3>2. StoresHere(s)
      BY <2>3, <2>5, <3>1 DEF StoresHere
    <3>3. Settled'[s] = File(4000 + s, current_folder_id)
      BY <2>3, <2>5
    <3> QED BY <2>2, <3>2, <3>3
  <2>7. ~StoresNothing
    BY <2>2 DEF StoresNothing
  <2> QED BY <1>1, <2>1, <2>6, <2>7
<1> QED BY <1>6, <1>7

LEMMA PasteStores ==
  ASSUME NoFaults, TypeInv, DriveInv, Paste
  PROVE  /\ selected \in Drives
         /\ StoresNothing \/ \E s \in Slots : StoresHere(s)
         /\ ~is_fat32_drive => cfs_files' = cfs_files
<1>1. selected \in Drives
  BY DEF Paste, InFiles, DriveInv, NothingWithoutDrive, TypeInv, ViewTyped
<1>2. PICK works \in ReadOutcomes :
        LET entries == IF works THEN dir[selected] ELSE ZeroDir
            s       == FirstOf(FreeSlots(entries))
            file    == [entries EXCEPT ![s] = File(PasteTarget(s), current_folder_id)]
            folder  == [entries EXCEPT ![s] = Folder(current_folder_id)]
            updated == IF clipboard_is_folder THEN folder ELSE file
        IN  IF FreeSlots(entries) = {}
              THEN UNCHANGED <<pending, cfs_files>>
              ELSE /\ pending' = IF clipboard_is_folder THEN <<DirWrite(updated)>>
                                                        ELSE PasteWrites(PasteTarget(s), updated)
                   /\ Refresh(FALSE, is_fat32_drive, current_folder_id, cfs_files, updated)
  BY DEF Paste
<1>3. (IF works THEN dir[selected] ELSE ZeroDir) = dir[selected]
  BY <1>1, ReadsDirectory DEF NoFaults
<1> DEFINE entries == dir[selected]
           s       == FirstOf(FreeSlots(entries))
           updated == IF clipboard_is_folder
                        THEN [entries EXCEPT ![s] = Folder(current_folder_id)]
                        ELSE [entries EXCEPT ![s] = File(PasteTarget(s), current_folder_id)]
<1>4. IF FreeSlots(entries) = {}
        THEN UNCHANGED <<pending, cfs_files>>
        ELSE /\ pending' = IF clipboard_is_folder THEN <<DirWrite(updated)>>
                                                  ELSE PasteWrites(PasteTarget(s), updated)
             /\ Refresh(FALSE, is_fat32_drive, current_folder_id, cfs_files, updated)
  BY <1>2, <1>3
<1>5. pending = << >> /\ entries \in Dirs
  BY <1>1 DEF Paste, InFiles, Idle, TypeInv, DiskTyped
<1>6. CASE FreeSlots(entries) = {}
  BY <1>1, <1>4, <1>5, <1>6 DEF StoresNothing
<1>7. CASE FreeSlots(entries) # {}
  <2>1. s \in Slots /\ entries[s].type = "free"
    <3> HIDE DEF entries
    <3> QED BY <1>7, FreeFound
  <2>2. /\ pending' = IF clipboard_is_folder THEN <<DirWrite(updated)>>
                                             ELSE PasteWrites(PasteTarget(s), updated)
        /\ Refresh(FALSE, is_fat32_drive, current_folder_id, cfs_files, updated)
    BY <1>4, <1>7
  <2> HIDE DEF s
  <2>3. PasteTarget(s) \in Addresses
    BY <2>1, SlotLbas
  <2>4. updated[s].type # "free" /\ updated[s].parent = current_folder_id /\ updated \in Dirs /\ \A t \in Slots \ {s} : updated[t] = entries[t]
    <3>1. File(PasteTarget(s), current_folder_id) \in Entries /\ Folder(current_folder_id) \in Entries
      BY <2>3, EntriesTyped DEF TypeInv, ViewTyped
    <3>2. /\ File(PasteTarget(s), current_folder_id).type = "file" /\ Folder(current_folder_id).type = "folder"
          /\ File(PasteTarget(s), current_folder_id).parent = current_folder_id
          /\ Folder(current_folder_id).parent = current_folder_id
      BY DEF File, Folder
    <3> QED BY <1>5, <2>1, <3>1, <3>2 DEF Dirs
  <2>5. ~is_fat32_drive => cfs_files' = cfs_files
    BY <2>2 DEF Refresh
  <2> HIDE DEF updated
  <2>6. DirLast' /\ Settled' = updated
    BY <2>2, QueuesSettle, PasteSettles
  <2>7. StoresHere(s)
    BY <1>1, <1>5, <2>1, <2>2, <2>4, <2>6, SlotFilled DEF StoresHere
  <2> QED BY <1>1, <2>1, <2>5, <2>7
<1> QED BY <1>6, <1>7

LEMMA InitDrive == Init => DriveInv
BY DEF Init, DriveInv, NothingWithoutDrive, DirLast

LEMMA RebootDrive ==
  ASSUME Reboot
  PROVE  DriveInv'
BY DEF Reboot, DriveInv, NothingWithoutDrive, DirLast

LEMMA WriteDrive ==
  ASSUME TypeInv, DriveInv, WriteNext \/ WriteLost
  PROVE  DriveInv'
<1>1. UNCHANGED <<selected, opened, is_mounted, save_step>> /\ pending # << >> /\ pending' = Tail(pending)
  BY DEF WriteNext, WriteLost, viewVars, noteVars, Idle
<1>2. NothingWithoutDrive'
  BY <1>1 DEF DriveInv, NothingWithoutDrive
<1>3. /\ Len(pending) \in Nat \ {0} /\ Len(pending') = Len(pending) - 1
      /\ \A i \in 1 .. Len(pending) - 1 : pending'[i] = pending[i + 1]
  BY <1>1 DEF TypeInv
<1>4. DirLast'
  BY <1>3 DEF DriveInv, DirLast
<1> QED BY <1>2, <1>4 DEF DriveInv

LEMMA BrowsingDrive ==
  ASSUME TypeInv, DriveInv, Browsing
  PROVE  DriveInv'
<1>1. save_step' = save_step /\ pending = << >> /\ pending' = << >>
  BY DEF Browsing, SelectDrive, MountCfs, MountNtfs, MountFat32, MountUnknown, Mounting, BackToDrives,
         BackToRoot, Relist, EnterFolder, InDriveList, InFiles, Idle, noteVars
<1>2. DirLast'
  BY <1>1, QueuesSettle
<1>3. NothingWithoutDrive'
  <2>1. CASE Mounting
    BY <2>1 DEF Mounting, NothingWithoutDrive
  <2>2. CASE \E d \in Drives : SelectDrive(d)
    BY <2>2, DrivesAssumption DEF SelectDrive, NothingWithoutDrive
  <2>3. CASE BackToDrives \/ BackToRoot \/ Relist \/ \E s \in Slots : EnterFolder(s)
    BY <2>3 DEF BackToDrives, BackToRoot, Relist, EnterFolder, InFiles, viewVars, noteVars, DriveInv,
                NothingWithoutDrive
  <2> QED BY <2>1, <2>2, <2>3 DEF Browsing, MountCfs, MountNtfs, MountFat32, MountUnknown
<1> QED BY <1>2, <1>3 DEF DriveInv

LEMMA FormatDrive ==
  ASSUME Format
  PROVE  DriveInv'
<1>1. selected \in Drives /\ selected' = selected /\ pending' = FormatWrites
  BY FormatsAssumption DEF Format
<1>2. NothingWithoutDrive'
  BY <1>1, DrivesAssumption DEF NothingWithoutDrive
<1>3. DirLast'
  BY <1>1, QueuesSettle
<1> QED BY <1>2, <1>3 DEF DriveInv

LEMMA EntersDrive ==
  ASSUME NoFaults, TypeInv, DriveInv, Paste \/ MkDir \/ NewFolder \/ SaveAs
  PROVE  DriveInv'
<1>1. UNCHANGED <<selected, opened, is_mounted>> /\ pending = << >> /\ save_step' \in {save_step, "closed"}
  BY DEF Paste, MkDir, NewFolder, SaveAs, viewVars, noteVars, InFiles, Idle
<1>2. NothingWithoutDrive'
  BY <1>1 DEF DriveInv, NothingWithoutDrive
<1>3. DirLast'
  <2>1. CASE selected \in Drives
    BY <2>1, PasteStores, MkDirStores, NewFolderStores, SaveAsStores, QueuesSettle
       DEF StoresNothing, StoresHere, StoresIn
  <2>2. CASE selected \notin Drives
    <3>1. MkDir
      BY <2>2, PasteStores, NewFolderStores, SaveAsStores
    <3>2. pending' = << >> \/ \E updated : pending' = <<DirWrite(updated)>>
      BY <1>1, <3>1 DEF MkDir
    <3> QED BY <3>2, QueuesSettle
  <2> QED BY <2>1, <2>2
<1> QED BY <1>2, <1>3 DEF DriveInv

LEMMA OtherHandlersDrive ==
  ASSUME TypeInv, DriveInv, OpenDialog \/ (\E step : ChooseAction(step)) \/ (\E s \in Slots : Copy(s))
  PROVE  DriveInv'
<1>1. UNCHANGED <<selected, opened, is_mounted>> /\ pending' = << >>
  BY DEF OpenDialog, ChooseAction, Copy, viewVars, InFiles, Idle
<1>2. DirLast'
  BY <1>1, QueuesSettle
<1>3. NothingWithoutDrive'
  BY <1>1 DEF OpenDialog, ChooseAction, Copy, InFiles, DriveInv, NothingWithoutDrive, noteVars
<1> QED BY <1>2, <1>3 DEF DriveInv

LEMMA StepDrive ==
  ASSUME NoFaults, Buttons \cap {"file", "save"} = {}, TypeInv, DriveInv, [Next]_vars
  PROVE  DriveInv'
<1>1. CASE UNCHANGED vars
  BY <1>1 DEF vars, viewVars, noteVars, DriveInv, NothingWithoutDrive, DirLast
<1>2. "file" \notin Buttons /\ "save" \notin Buttons
  OBVIOUS
<1>3. CASE Storing
  BY <1>2, <1>3, FormatDrive, EntersDrive, OtherHandlersDrive DEF Storing
<1>4. CASE Editing
  BY <1>2, <1>4, EntersDrive, OtherHandlersDrive DEF Editing
<1> QED BY <1>1, <1>3, <1>4, WriteDrive, RebootDrive, BrowsingDrive DEF Next
-----------------------------------------------------------------------------
(* CacheNeverLies, for SATA drives that answer and hold no FAT32, without  *)
(* + FILE and SAVE.  The invariant: what is listed of an open CFS drive is in its   *)
(* directory as the queue will leave it, the drive is not taken for NTFS,  *)
(* and no drive is formatted while one is open.                            *)

BootSpared == \A i \in 1 .. Len(pending) : pending[i].where # "boot"

Lists(entries) == \A s \in Slots : cfs_files[s].type # "free" => cfs_files[s] = entries[s]

CacheInv ==
  /\ ~is_fat32_drive
  /\ \A d \in Drives : boot[d] # "fat32"
  /\ opened => BootSpared
  /\ opened /\ boot[selected] = "cfs" => ~is_ntfs_drive /\ Lists(Settled)

NoFat32 == \A d \in Drives : Format0[d] # "fat32"

LEMMA BootSparedQueues ==
  ASSUME NEW updated, NEW lba, NEW value
  PROVE  /\ pending' = << >> => BootSpared'
         /\ pending' = <<DirWrite(updated)>> => BootSpared'
         /\ pending' = <<DataWrite(lba, value), DirWrite(updated)>> => BootSpared'
<1>1. ASSUME pending' = << >> PROVE BootSpared'
  BY <1>1 DEF BootSpared
<1>2. ASSUME NEW w, pending' = <<w>>, w.where # "boot" PROVE BootSpared'
  <2>1. Len(pending') = 1 /\ pending'[1] = w
    BY <1>2
  <2>2. \A i \in 1 .. Len(pending') : i = 1
    BY <2>1
  <2> QED BY <1>2, <2>1, <2>2 DEF BootSpared
<1>3. ASSUME NEW v, NEW w, pending' = <<v, w>>, v.where # "boot", w.where # "boot" PROVE BootSpared'
  <2>1. Len(pending') = 2 /\ pending'[1] = v /\ pending'[2] = w
    BY <1>3
  <2>2. \A i \in 1 .. Len(pending') : i \in {1, 2}
    BY <2>1
  <2> QED BY <1>3, <2>1, <2>2 DEF BootSpared
<1>4. DirWrite(updated).where # "boot" /\ DataWrite(lba, value).where # "boot"
  BY DEF DirWrite, DataWrite
<1> QED BY <1>1, <1>2, <1>3, <1>4

LEMMA BootSparedByPaste ==
  ASSUME NEW updated, NEW lba, pending' = PasteWrites(lba, updated)
  PROVE  BootSpared'
<1> DEFINE Part(k) == DataWrite(lba + k - 1, buffer[k - 1])
           parts   == [k \in 1 .. FileSectors |-> Part(k)]
           W       == {Part(k) : k \in 1 .. FileSectors} \cup {DirWrite(updated)}
<1>1. \A w \in W : w.where # "boot"
  BY DEF DataWrite, DirWrite
<1>2. pending' = parts \o <<DirWrite(updated)>>
  BY DEF PasteWrites
<1> HIDE DEF Part
<1>3. parts \in [1 .. FileSectors -> W] /\ DirWrite(updated) \in W
  OBVIOUS
<1> HIDE DEF parts, W
<1>4. parts \in Seq(W)
  BY <1>3, LbaFacts
<1>5. pending' \in Seq(W)
  BY <1>2, <1>3, <1>4
<1> QED BY <1>1, <1>5 DEF BootSpared

LEMMA HandlersSpareBoot ==
  ASSUME Paste \/ MkDir \/ NewFolder \/ SaveAs
  PROVE  BootSpared'
<1>1. pending = << >>
  BY DEF Paste, MkDir, NewFolder, SaveAs, InFiles, Idle
<1>2. \/ pending' = << >>
      \/ \E updated : pending' = <<DirWrite(updated)>>
      \/ \E lba, updated : pending' = <<DataWrite(lba, Note), DirWrite(updated)>>
      \/ \E lba, updated : pending' = PasteWrites(lba, updated)
  <2>1. CASE MkDir
    BY <1>1, <2>1 DEF MkDir
  <2>2. CASE NewFolder
    BY <1>1, <2>2 DEF NewFolder
  <2>3. CASE SaveAs
    BY <1>1, <2>3 DEF SaveAs
  <2>4. CASE Paste
    BY <1>1, <2>4 DEF Paste
  <2> QED BY <2>1, <2>2, <2>3, <2>4
<1> QED BY <1>2, BootSparedQueues, BootSparedByPaste

LEMMA InitCache ==
  ASSUME NoFat32, Init
  PROVE  CacheInv
BY DEF Init, CacheInv, NoFat32

LEMMA WriteCache ==
  ASSUME NoFaults, TypeInv, DriveInv, CacheInv, WriteNext \/ WriteLost
  PROVE  CacheInv'
<1>1. /\ UNCHANGED <<selected, opened, is_ntfs_drive, is_fat32_drive, cfs_files>>
      /\ pending # << >> /\ pending' = Tail(pending)
  BY DEF WriteNext, WriteLost, viewVars, Idle
<1>2. pending \in Seq(Writes) /\ Head(pending) = pending[1] /\ 1 \in 1 .. Len(pending) /\ Head(pending) \in Writes
  BY <1>1 DEF TypeInv
<1>3. CASE WriteNext
  <2>1. Settled' = Settled
    BY <1>3, QueueSettles DEF DriveInv
  <2>2. opened => boot' = boot
    BY <1>2, <1>3 DEF WriteNext, CacheInv, BootSpared
  <2>3. \A d \in Drives : boot'[d] # "fat32"
    <3>1. Head(pending).where = "boot" => Head(pending).value = "cfs"
      BY <1>2 DEF Writes, BootWrites, DirWrites, DataWrites, TextWrites
    <3>2. boot' = boot \/ boot' = [boot EXCEPT ![selected] = "cfs"]
      BY <1>3, <3>1 DEF WriteNext
    <3> QED BY <3>2 DEF CacheInv, TypeInv, DiskTyped
  <2>4. BootSpared => BootSpared'
    <3>1. Len(pending') = Len(pending) - 1 /\ \A i \in 1 .. Len(pending) - 1 : pending'[i] = pending[i + 1]
      BY <1>1, <1>2
    <3>2. Len(pending) \in Nat
      BY <1>2
    <3> QED BY <3>1, <3>2 DEF BootSpared
  <2> QED BY <1>1, <2>1, <2>2, <2>3, <2>4 DEF CacheInv, Lists
<1>4. CASE WriteLost
  <2>1. selected = NoDrive /\ boot' = boot
    BY <1>4, DrivesAssumption DEF WriteLost, WriteFails, WriteWorks, NoFaults, TypeInv, ViewTyped, diskVars
  <2> QED BY <1>1, <2>1 DEF CacheInv, DriveInv, NothingWithoutDrive
<1> QED BY <1>3, <1>4

LEMMA MountCache ==
  ASSUME NoFaults, TypeInv, CacheInv, Mounting, MountCfs \/ MountNtfs \/ MountFat32 \/ MountUnknown
  PROVE  CacheInv'
<1>1. /\ UNCHANGED <<boot, dir, selected>> /\ pending' = << >> /\ opened' = TRUE
      /\ selected \in Drives /\ selected # NoDrive /\ selected \notin Flaky
  BY DEF Mounting, InDriveList, Idle, diskVars, TypeInv, ViewTyped, NoFaults
<1>2. BootSpared' /\ Settled' = dir[selected]
  BY <1>1, BootSparedQueues, QueuesSettle
<1>3. \A format : Found(format) => format = boot[selected]
  BY <1>1 DEF Found, ReadFails
<1>4. CASE MountCfs
  <2>1. PICK works \in ReadOutcomes :
          Refresh(FALSE, is_fat32_drive, Root, FromDir(IF works THEN dir[selected] ELSE ZeroDir),
                  IF works THEN dir[selected] ELSE ZeroDir)
    BY <1>4 DEF MountCfs
  <2>2. (IF works THEN dir[selected] ELSE ZeroDir) = dir[selected]
    BY <1>1, ReadsDirectory DEF NoFaults
  <2>3. cfs_files' = FromDir(dir[selected])
    BY <2>1, <2>2 DEF Refresh, CacheInv
  <2>4. Lists(dir[selected])'
    BY <1>1, <2>3 DEF Lists, FromDir, Cleared
  <2> QED BY <1>1, <1>2, <1>4, <2>4 DEF MountCfs, CacheInv, Lists
<1>5. CASE MountNtfs
  BY <1>1, <1>2, <1>3, <1>5 DEF MountNtfs, CacheInv
<1>6. CASE MountFat32
  BY <1>1, <1>3, <1>6 DEF MountFat32, CacheInv
<1>7. CASE MountUnknown
  BY <1>1, <1>2, <1>3, <1>7 DEF MountUnknown, CacheInv
<1> QED BY <1>4, <1>5, <1>6, <1>7

LEMMA BrowsingCache ==
  ASSUME NoFaults, TypeInv, CacheInv, Browsing
  PROVE  CacheInv'
<1>1. UNCHANGED <<boot, dir>> /\ pending = << >> /\ pending' = << >>
  BY DEF Browsing, SelectDrive, MountCfs, MountNtfs, MountFat32, MountUnknown, Mounting, BackToDrives,
         BackToRoot, Relist, EnterFolder, InDriveList, InFiles, Idle, diskVars, noteVars
<1>2. CASE BackToDrives \/ \E d \in Drives : SelectDrive(d)
  BY <1>1, <1>2 DEF BackToDrives, SelectDrive, InDriveList, CacheInv
<1>3. CASE BackToRoot \/ Relist \/ \E s \in Slots : EnterFolder(s)
  <2>1. UNCHANGED <<opened, selected, is_ntfs_drive, is_fat32_drive>>
    BY <1>3 DEF BackToRoot, Relist, EnterFolder, viewVars
  <2>2. \E folder : Refresh(is_ntfs_drive, is_fat32_drive, folder, cfs_files, buf_dir)
    BY <1>3 DEF BackToRoot, Relist, EnterFolder
  <2>3. ~is_ntfs_drive => cfs_files' = cfs_files
    BY <2>2 DEF Refresh, CacheInv
  <2>4. Settled' = Settled
    BY <1>1, <2>1 DEF Settled
  <2> QED BY <1>1, <2>1, <2>3, <2>4, BootSparedQueues DEF CacheInv, Lists
<1>4. CASE MountCfs \/ MountNtfs \/ MountFat32 \/ MountUnknown
  BY <1>4, MountCache DEF MountCfs, MountNtfs, MountFat32, MountUnknown
<1> QED BY <1>2, <1>3, <1>4 DEF Browsing

LEMMA EntersCache ==
  ASSUME NoFaults, TypeInv, DriveInv, CacheInv, Paste \/ MkDir \/ NewFolder \/ SaveAs
  PROVE  CacheInv'
<1>1. /\ UNCHANGED <<boot, dir, selected, opened, is_ntfs_drive, is_fat32_drive>> /\ pending = << >>
  BY DEF Paste, MkDir, NewFolder, SaveAs, diskVars, viewVars, InFiles, Idle
<1>2. BootSpared'
  BY HandlersSpareBoot
<1>3. SUFFICES ASSUME opened, boot[selected] = "cfs"
               PROVE  Lists(Settled)'
  BY <1>1, <1>2 DEF CacheInv
<1>4. selected \in Drives /\ Lists(dir[selected])
  BY <1>1, <1>3 DEF CacheInv, Settled, DriveInv, NothingWithoutDrive, TypeInv, ViewTyped
<1>5. CASE StoresNothing
  <2>1. cfs_files' = cfs_files
    BY <1>5, PasteStores, NewFolderStores, SaveAsStores DEF MkDir, CacheInv
  <2>2. Settled' = dir[selected]
    BY <1>1, <1>5, QueuesSettle DEF StoresNothing
  <2> QED BY <1>4, <2>1, <2>2 DEF Lists
<1>6. CASE ~StoresNothing
  <2>1. PICK s \in Slots : StoresIn(s) /\ (cfs_files' = cfs_files \/ cfs_files' = [cfs_files EXCEPT ![s] = Settled'[s]])
    <3>1. CASE NewFolder \/ SaveAs
      BY <1>6, <3>1, NewFolderStores, SaveAsStores DEF StoresHere
    <3>2. CASE Paste
      BY <1>6, <3>2, PasteStores DEF CacheInv, StoresHere
    <3>3. CASE MkDir
      BY <1>4, <1>6, <3>3, MkDirStores DEF MkDir
    <3> QED BY <3>1, <3>2, <3>3
  <2>2. cfs_files \in [Slots -> Entries]
    BY DEF TypeInv, ListTyped, Dirs
  <2>3. \A t \in Slots \ {s} : cfs_files'[t] = cfs_files[t] /\ Settled'[t] = dir[selected][t]
    BY <2>1, <2>2 DEF StoresIn
  <2>4. cfs_files[s].type # "free" => cfs_files[s] = dir[selected][s]
    BY <1>4 DEF Lists
  <2>5. cfs_files[s].type = "free"
    BY <2>1, <2>4 DEF StoresIn
  <2>6. cfs_files'[s].type = "free" \/ cfs_files'[s] = Settled'[s]
    BY <2>1, <2>2, <2>5
  <2> QED BY <1>4, <2>3, <2>6 DEF Lists
<1> QED BY <1>5, <1>6

LEMMA OtherHandlersCache ==
  ASSUME CacheInv,
         Format \/ Reboot \/ OpenDialog \/ (\E step : ChooseAction(step)) \/ (\E s \in Slots : Copy(s))
  PROVE  CacheInv'
<1>1. CASE Format
  BY <1>1 DEF Format, InDriveList, CacheInv, diskVars
<1>2. CASE Reboot
  BY <1>2 DEF Reboot, CacheInv, diskVars
<1>3. CASE OpenDialog \/ (\E step : ChooseAction(step)) \/ (\E s \in Slots : Copy(s))
  <2>1. UNCHANGED <<boot, dir, selected, opened, is_ntfs_drive, is_fat32_drive, cfs_files>> /\ pending = << >>
    BY <1>3 DEF OpenDialog, ChooseAction, Copy, diskVars, viewVars, InFiles, Idle
  <2>2. pending' = << >>
    BY <1>3, <2>1 DEF OpenDialog, ChooseAction, Copy
  <2>3. BootSpared' /\ Settled' = (dir[selected])'
    BY <2>2, QueuesSettle, BootSparedQueues
  <2>4. Settled = dir[selected]
    BY <2>1 DEF Settled
  <2> QED BY <2>1, <2>3, <2>4 DEF CacheInv, Lists
<1> QED BY <1>1, <1>2, <1>3

LEMMA StepCache ==
  ASSUME NoFaults, Buttons \cap {"file", "save"} = {}, TypeInv, DriveInv, CacheInv, [Next]_vars
  PROVE  CacheInv'
<1>1. CASE UNCHANGED vars
  BY <1>1 DEF vars, diskVars, viewVars, CacheInv, BootSpared, Lists, Settled
<1>2. "file" \notin Buttons /\ "save" \notin Buttons
  OBVIOUS
<1>3. CASE Storing
  BY <1>3, <1>2, EntersCache, OtherHandlersCache DEF Storing
<1>4. CASE Editing
  BY <1>4, <1>2, EntersCache, OtherHandlersCache DEF Editing
<1> QED BY <1>1, <1>3, <1>4, WriteCache, BrowsingCache, OtherHandlersCache DEF Next

(* On SATA drives that answer and hold no FAT32, every file and folder the *)
(* explorer lists of a CFS drive is in the drive's directory, in that slot *)
(* and that folder, once the handler has returned: PASTE, MKDIR, SAVE AS   *)
(* and NEW FOLDER keep the cache cfs_files in step with sector 1002.       *)
(* + FILE does not: it leaves the cached parent as it was; and SAVE may    *)
(* write sector 1002 itself, if a foreign file's number says so.           *)
THEOREM ListingsAreTrue ==
  ASSUME NoFaults, NoFat32, Buttons \cap {"file", "save"} = {}
  PROVE  Spec => []CacheNeverLies
<1>1. TypeInv /\ DriveInv /\ CacheInv /\ [Next]_vars => TypeInv' /\ DriveInv' /\ CacheInv'
  BY StepTyped, StepDrive, StepCache
<1>2. CacheInv => CacheNeverLies
  BY DEF CacheInv, CacheNeverLies, Lists, Settled, InFiles, Idle
<1>3. Init => CacheInv
  BY InitCache
<1> QED BY <1>1, <1>2, <1>3, InitTyped, InitDrive, PTL DEF Spec

-----------------------------------------------------------------------------
(* DirectoriesAreTrees, for SATA drives that answer and hold CFS or        *)
(* nothing, without + FILE and MKDIR, which write 0 for the parent, and    *)
(* without SAVE.  The invariant: the directories are trees, and stay so when the queue has    *)
(* been written; the folder that is open is one of them; and on the list   *)
(* of the drives the root is open.                                         *)

TreeInv ==
  /\ ~is_fat32_drive /\ ~is_ntfs_drive
  /\ \A d \in Drives : ~Foreign(boot[d]) /\ IsTree(dir[d])
  /\ selected \in Drives => IsTree(Settled)
  /\ opened => Lists(Settled)
  /\ ~opened => current_folder_id = Root
  /\ current_folder_id # Root => Settled[current_folder_id].type = "folder"

NoForeign == \A d \in Drives : ~Foreign(Format0[d])

LEMMA BlankTree == IsTree(ZeroDir)
BY DEF IsTree, Used, ZeroDir, Zeroed

(* An entry put into a free slot, in the root or in a folder that is there. *)
LEMMA TreeGrows ==
  ASSUME NEW old, NEW new, IsTree(old), NEW s \in Slots, old[s].type = "free", new[s].type # "free",
         \A t \in Slots \ {s} : new[t] = old[t],
         new[s].parent = Root \/ (new[s].parent \in Slots /\ old[new[s].parent].type = "folder")
  PROVE  IsTree(new)
<1>1. Used(new) = Used(old) \cup {s} /\ s \notin Used(old)
  BY DEF Used
<1>2. SUFFICES ASSUME NEW group \in SUBSET Used(new), group # {}
               PROVE  \E t \in group :
                        \/ new[t].parent = Root
                        \/ /\ new[t].parent \in Used(new) \ group
                           /\ new[new[t].parent].type = "folder"
  BY DEF IsTree
<1>3. CASE group = {s}
  <2>1. CASE new[s].parent = Root
    BY <1>3, <2>1
  <2>2. CASE new[s].parent \in Slots /\ old[new[s].parent].type = "folder"
    <3>1. new[s].parent # s /\ new[s].parent \in Used(old)
      BY <2>2 DEF Used
    <3>2. new[new[s].parent].type = "folder"
      BY <2>2, <3>1
    <3> QED BY <1>1, <1>3, <3>1, <3>2
  <2> QED BY <2>1, <2>2
<1>4. CASE group # {s}
  <2>1. group \ {s} # {} /\ group \ {s} \in SUBSET Used(old)
    BY <1>1, <1>2, <1>4
  <2>2. PICK t \in group \ {s} :
          \/ old[t].parent = Root
          \/ /\ old[t].parent \in Used(old) \ (group \ {s})
             /\ old[old[t].parent].type = "folder"
    BY <2>1 DEF IsTree
  <2>3. t \in Slots \ {s} /\ new[t] = old[t]
    BY <1>1, <2>2 DEF Used
  <2>4. CASE old[t].parent \in Used(old) \ (group \ {s}) /\ old[old[t].parent].type = "folder"
    <3>1. old[t].parent \in Slots /\ old[t].parent # s
      BY <1>1, <2>4 DEF Used
    <3>2. old[t].parent \in Used(new) \ group /\ new[old[t].parent].type = "folder"
      BY <1>1, <2>4, <3>1
    <3> QED BY <2>2, <2>3, <3>2
  <2> QED BY <2>2, <2>3, <2>4
<1> QED BY <1>3, <1>4

LEMMA QueueWritesSettled ==
  ASSUME TypeInv, DirLast, WriteNext
  PROVE  \A d \in Drives : dir'[d] = dir[d] \/ (d = selected /\ dir'[d] = Settled)
<1>1. pending # << >> /\ selected \in Drives
  BY DEF WriteNext, Idle, WriteWorks
<1>2. pending \in Seq(Writes) /\ Len(pending) \in Nat \ {0} /\ Head(pending) = pending[1]
  BY <1>1 DEF TypeInv
<1>3. dir' = IF pending[1].where = "dir" THEN [dir EXCEPT ![selected] = pending[1].value] ELSE dir
  <2>1. pending[1].where # "text"
    BY <1>2 DEF DirLast
  <2> QED BY <1>2, <2>1 DEF WriteNext
<1>4. pending[1].where = "dir" => Settled = pending[1].value
  <2>1. CASE Len(pending) = 1
    BY <1>1, <2>1 DEF Settled
  <2>2. CASE Len(pending) # 1
    <3>1. 1 \in 1 .. Len(pending) - 1
      BY <1>2, <2>2
    <3> QED BY <3>1 DEF DirLast
  <2> QED BY <2>1, <2>2
<1> QED BY <1>1, <1>3, <1>4 DEF TypeInv, DiskTyped

LEMMA InitTree ==
  ASSUME NoForeign, Init
  PROVE  TreeInv
<1>1. boot = Format0 /\ \A d \in Drives : dir[d] = ZeroDir
  BY DEF Init, NoForeign
<1>2. /\ ~is_fat32_drive /\ ~is_ntfs_drive /\ ~opened /\ current_folder_id = Root /\ selected = NoDrive
  BY DEF Init
<1> QED BY <1>1, <1>2, BlankTree, DrivesAssumption DEF TreeInv, NoForeign

LEMMA WriteTree ==
  ASSUME NoFaults, TypeInv, DriveInv, TreeInv, WriteNext \/ WriteLost
  PROVE  TreeInv'
<1>1. /\ UNCHANGED <<selected, opened, is_ntfs_drive, is_fat32_drive, current_folder_id, cfs_files>>
      /\ pending # << >>
  BY DEF WriteNext, WriteLost, viewVars, Idle
<1>2. CASE WriteNext
  <2>1. DirLast
    BY DEF DriveInv
  <2>2. Settled' = Settled /\ selected \in Drives
    BY <1>2, <2>1, QueueSettles DEF WriteNext, WriteWorks
  <2>3. \A d \in Drives : IsTree(dir[d])'
    BY <1>2, <2>1, <2>2, QueueWritesSettled DEF TreeInv
  <2>4. \A d \in Drives : ~Foreign(boot[d])'
    <3>1. Head(pending) \in Writes
      BY <1>1 DEF TypeInv
    <3>2. Head(pending).where = "boot" => Head(pending).value = "cfs"
      BY <3>1 DEF Writes, BootWrites, DirWrites, DataWrites, TextWrites
    <3>3. boot' = boot \/ boot' = [boot EXCEPT ![selected] = "cfs"]
      BY <1>2, <3>2 DEF WriteNext
    <3> QED BY <3>3 DEF TreeInv, TypeInv, DiskTyped, Foreign
  <2> QED BY <1>1, <2>2, <2>3, <2>4 DEF TreeInv, Lists
<1>3. CASE WriteLost
  <2>1. selected = NoDrive /\ UNCHANGED <<boot, dir>>
    BY <1>3, DrivesAssumption DEF WriteLost, WriteFails, WriteWorks, NoFaults, TypeInv, ViewTyped, diskVars
  <2>2. ~opened /\ current_folder_id = Root
    BY <2>1 DEF DriveInv, NothingWithoutDrive, TreeInv
  <2> QED BY <1>1, <2>1, <2>2, DrivesAssumption DEF TreeInv
<1> QED BY <1>2, <1>3

LEMMA MountTree ==
  ASSUME NoFaults, TypeInv, TreeInv, MountCfs \/ MountNtfs \/ MountFat32 \/ MountUnknown
  PROVE  TreeInv'
<1>1. /\ UNCHANGED <<boot, dir, selected>> /\ pending' = << >> /\ opened' = TRUE /\ current_folder_id' = Root
      /\ selected \in Drives /\ selected # NoDrive /\ selected \notin Flaky
  BY DEF MountCfs, MountNtfs, MountFat32, MountUnknown, Mounting, InDriveList, Idle, diskVars, TypeInv, ViewTyped,
         NoFaults
<1>2. Settled' = dir[selected]
  BY <1>1, QueuesSettle
<1>3. \A format : Found(format) => ~Foreign(format)
  BY <1>1 DEF Found, ReadFails, TreeInv
<1>4. CASE MountCfs
  <2>1. PICK works \in ReadOutcomes :
          Refresh(FALSE, is_fat32_drive, Root, FromDir(IF works THEN dir[selected] ELSE ZeroDir),
                  IF works THEN dir[selected] ELSE ZeroDir)
    BY <1>4 DEF MountCfs
  <2>2. (IF works THEN dir[selected] ELSE ZeroDir) = dir[selected]
    BY <1>1, ReadsDirectory DEF NoFaults
  <2>3. cfs_files' = FromDir(dir[selected])
    BY <2>1, <2>2 DEF Refresh, TreeInv
  <2>4. Lists(dir[selected])'
    BY <1>1, <2>3 DEF Lists, FromDir, Cleared
  <2>5. ~is_fat32_drive' /\ ~is_ntfs_drive'
    BY <1>4 DEF MountCfs, TreeInv
  <2> QED BY <1>1, <1>2, <2>4, <2>5 DEF TreeInv, Lists
<1>5. ~MountNtfs /\ ~MountFat32
  BY <1>3 DEF MountNtfs, MountFat32, Foreign
<1>6. CASE MountUnknown
  <2>1. cfs_files' = NoFiles /\ UNCHANGED <<is_ntfs_drive, is_fat32_drive>>
    BY <1>6 DEF MountUnknown
  <2>2. Lists(Settled)'
    BY <2>1 DEF Lists, NoFiles, Cleared
  <2> QED BY <1>1, <1>2, <2>1, <2>2 DEF TreeInv
<1> QED BY <1>4, <1>5, <1>6

LEMMA BrowsingTree ==
  ASSUME NoFaults, TypeInv, TreeInv, Browsing
  PROVE  TreeInv'
<1>1. UNCHANGED <<boot, dir>> /\ pending = << >> /\ pending' = << >>
  BY DEF Browsing, SelectDrive, MountCfs, MountNtfs, MountFat32, MountUnknown, Mounting, BackToDrives,
         BackToRoot, Relist, EnterFolder, InDriveList, InFiles, Idle, diskVars, noteVars
<1>2. Settled = dir[selected] /\ Settled' = dir[selected']
  BY <1>1 DEF Settled
<1>3. CASE BackToDrives
  BY <1>1, <1>2, <1>3 DEF BackToDrives, TreeInv
<1>4. CASE \E d \in Drives : SelectDrive(d)
  BY <1>1, <1>2, <1>4 DEF SelectDrive, InDriveList, TreeInv
<1>5. CASE Relist \/ \E s \in Slots : EnterFolder(s)
  <2>1. UNCHANGED <<opened, selected, is_ntfs_drive, is_fat32_drive>> /\ opened
    BY <1>5 DEF Relist, EnterFolder, viewVars, InFiles
  <2>2. \E folder : Refresh(is_ntfs_drive, is_fat32_drive, folder, cfs_files, buf_dir)
    BY <1>5 DEF Relist, EnterFolder
  <2>3. cfs_files' = cfs_files
    BY <2>2 DEF Refresh, TreeInv
  <2>4. current_folder_id' # Root => dir[selected][current_folder_id'].type = "folder"
    <3>1. CASE Relist
      BY <1>2, <3>1 DEF Relist, viewVars, TreeInv
    <3>2. CASE \E s \in Slots : EnterFolder(s)
      <4>1. PICK s \in Slots : cfs_files[s].type = "folder" /\ current_folder_id' = s
        BY <3>2 DEF EnterFolder
      <4> QED BY <1>2, <2>1, <4>1 DEF TreeInv, Lists
    <3> QED BY <1>5, <3>1, <3>2
  <2> QED BY <1>1, <1>2, <2>1, <2>3, <2>4 DEF TreeInv, Lists
<1>6. CASE MountCfs \/ MountNtfs \/ MountFat32 \/ MountUnknown
  BY <1>6, MountTree
<1>7. ~BackToRoot
  BY DEF BackToRoot, TreeInv
<1> QED BY <1>3, <1>4, <1>5, <1>6, <1>7 DEF Browsing

LEMMA EntersTree ==
  ASSUME NoFaults, TypeInv, DriveInv, TreeInv, Paste \/ NewFolder \/ SaveAs
  PROVE  TreeInv'
<1>1. /\ UNCHANGED <<boot, dir, selected, opened, is_ntfs_drive, is_fat32_drive, current_folder_id>>
      /\ pending = << >>
  BY DEF Paste, NewFolder, SaveAs, diskVars, viewVars, InFiles, Idle
<1>2. selected \in Drives
  BY PasteStores, NewFolderStores, SaveAsStores
<1>3. Settled = dir[selected]
  BY <1>1 DEF Settled
<1>4. CASE StoresNothing
  <2>1. cfs_files' = cfs_files
    BY <1>4, PasteStores, NewFolderStores, SaveAsStores DEF TreeInv
  <2>2. Settled' = dir[selected]
    BY <1>1, <1>4, QueuesSettle DEF StoresNothing
  <2> QED BY <1>1, <1>3, <2>1, <2>2 DEF TreeInv, Lists
<1>5. CASE ~StoresNothing
  <2>1. PICK s \in Slots : StoresHere(s) /\ (cfs_files' = cfs_files \/ cfs_files' = [cfs_files EXCEPT ![s] = Settled'[s]])
    BY <1>5, PasteStores, NewFolderStores, SaveAsStores DEF TreeInv
  <2>2. /\ dir[selected][s].type = "free" /\ Settled'[s].type # "free" /\ Settled'[s].parent = current_folder_id
        /\ \A t \in Slots \ {s} : Settled'[t] = dir[selected][t]
    BY <2>1 DEF StoresHere, StoresIn
  <2>3. current_folder_id # Root =>
          current_folder_id \in Slots \ {s} /\ dir[selected][current_folder_id].type = "folder"
    BY <1>3, <2>2 DEF TreeInv, TypeInv, ViewTyped
  <2>4. IsTree(Settled')
    <3>1. IsTree(dir[selected])
      BY <1>2 DEF TreeInv
    <3> DEFINE new == Settled'
    <3>2. new[s].parent = Root \/ (new[s].parent \in Slots /\ dir[selected][new[s].parent].type = "folder")
      BY <2>2, <2>3
    <3>3. new[s].type # "free" /\ \A t \in Slots \ {s} : new[t] = dir[selected][t]
      BY <2>2
    <3> HIDE DEF new
    <3>4. IsTree(new)
      BY <2>2, <3>1, <3>2, <3>3, TreeGrows
    <3> QED BY <3>4 DEF new
  <2>5. current_folder_id # Root => Settled'[current_folder_id].type = "folder"
    BY <2>2, <2>3
  <2>6. opened => Lists(Settled)'
    <3> SUFFICES ASSUME opened, NEW t \in Slots, cfs_files'[t].type # "free"
                 PROVE  cfs_files'[t] = Settled'[t]
      BY DEF Lists
    <3>1. cfs_files \in [Slots -> Entries]
      BY DEF TypeInv, ListTyped, Dirs
    <3>2. cfs_files[t].type # "free" => cfs_files[t] = dir[selected][t]
      BY <1>3 DEF TreeInv, Lists
    <3>3. CASE t = s
      BY <2>1, <2>2, <3>1, <3>2, <3>3
    <3>4. CASE t # s
      BY <2>1, <2>2, <3>1, <3>2, <3>4
    <3> QED BY <3>3, <3>4
  <2>7. IsTree(Settled)'
    BY <2>4
  <2> QED BY <1>1, <2>5, <2>6, <2>7 DEF TreeInv
<1> QED BY <1>4, <1>5

LEMMA OtherHandlersTree ==
  ASSUME TypeInv, TreeInv,
         Format \/ Reboot \/ OpenDialog \/ (\E step : ChooseAction(step)) \/ (\E s \in Slots : Copy(s))
  PROVE  TreeInv'
<1>1. CASE Format
  <2>1. /\ UNCHANGED <<boot, dir, selected, opened, is_ntfs_drive, is_fat32_drive>> /\ ~opened /\ current_folder_id' = Root
        /\ pending' = <<BootWrite("cfs"), DirWrite(ZeroDir)>>
    BY <1>1 DEF Format, FormatWrites, InDriveList, diskVars
  <2>2. Settled' = ZeroDir
    <3>1. pending' # << >> /\ pending'[Len(pending')] = DirWrite(ZeroDir)
      BY <2>1
    <3> QED BY <3>1 DEF DirWrite, Settled
  <2>3. IsTree(Settled)'
    BY <2>2, BlankTree
  <2> QED BY <2>1, <2>3 DEF TreeInv
<1>2. CASE Reboot
  BY <1>2, DrivesAssumption DEF Reboot, TreeInv, diskVars
<1>3. CASE OpenDialog \/ (\E step : ChooseAction(step)) \/ (\E s \in Slots : Copy(s))
  <2>1. /\ UNCHANGED <<boot, dir, selected, opened, is_ntfs_drive, is_fat32_drive, current_folder_id, cfs_files>>
        /\ pending = << >>
    BY <1>3 DEF OpenDialog, ChooseAction, Copy, diskVars, viewVars, InFiles, Idle
  <2>2. pending' = << >>
    BY <1>3, <2>1 DEF OpenDialog, ChooseAction, Copy
  <2>3. Settled' = (dir[selected])'
    BY <2>2, QueuesSettle
  <2>4. Settled = dir[selected]
    BY <2>1 DEF Settled
  <2> QED BY <2>1, <2>3, <2>4 DEF TreeInv, Lists
<1> QED BY <1>1, <1>2, <1>3

LEMMA StepTree ==
  ASSUME NoFaults, Buttons \cap {"file", "mkdir", "save"} = {}, TypeInv, DriveInv, TreeInv, [Next]_vars
  PROVE  TreeInv'
<1>1. CASE UNCHANGED vars
  BY <1>1 DEF vars, diskVars, viewVars, TreeInv, Lists, Settled
<1>2. "file" \notin Buttons /\ "mkdir" \notin Buttons /\ "save" \notin Buttons
  OBVIOUS
<1>3. CASE Storing
  BY <1>2, <1>3, EntersTree, OtherHandlersTree DEF Storing
<1>4. CASE Editing
  BY <1>2, <1>4, EntersTree, OtherHandlersTree DEF Editing
<1> QED BY <1>1, <1>3, <1>4, WriteTree, BrowsingTree, OtherHandlersTree DEF Next

(* On SATA drives that answer and hold CFS or nothing, what PASTE, SAVE AS *)
(* and NEW FOLDER store lies in the root or in a folder that leads there:  *)
(* current_folder_id always names a folder of the drive that is written,   *)
(* although nothing ties it to one, and a power failure between two writes *)
(* leaves the old tree or the new one.                                     *)
THEOREM DirectoriesStayTrees ==
  ASSUME NoFaults, NoForeign, Buttons \cap {"file", "mkdir", "save"} = {}
  PROVE  Spec => []DirectoriesAreTrees
<1>1. TypeInv /\ DriveInv /\ TreeInv /\ [Next]_vars => TypeInv' /\ DriveInv' /\ TreeInv'
  <2>1. Buttons \cap {"file", "save"} = {}
    OBVIOUS
  <2> QED BY <2>1, StepTyped, StepDrive, StepTree
<1>2. TypeInv /\ TreeInv => DirectoriesAreTrees
  BY TypedTypes DEF TreeInv, DirectoriesAreTrees, ReachableFromRoot
<1>3. Init => TreeInv
  BY InitTree
<1> QED BY <1>1, <1>2, <1>3, InitTyped, InitDrive, PTL DEF Spec
-----------------------------------------------------------------------------
(* ImplementsFileStore, for COPY and PASTE on CFS drives that answer.  The *)
(* first part of the invariant: a file's sectors are those of its slot, so *)
(* that no other file reaches into them.  SAVE AS and + FILE place files   *)
(* by other rules.                                                         *)

IsRow(entries) == entries = [s \in Slots |-> entries[s]]

LaidOut(entries) ==
  /\ IsRow(entries)
  /\ \A s \in Slots : entries[s].type = "file" => entries[s].start = PasteTarget(s)

LayInv ==
  /\ dir = [d \in Drives |-> dir[d]]
  /\ \A d \in Drives : LaidOut(dir[d])
  /\ LaidOut(buf_dir)
  /\ selected \in Drives \cup {NoDrive}
  /\ \E entries : WritesOnly(pending, entries) /\ LaidOut(entries)

LEMMA RawDirsLaidOut == \A entries \in RawDirs : LaidOut(entries)
BY DEF RawDirs, LaidOut, IsRow, Zeroed, ForeignEnt

LEMMA BlankDirsLaidOut == LaidOut(ZeroDir) /\ LaidOut(ForeignDir)
<1>1. ZeroDir \in RawDirs /\ ForeignDir \in RawDirs
  BY DEF RawDirs, ZeroDir, ForeignDir
<1> QED BY <1>1, RawDirsLaidOut

LEMMA TargetsAreNumbers ==
  ASSUME NEW s \in Slots
  PROVE  PasteTarget(s) \in Nat
<1>1. PasteTarget(s) \in Addresses
  BY SlotLbas
<1>2. Addresses \subseteq Nat
  BY SmallAddresses
<1> QED BY <1>1, <1>2, Zenon

LEMMA RefreshReads ==
  ASSUME NEW ntfs, NEW fat32, NEW folder, NEW files, NEW entries,
         Refresh(ntfs, fat32, folder, files, entries)
  PROVE  buf_dir' \in {entries, ForeignDir, ZeroDir}
BY DEF Refresh

LEMMA IdleLayStep ==
  ASSUME LayInv, dir' = dir, pending' = << >>, selected' \in Drives \cup {NoDrive}, LaidOut(buf_dir')
  PROVE  LayInv'
<1>1. WritesOnly(pending', ZeroDir)
  BY EmptyQueue
<1> QED BY <1>1, BlankDirsLaidOut DEF LayInv

LEMMA QueueLayStep ==
  ASSUME LayInv, dir' = dir, selected' = selected, LaidOut(buf_dir'),
         NEW entries, WritesOnly(pending', entries), LaidOut(entries)
  PROVE  LayInv'
BY DEF LayInv

LEMMA InitLaysOut == Init => LayInv
<1> SUFFICES ASSUME Init PROVE LayInv
  OBVIOUS
<1>1. dir \in [Drives -> {ZeroDir, ForeignDir}]
  BY DEF Init
<1>2. pending = << >> /\ selected = NoDrive /\ buf_dir \in RawDirs
  BY DEF Init
<1>3. WritesOnly(pending, ZeroDir)
  BY <1>2, EmptyQueue
<1> QED BY <1>1, <1>2, <1>3, BlankDirsLaidOut, RawDirsLaidOut DEF LayInv

LEMMA WriteLaysOut ==
  ASSUME LayInv, WriteNext \/ WriteLost
  PROVE  LayInv'
<1>1. PICK entries : WritesOnly(pending, entries) /\ LaidOut(entries)
  BY DEF LayInv
<1>2. pending # << >> /\ pending' = Tail(pending) /\ selected' = selected /\ buf_dir' = buf_dir
  BY DEF WriteNext, WriteLost, Idle, viewVars
<1>3. WritesOnly(pending', entries) /\ (Head(pending).where = "dir" => Head(pending).value = entries)
      /\ Head(pending).where # "text"
  BY <1>1, <1>2, QueueMovesOn
<1>4. dir' = dir \/ (selected \in Drives /\ dir' = [dir EXCEPT ![selected] = entries])
  BY <1>3 DEF WriteNext, WriteLost, WriteWorks, diskVars
<1>5. dir' = [d \in Drives |-> dir'[d]] /\ \A d \in Drives : dir'[d] = dir[d] \/ dir'[d] = entries
  BY <1>4 DEF LayInv
<1>6. \A d \in Drives : LaidOut(dir'[d])
  BY <1>1, <1>5 DEF LayInv
<1> QED BY <1>1, <1>2, <1>3, <1>5, <1>6 DEF LayInv

LEMMA BrowsingLaysOut ==
  ASSUME LayInv, Browsing
  PROVE  LayInv'
<1>1. dir' = dir /\ pending = << >> /\ pending' = pending
  BY DEF Browsing, SelectDrive, MountCfs, MountNtfs, MountFat32, MountUnknown, Mounting, BackToDrives,
         BackToRoot, Relist, EnterFolder, InDriveList, InFiles, Idle, diskVars
<1>2. selected' \in Drives \cup {NoDrive}
  BY DEF LayInv, Browsing, SelectDrive, MountCfs, MountNtfs, MountFat32, MountUnknown, Mounting, BackToDrives,
         BackToRoot, Relist, EnterFolder, viewVars
<1>3. LaidOut(buf_dir')
  <2>1. CASE MountCfs
    <3>1. PICK works \in ReadOutcomes :
            buf_dir' \in {IF works THEN dir[selected] ELSE ZeroDir, ForeignDir, ZeroDir}
      BY <2>1, RefreshReads DEF MountCfs
    <3> QED BY <3>1, BlankDirsLaidOut DEF LayInv, ReadOutcomes, ReadWorks
  <2>2. CASE BackToRoot \/ Relist \/ \E s \in Slots : EnterFolder(s)
    <3>1. buf_dir' \in {buf_dir, ForeignDir, ZeroDir}
      BY <2>2, RefreshReads DEF BackToRoot, Relist, EnterFolder
    <3> QED BY <3>1, BlankDirsLaidOut DEF LayInv
  <2>3. CASE MountNtfs \/ MountFat32 \/ MountUnknown \/ BackToDrives \/ \E d \in Drives : SelectDrive(d)
    <3>1. buf_dir' \in {buf_dir, ForeignDir}
      BY <2>3 DEF MountNtfs, MountFat32, MountUnknown, BackToDrives, SelectDrive
    <3> QED BY <3>1, BlankDirsLaidOut DEF LayInv
  <2> QED BY <2>1, <2>2, <2>3 DEF Browsing
<1> QED BY <1>1, <1>2, <1>3, IdleLayStep

LEMMA FormatLaysOut ==
  ASSUME LayInv, Format
  PROVE  LayInv'
<1>1. dir' = dir /\ selected' = selected /\ pending' = FormatWrites /\ buf_dir' = ZeroDir
  BY DEF Format, diskVars
<1>2. WritesOnly(pending', ZeroDir)
  BY <1>1, FormatQueue
<1> QED BY <1>1, <1>2, BlankDirsLaidOut, QueueLayStep

LEMMA PasteLaysOut ==
  ASSUME LayInv, Paste
  PROVE  LayInv'
<1>1. dir' = dir /\ selected' = selected /\ pending = << >>
  BY DEF Paste, diskVars, viewVars, InFiles, Idle
<1>2. PICK works \in ReadOutcomes :
        LET entries == IF works THEN dir[selected] ELSE ZeroDir
            free    == FreeSlots(entries)
            s       == FirstOf(free)
            updated == IF clipboard_is_folder
                         THEN [entries EXCEPT ![s] = Folder(current_folder_id)]
                         ELSE [entries EXCEPT ![s] = File(PasteTarget(s), current_folder_id)]
        IN  IF free = {}
              THEN pending' = pending /\ buf_dir' = entries
              ELSE /\ pending' = IF clipboard_is_folder THEN <<DirWrite(updated)>>
                                  ELSE PasteWrites(PasteTarget(s), updated)
                   /\ buf_dir' \in {updated, ForeignDir, ZeroDir}
  BY RefreshReads DEF Paste
<1> DEFINE entries == IF works THEN dir[selected] ELSE ZeroDir
           free    == FreeSlots(entries)
           s       == FirstOf(free)
           updated == IF clipboard_is_folder
                         THEN [entries EXCEPT ![s] = Folder(current_folder_id)]
                         ELSE [entries EXCEPT ![s] = File(PasteTarget(s), current_folder_id)]
<1>3. LaidOut(entries)
  BY BlankDirsLaidOut DEF LayInv, ReadOutcomes, ReadWorks
<1>4. LaidOut(updated)
  <2> HIDE DEF entries, free
  <2> QED BY <1>3 DEF LaidOut, IsRow, Folder, File
<1>5. CASE free = {}
  <2>1. pending' = << >> /\ LaidOut(buf_dir')
    BY <1>1, <1>2, <1>3, <1>5
  <2>2. selected' \in Drives \cup {NoDrive}
    BY <1>1 DEF LayInv
  <2> QED BY <1>1, <2>1, <2>2, IdleLayStep
<1>6. CASE free # {}
  <2>1. WritesOnly(pending', updated)
    BY <1>2, <1>6, DirQueue, PasteQueue
  <2>2. LaidOut(buf_dir')
    BY <1>2, <1>4, <1>6, BlankDirsLaidOut
  <2> HIDE DEF entries, free, updated
  <2> QED BY <1>1, <1>4, <2>1, <2>2, QueueLayStep
<1> QED BY <1>5, <1>6

LEMMA IdleHandlersLayOut ==
  ASSUME LayInv, Reboot \/ \E s : Copy(s)
  PROVE  LayInv'
<1>1. dir' = dir /\ pending' = << >>
  BY DEF Reboot, Copy, diskVars, Idle, InFiles
<1>2. selected' \in {selected, NoDrive}
  BY DEF Reboot, Copy, viewVars
<1>3. selected' \in Drives \cup {NoDrive}
  BY <1>2 DEF LayInv
<1>4. LaidOut(buf_dir')
  <2>1. buf_dir' = buf_dir \/ buf_dir' \in RawDirs
    BY DEF Reboot, Copy
  <2> QED BY <2>1, RawDirsLaidOut DEF LayInv
<1> QED BY <1>1, <1>3, <1>4, IdleLayStep

LEMMA StepLaysOut ==
  ASSUME Buttons \subseteq {"copy", "paste"}, LayInv, [Next]_vars
  PROVE  LayInv'
<1>1. CASE UNCHANGED vars
  BY <1>1 DEF vars, diskVars, viewVars, LayInv
<1>2. CASE Browsing
  BY <1>2, BrowsingLaysOut
<1>3. CASE Reboot \/ Format \/ Paste \/ \E s : Copy(s)
  BY <1>3, FormatLaysOut, PasteLaysOut, IdleHandlersLayOut
<1>4. Next => WriteNext \/ WriteLost \/ Reboot \/ Browsing \/ Format \/ Paste \/ \E s : Copy(s)
  BY DEF Next, Storing, Editing
<1> QED BY <1>1, <1>2, <1>3, <1>4, WriteLaysOut

(* The second part: what PASTE has left to write for a free slot, together *)
(* with the sectors it has already written there, is the clipboard; the    *)
(* directory that names them comes last.                                   *)

Writable == selected \in Drives \ Usb /\ Format0[selected] = "cfs"

FolderPasting(s) ==
  /\ clipboard_is_folder
  /\ dir[selected][s].type = "free"
  /\ \E parent : pending = <<DirWrite([dir[selected] EXCEPT ![s] = Folder(parent)])>>

Reached == FileSectors - Len(pending)

FilePasting(s) ==
  /\ ~clipboard_is_folder
  /\ dir[selected][s].type = "free"
  /\ Len(pending) \in 1 .. FileSectors + 1
  /\ \E parent : pending[Len(pending)] = DirWrite([dir[selected] EXCEPT ![s] = File(PasteTarget(s), parent)])
  /\ \A i \in 1 .. Len(pending) - 1 :
       pending[i] = DataWrite(PasteTarget(s) + (Reached + i), buffer[Reached + i])
  /\ \A k \in Parts : k <= Reached => data[selected][PasteTarget(s) + k] = buffer[k]

Formatting == pending \in {FormatWrites, <<DirWrite(ZeroDir)>>}

StoreInv ==
  /\ boot = Format0
  /\ selected \in Drives /\ Format0[selected] # "cfs" => BootSpared
  /\ Writable => pending = << >> \/ Formatting \/ \E s \in Slots : FolderPasting(s) \/ FilePasting(s)

CfsAnswers  == \A d \in Drives \ Usb : Format0[d] = "cfs" => d \notin Flaky
CfsIsFormatted == \A d \in Formattable : Format0[d] = "cfs"

LEMMA InitStore ==
  ASSUME Init
  PROVE  StoreInv
BY DrivesAssumption DEF Init, StoreInv, Writable

LEMMA IdleStore ==
  ASSUME StoreInv, boot' = boot, pending' = << >>
  PROVE  StoreInv'
BY BootSparedQueues DEF StoreInv, Writable

LEMMA FormatStore ==
  ASSUME CfsIsFormatted, StoreInv, Format
  PROVE  StoreInv'
<1>1. boot' = boot /\ pending' = FormatWrites /\ selected' = selected /\ Format0[selected] = "cfs"
  BY DEF Format, CfsIsFormatted, diskVars
<1> QED BY <1>1 DEF StoreInv, Formatting

LEMMA LastOfQueue ==
  ASSUME NEW W, NEW first \in Seq(W), NEW last
  PROVE  /\ Len(first \o <<last>>) = Len(first) + 1
         /\ (first \o <<last>>)[Len(first) + 1] = last
         /\ \A k \in 1 .. Len(first) : (first \o <<last>>)[k] = first[k]
OBVIOUS

LEMMA PasteBegins ==
  ASSUME TypeInv, NEW s \in Slots, NEW parent \in Slots \cup {Root}, selected \in Drives, ~clipboard_is_folder,
         dir[selected][s].type = "free", UNCHANGED <<dir, selected, clipboard_is_folder, buffer>>,
         pending' = PasteWrites(PasteTarget(s), [dir[selected] EXCEPT ![s] = File(PasteTarget(s), parent)])
  PROVE  FilePasting(s)'
<1> DEFINE lba     == PasteTarget(s)
           updated == [dir[selected] EXCEPT ![s] = File(lba, parent)]
           Part(k) == DataWrite(lba + k - 1, buffer[k - 1])
           parts   == [k \in 1 .. FileSectors |-> Part(k)]
<1>1. FileSectors \in Nat \ {0} /\ lba \in Nat
  BY LbaFacts, TargetsAreNumbers
<1>2. pending' = parts \o <<DirWrite(updated)>>
  BY DEF PasteWrites
<1>3. \A k \in 1 .. FileSectors : Part(k) = DataWrite(lba + (k - 1), buffer[k - 1])
  BY <1>1
<1> HIDE DEF Part
<1> DEFINE W == {Part(k) : k \in 1 .. FileSectors}
<1>4. parts \in Seq(W) /\ Len(parts) = FileSectors
  <2>1. parts \in [1 .. FileSectors -> W]
    OBVIOUS
  <2> HIDE DEF parts, W
  <2> QED BY <1>1, <2>1
<1>5. \A k \in 1 .. FileSectors : parts[k] = Part(k)
  OBVIOUS
<1> HIDE DEF parts, W
<1>6. Len(pending') = FileSectors + 1 /\ pending'[FileSectors + 1] = DirWrite(updated)
      /\ \A k \in 1 .. FileSectors : pending'[k] = parts[k]
  <2> HIDE DEF updated
  <2>1. /\ Len(parts \o <<DirWrite(updated)>>) = Len(parts) + 1
        /\ (parts \o <<DirWrite(updated)>>)[Len(parts) + 1] = DirWrite(updated)
        /\ \A k \in 1 .. Len(parts) : (parts \o <<DirWrite(updated)>>)[k] = parts[k]
    BY <1>4, LastOfQueue
  <2> QED BY <1>2, <1>4, <2>1
<1>7. Reached' = 0 - 1
  BY <1>1, <1>6 DEF Reached
<1>8. \A i \in 1 .. Len(pending') - 1 : pending'[i] = DataWrite(lba + (Reached' + i), buffer[Reached' + i])
  <2> SUFFICES ASSUME NEW i \in 1 .. Len(pending') - 1
               PROVE  pending'[i] = DataWrite(lba + (Reached' + i), buffer[Reached' + i])
    OBVIOUS
  <2>1. i \in 1 .. FileSectors /\ Reached' + i = i - 1
    BY <1>1, <1>6, <1>7
  <2> QED BY <1>3, <1>5, <1>6, <2>1
<1>9. \A k \in Parts : ~ (k <= Reached')
  BY <1>1, <1>7 DEF Parts
<1>10. Len(pending') \in 1 .. FileSectors + 1
  BY <1>1, <1>6
<1>11. pending'[Len(pending')] = DirWrite([dir[selected] EXCEPT ![s] = File(PasteTarget(s), parent)])
  BY <1>6
<1> HIDE DEF updated
<1> QED BY <1>8, <1>9, <1>10, <1>11 DEF FilePasting

LEMMA PasteGoesOn ==
  ASSUME TypeInv, NEW s \in Slots, FilePasting(s), Len(pending) # 1, WriteNext
  PROVE  FilePasting(s)' /\ Head(pending) = DataWrite(PasteTarget(s) + (Reached + 1), buffer[Reached + 1])
                         /\ Reached + 1 \in Parts
<1>1. UNCHANGED <<selected, clipboard_is_folder, buffer>> /\ pending # << >> /\ pending' = Tail(pending)
      /\ selected \in Drives
  BY DEF WriteNext, WriteWorks, Idle, viewVars, clipVars
<1>2. pending \in Seq(Writes) /\ Head(pending) = pending[1] /\ FileSectors \in Nat \ {0}
      /\ Len(pending) \in 2 .. FileSectors + 1
  <2>1. pending \in Seq(Writes)
    BY DEF TypeInv
  <2>2. Head(pending) = pending[1]
    BY <1>1, <2>1
  <2>3. FileSectors \in Nat \ {0}
    BY LbaFacts
  <2>4. Len(pending) \in 1 .. FileSectors + 1
    BY DEF FilePasting
  <2>5. Len(pending) \in 2 .. FileSectors + 1
    <3>1. \A n \in 1 .. FileSectors + 1 : n # 1 => n \in 2 .. FileSectors + 1
      BY <2>3
    <3> QED BY <2>4, <3>1
  <2> QED BY <2>1, <2>2, <2>3, <2>5
<1>3. Len(pending') = Len(pending) - 1 /\ \A i \in 1 .. Len(pending) - 1 : pending'[i] = pending[i + 1]
  BY <1>1, <1>2
<1>4. Reached' = Reached + 1 /\ Reached \in Int /\ Reached + 1 \in Parts
  BY <1>2, <1>3 DEF Reached, Parts
<1>5. Head(pending) = DataWrite(PasteTarget(s) + (Reached + 1), buffer[Reached + 1])
  <2>1. 1 \in 1 .. Len(pending) - 1
    BY <1>2
  <2> QED BY <1>2, <2>1 DEF FilePasting
<1>6. dir' = dir /\ data' = [data EXCEPT ![selected][PasteTarget(s) + (Reached + 1)] = buffer[Reached + 1]]
  <2>1. /\ Head(pending).where = "data" /\ Head(pending).lba = PasteTarget(s) + (Reached + 1)
        /\ Head(pending).value = buffer[Reached + 1]
    BY <1>5 DEF DataWrite
  <2>2. Head(pending).lba \in Lbas
    BY <1>4, <2>1, SlotLbas
  <2> QED BY <2>1, <2>2 DEF WriteNext
<1>7. pending'[Len(pending')] = pending[Len(pending)]
  BY <1>2, <1>3
<1>8. ASSUME NEW i \in 1 .. Len(pending') - 1
      PROVE  pending'[i] = DataWrite(PasteTarget(s) + (Reached' + i), buffer[Reached' + i])
  <2>1. i + 1 \in 1 .. Len(pending) - 1 /\ i \in 1 .. Len(pending) - 1 /\ Reached' + i = Reached + (i + 1)
    BY <1>2, <1>3, <1>4
  <2>2. pending'[i] = pending[i + 1]
    BY <1>3, <2>1
  <2>3. pending[i + 1] = DataWrite(PasteTarget(s) + (Reached + (i + 1)), buffer[Reached + (i + 1)])
    BY <2>1 DEF FilePasting
  <2> QED BY <2>1, <2>2, <2>3
<1>9. ASSUME NEW k \in Parts, k <= Reached'
      PROVE  data'[selected][PasteTarget(s) + k] = buffer[k]
  <2>2. data[selected] \in [Lbas -> Values] /\ PasteTarget(s) + k \in Lbas /\ PasteTarget(s) + (Reached + 1) \in Lbas
    BY <1>1, <1>4, SlotLbas DEF TypeInv, DiskTyped
  <2>3. data'[selected] = [data[selected] EXCEPT ![PasteTarget(s) + (Reached + 1)] = buffer[Reached + 1]]
    BY <1>1, <1>6 DEF TypeInv, DiskTyped
  <2>4. PasteTarget(s) \in Nat /\ k \in Nat
    BY TargetsAreNumbers, LbaFacts DEF Parts
  <2>5. CASE k = Reached + 1
    BY <2>2, <2>3, <2>5
  <2>6. CASE k # Reached + 1
    <3>1. k <= Reached /\ PasteTarget(s) + k # PasteTarget(s) + (Reached + 1)
      BY <1>4, <1>9, <2>4, <2>6
    <3>2. data[selected][PasteTarget(s) + k] = buffer[k]
      BY <3>1 DEF FilePasting
    <3> QED BY <2>2, <2>3, <3>1, <3>2
  <2> QED BY <2>5, <2>6
<1>10. Len(pending') \in 1 .. FileSectors + 1
  BY <1>2, <1>3
<1>11. FilePasting(s)'
  BY <1>1, <1>6, <1>7, <1>8, <1>9, <1>10 DEF FilePasting
<1> QED BY <1>4, <1>5, <1>11

LEMMA SectorsApart ==
  ASSUME NEW s \in Slots, NEW t \in Slots, s # t, NEW j \in Parts, NEW k \in Parts
  PROVE  PasteTarget(s) + j # PasteTarget(t) + k
<1>1. s \in Nat /\ t \in Nat /\ FileSectors \in Nat \ {0} /\ j \in Nat /\ k \in Nat
      /\ j <= FileSectors - 1 /\ k <= FileSectors - 1
  BY LbaFacts DEF Slots, Parts
<1> DEFINE a == s * FileSectors
           b == t * FileSectors
<1>2. a \in Nat /\ b \in Nat /\ PasteTarget(s) = 4000 + a /\ PasteTarget(t) = 4000 + b
  BY <1>1 DEF PasteTarget
<1>3. CASE s < t
  <2>1. a + FileSectors - 1 < b
    BY <1>1, <1>3, ExtentsApart
  <2> HIDE DEF a, b
  <2> QED BY <1>1, <1>2, <2>1
<1>4. CASE t < s
  <2>1. b + FileSectors - 1 < a
    BY <1>1, <1>4, ExtentsApart
  <2> HIDE DEF a, b
  <2> QED BY <1>1, <1>2, <2>1
<1> QED BY <1>1, <1>3, <1>4

LEMMA SameStored ==
  ASSUME NEW d, NEW s, boot'[d] = boot[d], dir'[d][s] = dir[d][s], data'[d] = data[d]
  PROVE  Stored(d, s)' = Stored(d, s)
BY DEF Stored, SectorOf

LEMMA SameStoredHere ==
  ASSUME NEW s, UNCHANGED <<boot, data, selected>>, dir'[selected][s] = dir[selected][s]
  PROVE  Stored(selected, s)' = Stored(selected, s)
BY DEF Stored, SectorOf

LEMMA HeldStays ==
  ASSUME WriteNext
  PROVE  Held' = Held /\ UNCHANGED <<clipboard_is_folder, buffer, selected>>
BY DEF WriteNext, clipVars, viewVars, Held

LEMMA OthersSpared ==
  ASSUME TypeInv, WriteNext, NEW d \in Drives, d # selected
  PROVE  boot'[d] = boot[d] /\ dir'[d] = dir[d] /\ data'[d] = data[d]
BY DEF WriteNext, TypeInv, DiskTyped

Quiet == Stores' = Stores

LEMMA QuietIsTake ==
  ASSUME Quiet
  PROVE  Store!Next
BY DEF Quiet, Store!Next, Store!Take

LEMMA SameDisks ==
  ASSUME UNCHANGED <<boot, dir, data>>
  PROVE  Quiet
BY SameStored DEF Quiet, Stores

LEMMA ForeignWrite ==
  ASSUME TypeInv, StoreInv, WriteNext, Format0[selected] # "cfs"
  PROVE  StoreInv' /\ Quiet
<1>1. selected \in Drives /\ selected' = selected /\ pending # << >> /\ pending' = Tail(pending)
      /\ pending \in Seq(Writes)
  BY DEF WriteNext, WriteWorks, Idle, viewVars, TypeInv
<1>2. BootSpared
  BY <1>1 DEF StoreInv
<1>3. boot' = boot
  <2>1. Head(pending) = pending[1] /\ 1 \in 1 .. Len(pending)
    BY <1>1
  <2> QED BY <1>2, <2>1 DEF WriteNext, BootSpared
<1>4. BootSpared'
  <2>1. Len(pending') = Len(pending) - 1 /\ \A i \in 1 .. Len(pending) - 1 : pending'[i] = pending[i + 1]
    BY <1>1
  <2>2. Len(pending) \in Nat
    BY <1>1
  <2> QED BY <1>2, <2>1, <2>2 DEF BootSpared
<1>5. \A d \in Drives, s \in Slots : Stored(d, s)' = Stored(d, s)
  <2> SUFFICES ASSUME NEW d \in Drives, NEW s \in Slots
               PROVE  Stored(d, s)' = Stored(d, s)
    OBVIOUS
  <2>1. CASE d = selected
    BY <1>3, <2>1 DEF Stored, StoreInv
  <2>2. CASE d # selected
    BY <2>2, OthersSpared, SameStored
  <2> QED BY <2>1, <2>2
<1> QED BY <1>1, <1>3, <1>4, <1>5 DEF StoreInv, Writable, Quiet, Stores

LEMMA FormatWrite ==
  ASSUME TypeInv, StoreInv, WriteNext, Writable, Formatting
  PROVE  StoreInv' /\ (Quiet \/ Store!Wipe(selected))
<1>1. selected \in Drives /\ selected' = selected /\ pending' = Tail(pending) /\ boot[selected] = "cfs"
  BY DEF WriteNext, viewVars, Writable, StoreInv
<1>2. CASE pending = FormatWrites
  <2>1. Head(pending) = BootWrite("cfs") /\ Tail(pending) = <<DirWrite(ZeroDir)>>
    BY <1>2 DEF FormatWrites
  <2>2. Head(pending).where = "boot" /\ Head(pending).value = "cfs"
    BY <2>1 DEF BootWrite
  <2>3. boot' = [boot EXCEPT ![selected] = "cfs"] /\ UNCHANGED <<dir, data>>
    BY <2>2 DEF WriteNext
  <2>4. boot' = boot
    BY <1>1, <2>3 DEF TypeInv, DiskTyped
  <2> QED BY <1>1, <2>1, <2>3, <2>4, SameDisks DEF StoreInv, Writable, Formatting
<1>3. CASE pending = <<DirWrite(ZeroDir)>>
  <2>1. Head(pending) = DirWrite(ZeroDir) /\ Tail(pending) = << >>
    BY <1>3
  <2>2. Head(pending).where = "dir" /\ Head(pending).value = ZeroDir
    BY <2>1 DEF DirWrite
  <2>3. dir' = [dir EXCEPT ![selected] = ZeroDir] /\ UNCHANGED <<boot, data>>
    BY <2>2 DEF WriteNext
  <2>4. StoreInv'
    BY <1>1, <2>1, <2>3, IdleStore
  <2>5. ASSUME NEW s \in Slots
        PROVE  Stored(selected, s)' = Item("nothing", NoParts)
    <3>1. dir'[selected][s].type = "free"
      BY <1>1, <2>3 DEF TypeInv, DiskTyped, ZeroDir, Zeroed
    <3> QED BY <1>1, <2>3, <3>1 DEF Stored
  <2>6. ASSUME NEW d \in Drives, NEW s \in Slots, d # selected
        PROVE  Stored(d, s)' = Stored(d, s)
    BY <2>6, OthersSpared, SameStored
  <2>7. Stores' = [Stores EXCEPT ![selected] = [s \in Slots |-> Item("nothing", NoParts)]]
    BY <1>1, <2>5, <2>6 DEF Stores
  <2> QED BY <2>4, <2>7, HeldStays DEF Store!Wipe, Store!EmptyDrive
<1> QED BY <1>2, <1>3 DEF Formatting

(* The write of sector 1002 with one more entry.                           *)
LEMMA EntryWritten ==
  ASSUME TypeInv, StoreInv, WriteNext, Writable, NEW s \in Slots, dir[selected][s].type = "free",
         NEW entry, UNCHANGED <<boot, data>>,
         dir' = [dir EXCEPT ![selected] = [dir[selected] EXCEPT ![s] = entry]],
         Stored(selected, s)' = Held
  PROVE  Store!Put(selected, s)
<1>1. selected \in Drives /\ dir[selected] \in Dirs /\ boot[selected] = "cfs"
  BY DEF Writable, StoreInv, TypeInv, DiskTyped
<1>2. Stored(selected, s) = Item("nothing", NoParts)
  BY <1>1 DEF Stored
<1>3. ASSUME NEW t \in Slots, t # s
      PROVE  Stored(selected, t)' = Stored(selected, t)
  <2>1. dir'[selected] = [dir[selected] EXCEPT ![s] = entry]
    BY <1>1 DEF TypeInv, DiskTyped
  <2>2. dir'[selected][t] = dir[selected][t]
    BY <1>1, <1>3, <2>1 DEF Dirs
  <2> QED BY <2>2, HeldStays, SameStoredHere
<1>4. ASSUME NEW d \in Drives, NEW t \in Slots, d # selected
      PROVE  Stored(d, t)' = Stored(d, t)
  BY <1>4, OthersSpared, SameStored
<1>5. Stores' = [Stores EXCEPT ![selected][s] = Held]
  <2>1. Stores' = [d \in Drives |-> [t \in Slots |-> Stored(d, t)']]
    BY DEF Stores
  <2>2. [Stores EXCEPT ![selected][s] = Held]
          = [d \in Drives |-> [t \in Slots |-> IF d = selected /\ t = s THEN Held ELSE Stored(d, t)]]
    BY <1>1 DEF Stores
  <2>3. ASSUME NEW d \in Drives, NEW t \in Slots
        PROVE  Stored(d, t)' = IF d = selected /\ t = s THEN Held ELSE Stored(d, t)
    <3>1. CASE d # selected
      BY <1>4, <3>1
    <3>2. CASE d = selected /\ t # s
      BY <1>3, <3>2, HeldStays
    <3>3. CASE d = selected /\ t = s
      BY <3>3, HeldStays
    <3> QED BY <3>1, <3>2, <3>3
  <2> QED BY <2>1, <2>2, <2>3
<1>6. Stores[selected][s] = Item("nothing", NoParts)
  BY <1>1, <1>2 DEF Stores
<1> QED BY <1>5, <1>6, HeldStays DEF Store!Put

LEMMA FolderWrite ==
  ASSUME TypeInv, StoreInv, WriteNext, Writable, NEW s \in Slots, FolderPasting(s)
  PROVE  StoreInv' /\ Store!Put(selected, s)
<1>1. selected \in Drives /\ pending' = Tail(pending) /\ boot[selected] = "cfs"
  BY DEF WriteNext, Writable, StoreInv
<1>2. PICK parent : pending = <<DirWrite([dir[selected] EXCEPT ![s] = Folder(parent)])>>
  BY DEF FolderPasting
<1> DEFINE updated == [dir[selected] EXCEPT ![s] = Folder(parent)]
<1>3. Head(pending) = DirWrite(updated) /\ pending' = << >>
  BY <1>1, <1>2
<1>4. Head(pending).where = "dir" /\ Head(pending).value = updated
  BY <1>3 DEF DirWrite
<1>5. dir' = [dir EXCEPT ![selected] = updated] /\ UNCHANGED <<boot, data>>
  BY <1>4 DEF WriteNext
<1>6. dir'[selected][s].type = "folder"
  BY <1>1, <1>5 DEF TypeInv, DiskTyped, Dirs, Folder
<1>7. Stored(selected, s)' = Held
  BY <1>1, <1>5, <1>6, HeldStays DEF Stored, Held, FolderPasting
<1>8. Store!Put(selected, s)
  BY <1>5, <1>7, EntryWritten DEF FolderPasting
<1> QED BY <1>3, <1>5, <1>8, IdleStore

LEMMA FileWrite ==
  ASSUME TypeInv, StoreInv, WriteNext, Writable, NEW s \in Slots, FilePasting(s), Len(pending) = 1
  PROVE  StoreInv' /\ Store!Put(selected, s)
<1>1. selected \in Drives /\ pending' = Tail(pending) /\ boot[selected] = "cfs" /\ pending # << >>
  BY DEF WriteNext, Writable, StoreInv, Idle
<1>2. PICK parent : pending[Len(pending)] = DirWrite([dir[selected] EXCEPT ![s] = File(PasteTarget(s), parent)])
  BY DEF FilePasting
<1> DEFINE updated == [dir[selected] EXCEPT ![s] = File(PasteTarget(s), parent)]
<1>3. Head(pending) = DirWrite(updated) /\ pending' = << >>
  <2>1. pending \in Seq(Writes)
    BY DEF TypeInv
  <2>2. Head(pending) = pending[1] /\ Tail(pending) = << >>
    BY <1>1, <2>1
  <2> QED BY <1>1, <1>2, <2>2
<1>4. Head(pending).where = "dir" /\ Head(pending).value = updated
  BY <1>3 DEF DirWrite
<1>5. dir' = [dir EXCEPT ![selected] = updated] /\ UNCHANGED <<boot, data>>
  BY <1>4 DEF WriteNext
<1>6. dir'[selected][s].type = "file" /\ dir'[selected][s].start = PasteTarget(s)
  BY <1>1, <1>5 DEF TypeInv, DiskTyped, Dirs, File
<1>7. \A k \in Parts : data[selected][PasteTarget(s) + k] = buffer[k]
  <2>1. Reached = FileSectors - 1
    BY DEF Reached
  <2>2. \A k \in Parts : k <= Reached
    BY <2>1, LbaFacts DEF Parts
  <2> QED BY <2>2 DEF FilePasting
<1>8. buffer = [k \in Parts |-> buffer[k]]
  BY DEF TypeInv, ClipTyped
<1>9. Stored(selected, s)' = Item("file", [k \in Parts |-> SectorOf(selected, PasteTarget(s) + k)])
  BY <1>1, <1>5, <1>6, HeldStays DEF Stored, SectorOf
<1>10. [k \in Parts |-> SectorOf(selected, PasteTarget(s) + k)] = buffer
  <2>1. \A k \in Parts : SectorOf(selected, PasteTarget(s) + k) = buffer[k]
    BY <1>7, SlotLbas DEF SectorOf
  <2> QED BY <1>8, <2>1
<1>11. Stored(selected, s)' = Held
  BY <1>9, <1>10 DEF Held, FilePasting
<1>12. Store!Put(selected, s)
  BY <1>5, <1>11, EntryWritten DEF FilePasting
<1> QED BY <1>3, <1>5, <1>12, IdleStore

(* A part of a file whose directory entry is not written yet changes       *)
(* nothing that is stored: no other file reaches into the slot's sectors.  *)
LEMMA PartWrite ==
  ASSUME TypeInv, LayInv, StoreInv, WriteNext, Writable, NEW s \in Slots, FilePasting(s), Len(pending) # 1
  PROVE  StoreInv' /\ Quiet
<1>1. selected \in Drives /\ boot[selected] = "cfs" /\ dir[selected][s].type = "free"
  BY DEF Writable, StoreInv, FilePasting
<1>2. /\ FilePasting(s)' /\ Reached + 1 \in Parts
      /\ Head(pending) = DataWrite(PasteTarget(s) + (Reached + 1), buffer[Reached + 1])
  BY PasteGoesOn
<1> DEFINE lba   == PasteTarget(s) + (Reached + 1)
           value == buffer[Reached + 1]
<1>3. Head(pending).where = "data" /\ Head(pending).lba = lba /\ Head(pending).value = value
  BY <1>2 DEF DataWrite
<1>4. UNCHANGED <<boot, dir>> /\ data' = [data EXCEPT ![selected][lba] = value]
  <2>1. lba \in Lbas
    BY <1>2, SlotLbas
  <2> HIDE DEF lba, value
  <2> QED BY <1>3, <2>1 DEF WriteNext
<1>5. data'[selected] = [data[selected] EXCEPT ![lba] = value] /\ data[selected] \in [Lbas -> Values]
  BY <1>1, <1>4 DEF TypeInv, DiskTyped
<1>6. ASSUME NEW t \in Slots
      PROVE  Stored(selected, t)' = Stored(selected, t)
  <2>1. CASE dir[selected][t].type # "file"
    BY <1>4, <2>1, HeldStays DEF Stored
  <2>2. CASE dir[selected][t].type = "file"
    <3>1. t # s /\ dir[selected][t].start = PasteTarget(t)
      BY <1>1, <2>2 DEF LayInv, LaidOut
    <3>2. ASSUME NEW k \in Parts
          PROVE  SectorOf(selected, PasteTarget(t) + k)' = SectorOf(selected, PasteTarget(t) + k)
      <4>1. PasteTarget(t) + k # lba
        BY <1>2, <3>1, SectorsApart
      <4>2. PasteTarget(t) + k \in Lbas
        BY SlotLbas
      <4> HIDE DEF lba, value
      <4> QED BY <1>5, <4>1, <4>2, HeldStays DEF SectorOf
    <3>3. [k \in Parts |-> SectorOf(selected, PasteTarget(t) + k)'] = [k \in Parts |-> SectorOf(selected, PasteTarget(t) + k)]
      BY <3>2
    <3> HIDE DEF lba, value
    <3> QED BY <1>1, <1>4, <2>2, <3>1, <3>3, HeldStays DEF Stored
  <2> QED BY <2>1, <2>2
<1>7. ASSUME NEW d \in Drives, NEW t \in Slots
      PROVE  Stored(d, t)' = Stored(d, t)
  <2>1. CASE d = selected
    BY <1>6, <2>1, HeldStays
  <2>2. CASE d # selected
    BY <2>2, OthersSpared, SameStored
  <2> QED BY <2>1, <2>2
<1>8. Quiet
  BY <1>7 DEF Quiet, Stores
<1>9. StoreInv'
  BY <1>2, <1>4, HeldStays DEF StoreInv, Writable
<1> QED BY <1>8, <1>9

LEMMA StoreWrite ==
  ASSUME TypeInv, LayInv, StoreInv, WriteNext
  PROVE  StoreInv' /\ (Quiet \/ Store!Next)
<1>1. selected \in Drives \ Usb /\ pending # << >>
  BY DEF WriteNext, WriteWorks, Idle
<1>2. CASE Format0[selected] # "cfs"
  BY <1>2, ForeignWrite
<1>3. CASE Format0[selected] = "cfs"
  <2>1. Writable
    BY <1>1, <1>3 DEF Writable
  <2>2. CASE Formatting
    BY <1>1, <2>1, <2>2, FormatWrite DEF Store!Next
  <2>3. CASE \E s \in Slots : FolderPasting(s) \/ FilePasting(s)
    <3>1. PICK s \in Slots : FolderPasting(s) \/ FilePasting(s)
      BY <2>3
    <3>2. CASE FolderPasting(s)
      BY <1>1, <2>1, <3>2, FolderWrite DEF Store!Next
    <3>3. CASE FilePasting(s) /\ Len(pending) = 1
      BY <1>1, <2>1, <3>3, FileWrite DEF Store!Next
    <3>4. CASE FilePasting(s) /\ Len(pending) # 1
      BY <2>1, <3>4, PartWrite
    <3> QED BY <3>1, <3>2, <3>3, <3>4
  <2> QED BY <1>1, <2>1, <2>2, <2>3 DEF StoreInv
<1> QED BY <1>2, <1>3

LEMMA StoreLost ==
  ASSUME CfsAnswers, TypeInv, StoreInv, WriteLost
  PROVE  StoreInv'
<1>1. boot' = boot /\ selected' = selected /\ pending # << >> /\ pending' = Tail(pending) /\ ~Writable
      /\ pending \in Seq(Writes)
  BY DEF WriteLost, diskVars, viewVars, Idle, WriteFails, WriteWorks, CfsAnswers, Writable, TypeInv
<1>2. ASSUME BootSpared PROVE BootSpared'
  <2>1. Len(pending') = Len(pending) - 1 /\ \A i \in 1 .. Len(pending) - 1 : pending'[i] = pending[i + 1]
    BY <1>1
  <2>2. Len(pending) \in Nat
    BY <1>1
  <2> QED BY <1>2, <2>1, <2>2 DEF BootSpared
<1> QED BY <1>1, <1>2 DEF StoreInv, Writable

LEMMA StorePaste ==
  ASSUME CfsAnswers, TypeInv, StoreInv, Paste
  PROVE  StoreInv'
<1>1. /\ UNCHANGED <<boot, dir, selected, clipboard_is_folder, buffer>> /\ pending = << >>
      /\ BootSpared'
  BY HandlersSpareBoot DEF Paste, InFiles, Idle, diskVars, viewVars
<1>2. SUFFICES ASSUME Writable
               PROVE  pending' = << >> \/ \E s \in Slots : FolderPasting(s)' \/ FilePasting(s)'
  BY <1>1 DEF StoreInv, Writable
<1>3. selected \in Drives
  BY <1>2 DEF Writable
<1>4. PICK works \in ReadOutcomes :
        LET entries == IF works THEN dir[selected] ELSE ZeroDir
            s       == FirstOf(FreeSlots(entries))
            updated == IF clipboard_is_folder
                         THEN [entries EXCEPT ![s] = Folder(current_folder_id)]
                         ELSE [entries EXCEPT ![s] = File(PasteTarget(s), current_folder_id)]
        IN  IF FreeSlots(entries) = {} THEN pending' = pending
            ELSE pending' = IF clipboard_is_folder THEN <<DirWrite(updated)>>
                            ELSE PasteWrites(PasteTarget(s), updated)
  BY DEF Paste
<1>5. works
  BY <1>2, <1>3, DrivesAssumption DEF ReadOutcomes, ReadFails, CfsAnswers, Writable
<1> DEFINE s == FirstOf(FreeSlots(dir[selected]))
<1>6. CASE FreeSlots(dir[selected]) = {}
  BY <1>1, <1>4, <1>5, <1>6
<1>7. CASE FreeSlots(dir[selected]) # {}
  <2>1. s \in Slots /\ dir[selected][s].type = "free"
    BY <1>7, FreeFound
  <2>2. current_folder_id \in Slots \cup {Root}
    BY DEF TypeInv, ViewTyped
  <2>3. CASE clipboard_is_folder
    <3>1. pending' = <<DirWrite([dir[selected] EXCEPT ![s] = Folder(current_folder_id)])>>
      BY <1>4, <1>5, <1>7, <2>3
    <3> HIDE DEF s
    <3> QED BY <1>1, <2>1, <2>3, <3>1 DEF FolderPasting
  <2>4. CASE ~clipboard_is_folder
    <3>1. pending' = PasteWrites(PasteTarget(s), [dir[selected] EXCEPT ![s] = File(PasteTarget(s), current_folder_id)])
      BY <1>4, <1>5, <1>7, <2>4
    <3> HIDE DEF s
    <3> QED BY <1>1, <1>3, <2>1, <2>2, <2>4, <3>1, PasteBegins
  <2> QED BY <2>3, <2>4
<1> QED BY <1>6, <1>7

LEMMA StoreIdles ==
  ASSUME StoreInv, Reboot \/ Browsing \/ \E s \in Slots : Copy(s)
  PROVE  StoreInv'
<1>1. boot' = boot
  BY DEF Reboot, Browsing, SelectDrive, MountCfs, MountNtfs, MountFat32, MountUnknown, Mounting, BackToDrives,
         BackToRoot, Relist, EnterFolder, Copy, diskVars
<1>2. pending' = << >>
  BY DEF Reboot, Browsing, SelectDrive, MountCfs, MountNtfs, MountFat32, MountUnknown, Mounting, BackToDrives,
         BackToRoot, Relist, EnterFolder, Copy, InDriveList, InFiles, Idle
<1> QED BY <1>1, <1>2, IdleStore

LEMMA OnlyWritesReachTheDisks ==
  ASSUME Reboot \/ WriteLost \/ Browsing \/ Format \/ Paste \/ \E s \in Slots : Copy(s)
  PROVE  UNCHANGED <<boot, dir, data>>
BY DEF Reboot, WriteLost, Browsing, SelectDrive, MountCfs, MountNtfs, MountFat32, MountUnknown, Mounting,
       BackToDrives, BackToRoot, Relist, EnterFolder, Format, Paste, Copy, diskVars

LEMMA StepStores ==
  ASSUME Buttons \subseteq {"copy", "paste"}, CfsAnswers, CfsIsFormatted,
         TypeInv, LayInv, StoreInv, [Next]_vars
  PROVE  StoreInv' /\ Store!Next
<1>1. CASE UNCHANGED vars
  <2>1. UNCHANGED <<boot, dir, data, pending, selected, clipboard_is_folder, buffer>>
    BY <1>1 DEF vars, diskVars, viewVars, clipVars
  <2>2. StoreInv'
    BY <2>1 DEF StoreInv, Writable, BootSpared, Formatting, FolderPasting, FilePasting, Reached
  <2> QED BY <2>1, <2>2, SameDisks, QuietIsTake
<1>2. CASE WriteNext
  BY <1>2, StoreWrite, QuietIsTake
<1>3. CASE Reboot \/ WriteLost \/ Browsing \/ Format \/ Paste \/ \E s \in Slots : Copy(s)
  <2>1. StoreInv'
    BY <1>3, StoreIdles, StoreLost, FormatStore, StorePaste
  <2>2. Quiet
    BY <1>3, OnlyWritesReachTheDisks, SameDisks
  <2> QED BY <2>1, <2>2, QuietIsTake
<1>4. Next => WriteNext \/ Reboot \/ WriteLost \/ Browsing \/ Format \/ Paste \/ \E s \in Slots : Copy(s)
  BY DEF Next, Storing, Editing
<1> QED BY <1>1, <1>2, <1>3, <1>4

LEMMA InitStored ==
  ASSUME Init
  PROVE  Store!Init
<1>1. \A d \in Drives : boot[d] = "cfs" => dir[d] = ZeroDir
  BY DEF Init, Foreign
<1>2. ASSUME NEW d \in Drives, NEW s \in Slots
      PROVE  Stored(d, s) = Item("nothing", NoParts)
  <2>1. boot[d] = "cfs" => dir[d][s].type = "free"
    BY <1>1 DEF ZeroDir, Zeroed
  <2> QED BY <2>1 DEF Stored
<1> QED BY <1>2 DEF Stores, Store!Init, Store!EmptyDrive

(* With COPY, PASTE and FORMAT alone the CFS drives are a FileStore, for   *)
(* any number of drives, slots and sectors a file and with power failures  *)
(* at any write: a file comes to be, with all the sectors the clipboard    *)
(* held, at the one write of sector 1002 that ends PASTE                   *)
(* (kernel_main.cpp:3249-3273), and nothing but FORMAT takes it away.  The *)
(* CFS drives that can be written answer every read, for PASTE takes a     *)
(* directory it cannot read for an empty one.                              *)
THEOREM ExplorerImplementsFileStore ==
  ASSUME Buttons \subseteq {"copy", "paste"}, CfsAnswers, CfsIsFormatted
  PROVE  Spec => ImplementsFileStore
<1> DEFINE Inv == TypeInv /\ LayInv /\ StoreInv
<1>1. Init => Inv /\ Store!Init
  BY InitTyped, InitLaysOut, InitStore, InitStored
<1>2. Inv /\ [Next]_vars => Inv'
  BY StepTyped, StepLaysOut, StepStores
<1>3. Inv /\ [Next]_vars => [Store!Next]_<<Stores, Held>>
  BY StepStores
<1> HIDE DEF Inv
<1> QED BY <1>1, <1>2, <1>3, PTL DEF Spec, ImplementsFileStore, Store!Spec
=============================================================================
