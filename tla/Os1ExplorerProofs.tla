------------------------- MODULE Os1ExplorerProofs -------------------------
(***************************************************************************)
(* Proofs about OS1's disk manager, for any disks, directories and number  *)
(* of clicks and failing transfers: types and the ownership of sectors are *)
(* kept by every button, a button changes one entry, living data are only  *)
(* written by SAVE, and the rows of the root are the disk's.               *)
(***************************************************************************)
EXTENDS Os1Explorer, TLAPS, FiniteSetTheorems, WellFoundedInduction

-----------------------------------------------------------------------------
(* The inductive invariant.                                                *)

DiskType == [kind : Kinds, dir : [Slots -> Entries], data : [Lbas -> Texts]]

\* A directory is of its type and its entries have the sectors of their slots.
SoundDir(dir) == dir \in [Slots -> Entries] /\ OwnSectors(dir)
DisksInv(d) == d \in [Units -> DiskType] /\ \A u \in Units : SoundDir(d[u].dir)
\* What is on the disks and what was read from them.
StoreInv == DisksInv(disk) /\ SoundDir(dir_ram) /\ SoundDir(oracle_ram)

DriveType == [type : {0, 2, 3}, unit : Units \cup {NoUnit}, base_port : Nat, label : Labels]
\* A drive that says FAT32 is a disk of a port; IMPORT reads it there.
FatInv == \A i \in Places : SaysFat(drives[i]) => drives[i].base_port \in Ports
ListInv ==
  /\ drives \in [Places -> DriveType] /\ drive_count \in 0 .. MaxDrives /\ FatInv
  /\ active_drive_idx \in -1 .. MaxDrives - 1

RowsType == file_table \in [Slots -> Rows]
ViewInv ==
  /\ mft_known \in BOOLEAN /\ is_ntfs \in BOOLEAN
  /\ dsk_view \in 0 .. 2 /\ current_folder_view_idx \in Slots \cup {-1}
  /\ dsk_view = 2 => current_folder_view_idx \in Slots
  /\ current_path_id \in Slots \cup {Root}
  /\ file_selection \in Slots \cup {None} /\ renaming_file_idx \in Slots \cup {None}
NoteInv ==
  /\ current_open_file \in Slots \cup {None} /\ note_buf \in Texts
  /\ dialog \in {"closed", "drive", "name", "folder"}
CountInv ==
  /\ fails \in 0 .. MaxFails /\ shown \in Units \cup {NoUnit} /\ clicks \in 0 .. MaxClicks

DirInv == StoreInv /\ ListInv /\ RowsType /\ ViewInv /\ NoteInv /\ CountInv

-----------------------------------------------------------------------------
(* Constants, and the helpers on sets and directories.                     *)

\* Slots are numbers from 0 on, and none of them is -1 or the root.
LEMMA SlotsAreNumbers ==
  /\ \A i \in Slots : i \in Nat /\ i <= 27
  /\ 0 \in Slots /\ -1 \notin Slots /\ Root \notin Slots
<1>1. PICK n \in 0 .. 27 : Slots = 0 .. n
  BY SlotsAssumption
<1> QED
  BY <1>1 DEF Root

\* Each slot has a data sector of its own, and it is not 0.
LEMMA SectorsAreDistinct ==
  /\ \A i \in Slots : Sector(i) \in Lbas /\ Sector(i) \in Nat \ {0}
  /\ \A i, j \in Slots : Sector(i) = Sector(j) => i = j
BY SlotsAreNumbers DEF Sector, Lbas

LEMMA LbasAreNumbers == \A l \in Lbas : l \in Nat \ {0}
BY SectorsAreDistinct, LbaAssumption DEF Lbas

LEMMA UnitsAreNumbers ==
  /\ \A u \in Units : u \in Nat
  /\ \A p \in Ports : p \in Units
  /\ NoUnit \notin Units /\ NoPort \notin Units
<1>1. \A u \in Units : u \in Nat
  BY UnitsAssumption DEF Units
<1> QED
  BY <1>1 DEF Units, NoUnit, NoPort

\* Every set of numbers has a least element.
LEMMA LeastExists ==
  ASSUME NEW S \in SUBSET Nat, S # {}
  PROVE  \E m \in S : \A q \in S : m <= q
<1>1. PICK m \in S : \A q \in S : <<q, m>> \notin OpToRel(<, Nat)
  BY NatLessThanWellFounded, WFMin
<1>2. \A q \in S : m <= q
  <2> TAKE q \in S
  <2>1. ~(q < m)
    BY <1>1 DEF OpToRel
  <2> QED
    BY <2>1
<1> QED
  BY <1>2

\* Lowest finds an element of the slots it is given.
LEMMA LowestIsMember ==
  ASSUME NEW S \in SUBSET Slots, S # {}
  PROVE  Lowest(S) \in S
<1>1. S \subseteq Nat
  BY SlotsAreNumbers
<1>2. \E m \in S : \A q \in S : m <= q
  BY <1>1, LeastExists
<1> QED
  BY <1>2 DEF Lowest

\* The slot that is found is free in the directory that was read.
LEMMA FreeSlotIsFree ==
  ASSUME NEW dir, FreeSlot(dir) # None
  PROVE  FreeSlot(dir) \in Slots /\ dir[FreeSlot(dir)].type = 0
<1>1. FreeSlots(dir) # {} /\ FreeSlots(dir) \subseteq Slots
  BY DEF FreeSlot, FreeSlots
<1>2. Lowest(FreeSlots(dir)) \in FreeSlots(dir)
  BY <1>1, LowestIsMember
<1> QED
  BY <1>1, <1>2 DEF FreeSlot, FreeSlots

\* A set of bounded numbers has a member of every rank below its size.
LEMMA RankExists ==
  ASSUME NEW b \in Nat, NEW S \in SUBSET (0 .. b), NEW n \in Nat, n < Cardinality(S)
  PROVE  \E i \in S : Cardinality({j \in S : j < i}) = n
<1> DEFINE UpTo(m)  == {j \in S : j <= m}
           Below(m) == {j \in S : j < m}
           Enough   == {m \in Nat : Cardinality(UpTo(m)) > n}
<1>0. \A j \in S : j \in Nat /\ j <= b
  OBVIOUS
<1>1. IsFiniteSet(S)
  <2>1. IsFiniteSet(0 .. b)
    BY FS_Interval
  <2> QED
    BY <2>1, FS_Subset
<1>2. \A m \in Nat : /\ IsFiniteSet(UpTo(m)) /\ Cardinality(UpTo(m)) \in Nat
                     /\ IsFiniteSet(Below(m)) /\ Cardinality(Below(m)) \in Nat
  <2> TAKE m \in Nat
  <2>1. UpTo(m) \in SUBSET S /\ Below(m) \in SUBSET S
    OBVIOUS
  <2> HIDE DEF UpTo, Below
  <2>2. IsFiniteSet(UpTo(m)) /\ IsFiniteSet(Below(m))
    BY <1>1, <2>1, FS_Subset
  <2> QED
    BY <2>2, FS_CardinalityType
<1>3. UpTo(b) = S
  BY <1>0
<1>u. \A m \in Nat : UpTo(m) = Below(m) \cup (IF m \in S THEN {m} ELSE {})
  <2> TAKE m \in Nat
  <2>1. \A j \in S : j <= m <=> (j < m \/ j = m)
    BY <1>0
  <2> QED
    BY <2>1
<1>v. \A m \in Nat : m > 0 => UpTo(m - 1) = Below(m)
  <2> TAKE m \in Nat
  <2>1. \A j \in S : m > 0 => (j <= m - 1 <=> j < m)
    BY <1>0
  <2> QED
    BY <2>1
<1>w. Below(0) = {} /\ \A m \in Nat : m \notin Below(m)
  <2>1. \A j \in S : ~(j < 0) /\ ~(j < j)
    BY <1>0
  <2> QED
    BY <2>1
<1> HIDE DEF UpTo, Below
<1>4. b \in Enough
  BY <1>3
<1>e. Enough \in SUBSET Nat /\ Enough # {}
  BY <1>4
<1>5. PICK m \in Enough : \A q \in Enough : m <= q
  <2> HIDE DEF Enough
  <2> QED
    BY <1>e, LeastExists
<1>6. UpTo(m) = Below(m) \cup (IF m \in S THEN {m} ELSE {})
  BY <1>u
<1>7. Cardinality(Below(m)) <= n
  <2>1. CASE m = 0
    <3>1. Below(m) = {}
      BY <2>1, <1>w
    <3> QED
      BY <3>1, FS_EmptySet
  <2>2. CASE m > 0
    <3>1. m - 1 \in Nat /\ m - 1 \notin Enough
      BY <1>5, <2>2
    <3>2. UpTo(m - 1) = Below(m)
      BY <1>v, <2>2
    <3>3. Cardinality(UpTo(m - 1)) <= n
      BY <1>2, <3>1
    <3> QED
      BY <3>2, <3>3
  <2> QED
    BY <1>5, <2>1, <2>2
<1>8. m \in S
  <2>1. SUFFICES ASSUME m \notin S PROVE FALSE
    OBVIOUS
  <2>2. UpTo(m) = Below(m)
    BY <1>6, <2>1
  <2> QED
    BY <1>2, <1>5, <1>7, <2>2
<1>9. Cardinality(UpTo(m)) = Cardinality(Below(m)) + 1
  <2>1. m \notin Below(m) /\ UpTo(m) = Below(m) \cup {m}
    BY <1>w, <1>6, <1>8
  <2>2. IsFiniteSet(Below(m))
    BY <1>2
  <2>3. \A B : (IsFiniteSet(B) /\ m \notin B) => Cardinality(B \cup {m}) = Cardinality(B) + 1
    BY FS_AddElement
  <2> QED
    BY <2>1, <2>2, <2>3
<1>10. Cardinality(Below(m)) = n
  BY <1>2, <1>5, <1>7, <1>9
<1> QED
  BY <1>8, <1>10 DEF Below

-----------------------------------------------------------------------------
(* Transfers: a step that worked had a disk, and one that failed is        *)
(* counted.                                                                *)

LEMMA AttemptFacts ==
  ASSUME CountInv, NEW p, NEW steps, NEW o \in Attempts(p, steps)
  PROVE  /\ DOMAIN o = steps
         /\ \A k \in steps : o[k] \in BOOLEAN /\ (o[k] => p \in Units)
         /\ (p \in Units /\ Failed(o)) => fails < MaxFails
         /\ ~Failed(o) => \A k \in steps : o[k]
<1>1. Outcomes(p) \subseteq BOOLEAN /\ (TRUE \in Outcomes(p) => p \in Units)
  BY DEF Outcomes
<1>2. DOMAIN o = steps /\ \A k \in steps : o[k] \in Outcomes(p)
  BY DEF Attempts
<1>3. \A k \in steps : o[k] \in BOOLEAN /\ (o[k] => p \in Units)
  <2> TAKE k \in steps
  <2>1. CASE o[k] = TRUE
    BY <1>1, <1>2, <2>1
  <2>2. CASE o[k] = FALSE
    BY <2>2
  <2> QED
    BY <1>1, <1>2, <2>1, <2>2
<1>4. (p \in Units /\ Failed(o)) => fails < MaxFails
  <2> SUFFICES ASSUME p \in Units, Failed(o) PROVE fails < MaxFails
    OBVIOUS
  <2>1. PICK k \in steps : ~o[k]
    BY <1>2 DEF Failed
  <2>2. o[k] = FALSE
    BY <1>3, <2>1
  <2> QED
    BY <1>2, <2>2 DEF Outcomes
<1>5. ~Failed(o) => \A k \in steps : o[k]
  BY <1>2 DEF Failed
<1> QED
  BY <1>2, <1>3, <1>4, <1>5

LEMMA CountTyped ==
  ASSUME CountInv, NEW p, NEW o, Count(p, o), (p \in Units /\ Failed(o)) => fails < MaxFails
  PROVE  /\ fails' \in 0 .. MaxFails
         /\ (fails' = fails /\ p \in Units) => ~Failed(o)
<1>1. MaxFails \in Nat /\ fails \in 0 .. MaxFails
  BY LbaAssumption DEF CountInv
<1>2. CASE p \in Units /\ Failed(o)
  BY <1>1, <1>2 DEF Count
<1>3. CASE ~(p \in Units /\ Failed(o))
  BY <1>1, <1>3 DEF Count
<1> QED
  BY <1>2, <1>3

LEMMA TransfersTyped ==
  ASSUME CountInv, NEW p, NEW steps, NEW o \in Attempts(p, steps),
         Transfers(p, o) \/ RowTransfers(p, o)
  PROVE  /\ fails' \in 0 .. MaxFails /\ shown' \in Units \cup {NoUnit}
         /\ (fails' = fails /\ p \in Units) => ~Failed(o)
<1>1. Count(p, o)
  BY DEF Transfers, RowTransfers
<1>2. (p \in Units /\ Failed(o)) => fails < MaxFails
  BY AttemptFacts
<1>3. shown' \in {shown, NoUnit}
  BY DEF Transfers, RowTransfers
<1> QED
  BY <1>1, <1>2, <1>3, CountTyped DEF CountInv

-----------------------------------------------------------------------------
(* Directories: what the buttons make of a sound one is sound.             *)

LEMMA EntryTyped ==
  ASSUME NEW t \in 0 .. 2, NEW n \in Names, NEW l \in {0} \cup Lbas
  PROVE  Entry(t, n, l) \in Entries
BY DEF Entry, Entries

LEMMA NoDirectoryIsSound == SoundDir(NoDirectory)
<1>1. \A i \in Slots : NoDirectory[i] = Entry(0, "", 0)
  BY DEF NoDirectory
<1>2. Entry(0, "", 0) \in Entries
  <2>1. "" \in Names
    BY Zenon DEF Names
  <2>2. \A n \in Names : Entry(0, n, 0) \in Entries
    BY EntryTyped
  <2> QED
    BY <2>1, <2>2, Zenon
<1>3. NoDirectory \in [Slots -> Entries]
  BY <1>2, Zenon DEF NoDirectory
<1>4. OwnSectors(NoDirectory)
  <2>1. \A i \in Slots : NoDirectory[i].type = 0 /\ NoDirectory[i].lba = 0
    <3>1. \A n : Entry(0, n, 0).type = 0 /\ Entry(0, n, 0).lba = 0
      BY DEF Entry
    <3> QED
      BY <1>1, <3>1, Zenon
  <2> QED
    BY <2>1 DEF OwnSectors
<1> QED
  BY <1>3, <1>4 DEF SoundDir

\* The entry of a sound directory.
LEMMA SoundEntry ==
  ASSUME NEW dir, SoundDir(dir), NEW i \in Slots
  PROVE  /\ dir[i] \in Entries
         /\ dir[i].type \in 0 .. 2 /\ dir[i].name \in Names /\ dir[i].lba \in {0, Sector(i)}
         /\ dir[i].type = 1 => dir[i].lba = Sector(i)
         /\ dir[i].type = 2 => dir[i].lba = 0
<1>1. dir[i] \in Entries
  BY DEF SoundDir
<1>2. dir[i].lba = CASE dir[i].type = 1 -> Sector(i)
                     [] dir[i].type = 2 -> 0
                     [] OTHER -> IF dir[i].lba = 0 THEN 0 ELSE Sector(i)
  BY DEF SoundDir, OwnSectors
<1>3. dir[i].type \in 0 .. 2
  BY <1>1 DEF Entries
<1> QED
  BY <1>1, <1>2, <1>3 DEF Entries

\* Changing the entry of one slot to one that has its sector.
LEMMA ChangedDirIsSound ==
  ASSUME NEW dir, SoundDir(dir), NEW i \in Slots, NEW e \in Entries,
         e.lba \in {0, Sector(i)}, e.type = 1 => e.lba = Sector(i), e.type = 2 => e.lba = 0
  PROVE  SoundDir([dir EXCEPT ![i] = e])
<1> DEFINE new == [dir EXCEPT ![i] = e]
<1>1. new \in [Slots -> Entries]
  BY DEF SoundDir
<1>2. \A j \in Slots : new[j] = IF j = i THEN e ELSE dir[j]
  BY DEF SoundDir
<1> HIDE DEF new
<1>3. \A j \in Slots : new[j].lba = CASE new[j].type = 1 -> Sector(j)
                                       [] new[j].type = 2 -> 0
                                       [] OTHER -> IF new[j].lba = 0 THEN 0 ELSE Sector(j)
  <2> TAKE j \in Slots
  <2>1. CASE j = i
    <3>1. new[j] = e /\ e.type \in 0 .. 2
      BY <1>2, <2>1 DEF Entries
    <3> QED
      BY <2>1, <3>1
  <2>2. CASE j # i
    <3>1. new[j] = dir[j]
      BY <1>2, <2>2
    <3> QED
      BY <3>1 DEF SoundDir, OwnSectors
  <2> QED
    BY <2>1, <2>2
<1>4. SoundDir(new)
  BY <1>1, <1>3 DEF SoundDir, OwnSectors
<1> QED
  BY <1>4 DEF new

LEMMA CreatedIsSound ==
  ASSUME NEW dir, SoundDir(dir), NEW i \in Slots, NEW t \in 1 .. 2, NEW n \in Names
  PROVE  SoundDir(Created(dir, i, t, n))
<1> DEFINE e == Entry(t, n, IF t = 1 THEN Sector(i) ELSE 0)
<1>1. e \in Entries
  BY EntryTyped, SectorsAreDistinct
<1>2. e.type = t /\ e.lba = IF t = 1 THEN Sector(i) ELSE 0
  BY DEF Entry
<1>3. Created(dir, i, t, n) = [dir EXCEPT ![i] = e]
  BY DEF Created
<1> HIDE DEF e
<1>s. SoundDir([dir EXCEPT ![i] = e])
  BY <1>1, <1>2, ChangedDirIsSound
<1> QED
  BY <1>3, <1>s

LEMMA DeletedIsSound ==
  ASSUME NEW dir, SoundDir(dir), NEW i \in Slots
  PROVE  SoundDir(Deleted(dir, i))
<1> DEFINE e == [dir[i] EXCEPT !.type = 0]
<1>1. e \in Entries /\ e.type = 0 /\ e.lba \in {0, Sector(i)}
  BY SoundEntry DEF Entries
<1>2. Deleted(dir, i) = [dir EXCEPT ![i] = e]
  BY DEF Deleted, SoundDir
<1> HIDE DEF e
<1>s. SoundDir([dir EXCEPT ![i] = e])
  BY <1>1, ChangedDirIsSound
<1> QED
  BY <1>2, <1>s

LEMMA RenamedIsSound ==
  ASSUME RowsType, NEW dir, SoundDir(dir), NEW i \in Slots
  PROVE  SoundDir(Renamed(dir, i))
<1> DEFINE e == [dir[i] EXCEPT !.name = file_table[i].name]
<1>1. file_table[i].name \in Names
  BY DEF RowsType, Rows
<1>2. /\ e \in Entries /\ e.lba \in {0, Sector(i)}
      /\ e.type = 1 => e.lba = Sector(i)
      /\ e.type = 2 => e.lba = 0
  BY <1>1, SoundEntry DEF Entries
<1>3. Renamed(dir, i) = [dir EXCEPT ![i] = e]
  BY DEF Renamed, SoundDir
<1> HIDE DEF e
<1>s. SoundDir([dir EXCEPT ![i] = e])
  BY <1>2, ChangedDirIsSound
<1> QED
  BY <1>3, <1>s

LEMMA RecoveredIsSound ==
  ASSUME NEW dir, SoundDir(dir), NEW i \in Slots
  PROVE  SoundDir(Recovered(dir, i))
<1> DEFINE e == [dir[i] EXCEPT !.type = IF dir[i].lba > 0 THEN 1 ELSE 2]
<1>1. dir[i].lba \in {0, Sector(i)} /\ Sector(i) \in Nat \ {0} /\ dir[i] \in Entries
  BY SoundEntry, SectorsAreDistinct
<1>2. e \in Entries /\ e.lba = dir[i].lba /\ e.type = IF dir[i].lba > 0 THEN 1 ELSE 2
  BY <1>1 DEF Entries
<1>3. /\ e.lba \in {0, Sector(i)}
      /\ e.type = 1 => e.lba = Sector(i)
      /\ e.type = 2 => e.lba = 0
  BY <1>1, <1>2
<1>4. Recovered(dir, i) = [dir EXCEPT ![i] = e]
  BY DEF Recovered, SoundDir
<1> HIDE DEF e
<1>s. SoundDir([dir EXCEPT ![i] = e])
  BY <1>2, <1>3, ChangedDirIsSound
<1> QED
  BY <1>4, <1>s
-----------------------------------------------------------------------------
(* StoreInv: every button writes sound directories to existing disks.      *)

LEMMA FetchedIsSound ==
  ASSUME StoreInv, NEW p, NEW ok \in BOOLEAN, ok => p \in Units
  PROVE  SoundDir(Fetched(p, ok))
BY DEF StoreInv, DisksInv, Fetched

LEMMA WriteDirKeepsDisks ==
  ASSUME NEW d, DisksInv(d), NEW p, NEW dir, SoundDir(dir), NEW ok \in BOOLEAN, ok => p \in Units
  PROVE  DisksInv(WriteDir(d, p, dir, ok))
<1>1. CASE ~ok
  BY <1>1 DEF WriteDir
<1>2. CASE ok
  <2> DEFINE new == [d EXCEPT ![p].dir = dir]
  <2>1. new \in [Units -> DiskType]
    BY <1>2 DEF DisksInv, DiskType, SoundDir
  <2>2. \A u \in Units : new[u].dir = IF u = p THEN dir ELSE d[u].dir
    BY <1>2 DEF DisksInv, DiskType
  <2>3. \A u \in Units : SoundDir(new[u].dir)
    <3> HIDE DEF new
    <3> TAKE u \in Units
    <3>1. CASE u = p
      BY <2>2, <3>1
    <3>2. CASE u # p
      BY <2>2, <3>2 DEF DisksInv
    <3> QED
      BY <3>1, <3>2
  <2> QED
    BY <1>2, <2>1, <2>3 DEF WriteDir, DisksInv
<1> QED
  BY <1>1, <1>2

LEMMA WriteDataKeepsDisks ==
  ASSUME NEW d, DisksInv(d), NEW p, NEW lba, NEW text \in Texts, NEW ok \in BOOLEAN,
         ok => p \in Units
  PROVE  DisksInv(WriteData(d, p, lba, text, ok))
<1>1. CASE ~(ok /\ lba \in Lbas)
  BY <1>1 DEF WriteData
<1>2. CASE ok /\ lba \in Lbas
  <2> DEFINE new == [d EXCEPT ![p].data[lba] = text]
  <2>1. new \in [Units -> DiskType]
    BY <1>2 DEF DisksInv, DiskType
  <2>2. \A u \in Units : new[u].dir = d[u].dir
    BY <1>2 DEF DisksInv, DiskType
  <2>3. \A u \in Units : SoundDir(new[u].dir)
    <3> HIDE DEF new
    <3> QED
      BY <2>2 DEF DisksInv
  <2> QED
    BY <1>2, <2>1, <2>3 DEF WriteData, DisksInv
<1> QED
  BY <1>1, <1>2

\* The data that a button reads are a text.
LEMMA DataIsText ==
  ASSUME StoreInv, NEW u, NEW l
  PROVE  DataAt(u, l) \in Texts
BY DEF StoreInv, DisksInv, DiskType, DataAt, Texts

LEMMA CreateKeepsStore ==
  ASSUME StoreInv, CountInv, NEW p, NEW steps, {"read", "dir"} \subseteq steps,
         NEW o \in Attempts(p, steps), NEW t \in 1 .. 2, NEW n \in Names,
         Create(p, o, t, n), UNCHANGED oracle_ram
  PROVE  StoreInv'
<1> DEFINE dir  == Fetched(p, o["read"])
           slot == FreeSlot(dir)
           new  == IF slot = None THEN dir ELSE Created(dir, slot, t, n)
<1>1. o["read"] \in BOOLEAN /\ o["dir"] \in BOOLEAN
      /\ (o["read"] => p \in Units) /\ (o["dir"] => p \in Units)
  BY AttemptFacts
<1>2. SoundDir(dir)
  BY <1>1, FetchedIsSound
<1>3. SoundDir(new)
  <2>1. slot # None => slot \in Slots
    BY FreeSlotIsFree
  <2> HIDE DEF dir, slot
  <2> QED
    BY <1>2, <2>1, CreatedIsSound
<1>4. /\ dir_ram' = new
      /\ disk' = IF slot = None THEN disk ELSE WriteDir(disk, p, new, o["dir"])
  BY DEF Create
<1> HIDE DEF new, slot
<1>5. DisksInv(WriteDir(disk, p, new, o["dir"]))
  BY <1>1, <1>3, WriteDirKeepsDisks DEF StoreInv
<1>6. DisksInv(disk')
  BY <1>4, <1>5 DEF StoreInv
<1> QED
  BY <1>3, <1>4, <1>6 DEF StoreInv, DisksInv, SoundDir, OwnSectors

LEMMA EraseKeepsStore ==
  ASSUME StoreInv, CountInv, NEW p, NEW steps, {"read", "dir"} \subseteq steps,
         NEW o \in Attempts(p, steps), NEW f \in Slots, Erase(f, p, o), UNCHANGED oracle_ram
  PROVE  StoreInv'
<1> DEFINE dir == Deleted(Fetched(p, o["read"]), f)
<1>1. o["read"] \in BOOLEAN /\ o["dir"] \in BOOLEAN
      /\ (o["read"] => p \in Units) /\ (o["dir"] => p \in Units)
  BY AttemptFacts
<1>2. SoundDir(dir)
  BY <1>1, FetchedIsSound, DeletedIsSound
<1>3. dir_ram' = dir /\ disk' = WriteDir(disk, p, dir, o["dir"])
  BY DEF Erase
<1> HIDE DEF dir
<1>4. DisksInv(disk')
  BY <1>1, <1>2, <1>3, WriteDirKeepsDisks DEF StoreInv
<1> QED
  BY <1>2, <1>3, <1>4 DEF StoreInv, DisksInv, SoundDir, OwnSectors

LEMMA FormatKeepsStore ==
  ASSUME DirInv, FormatDrive
  PROVE  StoreInv'
<1> DEFINE p == Active.base_port
<1>1. PICK o \in Attempts(p, {"boot", "dir"}) :
        disk' = LET d == IF o["boot"] THEN [disk EXCEPT ![p].kind = "cfs"] ELSE disk
                IN  WriteDir(d, p, NoDirectory, o["dir"])
  BY DEF FormatDrive
<1> DEFINE d == IF o["boot"] THEN [disk EXCEPT ![p].kind = "cfs"] ELSE disk
<1>2. o["boot"] \in BOOLEAN /\ o["dir"] \in BOOLEAN
      /\ (o["boot"] => p \in Units) /\ (o["dir"] => p \in Units)
  BY AttemptFacts DEF DirInv
<1>3. DisksInv(d)
  <2>1. CASE ~o["boot"]
    BY <2>1 DEF DirInv, StoreInv
  <2>2. CASE o["boot"]
    <3> HIDE DEF p
    <3>1. d \in [Units -> DiskType]
      BY <1>2, <2>2 DEF DirInv, StoreInv, DisksInv, DiskType, Kinds
    <3>2. \A u \in Units : d[u].dir = disk[u].dir
      BY <1>2, <2>2 DEF DirInv, StoreInv, DisksInv, DiskType
    <3> HIDE DEF d
    <3> QED
      BY <3>1, <3>2 DEF DirInv, StoreInv, DisksInv
  <2> QED
    BY <1>2, <2>1, <2>2
<1>4. disk' = WriteDir(d, p, NoDirectory, o["dir"])
  BY <1>1
<1> HIDE DEF d, p
<1>5. DisksInv(disk')
  BY <1>2, <1>3, <1>4, NoDirectoryIsSound, WriteDirKeepsDisks
<1>6. UNCHANGED <<dir_ram, oracle_ram>>
  BY DEF FormatDrive
<1> QED
  BY <1>5, <1>6 DEF DirInv, StoreInv, DisksInv, SoundDir, OwnSectors

LEMMA SaveNameKeepsStore ==
  ASSUME DirInv, SaveName
  PROVE  StoreInv'
<1>1p. PICK p \in PortsAt(active_drive_idx) : \E o \in Attempts(p, {"read", "dir"}) :
        LET dir == Renamed(Fetched(p, o["read"]), renaming_file_idx)
        IN  dir_ram' = dir /\ disk' = WriteDir(disk, p, dir, o["dir"])
  BY DEF SaveName
<1>1. PICK o \in Attempts(p, {"read", "dir"}) :
        LET dir == Renamed(Fetched(p, o["read"]), renaming_file_idx)
        IN  dir_ram' = dir /\ disk' = WriteDir(disk, p, dir, o["dir"])
  BY <1>1p
<1> DEFINE dir == Renamed(Fetched(p, o["read"]), renaming_file_idx)
<1>2. o["read"] \in BOOLEAN /\ o["dir"] \in BOOLEAN
      /\ (o["read"] => p \in Units) /\ (o["dir"] => p \in Units)
  BY AttemptFacts DEF DirInv
<1>3. renaming_file_idx \in Slots
  BY DEF SaveName, PressOnKeyboard, DirInv, ViewInv
<1>4. SoundDir(dir)
  BY <1>2, <1>3, FetchedIsSound, RenamedIsSound DEF DirInv
<1>5. dir_ram' = dir /\ disk' = WriteDir(disk, p, dir, o["dir"])
  BY <1>1
<1> HIDE DEF dir
<1>6. DisksInv(disk')
  BY <1>2, <1>4, <1>5, WriteDirKeepsDisks DEF DirInv, StoreInv
<1>7. UNCHANGED oracle_ram
  BY DEF SaveName
<1> QED
  BY <1>4, <1>5, <1>6, <1>7 DEF DirInv, StoreInv, DisksInv, SoundDir, OwnSectors

LEMMA RecoverKeepsStore ==
  ASSUME DirInv, NEW i \in Slots, Recover(i)
  PROVE  StoreInv'
<1> DEFINE p == Active.base_port
<1>1. PICK o \in Attempts(p, {"read", "dir"}) :
        LET seen == IF o["read"] THEN disk[p].dir ELSE oracle_ram
        IN  /\ oracle_ram' = Recovered(seen, i)
            /\ disk' = WriteDir(disk, p, Recovered(seen, i), o["dir"])
  BY DEF Recover
<1> DEFINE seen == IF o["read"] THEN disk[p].dir ELSE oracle_ram
           dir  == Recovered(seen, i)
<1>2. o["read"] \in BOOLEAN /\ o["dir"] \in BOOLEAN
      /\ (o["read"] => p \in Units) /\ (o["dir"] => p \in Units)
  BY AttemptFacts DEF DirInv
<1>3. SoundDir(seen)
  <2> HIDE DEF p
  <2> QED
    BY <1>2 DEF DirInv, StoreInv, DisksInv
<1>4. SoundDir(dir)
  <2> HIDE DEF seen
  <2> QED
    BY <1>3, RecoveredIsSound
<1>5. oracle_ram' = dir /\ disk' = WriteDir(disk, p, dir, o["dir"])
  BY <1>1
<1> HIDE DEF dir, p
<1>6. DisksInv(disk')
  BY <1>2, <1>4, <1>5, WriteDirKeepsDisks DEF DirInv, StoreInv
<1>7. UNCHANGED dir_ram
  BY DEF Recover
<1> QED
  BY <1>4, <1>5, <1>6, <1>7 DEF DirInv, StoreInv, DisksInv, SoundDir, OwnSectors

LEMMA SaveNoteKeepsStore ==
  ASSUME DirInv, SaveNote
  PROVE  StoreInv'
<1>1p. PICK p \in PortsAt(active_drive_idx) : \E o \in Attempts(p, {"write"}) :
        disk' = WriteData(disk, p, file_table[current_open_file].sector, note_buf, o["write"])
  BY DEF SaveNote
<1>1. PICK o \in Attempts(p, {"write"}) :
        disk' = WriteData(disk, p, file_table[current_open_file].sector, note_buf, o["write"])
  BY <1>1p
<1>2. o["write"] \in BOOLEAN /\ (o["write"] => p \in Units)
  BY AttemptFacts DEF DirInv
<1>3. DisksInv(disk')
  BY <1>1, <1>2, WriteDataKeepsDisks DEF DirInv, StoreInv, NoteInv
<1>4. UNCHANGED <<dir_ram, oracle_ram>>
  BY DEF SaveNote
<1> QED
  BY <1>3, <1>4 DEF DirInv, StoreInv, DisksInv, SoundDir, OwnSectors

LEMMA NextDriveKeepsStore ==
  ASSUME DirInv, NextDrive
  PROVE  StoreInv'
<1> DEFINE u == drives[(active_drive_idx + 1) % drive_count].unit
<1>1. PICK o \in Attempts(u, {"read"}) :
        dir_ram' = IF o["read"] THEN disk[u].dir ELSE dir_ram
  BY DEF NextDrive
<1>2. o["read"] \in BOOLEAN /\ (o["read"] => u \in Units)
  BY AttemptFacts DEF DirInv
<1> HIDE DEF u
<1>3. SoundDir(dir_ram')
  BY <1>1, <1>2 DEF DirInv, StoreInv, DisksInv
<1>4. UNCHANGED <<disk, oracle_ram>>
  BY DEF NextDrive
<1> QED
  BY <1>3, <1>4 DEF DirInv, StoreInv, DisksInv, SoundDir, OwnSectors

\* IMPORT and SAVE write a text to the slot's sector, then the directory.
LEMMA TextAndDirKeepDisks ==
  ASSUME DisksInv(disk), NEW p, NEW lba, NEW text \in Texts, NEW dir, SoundDir(dir),
         NEW written \in BOOLEAN, NEW ok \in BOOLEAN, written => p \in Units, ok => p \in Units
  PROVE  DisksInv(WriteDir(WriteData(disk, p, lba, text, written), p, dir, ok))
<1> DEFINE d == WriteData(disk, p, lba, text, written)
<1>1. DisksInv(d)
  BY WriteDataKeepsDisks
<1> HIDE DEF d
<1>2. DisksInv(WriteDir(d, p, dir, ok))
  BY <1>1, WriteDirKeepsDisks
<1> QED
  BY <1>2 DEF d

LEMMA SaveFileKeepsStore ==
  ASSUME DirInv, SaveFile
  PROVE  StoreInv'
<1>1p. PICK p \in PortsAt(active_drive_idx) : \E o \in Attempts(p, {"read", "data", "dir"}) :
        LET dir  == Fetched(p, o["read"])
            slot == FreeSlot(dir)
            new  == IF slot = None THEN dir ELSE Created(dir, slot, 1, "typed")
        IN  /\ dir_ram' = new
            /\ disk' = IF slot = None THEN disk
                       ELSE WriteDir(WriteData(disk, p, DataLba(slot), note_buf, o["data"]),
                                     p, new, o["dir"])
  BY DEF SaveFile
<1>1. PICK o \in Attempts(p, {"read", "data", "dir"}) :
        LET dir  == Fetched(p, o["read"])
            slot == FreeSlot(dir)
            new  == IF slot = None THEN dir ELSE Created(dir, slot, 1, "typed")
        IN  /\ dir_ram' = new
            /\ disk' = IF slot = None THEN disk
                       ELSE WriteDir(WriteData(disk, p, DataLba(slot), note_buf, o["data"]),
                                     p, new, o["dir"])
  BY <1>1p
<1> DEFINE dir  == Fetched(p, o["read"])
           slot == FreeSlot(dir)
           new  == IF slot = None THEN dir ELSE Created(dir, slot, 1, "typed")
<1>2. /\ o["read"] \in BOOLEAN /\ o["data"] \in BOOLEAN /\ o["dir"] \in BOOLEAN
      /\ o["read"] => p \in Units
      /\ o["data"] => p \in Units
      /\ o["dir"] => p \in Units
  BY AttemptFacts DEF DirInv
<1>3. SoundDir(dir)
  BY <1>2, FetchedIsSound DEF DirInv
<1>4. SoundDir(new)
  <2>1. slot # None => slot \in Slots
    BY FreeSlotIsFree
  <2>2. "typed" \in Names
    BY Zenon DEF Names
  <2> HIDE DEF dir, slot
  <2> QED
    BY <1>3, <2>1, <2>2, CreatedIsSound
<1>5. /\ dir_ram' = new
      /\ disk' = IF slot = None THEN disk
                 ELSE WriteDir(WriteData(disk, p, DataLba(slot), note_buf, o["data"]),
                               p, new, o["dir"])
  BY <1>1
<1> HIDE DEF new, slot
<1>6. DisksInv(WriteDir(WriteData(disk, p, DataLba(slot), note_buf, o["data"]), p, new, o["dir"]))
  BY <1>2, <1>4, TextAndDirKeepDisks DEF DirInv, StoreInv, NoteInv
<1>7. DisksInv(disk')
  BY <1>5, <1>6 DEF DirInv, StoreInv
<1>8. UNCHANGED oracle_ram
  BY DEF SaveFile
<1> QED
  BY ZenonT(60), <1>4, <1>5, <1>7, <1>8 DEF DirInv, StoreInv, DisksInv, SoundDir, OwnSectors

LEMMA ImportKeepsStore ==
  ASSUME DirInv, NEW f \in Slots, Import(f)
  PROVE  StoreInv'
<1> DEFINE p == ImportPort
           src == Active.base_port
<1>1. CASE p = 0
  <2>1. UNCHANGED <<disk, dir_ram, oracle_ram>>
    BY <1>1 DEF Import
  <2> QED
    BY <2>1 DEF DirInv, StoreInv, DisksInv, SoundDir, OwnSectors
<1>2. CASE p # 0
  <2>1. PICK o \in Attempts(p, {"read", "data", "dir"}), ok \in Outcomes(src) :
          LET slot == FreeSlot(Fetched(p, o["read"]))
              text == IF ok THEN DataAt(src, file_table[f].sector) ELSE "none"
              new  == Created(Fetched(p, o["read"]), slot, 1, file_table[f].name)
          IN  /\ dir_ram' = IF slot = None THEN Fetched(p, o["read"]) ELSE new
              /\ disk' = IF slot = None THEN disk
                         ELSE WriteDir(WriteData(disk, p, DataLba(slot), text, o["data"]),
                                       p, new, o["dir"])
    BY <1>2 DEF Import
  <2> DEFINE dir  == Fetched(p, o["read"])
             slot == FreeSlot(dir)
             text == IF ok THEN DataAt(src, file_table[f].sector) ELSE "none"
             new  == Created(dir, slot, 1, file_table[f].name)
  <2>2. /\ o["read"] \in BOOLEAN /\ o["data"] \in BOOLEAN /\ o["dir"] \in BOOLEAN
        /\ o["read"] => p \in Units
        /\ o["data"] => p \in Units
        /\ o["dir"] => p \in Units
    BY AttemptFacts DEF DirInv
  <2>3. SoundDir(dir)
    BY <2>2, FetchedIsSound DEF DirInv
  <2>4. slot # None => SoundDir(new)
    <3>1. slot # None => slot \in Slots
      BY FreeSlotIsFree
    <3>2. file_table[f].name \in Names
      BY DEF DirInv, RowsType, Rows
    <3> HIDE DEF dir, slot
    <3> QED
      BY <2>3, <3>1, <3>2, CreatedIsSound
  <2>5. text \in Texts
    BY DataIsText DEF DirInv, Texts
  <2>6. /\ dir_ram' = IF slot = None THEN dir ELSE new
        /\ disk' = IF slot = None THEN disk
                   ELSE WriteDir(WriteData(disk, p, DataLba(slot), text, o["data"]),
                                 p, new, o["dir"])
    BY <2>1
  <2>9. UNCHANGED oracle_ram
    BY DEF Import
  <2> HIDE DEF dir, new, slot, text, p
  <2>7. slot # None =>
          DisksInv(WriteDir(WriteData(disk, p, DataLba(slot), text, o["data"]), p, new, o["dir"]))
    BY <2>2, <2>4, <2>5, TextAndDirKeepDisks DEF DirInv, StoreInv
  <2>8. DisksInv(disk') /\ SoundDir(dir_ram')
    BY <2>3, <2>4, <2>6, <2>7 DEF DirInv, StoreInv
  <2> QED
    BY <2>8, <2>9 DEF DirInv, StoreInv, DisksInv, SoundDir, OwnSectors
<1> QED
  BY <1>1, <1>2

LEMMA CreateButtonsKeepStore ==
  ASSUME DirInv, NEW t \in 1 .. 2, NewInRoot(t) \/ MakeFolder
  PROVE  StoreInv'
<1> DEFINE p == Active.base_port
<1>1. CASE NewInRoot(t)
  <2>1. PICK o \in Attempts(p, {"read", "dir"}) : Create(p, o, t, "auto")
    BY <1>1 DEF NewInRoot
  <2>2. UNCHANGED oracle_ram
    BY <1>1 DEF NewInRoot
  <2>3. "auto" \in Names
    BY Zenon DEF Names
  <2> HIDE DEF p
  <2> QED
    BY <2>1, <2>2, <2>3, CreateKeepsStore DEF DirInv
<1>2. CASE MakeFolder
  <2>1. PICK q \in PortsAt(active_drive_idx) :
          \E o \in Attempts(q, {"read", "dir"}) : Create(q, o, 2, "typed")
    BY <1>2 DEF MakeFolder
  <2>2. PICK o \in Attempts(q, {"read", "dir"}) : Create(q, o, 2, "typed")
    BY <2>1
  <2>3. UNCHANGED oracle_ram
    BY <1>2 DEF MakeFolder
  <2>4. "typed" \in Names
    BY Zenon DEF Names
  <2> QED
    BY <2>2, <2>3, <2>4, CreateKeepsStore DEF DirInv
<1> QED
  BY <1>1, <1>2

LEMMA EraseButtonsKeepStore ==
  ASSUME DirInv, NEW f \in Slots, Delete(f) \/ DeleteInFolder(f)
  PROVE  StoreInv'
<1> DEFINE p == Active.base_port
<1>1. PICK steps \in {{"read", "dir"}, {"read", "dir"} \cup FileStep(f)} :
        \E o \in Attempts(p, steps) : Erase(f, p, o)
  BY DEF Delete, DeleteInFolder
<1>2. PICK o \in Attempts(p, steps) : Erase(f, p, o)
  BY <1>1
<1>3. UNCHANGED oracle_ram
  BY DEF Delete, DeleteInFolder
<1>4. {"read", "dir"} \subseteq steps
  OBVIOUS
<1> HIDE DEF p
<1> QED
  BY <1>2, <1>3, <1>4, EraseKeepsStore DEF DirInv

\* StoreInv speaks of the disks and of what was read from them.
LEMMA StoreUntouched ==
  ASSUME StoreInv, UNCHANGED <<disk, dir_ram, oracle_ram>>
  PROVE  StoreInv'
BY DEF StoreInv, DisksInv, SoundDir, OwnSectors

LEMMA StepKeepsStore ==
  ASSUME DirInv, [Next]_vars
  PROVE  StoreInv'
<1>s. StoreInv
  BY DEF DirInv
<1>1. CASE OpenManager \/ Ref \/ Leave \/ OpenDrive \/ Back \/ BackToRoot
  BY <1>1, <1>s, StoreUntouched DEF OpenManager, Ref, Leave, OpenDrive, Back, BackToRoot
<1>2. CASE FormatDrive
  BY <1>2, FormatKeepsStore
<1>3. CASE \E i \in 0 .. drive_count - 1 : SelectDrive(i)
  BY <1>3, <1>s, StoreUntouched DEF SelectDrive
<1>4. CASE \E t \in 1 .. 2 : NewInRoot(t) \/ NewInFolder(t)
  <2>1. PICK t \in 1 .. 2 : NewInRoot(t) \/ NewInFolder(t)
    BY <1>4
  <2>2. CASE NewInFolder(t)
    BY <2>2, <1>s, StoreUntouched DEF NewInFolder
  <2> QED
    BY <2>1, <2>2, CreateButtonsKeepStore
<1>5. ASSUME NEW f \in Slots,
             ClickRow(f) \/ Delete(f) \/ DeleteInFolder(f) \/ StartRename(f) \/ Import(f) \/ Recover(f)
      PROVE  StoreInv'
  <2>1. CASE ClickRow(f) \/ StartRename(f)
    BY <2>1, <1>s, StoreUntouched DEF ClickRow, StartRename
  <2> QED
    BY <1>5, <2>1, EraseButtonsKeepStore, ImportKeepsStore, RecoverKeepsStore
<1>6. CASE EditName \/ TypeText \/ NewNote \/ SaveAs \/ EnterFolder
  BY <1>6, <1>s, StoreUntouched DEF EditName, TypeText, NewNote, SaveAs, EnterFolder
<1>7. CASE TurnPage \/ CloseDialog
  BY <1>7, <1>s, StoreUntouched DEF TurnPage, CloseDialog, Turn
<1>8. CASE SaveName \/ SaveNote \/ NextDrive \/ SaveFile
  BY <1>8, SaveNameKeepsStore, SaveNoteKeepsStore, NextDriveKeepsStore, SaveFileKeepsStore
<1>9. CASE MakeFolder
  <2>1. 1 \in 1 .. 2
    OBVIOUS
  <2> QED
    BY <1>9, <2>1, CreateButtonsKeepStore
<1>10. CASE UNCHANGED vars
  BY <1>10, <1>s, StoreUntouched DEF vars
<1> QED
  BY <1>1, <1>2, <1>3, <1>4, <1>5, <1>6, <1>7, <1>8, <1>9, <1>10 DEF Next

-----------------------------------------------------------------------------
(* ListInv: REF's list is made of drives, and an index stays in it or -1.  *)

LEMMA IntervalsAreFinite == \A n \in Nat : IsFiniteSet(0 .. n)
<1> TAKE n \in Nat
<1>1. 0 \in Int /\ n \in Int
  OBVIOUS
<1> QED
  BY <1>1, FS_Interval

LEMMA RanksExist ==
  \A b \in Nat : \A S \in SUBSET (0 .. b) : \A n \in Nat :
    n < Cardinality(S) => \E i \in S : Cardinality({j \in S : j < i}) = n
BY RankExists

\* The units of a list that ahci_mount_drive makes.
LEMMA PortOfRank ==
  ASSUME NEW S \in SUBSET Ports, NEW n \in Nat, n < Cardinality(S)
  PROVE  (CHOOSE p \in S : Cardinality({q \in S : q < p}) = n) \in S
<1>1. S \in SUBSET (0 .. 31)
  BY UnitsAssumption
<1>2. \E p \in S : Cardinality({q \in S : q < p}) = n
  <2>1. 31 \in Nat
    OBVIOUS
  <2> QED
    BY <1>1, <2>1, RanksExist
<1> QED
  BY <1>2

LEMMA PortsAreFinite ==
  ASSUME NEW S \in SUBSET Ports
  PROVE  IsFiniteSet(S) /\ Cardinality(S) \in Nat
<1>1. IsFiniteSet(0 .. 31)
  BY IntervalsAreFinite
<1>2. S \in SUBSET (0 .. 31)
  BY UnitsAssumption
<1>3. IsFiniteSet(S)
  BY <1>1, <1>2, FS_Subset
<1> QED
  BY <1>3, FS_CardinalityType

LEMMA DriveTyped ==
  ASSUME NEW t \in {0, 2, 3}, NEW u \in Units \cup {NoUnit}, NEW p \in Nat, NEW l \in Labels
  PROVE  /\ Drive(t, u, p, l) \in DriveType
         /\ Drive(t, u, p, l).base_port = p /\ Drive(t, u, p, l).label = l
BY DEF Drive, DriveType

LEMMA CappedTyped ==
  ASSUME NEW n \in Nat
  PROVE  Capped(n) \in 0 .. MaxDrives
BY DEF Capped, MaxDrives

LEMMA MountKeepsList ==
  ASSUME ListInv, Mount
  PROVE  drives' \in [Places -> DriveType] /\ drive_count' \in 0 .. MaxDrives /\ FatInv'
<1>1. PICK answers \in SUBSET Ports, broken \in SUBSET Ports :
        drives' = Rescanned(answers, broken).list /\ drive_count' = Rescanned(answers, broken).count
  BY DEF Mount
<1> DEFINE kept  == {i \in 0 .. drive_count - 1 : drives[i].type # 2}
           At(n) == CHOOSE i \in kept : Cardinality({j \in kept : j < i}) = n
           k     == Cardinality(kept)
           up    == answers \cup broken
           Port(n) == CHOOSE p \in up : Cardinality({q \in up : q < p}) = n
           New(p)  == Drive(2, p, p, IF p \in broken THEN "error" ELSE "none")
           list == [i \in Places |-> IF i < k THEN drives[At(i)]
                                     ELSE IF i < k + Cardinality(up) THEN New(Port(i - k))
                                     ELSE drives[i]]
<1>2. drives' = list /\ drive_count' = Capped(k + Cardinality(up))
  BY <1>1 DEF Rescanned, NewCount
<1>3. kept \in SUBSET (0 .. 7) /\ kept \in SUBSET Places
  BY DEF ListInv, Places, MaxDrives
<1>4. k \in Nat
  <2>1. IsFiniteSet(0 .. 7)
    BY IntervalsAreFinite
  <2>2. IsFiniteSet(kept)
    BY <1>3, <2>1, FS_Subset
  <2> QED
    BY <2>2, FS_CardinalityType
<1>5. up \in SUBSET Ports /\ Cardinality(up) \in Nat
  BY PortsAreFinite
<1>6. \A n \in Nat : n < k => At(n) \in Places
  <2> TAKE n \in Nat
  <2> HAVE n < k
  <2>0. 7 \in Nat
    OBVIOUS
  <2> HIDE DEF kept
  <2>1. \E i \in kept : Cardinality({j \in kept : j < i}) = n
    BY <1>3, <2>0, RanksExist
  <2> QED
    BY <1>3, <2>1
<1>7. \A n \in Nat : n < Cardinality(up) => Port(n) \in Ports
  <2> TAKE n \in Nat
  <2> HAVE n < Cardinality(up)
  <2> HIDE DEF up
  <2>1. Port(n) \in up
    BY <1>5, PortOfRank
  <2> QED
    BY <1>5, <2>1
<1>8. \A p \in Ports : New(p) \in DriveType /\ ~SaysFat(New(p))
  <2> TAKE p \in Ports
  <2> DEFINE l == IF p \in broken THEN "error" ELSE "none"
  <2>1. l \in Labels /\ p \in Units /\ p \in Nat /\ l # "fat32"
    BY UnitsAreNumbers DEF Labels
  <2> HIDE DEF l
  <2>2. Drive(2, p, p, l) \in DriveType /\ Drive(2, p, p, l).label = l
    BY <2>1, DriveTyped
  <2> QED
    BY <2>1, <2>2 DEF SaysFat, l
<1>9. \A i \in Places : i < k => At(i) \in Places
  <2>1. Places \subseteq Nat
    BY DEF Places
  <2> HIDE DEF At, k
  <2> QED
    BY <1>6, <2>1
<1>10. \A i \in Places : (~(i < k) /\ i < k + Cardinality(up)) => Port(i - k) \in Ports
  <2> TAKE i \in Places
  <2> HAVE ~(i < k) /\ i < k + Cardinality(up)
  <2> HIDE DEF k, up
  <2>1. i - k \in Nat /\ i - k < Cardinality(up)
    BY <1>4, <1>5 DEF Places
  <2> HIDE DEF Port
  <2> QED
    BY <1>7, <2>1
<1> HIDE DEF kept, At, k, up, Port, New
<1>11. \A i \in Places : list[i] \in DriveType /\ (SaysFat(list[i]) => list[i].base_port \in Ports)
  <2> TAKE i \in Places
  <2>1. CASE i < k
    <3>1. list[i] = drives[At(i)]
      BY <2>1
    <3> QED
      BY <1>9, <2>1, <3>1 DEF ListInv, FatInv
  <2>2. CASE ~(i < k) /\ i < k + Cardinality(up)
    <3>1. list[i] = New(Port(i - k))
      BY <2>2
    <3> QED
      BY <1>8, <1>10, <2>2, <3>1
  <2>3. CASE ~(i < k) /\ ~(i < k + Cardinality(up))
    <3>1. list[i] = drives[i]
      BY <2>3
    <3> QED
      BY <3>1 DEF ListInv, FatInv
  <2> QED
    BY <2>1, <2>2, <2>3
<1>12. list \in [Places -> DriveType]
  <2>1. list = [i \in Places |-> list[i]]
    OBVIOUS
  <2> HIDE DEF list
  <2> QED
    BY <1>11, <2>1
<1>13. drive_count' \in 0 .. MaxDrives
  <2>1. k + Cardinality(up) \in Nat
    BY <1>4, <1>5
  <2> QED
    BY <1>2, <2>1, CappedTyped
<1> HIDE DEF list
<1> QED
  BY <1>2, <1>11, <1>12, <1>13 DEF FatInv

LEMMA StepKeepsList ==
  ASSUME DirInv, [Next]_vars
  PROVE  ListInv'
<1>i. ListInv
  BY DEF DirInv
<1>u. ASSUME UNCHANGED <<drives, drive_count, active_drive_idx>> PROVE ListInv'
  BY <1>i, <1>u DEF ListInv, FatInv
<1>v. ASSUME UNCHANGED <<drives, drive_count>>, active_drive_idx' \in -1 .. MaxDrives - 1
      PROVE ListInv'
  BY <1>i, <1>v DEF ListInv, FatInv
<1>1. CASE OpenManager \/ Ref
  <2>1. Mount /\ active_drive_idx' = active_drive_idx
    BY <1>1 DEF OpenManager, Ref, viewVars
  <2>2. drives' \in [Places -> DriveType] /\ drive_count' \in 0 .. MaxDrives /\ FatInv'
    BY <1>i, <2>1, MountKeepsList
  <2> QED
    BY <1>i, <2>1, <2>2 DEF ListInv
<1>2. CASE Leave \/ OpenDrive \/ BackToRoot
  BY <1>2, <1>u DEF Leave, OpenDrive, BackToRoot, listVars
<1>3. CASE FormatDrive
  <2>1. /\ drives' = [drives EXCEPT ![active_drive_idx].label = "formatted"]
        /\ UNCHANGED <<drive_count, active_drive_idx>> /\ active_drive_idx # -1
    BY <1>3 DEF FormatDrive, viewVars
  <2>2. active_drive_idx \in Places /\ "formatted" \in Labels
    BY <1>i, <2>1 DEF ListInv, Places, MaxDrives, Labels
  <2>3. drives' \in [Places -> DriveType]
    BY <1>i, <2>1, <2>2 DEF ListInv, DriveType
  <2>4. \A i \in Places : drives'[i] = drives[i] \/ drives'[i].label = "formatted"
    BY <1>i, <2>1, <2>2 DEF ListInv, DriveType
  <2>5. FatInv'
    BY <1>i, <2>4 DEF ListInv, FatInv, SaysFat
  <2> QED
    BY <1>i, <2>1, <2>3, <2>5 DEF ListInv
<1>4. CASE Back
  <2>1. UNCHANGED <<drives, drive_count>> /\ active_drive_idx' = -1
    BY <1>4 DEF Back, listVars
  <2> QED
    BY <2>1, <1>v DEF MaxDrives
<1>5. CASE \E i \in 0 .. drive_count - 1 : SelectDrive(i)
  <2>1. PICK i \in 0 .. drive_count - 1 : SelectDrive(i)
    BY <1>5
  <2>2. UNCHANGED <<drives, drive_count>> /\ active_drive_idx' = i
    BY <2>1 DEF SelectDrive, listVars
  <2>3. i \in -1 .. MaxDrives - 1
    BY <1>i DEF ListInv, MaxDrives
  <2> QED
    BY <2>2, <2>3, <1>v
<1>6. CASE \E t \in 1 .. 2 : NewInRoot(t) \/ NewInFolder(t)
  BY <1>6, <1>u DEF NewInRoot, NewInFolder, listVars, viewVars
<1>7. ASSUME NEW f \in Slots,
             ClickRow(f) \/ Delete(f) \/ DeleteInFolder(f) \/ StartRename(f) \/ Import(f) \/ Recover(f)
      PROVE  ListInv'
  <2>1. CASE ClickRow(f) \/ Delete(f) \/ DeleteInFolder(f)
    BY <2>1, <1>u DEF ClickRow, Delete, DeleteInFolder, listVars, viewVars
  <2>2. CASE StartRename(f) \/ Import(f) \/ Recover(f)
    BY <2>2, <1>u DEF StartRename, Import, Recover, listVars, viewVars
  <2> QED
    BY <1>7, <2>1, <2>2
<1>8. CASE EditName \/ SaveName \/ TypeText \/ NewNote \/ SaveNote
  BY <1>8, <1>u DEF EditName, SaveName, TypeText, NewNote, SaveNote, listVars, viewVars
<1>9. CASE SaveAs \/ MakeFolder
  <2>1. UNCHANGED <<drives, drive_count>> /\ active_drive_idx' = Clamped
    BY <1>9 DEF SaveAs, MakeFolder, listVars
  <2>2. Clamped \in -1 .. MaxDrives - 1
    BY <1>i DEF Clamped, ListInv, MaxDrives
  <2> QED
    BY <2>1, <2>2, <1>v
<1>10. CASE NextDrive
  <2>1. /\ UNCHANGED <<drives, drive_count>> /\ drive_count > 0
        /\ active_drive_idx' = (active_drive_idx + 1) % drive_count
    BY <1>10 DEF NextDrive, listVars
  <2>2. \A a \in Nat, c \in 1 .. 8 : a % c \in 0 .. 7
    OBVIOUS
  <2>3. active_drive_idx + 1 \in Nat /\ drive_count \in 1 .. 8
    BY <1>i, <2>1 DEF ListInv, MaxDrives
  <2>4. (active_drive_idx + 1) % drive_count \in 0 .. 7
    BY <2>2, <2>3
  <2> QED
    BY <2>1, <2>4, <1>v DEF MaxDrives
<1>11. CASE EnterFolder \/ SaveFile \/ TurnPage \/ CloseDialog
  BY <1>11, <1>u DEF EnterFolder, SaveFile, TurnPage, CloseDialog, Turn, listVars, viewVars
<1>12. CASE UNCHANGED vars
  BY <1>12, <1>u DEF vars
<1> QED
  BY <1>1, <1>2, <1>3, <1>4, <1>5, <1>6, <1>7, <1>8, <1>9, <1>10, <1>11, <1>12 DEF Next

-----------------------------------------------------------------------------
(* RowsType: whatever OPEN finds on a disk, it makes rows of it.           *)

LEMMA RowsTyped ==
  /\ \A row \in Rows : Absent(row) \in Rows /\ \A n \in Names : Label(row, n) \in Rows
  /\ \A e \in Entries : Row(e) \in Rows
  /\ \A i, rows : Garbled(i, rows) \in Rows
<1>1. \A row \in Rows : Absent(row) \in Rows /\ \A n \in Names : Label(row, n) \in Rows
  BY DEF Rows, Absent, Label
<1>2. \A e \in Entries : Row(e) \in Rows
  BY DEF Rows, Row, Entries
<1>3. "garbled" \in Names /\ 0 \in Slots
  BY Zenon, SlotsAreNumbers DEF Names
<1>4. \A i, rows : Garbled(i, rows) \in Rows
  BY <1>3 DEF Rows, Garbled
<1> QED
  BY <1>1, <1>2, <1>4

LEMMA OpenedTableTyped ==
  ASSUME RowsType, NEW kind, NEW boot, NEW dir \in [Slots -> Entries], NEW rows
  PROVE  OpenedTable(kind, boot, dir, rows) \in [Slots -> Rows]
<1>1. \A i \in Slots : file_table[i] \in Rows
  BY DEF RowsType
<1>2. \A row \in Rows : Absent(row) \in Rows
  BY RowsTyped
<1>3. \A e \in Entries : Row(e) \in Rows
  BY RowsTyped
<1>4. "typed" \in Names /\ "fixed" \in Names
  BY Zenon DEF Names
<1>5. CfsRows(dir) \in [Slots -> Rows]
  BY <1>1, <1>2, <1>3 DEF CfsRows
<1>6. ReaderTable(rows) \in [Slots -> Rows]
  <2>1. FatLba \in Lbas
    BY DEF Lbas
  <2>2. Entry(1, "typed", FatLba) \in Entries
    BY <1>4, <2>1 DEF Entry, Entries
  <2>3. Row(Entry(1, "typed", FatLba)) \in Rows
    BY <1>3, <2>2
  <2> QED
    BY <1>1, <1>2, <2>3 DEF ReaderTable
<1>7. MftTable(rows) \in [Slots -> Rows]
  <2>1. \A row \in Rows : [row EXCEPT !.exists = TRUE, !.name = "typed"] \in Rows
    BY <1>4 DEF Rows
  <2> QED
    BY <1>1, <1>2, <2>1 DEF MftTable
<1>8. \A row \in Rows : Label(row, "fixed") \in Rows
  BY <1>4, RowsTyped
<1>9. FixedTable \in [Slots -> Rows]
  BY <1>1, <1>2, <1>8 DEF FixedTable
<1>10. RawTable(rows) \in [Slots -> Rows]
  <2>1. \A i, s : Garbled(i, s) \in Rows
    BY RowsTyped
  <2> QED
    BY <1>8, <2>1 DEF RawTable
<1> QED
  BY <1>5, <1>6, <1>7, <1>9, <1>10 DEF OpenedTable, RowsType

LEMMA RowChanged ==
  ASSUME RowsType, NEW i \in Slots, NEW row \in Rows
  PROVE  [file_table EXCEPT ![i] = row] \in [Slots -> Rows]
BY DEF RowsType

LEMMA NewRowTyped ==
  ASSUME RowsType, NEW i \in Slots, NEW t \in 1 .. 2
  PROVE  NewRow(i, t) \in Rows
<1>1. file_table[i] \in Rows /\ Sector(i) \in Lbas
  BY SectorsAreDistinct DEF RowsType
<1>2. "auto" \in Names
  BY Zenon DEF Names
<1> QED
  BY <1>1, <1>2 DEF NewRow, Rows

LEMMA OpenDriveKeepsRows ==
  ASSUME DirInv, OpenDrive
  PROVE  RowsType'
<1> DEFINE u == Active.unit
<1>1. PICK o \in Attempts(u, {"look", "dir"}) :
        LET good == o["look"] /\ Reachable(active_drive_idx)
            kind == IF good THEN disk[u].kind ELSE "blank"
            read == o["dir"] /\ Reachable(active_drive_idx)
        IN  \E dir \in (IF read THEN {disk[u].dir} ELSE OnStack), rows \in FoundRows(kind) :
              file_table' = OpenedTable(kind, BootSector(kind), dir, rows)
  BY DEF OpenDrive
<1> DEFINE kind == IF o["look"] /\ Reachable(active_drive_idx) THEN disk[u].kind ELSE "blank"
           read == o["dir"] /\ Reachable(active_drive_idx)
<1>2. PICK dir \in (IF read THEN {disk[u].dir} ELSE OnStack), rows \in FoundRows(kind) :
        file_table' = OpenedTable(kind, BootSector(kind), dir, rows)
  BY <1>1
<1>3. o["dir"] => u \in Units
  BY AttemptFacts DEF DirInv
<1>4. \A v \in Units : disk[v].dir \in [Slots -> Entries]
  BY DEF DirInv, StoreInv, DisksInv, SoundDir
<1>5. NoDirectory \in [Slots -> Entries]
  BY NoDirectoryIsSound DEF SoundDir
<1>6. dir \in [Slots -> Entries]
  <2> HIDE DEF u
  <2>1. CASE read
    BY <1>2, <1>3, <1>4, <2>1
  <2>2. CASE ~read
    <3>1. dir \in OnStack
      BY <1>2, <2>2
    <3> QED
      BY <1>4, <1>5, <3>1 DEF OnStack
  <2> QED
    BY <2>1, <2>2
<1> HIDE DEF kind, read, u
<1> QED
  BY <1>2, <1>6, OpenedTableTyped DEF DirInv, RowsType

LEMMA CreatedRowsTyped ==
  ASSUME DirInv, NEW t \in 1 .. 2, NewInRoot(t) \/ NewInFolder(t)
  PROVE  RowsType'
<1>1. CASE NewInRoot(t)
  <2> DEFINE p == Active.base_port
  <2>1. PICK o \in Attempts(p, {"read", "dir"}) :
          LET slot == FreeSlot(Fetched(p, o["read"]))
          IN  file_table' = IF slot = None THEN file_table
                            ELSE [file_table EXCEPT ![slot] = NewRow(slot, t)]
    BY <1>1 DEF NewInRoot
  <2> DEFINE slot == FreeSlot(Fetched(p, o["read"]))
  <2>2. file_table' = IF slot = None THEN file_table
                      ELSE [file_table EXCEPT ![slot] = NewRow(slot, t)]
    BY <2>1
  <2>3. slot # None => slot \in Slots
    BY FreeSlotIsFree
  <2> HIDE DEF slot
  <2>4. slot # None => NewRow(slot, t) \in Rows
    BY <2>3, NewRowTyped DEF DirInv
  <2> QED
    BY <2>2, <2>3, <2>4, RowChanged DEF DirInv, RowsType
<1>2. CASE NewInFolder(t)
  <2> DEFINE i   == Lowest(FreeRows)
             row == [NewRow(i, t) EXCEPT !.parent = current_folder_view_idx]
  <2>1. file_table' = IF FreeRows = {} THEN file_table ELSE [file_table EXCEPT ![i] = row]
    BY <1>2 DEF NewInFolder
  <2>2. current_folder_view_idx \in Slots
    BY <1>2 DEF NewInFolder, DirInv, ViewInv
  <2>3. FreeRows # {} => i \in Slots
    <3>1. FreeRows \in SUBSET Slots
      BY DEF FreeRows
    <3> QED
      BY <3>1, LowestIsMember
  <2> HIDE DEF i
  <2>4. FreeRows # {} => row \in Rows
    <3>1. FreeRows # {} => NewRow(i, t) \in Rows
      BY <2>3, NewRowTyped DEF DirInv
    <3> QED
      BY <2>2, <3>1 DEF Rows
  <2> HIDE DEF row
  <2> QED
    BY <2>1, <2>3, <2>4, RowChanged DEF DirInv, RowsType
<1> QED
  BY <1>1, <1>2

LEMMA SaveFileKeepsRows ==
  ASSUME DirInv, SaveFile
  PROVE  RowsType'
<1>1. PICK p \in PortsAt(active_drive_idx) :
        \E o \in Attempts(p, {"read", "data", "dir"}) :
          LET slot == FreeSlot(Fetched(p, o["read"]))
          IN  file_table' = IF slot = None THEN file_table
                            ELSE [file_table EXCEPT ![slot] = SaveRow(slot)]
  BY DEF SaveFile
<1>2. PICK o \in Attempts(p, {"read", "data", "dir"}) :
        LET slot == FreeSlot(Fetched(p, o["read"]))
        IN  file_table' = IF slot = None THEN file_table
                          ELSE [file_table EXCEPT ![slot] = SaveRow(slot)]
  BY <1>1
<1> DEFINE slot == FreeSlot(Fetched(p, o["read"]))
<1>3. file_table' = IF slot = None THEN file_table
                    ELSE [file_table EXCEPT ![slot] = SaveRow(slot)]
  BY <1>2
<1>4. slot # None => slot \in Slots
  BY FreeSlotIsFree
<1> HIDE DEF slot
<1>5. slot # None => SaveRow(slot) \in Rows
  <2>1. "typed" \in Names
    BY Zenon DEF Names
  <2>2. slot # None => Sector(slot) \in Lbas
    BY <1>4, SectorsAreDistinct
  <2> QED
    BY <2>1, <2>2 DEF SaveRow, Rows, DirInv, ViewInv
<1> QED
  BY <1>3, <1>4, <1>5, RowChanged DEF DirInv, RowsType

LEMMA NextDriveKeepsRows ==
  ASSUME DirInv, NextDrive
  PROVE  RowsType'
<1> DEFINE d == drives[(active_drive_idx + 1) % drive_count]
<1>1. PICK o \in Attempts(d.unit, {"read"}) :
        LET dir == IF o["read"] THEN disk[d.unit].dir ELSE dir_ram
        IN  file_table' = TableOfNext(d, dir)
  BY DEF NextDrive
<1> DEFINE dir == IF o["read"] THEN disk[d.unit].dir ELSE dir_ram
<1>2. o["read"] \in BOOLEAN /\ (o["read"] => d.unit \in Units)
  BY AttemptFacts DEF DirInv
<1>3. file_table' = TableOfNext(d, dir)
  BY <1>1
<1> HIDE DEF d
<1>4. dir \in [Slots -> Entries]
  BY <1>2 DEF DirInv, StoreInv, DisksInv, SoundDir
<1> HIDE DEF dir
<1>5. \A i \in Slots : file_table[i] \in Rows
  BY DEF DirInv, RowsType
<1>6. CfsRows(dir) \in [Slots -> Rows]
  BY <1>4, <1>5, RowsTyped DEF CfsRows
<1>7. [i \in Slots |-> Absent(file_table[i])] \in [Slots -> Rows]
  BY <1>5, RowsTyped
<1> QED
  BY <1>3, <1>6, <1>7 DEF TableOfNext, RowsType

LEMMA EraseKeepsRows ==
  ASSUME RowsType, NEW f \in Slots, NEW p, NEW o, Erase(f, p, o)
  PROVE  RowsType'
<1>1. file_table' = [file_table EXCEPT ![f].exists = FALSE]
  BY DEF Erase
<1> QED
  BY <1>1 DEF RowsType, Rows

LEMMA EditNameKeepsRows ==
  ASSUME DirInv, EditName
  PROVE  RowsType'
<1>1. PICK n \in {"", "typed"} : file_table' = [file_table EXCEPT ![renaming_file_idx].name = n]
  BY DEF EditName
<1>2. n \in Names
  BY <1>1, Zenon DEF Names
<1>3. renaming_file_idx \in Slots
  BY DEF EditName, PressOnKeyboard, DirInv, ViewInv
<1>4. file_table' = [file_table EXCEPT ![renaming_file_idx].name = n]
  BY <1>1, Zenon
<1> QED
  BY <1>2, <1>3, <1>4 DEF DirInv, RowsType, Rows

LEMMA StepKeepsRows ==
  ASSUME DirInv, [Next]_vars
  PROVE  RowsType'
<1>i. RowsType
  BY DEF DirInv
<1>u. ASSUME UNCHANGED file_table PROVE RowsType'
  BY <1>i, <1>u DEF RowsType
<1>1. CASE OpenManager \/ Ref \/ Leave \/ FormatDrive \/ Back \/ BackToRoot
  BY <1>1, <1>u DEF OpenManager, Ref, Leave, FormatDrive, Back, BackToRoot
<1>2. CASE OpenDrive
  BY <1>2, OpenDriveKeepsRows
<1>3. CASE \E i \in 0 .. drive_count - 1 : SelectDrive(i)
  BY <1>3, <1>u DEF SelectDrive
<1>4. CASE \E t \in 1 .. 2 : NewInRoot(t) \/ NewInFolder(t)
  BY <1>4, CreatedRowsTyped
<1>5. ASSUME NEW f \in Slots,
             ClickRow(f) \/ Delete(f) \/ DeleteInFolder(f) \/ StartRename(f) \/ Import(f) \/ Recover(f)
      PROVE  RowsType'
  <2>1. CASE ClickRow(f) \/ StartRename(f) \/ Import(f) \/ Recover(f)
    BY <2>1, <1>u DEF ClickRow, StartRename, Import, Recover
  <2>2. CASE Delete(f) \/ DeleteInFolder(f)
    <3>1. PICK p, o : Erase(f, p, o)
      BY <2>2 DEF Delete, DeleteInFolder
    <3> QED
      BY <1>i, <3>1, EraseKeepsRows
  <2> QED
    BY <1>5, <2>1, <2>2
<1>6. CASE SaveName \/ TypeText \/ NewNote \/ SaveNote \/ SaveAs
  BY <1>6, <1>u DEF SaveName, TypeText, NewNote, SaveNote, SaveAs
<1>7. CASE EnterFolder \/ MakeFolder \/ TurnPage \/ CloseDialog
  BY <1>7, <1>u DEF EnterFolder, MakeFolder, TurnPage, CloseDialog, Turn
<1>8. CASE EditName \/ NextDrive \/ SaveFile
  BY <1>8, EditNameKeepsRows, NextDriveKeepsRows, SaveFileKeepsRows
<1>9. CASE UNCHANGED vars
  BY <1>9, <1>u DEF vars
<1> QED
  BY <1>1, <1>2, <1>3, <1>4, <1>5, <1>6, <1>7, <1>8, <1>9 DEF Next

-----------------------------------------------------------------------------
(* The view, the notepad and the counters.                                 *)

LEMMA StepKeepsView ==
  ASSUME DirInv, [Next]_vars
  PROVE  ViewInv'
<1>i. ViewInv
  BY DEF DirInv
<1>s. \A f \in Slots : f \in Slots \cup {-1} /\ f \in Slots \cup {None} /\ f \in Slots \cup {Root}
  OBVIOUS
<1>u. ASSUME UNCHANGED <<lookVars, viewVars>> PROVE ViewInv'
  BY <1>i, <1>u DEF ViewInv, lookVars, viewVars
<1>v. ASSUME UNCHANGED <<mft_known, is_ntfs, dsk_view, current_folder_view_idx, current_path_id,
                         file_selection, renaming_file_idx>>
      PROVE  ViewInv'
  BY <1>i, <1>v DEF ViewInv
<1>1. CASE OpenManager \/ Leave \/ Back \/ BackToRoot
  <2>1. /\ dsk_view' \in 0 .. 1 /\ current_path_id' \in {Root, current_path_id}
        /\ current_folder_view_idx' \in {-1, current_folder_view_idx}
        /\ UNCHANGED <<mft_known, is_ntfs, file_selection, renaming_file_idx>>
    BY <1>1 DEF OpenManager, Leave, Back, BackToRoot, lookVars
  <2> QED
    BY <1>i, <2>1 DEF ViewInv
<1>2. CASE OpenDrive
  <2>1. PICK kind : LookAround(kind)
    BY <1>2 DEF OpenDrive
  <2>2. mft_known' \in BOOLEAN /\ is_ntfs' \in BOOLEAN
    BY <1>i, <2>1 DEF ViewInv, LookAround, MftAfter, HasPartition
  <2>3. /\ dsk_view' = 1
        /\ UNCHANGED <<current_folder_view_idx, current_path_id, file_selection, renaming_file_idx>>
    BY <1>2 DEF OpenDrive
  <2> QED
    BY <1>i, <2>2, <2>3 DEF ViewInv
<1>3. CASE Ref \/ FormatDrive
  BY <1>3, <1>u DEF Ref, FormatDrive
<1>4. CASE \E i \in 0 .. drive_count - 1 : SelectDrive(i)
  BY <1>4, <1>v DEF SelectDrive, lookVars
<1>5. CASE \E t \in 1 .. 2 : NewInRoot(t) \/ NewInFolder(t)
  BY <1>5, <1>u DEF NewInRoot, NewInFolder
<1>6. ASSUME NEW f \in Slots,
             ClickRow(f) \/ Delete(f) \/ DeleteInFolder(f) \/ StartRename(f) \/ Import(f) \/ Recover(f)
      PROVE  ViewInv'
  <2>1. CASE ClickRow(f) \/ DeleteInFolder(f)
    <3>1. PICK ok : OpenRow(f, ok)
      BY <2>1 DEF ClickRow, DeleteInFolder
    <3>2. UNCHANGED <<mft_known, is_ntfs, renaming_file_idx>>
      BY <2>1 DEF ClickRow, DeleteInFolder, lookVars
    <3>3. CASE file_table[f].is_folder
      BY <1>i, <3>1, <3>2, <3>3 DEF OpenRow, ViewInv
    <3>4. CASE ~file_table[f].is_folder
      BY <1>i, <3>1, <3>2, <3>4 DEF OpenRow, ViewInv
    <3> QED
      BY <3>3, <3>4
  <2>2. CASE Delete(f)
    BY <1>i, <2>2 DEF Delete, ViewInv, lookVars
  <2>3. CASE StartRename(f)
    BY <1>i, <2>3 DEF StartRename, ViewInv, lookVars
  <2>4. CASE Import(f) \/ Recover(f)
    BY <2>4, <1>u DEF Import, Recover
  <2> QED
    BY <1>6, <2>1, <2>2, <2>3, <2>4
<1>7. CASE EditName \/ TypeText \/ NewNote \/ SaveNote \/ SaveFile
  BY <1>7, <1>u DEF EditName, TypeText, NewNote, SaveNote, SaveFile
<1>8. CASE SaveName
  BY <1>i, <1>8 DEF SaveName, ViewInv, lookVars
<1>9. CASE SaveAs \/ MakeFolder
  BY <1>9, <1>v DEF SaveAs, MakeFolder, lookVars
<1>10. CASE NextDrive
  BY <1>i, <1>10 DEF NextDrive, ViewInv, lookVars
<1>11. CASE EnterFolder
  BY <1>i, <1>11 DEF EnterFolder, ViewInv, lookVars
<1>12. CASE TurnPage \/ CloseDialog
  BY <1>12, <1>u DEF TurnPage, CloseDialog, Turn
<1>13. CASE UNCHANGED vars
  BY <1>13, <1>v DEF vars
<1> QED
  BY <1>1, <1>2, <1>3, <1>4, <1>5, <1>6, <1>7, <1>8, <1>9, <1>10, <1>11, <1>12, <1>13 DEF Next

LEMMA StepKeepsNote ==
  ASSUME DirInv, [Next]_vars
  PROVE  NoteInv'
<1>i. NoteInv
  BY DEF DirInv
<1>u. ASSUME UNCHANGED noteVars PROVE NoteInv'
  BY <1>i, <1>u DEF NoteInv, noteVars
<1>v. ASSUME UNCHANGED <<current_open_file, note_buf>>,
             dialog' \in {"closed", "drive", "name", "folder"}
      PROVE  NoteInv'
  BY <1>i, <1>v DEF NoteInv
<1>1. CASE OpenManager \/ Ref \/ Leave \/ OpenDrive \/ FormatDrive \/ Back \/ BackToRoot
  BY <1>1, <1>u DEF OpenManager, Ref, Leave, OpenDrive, FormatDrive, Back, BackToRoot
<1>2. CASE \E i \in 0 .. drive_count - 1 : SelectDrive(i)
  BY <1>2, <1>u DEF SelectDrive
<1>3. CASE \E t \in 1 .. 2 : NewInRoot(t) \/ NewInFolder(t)
  BY <1>3, <1>u DEF NewInRoot, NewInFolder
<1>4. ASSUME NEW f \in Slots,
             ClickRow(f) \/ Delete(f) \/ DeleteInFolder(f) \/ StartRename(f) \/ Import(f) \/ Recover(f)
      PROVE  NoteInv'
  <2>1. CASE ClickRow(f) \/ DeleteInFolder(f)
    <3>1. PICK ok : OpenRow(f, ok)
      BY <2>1 DEF ClickRow, DeleteInFolder
    <3>2. dialog' = dialog
      BY <2>1 DEF ClickRow, DeleteInFolder
    <3>3. DataAt(Active.unit, file_table[f].sector) \in Texts /\ "none" \in Texts
      BY DataIsText DEF DirInv, Texts
    <3>4. current_open_file' \in Slots \cup {None} /\ note_buf' \in Texts
      BY <1>i, <3>1, <3>3 DEF OpenRow, NoteInv
    <3> QED
      BY <1>i, <3>2, <3>4 DEF NoteInv
  <2>2. CASE Delete(f) \/ StartRename(f) \/ Import(f) \/ Recover(f)
    BY <2>2, <1>u DEF Delete, StartRename, Import, Recover
  <2> QED
    BY <1>4, <2>1, <2>2
<1>5. CASE EditName \/ SaveName \/ SaveNote \/ NextDrive \/ EnterFolder
  BY <1>5, <1>u DEF EditName, SaveName, SaveNote, NextDrive, EnterFolder
<1>6. CASE TypeText \/ NewNote
  BY <1>i, <1>6 DEF TypeText, NewNote, NoteInv, Texts
<1>7. CASE SaveAs \/ SaveFile \/ MakeFolder
  BY <1>7, <1>v DEF SaveAs, SaveFile, MakeFolder
<1>8. CASE TurnPage \/ CloseDialog
  BY <1>8, <1>v DEF TurnPage, CloseDialog, Turn
<1>9. CASE UNCHANGED vars
  BY <1>9, <1>u DEF vars, noteVars
<1> QED
  BY <1>1, <1>2, <1>3, <1>4, <1>5, <1>6, <1>7, <1>8, <1>9 DEF Next

\* A failure of IMPORT at the disk it reads from is one of a real disk.
LEMMA ImportAttempt ==
  ASSUME DirInv, SaysFat(Active), NEW p, NEW o \in Attempts(p, {"read", "data", "dir"}),
         NEW ok \in Outcomes(Active.base_port)
  PROVE  [o EXCEPT !["read"] = @ /\ ok] \in Attempts(p, {"read", "data", "dir"})
<1> DEFINE steps == {"read", "data", "dir"}
           src   == Active.base_port
           q     == [o EXCEPT !["read"] = @ /\ ok]
<1>1. src \in Units
  <2>1. active_drive_idx \in Places
    BY DEF SaysFat, Active, Nothing, Drive
  <2> QED
    BY <2>1, UnitsAreNumbers DEF Active, DirInv, ListInv, FatInv
<1> HIDE DEF src
<1>2. ok \in BOOLEAN /\ (~ok => FALSE \in Outcomes(p))
  BY <1>1 DEF Outcomes, src
<1>3. o["read"] \in BOOLEAN /\ o["read"] \in Outcomes(p)
  BY AttemptFacts DEF Attempts, DirInv
<1>4. (o["read"] /\ ok) \in Outcomes(p)
  <2>1. CASE ok
    <3>1. (o["read"] /\ ok) = o["read"]
      BY <1>3, <2>1
    <3> QED
      BY <1>3, <3>1
  <2>2. CASE ~ok
    <3>1. (o["read"] /\ ok) = FALSE
      BY <2>2
    <3> QED
      BY <1>2, <2>2, <3>1
  <2> QED
    BY <2>1, <2>2
<1>5. o \in [steps -> Outcomes(p)]
  BY DEF Attempts
<1>6. q = [o EXCEPT !["read"] = o["read"] /\ ok]
  BY Zenon
<1>7. q \in [steps -> Outcomes(p)]
  BY <1>4, <1>5, <1>6, Zenon
<1> QED
  BY <1>7 DEF Attempts

LEMMA FormatCounts ==
  ASSUME DirInv, FormatDrive
  PROVE  fails' \in 0 .. MaxFails /\ shown' \in Units \cup {NoUnit}
<1> DEFINE p == Active.base_port
<1>1. PICK o \in Attempts(p, {"boot", "dir"}) : Count(p, o) /\ shown' \in {NoUnit, shown}
  BY DEF FormatDrive
<1> HIDE DEF p
<1>2. (p \in Units /\ Failed(o)) => fails < MaxFails
  BY AttemptFacts DEF DirInv
<1> QED
  BY <1>1, <1>2, CountTyped DEF DirInv, CountInv

LEMMA OpenDriveCounts ==
  ASSUME DirInv, OpenDrive
  PROVE  fails' \in 0 .. MaxFails /\ shown' \in Units \cup {NoUnit}
<1> DEFINE u == Active.unit
<1>1. PICK o \in Attempts(u, {"look", "dir"}) :
        LET good == o["look"] /\ Reachable(active_drive_idx)
            kind == IF good THEN disk[u].kind ELSE "blank"
            read == o["dir"] /\ Reachable(active_drive_idx)
        IN  /\ Count(u, o)
            /\ shown' = CASE kind = "cfs" /\ read -> u
                          [] kind \in {"ntfs", "gptother"} \/ (kind = "blank" /\ good) -> shown
                          [] OTHER -> NoUnit
  BY DEF OpenDrive
<1>2. o["dir"] => u \in Units
  BY AttemptFacts DEF DirInv
<1>3. (u \in Units /\ Failed(o)) => fails < MaxFails
  BY AttemptFacts DEF DirInv
<1>4. fails' \in 0 .. MaxFails
  BY <1>1, <1>3, CountTyped DEF DirInv
<1>5. shown' \in {shown, NoUnit} \/ (o["dir"] /\ shown' = u)
  <2> HIDE DEF u
  <2> DEFINE kind == IF o["look"] /\ Reachable(active_drive_idx) THEN disk[u].kind ELSE "blank"
             good == o["look"] /\ Reachable(active_drive_idx)
  <2>1. shown' = CASE kind = "cfs" /\ o["dir"] /\ Reachable(active_drive_idx) -> u
                   [] kind \in {"ntfs", "gptother"} \/ (kind = "blank" /\ good) -> shown
                   [] OTHER -> NoUnit
    BY <1>1
  <2> HIDE DEF kind, good
  <2> QED
    BY <2>1
<1> QED
  BY <1>2, <1>4, <1>5 DEF DirInv, CountInv

LEMMA NextDriveCounts ==
  ASSUME DirInv, NextDrive
  PROVE  fails' \in 0 .. MaxFails /\ shown' \in Units \cup {NoUnit}
<1> DEFINE u == drives[(active_drive_idx + 1) % drive_count].unit
<1>1. PICK o \in Attempts(u, {"read"}) : Count(u, o) /\ shown' = IF o["read"] THEN u ELSE NoUnit
  BY DEF NextDrive
<1> HIDE DEF u
<1>2. o["read"] => u \in Units
  BY AttemptFacts DEF DirInv
<1>3. (u \in Units /\ Failed(o)) => fails < MaxFails
  BY AttemptFacts DEF DirInv
<1> QED
  BY <1>1, <1>2, <1>3, CountTyped DEF DirInv

\* The buttons that transfer with Transfers or RowTransfers.
LEMMA ButtonCounts ==
  ASSUME DirInv, NEW t, NEW f,
         \/ NewInRoot(t) \/ MakeFolder \/ SaveFile \/ SaveName \/ SaveNote
         \/ ClickRow(f) \/ Delete(f) \/ DeleteInFolder(f) \/ Recover(f)
  PROVE  fails' \in 0 .. MaxFails /\ shown' \in Units \cup {NoUnit}
<1>1. PICK p, steps : \E o \in Attempts(p, steps) : Transfers(p, o) \/ RowTransfers(p, o)
  <2>1. CASE NewInRoot(t)
    BY <2>1 DEF NewInRoot
  <2>2. CASE MakeFolder
    BY <2>2 DEF MakeFolder
  <2>3. CASE SaveFile
    BY <2>3 DEF SaveFile
  <2>4. CASE SaveName
    BY <2>4 DEF SaveName
  <2>5. CASE SaveNote
    BY <2>5 DEF SaveNote
  <2>6. CASE ClickRow(f)
    BY <2>6 DEF ClickRow
  <2>7. CASE Delete(f)
    BY <2>7 DEF Delete, Erase
  <2>8. CASE DeleteInFolder(f)
    BY <2>8 DEF DeleteInFolder, Erase
  <2>9. CASE Recover(f)
    BY <2>9 DEF Recover
  <2> QED
    BY <2>1, <2>2, <2>3, <2>4, <2>5, <2>6, <2>7, <2>8, <2>9
<1>2. PICK o \in Attempts(p, steps) : Transfers(p, o) \/ RowTransfers(p, o)
  BY <1>1
<1> QED
  BY <1>2, TransfersTyped DEF DirInv

LEMMA ImportTyped ==
  ASSUME DirInv, NEW f, Import(f)
  PROVE  fails' \in 0 .. MaxFails /\ shown' \in Units \cup {NoUnit}
<1> DEFINE p == ImportPort
<1>1. CASE p = 0
  BY <1>1 DEF Import, DirInv, CountInv
<1>2. CASE p # 0
  <2>1. PICK o \in Attempts(p, {"read", "data", "dir"}), ok \in Outcomes(Active.base_port) :
          Transfers(p, [o EXCEPT !["read"] = @ /\ ok])
    BY <1>2 DEF Import
  <2>2. SaysFat(Active)
    BY DEF Import
  <2> DEFINE q == [o EXCEPT !["read"] = @ /\ ok]
  <2> HIDE DEF p
  <2>3. q \in Attempts(p, {"read", "data", "dir"})
    BY <2>2, ImportAttempt
  <2>4. Transfers(p, q)
    BY <2>1
  <2> HIDE DEF q
  <2> QED
    BY <2>3, <2>4, TransfersTyped DEF DirInv
<1> QED
  BY <1>1, <1>2

LEMMA StepKeepsCounts ==
  ASSUME DirInv, [Next]_vars
  PROVE  CountInv'
<1>i. CountInv /\ MaxClicks \in Nat
  BY StartAssumption DEF DirInv
<1>c. clicks' \in 0 .. MaxClicks
  <2>1. (clicks < MaxClicks /\ clicks' \in {clicks + 1, MaxClicks}) \/ clicks' = clicks
    <3>0. CASE OpenDrive
      BY <3>0 DEF OpenDrive, ClicksAfterOpen
    <3>1. CASE OpenManager \/ Ref \/ Leave \/ FormatDrive \/ Back \/ BackToRoot
      BY <3>1 DEF OpenManager, Ref, Leave, FormatDrive, Back, BackToRoot, Press
    <3>2. CASE \E i \in 0 .. drive_count - 1 : SelectDrive(i)
      BY <3>2 DEF SelectDrive, Press
    <3>3. CASE \E t \in 1 .. 2 : NewInRoot(t) \/ NewInFolder(t)
      BY <3>3 DEF NewInRoot, NewInFolder, Press
    <3>4. CASE \E f \in Slots : ClickRow(f) \/ Delete(f) \/ DeleteInFolder(f) \/ StartRename(f) \/ Import(f) \/ Recover(f)
      BY <3>4 DEF ClickRow, Delete, DeleteInFolder, StartRename, Import, Recover, Press
    <3>5. CASE EditName \/ SaveName \/ TypeText \/ NewNote \/ SaveNote \/ SaveAs
      BY <3>5 DEF EditName, SaveName, PressOnKeyboard, TypeText, NewNote, SaveNote, SaveAs, Press
    <3>6. CASE NextDrive \/ EnterFolder \/ TurnPage \/ CloseDialog \/ SaveFile \/ MakeFolder
      BY <3>6 DEF NextDrive, EnterFolder, TurnPage, CloseDialog, Turn, SaveFile, MakeFolder, PressInDialog
    <3>7. CASE UNCHANGED vars
      BY <3>7 DEF vars
    <3> QED
      BY <3>0, <3>1, <3>2, <3>3, <3>4, <3>5, <3>6, <3>7 DEF Next
  <2> QED
    BY <1>i, <2>1 DEF CountInv
<1>q. SUFFICES fails' \in 0 .. MaxFails /\ shown' \in Units \cup {NoUnit}
  BY <1>c DEF CountInv
<1>u. ASSUME fails' = fails, shown' \in {shown, NoUnit}
      PROVE  fails' \in 0 .. MaxFails /\ shown' \in Units \cup {NoUnit}
  BY <1>i, <1>u DEF CountInv
<1>1. CASE OpenManager \/ Ref \/ Leave \/ Back \/ BackToRoot
  BY <1>1, <1>u DEF OpenManager, Ref, Leave, Back, BackToRoot
<1>2. CASE OpenDrive \/ FormatDrive \/ NextDrive
  BY <1>2, OpenDriveCounts, FormatCounts, NextDriveCounts
<1>3. CASE \E i \in 0 .. drive_count - 1 : SelectDrive(i)
  BY <1>3, <1>u DEF SelectDrive
<1>4. CASE \E t \in 1 .. 2 : NewInRoot(t) \/ NewInFolder(t)
  <2>1. PICK t \in 1 .. 2 : NewInRoot(t) \/ NewInFolder(t)
    BY <1>4
  <2>2. CASE NewInFolder(t)
    BY <2>2, <1>u DEF NewInFolder
  <2> QED
    BY <2>1, <2>2, ButtonCounts
<1>5. ASSUME NEW f \in Slots,
             ClickRow(f) \/ Delete(f) \/ DeleteInFolder(f) \/ StartRename(f) \/ Import(f) \/ Recover(f)
      PROVE  fails' \in 0 .. MaxFails /\ shown' \in Units \cup {NoUnit}
  <2>1. CASE StartRename(f)
    BY <2>1, <1>u DEF StartRename
  <2> QED
    BY <1>5, <2>1, ButtonCounts, ImportTyped
<1>6. CASE EditName \/ TypeText \/ NewNote \/ SaveAs \/ EnterFolder
  BY <1>6, <1>u DEF EditName, TypeText, NewNote, SaveAs, EnterFolder
<1>7. CASE TurnPage \/ CloseDialog
  BY <1>7, <1>u DEF TurnPage, CloseDialog, Turn
<1>8. CASE SaveName \/ SaveNote \/ SaveFile \/ MakeFolder
  BY <1>8, ButtonCounts
<1>9. CASE UNCHANGED vars
  BY <1>9, <1>u DEF vars
<1> QED
  BY <1>1, <1>2, <1>3, <1>4, <1>5, <1>6, <1>7, <1>8, <1>9 DEF Next

-----------------------------------------------------------------------------
(* Start-up, and the first theorem.                                        *)

LEMMA InitHasStore ==
  ASSUME Init
  PROVE  StoreInv
<1>1. \A dir \in FirstDirs \cup {NoDirectory} : SoundDir(dir)
  BY NoDirectoryIsSound, StartAssumption DEF SoundDir
<1>2. [l \in Lbas |-> "old"] \in [Lbas -> Texts]
  BY DEF Texts
<1>3. disk \in [Units -> [kind : Kinds, dir : FirstDirs \cup {NoDirectory},
                          data : {[l \in Lbas |-> "old"]}]]
  BY DEF Init
<1>4. \A u \in Units : disk[u] \in DiskType /\ SoundDir(disk[u].dir)
  <2> TAKE u \in Units
  <2>1. disk[u] \in [kind : Kinds, dir : FirstDirs \cup {NoDirectory}, data : {[l \in Lbas |-> "old"]}]
    BY <1>3
  <2> QED
    BY <1>1, <1>2, <2>1 DEF DiskType, SoundDir
<1>5. DisksInv(disk)
  BY <1>3, <1>4 DEF DisksInv
<1>6. dir_ram = NoDirectory /\ oracle_ram = NoDirectory
  BY DEF Init
<1> QED
  BY <1>5, <1>6, NoDirectoryIsSound DEF StoreInv

LEMMA BootListTyped ==
  ASSUME \A p \in Ports : disk[p].kind \in Kinds, NEW formatted \in BOOLEAN
  PROVE  \A i \in Places : /\ BootList(formatted)[i] \in DriveType
                           /\ SaysFat(BootList(formatted)[i]) => BootList(formatted)[i].base_port \in Ports
<1> DEFINE n == Cardinality(Ports)
           Port(i) == CHOOSE p \in Ports : Cardinality({q \in Ports : q < p}) = i
           label(i) == IF formatted /\ i = 0 THEN "formatted" ELSE LabelOf(disk[Port(i)].kind)
<1> TAKE i \in Places
<1>1. n \in Nat /\ i \in Nat
  BY PortsAreFinite DEF Places
<1>2. BootList(formatted)[i] =
        IF i < n THEN Drive(2, Port(i), Port(i), label(i))
        ELSE IF i = n /\ Sticks # {}
        THEN Drive(3, CHOOSE s \in Sticks : TRUE, StickPort, "none") ELSE Nothing
  BY DEF BootList
<1>3. CASE i < n
  <2> DEFINE p == Port(i)
             l == label(i)
  <2>1. p \in Ports
    BY <1>1, <1>3, PortOfRank
  <2> HIDE DEF p
  <2>2. p \in Units /\ p \in Nat
    BY <2>1, UnitsAreNumbers
  <2>3. LabelOf(disk[p].kind) \in Labels
    BY <2>1 DEF LabelOf, Labels, Kinds, Gpt
  <2>4. l \in Labels
    BY <2>3 DEF Labels, p
  <2>5. BootList(formatted)[i] = Drive(2, p, p, l)
    BY <1>2, <1>3 DEF p
  <2> HIDE DEF l
  <2>6. Drive(2, p, p, l) \in DriveType /\ Drive(2, p, p, l).base_port = p
    BY <2>2, <2>4, DriveTyped
  <2> QED
    BY <2>1, <2>5, <2>6
<1>4. CASE ~(i < n) /\ i = n /\ Sticks # {}
  <2> DEFINE s == CHOOSE s \in Sticks : TRUE
  <2>1. s \in Units /\ StickPort \in Nat /\ "none" \in Labels
    BY <1>4, UnitsAssumption DEF Units, Labels
  <2>2. BootList(formatted)[i] = Drive(3, s, StickPort, "none")
    BY <1>2, <1>4
  <2> HIDE DEF s
  <2>3. /\ Drive(3, s, StickPort, "none") \in DriveType
        /\ Drive(3, s, StickPort, "none").label = "none"
    BY <2>1, DriveTyped
  <2> QED
    BY <2>2, <2>3 DEF SaysFat
<1>5. CASE ~(i < n) /\ ~(i = n /\ Sticks # {})
  <2>1. BootList(formatted)[i] = Nothing
    BY <1>2, <1>5
  <2>2. Nothing \in DriveType /\ Nothing.label = "none"
    BY DEF Nothing, Drive, DriveType, Labels
  <2> QED
    BY <2>1, <2>2 DEF SaysFat
<1> QED
  BY <1>3, <1>4, <1>5

LEMMA InitHasList ==
  ASSUME Init
  PROVE  ListInv
<1>1. PICK formatted \in {FALSE, disk[First].kind = "cfs"} : drives = BootList(formatted)
  BY DEF Init
<1>2. formatted \in BOOLEAN
  BY <1>1
<1>3. \A p \in Ports : disk[p].kind \in Kinds
  BY UnitsAreNumbers DEF Init
<1>4. \A i \in Places : drives[i] \in DriveType /\ (SaysFat(drives[i]) => drives[i].base_port \in Ports)
  BY <1>1, <1>2, <1>3, BootListTyped
<1>5. DOMAIN drives = Places /\ drives = [i \in Places |-> drives[i]]
  BY <1>1 DEF BootList
<1>6. drive_count \in 0 .. MaxDrives
  <2>1. Cardinality(Ports) \in Nat
    BY PortsAreFinite
  <2>2. Cardinality(Sticks) \in Nat
    <3>1. \A s \in Sticks : s \in Nat
      BY UnitsAssumption
    <3>2. IsFiniteSet(Sticks)
      BY UnitsAssumption
    <3> QED
      BY <3>2, FS_CardinalityType
  <2>3. Cardinality(Ports) + Cardinality(Sticks) \in Nat
    BY <2>1, <2>2
  <2> QED
    BY <2>3, CappedTyped DEF Init
<1>7. active_drive_idx = -1
  BY DEF Init
<1> QED
  BY <1>4, <1>5, <1>6, <1>7 DEF ListInv, FatInv, MaxDrives

LEMMA InitHasView ==
  ASSUME Init
  PROVE  RowsType /\ ViewInv /\ NoteInv /\ CountInv
<1>1. RowsType
  <2>1. "" \in Names
    BY Zenon DEF Names
  <2>2. \A n \in Names : [exists |-> FALSE, is_folder |-> FALSE, name |-> n,
                          sector |-> 0, parent |-> Root] \in Rows
    BY DEF Rows
  <2>3. NoFile \in Rows
    BY <2>1, <2>2, Zenon DEF NoFile
  <2>4. file_table = FirstRows
    BY DEF Init
  <2>5. "fixed" \in Names
    BY Zenon DEF Names
  <2>6. Label(NoFile, "fixed") \in Rows
    BY <2>3, <2>5 DEF Label, Rows
  <2>7. 0 \in Slots
    BY SlotsAssumption
  <2>8. [NoFile EXCEPT !.parent = 0] \in Rows
    BY <2>3, <2>7 DEF Rows
  <2>9. \A i \in Slots : FirstRows[i] \in Rows
    BY <2>3, <2>6, <2>8 DEF FirstRows
  <2> QED
    BY <2>4, <2>9 DEF RowsType, FirstRows
<1>2. ViewInv
  <2>1. /\ mft_known = FALSE /\ is_ntfs = FALSE /\ dsk_view = 0
        /\ current_folder_view_idx = -1 /\ current_path_id = Root
        /\ file_selection = None /\ renaming_file_idx = None
    BY DEF Init
  <2>2. mft_known \in BOOLEAN /\ is_ntfs \in BOOLEAN
    BY <2>1
  <2>3. dsk_view \in 0 .. 2 /\ (dsk_view = 2 => current_folder_view_idx \in Slots)
    BY <2>1
  <2>4. /\ current_folder_view_idx \in Slots \cup {-1} /\ current_path_id \in Slots \cup {Root}
        /\ file_selection \in Slots \cup {None} /\ renaming_file_idx \in Slots \cup {None}
    BY <2>1, Zenon
  <2> QED
    BY <2>2, <2>3, <2>4 DEF ViewInv
<1>3. NoteInv
  BY DEF Init, NoteInv, Texts
<1>4. CountInv
  BY StartAssumption, LbaAssumption DEF Init, CountInv
<1> QED
  BY <1>1, <1>2, <1>3, <1>4

LEMMA DirInvariant == Spec => []DirInv
<1>1. Init => DirInv
  BY InitHasStore, InitHasList, InitHasView DEF DirInv
<1>2. DirInv /\ [Next]_vars => DirInv'
  BY StepKeepsStore, StepKeepsList, StepKeepsRows, StepKeepsView, StepKeepsNote, StepKeepsCounts
     DEF DirInv
<1> QED
  BY <1>1, <1>2, PTL DEF Spec

(* Lists, rows and directories keep their types, and a living entry has    *)
(* the data sector of its slot if it is a file and none if it is a folder, *)
(* whichever of OS1's buttons made, deleted, renamed or recovered it.      *)
THEOREM EntriesOwnTheirSectors == Spec => []DirectoriesAreSound
<1>1. DirInv => DirectoriesAreSound
  <2> SUFFICES ASSUME DirInv PROVE DirectoriesAreSound
    OBVIOUS
  <2>1. TypeOK
    <3>1. disk \in [Units -> DiskType] /\ dir_ram \in [Slots -> Entries] /\ oracle_ram \in [Slots -> Entries]
      BY DEF DirInv, StoreInv, DisksInv, SoundDir
    <3> QED
      BY <3>1 DEF DirInv, ListInv, RowsType, ViewInv, NoteInv, CountInv, TypeOK, DiskType, DriveType
  <2>2. SlotOwnsItsSector
    <3> SUFFICES ASSUME NEW u \in Units, NEW i \in Slots, disk[u].dir[i].type # 0
                 PROVE  disk[u].dir[i].lba = IF disk[u].dir[i].type = 1 THEN Sector(i) ELSE 0
      BY DEF SlotOwnsItsSector
    <3> DEFINE dir == disk[u].dir
    <3>1. SoundDir(dir)
      BY DEF DirInv, StoreInv, DisksInv
    <3> HIDE DEF dir
    <3>2. dir[i].type \in 0 .. 2 /\ (dir[i].type = 1 => dir[i].lba = Sector(i)) /\ (dir[i].type = 2 => dir[i].lba = 0)
      BY <3>1, SoundEntry
    <3> QED
      BY <3>2 DEF dir
  <2> QED
    BY <2>1, <2>2 DEF DirectoriesAreSound
<1> QED
  BY <1>1, DirInvariant, PTL

-----------------------------------------------------------------------------
(* What a click whose transfers work changes.                              *)

\* One entry at most: a living one is only renamed or given free.
OneEntry(old, new) ==
  LET changed == {i \in Slots : old[i] # new[i]}
  IN  new = NoDirectory \/ (Cardinality(changed) <= 1 /\ \A i \in changed :
        old[i].type # 0 => /\ new[i].type \in {0, old[i].type}
                           /\ new[i].lba = old[i].lba)
OneEntryStep == \A u \in Units : OneEntry(disk[u].dir, disk'[u].dir)
LivingStep ==
  \A u \in Units, i \in Slots :
    disk[u].dir[i].type = 1 =>
      disk'[u].data[disk[u].dir[i].lba] = disk[u].data[disk[u].dir[i].lba]

LEMMA NothingIsOneEntry == \A dir : OneEntry(dir, dir)
<1> TAKE dir
<1>1. {i \in Slots : dir[i] # dir[i]} = {}
  OBVIOUS
<1>2. Cardinality({}) <= 1
  BY FS_EmptySet
<1> QED
  BY <1>1, <1>2 DEF OneEntry

LEMMA ChangeIsOneEntry ==
  ASSUME NEW dir \in [Slots -> Entries], NEW i \in Slots, NEW e,
         dir[i].type # 0 => e.type \in {0, dir[i].type} /\ e.lba = dir[i].lba
  PROVE  OneEntry(dir, [dir EXCEPT ![i] = e])
<1> DEFINE new     == [dir EXCEPT ![i] = e]
           changed == {j \in Slots : dir[j] # new[j]}
<1>1. \A j \in Slots : new[j] = IF j = i THEN e ELSE dir[j]
  OBVIOUS
<1>2. changed \in SUBSET {i}
  BY <1>1
<1>3. Cardinality(changed) <= 1
  <2>1. IsFiniteSet({i}) /\ Cardinality({i}) = 1
    BY FS_Singleton
  <2>2. \A T \in SUBSET {i} : Cardinality(T) <= Cardinality({i})
    BY <2>1, FS_Subset
  <2> HIDE DEF changed
  <2> QED
    BY <1>2, <2>1, <2>2
<1>4. \A j \in changed : dir[j].type # 0 => new[j].type \in {0, dir[j].type} /\ new[j].lba = dir[j].lba
  BY <1>1, <1>2
<1> QED
  BY <1>3, <1>4 DEF OneEntry

LEMMA WrittenDir ==
  ASSUME NEW d \in [Units -> DiskType], NEW p, NEW dir, NEW ok \in BOOLEAN, ok => p \in Units
  PROVE  \A u \in Units : /\ WriteDir(d, p, dir, ok)[u].dir = IF ok /\ u = p THEN dir ELSE d[u].dir
                          /\ WriteDir(d, p, dir, ok)[u].data = d[u].data
<1>1. CASE ok
  BY <1>1 DEF WriteDir, DiskType
<1>2. CASE ~ok
  BY <1>2 DEF WriteDir
<1> QED
  BY <1>1, <1>2

\* A button that changes the entry i of the directory it read from p.
LEMMA OneWrite ==
  ASSUME DirInv, NEW p, NEW d \in [Units -> DiskType], \A u \in Units : d[u].dir = disk[u].dir,
         NEW dir, p \in Units => dir = disk[p].dir, NEW i \in Slots, NEW e,
         dir[i].type # 0 => e.type \in {0, dir[i].type} /\ e.lba = dir[i].lba,
         NEW ok \in BOOLEAN, ok => p \in Units,
         disk' = WriteDir(d, p, [dir EXCEPT ![i] = e], ok)
  PROVE  OneEntryStep
<1> SUFFICES ASSUME NEW u \in Units PROVE OneEntry(disk[u].dir, disk'[u].dir)
  BY DEF OneEntryStep
<1>1. disk'[u].dir = IF ok /\ u = p THEN [dir EXCEPT ![i] = e] ELSE disk[u].dir
  BY WrittenDir
<1>2. CASE ok /\ u = p
  <2>1. dir = disk[u].dir /\ dir \in [Slots -> Entries]
    BY <1>2 DEF DirInv, StoreInv, DisksInv, SoundDir
  <2>2. OneEntry(dir, [dir EXCEPT ![i] = e])
    BY <2>1, ChangeIsOneEntry
  <2>3. disk'[u].dir = [dir EXCEPT ![i] = e]
    BY <1>1, <1>2
  <2> HIDE DEF OneEntry
  <2> QED
    BY <2>1, <2>2, <2>3
<1>3. CASE ~(ok /\ u = p)
  BY <1>1, <1>3, NothingIsOneEntry
<1> QED
  BY <1>2, <1>3

LEMMA DirsUntouched ==
  ASSUME \A u \in Units : disk'[u].dir = disk[u].dir
  PROVE  OneEntryStep
BY NothingIsOneEntry DEF OneEntryStep

LEMMA DiskUntouched ==
  ASSUME UNCHANGED disk
  PROVE  OneEntryStep /\ LivingStep
BY NothingIsOneEntry DEF OneEntryStep, LivingStep

\* A new file takes the sector of a slot that is free, where no file is.
LEMMA FreeSectorHasNoFile ==
  ASSUME DirInv, NEW u \in Units, NEW slot \in Slots, disk[u].dir[slot].type = 0
  PROVE  \A i \in Slots : disk[u].dir[i].type = 1 =>
           disk[u].dir[i].lba \in Lbas /\ disk[u].dir[i].lba # DataLba(slot)
<1> TAKE i \in Slots
<1> DEFINE dir == disk[u].dir
<1>1. SoundDir(dir)
  BY DEF DirInv, StoreInv, DisksInv
<1> HIDE DEF dir
<1>2. dir[i].type = 1 => dir[i].lba = Sector(i)
  BY <1>1, SoundEntry
<1> QED
  BY <1>2, SectorsAreDistinct DEF DataLba, dir

LEMMA OneDirWrite ==
  ASSUME DirInv, NEW p, NEW dir, NEW ok \in BOOLEAN, ok => p \in Units,
         disk' = WriteDir(disk, p, dir, ok)
  PROVE  LivingStep
<1>1. disk \in [Units -> DiskType]
  BY DEF DirInv, StoreInv, DisksInv
<1>2. \A u \in Units : disk'[u].data = disk[u].data
  BY <1>1, WrittenDir
<1> QED
  BY <1>2 DEF LivingStep

\* The directory that a button read, if none of its transfers failed.
LEMMA FetchedIsDisks ==
  ASSUME DirInv, NEW p, NEW steps, NEW o \in Attempts(p, steps), "read" \in steps,
         Transfers(p, o) \/ RowTransfers(p, o), fails' = fails
  PROVE  p \in Units => o["read"] /\ Fetched(p, o["read"]) = disk[p].dir
<1>1. p \in Units => ~Failed(o)
  BY TransfersTyped DEF DirInv
<1>2. p \in Units => o["read"]
  BY <1>1, AttemptFacts DEF DirInv
<1> QED
  BY <1>2 DEF Fetched

LEMMA CreateChangesOne ==
  ASSUME DirInv, NEW p, NEW t, NEW n, NEW o \in Attempts(p, {"read", "dir"}),
         Transfers(p, o) \/ RowTransfers(p, o), fails' = fails, Create(p, o, t, n)
  PROVE  OneEntryStep /\ LivingStep
<1> DEFINE dir  == Fetched(p, o["read"])
           slot == FreeSlot(dir)
           e    == Entry(t, n, IF t = 1 THEN Sector(slot) ELSE 0)
<1>1. o["dir"] \in BOOLEAN /\ (o["dir"] => p \in Units)
  BY AttemptFacts DEF DirInv
<1>2. p \in Units => dir = disk[p].dir
  BY FetchedIsDisks
<1>3. slot # None => disk' = WriteDir(disk, p, [dir EXCEPT ![slot] = e], o["dir"])
  BY DEF Create, Created
<1>4. slot = None => disk' = disk
  BY DEF Create
<1>5. slot # None => slot \in Slots /\ dir[slot].type = 0
  BY FreeSlotIsFree
<1>6. disk \in [Units -> DiskType]
  BY DEF DirInv, StoreInv, DisksInv
<1> HIDE DEF dir, slot, e
<1>7. CASE slot = None
  BY <1>4, <1>7, DiskUntouched
<1>8. CASE slot # None
  <2>1. OneEntryStep
    BY ZenonT(60), <1>1, <1>2, <1>3, <1>5, <1>6, <1>8, OneWrite
  <2>2. LivingStep
    BY <1>1, <1>3, <1>8, OneDirWrite
  <2> QED
    BY <2>1, <2>2
<1> QED
  BY <1>7, <1>8

LEMMA EraseChangesOne ==
  ASSUME DirInv, NEW f \in Slots, NEW p, NEW steps, {"read", "dir"} \subseteq steps,
         NEW o \in Attempts(p, steps), fails' = fails, Erase(f, p, o)
  PROVE  OneEntryStep /\ LivingStep
<1> DEFINE dir == Fetched(p, o["read"])
           e   == [dir[f] EXCEPT !.type = 0]
<1>1. /\ o["read"] \in BOOLEAN /\ o["dir"] \in BOOLEAN
      /\ o["dir"] => p \in Units
      /\ o["read"] => p \in Units
  BY AttemptFacts DEF DirInv
<1>2. p \in Units => dir = disk[p].dir
  BY FetchedIsDisks DEF Erase
<1>3. SoundDir(dir)
  BY <1>1, FetchedIsSound DEF DirInv
<1>4. disk' = WriteDir(disk, p, Deleted(dir, f), o["dir"])
  BY DEF Erase
<1>5. disk \in [Units -> DiskType]
  BY DEF DirInv, StoreInv, DisksInv
<1> HIDE DEF dir
<1>6. Deleted(dir, f) = [dir EXCEPT ![f] = e]
  BY <1>3 DEF Deleted, SoundDir
<1>7. e.type = 0 /\ e.lba = dir[f].lba
  BY <1>3, SoundEntry DEF Entries
<1> HIDE DEF e
<1>t. e.type \in {0, dir[f].type}
  BY <1>7
<1>w. disk' = WriteDir(disk, p, [dir EXCEPT ![f] = e], o["dir"])
  BY <1>4, <1>6
<1>8. OneEntryStep
  BY <1>1, <1>2, <1>5, <1>7, <1>t, <1>w, OneWrite
<1>9. LivingStep
  BY <1>1, <1>4, OneDirWrite
<1> QED
  BY <1>8, <1>9

LEMMA SaveNameChangesOne ==
  ASSUME DirInv, SaveName, fails' = fails
  PROVE  OneEntryStep /\ LivingStep
<1>p. PICK p \in PortsAt(active_drive_idx) :
        \E o \in Attempts(p, {"read", "dir"}) :
          /\ RowTransfers(p, o)
          /\ disk' = WriteDir(disk, p, Renamed(Fetched(p, o["read"]), renaming_file_idx), o["dir"])
  BY DEF SaveName
<1>1. PICK o \in Attempts(p, {"read", "dir"}) :
        /\ RowTransfers(p, o)
        /\ disk' = WriteDir(disk, p, Renamed(Fetched(p, o["read"]), renaming_file_idx), o["dir"])
  BY <1>p
<1> DEFINE g   == renaming_file_idx
           dir == Fetched(p, o["read"])
           e   == [dir[g] EXCEPT !.name = file_table[g].name]
<1>2. /\ o["read"] \in BOOLEAN /\ o["dir"] \in BOOLEAN
      /\ o["dir"] => p \in Units
      /\ o["read"] => p \in Units
  BY AttemptFacts DEF DirInv
<1>3. g \in Slots
  BY DEF SaveName, PressOnKeyboard, DirInv, ViewInv
<1>4. p \in Units => dir = disk[p].dir
  BY <1>1, FetchedIsDisks
<1>5. SoundDir(dir)
  BY <1>2, FetchedIsSound DEF DirInv
<1>6. disk \in [Units -> DiskType]
  BY DEF DirInv, StoreInv, DisksInv
<1>7. disk' = WriteDir(disk, p, Renamed(dir, g), o["dir"])
  BY <1>1
<1> HIDE DEF dir
<1>8. Renamed(dir, g) = [dir EXCEPT ![g] = e]
  BY <1>3, <1>5 DEF Renamed, SoundDir
<1>9. e.type \in {0, dir[g].type} /\ e.lba = dir[g].lba
  BY <1>3, <1>5, SoundEntry DEF Entries
<1> HIDE DEF e, g
<1>w. disk' = WriteDir(disk, p, [dir EXCEPT ![g] = e], o["dir"])
  BY <1>7, <1>8
<1>10. OneEntryStep
  BY <1>2, <1>3, <1>4, <1>6, <1>9, <1>w, OneWrite
<1>11. LivingStep
  BY <1>2, <1>7, OneDirWrite
<1> QED
  BY <1>10, <1>11

LEMMA RecoverChangesOne ==
  ASSUME DirInv, NEW i \in Slots, Recover(i), fails' = fails
  PROVE  OneEntryStep /\ LivingStep
<1> DEFINE p == Active.base_port
<1>1. PICK o \in Attempts(p, {"read", "dir"}) :
        LET seen == IF o["read"] THEN disk[p].dir ELSE oracle_ram
        IN  /\ i \in Ghosts(seen) /\ Transfers(p, o)
            /\ disk' = WriteDir(disk, p, Recovered(seen, i), o["dir"])
  BY DEF Recover
<1> DEFINE seen == IF o["read"] THEN disk[p].dir ELSE oracle_ram
           e    == [seen[i] EXCEPT !.type = IF seen[i].lba > 0 THEN 1 ELSE 2]
<1>2. /\ o["read"] \in BOOLEAN /\ o["dir"] \in BOOLEAN
      /\ o["dir"] => p \in Units
      /\ o["read"] => p \in Units
  BY AttemptFacts DEF DirInv
<1> HIDE DEF p
<1>3. p \in Units => seen = disk[p].dir
  BY <1>1, FetchedIsDisks
<1>4. SoundDir(seen)
  BY <1>2 DEF DirInv, StoreInv, DisksInv
<1>5. seen[i].type = 0
  BY <1>1 DEF Ghosts
<1>6. disk \in [Units -> DiskType]
  BY DEF DirInv, StoreInv, DisksInv
<1>7. disk' = WriteDir(disk, p, Recovered(seen, i), o["dir"])
  BY <1>1
<1> HIDE DEF seen
<1>8. Recovered(seen, i) = [seen EXCEPT ![i] = e]
  BY <1>4 DEF Recovered, SoundDir
<1> HIDE DEF e
<1>w. disk' = WriteDir(disk, p, [seen EXCEPT ![i] = e], o["dir"])
  BY <1>7, <1>8
<1>10. OneEntryStep
  BY <1>2, <1>3, <1>5, <1>6, <1>w, OneWrite
<1>11. LivingStep
  BY <1>2, <1>7, OneDirWrite
<1> QED
  BY <1>10, <1>11

\* A new file: its text, and then its entry at a slot that was free.
LEMMA NewFileChangesOne ==
  ASSUME DirInv, NEW p, NEW dir, p \in Units => dir = disk[p].dir,
         NEW slot \in Slots, dir[slot].type = 0, NEW n, NEW text \in Texts,
         NEW o \in Attempts(p, {"read", "data", "dir"}),
         disk' = WriteDir(WriteData(disk, p, DataLba(slot), text, o["data"]), p,
                          Created(dir, slot, 1, n), o["dir"])
  PROVE  OneEntryStep /\ LivingStep
<1> DEFINE lba == DataLba(slot)
<1>0. /\ o["data"] \in BOOLEAN /\ o["dir"] \in BOOLEAN
      /\ o["data"] => p \in Units
      /\ o["dir"] => p \in Units
  BY AttemptFacts DEF DirInv
<1>1. disk \in [Units -> DiskType]
  BY DEF DirInv, StoreInv, DisksInv
<1>d. PICK d : d = WriteData(disk, p, lba, text, o["data"])
  OBVIOUS
<1>e. PICK e : e = Entry(1, n, Sector(slot))
  OBVIOUS
<1> HIDE DEF lba
<1>2. /\ d \in [Units -> DiskType]
      /\ \A u \in Units : d[u].dir = disk[u].dir
      /\ \A u \in Units : \A l \in Lbas : (u # p \/ l # lba) => d[u].data[l] = disk[u].data[l]
  <2>1. CASE o["data"] /\ lba \in Lbas
    <3>1. d = [disk EXCEPT ![p].data[lba] = text]
      BY <1>d, <2>1 DEF WriteData
    <3>2. d \in [Units -> DiskType]
      BY <1>0, <1>1, <2>1, <3>1 DEF DiskType
    <3>3. \A u \in Units : d[u].dir = disk[u].dir
      BY <1>0, <1>1, <2>1, <3>1 DEF DiskType
    <3>4. \A u \in Units : \A l \in Lbas : (u # p \/ l # lba) => d[u].data[l] = disk[u].data[l]
      BY <1>0, <1>1, <2>1, <3>1 DEF DiskType
    <3> QED
      BY <3>2, <3>3, <3>4
  <2>2. CASE ~(o["data"] /\ lba \in Lbas)
    <3>1. d = disk
      BY <1>d, <2>2 DEF WriteData
    <3> QED
      BY <1>1, <3>1
  <2> QED
    BY <2>1, <2>2
<1>3. Created(dir, slot, 1, n) = [dir EXCEPT ![slot] = e]
  BY <1>e DEF Created
<1>4. disk' = WriteDir(d, p, [dir EXCEPT ![slot] = e], o["dir"])
  BY <1>d, <1>3 DEF lba
<1>w. \A u \in Units : /\ disk'[u].dir = IF o["dir"] /\ u = p THEN [dir EXCEPT ![slot] = e] ELSE d[u].dir
                       /\ disk'[u].data = d[u].data
  BY <1>0, <1>2, <1>4, WrittenDir
<1>5. OneEntryStep
  <2> SUFFICES ASSUME NEW u \in Units PROVE OneEntry(disk[u].dir, disk'[u].dir)
    BY DEF OneEntryStep
  <2>1. CASE o["dir"] /\ u = p
    <3>1. dir = disk[u].dir /\ dir \in [Slots -> Entries]
      BY <2>1 DEF DirInv, StoreInv, DisksInv, SoundDir
    <3>2. OneEntry(dir, [dir EXCEPT ![slot] = e])
      BY <3>1, ChangeIsOneEntry
    <3>3. disk'[u].dir = [dir EXCEPT ![slot] = e]
      BY <1>w, <2>1
    <3> HIDE DEF OneEntry
    <3> QED
      BY <3>1, <3>2, <3>3
  <2>2. CASE ~(o["dir"] /\ u = p)
    <3>1. disk'[u].dir = disk[u].dir
      BY <1>w, <1>2, <2>2
    <3> QED
      BY <3>1, NothingIsOneEntry
  <2> QED
    BY <2>1, <2>2
<1>6. \A u \in Units : disk'[u].data = d[u].data
  BY <1>w
<1>7. LivingStep
  <2> SUFFICES ASSUME NEW u \in Units, NEW i \in Slots, disk[u].dir[i].type = 1
               PROVE  disk'[u].data[disk[u].dir[i].lba] = disk[u].data[disk[u].dir[i].lba]
    BY DEF LivingStep
  <2> DEFINE l == disk[u].dir[i].lba
  <2>1. l \in Lbas
    <3> DEFINE at == disk[u].dir
    <3>1. SoundDir(at)
      BY DEF DirInv, StoreInv, DisksInv
    <3> HIDE DEF at
    <3>2. at[i].type = 1 => at[i].lba = Sector(i)
      BY <3>1, SoundEntry
    <3> QED
      BY <3>2, SectorsAreDistinct DEF at
  <2>2. u = p => l # lba
    BY FreeSectorHasNoFile DEF lba
  <2> HIDE DEF l
  <2>3. disk'[u].data[l] = disk[u].data[l]
    BY <1>2, <1>6, <2>1, <2>2
  <2> QED
    BY <2>3 DEF l
<1> QED
  BY <1>5, <1>7

\* FORMAT leaves every directory as it was or empty, and the data alone.
LEMMA FormatChangesOne ==
  ASSUME DirInv, FormatDrive
  PROVE  OneEntryStep /\ LivingStep
<1> DEFINE p == Active.base_port
<1>1. PICK o \in Attempts(p, {"boot", "dir"}) :
        disk' = LET d == IF o["boot"] THEN [disk EXCEPT ![p].kind = "cfs"] ELSE disk
                IN  WriteDir(d, p, NoDirectory, o["dir"])
  BY DEF FormatDrive
<1>2. /\ o["boot"] \in BOOLEAN /\ o["dir"] \in BOOLEAN
      /\ o["boot"] => p \in Units
      /\ o["dir"] => p \in Units
  BY AttemptFacts DEF DirInv
<1>3. disk \in [Units -> DiskType]
  BY DEF DirInv, StoreInv, DisksInv
<1> HIDE DEF p
<1>d. PICK d : d = IF o["boot"] THEN [disk EXCEPT ![p].kind = "cfs"] ELSE disk
  OBVIOUS
<1>4. /\ d \in [Units -> DiskType]
      /\ \A u \in Units : d[u].dir = disk[u].dir /\ d[u].data = disk[u].data
  <2>1. CASE o["boot"]
    <3>1. "cfs" \in Kinds
      BY Zenon DEF Kinds
    <3>2. d = [disk EXCEPT ![p].kind = "cfs"]
      BY <1>d, <2>1
    <3> QED
      BY <1>2, <1>3, <2>1, <3>1, <3>2 DEF DiskType
  <2>2. CASE ~o["boot"]
    BY <1>3, <1>d, <2>2
  <2> QED
    BY <1>2, <2>1, <2>2
<1>5. disk' = WriteDir(d, p, NoDirectory, o["dir"])
  BY <1>1, <1>d
<1>6. \A u \in Units : /\ disk'[u].dir = IF o["dir"] /\ u = p THEN NoDirectory ELSE d[u].dir
                       /\ disk'[u].data = d[u].data
  BY <1>2, <1>4, <1>5, WrittenDir
<1>7. OneEntryStep
  <2> SUFFICES ASSUME NEW u \in Units PROVE OneEntry(disk[u].dir, disk'[u].dir)
    BY DEF OneEntryStep
  <2>1. CASE disk'[u].dir = NoDirectory
    BY <2>1 DEF OneEntry
  <2>2. CASE disk'[u].dir = disk[u].dir
    BY <2>2, NothingIsOneEntry
  <2> QED
    BY <1>4, <1>6, <2>1, <2>2
<1>8. LivingStep
  BY <1>4, <1>6 DEF LivingStep
<1> QED
  BY <1>7, <1>8

LEMMA SaveFileChangesOne ==
  ASSUME DirInv, SaveFile, fails' = fails
  PROVE  OneEntryStep /\ LivingStep
<1>p. PICK p \in PortsAt(active_drive_idx) : \E o \in Attempts(p, {"read", "data", "dir"}) :
        LET dir  == Fetched(p, o["read"])
            slot == FreeSlot(dir)
            new  == IF slot = None THEN dir ELSE Created(dir, slot, 1, "typed")
        IN  /\ RowTransfers(p, o)
            /\ disk' = IF slot = None THEN disk
                       ELSE WriteDir(WriteData(disk, p, DataLba(slot), note_buf, o["data"]),
                                     p, new, o["dir"])
  BY DEF SaveFile
<1>1. PICK o \in Attempts(p, {"read", "data", "dir"}) :
        LET dir  == Fetched(p, o["read"])
            slot == FreeSlot(dir)
            new  == IF slot = None THEN dir ELSE Created(dir, slot, 1, "typed")
        IN  /\ RowTransfers(p, o)
            /\ disk' = IF slot = None THEN disk
                       ELSE WriteDir(WriteData(disk, p, DataLba(slot), note_buf, o["data"]),
                                     p, new, o["dir"])
  BY <1>p
<1> DEFINE dir  == Fetched(p, o["read"])
           slot == FreeSlot(dir)
<1>2. p \in Units => dir = disk[p].dir
  BY <1>1, FetchedIsDisks
<1>3. slot # None => slot \in Slots /\ dir[slot].type = 0
  BY FreeSlotIsFree
<1>4. slot = None => disk' = disk
  BY <1>1
<1>5. slot # None =>
        disk' = WriteDir(WriteData(disk, p, DataLba(slot), note_buf, o["data"]), p,
                         Created(dir, slot, 1, "typed"), o["dir"])
  BY <1>1
<1>6. note_buf \in Texts
  BY DEF DirInv, NoteInv
<1> HIDE DEF dir, slot
<1>7. CASE slot = None
  BY <1>4, <1>7, DiskUntouched
<1>8. CASE slot # None
  BY <1>2, <1>3, <1>5, <1>6, <1>8, NewFileChangesOne
<1> QED
  BY <1>7, <1>8

LEMMA ImportChangesOne ==
  ASSUME DirInv, NEW f \in Slots, Import(f), fails' = fails
  PROVE  OneEntryStep /\ LivingStep
<1> DEFINE p == ImportPort
           src == Active.base_port
<1>1. CASE p = 0
  <2>1. disk' = disk
    BY <1>1 DEF Import
  <2> QED
    BY <2>1, DiskUntouched
<1>2. CASE p # 0
  <2>1. PICK o \in Attempts(p, {"read", "data", "dir"}), ok \in Outcomes(src) :
          LET slot == FreeSlot(Fetched(p, o["read"]))
              text == IF ok THEN DataAt(src, file_table[f].sector) ELSE "none"
              new  == Created(Fetched(p, o["read"]), slot, 1, file_table[f].name)
          IN  /\ Transfers(p, [o EXCEPT !["read"] = @ /\ ok])
              /\ disk' = IF slot = None THEN disk
                         ELSE WriteDir(WriteData(disk, p, DataLba(slot), text, o["data"]),
                                       p, new, o["dir"])
    BY <1>2 DEF Import
  <2> DEFINE dir  == Fetched(p, o["read"])
             slot == FreeSlot(dir)
             text == IF ok THEN DataAt(src, file_table[f].sector) ELSE "none"
             q    == [o EXCEPT !["read"] = @ /\ ok]
  <2>s. SaysFat(Active)
    BY DEF Import
  <2>q. q \in Attempts(p, {"read", "data", "dir"})
    BY <2>s, ImportAttempt
  <2>t. Transfers(p, q)
    BY <2>1
  <2>2. p \in Units => o["read"]
    <3>1. p \in Units => ~Failed(q)
      <4> HIDE DEF q, p
      <4> QED
        BY <2>q, <2>t, TransfersTyped DEF DirInv
    <3>2. p \in Units => q["read"]
      <4> HIDE DEF q, p
      <4> QED
        BY <2>q, <3>1, AttemptFacts DEF DirInv
    <3>3. q["read"] = (o["read"] /\ ok)
      BY DEF Attempts
    <3> QED
      BY <3>2, <3>3
  <2>3. p \in Units => dir = disk[p].dir
    BY <2>2 DEF Fetched
  <2>4. slot # None => slot \in Slots /\ dir[slot].type = 0
    BY FreeSlotIsFree
  <2>5. text \in Texts
    BY DataIsText DEF DirInv, Texts
  <2>6. slot = None => disk' = disk
    BY <2>1
  <2>7. slot # None =>
          disk' = WriteDir(WriteData(disk, p, DataLba(slot), text, o["data"]), p,
                           Created(dir, slot, 1, file_table[f].name), o["dir"])
    BY <2>1
  <2> HIDE DEF dir, slot, text, p
  <2>8. CASE slot = None
    BY <2>6, <2>8, DiskUntouched
  <2>9. CASE slot # None
    BY <2>3, <2>4, <2>5, <2>7, <2>9, NewFileChangesOne
  <2> QED
    BY <2>8, <2>9
<1> QED
  BY <1>1, <1>2

\* SAVE of the notepad writes data and no directory.
LEMMA SaveNoteChangesOne ==
  ASSUME DirInv, SaveNote
  PROVE  OneEntryStep
<1>1. PICK p \in PortsAt(active_drive_idx) : \E o \in Attempts(p, {"write"}) :
        disk' = WriteData(disk, p, file_table[current_open_file].sector, note_buf, o["write"])
  BY DEF SaveNote
<1>2. PICK o \in Attempts(p, {"write"}) :
        disk' = WriteData(disk, p, file_table[current_open_file].sector, note_buf, o["write"])
  BY <1>1
<1>3. disk \in [Units -> DiskType]
  BY DEF DirInv, StoreInv, DisksInv
<1> DEFINE lba == file_table[current_open_file].sector
<1>4. disk' = WriteData(disk, p, lba, note_buf, o["write"])
  BY <1>2
<1>5. o["write"] \in BOOLEAN
  BY AttemptFacts DEF DirInv
<1> HIDE DEF lba
<1>6. \A u \in Units : disk'[u].dir = disk[u].dir
  <2>1. CASE o["write"] /\ lba \in Lbas
    <3>1. disk' = [disk EXCEPT ![p].data[lba] = note_buf]
      BY <1>4, <2>1 DEF WriteData
    <3> QED
      BY <1>3, <3>1 DEF DiskType
  <2>2. CASE ~(o["write"] /\ lba \in Lbas)
    BY <1>4, <2>2 DEF WriteData
  <2> QED
    BY <2>1, <2>2
<1> QED
  BY <1>6, DirsUntouched

LEMMA StepChangesOne ==
  ASSUME DirInv, [Next]_vars, fails' = fails
  PROVE  OneEntryStep /\ (~SaveNote => LivingStep)
<1>1. CASE OpenManager \/ Ref \/ Leave \/ OpenDrive \/ Back \/ BackToRoot
  BY <1>1, DiskUntouched DEF OpenManager, Ref, Leave, OpenDrive, Back, BackToRoot
<1>2. CASE FormatDrive
  BY <1>2, FormatChangesOne
<1>3. CASE \E i \in 0 .. drive_count - 1 : SelectDrive(i)
  BY <1>3, DiskUntouched DEF SelectDrive
<1>4. CASE \E t \in 1 .. 2 : NewInRoot(t) \/ NewInFolder(t)
  <2>1. PICK t \in 1 .. 2 : NewInRoot(t) \/ NewInFolder(t)
    BY <1>4
  <2>2. CASE NewInFolder(t)
    BY <2>2, DiskUntouched DEF NewInFolder
  <2>3. CASE NewInRoot(t)
    <3> DEFINE p == Active.base_port
    <3>1. PICK o \in Attempts(p, {"read", "dir"}) : RowTransfers(p, o) /\ Create(p, o, t, "auto")
      BY <2>3 DEF NewInRoot
    <3> HIDE DEF p
    <3> QED
      BY <3>1, CreateChangesOne
  <2> QED
    BY <2>1, <2>2, <2>3
<1>5. ASSUME NEW f \in Slots,
             ClickRow(f) \/ Delete(f) \/ DeleteInFolder(f) \/ StartRename(f) \/ Import(f) \/ Recover(f)
      PROVE  OneEntryStep /\ (~SaveNote => LivingStep)
  <2>1. CASE ClickRow(f) \/ StartRename(f)
    BY <2>1, DiskUntouched DEF ClickRow, StartRename
  <2>2. CASE Delete(f) \/ DeleteInFolder(f)
    <3> DEFINE p == Active.base_port
    <3>1. PICK steps \in {{"read", "dir"}, {"read", "dir"} \cup FileStep(f)} :
            \E o \in Attempts(p, steps) : Erase(f, p, o)
      BY <2>2 DEF Delete, DeleteInFolder
    <3>2. PICK o \in Attempts(p, steps) : Erase(f, p, o)
      BY <3>1
    <3>3. {"read", "dir"} \subseteq steps
      OBVIOUS
    <3> HIDE DEF p
    <3> QED
      BY <3>2, <3>3, EraseChangesOne
  <2> QED
    BY <1>5, <2>1, <2>2, ImportChangesOne, RecoverChangesOne
<1>6. CASE EditName \/ TypeText \/ NewNote \/ SaveAs \/ EnterFolder \/ NextDrive
  BY <1>6, DiskUntouched DEF EditName, TypeText, NewNote, SaveAs, EnterFolder, NextDrive
<1>7. CASE TurnPage \/ CloseDialog
  BY <1>7, DiskUntouched DEF TurnPage, CloseDialog, Turn
<1>8. CASE SaveName \/ SaveFile
  BY <1>8, SaveNameChangesOne, SaveFileChangesOne
<1>n. CASE SaveNote
  BY <1>n, SaveNoteChangesOne
<1>9. CASE MakeFolder
  <2>1. PICK p \in PortsAt(active_drive_idx) :
          \E o \in Attempts(p, {"read", "dir"}) : Transfers(p, o) /\ Create(p, o, 2, "typed")
    BY <1>9 DEF MakeFolder
  <2>2. PICK o \in Attempts(p, {"read", "dir"}) : Transfers(p, o) /\ Create(p, o, 2, "typed")
    BY <2>1
  <2> QED
    BY <2>2, CreateChangesOne
<1>10. CASE UNCHANGED vars
  BY <1>10, DiskUntouched DEF vars
<1> QED
  BY <1>1, <1>2, <1>3, <1>4, <1>5, <1>6, <1>7, <1>8, <1>n, <1>9, <1>10 DEF Next

(* A button whose transfers work changes at most one entry of one disk or  *)
(* formats it; a living entry is only renamed or given free: kernel.cpp's  *)
(* buttons for any number of slots, disks and sticks.                      *)
THEOREM ButtonsChangeOneEntry == Spec => OneEntryPerClick
<1>1. DirInv /\ [Next]_vars =>
        [fails' = fails =>
           \A u \in Units :
             LET old == disk[u].dir
                 new == disk'[u].dir
                 changed == {i \in Slots : old[i] # new[i]}
             IN  new = NoDirectory \/ (Cardinality(changed) <= 1 /\ \A i \in changed :
                   old[i].type # 0 => /\ new[i].type \in {0, old[i].type}
                                      /\ new[i].lba = old[i].lba)]_vars
  BY StepChangesOne DEF OneEntryStep, OneEntry
<1> QED
  BY <1>1, DirInvariant, PTL DEF Spec, OneEntryPerClick

(* Only SAVE of the notepad writes over a living file: + FILE, IMPORT and  *)
(* the SAVE AS dialog put their text in the sector of an entry that was    *)
(* free, which no file of that disk has.                                   *)
THEOREM NewTextSparesFiles == Spec => LivingDataKept
<1>1. DirInv /\ [Next]_vars =>
        [(fails' = fails /\ ~SaveNote) =>
           \A u \in Units, i \in Slots :
             disk[u].dir[i].type = 1 =>
               disk'[u].data[disk[u].dir[i].lba] = disk[u].data[disk[u].dir[i].lba]]_vars
  BY StepChangesOne DEF LivingStep
<1> QED
  BY <1>1, DirInvariant, PTL DEF Spec, LivingDataKept

-----------------------------------------------------------------------------
(* The rows at the root are the entries of the disk that filled them.      *)

RowIsEntry(row, e, named) ==
  (row.exists /\ row.parent = Root) =>
     /\ e.type = (IF row.is_folder THEN 2 ELSE 1)
     /\ named => e.name = row.name
\* g is the row whose name is on the keyboard.
RowsMatch(rows, dir, g) == \A f \in Slots : RowIsEntry(rows[f], dir[f], f # g)

LEMMA RowsRealIsMatch ==
  RootRowsAreReal <=> (shown \in Units => RowsMatch(file_table, disk[shown].dir, renaming_file_idx))
BY DEF RootRowsAreReal, RowsMatch, RowIsEntry

LEMMA RowsRealNext ==
  ASSUME shown' \in Units => RowsMatch(file_table', disk'[shown'].dir, renaming_file_idx')
  PROVE  RootRowsAreReal'
BY DEF RootRowsAreReal, RowsMatch, RowIsEntry

\* An entry that was free is the entry of no row.
LEMMA FreeEntryHasNoRow ==
  ASSUME NEW rows, NEW dir \in [Slots -> Entries], NEW g, RowsMatch(rows, dir, g),
         NEW i \in Slots, dir[i].type = 0, NEW e
  PROVE  RowsMatch(rows, [dir EXCEPT ![i] = e], g)
<1> SUFFICES ASSUME NEW f \in Slots
             PROVE  RowIsEntry(rows[f], [dir EXCEPT ![i] = e][f], f # g)
  BY DEF RowsMatch
<1>1. CASE f = i
  <2>1. RowIsEntry(rows[f], dir[f], f # g)
    BY DEF RowsMatch
  <2>2. ~(rows[f].exists /\ rows[f].parent = Root)
    BY <1>1, <2>1 DEF RowIsEntry
  <2> QED
    BY <2>2 DEF RowIsEntry
<1>2. CASE f # i
  <2>1. [dir EXCEPT ![i] = e][f] = dir[f]
    BY <1>2
  <2> QED
    BY <2>1 DEF RowsMatch
<1> QED
  BY <1>1, <1>2

\* A row and its entry that are changed together.
LEMMA RowAndEntryChange ==
  ASSUME NEW rows \in [Slots -> Rows], NEW dir \in [Slots -> Entries], NEW g, NEW h,
         RowsMatch(rows, dir, g), NEW i \in Slots, g = h \/ i = g, NEW row, NEW e,
         RowIsEntry(row, e, TRUE)
  PROVE  RowsMatch([rows EXCEPT ![i] = row], [dir EXCEPT ![i] = e], h)
<1> SUFFICES ASSUME NEW f \in Slots
             PROVE  RowIsEntry([rows EXCEPT ![i] = row][f], [dir EXCEPT ![i] = e][f], f # h)
  BY DEF RowsMatch
<1>1. CASE f = i
  BY <1>1 DEF RowIsEntry
<1>2. CASE f # i
  <2>1. [dir EXCEPT ![i] = e][f] = dir[f] /\ [rows EXCEPT ![i] = row][f] = rows[f]
    BY <1>2
  <2>2. RowIsEntry(rows[f], dir[f], f # g)
    BY DEF RowsMatch
  <2> QED
    BY <1>2, <2>1, <2>2 DEF RowIsEntry
<1> QED
  BY <1>1, <1>2

\* Rows that are made of a directory.
LEMMA CfsRowsMatch ==
  ASSUME RowsType, NEW dir \in [Slots -> Entries], NEW g
  PROVE  RowsMatch(CfsRows(dir), dir, g)
<1> SUFFICES ASSUME NEW f \in Slots PROVE RowIsEntry(CfsRows(dir)[f], dir[f], f # g)
  BY DEF RowsMatch
<1>1. dir[f].type \in 0 .. 2
  BY DEF Entries
<1>2. CASE dir[f].type # 0
  <2>1. CfsRows(dir)[f] = Row(dir[f])
    BY <1>2 DEF CfsRows
  <2>2. Row(dir[f]).name = dir[f].name /\ (Row(dir[f]).is_folder <=> dir[f].type = 2)
    BY DEF Row
  <2>3. dir[f].type = (IF Row(dir[f]).is_folder THEN 2 ELSE 1)
    <3>1. CASE dir[f].type = 2
      BY <2>2, <3>1
    <3>2. CASE dir[f].type = 1
      BY <2>2, <3>2
    <3> QED
      BY <1>1, <1>2, <3>1, <3>2
  <2> QED
    BY <2>1, <2>2, <2>3 DEF RowIsEntry
<1>3. CASE dir[f].type = 0
  <2>1. CfsRows(dir)[f] = Absent(file_table[f]) /\ file_table[f] \in Rows
    BY <1>3 DEF CfsRows, RowsType
  <2> QED
    BY <2>1 DEF Absent, RowIsEntry, Rows
<1> QED
  BY <1>1, <1>2, <1>3

LEMMA NoRowsMatch ==
  ASSUME RowsType, NEW dir, NEW g
  PROVE  RowsMatch([i \in Slots |-> Absent(file_table[i])], dir, g)
BY DEF RowsMatch, RowIsEntry, Absent, RowsType, Rows

\* What shown' says of the transfers of a button.
LEMMA ShownSurvives ==
  ASSUME DirInv, NEW p, NEW steps, NEW o \in Attempts(p, steps), shown' \in Units
  PROVE  /\ Transfers(p, o) => shown' = shown /\ \A k \in steps : o[k]
         /\ RowTransfers(p, o) => shown' = shown /\ p = shown /\ \A k \in steps : o[k]
<1>1. NoUnit \notin Units
  BY UnitsAreNumbers
<1>2. ~Failed(o) => \A k \in steps : o[k]
  BY AttemptFacts DEF DirInv
<1> QED
  BY <1>1, <1>2 DEF Transfers, RowTransfers

LEMMA NothingChanges ==
  ASSUME RootRowsAreReal, UNCHANGED <<disk, file_table, renaming_file_idx>>,
         shown' \in {shown, NoUnit}
  PROVE  RootRowsAreReal'
BY UnitsAreNumbers DEF RootRowsAreReal

LEMMA ShownIsTyped ==
  ASSUME DirInv, NEW u \in Units
  PROVE  disk[u].dir \in [Slots -> Entries] /\ file_table \in [Slots -> Rows]
BY DEF DirInv, StoreInv, DisksInv, SoundDir, RowsType

\* A button that fills a free entry of the directory it read, and no row.
LEMMA FreeEntryWritten ==
  ASSUME DirInv, RootRowsAreReal, UNCHANGED <<file_table, renaming_file_idx>>,
         NEW p, NEW dir, NEW slot \in Slots, NEW e, dir[slot].type = 0,
         shown' \in Units =>
           /\ shown' = shown /\ (p \in Units => dir = disk[p].dir)
           /\ disk'[shown].dir = IF shown = p THEN [dir EXCEPT ![slot] = e] ELSE disk[shown].dir
  PROVE  RootRowsAreReal'
<1> SUFFICES ASSUME shown' \in Units
             PROVE  RowsMatch(file_table', disk'[shown'].dir, renaming_file_idx')
  BY RowsRealNext
<1>1. RowsMatch(file_table, disk[shown].dir, renaming_file_idx)
  BY RowsRealIsMatch
<1>2. CASE shown = p
  <2>1. dir = disk[shown].dir /\ dir \in [Slots -> Entries]
    BY <1>2, ShownIsTyped
  <2>2. RowsMatch(file_table, [dir EXCEPT ![slot] = e], renaming_file_idx)
    BY <1>1, <2>1, FreeEntryHasNoRow
  <2> QED
    BY <1>2, <2>2
<1>3. CASE shown # p
  BY <1>1, <1>3
<1> QED
  BY <1>2, <1>3

\* A button that changes an entry of that directory and the row of its number.
LEMMA RowWritten ==
  ASSUME DirInv, RootRowsAreReal,
         NEW p, NEW dir, NEW i \in Slots, NEW row, NEW e, RowIsEntry(row, e, TRUE),
         file_table' = [file_table EXCEPT ![i] = row],
         renaming_file_idx' = renaming_file_idx \/ i = renaming_file_idx,
         shown' \in Units =>
           /\ shown' = shown /\ p = shown /\ dir = disk[p].dir
           /\ disk'[p].dir = [dir EXCEPT ![i] = e]
  PROVE  RootRowsAreReal'
<1> SUFFICES ASSUME shown' \in Units
             PROVE  RowsMatch(file_table', disk'[shown'].dir, renaming_file_idx')
  BY RowsRealNext
<1>1. RowsMatch(file_table, disk[shown].dir, renaming_file_idx)
  BY RowsRealIsMatch
<1>2. dir = disk[shown].dir /\ dir \in [Slots -> Entries] /\ file_table \in [Slots -> Rows]
  BY ShownIsTyped
<1>h. PICK h : h = renaming_file_idx'
  OBVIOUS
<1>3. RowsMatch([file_table EXCEPT ![i] = row], [dir EXCEPT ![i] = e], h)
  BY <1>1, <1>2, <1>h, RowAndEntryChange
<1> QED
  BY <1>3, <1>h

\* What a button that read a directory and wrote it leaves at the shown disk.
LEMMA ShownWritten ==
  ASSUME DirInv, NEW p, NEW steps, {"read", "dir"} \subseteq steps,
         NEW o \in Attempts(p, steps), shown' \in Units, Transfers(p, o) \/ RowTransfers(p, o),
         NEW d \in [Units -> DiskType], \A u \in Units : d[u].dir = disk[u].dir,
         NEW new, disk' = WriteDir(d, p, new, o["dir"])
  PROVE  /\ shown' = shown /\ shown \in Units
         /\ p \in Units => Fetched(p, o["read"]) = disk[p].dir
         /\ disk'[shown].dir = IF shown = p THEN new ELSE disk[shown].dir
         /\ RowTransfers(p, o) => p = shown
<1>1. shown' = shown /\ \A k \in steps : o[k]
  BY ShownSurvives
<1>2. o["read"] /\ o["dir"]
  BY <1>1
<1>3. o["dir"] \in BOOLEAN /\ (o["dir"] => p \in Units)
  BY AttemptFacts DEF DirInv
<1>4. \A u \in Units : disk'[u].dir = IF o["dir"] /\ u = p THEN new ELSE d[u].dir
  BY <1>3, WrittenDir
<1>5. RowTransfers(p, o) => p = shown
  BY ShownSurvives
<1> QED
  BY <1>1, <1>2, <1>4, <1>5 DEF Fetched

LEMMA DisksAreTyped ==
  ASSUME DirInv
  PROVE  disk \in [Units -> DiskType]
BY DEF DirInv, StoreInv, DisksInv

LEMMA MakeFolderKeepsReal ==
  ASSUME DirInv, RootRowsAreReal, MakeFolder
  PROVE  RootRowsAreReal'
<1>p. PICK p \in PortsAt(active_drive_idx) :
        \E o \in Attempts(p, {"read", "dir"}) : Transfers(p, o) /\ Create(p, o, 2, "typed")
  BY DEF MakeFolder
<1>1. PICK o \in Attempts(p, {"read", "dir"}) : Transfers(p, o) /\ Create(p, o, 2, "typed")
  BY <1>p
<1>2. UNCHANGED <<file_table, renaming_file_idx>>
  BY DEF MakeFolder
<1> DEFINE dir  == Fetched(p, o["read"])
           slot == FreeSlot(dir)
           e    == Entry(2, "typed", 0)
<1>3. slot # None => slot \in Slots /\ dir[slot].type = 0
  BY FreeSlotIsFree
<1>4. CASE slot = None
  <2>1. disk' = disk
    BY <1>1, <1>4 DEF Create
  <2>2. shown' \in {shown, NoUnit}
    BY <1>1 DEF Transfers
  <2> QED
    BY <1>2, <2>1, <2>2, NothingChanges
<1>5. CASE slot # None
  <2>1. disk' = WriteDir(disk, p, Created(dir, slot, 2, "typed"), o["dir"])
    BY <1>1, <1>5 DEF Create
  <2>2. Created(dir, slot, 2, "typed") = [dir EXCEPT ![slot] = e]
    BY DEF Created
  <2> HIDE DEF slot, e
  <2>3. shown' \in Units =>
          /\ shown' = shown /\ (p \in Units => dir = disk[p].dir)
          /\ disk'[shown].dir = IF shown = p THEN Created(dir, slot, 2, "typed") ELSE disk[shown].dir
    BY <1>1, <2>1, DisksAreTyped, ShownWritten
  <2>4. shown' \in Units =>
          /\ shown' = shown /\ (p \in Units => dir = disk[p].dir)
          /\ disk'[shown].dir = IF shown = p THEN [dir EXCEPT ![slot] = e] ELSE disk[shown].dir
    BY <2>2, <2>3
  <2>5. slot \in Slots /\ dir[slot].type = 0
    BY <1>3, <1>5
  <2> HIDE DEF dir
  <2> QED
    BY <1>2, <2>4, <2>5, FreeEntryWritten
<1> QED
  BY <1>4, <1>5

LEMMA NewInRootKeepsReal ==
  ASSUME DirInv, RootRowsAreReal, NEW t \in 1 .. 2, NewInRoot(t)
  PROVE  RootRowsAreReal'
<1> DEFINE p == Active.base_port
<1>1. PICK o \in Attempts(p, {"read", "dir"}) :
        LET slot == FreeSlot(Fetched(p, o["read"]))
        IN  /\ RowTransfers(p, o) /\ Create(p, o, t, "auto")
            /\ file_table' = IF slot = None THEN file_table
                             ELSE [file_table EXCEPT ![slot] = NewRow(slot, t)]
  BY DEF NewInRoot
<1>2. UNCHANGED renaming_file_idx
  BY DEF NewInRoot, viewVars
<1> DEFINE dir  == Fetched(p, o["read"])
           slot == FreeSlot(dir)
           e    == Entry(t, "auto", IF t = 1 THEN Sector(slot) ELSE 0)
           row  == NewRow(slot, t)
<1>3. slot # None => slot \in Slots
  BY FreeSlotIsFree
<1>4. CASE slot = None
  <2>1. disk' = disk /\ file_table' = file_table
    BY <1>1, <1>4 DEF Create
  <2>2. shown' \in {shown, NoUnit}
    BY <1>1 DEF RowTransfers
  <2> QED
    BY <1>2, <2>1, <2>2, NothingChanges
<1>5. CASE slot # None
  <2>1. disk' = WriteDir(disk, p, Created(dir, slot, t, "auto"), o["dir"])
    BY <1>1, <1>5 DEF Create
  <2>2. Created(dir, slot, t, "auto") = [dir EXCEPT ![slot] = e]
    BY DEF Created
  <2>3. file_table' = [file_table EXCEPT ![slot] = row]
    BY <1>1, <1>5
  <2>4. RowIsEntry(row, e, TRUE)
    <3>1. file_table[slot] \in Rows
      BY <1>3, <1>5 DEF DirInv, RowsType
    <3>2. (row.is_folder <=> t = 2) /\ row.name = "auto"
      BY <3>1 DEF NewRow, Rows
    <3>3. e.type = t /\ e.name = "auto"
      BY DEF Entry
    <3> HIDE DEF row, e
    <3>4. t = (IF row.is_folder THEN 2 ELSE 1)
      BY <3>2
    <3> QED
      BY <3>2, <3>3, <3>4 DEF RowIsEntry
  <2> HIDE DEF slot, e, row, p
  <2>5. shown' \in Units =>
          /\ shown' = shown /\ p = shown /\ dir = disk[p].dir
          /\ disk'[p].dir = Created(dir, slot, t, "auto")
    BY <1>1, <2>1, DisksAreTyped, ShownWritten
  <2> HIDE DEF dir
  <2> QED
    BY <1>2, <1>3, <1>5, <2>2, <2>3, <2>4, <2>5, RowWritten
<1> QED
  BY <1>4, <1>5

LEMMA EraseKeepsReal ==
  ASSUME DirInv, RootRowsAreReal, NEW f \in Slots, NEW p, NEW steps,
         {"read", "dir"} \subseteq steps, NEW o \in Attempts(p, steps), Erase(f, p, o),
         UNCHANGED renaming_file_idx
  PROVE  RootRowsAreReal'
<1> DEFINE dir == Fetched(p, o["read"])
           e   == [dir[f] EXCEPT !.type = 0]
           row == [file_table[f] EXCEPT !.exists = FALSE]
<1>1. RowTransfers(p, o) /\ disk' = WriteDir(disk, p, Deleted(dir, f), o["dir"])
  BY DEF Erase
<1>2. file_table' = [file_table EXCEPT ![f] = row]
  BY DEF Erase
<1>3. o["read"] \in BOOLEAN /\ (o["read"] => p \in Units)
  BY AttemptFacts DEF DirInv
<1>4. SoundDir(dir)
  BY <1>3, FetchedIsSound DEF DirInv
<1>5. RowIsEntry(row, e, TRUE)
  <2>1. file_table[f] \in Rows
    BY DEF DirInv, RowsType
  <2> QED
    BY <2>1 DEF RowIsEntry, Rows
<1> HIDE DEF row, dir
<1>6. Deleted(dir, f) = [dir EXCEPT ![f] = e]
  BY <1>4 DEF Deleted, SoundDir
<1> HIDE DEF e
<1>7. shown' \in Units =>
        /\ shown' = shown /\ p = shown /\ dir = disk[p].dir
        /\ disk'[p].dir = Deleted(dir, f)
  BY <1>1, DisksAreTyped, ShownWritten DEF dir
<1> QED
  BY <1>2, <1>5, <1>6, <1>7, RowWritten

LEMMA SaveNameKeepsReal ==
  ASSUME DirInv, RootRowsAreReal, SaveName
  PROVE  RootRowsAreReal'
<1>p. PICK p \in PortsAt(active_drive_idx) :
        \E o \in Attempts(p, {"read", "dir"}) :
          /\ RowTransfers(p, o)
          /\ disk' = WriteDir(disk, p, Renamed(Fetched(p, o["read"]), renaming_file_idx), o["dir"])
  BY DEF SaveName
<1>1. PICK o \in Attempts(p, {"read", "dir"}) :
        /\ RowTransfers(p, o)
        /\ disk' = WriteDir(disk, p, Renamed(Fetched(p, o["read"]), renaming_file_idx), o["dir"])
  BY <1>p
<1> DEFINE g   == renaming_file_idx
           dir == Fetched(p, o["read"])
           row == file_table[g]
           e   == [dir[g] EXCEPT !.name = row.name]
<1>2. g \in Slots
  BY DEF SaveName, PressOnKeyboard, DirInv, ViewInv
<1>3. o["read"] \in BOOLEAN /\ (o["read"] => p \in Units)
  BY AttemptFacts DEF DirInv
<1>4. SoundDir(dir)
  BY <1>3, FetchedIsSound DEF DirInv
<1>5. Renamed(dir, g) = [dir EXCEPT ![g] = e]
  <2> HIDE DEF dir
  <2> QED
    BY <1>2, <1>4 DEF Renamed, SoundDir
<1>6. file_table' = [file_table EXCEPT ![g] = row]
  BY <1>2 DEF SaveName, DirInv, RowsType
<1>7. shown' \in Units =>
        /\ shown' = shown /\ p = shown /\ dir = disk[p].dir
        /\ disk'[p].dir = Renamed(dir, g)
  <2> HIDE DEF g
  <2> QED
    BY <1>1, DisksAreTyped, ShownWritten DEF g
<1>8. CASE shown' \in Units
  <2>1. RowIsEntry(row, dir[g], FALSE)
    <3>1. RowsMatch(file_table, dir, g)
      BY <1>7, <1>8, RowsRealIsMatch
    <3>2. g # g <=> FALSE
      OBVIOUS
    <3> HIDE DEF g, dir
    <3> QED
      BY <1>2, <3>1 DEF RowsMatch, RowIsEntry
  <2>2. dir[g] \in Entries
    BY <1>2, <1>4 DEF SoundDir
  <2>3. e.type = dir[g].type /\ e.name = row.name
    <3> HIDE DEF dir, g, row
    <3> QED
      BY <2>2 DEF Entries
  <2>4. RowIsEntry(row, e, TRUE)
    BY <2>1, <2>3 DEF RowIsEntry
  <2> HIDE DEF dir, row, e, g
  <2> QED
    BY <1>2, <1>5, <1>6, <1>7, <2>4, RowWritten DEF g
<1>9. CASE shown' \notin Units
  BY <1>9 DEF RootRowsAreReal
<1> QED
  BY <1>8, <1>9

\* What SAVE and IMPORT put on the disk before the directory is data only.
LEMMA TextWritten ==
  ASSUME DirInv, NEW p, NEW lba, NEW text \in Texts, NEW ok \in BOOLEAN, ok => p \in Units
  PROVE  /\ WriteData(disk, p, lba, text, ok) \in [Units -> DiskType]
         /\ \A u \in Units : WriteData(disk, p, lba, text, ok)[u].dir = disk[u].dir
<1>1. disk \in [Units -> DiskType]
  BY DisksAreTyped
<1>2. DisksInv(WriteData(disk, p, lba, text, ok))
  BY WriteDataKeepsDisks DEF DirInv, StoreInv
<1>3. CASE ok /\ lba \in Lbas
  <2>1. WriteData(disk, p, lba, text, ok) = [disk EXCEPT ![p].data[lba] = text]
    BY <1>3 DEF WriteData
  <2>2. \A u \in Units : WriteData(disk, p, lba, text, ok)[u].dir = disk[u].dir
    BY ZenonT(60), <1>1, <1>3, <2>1 DEF DiskType
  <2> QED
    BY <1>2, <2>2 DEF DisksInv
<1>4. CASE ~(ok /\ lba \in Lbas)
  <2>1. WriteData(disk, p, lba, text, ok) = disk
    BY <1>4 DEF WriteData
  <2> QED
    BY <1>1, <2>1
<1> QED
  BY <1>3, <1>4

LEMMA SaveFileKeepsReal ==
  ASSUME DirInv, RootRowsAreReal, SaveFile
  PROVE  RootRowsAreReal'
<1>p. PICK p \in PortsAt(active_drive_idx) : \E o \in Attempts(p, {"read", "data", "dir"}) :
        LET dir  == Fetched(p, o["read"])
            slot == FreeSlot(dir)
            new  == IF slot = None THEN dir ELSE Created(dir, slot, 1, "typed")
        IN  /\ RowTransfers(p, o)
            /\ disk' = IF slot = None THEN disk
                       ELSE WriteDir(WriteData(disk, p, DataLba(slot), note_buf, o["data"]),
                                     p, new, o["dir"])
            /\ file_table' = IF slot = None THEN file_table
                             ELSE [file_table EXCEPT ![slot] = SaveRow(slot)]
  BY DEF SaveFile
<1>1. PICK o \in Attempts(p, {"read", "data", "dir"}) :
        LET dir  == Fetched(p, o["read"])
            slot == FreeSlot(dir)
            new  == IF slot = None THEN dir ELSE Created(dir, slot, 1, "typed")
        IN  /\ RowTransfers(p, o)
            /\ disk' = IF slot = None THEN disk
                       ELSE WriteDir(WriteData(disk, p, DataLba(slot), note_buf, o["data"]),
                                     p, new, o["dir"])
            /\ file_table' = IF slot = None THEN file_table
                             ELSE [file_table EXCEPT ![slot] = SaveRow(slot)]
  BY <1>p
<1> DEFINE dir  == Fetched(p, o["read"])
           slot == FreeSlot(dir)
           e    == Entry(1, "typed", Sector(slot))
           row  == SaveRow(slot)
<1>2. UNCHANGED renaming_file_idx
  BY DEF SaveFile, viewVars
<1>3. slot # None => slot \in Slots
  BY FreeSlotIsFree
<1>4. CASE slot = None
  <2>1. disk' = disk /\ file_table' = file_table
    BY <1>1, <1>4
  <2>2. shown' \in {shown, NoUnit}
    BY <1>1 DEF RowTransfers
  <2> QED
    BY <1>2, <2>1, <2>2, NothingChanges
<1>5. CASE slot # None
  <2>d. PICK d : d = WriteData(disk, p, DataLba(slot), note_buf, o["data"])
    OBVIOUS
  <2>1. disk' = WriteDir(d, p, Created(dir, slot, 1, "typed"), o["dir"])
    BY <1>1, <1>5, <2>d
  <2>2. Created(dir, slot, 1, "typed") = [dir EXCEPT ![slot] = e]
    BY DEF Created
  <2>3. file_table' = [file_table EXCEPT ![slot] = row]
    BY <1>1, <1>5
  <2>4. RowIsEntry(row, e, TRUE)
    BY DEF SaveRow, Entry, RowIsEntry
  <2>5. d \in [Units -> DiskType] /\ \A u \in Units : d[u].dir = disk[u].dir
    <3>1. o["data"] \in BOOLEAN /\ (o["data"] => p \in Units) /\ note_buf \in Texts
      BY AttemptFacts DEF DirInv, NoteInv
    <3> DEFINE lba == DataLba(slot)
    <3> HIDE DEF lba
    <3>2. /\ WriteData(disk, p, lba, note_buf, o["data"]) \in [Units -> DiskType]
          /\ \A u \in Units : WriteData(disk, p, lba, note_buf, o["data"])[u].dir = disk[u].dir
      BY <3>1, TextWritten
    <3> QED
      BY <2>d, <3>2 DEF lba
  <2> HIDE DEF slot, e, row
  <2>6. shown' \in Units =>
          /\ shown' = shown /\ p = shown /\ dir = disk[p].dir
          /\ disk'[p].dir = Created(dir, slot, 1, "typed")
    <3>1. shown' \in Units => shown' = shown /\ p = shown /\ o["read"] /\ o["dir"]
      BY <1>1, ShownSurvives
    <3>2. o["dir"] \in BOOLEAN /\ (o["dir"] => p \in Units)
      BY AttemptFacts DEF DirInv
    <3> DEFINE new == Created(dir, slot, 1, "typed")
    <3> HIDE DEF new
    <3>3. disk' = WriteDir(d, p, new, o["dir"])
      BY <2>1 DEF new
    <3>4. \A u \in Units : disk'[u].dir = IF o["dir"] /\ u = p THEN new ELSE d[u].dir
      BY <2>5, <3>2, <3>3, WrittenDir
    <3> QED
      BY <3>1, <3>4 DEF new, Fetched
  <2> HIDE DEF dir
  <2> QED
    BY <1>2, <1>3, <1>5, <2>2, <2>3, <2>4, <2>6, RowWritten
<1> QED
  BY <1>4, <1>5

LEMMA RecoverKeepsReal ==
  ASSUME DirInv, RootRowsAreReal, NEW i \in Slots, Recover(i)
  PROVE  RootRowsAreReal'
<1> DEFINE p == Active.base_port
<1>1. PICK o \in Attempts(p, {"read", "dir"}) :
        LET seen == IF o["read"] THEN disk[p].dir ELSE oracle_ram
        IN  /\ i \in Ghosts(seen) /\ Transfers(p, o)
            /\ disk' = WriteDir(disk, p, Recovered(seen, i), o["dir"])
  BY DEF Recover
<1> DEFINE seen == IF o["read"] THEN disk[p].dir ELSE oracle_ram
           e    == [seen[i] EXCEPT !.type = IF seen[i].lba > 0 THEN 1 ELSE 2]
<1>2. o["read"] \in BOOLEAN /\ (o["read"] => p \in Units)
  BY AttemptFacts DEF DirInv
<1>3. UNCHANGED <<file_table, renaming_file_idx>>
  BY DEF Recover, viewVars
<1> HIDE DEF p
<1>4. SoundDir(seen)
  BY <1>2 DEF DirInv, StoreInv, DisksInv
<1>5. seen[i].type = 0
  BY <1>1 DEF Ghosts
<1>6. Recovered(seen, i) = [seen EXCEPT ![i] = e]
  <2> HIDE DEF seen
  <2> QED
    BY <1>4 DEF Recovered, SoundDir
<1>7. disk' = WriteDir(disk, p, Recovered(seen, i), o["dir"])
  BY <1>1
<1>8. shown' \in Units => shown' = shown /\ o["read"]
  BY <1>1, ShownSurvives
<1> HIDE DEF e
<1>9. shown' \in Units =>
        /\ shown' = shown /\ (p \in Units => seen = disk[p].dir)
        /\ disk'[shown].dir = IF shown = p THEN [seen EXCEPT ![i] = e] ELSE disk[shown].dir
  <2>1. shown' \in Units =>
          disk'[shown].dir = IF shown = p THEN Recovered(seen, i) ELSE disk[shown].dir
    <3> HIDE DEF seen
    <3> QED
      BY <1>1, <1>7, DisksAreTyped, ShownWritten
  <2> QED
    BY <1>6, <1>8, <2>1
<1> HIDE DEF seen
<1> QED
  BY <1>3, <1>5, <1>9, FreeEntryWritten

LEMMA ImportKeepsReal ==
  ASSUME DirInv, RootRowsAreReal, NEW f \in Slots, Import(f)
  PROVE  RootRowsAreReal'
<1> DEFINE p == ImportPort
           src == Active.base_port
<1>3. UNCHANGED <<file_table, renaming_file_idx>>
  BY DEF Import, viewVars
<1>1. CASE p = 0
  <2>1. UNCHANGED <<disk, shown>>
    BY <1>1 DEF Import
  <2> QED
    BY <1>3, <2>1, NothingChanges
<1>2. CASE p # 0
  <2>1. PICK o \in Attempts(p, {"read", "data", "dir"}), ok \in Outcomes(src) :
          LET slot == FreeSlot(Fetched(p, o["read"]))
              text == IF ok THEN DataAt(src, file_table[f].sector) ELSE "none"
              new  == Created(Fetched(p, o["read"]), slot, 1, file_table[f].name)
          IN  /\ Transfers(p, [o EXCEPT !["read"] = @ /\ ok])
              /\ disk' = IF slot = None THEN disk
                         ELSE WriteDir(WriteData(disk, p, DataLba(slot), text, o["data"]),
                                       p, new, o["dir"])
    BY <1>2 DEF Import
  <2> DEFINE dir  == Fetched(p, o["read"])
             slot == FreeSlot(dir)
             text == IF ok THEN DataAt(src, file_table[f].sector) ELSE "none"
             q    == [o EXCEPT !["read"] = @ /\ ok]
             new  == Created(dir, slot, 1, file_table[f].name)
             e    == Entry(1, file_table[f].name, Sector(slot))
  <2>s. SaysFat(Active)
    BY DEF Import
  <2>q. q \in Attempts(p, {"read", "data", "dir"})
    BY <2>s, ImportAttempt
  <2>t. Transfers(p, q)
    BY <2>1
  <2>2. shown' \in Units => shown' = shown /\ o["read"] /\ o["dir"]
    <3>1. shown' \in Units => shown' = shown /\ q["read"] /\ q["dir"]
      <4> HIDE DEF q, p
      <4> QED
        BY <2>q, <2>t, ShownSurvives
    <3>2. q["read"] = (o["read"] /\ ok) /\ q["dir"] = o["dir"]
      BY DEF Attempts
    <3> QED
      BY <3>1, <3>2
  <2>3. CASE slot = None
    <3>1. disk' = disk
      BY <2>1, <2>3
    <3>2. shown' \in {shown, NoUnit}
      BY <2>t DEF Transfers
    <3> QED
      BY <1>3, <3>1, <3>2, NothingChanges
  <2>4. CASE slot # None
    <3>d. PICK d : d = WriteData(disk, p, DataLba(slot), text, o["data"])
      OBVIOUS
    <3>1. disk' = WriteDir(d, p, new, o["dir"])
      BY <2>1, <2>4, <3>d
    <3>2. new = [dir EXCEPT ![slot] = e]
      BY DEF Created
    <3>3. slot \in Slots /\ dir[slot].type = 0
      BY <2>4, FreeSlotIsFree
    <3>4. text \in Texts
      BY DataIsText DEF DirInv, Texts
    <3>5. /\ o["data"] \in BOOLEAN /\ o["dir"] \in BOOLEAN
          /\ o["data"] => p \in Units
          /\ o["dir"] => p \in Units
      BY AttemptFacts DEF DirInv
    <3> HIDE DEF slot, text, e, new, p
    <3>6. d \in [Units -> DiskType] /\ \A u \in Units : d[u].dir = disk[u].dir
      <4> DEFINE lba == DataLba(slot)
      <4> HIDE DEF lba
      <4>1. /\ WriteData(disk, p, lba, text, o["data"]) \in [Units -> DiskType]
            /\ \A u \in Units : WriteData(disk, p, lba, text, o["data"])[u].dir = disk[u].dir
        BY <3>4, <3>5, TextWritten
      <4> QED
        BY <3>d, <4>1 DEF lba
    <3>7. \A u \in Units : disk'[u].dir = IF o["dir"] /\ u = p THEN new ELSE d[u].dir
      BY <3>1, <3>5, <3>6, WrittenDir
    <3>8. shown' \in Units =>
            /\ shown' = shown /\ (p \in Units => dir = disk[p].dir)
            /\ disk'[shown].dir = IF shown = p THEN [dir EXCEPT ![slot] = e] ELSE disk[shown].dir
      BY <2>2, <3>2, <3>6, <3>7 DEF Fetched
    <3> HIDE DEF dir
    <3> QED
      BY <1>3, <3>3, <3>8, FreeEntryWritten
  <2> QED
    BY <2>3, <2>4
<1> QED
  BY <1>1, <1>2

LEMMA FormatKeepsReal ==
  ASSUME DirInv, RootRowsAreReal, FormatDrive
  PROVE  RootRowsAreReal'
<1> DEFINE p == Active.base_port
<1>1. PICK o \in Attempts(p, {"boot", "dir"}) :
        /\ shown' = IF Failed(o) \/ p = shown THEN NoUnit ELSE shown
        /\ disk' = LET d == IF o["boot"] THEN [disk EXCEPT ![p].kind = "cfs"] ELSE disk
                   IN  WriteDir(d, p, NoDirectory, o["dir"])
  BY DEF FormatDrive
<1>2. /\ o["boot"] \in BOOLEAN /\ o["dir"] \in BOOLEAN
      /\ o["boot"] => p \in Units
      /\ o["dir"] => p \in Units
  BY AttemptFacts DEF DirInv
<1>3. UNCHANGED <<file_table, renaming_file_idx>>
  BY DEF FormatDrive, viewVars
<1> HIDE DEF p
<1> SUFFICES ASSUME shown' \in Units
             PROVE  RowsMatch(file_table', disk'[shown'].dir, renaming_file_idx')
  BY RowsRealNext
<1>4. shown' = shown /\ p # shown
  BY <1>1, UnitsAreNumbers
<1>5. disk'[shown].dir = disk[shown].dir
  <2>1. disk \in [Units -> DiskType]
    BY DisksAreTyped
  <2>d. PICK d : d = IF o["boot"] THEN [disk EXCEPT ![p].kind = "cfs"] ELSE disk
    OBVIOUS
  <2>2. d[shown] = disk[shown] /\ DOMAIN d = Units
    BY <1>4, <2>1, <2>d
  <2>3. disk' = WriteDir(d, p, NoDirectory, o["dir"])
    BY <1>1, <2>d
  <2> QED
    BY <1>4, <2>2, <2>3 DEF WriteDir
<1> QED
  BY <1>3, <1>4, <1>5, RowsRealIsMatch

LEMMA OpenDriveKeepsReal ==
  ASSUME DirInv, RootRowsAreReal, OpenDrive
  PROVE  RootRowsAreReal'
<1> DEFINE u == Active.unit
<1>1. PICK o \in Attempts(u, {"look", "dir"}) :
        LET good == o["look"] /\ Reachable(active_drive_idx)
            kind == IF good THEN disk[u].kind ELSE "blank"
            read == o["dir"] /\ Reachable(active_drive_idx)
        IN  /\ \E dir \in (IF read THEN {disk[u].dir} ELSE OnStack), rows \in FoundRows(kind) :
                 file_table' = OpenedTable(kind, BootSector(kind), dir, rows)
            /\ shown' = CASE kind = "cfs" /\ read -> u
                          [] kind \in {"ntfs", "gptother"} \/ (kind = "blank" /\ good) -> shown
                          [] OTHER -> NoUnit
  BY DEF OpenDrive
<1>2. UNCHANGED <<disk, renaming_file_idx>>
  BY DEF OpenDrive
<1> DEFINE good == o["look"] /\ Reachable(active_drive_idx)
           read == o["dir"] /\ Reachable(active_drive_idx)
<1> HIDE DEF u
<1>k. PICK kind : kind = IF good THEN disk[u].kind ELSE "blank"
  OBVIOUS
<1> HIDE DEF good, read
<1>3. /\ \E dir \in (IF read THEN {disk[u].dir} ELSE OnStack), rows \in FoundRows(kind) :
           file_table' = OpenedTable(kind, BootSector(kind), dir, rows)
      /\ shown' = CASE kind = "cfs" /\ read -> u
                    [] kind \in {"ntfs", "gptother"} \/ (kind = "blank" /\ good) -> shown
                    [] OTHER -> NoUnit
  BY <1>1, <1>k DEF good, read
<1>4. PICK dir \in (IF read THEN {disk[u].dir} ELSE OnStack), rows \in FoundRows(kind) :
        file_table' = OpenedTable(kind, BootSector(kind), dir, rows)
  BY <1>3
<1> SUFFICES ASSUME shown' \in Units
             PROVE  RowsMatch(file_table', disk'[shown'].dir, renaming_file_idx')
  BY RowsRealNext
<1>g. PICK g : g = renaming_file_idx
  OBVIOUS
<1>5. CASE kind = "cfs" /\ read
  <2>1. shown' = u
    BY <1>3, <1>5
  <2>2. file_table' = CfsRows(disk[u].dir)
    <3>1. dir = disk[u].dir
      BY <1>5
    <3>2. BootSector(kind) = "first"
      BY <1>5 DEF BootSector, Gpt
    <3>3. OpenedTable(kind, BootSector(kind), dir, rows) = CfsRows(dir)
      BY <1>5, <3>2 DEF OpenedTable
    <3> QED
      BY <1>4, <3>1, <3>3
  <2>3. RowsMatch(CfsRows(disk[u].dir), disk[u].dir, g)
    <3>1. disk[u].dir \in [Slots -> Entries]
      BY <2>1, ShownIsTyped
    <3> QED
      BY <3>1, CfsRowsMatch DEF DirInv
  <2> QED
    BY <1>2, <1>g, <2>1, <2>2, <2>3
<1>6. CASE kind \in {"ntfs", "gptother"} \/ (kind = "blank" /\ good)
  <2>1. shown' = shown
    BY <1>3, <1>6
  <2>2. OpenedTable(kind, BootSector(kind), dir, rows) = file_table
    BY <1>6 DEF OpenedTable, BootSector, Gpt
  <2> QED
    BY <1>2, <1>4, <2>1, <2>2, RowsRealIsMatch
<1>7. CASE ~(kind = "cfs" /\ read) /\ ~(kind \in {"ntfs", "gptother"} \/ (kind = "blank" /\ good))
  <2>1. shown' = NoUnit
    BY <1>3, <1>7
  <2> QED
    BY <2>1, UnitsAreNumbers
<1> QED
  BY <1>5, <1>6, <1>7

LEMMA NextDriveKeepsReal ==
  ASSUME DirInv, RootRowsAreReal, NextDrive
  PROVE  RootRowsAreReal'
<1>n. PICK n : n = (active_drive_idx + 1) % drive_count
  OBVIOUS
<1> DEFINE u == drives[n].unit
<1>1. PICK o \in Attempts(u, {"read"}) :
        LET dir == IF o["read"] THEN disk[u].dir ELSE dir_ram
        IN  /\ file_table' = TableOfNext(drives[n], dir)
            /\ shown' = IF o["read"] THEN u ELSE NoUnit
  BY <1>n DEF NextDrive
<1>2. UNCHANGED <<disk, renaming_file_idx>>
  BY DEF NextDrive
<1> HIDE DEF u
<1> SUFFICES ASSUME shown' \in Units
             PROVE  RowsMatch(file_table', disk'[shown'].dir, renaming_file_idx')
  BY RowsRealNext
<1>3. o["read"] /\ shown' = u
  BY <1>1, UnitsAreNumbers
<1>4. file_table' = TableOfNext(drives[n], disk[u].dir)
  BY <1>1, <1>3
<1>g. PICK g : g = renaming_file_idx
  OBVIOUS
<1>5. disk[u].dir \in [Slots -> Entries]
  BY <1>3, ShownIsTyped
<1>6. RowsMatch(TableOfNext(drives[n], disk[u].dir), disk[u].dir, g)
  <2>1. RowsMatch(CfsRows(disk[u].dir), disk[u].dir, g)
    BY <1>5, CfsRowsMatch DEF DirInv
  <2>2. RowsMatch([i \in Slots |-> Absent(file_table[i])], disk[u].dir, g)
    BY NoRowsMatch DEF DirInv
  <2> QED
    BY <2>1, <2>2 DEF TableOfNext
<1> QED
  BY <1>2, <1>3, <1>4, <1>6, <1>g

\* In a folder the new row is not at the root; the keyboard changes the name
\* of the row it is for, and no other.
LEMMA RowsAloneKeepReal ==
  ASSUME DirInv, RootRowsAreReal, UNCHANGED <<disk, renaming_file_idx, shown>>,
         NEW i \in Slots, NEW row, file_table' = [file_table EXCEPT ![i] = row],
         \/ row.parent # Root
         \/ /\ i = renaming_file_idx /\ row.exists = file_table[i].exists
            /\ row.parent = file_table[i].parent /\ row.is_folder = file_table[i].is_folder
  PROVE  RootRowsAreReal'
<1> SUFFICES ASSUME shown \in Units, NEW f \in Slots
             PROVE  RowIsEntry(file_table'[f], disk[shown].dir[f], f # renaming_file_idx)
  BY RowsRealNext DEF RowsMatch
<1>1. RowIsEntry(file_table[f], disk[shown].dir[f], f # renaming_file_idx)
  BY RowsRealIsMatch DEF RowsMatch
<1>2. file_table'[f] = IF f = i THEN row ELSE file_table[f]
  BY DEF DirInv, RowsType
<1>3. CASE f = i
  BY <1>1, <1>2, <1>3 DEF RowIsEntry
<1>4. CASE f # i
  BY <1>1, <1>2, <1>4
<1> QED
  BY <1>3, <1>4

LEMMA NewInFolderKeepsReal ==
  ASSUME DirInv, RootRowsAreReal, NEW t \in 1 .. 2, NewInFolder(t)
  PROVE  RootRowsAreReal'
<1>1. UNCHANGED <<disk, renaming_file_idx, shown>>
  BY DEF NewInFolder, viewVars
<1>2. CASE FreeRows = {}
  <2>1. file_table' = file_table
    BY <1>2 DEF NewInFolder
  <2> QED
    BY <1>1, <2>1, NothingChanges
<1>3. CASE FreeRows # {}
  <2> DEFINE i   == Lowest(FreeRows)
             row == [NewRow(i, t) EXCEPT !.parent = current_folder_view_idx]
  <2>1. file_table' = [file_table EXCEPT ![i] = row]
    BY <1>3 DEF NewInFolder
  <2>2. i \in Slots
    BY <1>3, LowestIsMember DEF FreeRows
  <2>3. row.parent # Root
    <3>1. current_folder_view_idx \in Slots
      BY DEF NewInFolder, DirInv, ViewInv
    <3>2. NewRow(i, t) \in Rows
      BY <2>2, NewRowTyped DEF DirInv
    <3>3. row.parent = current_folder_view_idx
      BY <3>2 DEF Rows
    <3> QED
      BY <3>1, <3>3, SlotsAreNumbers
  <2> HIDE DEF i, row
  <2> QED
    BY <1>1, <2>1, <2>2, <2>3, RowsAloneKeepReal
<1> QED
  BY <1>2, <1>3

LEMMA EditNameKeepsReal ==
  ASSUME DirInv, RootRowsAreReal, EditName
  PROVE  RootRowsAreReal'
<1>1. UNCHANGED <<disk, renaming_file_idx, shown>>
  BY DEF EditName, viewVars
<1>2. PICK n : file_table' = [file_table EXCEPT ![renaming_file_idx].name = n]
  BY Zenon DEF EditName
<1>3. renaming_file_idx \in Slots
  BY DEF EditName, PressOnKeyboard, DirInv, ViewInv
<1> DEFINE row == [file_table[renaming_file_idx] EXCEPT !.name = n]
<1>4. file_table' = [file_table EXCEPT ![renaming_file_idx] = row]
  BY <1>2
<1>5. file_table[renaming_file_idx] \in Rows
  BY <1>3 DEF DirInv, RowsType
<1>6. /\ row.exists = file_table[renaming_file_idx].exists
      /\ row.parent = file_table[renaming_file_idx].parent
      /\ row.is_folder = file_table[renaming_file_idx].is_folder
  BY <1>5 DEF Rows
<1> HIDE DEF row
<1> QED
  BY <1>1, <1>3, <1>4, <1>6, RowsAloneKeepReal

LEMMA SaveNoteKeepsReal ==
  ASSUME DirInv, RootRowsAreReal, SaveNote
  PROVE  RootRowsAreReal'
<1>p. PICK p \in PortsAt(active_drive_idx) : \E o \in Attempts(p, {"write"}) :
        /\ Transfers(p, o)
        /\ disk' = WriteData(disk, p, file_table[current_open_file].sector, note_buf, o["write"])
  BY DEF SaveNote
<1>1. PICK o \in Attempts(p, {"write"}) :
        /\ Transfers(p, o)
        /\ disk' = WriteData(disk, p, file_table[current_open_file].sector, note_buf, o["write"])
  BY <1>p
<1> DEFINE lba == file_table[current_open_file].sector
<1>2. o["write"] \in BOOLEAN /\ (o["write"] => p \in Units) /\ note_buf \in Texts
  BY AttemptFacts DEF DirInv, NoteInv
<1>3. disk' = WriteData(disk, p, lba, note_buf, o["write"])
  BY <1>1
<1> HIDE DEF lba
<1>4. \A u \in Units : disk'[u].dir = disk[u].dir
  BY <1>2, <1>3, TextWritten
<1>5. UNCHANGED <<file_table, renaming_file_idx>> /\ shown' \in {shown, NoUnit}
  BY <1>1 DEF SaveNote, viewVars, Transfers
<1> QED
  BY <1>4, <1>5, UnitsAreNumbers DEF RootRowsAreReal

LEMMA StartRenameKeepsReal ==
  ASSUME DirInv, RootRowsAreReal, NEW f \in Slots, StartRename(f)
  PROVE  RootRowsAreReal'
<1>1. /\ UNCHANGED <<disk, file_table>> /\ renaming_file_idx' = f
      /\ shown' = IF renaming_file_idx \in {None, f} THEN shown ELSE NoUnit
  BY DEF StartRename
<1> SUFFICES ASSUME shown' \in Units
             PROVE  RowsMatch(file_table', disk'[shown'].dir, renaming_file_idx')
  BY RowsRealNext
<1>2. shown' = shown /\ renaming_file_idx \in {None, f}
  BY <1>1, UnitsAreNumbers
<1>3. RowsMatch(file_table, disk[shown].dir, renaming_file_idx)
  BY <1>2, RowsRealIsMatch
<1>4. RowsMatch(file_table, disk[shown].dir, f)
  BY <1>2, <1>3, SlotsAreNumbers DEF RowsMatch, RowIsEntry, None
<1> QED
  BY <1>1, <1>2, <1>4

LEMMA StepKeepsReal ==
  ASSUME DirInv, RootRowsAreReal, [Next]_vars
  PROVE  RootRowsAreReal'
<1>1. CASE OpenManager \/ Ref \/ Leave \/ Back \/ BackToRoot
  BY <1>1, NothingChanges DEF OpenManager, Ref, Leave, Back, BackToRoot, viewVars
<1>2. CASE OpenDrive \/ FormatDrive
  BY <1>2, OpenDriveKeepsReal, FormatKeepsReal
<1>3. CASE \E i \in 0 .. drive_count - 1 : SelectDrive(i)
  BY <1>3, NothingChanges DEF SelectDrive
<1>4. CASE \E t \in 1 .. 2 : NewInRoot(t) \/ NewInFolder(t)
  BY <1>4, NewInRootKeepsReal, NewInFolderKeepsReal
<1>5. ASSUME NEW f \in Slots,
             ClickRow(f) \/ Delete(f) \/ DeleteInFolder(f) \/ StartRename(f) \/ Import(f) \/ Recover(f)
      PROVE  RootRowsAreReal'
  <2>1. CASE ClickRow(f)
    <3>1. PICK o : Transfers(Active.unit, o)
      BY <2>1 DEF ClickRow
    <3>2. UNCHANGED <<disk, file_table, renaming_file_idx>> /\ shown' \in {shown, NoUnit}
      BY <2>1, <3>1 DEF ClickRow, Transfers
    <3> QED
      BY <3>2, NothingChanges
  <2>2. CASE Delete(f) \/ DeleteInFolder(f)
    <3> DEFINE p == Active.base_port
    <3>1. PICK steps \in {{"read", "dir"}, {"read", "dir"} \cup FileStep(f)} :
            \E o \in Attempts(p, steps) : Erase(f, p, o)
      BY <2>2 DEF Delete, DeleteInFolder
    <3>2. PICK o \in Attempts(p, steps) : Erase(f, p, o)
      BY <3>1
    <3>3. {"read", "dir"} \subseteq steps /\ UNCHANGED renaming_file_idx
      BY <2>2 DEF Delete, DeleteInFolder
    <3> HIDE DEF p
    <3> QED
      BY <3>2, <3>3, EraseKeepsReal
  <2> QED
    BY <1>5, <2>1, <2>2, StartRenameKeepsReal, ImportKeepsReal, RecoverKeepsReal
<1>6. CASE TypeText \/ NewNote \/ SaveAs \/ EnterFolder
  BY <1>6, NothingChanges DEF TypeText, NewNote, SaveAs, EnterFolder, viewVars
<1>7. CASE TurnPage \/ CloseDialog
  BY <1>7, NothingChanges DEF TurnPage, CloseDialog, Turn, viewVars
<1>8. CASE EditName \/ SaveName \/ SaveFile \/ SaveNote \/ MakeFolder \/ NextDrive
  BY <1>8, EditNameKeepsReal, SaveNameKeepsReal, SaveFileKeepsReal, SaveNoteKeepsReal,
     MakeFolderKeepsReal, NextDriveKeepsReal
<1>9. CASE UNCHANGED vars
  BY <1>9, NothingChanges DEF vars
<1> QED
  BY <1>1, <1>2, <1>3, <1>4, <1>5, <1>6, <1>7, <1>8, <1>9 DEF Next

(* The rows of the root are the entries of the disk that filled them, for  *)
(* as long as no transfer failed, the buttons that change a row worked on  *)
(* that disk and every rename was finished: whichever window a button is   *)
(* in, it changes the row and the entry of the same number alike.          *)
THEOREM RowsShowTheirDisk == Spec => []RootRowsAreReal
<1>1. Init => RootRowsAreReal
  <2> SUFFICES ASSUME Init PROVE RootRowsAreReal
    OBVIOUS
  <2>1. shown = NoUnit
    BY DEF Init
  <2> QED
    BY <2>1, UnitsAreNumbers DEF RootRowsAreReal
<1>2. DirInv /\ RootRowsAreReal /\ [Next]_vars => RootRowsAreReal'
  BY StepKeepsReal
<1> QED
  BY <1>1, <1>2, DirInvariant, PTL DEF Spec
=============================================================================
