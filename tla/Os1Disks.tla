------------------------------ MODULE Os1Disks ------------------------------
(***************************************************************************)
(* The disks of OS1 and how the disk manager of kernel.cpp looks at them:  *)
(* the drive list that ahci_mount_drive builds and ahci_read_mbr labels,   *)
(* fs_read_sectors, and what OPEN DRIVE makes of the first sectors         *)
(* (analyze_mbr, analyze_gpt, analyze_gpt_entries, analyze_vbr,            *)
(* analyze_mft_root) and of the directory it then finds.                   *)
(***************************************************************************)
EXTENDS Integers, FiniteSets

CONSTANTS
  Ports,       (* SATA ports that a disk may be connected to               *)
  Sticks,      (* USB sticks: units that are not ports                     *)
  StickPort,   (* base_port of a stick: its USB address                    *)
  Slots,       (* 0 .. 27: entries of a directory, rows of file_table      *)
  ReaderRows,  (* how many rows the FAT and exFAT readers fill; 8          *)
  FatLba,      (* where the file of a FAT disk lies                        *)
  MaxFails     (* bound: transfers that fail                               *)

ASSUME SlotsAssumption == \E n \in 0 .. 27 : Slots = 0 .. n
ASSUME UnitsAssumption ==
  /\ Ports \subseteq 0 .. 31 /\ Ports # {}
  /\ Sticks \subseteq Nat \ (0 .. 31) /\ IsFiniteSet(Sticks) /\ Cardinality(Sticks) <= 1
  /\ StickPort \in 0 .. 31
ASSUME LbaAssumption == ReaderRows \in Nat /\ FatLba \in Nat \ {0} /\ MaxFails \in Nat

Units  == Ports \cup Sticks
Root   == 255
Sector(i) == 4000 + i          (* the data sector that belongs to slot i   *)
Lbas   == {Sector(i) : i \in Slots} \cup {FatLba}
Texts  == {"none", "old", "typed"}   (* what a data sector holds           *)
Names  == {"", "auto", "typed", "fixed", "garbled"}

Entry(t, n, l) == [type |-> t, name |-> n, lba |-> l]
Entries  == [type : 0 .. 2, name : Names, lba : {0} \cup Lbas]
NoDirectory == [i \in Slots |-> Entry(0, "", 0)]

Gpt   == {"gptntfs", "gptexfat", "gptother"}
Kinds == Gpt \cup {"cfs", "blank", "fat32", "exfat", "ntfs", "ext", "apk"}

VARIABLES
  disk,          (* per unit: kind, dir (sectors 1002 ff.) and data        *)
  drives, drive_count,
  file_table,
  mft_known,     (* mft_start_lba > 0                                      *)
  is_ntfs,       (* the global one                                         *)
  fails          (* how many transfers have failed                         *)

MaxDrives == 8
Places == 0 .. MaxDrives - 1
\* A drive of the list.  Its label is what its model string says of a file
\* system; "formatted" is the label FORMAT writes, "[CFS] BARE METAL DRIVE".
Drive(t, u, p, l) == [type |-> t, unit |-> u, base_port |-> p, label |-> l]
NoUnit  == -1
NoPort  == -1
Nothing == Drive(0, NoUnit, 0, "none")

LabelOf(kind) ==
  CASE kind = "blank" -> "none" [] kind = "apk" -> "none"
    [] kind \in Gpt -> "GPT"    [] OTHER -> kind

Labels == {"none", "error", "GPT", "formatted"} \cup Kinds
SaysCfs(d) == d.label \in {"cfs", "formatted"}
SaysFat(d) == d.label \in {"fat32"}
\* OPEN DRIVE and FORMAT stand in front of LOCKED.
Locked(d) == d.type = 3 \/ d.label \in {"ntfs", "exfat", "fat32", "cfs", "formatted"}

(* ahci_mount_drive keeps what is not SATA and adds the ports that answer  *)
(* or fail to, while there is a place; a new entry has the disk's own name *)
(* and no label.                                                           *)
Capped(n) == IF n < MaxDrives THEN n ELSE MaxDrives
NewCount(kept, up) == Capped(Cardinality(kept) + Cardinality(up))
Rescanned(answers, broken) ==
  LET kept  == {i \in 0 .. drive_count - 1 : drives[i].type # 2}
      At(n) == CHOOSE i \in kept : Cardinality({j \in kept : j < i}) = n
      k     == Cardinality(kept)
      up    == answers \cup broken
      Port(n) == CHOOSE p \in up : Cardinality({q \in up : q < p}) = n
  IN  [count |-> NewCount(kept, up),
       list  |-> [i \in Places |->
                    IF i < k THEN drives[At(i)]
                    ELSE IF i < k + Cardinality(up)
                    THEN LET p == Port(i - k)
                         IN  Drive(2, p, p, IF p \in broken THEN "error" ELSE "none")
                    ELSE drives[i]]]

Mount ==
  \E answers \in SUBSET Ports : \E broken \in SUBSET (Ports \ answers) :
    LET r == Rescanned(answers, broken)
    IN  drives' = r.list /\ drive_count' = r.count

\* fs_read_sectors refuses an index outside the list.
Reachable(i) == i \in 0 .. drive_count - 1
\* What ahci_read_sectors and ahci_write_sectors are given as a port.  The
\* list has nothing at -1: the number there is that of any port, or of none.
PortsAt(i) == IF i \in Places THEN {drives[i].base_port} ELSE Ports \cup {NoPort}

\* The outcomes of a transfer from or to a port or unit.
Outcomes(u) == IF u \notin Units THEN {FALSE}
               ELSE IF fails < MaxFails THEN BOOLEAN ELSE {TRUE}
Failed(outcomes) == \E k \in DOMAIN outcomes : ~outcomes[k]
Count(u, outcomes) == fails' = IF u \in Units /\ Failed(outcomes) THEN fails + 1 ELSE fails

(***************************************************************************)
(* OPEN DRIVE                                                              *)
(***************************************************************************)
\* A GPT disk sends OPEN through its partition table to the volume and,
\* where an NTFS volume was ever found, to the MFT: boot_sec then holds what
\* was read last.
HasPartition(kind) == kind \in {"gptntfs", "gptexfat"}
MftAfter(kind) == mft_known \/ kind = "gptntfs"
BootSector(kind) ==
  CASE kind \notin Gpt     -> "first"
    [] kind = "gptntfs"    -> "record"
    [] kind = "gptexfat"   -> IF mft_known THEN "no record" ELSE "volume"
    [] OTHER               -> "table"

LookAround(kind) ==
  /\ mft_known' = MftAfter(kind)
  /\ is_ntfs' = (is_ntfs \/ (HasPartition(kind) /\ MftAfter(kind)))

Row(e) == [exists |-> TRUE, is_folder |-> e.type = 2, name |-> e.name,
           sector |-> e.lba, parent |-> Root]
Rows == [exists : BOOLEAN, is_folder : BOOLEAN, name : Names,
         sector : {0} \cup Lbas, parent : Slots \cup {Root}]
Absent(row) == [row EXCEPT !.exists = FALSE]
Label(row, n) == [row EXCEPT !.exists = TRUE, !.is_folder = FALSE, !.name = n, !.parent = Root]

CfsRows(dir) ==
  [i \in Slots |-> IF dir[i].type # 0 THEN Row(dir[i]) ELSE Absent(file_table[i])]

\* The readers of FAT32 and exFAT fill the first rows and leave the others.
ReaderTable(found) ==
  [i \in Slots |-> IF i >= ReaderRows THEN file_table[i]
                   ELSE IF i \in found THEN Row(Entry(1, "typed", FatLba))
                   ELSE Absent(file_table[i])]

\* analyze_mft_root fills the first rows with names and nothing else.
MftTable(found) ==
  [i \in Slots |-> IF i >= ReaderRows THEN file_table[i]
                   ELSE IF i \in found THEN [file_table[i] EXCEPT !.exists = TRUE, !.name = "typed"]
                   ELSE Absent(file_table[i])]

\* EXT: two rows that name the drive; their sectors stay what they were.
FixedTable ==
  [i \in Slots |-> IF i <= 1 THEN Label(file_table[i], "fixed") ELSE Absent(file_table[i])]

\* APK: the bytes of the directory's sectors are taken for a file_table as
\* they are; where no row exists in them, row 0 names the drive.
Garbled(i, rows) == [exists |-> i \in rows, is_folder |-> FALSE, name |-> "garbled",
                     sector |-> 0, parent |-> 0]
RawTable(rows) ==
  [i \in Slots |-> IF rows = {} /\ i = 0 THEN Label(Garbled(0, {}), "fixed")
                   ELSE Garbled(i, rows)]

\* The table OPEN leaves, from what it read last and the directory dir; what
\* none of the readers knows leaves the rows of the drive before.
OpenedTable(kind, boot, dir, rows) ==
  CASE kind = "cfs" -> CfsRows(dir)
    [] kind \in {"fat32", "exfat"} \/ boot = "volume" -> ReaderTable(rows)
    [] boot = "record" -> MftTable(rows)
    [] kind = "ext" -> FixedTable
    [] kind = "apk" -> RawTable(rows)
    [] OTHER -> file_table
\* Which rows a reader may find.
FoundRows(kind) == IF kind = "apk" THEN SUBSET Slots ELSE SUBSET {i \in Slots : i < ReaderRows}
=============================================================================
