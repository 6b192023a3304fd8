---------------------------- MODULE DiskReaders ----------------------------
(***************************************************************************)
(* Three readers of foreign disks: PART of the OS2 shell, which lists the  *)
(* partitions of every SATA port (cosmos_partition.cpp); the FAT32 folders *)
(* of OS2's disk manager (cosmos_fat32.cpp); and SCAN of OS1's SYSTEM      *)
(* window, which writes the names of a root directory into the status line *)
(* (fat32_read_root_dir).  A directory is read as far as its first sector. *)
(*                                                                         *)
(* Two sums are followed through to where they are used: the first sector  *)
(* of a cluster, kept in 16 bits by the file list, and the offset of the   *)
(* page.  A name is long or short; of a long one OS2's list keeps 12 of    *)
(* the first part's 13 characters, so that its other parts do not matter.  *)
(***************************************************************************)
EXTENDS Integers, Sequences, FiniteSets

CONSTANTS
  Ports,        (* the SATA ports PART asks, 0 and up                      *)
  Tables,       (* the GPT tables a disk may have: starts, 0 if unused     *)
  Mbrs,         (* the MBR tables: <<type, start>>                         *)
  RootDirs, SubDirs,  (* directories of the root, of the other folders     *)
  Junk,         (* what a sector may look like that is no directory        *)
  Cluster,      (* Cluster[f]: the first cluster of folder f               *)
  DataStart, PerCluster,
  StaleStart,   (* what fat32_init makes of another drive's sector         *)
  MaxFiles, PageStep, MaxPage,  (* 28 and 10; bound: the offset of a page  *)
  MaxShown      (* the names that fit into the status line                 *)

ASSUME BoundsAssumption  == MaxFiles \in Nat /\ PageStep \in Nat /\ MaxPage \in Nat /\ MaxShown \in Nat \ {0}
ASSUME PortsAssumption   == IsFiniteSet(Ports) /\ Ports = 0 .. Cardinality(Ports) - 1
ASSUME TablesAssumption  == Tables \subseteq Seq(Nat) /\ Mbrs \subseteq Seq(Nat \X Nat)
ASSUME DiskAssumption    ==
  PerCluster \in Nat \ {0} /\ \A s \in {DataStart, StaleStart} : s \in Nat /\ s >= 2 * PerCluster
ASSUME ClusterAssumption ==
  /\ DOMAIN Cluster \subseteq STRING \ {".."} /\ "root" \in DOMAIN Cluster
  /\ \A f \in DOMAIN Cluster : Cluster[f] \in Nat /\ Cluster[f] >= 2
  /\ \A f, g \in DOMAIN Cluster : Cluster[f] = Cluster[g] => f = g

VARIABLES
  reader,       (* the reader of this behaviour                            *)
  disk, live,   (* disk[p]: what is at port p; the ports that transfer      *)
  port, starts, printed,    (* PART: the next port, gpt_partition_starts, output *)
  sector,       (* PART's one buffer, at 0x06000000: which sector it holds *)
  late, sure,   (* a timed-out transfer may still come; history: the ports *)
                (* that transfer and were asked when none could            *)
  dirs, sized,  (* the folders' directories; bytes_per_sector is 512       *)
  base,         (* fat32_data_start                                        *)
  lba, page,    (* active_fat32_folder_lba, current_page_offset            *)
  buffer, rows, (* buf_dir, cfs_files                                      *)
  inside,       (* current_folder_id # 255                                 *)
  folder, known, read, (* history: the folder asked for; lba is its sector; *)
                (* the last read worked                                    *)
  text          (* SCAN's output                                           *)

partVars == <<disk, live, port, starts, printed, sector, late, sure>>
listVars == <<base, lba, page, buffer, rows, inside, folder, known, read>>
vars == <<reader, dirs, sized, partVars, listVars, text>>

(***************************************************************************)
(* Directory entries.                                                      *)
(***************************************************************************)
Entry(kind, name, order) == [kind |-> kind, name |-> name, order |-> order]
End        == Entry("end", "none", 0)
Deleted    == Entry("deleted", "none", 0)
DeletedPart == Entry("deleted part", "none", 0)   (* of a long name        *)
VolumeId   == Entry("label", "none", 0)
Part(n, k) == Entry("part", n, k)       (* the k-th part of a long name    *)
File(n)    == Entry("file", n, 0)
Folder(f)  == Entry("folder", f, 0)
Parent     == Folder("..")

Kinds == {"end", "deleted", "deleted part", "label", "part", "file", "folder"}

IsLive(e) == e.kind \in {"file", "folder"}
(* A sector's entries; a folder has one of the known clusters.             *)
IsSector(dir) ==
  /\ dir \in Seq([kind : Kinds, name : STRING, order : Nat])
  /\ \A i \in DOMAIN dir : dir[i].kind = "folder" => dir[i].name \in DOMAIN Cluster \cup {".."}

(* Every directory a system may have written: the parts of a long name     *)
(* stand before their file, last part first, or before a file that was     *)
(* deleted by a system that knows no long names.                           *)
Written(dir) ==
  \A i \in DOMAIN dir \ {Len(dir)} : dir[i].kind = "part" =>
    dir[i + 1] \in {Deleted} \cup
      IF dir[i].order = 1 THEN {File(dir[i].name), Folder(dir[i].name)}
                          ELSE {Part(dir[i].name, dir[i].order - 1)}

ASSUME SectorsAssumption == \A dir \in RootDirs \cup SubDirs \cup Junk : IsSector(dir)
ASSUME WrittenAssumption == \A dir \in RootDirs \cup SubDirs : Written(dir)

Long(n)  == <<"long", n>>
Short(n) == <<"short", n>>
NoName   == <<"no", "name">>
Unread   == <<NoName>>          (* a message instead of names              *)

\* The parent of a folder in the root has cluster 0, not the root's.
ClusterOf(f) == IF f = ".." THEN 0 ELSE Cluster[f]
LbaFrom(start, c) == start + (c - 2) * PerCluster
Lba(c) == LbaFrom(DataStart, c)

LbaLimit == 65536               (* FileEntry.start_lba has 16 bits         *)
StartLba(e, start) == IF e.kind = "folder" THEN LbaFrom(start, ClusterOf(e.name)) % LbaLimit ELSE 0

(***************************************************************************)
(* PART: scan_partitions at one port after the other, into one buffer that *)
(* is never cleared.  ahci_read_sectors says yes without a transfer at a   *)
(* port that is empty or whose engine stands still: what another port left *)
(* is then read as this port's.                                            *)
(***************************************************************************)
Counted(table) ==
  LET counted[n \in 0 .. Len(table)] ==
        IF n = 0 THEN <<>>
        ELSE IF table[n] = 0 THEN counted[n - 1] ELSE Append(counted[n - 1], table[n])
  IN  counted

Used(table) == Counted(table)[Len(table)]
UsedMbr(table) == Used([i \in DOMAIN table |-> IF table[i][1] = 0 THEN 0 ELSE table[i][2]])

\* Mutant of Before: the count is not put back.
Kept == starts

Before == <<>>

Sectors == {<<"boot", 0>>} \cup {"header", "table", "mbr"} \X Ports

Reads(p, kind, before) ==
  {[ok |-> FALSE, sector |-> before]} \cup
  IF p \in live THEN {[ok |-> worked, sector |-> <<kind, p>>] : worked \in BOOLEAN}
                ELSE {[ok |-> TRUE, sector |-> before]}

(* What a sector says when it is taken for a GPT header, for a GPT table,  *)
(* for an MBR; of one that is something else, it may be anything.          *)
Misread == {<<>>} \cup {Used(t) : t \in Tables}

AsHeader(s) == IF s[1] = "header" THEN {disk[s[2]].gpt} ELSE IF s[1] = "boot" THEN BOOLEAN ELSE {FALSE}
AsTable(s)  == IF s[1] = "table" THEN {Used(disk[s[2]].table)} ELSE Misread
AsMbr(s)    == IF s[1] = "mbr" THEN {IF disk[s[2]].signed THEN UsedMbr(disk[s[2]].mbr) ELSE <<>>} ELSE Misread

(* A disk whose header cannot be read is taken for an MBR disk.            *)
ScanPartitions(p) ==
  \E first \in Reads(p, "header", sector) : \E gpt \in AsHeader(first.sector) :
    LET kind == IF first.ok /\ gpt THEN "table" ELSE "mbr" IN
    \E second \in Reads(p, kind, first.sector) :
      \E found \in IF late THEN Misread ELSE IF ~second.ok THEN {<<>>}
                   ELSE IF kind = "table" THEN AsTable(second.sector) ELSE AsMbr(second.sector) :
        /\ starts' = Before \o found
        /\ sector' = second.sector
        /\ late' \in {late, late \/ (p \in live /\ ~ (first.ok /\ second.ok))}

PartPort ==
  /\ reader = "PART" /\ port \in Ports
  /\ ScanPartitions(port)
  /\ printed' = printed \o [i \in DOMAIN starts' |-> <<port, starts'[i]>>]
  /\ port' = port + 1
  /\ sure' = IF port \in live /\ ~late THEN sure \cup {port} ELSE sure
  /\ UNCHANGED <<reader, dirs, sized, disk, live, listVars, text>>

LateTransfer ==
  /\ late
  /\ sector' \in {"header", "table", "mbr"} \X live /\ late' \in BOOLEAN
  /\ UNCHANGED <<reader, dirs, sized, disk, live, port, starts, printed, sure, listVars, text>>

(* It may be typed again.                                                  *)
PartAgain ==
  /\ reader = "PART" /\ port \notin Ports
  /\ port' = 0 /\ printed' = <<>> /\ sure' = {}
  /\ UNCHANGED <<reader, dirs, sized, disk, live, starts, sector, late, listVars, text>>

(***************************************************************************)
(* fat32_list_dir: one pass over the entries.  long is the name in the LFN *)
(* buffer, over is set by the break.                                       *)
(***************************************************************************)
Row(e, long, start) ==
  [name |-> IF long # NoName THEN long ELSE Short(e.name),
   folder |-> e.kind = "folder", to |-> e.name, lba |-> StartLba(e, start)]

\* Mutant of AfterGap: the buffer for long names is not cleared.
Uncleared(acc) == acc

AfterGap(acc) == [acc EXCEPT !.long = NoName]

Listed(acc, e, skip, start) ==
  CASE acc.over -> acc
    [] ~acc.over /\ (Len(acc.rows) = MaxFiles \/ e.kind = "end") -> [acc EXCEPT !.over = TRUE]
    [] OTHER ->
       CASE e.kind \in {"deleted", "deleted part", "label"} -> AfterGap(acc)
         [] e.kind = "part" -> IF e.order = 1 THEN [acc EXCEPT !.long = Long(e.name)] ELSE acc
         [] IsLive(e) /\ acc.skipped < skip -> AfterGap([acc EXCEPT !.skipped = @ + 1])
         [] OTHER -> AfterGap([acc EXCEPT !.rows = Append(@, Row(e, acc.long, start))])

NoRows == [rows |-> <<>>, skipped |-> 0, long |-> NoName, over |-> FALSE]

Listing(dir, skip, start) ==
  LET acc[n \in 0 .. Len(dir)] == IF n = 0 THEN NoRows ELSE Listed(acc[n - 1], dir[n], skip, start)
  IN  acc

ListDir(dir, skip, start) == Listing(dir, skip, start)[Len(dir)].rows

(* The folders of a disk: a root and others.                               *)
Trees == {[f \in DOMAIN Cluster |-> IF f = "root" THEN r ELSE s[f]] :
            r \in RootDirs, s \in [DOMAIN Cluster \ {"root"} -> SubDirs]}

Init ==
  /\ reader \in {"PART", "DISK MANAGER", "SCAN"}
  /\ disk \in IF reader # "PART" THEN {<<>>}
              ELSE [Ports -> [gpt : BOOLEAN, signed : BOOLEAN, table : Tables, mbr : Mbrs]]
  /\ live \in IF reader = "PART" THEN SUBSET Ports ELSE {{}}
  /\ port = 0 /\ starts = <<>> /\ printed = <<>>
  /\ sector = <<"boot", 0>> /\ late = FALSE /\ sure = {}
  /\ dirs \in IF reader = "PART" THEN {<<>>} ELSE Trees
  /\ sized \in IF reader = "DISK MANAGER" THEN BOOLEAN ELSE {TRUE}
  /\ base = DataStart /\ lba = 0 /\ page = 0 /\ buffer = <<>> /\ rows = <<>>
  /\ inside = FALSE /\ folder = "none" /\ known = FALSE /\ read = FALSE /\ text = Unread

(***************************************************************************)
(* The disk manager.  Each button ends in a refresh, which reads a sector  *)
(* (the result is ignored) and lists what is in the buffer then.           *)
(***************************************************************************)
Sector(l) == IF \E f \in DOMAIN Cluster : Lba(Cluster[f]) = l
             THEN {dirs[f] : f \in {g \in DOMAIN Cluster : Lba(Cluster[g]) = l}}
             ELSE Junk

Refresh(f, found) ==
  /\ folder' = f /\ known' = found
  /\ \/ buffer' \in Sector(lba') /\ read' = TRUE
     \/ buffer' = buffer /\ read' = FALSE
  /\ rows' = ListDir(buffer', page', base')
  /\ UNCHANGED <<reader, dirs, sized, partVars, text>>

(* The result of reading the boot sector is ignored too.  fat32_init looks *)
(* at one field of it; what was in buf_dir before may pass for it.         *)
InitFails ==
  /\ reader = "DISK MANAGER" /\ ~inside
  /\ rows' = <<>> /\ known' = FALSE
  /\ UNCHANGED <<reader, dirs, sized, partVars, base, lba, page, buffer, inside, folder, read, text>>

MountFat32 ==
  /\ reader = "DISK MANAGER" /\ ~inside
  /\ base' \in {StaleStart} \cup IF sized THEN {DataStart} ELSE {}
  /\ lba' = LbaFrom(base', Cluster["root"]) /\ page' = 0
  /\ UNCHANGED inside
  /\ Refresh("root", base' = DataStart)

Fits(f) == f # ".." /\ Lba(Cluster[f]) < LbaLimit

EnterFolder(i) ==
  /\ rows[i].folder
  /\ lba' = rows[i].lba /\ page' = 0 /\ inside' = TRUE
  /\ UNCHANGED base
  /\ Refresh(IF rows[i].to = ".." THEN "root" ELSE rows[i].to, base = DataStart /\ Fits(rows[i].to))

BackToRoot ==
  /\ inside
  /\ lba' = LbaFrom(base, Cluster["root"]) /\ page' = 0 /\ inside' = FALSE
  /\ UNCHANGED base
  /\ Refresh("root", base = DataStart)

\* PREV, NEXT and REF are drawn inside folders only.
Turn(to) ==
  /\ inside
  /\ page' = to /\ UNCHANGED <<base, lba, inside>>
  /\ Refresh(folder, known)

NextPage == page + PageStep <= MaxPage /\ Turn(page + PageStep)
PrevPage == Turn(IF page >= PageStep THEN page - PageStep ELSE page)
Ref      == Turn(page)

(***************************************************************************)
(* fat32_read_root_dir: the names one after the other.  has is the flag    *)
(* that the LFN buffer is in use.  The test for deleted entries compares a *)
(* signed char with 0xE5 and is never true: a deleted file is written like *)
(* any other, a deleted part of a long name counts as its fifth part.      *)
(***************************************************************************)
\* Mutant of WithoutFlag: the flag is not taken back.
FlagKept(acc) == acc

WithoutFlag(acc) == [acc EXCEPT !.has = FALSE]

Spelled(acc, e) ==
  CASE acc.over \/ e.kind = "end" -> [acc EXCEPT !.over = TRUE]
    [] ~acc.over /\ e.kind = "label" -> WithoutFlag(acc)
    [] ~acc.over /\ e.kind = "part" ->
         [acc EXCEPT !.has = TRUE, !.long = IF e.order = 1 THEN Long(e.name) ELSE @]
    [] ~acc.over /\ e.kind = "deleted part" -> [acc EXCEPT !.has = TRUE]
    [] ~acc.over /\ e.kind \in {"file", "folder", "deleted"} ->
         WithoutFlag([acc EXCEPT !.names = Append(@, IF acc.has THEN acc.long ELSE Short(e.name)),
                                 !.long = NoName, !.over = Len(acc.names) + 1 = MaxShown])

NoNames == [names |-> <<>>, has |-> FALSE, long |-> NoName, over |-> FALSE]

Spelling(dir) ==
  LET acc[n \in 0 .. Len(dir)] == IF n = 0 THEN NoNames ELSE Spelled(acc[n - 1], dir[n])
  IN  acc

ReadRootDir(dir) == Spelling(dir)[Len(dir)].names

Scan ==
  /\ reader = "SCAN"
  /\ \/ text' = ReadRootDir(dirs["root"]) /\ read' = TRUE
     \/ text' \in {Unread} \cup {ReadRootDir(left) : left \in Junk} /\ read' = FALSE
  /\ UNCHANGED <<reader, dirs, sized, partVars, base, lba, page, buffer, rows, inside, folder, known>>

Next ==
  \/ PartPort \/ PartAgain \/ LateTransfer
  \/ InitFails \/ MountFat32 \/ BackToRoot \/ NextPage \/ PrevPage \/ Ref
  \/ \E i \in DOMAIN rows : EnterFolder(i)
  \/ Scan

Spec == Init /\ [][Next]_vars

(***************************************************************************)
(* What a directory says, read without a buffer: its files and folders are *)
(* counted from 1, and each has its name at its own place.                 *)
(***************************************************************************)
Places(dir, kinds) == {i \in DOMAIN dir : dir[i].kind \in kinds /\ \A j \in 1 .. i : dir[j].kind # "end"}
CountTo(places, n) == Cardinality({i \in places : i <= n})

NameAt(dir, i) == IF i > 1 /\ dir[i - 1] = Part(dir[i].name, 1)
                  THEN Long(dir[i].name) ELSE Short(dir[i].name)
NamesIn(dir) == [i \in DOMAIN dir |-> NameAt(dir, i)]

(* The names are those of the places behind the first "from", in their     *)
(* order and without a gap, as many as there is room for.                  *)
Shows(names, places, name, from, room) ==
  /\ \A i \in places : CountTo(places, i) - from \in 1 .. room =>
       /\ CountTo(places, i) - from \in DOMAIN names
       /\ names[CountTo(places, i) - from] = name[i]
  /\ \A k \in DOMAIN names : k <= room /\ \E i \in places : CountTo(places, i) = from + k

(* The list holds no more than it has room for, and pages are within reach. *)
TypeOK ==
  /\ Len(rows) <= MaxFiles /\ page \in 0 .. MaxPage
  /\ \A i \in DOMAIN rows : rows[i].lba \in 0 .. LbaLimit - 1
  /\ port \in 0 .. Cardinality(Ports)

(* PART shows under a port that transfers the partitions of that port, and *)
(* all of the table it read, although one buffer, one count and one array  *)
(* serve all ports, any read may fail, and ports that transfer nothing are *)
(* asked before: unless a transfer that timed out can still come.          *)
LinesOf(p) == {i \in DOMAIN printed : printed[i][1] = p}

PartitionsAreOwn ==
  \A p \in sure :
    \E own \in {<<>>, UsedMbr(disk[p].mbr)} \cup IF disk[p].gpt THEN {Used(disk[p].table)} ELSE {} :
      \E above \in 0 .. Len(printed) :
        /\ LinesOf(p) = above + 1 .. above + Len(own)
        /\ \A i \in 1 .. Len(own) : printed[above + i][2] = own[i]

(* What is listed fits its arrays, and PART's is each port's own.          *)
TablesAreSound == TypeOK /\ PartitionsAreOwn

(* The disk manager lists the folder that was clicked, from the page's     *)
(* first entry on, each entry once and under its own name, whatever was    *)
(* deleted, skipped or listed before: if the last read worked and the      *)
(* folder's sector has not more than 16 bits.                              *)
FolderShown ==
  known /\ read =>
    /\ Shows([k \in DOMAIN rows |-> rows[k].name],
             Places(dirs[folder], {"file", "folder"}), NamesIn(dirs[folder]), page, MaxFiles)
    /\ \A k \in DOMAIN rows : rows[k].to = rows[k].name[2]

(* SCAN writes the names of the root, as many as there is room for.  The   *)
(* deleted files are among them, each at its place and under the name its  *)
(* parts left, and still every file that lives is written under its own    *)
(* name: except without one, behind the part of a deleted name.            *)
ScannedName(dir, i) ==
  LET before == IF i = 1 THEN VolumeId ELSE dir[i - 1] IN
  CASE before.kind = "deleted part"                     -> NoName
    [] before.kind # "deleted part" /\ IsLive(dir[i])   -> NameAt(dir, i)
    [] before.kind = "part" /\ dir[i].kind = "deleted"  -> IF before.order = 1 THEN Long(before.name) ELSE NoName
    [] OTHER -> Short(dir[i].name)

NamesAreOwn ==
  reader = "SCAN" /\ read =>
    LET dir == dirs["root"]
    IN  Shows(text, Places(dir, {"file", "folder", "deleted"}),
              [i \in DOMAIN dir |-> ScannedName(dir, i)], 0, MaxShown)
=============================================================================
