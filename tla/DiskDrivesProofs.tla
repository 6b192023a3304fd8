-------------------------- MODULE DiskDrivesProofs --------------------------
(***************************************************************************)
(* That the drive list is sound, that an index means the drive that was    *)
(* clicked, that a drive's name is its own, and that the driver implements *)
(* BlockDevice.  The list is sorted: the scan looks at the ports in their  *)
(* order, and only a stick can come behind the disks.  The trusted ports   *)
(* owe nothing but the request that is being worked on.                    *)
(***************************************************************************)
EXTENDS DiskDrives, FiniteSetTheorems, FunctionTheorems, WellFoundedInduction, TLAPS

InList == 0 .. drive_count - 1

(* A call to the driver runs, or its answer has not been looked at.        *)
Awaiting == pc # "free" \/ answer # "none"

(* Only a running command engine has work.                                 *)
EngineInv == \A p \in Ports : (slot[p] # NoRequest \/ fetched[p] # NoRequest) => p \in engine

CallInv ==
  /\ pc # "free" => answer = "none" /\ cur \in Requests
  /\ pc \in {"preparing", "waiting"} => caller = "open"
  /\ caller = "none" => ~Awaiting
  /\ caller = "open" => OnSata
  /\ (caller = "label" /\ Awaiting) =>
       looked_at < drive_count /\ port = drives[looked_at].base_port

(* What stands in the places of drives, listed or left over.               *)
PlacesInv ==
  \A i \in Places : /\ drives[i].type = 2 => drives[i].base_port \in Ports
                    /\ drives[i].type = 3 => drives[i].base_port = 0

(* Disks in the order of their ports; a stick may follow them, but not     *)
(* before the user has had it looked for.                                  *)
OnlyDisks == caller \in {"mount", "label"} \/ (drives_scanned /\ ~usb_scanned)
OrderInv ==
  /\ \A i \in InList : drives[i].type \in {2, 3}
  /\ OnlyDisks => \A i \in InList : drives[i].type = 2
  /\ \A i, j \in InList : i < j =>
       /\ drives[i].type = 2
       /\ drives[j].type = 2 => drives[i].base_port < drives[j].base_port

(* The ports that are listed, the one that is looked at and those that     *)
(* have not been come in this order.                                       *)
MountInv ==
  caller = "mount" =>
    /\ \A i \in InList, p \in unmounted : drives[i].base_port < p
    /\ Awaiting => /\ \A p \in unmounted : port < p
                   /\ \A i \in InList : drives[i].base_port < port

ListTypeOK ==
  /\ drives \in [Places -> [type : {0, 2, 3}, base_port : Ports \cup {0}, label : Contents]]
  /\ drive_count \in 0 .. MaxDrives
  /\ drives_scanned \in BOOLEAN /\ usb_scanned \in BOOLEAN
  /\ clicks \in 0 .. MaxClicks
  /\ selected_drive_idx \in Places \cup {Unselected}
  /\ same \in BOOLEAN
  /\ caller \in {"none", "mount", "label", "open", "opened", "user"}
  /\ unmounted \subseteq Ports /\ looked_at \in 0 .. MaxDrives

ListInv ==
  /\ PortTypeOK /\ EngineInv /\ CallInv
  /\ ListTypeOK /\ PlacesInv /\ OrderInv /\ MountInv

-----------------------------------------------------------------------------
(* Facts about the constants.                                              *)

LEMMA PortsAreNumbers ==
  \A p \in Ports : p \in Nat /\ p <= 31
BY PortsAssumption

(* First(S) is the least port of S.                                        *)
LEMMA FirstIsLeast ==
  ASSUME NEW S \in SUBSET Ports, S # {}
  PROVE  First(S) \in S /\ \A q \in S : First(S) <= q
<1>1. S \subseteq Nat
  BY PortsAreNumbers
<1>2. PICK p \in S : \A q \in S : <<q, p>> \notin OpToRel(<, Nat)
  BY <1>1, NatLessThanWellFounded, WFMin
<1>3. \A q \in S : p <= q
  <2> TAKE q \in S
  <2>1. ~(q < p)
    BY <1>1, <1>2 DEF OpToRel
  <2> QED
    BY <1>1, <2>1
<1> QED
  BY <1>3 DEF First

(* OS2 empties the list before ahci_mount_drive filters it.                *)
LEMMA ScanEmptiesTheList == Retained(CountBeforeScan) = [i \in Places |-> drives[i]] /\ NewCount = 0
<1>1. Kept(CountBeforeScan) = {}
  BY DEF Kept, CountBeforeScan
<1>2. Cardinality(Kept(CountBeforeScan)) = 0
  BY <1>1, FS_EmptySet
<1>3. \A i \in Places : ~(i < 0)
  BY MaxDrivesAssumption DEF Places
<1> QED
  BY <1>2, <1>3 DEF Retained, NewCount

LEMMA RequestFacts ==
  /\ NoRequest.buf = Scratch /\ NoRequest.op = "none" /\ NoRequest \notin Requests
  /\ Identify \in Requests /\ Identify.buf = Scratch
  /\ Boot \in Bufs /\ Out \in Bufs /\ Scratch \notin Bufs /\ Scratch # Boot
  /\ 0 \in Lbas /\ SaveLba \in Lbas /\ SaveLba # 0
  /\ \A l \in Lbas, b \in Bufs \cup {Scratch} : Read(l, b) \in Requests /\ Write(l, b) \in Requests
BY BufferAssumption, SectorAssumption
   DEF NoRequest, Requests, Identify, Scratch, Boot, Out, SaveLba, Read, Write

LEMMA ContentFacts ==
  /\ Zero \in Contents /\ Typed \in Contents
  /\ \A p \in Ports, l \in Lbas : SectorOf(p, l) \in Contents
BY DEF Contents

-----------------------------------------------------------------------------
(* The types of the driver and its adapter.                                *)

PortInv == PortTypeOK /\ EngineInv /\ (pc # "free" => cur \in Requests)

LEMMA FetchTyped ==
  ASSUME PortInv, NEW p \in Ports, Fetch(p)
  PROVE  PortTypeOK' /\ EngineInv'
BY DEF PortInv, PortTypeOK, EngineInv, Fetch, driver

LEMMA TransferTyped ==
  ASSUME PortInv, NEW p \in Ports, Transfer(p)
  PROVE  PortTypeOK' /\ EngineInv'
<1> DEFINE r == fetched[p]
<1> USE DEF PortInv, PortTypeOK
<1>1. r \in Requests /\ r.lba \in Lbas
  BY DEF Transfer, Requests
<1>2. Held(r.buf) \in Contents
  BY ContentFacts DEF Held
<1>3. disk' \in [Ports -> [Lbas -> Contents]]
  BY <1>1, <1>2 DEF Transfer
<1>4. mem' \in [Bufs -> Contents]
  BY <1>1, ContentFacts DEF Transfer
<1>5. fetched' \in [Ports -> Requests \cup {NoRequest}]
  BY DEF Transfer
<1>6. carried' \in BOOLEAN
  BY DEF Transfer
<1>7. EngineInv'
  BY DEF Transfer, EngineInv
<1> QED
  BY <1>3, <1>4, <1>5, <1>6, <1>7 DEF Transfer, driver

LEMMA FailTyped ==
  ASSUME PortInv, NEW p \in Ports, Fail(p)
  PROVE  PortTypeOK' /\ EngineInv'
BY DEF PortInv, PortTypeOK, EngineInv, Fail, driver

LEMMA DriverTyped ==
  ASSUME PortInv, Driver
  PROVE  PortTypeOK' /\ EngineInv'
<1> USE DEF PortInv, PortTypeOK, EngineInv, hba
<1>1. CASE Issue
  BY <1>1 DEF Issue
<1>2. CASE Done
  BY <1>2 DEF Done, Returns
<1>3. CASE GiveUp
  BY <1>3 DEF GiveUp, Returns
<1>4. CASE Waited
  BY <1>4 DEF Waited, Returns
<1> QED
  BY <1>1, <1>2, <1>3, <1>4 DEF Driver

(* A slot that is written over while it holds a command.                   *)
LEMMA TornFacts ==
  ASSUME PortTypeOK, NEW p \in Ports, NEW r \in Requests
  PROVE  /\ Torn(p, r) \in Requests \cup {NoRequest}
         /\ Torn(p, r) = NoRequest <=> slot[p] = NoRequest
         /\ slot[p] # NoRequest => Torn(p, r) \in Requests
         /\ Torn(p, r).buf = slot[p].buf
         /\ slot[p] # NoRequest => Torn(p, r).op = r.op /\ Torn(p, r).lba = r.lba
<1>1. CASE slot[p] = NoRequest
  BY <1>1 DEF Torn
<1>2. CASE slot[p] # NoRequest
  <2>1. slot[p] \in Requests
    BY <1>2 DEF PortTypeOK
  <2>2. Torn(p, r) = [r EXCEPT !.buf = slot[p].buf]
    BY <1>2 DEF Torn
  <2>3. Torn(p, r) \in Requests /\ Torn(p, r).buf = slot[p].buf
        /\ Torn(p, r).op = r.op /\ Torn(p, r).lba = r.lba
    BY <2>1, <2>2 DEF Requests
  <2> QED
    BY <1>2, <2>3, RequestFacts
<1> QED
  BY <1>1, <1>2

LEMMA BeginTyped ==
  ASSUME PortInv, NEW p \in Ports, NEW r \in Requests, NEW patient \in BOOLEAN,
         Begin(p, r, patient), mem' \in [Bufs -> Contents]
  PROVE  PortTypeOK' /\ EngineInv'
<1>1. slot' = [slot EXCEPT ![p] = Torn(p, r)] /\ slot' \in [Ports -> Requests \cup {NoRequest}]
  BY TornFacts DEF PortInv, PortTypeOK, Begin
<1>2. EngineInv'
  BY <1>1, TornFacts DEF PortInv, PortTypeOK, EngineInv, Begin
<1> QED
  BY <1>1, <1>2 DEF PortInv, PortTypeOK, Begin

LEMMA LinkTyped ==
  ASSUME PortInv, NEW p \in Ports, LinkUp(p) \/ LinkDown(p)
  PROVE  PortTypeOK' /\ EngineInv'
<1>1. CASE LinkUp(p)
  BY <1>1, RequestFacts DEF PortInv, PortTypeOK, EngineInv, LinkUp, AfterReset
<1>2. CASE LinkDown(p)
  BY <1>2 DEF PortInv, PortTypeOK, EngineInv, LinkDown, driver
<1> QED
  BY <1>1, <1>2

LEMMA LookedTyped ==
  ASSUME PortInv, pc = "free", Looked
  PROVE  PortTypeOK' /\ EngineInv'
BY DEF PortInv, PortTypeOK, EngineInv, Looked, hba

LEMMA PortUnchanged ==
  ASSUME PortInv, UNCHANGED portVars
  PROVE  PortTypeOK' /\ EngineInv'
BY DEF PortInv, PortTypeOK, EngineInv, portVars, hba, driver

-----------------------------------------------------------------------------
(* The list.                                                               *)

LEMMA InvHasPorts ==
  ListInv => PortInv
BY DEF ListInv, CallInv, PortInv

LEMMA ListedIsPlace ==
  ASSUME ListTypeOK
  PROVE  /\ drive_count \in Nat /\ InList \subseteq Places /\ Places \subseteq Nat
         /\ HasRoom => drive_count \in Places
BY MaxDrivesAssumption DEF ListTypeOK, InList, Places, HasRoom

(* What is listed stays, and the new drive comes behind it.                *)
LEMMA ListedFacts ==
  ASSUME ListTypeOK, NEW d \in [type : {2, 3}, base_port : Ports \cup {0}, label : Contents],
         Listed(d)
  PROVE  /\ drives' \in [Places -> [type : {0, 2, 3}, base_port : Ports \cup {0}, label : Contents]]
         /\ drive_count' \in 0 .. MaxDrives
         /\ \A i \in Places : drives'[i] = IF HasRoom /\ i = drive_count THEN d ELSE drives[i]
         /\ InList' = IF HasRoom THEN InList \cup {drive_count} ELSE InList
         /\ drive_count' = IF HasRoom THEN drive_count + 1 ELSE drive_count
<1>1. CASE HasRoom
  <2>1. drives' = [drives EXCEPT ![drive_count] = d] /\ drive_count' = drive_count + 1
    BY <1>1 DEF Listed
  <2>2. drive_count \in Places /\ drive_count + 1 \in 0 .. MaxDrives
    BY <1>1, ListedIsPlace, MaxDrivesAssumption DEF HasRoom, ListTypeOK
  <2>3. InList' = InList \cup {drive_count}
    BY <2>1, ListedIsPlace DEF InList
  <2> QED
    BY <1>1, <2>1, <2>2, <2>3 DEF ListTypeOK
<1>2. CASE ~HasRoom
  <2>1. drives' = drives /\ drive_count' = drive_count
    BY <1>2 DEF Listed
  <2> QED
    BY <1>2, <2>1 DEF ListTypeOK, InList
<1> QED
  BY <1>1, <1>2

(* The parts of the invariant that read the list hold after a step that    *)
(* leaves the list and the scan alone.                                     *)
LEMMA ListUnchanged ==
  ASSUME PlacesInv, OrderInv, UNCHANGED <<drives, drive_count>>,
         OnlyDisks' => OnlyDisks
  PROVE  PlacesInv' /\ OrderInv'
<1>1. InList' = InList
  BY DEF InList
<1>2. PlacesInv'
  BY DEF PlacesInv
<1>3. OrderInv'
  BY <1>1 DEF OrderInv
<1> QED
  BY <1>2, <1>3

LEMMA StartScanKeepsList ==
  ASSUME ListInv, StartScan
  PROVE  ListInv'
<1> USE DEF ListInv
<1>1. drives' = drives /\ drive_count' = 0
  BY ScanEmptiesTheList DEF StartScan, ListTypeOK
<1>2. InList' = {}
  BY <1>1 DEF InList
<1>3. PortTypeOK' /\ EngineInv'
  BY PortUnchanged, InvHasPorts DEF StartScan
<1>4. ListTypeOK'
  BY <1>1, MaxDrivesAssumption DEF StartScan, ListTypeOK, userVars
<1>5. CallInv'
  BY DEF StartScan, CallInv, Idle, Awaiting, portVars, driver
<1>6. PlacesInv' /\ OrderInv'
  BY <1>1, <1>2 DEF PlacesInv, OrderInv
<1>7. MountInv'
  BY <1>2 DEF MountInv, StartScan, Idle, CallInv, Awaiting, portVars, driver
<1> QED
  BY <1>3, <1>4, <1>5, <1>6, <1>7

LEMMA MountPortKeepsList ==
  ASSUME ListInv, MountPort
  PROVE  ListInv'
<1> USE DEF ListInv
<1> DEFINE p == First(unmounted)
<1>1. p \in unmounted /\ p \in Ports /\ \A q \in unmounted : p <= q
  BY FirstIsLeast DEF MountPort, ListTypeOK
<1>2. ASSUME NEW q \in unmounted'
      PROVE  q \in unmounted /\ p < q
  BY <1>1, <1>2, PortsAreNumbers DEF MountPort, ListTypeOK
<1>3. LinkUp(p) \/ LinkDown(p)
  BY DEF MountPort
<1>4. caller = "mount" /\ caller' = "mount" /\ UNCHANGED <<listVars, userVars, looked_at>>
      /\ pc = "free" /\ answer = "none" /\ unmounted' = unmounted \ {p}
  BY DEF MountPort
<1> HIDE DEF p
<1>5. PortTypeOK' /\ EngineInv'
  BY <1>1, <1>3, LinkTyped, InvHasPorts
<1>6. ListTypeOK'
  BY <1>4 DEF ListTypeOK, listVars, userVars
<1>7. CallInv'
  BY <1>3, <1>4, RequestFacts DEF CallInv, LinkUp, LinkDown, Awaiting, driver
<1>8. PlacesInv' /\ OrderInv'
  BY <1>4, ListUnchanged DEF OnlyDisks, listVars
<1>9. MountInv'
  <2>1. InList' = InList /\ drives' = drives
    BY <1>4 DEF InList, listVars
  <2>2. Awaiting' => port' = p
    BY <1>3, <1>4 DEF Awaiting, LinkUp, LinkDown, driver
  <2>3. \A i \in InList : drives[i].base_port < p
    BY <1>1, <1>4 DEF MountInv
  <2> QED
    BY <1>2, <1>4, <2>1, <2>2, <2>3 DEF MountInv
<1> QED
  BY <1>5, <1>6, <1>7, <1>8, <1>9

LEMMA ListPortKeepsList ==
  ASSUME ListInv, ListPort
  PROVE  ListInv'
<1> USE DEF ListInv
<1> DEFINE d == Drive(2, port)
<1>1. /\ caller = "mount" /\ caller' = "mount" /\ pc = "free" /\ answer # "none"
      /\ Listed(d) /\ Looked /\ unmounted' = unmounted /\ looked_at' = looked_at
      /\ UNCHANGED <<drives_scanned, usb_scanned, userVars>>
  BY DEF ListPort, scanVars
<1>2. /\ d \in [type : {2, 3}, base_port : Ports \cup {0}, label : Contents]
      /\ d.type = 2 /\ d.base_port = port /\ port \in Ports
  BY ContentFacts DEF Drive, PortTypeOK
<1> HIDE DEF d
<1>3. PortTypeOK' /\ EngineInv'
  BY <1>1, LookedTyped, InvHasPorts
<1>4. ListTypeOK
  OBVIOUS
<1>5. /\ drives' \in [Places -> [type : {0, 2, 3}, base_port : Ports \cup {0}, label : Contents]]
      /\ drive_count' \in 0 .. MaxDrives
      /\ \A i \in Places : drives'[i] = IF HasRoom /\ i = drive_count THEN d ELSE drives[i]
      /\ InList' = IF HasRoom THEN InList \cup {drive_count} ELSE InList
  BY <1>1, <1>2, <1>4, ListedFacts
<1>6. ListTypeOK'
  BY <1>1, <1>4, <1>5 DEF ListTypeOK, userVars
<1>7. ~Awaiting'
  BY <1>1 DEF Looked, Awaiting
<1>8. CallInv'
  BY <1>1, <1>7 DEF CallInv, Looked
<1>9. PlacesInv'
  BY <1>2, <1>5 DEF PlacesInv
<1>10. InList \subseteq Places /\ drive_count \notin InList /\ (HasRoom => drive_count \in Places)
  BY <1>4, ListedIsPlace DEF InList
<1>11. \A i \in InList : drives'[i] = drives[i]
  BY <1>5, <1>10
<1>12. HasRoom => drives'[drive_count] = d
  BY <1>5, <1>10
<1>13. \A i \in InList : drives[i].type = 2 /\ drives[i].base_port < port /\ i < drive_count
  <2>1. \A i \in InList : i < drive_count
    BY <1>4, ListedIsPlace DEF InList
  <2> QED
    BY <1>1, <2>1 DEF OrderInv, OnlyDisks, MountInv, Awaiting
<1>14. OrderInv'
  <2>1. \A i \in InList' : drives'[i].type = 2
    BY <1>2, <1>5, <1>11, <1>12, <1>13
  <2>2. ASSUME NEW i \in InList', NEW j \in InList', i < j
        PROVE  drives'[i].base_port < drives'[j].base_port
    <3>1. CASE j \in InList /\ i \in InList
      BY <1>11, <1>13, <2>2, <3>1 DEF OrderInv
    <3>2. CASE HasRoom /\ j = drive_count /\ i \in InList
      BY <1>2, <1>11, <1>12, <1>13, <3>2
    <3>3. ~(HasRoom /\ i = drive_count)
      <4>1. j <= drive_count /\ drive_count \in Nat /\ j \in Nat
        BY <1>4, <1>5, <1>13, ListedIsPlace
      <4> QED
        BY <2>2, <4>1
    <3> QED
      BY <1>5, <3>1, <3>2, <3>3
  <2> QED
    BY <2>1, <2>2 DEF OrderInv
<1>15. MountInv'
  <2>1. \A q \in unmounted : port < q /\ \A i \in InList : drives[i].base_port < q
    BY <1>1 DEF MountInv, Awaiting
  <2> QED
    BY <1>1, <1>2, <1>5, <1>7, <1>11, <1>12, <2>1 DEF MountInv
<1> QED
  BY <1>3, <1>6, <1>8, <1>9, <1>14, <1>15

LEMMA EndMountKeepsList ==
  ASSUME ListInv, EndMount
  PROVE  ListInv'
<1> USE DEF ListInv
<1>1. PortTypeOK' /\ EngineInv'
  BY PortUnchanged, InvHasPorts DEF EndMount
<1>2. ListTypeOK'
  BY MaxDrivesAssumption DEF EndMount, ListTypeOK, listVars
<1>3. CallInv'
  BY DEF EndMount, CallInv, Awaiting, portVars, driver
<1>4. PlacesInv' /\ OrderInv'
  BY ListUnchanged DEF EndMount, OnlyDisks, listVars
<1> QED
  BY <1>1, <1>2, <1>3, <1>4 DEF MountInv, EndMount

(* What the scan labels is a disk.                                         *)
LEMMA ScannedIsDisk ==
  ASSUME ListInv, caller = "label", looked_at < drive_count
  PROVE  /\ looked_at \in InList /\ looked_at \in Places /\ looked_at + 1 \in 0 .. MaxDrives
         /\ drives[looked_at].type = 2 /\ drives[looked_at].base_port \in Ports
<1>1. looked_at \in InList /\ looked_at \in Places /\ looked_at + 1 \in 0 .. MaxDrives
  BY MaxDrivesAssumption DEF ListInv, ListTypeOK, InList, Places
<1>2. drives[looked_at].type = 2
  BY <1>1 DEF ListInv, OrderInv, OnlyDisks
<1> QED
  BY <1>1, <1>2 DEF ListInv, PlacesInv

LEMMA ReadBootKeepsList ==
  ASSUME ListInv, ReadBoot
  PROVE  ListInv'
<1> USE DEF ListInv
<1> DEFINE p == drives[looked_at].base_port
           r == Read(0, Boot)
<1>1. p \in Ports /\ r \in Requests
  BY ScannedIsDisk, RequestFacts DEF ReadBoot
<1>2. mem' \in [Bufs -> Contents]
  BY ContentFacts DEF ReadBoot, BootSector, PortTypeOK
<1>3. Begin(p, r, FALSE) /\ caller = "label" /\ looked_at < drive_count
      /\ UNCHANGED <<listVars, userVars, caller, scanVars>>
  BY DEF ReadBoot
<1>4. port' = p
  BY <1>3 DEF Begin
<1>5. drives' = drives /\ looked_at' = looked_at /\ drive_count' = drive_count /\ caller' = "label"
  BY <1>3 DEF listVars, scanVars
<1>6. port' = drives'[looked_at'].base_port
  BY <1>4, <1>5
<1> HIDE DEF p, r
<1>7. PortTypeOK' /\ EngineInv'
  BY <1>1, <1>2, <1>3, BeginTyped, InvHasPorts
<1>8. ListTypeOK'
  BY <1>3 DEF ListTypeOK, listVars, userVars, scanVars
<1>9. CallInv'
  BY <1>1, <1>3, <1>5, <1>6 DEF CallInv, Begin
<1>10. PlacesInv' /\ OrderInv'
  BY <1>3, ListUnchanged DEF OnlyDisks, listVars
<1> QED
  BY <1>5, <1>7, <1>8, <1>9, <1>10 DEF MountInv

(* Looking at a name changes neither type nor port.                        *)
LEMMA LabelFacts ==
  ASSUME ListInv, LabelDrive
  PROVE  /\ looked_at \in InList /\ looked_at \in Places /\ looked_at < drive_count
         /\ drives[looked_at].type = 2 /\ port = drives[looked_at].base_port
         /\ drives' \in [Places -> [type : {0, 2, 3}, base_port : Ports \cup {0}, label : Contents]]
         /\ \A i \in Places : /\ drives'[i].type = drives[i].type
                              /\ drives'[i].base_port = drives[i].base_port
                              /\ drives'[i].label = IF i = looked_at THEN mem[Boot]
                                                    ELSE drives[i].label
         /\ drive_count' = drive_count /\ InList' = InList
<1> USE DEF ListInv
<1>1. looked_at < drive_count /\ port = drives[looked_at].base_port
  BY DEF LabelDrive, CallInv, Awaiting
<1>2. looked_at \in InList /\ looked_at \in Places /\ drives[looked_at].type = 2
  BY <1>1, ScannedIsDisk DEF LabelDrive
<1> DEFINE c == mem[Boot]
<1>3. c \in Contents
  BY RequestFacts DEF PortTypeOK
<1>4. drives' = [drives EXCEPT ![looked_at].label = c] /\ drive_count' = drive_count
  BY DEF LabelDrive
<1>5. InList' = InList
  BY <1>4 DEF InList
<1> HIDE DEF c
<1>6. drives' \in [Places -> [type : {0, 2, 3}, base_port : Ports \cup {0}, label : Contents]]
      /\ \A i \in Places : /\ drives'[i].type = drives[i].type
                           /\ drives'[i].base_port = drives[i].base_port
                           /\ drives'[i].label = IF i = looked_at THEN c ELSE drives[i].label
  BY <1>2, <1>3, <1>4 DEF ListTypeOK
<1> QED
  BY <1>1, <1>2, <1>4, <1>5, <1>6 DEF c

LEMMA LabelDriveKeepsList ==
  ASSUME ListInv, LabelDrive
  PROVE  ListInv'
<1> USE DEF ListInv
<1>1. /\ caller = "label" /\ caller' = "label" /\ pc = "free" /\ Looked
      /\ looked_at' = looked_at + 1 /\ unmounted' = unmounted
      /\ UNCHANGED <<drives_scanned, usb_scanned, userVars>>
  BY DEF LabelDrive
<1>2. PortTypeOK' /\ EngineInv'
  BY <1>1, LookedTyped, InvHasPorts
<1>3. looked_at + 1 \in 0 .. MaxDrives
  BY <1>1, LabelFacts, ScannedIsDisk
<1>4. ListTypeOK'
  BY <1>1, <1>3, LabelFacts DEF ListTypeOK, userVars
<1>5. CallInv'
  BY <1>1 DEF CallInv, Looked, Awaiting
<1>6. InList \subseteq Places
  BY ListedIsPlace
<1>7. PlacesInv'
  BY LabelFacts DEF PlacesInv
<1>8. OrderInv'
  BY <1>1, <1>6, LabelFacts DEF OrderInv, OnlyDisks
<1> QED
  BY <1>1, <1>2, <1>4, <1>5, <1>7, <1>8 DEF MountInv

(* Everything that leaves the places of drives alone outside of the mount. *)
LEMMA ButtonKeepsList ==
  ASSUME ListInv, UNCHANGED <<drives, drive_count>>, caller' # "mount", OnlyDisks' => OnlyDisks,
         PortTypeOK', EngineInv', CallInv', ListTypeOK'
  PROVE  ListInv'
BY ListUnchanged DEF ListInv, MountInv

LEMMA EndScanKeepsList ==
  ASSUME ListInv, EndScan
  PROVE  ListInv'
<1> USE DEF ListInv
<1>1. PortTypeOK' /\ EngineInv'
  BY PortUnchanged, InvHasPorts DEF EndScan
<1>2. ListTypeOK'
  BY DEF EndScan, ListTypeOK, listVars, userVars, scanVars
<1>3. CallInv'
  BY DEF EndScan, CallInv, Awaiting, portVars, driver
<1> QED
  BY <1>1, <1>2, <1>3, ButtonKeepsList DEF EndScan, OnlyDisks, listVars

LEMMA RefKeepsList ==
  ASSUME ListInv, Ref
  PROVE  ListInv'
<1> USE DEF ListInv
<1>1. PortTypeOK' /\ EngineInv'
  BY PortUnchanged, InvHasPorts DEF Ref
<1>2. clicks' \in 0 .. MaxClicks
  BY MaxClicksAssumption DEF Ref, Press, ListTypeOK
<1>3. ListTypeOK'
  BY <1>2 DEF Ref, ListTypeOK, user, scanVars
<1>4. CallInv'
  BY DEF Ref, Press, Idle, CallInv, Awaiting, portVars, driver, scanVars
<1> QED
  BY <1>1, <1>3, <1>4, ButtonKeepsList DEF Ref, Press, Idle, OnlyDisks

LEMMA ScanUsbKeepsList ==
  ASSUME ListInv, ScanUsb
  PROVE  ListInv'
<1> USE DEF ListInv
<1>1. /\ caller = "none" /\ caller' = "none" /\ ~usb_scanned /\ usb_scanned' = TRUE
      /\ drives_scanned /\ drives_scanned' = drives_scanned
      /\ UNCHANGED <<portVars, user, scanVars>> /\ clicks' = clicks + 1 /\ clicks < MaxClicks
  BY DEF ScanUsb, Press, Idle
<1>2. PortTypeOK' /\ EngineInv'
  BY <1>1, PortUnchanged, InvHasPorts
<1>3. CallInv'
  BY <1>1 DEF CallInv, Awaiting, portVars, driver
<1>4. MountInv'
  BY <1>1 DEF MountInv
<1>5. clicks' \in 0 .. MaxClicks
  BY <1>1, MaxClicksAssumption DEF ListTypeOK
<1>6. CASE UNCHANGED <<drives, drive_count>>
  <2>1. ListTypeOK'
    BY <1>1, <1>5, <1>6 DEF ListTypeOK, user, scanVars
  <2> QED
    BY <1>1, <1>2, <1>3, <1>6, <2>1, ButtonKeepsList DEF OnlyDisks
<1>7. CASE Listed(UsbStick)
  <2> DEFINE d == UsbStick
  <2>1. d \in [type : {2, 3}, base_port : Ports \cup {0}, label : Contents] /\ d.type = 3
        /\ d.base_port = 0
    BY ContentFacts DEF UsbStick, Drive
  <2> HIDE DEF d
  <2>2. Listed(d)
    BY <1>7 DEF d
  <2>3. /\ drives' \in [Places -> [type : {0, 2, 3}, base_port : Ports \cup {0}, label : Contents]]
        /\ drive_count' \in 0 .. MaxDrives
        /\ \A i \in Places : drives'[i] = IF HasRoom /\ i = drive_count THEN d ELSE drives[i]
        /\ InList' = IF HasRoom THEN InList \cup {drive_count} ELSE InList
    BY <2>1, <2>2, ListedFacts
  <2>4. ListTypeOK'
    BY <1>1, <1>5, <2>3 DEF ListTypeOK, user, scanVars
  <2>5. PlacesInv'
    BY <2>1, <2>3 DEF PlacesInv
  <2>6. InList \subseteq Places /\ drive_count \notin InList /\ (HasRoom => drive_count \in Places)
        /\ \A i \in InList : i \in Nat /\ i < drive_count
    BY ListedIsPlace DEF InList
  <2>7. \A i \in InList : drives'[i] = drives[i] /\ drives[i].type = 2
    BY <1>1, <2>3, <2>6 DEF OrderInv, OnlyDisks
  <2>8. HasRoom => drives'[drive_count] = d
    BY <2>3, <2>6
  <2>9. ASSUME NEW i \in InList', NEW j \in InList', i < j
        PROVE  /\ drives'[i].type = 2
               /\ drives'[j].type = 2 => drives'[i].base_port < drives'[j].base_port
    <3>1. i \in InList
      <4>1. j <= drive_count /\ drive_count \in Nat /\ j \in Nat
        BY <2>3, <2>6, ListedIsPlace
      <4> QED
        BY <2>3, <2>9, <4>1
    <3>2. CASE j \in InList
      BY <2>7, <2>9, <3>1, <3>2 DEF OrderInv
    <3>3. CASE HasRoom /\ j = drive_count
      BY <2>1, <2>7, <2>8, <3>1, <3>3
    <3> QED
      BY <2>3, <3>2, <3>3
  <2>10. OrderInv'
    BY <1>1, <2>1, <2>3, <2>7, <2>8, <2>9 DEF OrderInv, OnlyDisks
  <2> QED
    BY <1>2, <1>3, <1>4, <2>4, <2>5, <2>10
<1> QED
  BY <1>6, <1>7 DEF ScanUsb

LEMMA SelectKeepsList ==
  ASSUME ListInv, NEW i \in Places, Select(i)
  PROVE  ListInv'
<1> USE DEF ListInv
<1>1. PortTypeOK' /\ EngineInv'
  BY PortUnchanged, InvHasPorts DEF Select
<1>2. clicks' \in 0 .. MaxClicks
  BY MaxClicksAssumption DEF Select, Press, ListTypeOK
<1>3. ListTypeOK'
  BY <1>2 DEF Select, ListTypeOK, listVars, scanVars
<1>4. CallInv'
  BY DEF Select, Press, Idle, CallInv, Awaiting, portVars, driver, scanVars
<1> QED
  BY <1>1, <1>3, <1>4, ButtonKeepsList DEF Select, Press, Idle, OnlyDisks, listVars

LEMMA SataHasPort ==
  ASSUME ListTypeOK, PlacesInv, OnSata
  PROVE  Selected.base_port \in Ports
BY DEF ListTypeOK, PlacesInv, OnSata, Selected

LEMMA OpenIdentifyKeepsList ==
  ASSUME ListInv, OpenIdentify
  PROVE  ListInv'
<1> USE DEF ListInv
<1> DEFINE p == Selected.base_port
<1>1. p \in Ports /\ Identify \in Requests
  BY SataHasPort, RequestFacts DEF OpenIdentify
<1>2. /\ Begin(p, Identify, TRUE) /\ mem' = mem /\ caller = "none" /\ caller' = "open"
      /\ UNCHANGED <<listVars, user, scanVars>> /\ clicks' = clicks + 1 /\ clicks < MaxClicks
  BY DEF OpenIdentify, Press, Idle
<1> HIDE DEF p
<1>3. mem' \in [Bufs -> Contents]
  BY <1>2 DEF PortTypeOK
<1>4. PortTypeOK' /\ EngineInv'
  BY <1>1, <1>2, <1>3, BeginTyped, InvHasPorts
<1>5. ListTypeOK'
  BY <1>2, MaxClicksAssumption DEF ListTypeOK, listVars, user, scanVars
<1>6. OnSata'
  BY <1>2 DEF OpenIdentify, OnSata, Selected, listVars, user
<1>7. CallInv'
  BY <1>1, <1>2, <1>6 DEF CallInv, Begin
<1> QED
  BY <1>2, <1>4, <1>5, <1>7, ButtonKeepsList DEF OnlyDisks, listVars

LEMMA OpenReadKeepsList ==
  ASSUME ListInv, OpenRead
  PROVE  ListInv'
<1> USE DEF ListInv
<1> DEFINE p == Selected.base_port
           r == Read(0, Scratch)
<1>1. p \in Ports /\ r \in Requests
  BY SataHasPort, RequestFacts DEF OpenRead, CallInv
<1>2. /\ Begin(p, r, FALSE) /\ mem' = mem /\ caller = "open" /\ caller' = "opened"
      /\ UNCHANGED <<listVars, userVars, scanVars>>
  BY DEF OpenRead
<1> HIDE DEF p, r
<1>3. mem' \in [Bufs -> Contents]
  BY <1>2 DEF PortTypeOK
<1>4. PortTypeOK' /\ EngineInv'
  BY <1>1, <1>2, <1>3, BeginTyped, InvHasPorts
<1>5. ListTypeOK'
  BY <1>2 DEF ListTypeOK, listVars, userVars, scanVars
<1>6. CallInv'
  BY <1>1, <1>2 DEF CallInv, Begin
<1> QED
  BY <1>2, <1>4, <1>5, <1>6, ButtonKeepsList DEF OnlyDisks, listVars

LEMMA SaveKeepsList ==
  ASSUME ListInv, Save
  PROVE  ListInv'
<1> USE DEF ListInv
<1> DEFINE p == Selected.base_port
           r == Write(SaveLba, Out)
<1>1. p \in Ports /\ r \in Requests
  BY SataHasPort, RequestFacts DEF Save
<1>2. /\ Begin(p, r, FALSE) /\ mem' = [mem EXCEPT ![Out] = Typed]
      /\ caller = "none" /\ caller' = "user"
      /\ UNCHANGED <<listVars, user, scanVars>> /\ clicks' = clicks + 1 /\ clicks < MaxClicks
  BY DEF Save, Press, Idle
<1> HIDE DEF p, r
<1>3. mem' \in [Bufs -> Contents]
  BY <1>2, ContentFacts DEF PortTypeOK
<1>4. PortTypeOK' /\ EngineInv'
  BY <1>1, <1>2, <1>3, BeginTyped, InvHasPorts
<1>5. ListTypeOK'
  BY <1>2, MaxClicksAssumption DEF ListTypeOK, listVars, user, scanVars
<1>6. CallInv'
  BY <1>1, <1>2 DEF CallInv, Begin
<1> QED
  BY <1>2, <1>4, <1>5, <1>6, ButtonKeepsList DEF OnlyDisks, listVars

LEMMA ReturnKeepsList ==
  ASSUME ListInv, Opened \/ Returned
  PROVE  ListInv'
<1> USE DEF ListInv
<1>1. /\ caller \in {"opened", "user"} /\ caller' = "none" /\ pc = "free" /\ Looked
      /\ UNCHANGED <<listVars, userVars, scanVars>>
  BY DEF Opened, Returned
<1>2. PortTypeOK' /\ EngineInv'
  BY <1>1, LookedTyped, InvHasPorts
<1>3. ListTypeOK'
  BY <1>1 DEF ListTypeOK, listVars, userVars, scanVars
<1>4. CallInv'
  BY <1>1 DEF CallInv, Looked, Awaiting
<1> QED
  BY <1>1, <1>2, <1>3, <1>4, ButtonKeepsList DEF OnlyDisks, listVars

(* The steps of the driver and of the adapter, while somebody waits.       *)
LEMMA MachineKeepsList ==
  ASSUME ListInv, Driver \/ Hardware, UNCHANGED <<listVars, userVars, caller, scanVars>>
  PROVE  ListInv'
<1> USE DEF ListInv
<1>1. PortTypeOK' /\ EngineInv'
  <2>1. CASE Driver
    BY <2>1, DriverTyped, InvHasPorts
  <2>2. CASE Hardware
    BY <2>2, InvHasPorts, FetchTyped, TransferTyped, FailTyped DEF Hardware, Adapter
  <2> QED
    BY <2>1, <2>2
<1>2. ListTypeOK'
  BY DEF ListTypeOK, listVars, userVars, scanVars
<1>3. port' = port /\ cur' = cur
      /\ (Awaiting' <=> Awaiting) /\ (pc' # "free" => pc # "free")
      /\ (pc' # "free" => answer' = "none")
      /\ (pc' \in {"preparing", "waiting"} => pc \in {"preparing", "waiting"})
  <2>1. CASE Driver
    <3>1. CASE Issue
      BY <3>1 DEF Issue, Awaiting, CallInv
    <3>2. CASE Done \/ GiveUp \/ Waited
      BY <3>2 DEF Done, GiveUp, GivesUp, Waited, Returns, Awaiting, CallInv
    <3> QED
      BY <2>1, <3>1, <3>2 DEF Driver
  <2>2. CASE Hardware
    BY <2>2 DEF Hardware, Adapter, Fetch, Transfer, Fail, driver, Awaiting, CallInv
  <2> QED
    BY <2>1, <2>2
<1>4. CallInv'
  <2>1. OnSata' = OnSata
    BY DEF OnSata, Selected, listVars, userVars
  <2> QED
    BY <1>3, <2>1 DEF CallInv, listVars, scanVars
<1>5. PlacesInv' /\ OrderInv'
  BY ListUnchanged DEF OnlyDisks, listVars
<1>6. MountInv'
  <2>1. InList' = InList
    BY DEF InList, listVars
  <2> QED
    BY <1>3, <2>1 DEF MountInv, listVars, scanVars
<1> QED
  BY <1>1, <1>2, <1>4, <1>5, <1>6

LEMMA NothingKeepsList ==
  ASSUME ListInv, UNCHANGED vars
  PROVE  ListInv'
<1> USE DEF ListInv
<1>1. PortTypeOK' /\ EngineInv'
  BY PortUnchanged, InvHasPorts DEF vars
<1>2. ListTypeOK'
  BY DEF vars, ListTypeOK, listVars, userVars, scanVars
<1>3. CallInv'
  <2>1. OnSata' = OnSata
    BY DEF OnSata, Selected, vars, listVars, userVars
  <2> QED
    BY <2>1 DEF vars, portVars, driver, listVars, scanVars, CallInv, Awaiting
<1>4. PlacesInv' /\ OrderInv'
  BY ListUnchanged DEF OnlyDisks, vars, listVars
<1>5. MountInv'
  BY DEF MountInv, InList, Awaiting, vars, portVars, driver, listVars, scanVars
<1> QED
  BY <1>1, <1>2, <1>3, <1>4, <1>5

LEMMA StepKeepsList ==
  ASSUME ListInv, [Next]_vars
  PROVE  ListInv'
<1>1. CASE Scan
  BY <1>1, StartScanKeepsList, MountPortKeepsList, ListPortKeepsList, EndMountKeepsList,
     ReadBootKeepsList, LabelDriveKeepsList, EndScanKeepsList DEF Scan
<1>2. CASE Buttons
  BY <1>2, RefKeepsList, ScanUsbKeepsList, SelectKeepsList, OpenIdentifyKeepsList,
     OpenReadKeepsList, SaveKeepsList, ReturnKeepsList DEF Buttons
<1>3. CASE (Driver \/ Hardware) /\ UNCHANGED <<listVars, userVars, caller, scanVars>>
  BY <1>3, MachineKeepsList
<1>4. CASE UNCHANGED vars
  BY <1>4, NothingKeepsList
<1> QED
  BY <1>1, <1>2, <1>3, <1>4 DEF Next

LEMMA InitHasList ==
  ASSUME Init
  PROVE  ListInv
<1>1. PortTypeOK /\ EngineInv
  BY ContentFacts, RequestFacts DEF Init, PortInit, PortTypeOK, EngineInv
<1>2. Drive(0, 0) \in [type : {0, 2, 3}, base_port : Ports \cup {0}, label : Contents]
      /\ Drive(0, 0).type = 0
  BY ContentFacts DEF Drive
<1>3. ListTypeOK
  <2>1. drives \in [Places -> [type : {0, 2, 3}, base_port : Ports \cup {0}, label : Contents]]
    BY <1>2 DEF Init, Nothing
  <2>2. 0 \in 0 .. MaxDrives /\ 0 \in 0 .. MaxClicks
    BY MaxDrivesAssumption, MaxClicksAssumption
  <2> QED
    BY <2>1, <2>2 DEF Init, ListTypeOK
<1>4. InList = {}
  BY DEF Init, InList
<1>5. CallInv
  BY DEF Init, PortInit, CallInv, Awaiting
<1>6. PlacesInv /\ OrderInv /\ MountInv
  BY <1>2, <1>4 DEF Init, PlacesInv, OrderInv, MountInv, Nothing
<1> QED
  BY <1>1, <1>3, <1>5, <1>6 DEF ListInv

LEMMA ListInvariant == Spec => []ListInv
<1>1. Init => ListInv
  BY InitHasList
<1>2. ListInv /\ [Next]_vars => ListInv'
  BY StepKeepsList
<1> QED
  BY <1>1, <1>2, PTL DEF Spec

(* The list keeps to its array and names no disk twice: REF, the scan and  *)
(* SCAN USB of the disk manager, for any number of ports, places and       *)
(* clicks and whatever the adapters answer.                                *)
THEOREM ListStaysSound == Spec => []ListIsSound
<1>1. ListInv => ListIsSound
  <2> SUFFICES ASSUME ListInv
               PROVE  ListIsSound
    OBVIOUS
  <2>1. TypeOK
    BY DEF ListInv, ListTypeOK, TypeOK
  <2>2. ASSUME NEW i \in InList, NEW j \in InList, drives[i].type = 2, drives[j] = drives[i]
        PROVE  i = j
    <3>1. ~(i < j) /\ ~(j < i)
      <4>1. InList \subseteq Places /\ drives[i].base_port \in Ports
        BY <2>2, ListedIsPlace DEF ListInv, PlacesInv
      <4>2. ~(drives[i].base_port < drives[j].base_port) /\ ~(drives[j].base_port < drives[i].base_port)
        BY <2>2, <4>1, PortsAreNumbers
      <4> QED
        BY <2>2, <4>2 DEF ListInv, OrderInv
    <3>2. i \in Nat /\ j \in Nat
      BY DEF InList
    <3> QED
      BY <3>1, <3>2
  <2> QED
    BY <2>1, <2>2 DEF ListIsSound, InList
<1> QED
  BY <1>1, ListInvariant, PTL

-----------------------------------------------------------------------------
(* The index.  A disk's index is its rank among the ports that answered,   *)
(* the stick's their number; so an index means the same drive after every  *)
(* scan that finds the same ports.                                         *)

Rank(S, p) == Cardinality({q \in S : q < p})

(* The entry that was clicked keeps its place in drives also while REF     *)
(* lets the scan build the list again, until a disk is listed there.       *)
IndexInv ==
  (selected_drive_idx # Unselected /\ same) =>
    /\ chosen.type \in {2, 3}
    /\ chosen.type = 2 => /\ chosen.base_port \in seen
                          /\ Rank(seen, chosen.base_port) = selected_drive_idx
    /\ chosen.type = 3 =>
         /\ chosen.base_port = 0 /\ selected_drive_idx = Cardinality(seen)
         /\ (caller # "mount" \/ drive_count <= Cardinality(seen)) => Selected.type = 3
    /\ caller # "mount" => SataListed = seen

(* As many different numbers as places in a growing row.                   *)
LEMMA GrowingRow ==
  ASSUME NEW n \in Nat, NEW f \in [0 .. n - 1 -> Nat],
         \A i, j \in 0 .. n - 1 : i < j => f[i] < f[j]
  PROVE  Cardinality({f[i] : i \in 0 .. n - 1}) = n
<1> DEFINE S == 0 .. n - 1
           T == {f[i] : i \in S}
<1>1. IsFiniteSet(S) /\ Cardinality(S) = n
  <2>1. 0 \in Int /\ n - 1 \in Int
    OBVIOUS
  <2> DEFINE m == n - 1
  <2>2. IsFiniteSet(0 .. m) /\ Cardinality(0 .. m) = IF 0 > m THEN 0 ELSE m - 0 + 1
    <3>1. m \in Int
      BY <2>1
    <3> HIDE DEF m
    <3> QED
      BY <2>1, <3>1, FS_Interval
  <2> QED
    BY <2>2
<1>2. \A i, j \in S : f[i] = f[j] => i = j
  <2> TAKE i, j \in S
  <2>1. i < j \/ j < i \/ i = j
    OBVIOUS
  <2>2. f[i] \in Nat /\ f[j] \in Nat
    OBVIOUS
  <2> QED
    BY <2>1, <2>2
<1>3. f \in [S -> T] /\ \A t \in T : \E i \in S : f[i] = t
  OBVIOUS
<1> HIDE DEF S, T
<1>4. f \in Bijection(S, T)
  BY <1>2, <1>3, Fun_IsBij
<1>5. ExistsBijection(S, T)
  BY <1>4, Fun_ExistsBij
<1>6. Cardinality(T) = n
  BY <1>1, <1>5, FS_Bijection
<1> QED
  BY <1>6 DEF S, T

PortsOf(n) == {drives[i].base_port : i \in 0 .. n - 1}

LEMMA DisksCounted ==
  ASSUME ListInv, NEW n \in 0 .. drive_count, \A i \in 0 .. n - 1 : drives[i].type = 2
  PROVE  Cardinality(PortsOf(n)) = n
<1> DEFINE f == [i \in 0 .. n - 1 |-> drives[i].base_port]
<1>1. 0 .. n - 1 \subseteq InList /\ InList \subseteq Places /\ n \in Nat
  BY ListedIsPlace DEF InList, ListInv
<1>2. f \in [0 .. n - 1 -> Nat]
  BY <1>1, PortsAreNumbers DEF ListInv, PlacesInv
<1>3. \A i, j \in 0 .. n - 1 : i < j => f[i] < f[j]
  BY <1>1 DEF ListInv, OrderInv
<1>4. {f[i] : i \in 0 .. n - 1} = PortsOf(n)
  BY DEF PortsOf
<1> HIDE DEF f
<1>5. Cardinality({f[i] : i \in 0 .. n - 1}) = n
  BY <1>1, <1>2, <1>3, GrowingRow
<1> QED
  BY <1>4, <1>5

(* A listed disk's rank is its place.                                      *)
LEMMA RankIsPlace ==
  ASSUME ListInv, NEW i \in InList, drives[i].type = 2
  PROVE  /\ drives[i].base_port \in SataListed
         /\ Rank(SataListed, drives[i].base_port) = i
<1> DEFINE p == drives[i].base_port
<1>1. InList \subseteq Places /\ i \in Nat /\ i \in 0 .. drive_count /\ drive_count \in Nat
  BY ListedIsPlace DEF InList, ListInv
<1>2. p \in SataListed
  BY DEF SataListed, InList
<1>3. \A k \in 0 .. i - 1 : k \in InList /\ drives[k].type = 2 /\ drives[k].base_port < p
  <2> TAKE k \in 0 .. i - 1
  <2>1. k \in InList /\ k < i
    BY <1>1 DEF InList
  <2> QED
    BY <2>1 DEF ListInv, OrderInv
<1>4. \A k \in InList : (drives[k].type = 2 /\ drives[k].base_port < p) => k \in 0 .. i - 1
  <2> SUFFICES ASSUME NEW k \in InList, drives[k].type = 2, drives[k].base_port < p
               PROVE  k < i
    BY DEF InList
  <2>1. ~(p < drives[k].base_port) /\ drives[k].base_port # p
    BY <1>1, PortsAreNumbers DEF ListInv, PlacesInv
  <2>2. ~(i < k) /\ k # i
    BY <2>1 DEF ListInv, OrderInv
  <2> QED
    BY <1>1, <2>2 DEF InList
<1>5. {q \in SataListed : q < p} = PortsOf(i)
  <2>1. ASSUME NEW q \in SataListed, q < p
        PROVE  q \in PortsOf(i)
    BY <1>4, <2>1 DEF SataListed, PortsOf, InList
  <2>2. ASSUME NEW q \in PortsOf(i)
        PROVE  q \in SataListed /\ q < p
    BY <1>3 DEF SataListed, PortsOf, InList
  <2> QED
    BY <2>1, <2>2
<1>6. Cardinality(PortsOf(i)) = i
  BY <1>1, <1>3, DisksCounted
<1> QED
  BY <1>2, <1>5, <1>6 DEF Rank

(* The stick's place is the number of the disks.                           *)
LEMMA StickIsLast ==
  ASSUME ListInv, NEW i \in InList, drives[i].type = 3
  PROVE  i = Cardinality(SataListed)
<1>1. i \in Nat /\ i \in 0 .. drive_count /\ drive_count \in Nat
  BY ListedIsPlace DEF InList, ListInv
<1>2. \A k \in 0 .. i - 1 : k \in InList /\ drives[k].type = 2
  <2> TAKE k \in 0 .. i - 1
  <2>1. k \in InList /\ k < i
    BY <1>1 DEF InList
  <2> QED
    BY <2>1 DEF ListInv, OrderInv
<1>3. \A k \in InList : drives[k].type = 2 => k \in 0 .. i - 1
  <2> SUFFICES ASSUME NEW k \in InList, drives[k].type = 2
               PROVE  k < i
    BY DEF InList
  <2>1. ~(i < k) /\ k # i
    BY DEF ListInv, OrderInv
  <2> QED
    BY <1>1, <2>1 DEF InList
<1>4. SataListed = PortsOf(i)
  BY <1>2, <1>3 DEF SataListed, PortsOf, InList
<1> QED
  BY <1>1, <1>2, <1>4, DisksCounted

LEMMA AllDisksCounted ==
  ASSUME ListInv, \A i \in InList : drives[i].type = 2
  PROVE  Cardinality(SataListed) = drive_count
<1>1. drive_count \in 0 .. drive_count
  BY ListedIsPlace DEF ListInv
<1>2. SataListed = PortsOf(drive_count)
  BY DEF SataListed, PortsOf, InList
<1> QED
  BY <1>1, <1>2, DisksCounted DEF InList

LEMMA IndexUntouched ==
  ASSUME ListInv, IndexInv, UNCHANGED <<drives, drive_count>>,
         UNCHANGED <<selected_drive_idx, chosen, seen, same>>,
         caller' = caller \/ (caller # "mount" /\ caller' # "mount")
  PROVE  IndexInv'
<1>1. SataListed' = SataListed /\ Selected' = Selected
  BY DEF SataListed, Selected
<1> QED
  BY <1>1 DEF IndexInv

LEMMA StartScanKeepsIndex ==
  ASSUME ListInv, IndexInv, StartScan
  PROVE  IndexInv'
<1>1. drives' = drives /\ drive_count' = 0
  BY ScanEmptiesTheList DEF StartScan, ListInv, ListTypeOK
<1>2. caller # "mount" /\ caller' = "mount" /\ UNCHANGED userVars
  BY DEF StartScan, Idle
<1> QED
  BY <1>1, <1>2 DEF IndexInv, Selected, userVars

LEMMA ListPortKeepsIndex ==
  ASSUME ListInv, IndexInv, ListPort
  PROVE  IndexInv'
<1> SUFFICES ASSUME selected_drive_idx # Unselected, same
             PROVE  IndexInv'
  BY DEF IndexInv, ListPort, userVars
<1> DEFINE d == Drive(2, port)
<1>1. /\ caller = "mount" /\ caller' = "mount" /\ Listed(d) /\ UNCHANGED userVars
      /\ d \in [type : {2, 3}, base_port : Ports \cup {0}, label : Contents]
  BY ContentFacts DEF ListPort, Drive, ListInv, PortTypeOK
<1>2. ListTypeOK /\ selected_drive_idx \in Places
  BY DEF ListInv, ListTypeOK
<1> HIDE DEF d
<1>3. /\ \A i \in Places : drives'[i] = IF HasRoom /\ i = drive_count THEN d ELSE drives[i]
      /\ drive_count' = IF HasRoom THEN drive_count + 1 ELSE drive_count
  BY <1>1, <1>2, ListedFacts
<1>4. ASSUME chosen.type = 3, drive_count' <= Cardinality(seen)
      PROVE  Selected'.type = 3
  <2>1. selected_drive_idx = Cardinality(seen) /\ selected_drive_idx \in Nat /\ drive_count \in Nat
    BY <1>2, <1>4, ListedIsPlace DEF IndexInv
  <2>2. drive_count <= Cardinality(seen) /\ ~(HasRoom /\ selected_drive_idx = drive_count)
    BY <1>3, <1>4, <2>1
  <2>3. Selected' = Selected
    BY <1>1, <1>2, <1>3, <2>2 DEF Selected, userVars
  <2> QED
    BY <1>4, <2>2, <2>3 DEF IndexInv
<1> QED
  BY <1>1, <1>4 DEF IndexInv, userVars

LEMMA EndMountKeepsIndex ==
  ASSUME ListInv, IndexInv, EndMount
  PROVE  IndexInv'
<1>1. caller = "mount" /\ caller' = "label" /\ UNCHANGED <<listVars, selected_drive_idx, chosen, seen>>
      /\ same' = (same /\ SataListed = seen)
  BY DEF EndMount
<1>2. SataListed' = SataListed /\ Selected' = Selected
  BY <1>1 DEF SataListed, Selected, listVars
<1> SUFFICES ASSUME selected_drive_idx # Unselected, same, SataListed = seen
             PROVE  IndexInv'
  BY <1>1 DEF IndexInv
<1>3. Cardinality(seen) = drive_count /\ drive_count \in Nat
  BY <1>1, AllDisksCounted, ListedIsPlace DEF ListInv, OrderInv, OnlyDisks
<1>4. drive_count <= Cardinality(seen)
  BY <1>3
<1> QED
  BY <1>1, <1>2, <1>4 DEF IndexInv

LEMMA LabelDriveKeepsIndex ==
  ASSUME ListInv, IndexInv, LabelDrive
  PROVE  IndexInv'
<1>1. caller = "label" /\ caller' = caller /\ UNCHANGED userVars
  BY DEF LabelDrive
<1>2. InList' = InList /\ InList \subseteq Places
  BY LabelFacts, ListedIsPlace DEF ListInv
<1>3. SataListed' = SataListed
  BY <1>2, LabelFacts DEF SataListed, InList
<1>4. (selected_drive_idx # Unselected) => Selected'.type = Selected.type
  BY <1>1, LabelFacts DEF Selected, userVars, ListInv, ListTypeOK
<1> QED
  BY <1>1, <1>3, <1>4 DEF IndexInv, userVars

LEMMA ScanUsbKeepsIndex ==
  ASSUME ListInv, IndexInv, ScanUsb
  PROVE  IndexInv'
<1>1. caller = "none" /\ caller' = "none" /\ UNCHANGED user
  BY DEF ScanUsb, Press, Idle
<1>2. CASE UNCHANGED <<drives, drive_count>>
  BY <1>1, <1>2, IndexUntouched DEF user
<1>3. CASE Listed(UsbStick)
  <2> DEFINE d == UsbStick
  <2>1. d \in [type : {2, 3}, base_port : Ports \cup {0}, label : Contents] /\ d.type = 3
    BY ContentFacts DEF UsbStick, Drive
  <2> HIDE DEF d
  <2>2. Listed(d) /\ ListTypeOK
    BY <1>3 DEF d, ListInv
  <2>3. /\ \A i \in Places : drives'[i] = IF HasRoom /\ i = drive_count THEN d ELSE drives[i]
        /\ InList' = IF HasRoom THEN InList \cup {drive_count} ELSE InList
    BY <2>1, <2>2, ListedFacts
  <2>4. InList \subseteq Places /\ drive_count \notin InList /\ (HasRoom => drive_count \in Places)
    BY <2>2, ListedIsPlace DEF InList
  <2>5. {i \in InList' : drives'[i].type = 2} = {i \in InList : drives[i].type = 2}
        /\ \A i \in InList : drives'[i] = drives[i]
    BY <2>1, <2>3, <2>4
  <2>6. SataListed' = SataListed
    BY <2>5 DEF SataListed, InList
  <2>7. (selected_drive_idx # Unselected /\ Selected.type = 3) => Selected'.type = 3
    BY <1>1, <2>1, <2>2, <2>3 DEF Selected, user, ListTypeOK
  <2> QED
    BY <1>1, <2>6, <2>7 DEF IndexInv, user
<1> QED
  BY <1>2, <1>3 DEF ScanUsb

LEMMA SelectKeepsIndex ==
  ASSUME ListInv, NEW i \in Places, Select(i)
  PROVE  IndexInv'
<1>1. /\ i \in InList /\ caller = "none" /\ caller' = caller /\ UNCHANGED listVars
      /\ selected_drive_idx' = i /\ seen' = SataListed
      /\ chosen' = [drives[i] EXCEPT !.label = Zero]
  <2>1. i < drive_count /\ i \in Nat /\ drive_count \in Nat
    BY ListedIsPlace DEF Select, ListInv
  <2>2. i \in InList
    BY <2>1 DEF InList
  <2> QED
    BY <2>2 DEF Select, Press, Idle
<1>2. /\ drives[i] \in [type : {0, 2, 3}, base_port : Ports \cup {0}, label : Contents]
      /\ drives[i].type \in {2, 3} /\ (drives[i].type = 3 => drives[i].base_port = 0)
  BY <1>1 DEF ListInv, ListTypeOK, OrderInv, PlacesInv
<1>3. chosen'.type = drives[i].type /\ chosen'.base_port = drives[i].base_port
  BY <1>1, <1>2
<1>4. SataListed' = SataListed /\ Selected' = drives[i]
  BY <1>1 DEF SataListed, Selected, listVars
<1>5. drives[i].type = 2 => /\ drives[i].base_port \in SataListed
                            /\ Rank(SataListed, drives[i].base_port) = i
  BY <1>1, RankIsPlace
<1>6. drives[i].type = 3 => i = Cardinality(SataListed)
  BY <1>1, StickIsLast
<1> QED
  BY <1>1, <1>2, <1>3, <1>4, <1>5, <1>6 DEF IndexInv

LEMMA StepKeepsIndex ==
  ASSUME ListInv, IndexInv, [Next]_vars
  PROVE  IndexInv'
<1>1. CASE MountPort \/ ReadBoot \/ EndScan
  BY <1>1, IndexUntouched DEF MountPort, ReadBoot, EndScan, listVars, userVars
<1>2. CASE Ref \/ OpenIdentify \/ Save
  BY <1>2, IndexUntouched DEF Ref, OpenIdentify, Save, Press, Idle, listVars, user
<1>3. CASE OpenRead \/ Opened \/ Returned
  BY <1>3, IndexUntouched DEF OpenRead, Opened, Returned, listVars, userVars
<1>4. CASE (Driver \/ Hardware) /\ UNCHANGED <<listVars, userVars, caller, scanVars>>
  BY <1>4, IndexUntouched DEF listVars, userVars
<1>5. CASE UNCHANGED vars
  BY <1>5, IndexUntouched DEF vars, listVars, userVars
<1> QED
  BY <1>1, <1>2, <1>3, <1>4, <1>5, StartScanKeepsIndex, ListPortKeepsIndex, EndMountKeepsIndex,
     LabelDriveKeepsIndex, ScanUsbKeepsIndex, SelectKeepsIndex DEF Next, Scan, Buttons

(* The index that was clicked means the drive that was clicked: after any  *)
(* number of REFs, scans and SCAN USBs that find the same disks, for any   *)
(* number of ports and places.                                             *)
THEOREM IndexKeepsItsDrive == Spec => []IndexMeansDrive
<1>1. Init => IndexInv
  BY DEF Init, IndexInv
<1>2. ListInv /\ IndexInv /\ [Next]_vars => IndexInv'
  BY StepKeepsIndex
<1>3. ListInv /\ IndexInv => IndexMeansDrive
  <2> SUFFICES ASSUME ListInv, IndexInv, selected_drive_idx # Unselected, caller # "mount", same
               PROVE  Selected.type = chosen.type /\ Selected.base_port = chosen.base_port
    BY DEF IndexMeansDrive
  <2>1. SataListed = seen /\ selected_drive_idx \in Places
    BY DEF IndexInv, ListInv, ListTypeOK
  <2>2. CASE chosen.type = 2
    <3>1. PICK i \in InList : drives[i].type = 2 /\ drives[i].base_port = chosen.base_port
      BY <2>1, <2>2 DEF IndexInv, SataListed, InList
    <3>2. selected_drive_idx = i
      BY <2>1, <2>2, <3>1, RankIsPlace DEF IndexInv
    <3> QED
      BY <2>2, <3>1, <3>2 DEF Selected
  <2>3. CASE chosen.type = 3
    BY <2>1, <2>3 DEF IndexInv, ListInv, PlacesInv, Selected
  <2> QED
    BY <2>2, <2>3 DEF IndexInv
<1> QED
  BY <1>1, <1>2, <1>3, ListInvariant, PTL DEF Spec

-----------------------------------------------------------------------------
(* The promise of BlockDevice.  A trusted port owes nothing but the        *)
(* request that is being worked on; when the driver polls for that one     *)
(* and it has neither been carried out nor failed, CI is still set.        *)

Clean(p) == slot[p] = NoRequest /\ fetched[p] = NoRequest

TrustInv ==
  \A p \in trusted :
    /\ (p # port \/ pc \notin {"polling", "waiting"}) => Clean(p)
    /\ (p = port /\ pc \in {"building", "preparing"}) => ~carried
    /\ (p = port /\ pc = "preparing") => p \notin tfes
    /\ (p = port /\ pc \in {"polling", "waiting"}) =>
         /\ slot[p] \in {NoRequest, cur} /\ fetched[p] \in {NoRequest, cur}
         /\ slot[p] = NoRequest \/ fetched[p] = NoRequest
         /\ (carried \/ (pc = "waiting" /\ p \in tfes)) => Clean(p)
         /\ (pc = "polling" /\ ~carried) => (~Clean(p) \/ p \in tfes \/ p \in halted)

LEMMA FetchTrust ==
  ASSUME PortInv, TrustInv, NEW p \in Ports, Fetch(p)
  PROVE  TrustInv'
<1> SUFFICES ASSUME NEW q \in trusted
             PROVE  TrustInv!(q)'
  BY DEF Fetch, TrustInv
<1> QED
  BY DEF PortInv, PortTypeOK, TrustInv, Fetch, Clean, driver

LEMMA TransferTrust ==
  ASSUME PortInv, TrustInv, NEW p \in Ports, Transfer(p)
  PROVE  TrustInv'
<1> SUFFICES ASSUME NEW q \in trusted
             PROVE  TrustInv!(q)'
  BY DEF Transfer, TrustInv
<1> QED
  BY DEF PortInv, PortTypeOK, TrustInv, Transfer, Clean, driver

LEMMA FailTrust ==
  ASSUME PortInv, TrustInv, NEW p \in Ports, Fail(p)
  PROVE  TrustInv'
<1> SUFFICES ASSUME NEW q \in trusted
             PROVE  TrustInv!(q)'
  BY DEF Fail, TrustInv
<1> QED
  BY DEF PortInv, PortTypeOK, TrustInv, Fail, Clean, driver

LEMMA IssueTrust ==
  ASSUME PortInv, TrustInv, Issue
  PROVE  TrustInv'
<1> SUFFICES ASSUME NEW q \in trusted
             PROVE  TrustInv!(q)'
  BY DEF Issue, TrustInv
<1> QED
  BY RequestFacts DEF PortInv, PortTypeOK, TrustInv, Issue, Clean, hba

LEMMA DoneTrust ==
  ASSUME PortInv, TrustInv, Done
  PROVE  TrustInv'
BY DEF PortInv, PortTypeOK, TrustInv, Done, Returns, Clean, CI, hba

LEMMA GiveUpTrust ==
  ASSUME PortInv, TrustInv, GiveUp
  PROVE  TrustInv'
BY DEF PortInv, PortTypeOK, TrustInv, GiveUp, GivesUp, Returns, Clean, hba

LEMMA WaitedTrust ==
  ASSUME PortInv, TrustInv, Waited
  PROVE  TrustInv'
BY DEF PortInv, PortTypeOK, TrustInv, Waited, WaitEnds, Returns, Clean, CI, hba

LEMMA BeginTrust ==
  ASSUME PortInv, TrustInv, NEW p \in Ports, NEW r \in Requests, NEW patient \in BOOLEAN,
         Begin(p, r, patient)
  PROVE  TrustInv'
<1>1. slot' = [slot EXCEPT ![p] = Torn(p, r)] /\ (slot[p] = NoRequest => Torn(p, r) = NoRequest)
  BY TornFacts DEF Begin, PortInv
<1> QED
  BY <1>1 DEF PortInv, PortTypeOK, TrustInv, Begin, Clean

LEMMA LinkTrust ==
  ASSUME PortInv, TrustInv, NEW p \in Ports, LinkUp(p) \/ LinkDown(p)
  PROVE  TrustInv'
<1>1. CASE LinkUp(p)
  BY <1>1, RequestFacts DEF PortInv, PortTypeOK, TrustInv, LinkUp, AfterReset, Clean
<1>2. CASE LinkDown(p)
  BY <1>2 DEF PortInv, PortTypeOK, TrustInv, LinkDown, Clean, driver
<1> QED
  BY <1>1, <1>2

LEMMA LookedTrust ==
  ASSUME PortInv, TrustInv, pc = "free", Looked
  PROVE  TrustInv'
BY DEF TrustInv, Looked, Clean, hba

LEMMA RestTrust ==
  ASSUME TrustInv, UNCHANGED portVars
  PROVE  TrustInv'
BY DEF TrustInv, Clean, portVars, hba, driver

(* A function that changes at one place.                                   *)
LEMMA ChangesAtOne ==
  ASSUME NEW S, NEW f, NEW g, NEW p \in S,
         f = [q \in S |-> f[q]], g = [q \in S |-> g[q]],
         \A q \in S : q # p => g[q] = f[q]
  PROVE  g = [f EXCEPT ![p] = g[p]]
OBVIOUS

LEMMA NowhereIsNoPort == \A p \in Ports : p # NoPort
BY PortsAreNumbers DEF NoPort

OwedBy(p) ==
  (IF fetched[p] # NoRequest THEN {fetched[p]} ELSE {})
    \cup (IF slot[p] # NoRequest /\ p \notin halted THEN {slot[p]} ELSE {})
    \cup (IF p = port /\ Busy /\ (carried => pc \in {"building", "preparing"}) THEN {cur} ELSE {})

LEMMA OwedIsOwedBy == Owed = [p \in Ports |-> OwedBy(p)]
BY DEF Owed, OwedBy

LEMMA OwedIsOwedByNext == Owed' = [p \in Ports |-> OwedBy(p)']
BY DEF Owed, OwedBy

(* What a step does to a single port changes only what that port owes.     *)
LEMMA OwesAtOne ==
  ASSUME NEW p \in Ports, \A q \in Ports : q # p => OwedBy(q)' = OwedBy(q)
  PROVE  /\ Owed[p] = OwedBy(p) /\ Owed'[p] = OwedBy(p)'
         /\ Owed' = [Owed EXCEPT ![p] = Owed'[p]]
<1> DEFINE f == Owed
           g == Owed'
<1>1. f = [q \in Ports |-> f[q]] /\ g = [q \in Ports |-> g[q]]
      /\ (\A q \in Ports : f[q] = OwedBy(q)) /\ (\A q \in Ports : g[q] = OwedBy(q)')
  BY OwedIsOwedBy, OwedIsOwedByNext
<1>2. \A q \in Ports : q # p => g[q] = f[q]
  BY <1>1
<1> HIDE DEF f, g
<1>3. g = [f EXCEPT ![p] = g[p]]
  BY <1>1, <1>2, ChangesAtOne
<1> QED
  BY <1>1, <1>3 DEF f, g

Current == IF Busy THEN port ELSE NoPort

LEMMA FetchOwes ==
  ASSUME PortInv, NEW p \in Ports, Fetch(p)
  PROVE  UNCHANGED Promise!vars
<1>1. ASSUME NEW q \in Ports
      PROVE  OwedBy(q)' = OwedBy(q)
  <2>1. CASE q = p
    BY <2>1 DEF PortInv, PortTypeOK, Fetch, OwedBy, driver, Busy
  <2>2. CASE q # p
    BY <2>2 DEF PortInv, PortTypeOK, Fetch, OwedBy, driver, Busy
  <2> QED
    BY <2>1, <2>2
<1>2. Owed' = Owed
  BY <1>1, OwedIsOwedBy, OwedIsOwedByNext
<1> QED
  BY <1>2 DEF Promise!vars, Fetch, driver, Busy

LEMMA TransferCarriesOut ==
  ASSUME PortInv, NEW p \in Ports, Transfer(p)
  PROVE  Promise!CarryOut(p)
<1>1. \A q \in Ports : q # p => OwedBy(q)' = OwedBy(q)
  BY DEF PortInv, PortTypeOK, Transfer, OwedBy, driver, Busy
<1>2. /\ Owed[p] = OwedBy(p) /\ Owed'[p] = OwedBy(p)'
      /\ Owed' = [Owed EXCEPT ![p] = Owed'[p]]
  BY <1>1, OwesAtOne
<1>3. OwedBy(p)' \subseteq OwedBy(p)
  BY DEF PortInv, PortTypeOK, Transfer, OwedBy, driver, Busy
<1>4. fetched[p] \in OwedBy(p)
  BY DEF Transfer, OwedBy
<1>5. (Busy /\ carried)' \in (IF p = Current THEN BOOLEAN ELSE {Busy /\ carried})
  BY NowhereIsNoPort DEF PortInv, PortTypeOK, Transfer, driver, Busy, Current
<1> QED
  BY <1>2, <1>3, <1>4, <1>5 DEF Promise!CarryOut, Transfer, Held, driver, Busy, Current

LEMMA FailForgets ==
  ASSUME PortInv, NEW p \in Ports, Fail(p)
  PROVE  Promise!Forget(p)
<1>1. \A q \in Ports : q # p => OwedBy(q)' = OwedBy(q)
  BY DEF PortInv, PortTypeOK, Fail, OwedBy, driver, Busy
<1>2. /\ Owed[p] = OwedBy(p) /\ Owed'[p] = OwedBy(p)'
      /\ Owed' = [Owed EXCEPT ![p] = Owed'[p]]
  BY <1>1, OwesAtOne
<1>3. OwedBy(p)' \subseteq OwedBy(p)
  BY DEF PortInv, PortTypeOK, Fail, OwedBy, driver, Busy
<1> QED
  BY <1>2, <1>3 DEF Promise!Forget, Fail, driver, Busy

LEMMA IssueForgets ==
  ASSUME PortInv, Issue
  PROVE  \E p \in Ports : Promise!Forget(p)
<1>1. PICK p \in Ports : p = port
  BY DEF PortInv, PortTypeOK
<1>2. \A q \in Ports : q # p => OwedBy(q)' = OwedBy(q)
  BY <1>1 DEF PortInv, PortTypeOK, Issue, OwedBy, hba, Busy
<1>3. /\ Owed[p] = OwedBy(p) /\ Owed'[p] = OwedBy(p)'
      /\ Owed' = [Owed EXCEPT ![p] = Owed'[p]]
  BY <1>2, OwesAtOne
<1>4. OwedBy(p)' \subseteq OwedBy(p)
  BY <1>1 DEF PortInv, PortTypeOK, Issue, OwedBy, hba, Busy
<1> QED
  BY <1>3, <1>4 DEF Promise!Forget, Issue, Busy

LEMMA ReturnAnswers ==
  ASSUME PortInv, TrustInv, NEW ok \in BOOLEAN, NEW a,
         pc # "free", Returns(a), trusted' \in {trusted, trusted \ {port}},
         ok => trusted' = trusted,
         (ok /\ port \in trusted) => carried,
         port \in trusted' => Clean(port)
  PROVE  Promise!Answer(ok)
<1>1. PICK p \in Ports : p = port
  BY DEF PortInv, PortTypeOK
<1>2. \A q \in Ports : q # p => OwedBy(q)' = OwedBy(q)
  BY <1>1 DEF PortInv, PortTypeOK, Returns, OwedBy, hba, Busy
<1>3. /\ Owed[p] = OwedBy(p) /\ Owed'[p] = OwedBy(p)'
      /\ Owed' = [Owed EXCEPT ![p] = Owed'[p]]
  BY <1>2, OwesAtOne
<1>4. OwedBy(p)' \subseteq OwedBy(p)
  BY <1>1 DEF PortInv, PortTypeOK, Returns, OwedBy, hba, Busy
<1>5. p \in trusted' => OwedBy(p)' = {}
  BY <1>1 DEF PortInv, PortTypeOK, Returns, OwedBy, hba, Busy, Clean
<1>6. Current = p /\ p # NoPort /\ Current' = NoPort /\ ~(Busy /\ carried)'
  BY <1>1, NowhereIsNoPort DEF Current, Busy, Returns
<1>7. (ok /\ p \in trusted') => (Busy /\ carried)
  BY <1>1 DEF Busy
<1>8. trusted' \in {trusted, trusted \ {p}}
  BY <1>1
<1> QED
  BY <1>3, <1>4, <1>5, <1>6, <1>7, <1>8 DEF Promise!Answer, Returns, Current

LEMMA DriverKeepsPromise ==
  ASSUME PortInv, TrustInv, Driver
  PROVE  Promise!Next
<1>1. CASE Issue
  BY <1>1, IssueForgets DEF Promise!Next
<1>2. CASE Done
  <2>1. port \in trusted => Clean(port) /\ (Succeeded => carried)
    BY <1>2 DEF TrustInv, Done, CI, Clean, Succeeded
  <2>2. Promise!Answer(Succeeded)
    <3>1. Returns(IF Succeeded THEN "ok" ELSE "failed") /\ pc # "free" /\ trusted' = trusted
      BY <1>2 DEF Done
    <3>2. CASE Succeeded
      <4>1. Promise!Answer(TRUE)
        BY <2>1, <3>1, <3>2, ReturnAnswers
      <4> QED
        BY <3>2, <4>1 DEF Promise!Answer
    <3>3. CASE ~Succeeded
      <4>1. Promise!Answer(FALSE)
        BY <2>1, <3>1, <3>3, ReturnAnswers
      <4> QED
        BY <3>3, <4>1 DEF Promise!Answer
    <3> QED
      BY <3>2, <3>3
  <2> QED
    BY <2>2 DEF Promise!Next, Succeeded
<1>3. CASE GiveUp
  <2>1. Promise!Answer(FALSE)
    BY <1>3, ReturnAnswers DEF GiveUp, GivesUp
  <2> QED
    BY <2>1 DEF Promise!Next
<1>4. CASE Waited
  <2>1. port \in trusted => Clean(port)
    BY <1>4 DEF TrustInv, Waited, WaitEnds, CI, Clean
  <2>2. Promise!Answer(FALSE)
    BY <1>4, <2>1, ReturnAnswers DEF Waited
  <2> QED
    BY <2>2 DEF Promise!Next
<1> QED
  BY <1>1, <1>2, <1>3, <1>4 DEF Driver

LEMMA BeginBegins ==
  ASSUME PortInv, NEW p \in Ports, NEW r \in Requests, NEW patient \in BOOLEAN,
         Begin(p, r, patient), mem' \in [Bufs -> Contents]
  PROVE  Promise!Begin(p, r)
<1>1. slot' = [slot EXCEPT ![p] = Torn(p, r)]
  BY DEF Begin
<1>2. \A q \in Ports : q # p => OwedBy(q)' = OwedBy(q)
  BY <1>1 DEF PortInv, PortTypeOK, Begin, OwedBy, Busy
<1>3. /\ Owed[p] = OwedBy(p) /\ Owed'[p] = OwedBy(p)'
      /\ Owed' = [Owed EXCEPT ![p] = Owed'[p]]
  BY <1>2, OwesAtOne
<1>4. r \in OwedBy(p)'
  BY DEF Begin, OwedBy, Busy
<1> DEFINE S == OwedBy(p) \cup {r}
<1>5. \A x \in S : x \in Requests
  BY DEF OwedBy, Busy, PortInv, PortTypeOK, Begin
<1>6. \A x \in S : x = [x EXCEPT !.buf = x.buf]
  BY <1>5 DEF Requests
<1>7. \A x \in S : x \in Promise!Mixed(S)
  BY <1>5, <1>6 DEF Promise!Mixed
<1>8. (slot[p] # NoRequest /\ p \notin halted) => Torn(p, r) \in Promise!Mixed(S)
  <2> SUFFICES ASSUME slot[p] # NoRequest, p \notin halted
               PROVE  Torn(p, r) \in Promise!Mixed(S)
    OBVIOUS
  <2>1. Torn(p, r) = [r EXCEPT !.buf = slot[p].buf]
    BY DEF Torn
  <2>2. slot[p] \in S /\ r \in S /\ Torn(p, r) \in Requests
    BY TornFacts DEF OwedBy, PortInv
  <2> QED
    BY <2>1, <2>2 DEF Promise!Mixed
<1>9. OwedBy(p)' \subseteq
        (IF fetched[p] # NoRequest THEN {fetched[p]} ELSE {})
          \cup (IF slot[p] # NoRequest /\ p \notin halted THEN {Torn(p, r)} ELSE {}) \cup {r}
  BY <1>1, TornFacts DEF PortInv, PortTypeOK, Begin, OwedBy, Busy
<1>10. fetched[p] # NoRequest => fetched[p] \in S
  BY DEF OwedBy
<1>11. OwedBy(p)' \subseteq Promise!Mixed(S)
  BY <1>7, <1>8, <1>9, <1>10
<1>12. Current = NoPort /\ Current' = p /\ ~(Busy /\ carried)'
  BY DEF Begin, Current, Busy
<1> QED
  BY <1>3, <1>4, <1>11, <1>12 DEF Promise!Begin, Promise!UseBuffers, Begin, Current

LEMMA LinkResets ==
  ASSUME PortInv, NEW p \in Ports, LinkUp(p) \/ LinkDown(p)
  PROVE  Promise!Next
<1>1. CASE LinkUp(p)
  <2>1. \A q \in Ports : q # p => OwedBy(q)' = OwedBy(q)
    BY <1>1 DEF PortInv, PortTypeOK, LinkUp, AfterReset, OwedBy, Busy
  <2>2. /\ Owed'[p] = OwedBy(p)' /\ Owed' = [Owed EXCEPT ![p] = Owed'[p]]
    BY <2>1, OwesAtOne
  <2>3. OwedBy(p)' = {Identify}
    BY <1>1, RequestFacts DEF PortInv, PortTypeOK, LinkUp, AfterReset, OwedBy, Busy
  <2>4. Current = NoPort /\ Current' = p /\ ~(Busy /\ carried)' /\ mem' \in [Bufs -> Contents]
    BY <1>1 DEF LinkUp, Current, Busy, PortInv, PortTypeOK
  <2>5. Promise!ResetUp(p, Identify)
    BY <1>1, <2>2, <2>3, <2>4 DEF Promise!ResetUp, Promise!UseBuffers, LinkUp, Current
  <2> QED
    BY <2>5, RequestFacts DEF Promise!Next
<1>2. CASE LinkDown(p)
  <2>1. \A q \in Ports : q # p => OwedBy(q)' = OwedBy(q)
    BY <1>2 DEF PortInv, PortTypeOK, LinkDown, OwedBy, Busy, driver
  <2>2. /\ Owed'[p] = OwedBy(p)' /\ Owed' = [Owed EXCEPT ![p] = Owed'[p]]
    BY <2>1, OwesAtOne
  <2>3. OwedBy(p)' = {}
    BY <1>2 DEF PortInv, PortTypeOK, LinkDown, OwedBy, Busy, driver
  <2>4. Current = NoPort /\ Current' = Current /\ ~(Busy /\ carried) /\ ~(Busy /\ carried)'
    BY <1>2 DEF LinkDown, Current, Busy, driver
  <2>5. Promise!ResetDown(p)
    BY <1>2, <2>2, <2>3, <2>4 DEF Promise!ResetDown, LinkDown, Current
  <2> QED
    BY <2>5 DEF Promise!Next
<1> QED
  BY <1>1, <1>2

LEMMA LookedKeepsPromise ==
  ASSUME pc = "free", Looked
  PROVE  UNCHANGED Promise!vars
<1>1. \A q \in Ports : OwedBy(q)' = OwedBy(q)
  BY DEF Looked, OwedBy, Busy, hba
<1>2. Owed' = Owed
  BY <1>1, OwedIsOwedBy, OwedIsOwedByNext
<1> QED
  BY <1>2 DEF Promise!vars, Looked, Busy, hba

LEMMA RestKeepsPromise ==
  ASSUME UNCHANGED portVars
  PROVE  UNCHANGED Promise!vars
<1>1. \A q \in Ports : OwedBy(q)' = OwedBy(q)
  BY DEF portVars, OwedBy, Busy, hba, driver
<1>2. Owed' = Owed
  BY <1>1, OwedIsOwedBy, OwedIsOwedByNext
<1> QED
  BY <1>2 DEF Promise!vars, portVars, Busy, hba, driver

LEMMA StepKeepsTrust ==
  ASSUME ListInv, TrustInv, [Next]_vars
  PROVE  TrustInv' /\ [Promise!Next]_(Promise!vars)
<1>1. PortInv
  BY InvHasPorts
<1>2. CASE StartScan \/ EndMount \/ EndScan \/ Ref \/ ScanUsb \/ (\E i \in Places : Select(i))
           \/ UNCHANGED vars
  <2>1. UNCHANGED portVars
    BY <1>2 DEF StartScan, EndMount, EndScan, Ref, ScanUsb, Select, vars
  <2> QED
    BY <2>1, RestTrust, RestKeepsPromise
<1>3. CASE ListPort \/ LabelDrive \/ Opened \/ Returned
  <2>1. pc = "free" /\ Looked
    BY <1>3 DEF ListPort, LabelDrive, Opened, Returned
  <2> QED
    BY <1>1, <2>1, LookedTrust, LookedKeepsPromise
<1>4. CASE MountPort
  <2>1. PICK p \in Ports : LinkUp(p) \/ LinkDown(p)
    BY <1>4, FirstIsLeast DEF MountPort, ListInv, ListTypeOK
  <2> QED
    BY <1>1, <2>1, LinkTrust, LinkResets
<1>5. CASE ReadBoot \/ OpenIdentify \/ OpenRead \/ Save
  <2>1. \E p \in Ports, r \in Requests, patient \in BOOLEAN :
          Begin(p, r, patient) /\ mem' \in [Bufs -> Contents]
    <3>1. CASE ReadBoot
      <4>1. drives[looked_at].base_port \in Ports /\ Read(0, Boot) \in Requests
        BY <3>1, ScannedIsDisk, RequestFacts DEF ReadBoot
      <4>2. mem' \in [Bufs -> Contents]
        BY <3>1, ContentFacts DEF ReadBoot, BootSector, ListInv, PortTypeOK
      <4> QED
        BY <3>1, <4>1, <4>2 DEF ReadBoot
    <3>2. CASE OpenIdentify
      BY <3>2, SataHasPort, RequestFacts DEF OpenIdentify, ListInv, PortTypeOK
    <3>3. CASE OpenRead
      BY <3>3, SataHasPort, RequestFacts DEF OpenRead, ListInv, CallInv, PortTypeOK
    <3>4. CASE Save
      <4>1. Selected.base_port \in Ports /\ Write(SaveLba, Out) \in Requests
        BY <3>4, SataHasPort, RequestFacts DEF Save, ListInv
      <4>2. mem' \in [Bufs -> Contents]
        BY <3>4, ContentFacts DEF Save, ListInv, PortTypeOK
      <4> QED
        BY <3>4, <4>1, <4>2 DEF Save
    <3> QED
      BY <1>5, <3>1, <3>2, <3>3, <3>4
  <2>2. PICK p \in Ports, r \in Requests, patient \in BOOLEAN :
          Begin(p, r, patient) /\ mem' \in [Bufs -> Contents]
    BY <2>1
  <2>3. TrustInv'
    BY <1>1, <2>2, BeginTrust
  <2>4. Promise!Begin(p, r)
    BY <1>1, <2>2, BeginBegins
  <2> QED
    BY <2>3, <2>4 DEF Promise!Next
<1>6. CASE Driver
  <2>1. TrustInv'
    BY <1>1, <1>6, IssueTrust, DoneTrust, GiveUpTrust, WaitedTrust DEF Driver
  <2> QED
    BY <1>1, <1>6, <2>1, DriverKeepsPromise
<1>7. CASE Hardware
  <2>1. PICK p \in Ports : Fetch(p) \/ Transfer(p) \/ Fail(p)
    BY <1>7 DEF Hardware, Adapter
  <2>2. CASE Fetch(p)
    BY <1>1, <2>2, FetchTrust, FetchOwes
  <2>3. CASE Transfer(p)
    BY <1>1, <2>3, TransferTrust, TransferCarriesOut DEF Promise!Next
  <2>4. CASE Fail(p)
    BY <1>1, <2>4, FailTrust, FailForgets DEF Promise!Next
  <2> QED
    BY <2>1, <2>2, <2>3, <2>4
<1> QED
  BY <1>2, <1>3, <1>4, <1>5, <1>6, <1>7 DEF Next, Scan, Buttons

(* The driver implements BlockDevice: whatever the adapters fetch, move,   *)
(* fail or forget and whenever they do it, an answer "ok" of a trusted     *)
(* port comes after its request was carried out, and nothing is carried    *)
(* out that is not owed.                                                   *)
THEOREM DriverImplementsBlockDevice == Spec => ImplementsBlockDevice
<1>1. Init => TrustInv
  BY DEF Init, PortInit, TrustInv
<1>2. Init => Promise!Init
  <2> SUFFICES ASSUME Init
               PROVE  Promise!Init
    OBVIOUS
  <2>1. PortTypeOK
    BY InitHasList DEF ListInv
  <2>2. \A p \in Ports : OwedBy(p) = {}
    BY DEF Init, PortInit, OwedBy, Busy
  <2>3. Owed = [p \in Ports |-> {}]
    BY <2>2, OwedIsOwedBy
  <2> QED
    BY <2>1, <2>3 DEF Promise!Init, Init, PortInit, Busy, PortTypeOK
<1>3. ListInv /\ TrustInv /\ [Next]_vars => TrustInv' /\ [Promise!Next]_(Promise!vars)
  BY StepKeepsTrust
<1> QED
  BY <1>1, <1>2, <1>3, ListInvariant, PTL DEF Spec, ImplementsBlockDevice, Promise!Spec

-----------------------------------------------------------------------------
(* The names.  Only SAVE writes, and never to sector 0; and while the      *)
(* listed disks owe nothing, only the read that the scan waits for can     *)
(* reach the buffer the names are taken from.                              *)

Rightful(r) == (r.op = "write" => r.lba # 0) /\ (r.op = "read" => r.lba = 0)

RequestInv ==
  /\ \A p \in Ports : disk[p][0] = SectorOf(p, 0)
  /\ \A p \in Ports : Rightful(slot[p]) /\ Rightful(fetched[p])
  /\ Rightful(cur)

Names(p) == slot[p].buf = Boot \/ fetched[p].buf = Boot
AllTrusted == SataListed \subseteq trusted

LabelInv ==
  /\ caller = "mount" => \A i \in InList : drives[i].label = Zero
  /\ (Awaiting /\ cur.buf = Boot) => caller = "label"
  /\ \A p \in Ports : Names(p) =>
       IF caller = "mount" THEN p \in unmounted
       ELSE ~AllTrusted \/ (p = port /\ pc # "free" /\ caller = "label")
  /\ (caller = "label" /\ Awaiting /\ AllTrusted) => mem[Boot] \in {Zero, SectorOf(port, 0)}
  /\ LabelsAreOwn

LEMMA RightfulRequests ==
  /\ Rightful(NoRequest) /\ Rightful(Identify) /\ Rightful(Write(SaveLba, Out))
  /\ \A b : Rightful(Read(0, b))
  /\ NoRequest.buf # Boot /\ Identify.buf # Boot /\ Write(SaveLba, Out).buf # Boot
  /\ Read(0, Boot).buf = Boot /\ Read(0, Scratch).buf # Boot
BY DEF Rightful, NoRequest, Identify, Write, Read, SaveLba, Scratch, Boot, Out

LEMMA AdapterRequests ==
  ASSUME PortInv, RequestInv, NEW p \in Ports, Adapter(p)
  PROVE  RequestInv'
<1>1. CASE Fetch(p)
  BY <1>1, RightfulRequests DEF PortInv, PortTypeOK, RequestInv, Fetch, driver
<1>2. CASE Transfer(p)
  <2>1. \A q \in Ports : disk'[q][0] = disk[q][0]
    <3>1. fetched[p].op = "write" => fetched[p].lba # 0
      BY <1>2 DEF RequestInv, Rightful
    <3>2. 0 \in Lbas
      BY RequestFacts
    <3> QED
      BY <1>2, <3>1, <3>2 DEF Transfer, PortInv, PortTypeOK
  <2>2. \A q \in Ports : fetched'[q] \in {fetched[q], NoRequest}
    BY <1>2 DEF Transfer, PortInv, PortTypeOK
  <2> QED
    BY <1>2, <2>1, <2>2, RightfulRequests DEF RequestInv, Transfer, driver
<1>3. CASE Fail(p)
  BY <1>3, RightfulRequests DEF PortInv, PortTypeOK, RequestInv, Fail, driver
<1> QED
  BY <1>1, <1>2, <1>3 DEF Adapter

LEMMA DriverRequests ==
  ASSUME PortInv, RequestInv, Driver
  PROVE  RequestInv'
<1>1. CASE Issue
  BY <1>1 DEF PortInv, PortTypeOK, RequestInv, Issue, hba
<1>2. CASE Done \/ GiveUp \/ Waited
  BY <1>2 DEF RequestInv, Done, GiveUp, Waited, Returns, hba
<1> QED
  BY <1>1, <1>2 DEF Driver

LEMMA BeginRequests ==
  ASSUME PortInv, RequestInv, NEW p \in Ports, NEW r \in Requests, NEW patient \in BOOLEAN,
         Begin(p, r, patient), Rightful(r)
  PROVE  RequestInv' /\ \A q \in Ports : Names(q)' <=> Names(q)
<1>1. slot' = [slot EXCEPT ![p] = Torn(p, r)] /\ Rightful(Torn(p, r)) /\ Torn(p, r).buf = slot[p].buf
  BY TornFacts, RightfulRequests DEF Begin, PortInv, Rightful
<1> QED
  BY <1>1 DEF PortInv, PortTypeOK, RequestInv, Begin, Names

LEMMA LinkRequests ==
  ASSUME PortInv, RequestInv, NEW p \in Ports, LinkUp(p) \/ LinkDown(p)
  PROVE  RequestInv' /\ ~Names(p)' /\ \A q \in Ports : q # p => (Names(q)' <=> Names(q))
<1>1. CASE LinkUp(p)
  BY <1>1, RightfulRequests DEF PortInv, PortTypeOK, RequestInv, LinkUp, AfterReset, Names
<1>2. CASE LinkDown(p)
  BY <1>2, RightfulRequests DEF PortInv, PortTypeOK, RequestInv, LinkDown, driver, Names
<1> QED
  BY <1>1, <1>2

LEMMA RestRequests ==
  ASSUME RequestInv, UNCHANGED portVars \/ Looked
  PROVE  RequestInv' /\ \A q \in Ports : Names(q)' <=> Names(q)
BY RightfulRequests DEF RequestInv, portVars, hba, driver, Looked, Names

(* Steps of the processor that touch neither the list nor the driver.      *)
LEMMA QuietLabels ==
  ASSUME ListInv, LabelInv, UNCHANGED <<portVars, drives, drive_count, unmounted, looked_at>>,
         caller' = caller \/ (~Awaiting /\ caller = "label" /\ caller' = "none")
  PROVE  LabelInv'
<1>1. InList' = InList /\ SataListed' = SataListed
  BY DEF InList, SataListed
<1>2. \A p \in Ports : Names(p)' <=> Names(p)
  BY DEF Names, portVars, hba
<1>3. Awaiting' <=> Awaiting
  BY DEF Awaiting, portVars, driver
<1>4. AllTrusted' <=> AllTrusted
  BY <1>1 DEF AllTrusted, portVars
<1>5. LabelsAreOwn'
  BY <1>1 DEF LabelInv, LabelsAreOwn, portVars
<1>6. (Awaiting /\ cur.buf = Boot)' => caller' = "label"
  BY <1>3 DEF LabelInv, portVars, driver
<1>7. ASSUME NEW p \in Ports, Names(p)'
      PROVE  IF caller' = "mount" THEN p \in unmounted'
             ELSE ~AllTrusted' \/ (p = port' /\ pc' # "free" /\ caller' = "label")
  BY <1>2, <1>4, <1>7 DEF LabelInv, portVars, driver, Awaiting
<1> QED
  BY <1>1, <1>3, <1>4, <1>5, <1>6, <1>7 DEF LabelInv, portVars, driver

LEMMA StartScanLabels ==
  ASSUME ListInv, LabelInv, StartScan
  PROVE  LabelInv'
<1>1. drive_count' = 0 /\ caller' = "mount" /\ unmounted' = Ports /\ ~Awaiting /\ UNCHANGED portVars
  BY ScanEmptiesTheList DEF StartScan, Idle, ListInv, CallInv
<1>2. InList' = {} /\ ~Awaiting'
  BY <1>1 DEF InList, Awaiting, portVars, driver
<1>3. LabelsAreOwn'
  BY <1>2 DEF LabelsAreOwn, InList
<1> QED
  BY <1>1, <1>2, <1>3 DEF LabelInv

LEMMA MountPortLabels ==
  ASSUME ListInv, RequestInv, LabelInv, MountPort
  PROVE  LabelInv'
<1>1. PICK p \in Ports : p = First(unmounted)
  BY FirstIsLeast DEF MountPort, ListInv, ListTypeOK
<1>2. /\ LinkUp(p) \/ LinkDown(p)
      /\ unmounted' = unmounted \ {p} /\ caller = "mount" /\ caller' = "mount"
      /\ UNCHANGED <<drives, drive_count>>
      /\ pc = "free" /\ answer = "none"
  BY <1>1 DEF MountPort, listVars
<1>3. ~Names(p)' /\ \A q \in Ports : q # p => (Names(q)' <=> Names(q))
  BY <1>1, <1>2, LinkRequests, InvHasPorts
<1>4. InList' = InList /\ \A i \in InList : drives'[i].label = Zero
  BY <1>2 DEF InList, LabelInv
<1>5. Awaiting' => cur'.buf # Boot
  BY <1>2, RightfulRequests DEF Awaiting, LinkUp, LinkDown, driver
<1>6. LabelsAreOwn'
  BY <1>4 DEF LabelsAreOwn, InList
<1>7. \A q \in Ports : Names(q)' => q \in unmounted'
  BY <1>2, <1>3 DEF LabelInv
<1> QED
  BY <1>2, <1>4, <1>5, <1>6, <1>7 DEF LabelInv

LEMMA ListPortLabels ==
  ASSUME ListInv, RequestInv, LabelInv, ListPort
  PROVE  LabelInv'
<1> DEFINE d == Drive(2, port)
<1>1. /\ d \in [type : {2, 3}, base_port : Ports \cup {0}, label : Contents] /\ d.label = Zero
      /\ Listed(d) /\ caller = "mount" /\ caller' = "mount" /\ unmounted' = unmounted
      /\ Looked /\ pc = "free" /\ ListTypeOK
  BY ContentFacts DEF ListPort, Drive, ListInv, PortTypeOK, scanVars
<1> HIDE DEF d
<1>2. /\ \A i \in Places : drives'[i] = IF HasRoom /\ i = drive_count THEN d ELSE drives[i]
      /\ InList' = IF HasRoom THEN InList \cup {drive_count} ELSE InList
  BY <1>1, ListedFacts
<1>3. InList \subseteq Places /\ (HasRoom => drive_count \in Places)
  BY <1>1, ListedIsPlace
<1>4. \A i \in InList' : drives'[i].label = Zero
  BY <1>1, <1>2, <1>3 DEF LabelInv
<1>5. LabelsAreOwn'
  BY <1>4 DEF LabelsAreOwn, InList
<1>6. ~Awaiting' /\ \A q \in Ports : Names(q)' <=> Names(q)
  BY <1>1, RestRequests DEF Looked, Awaiting
<1> QED
  BY <1>1, <1>4, <1>5, <1>6 DEF LabelInv

LEMMA EndMountLabels ==
  ASSUME ListInv, RequestInv, LabelInv, EndMount
  PROVE  LabelInv'
<1>1. /\ caller = "mount" /\ caller' = "label" /\ unmounted = {} /\ ~Awaiting
      /\ UNCHANGED <<portVars, drives, drive_count>>
  BY DEF EndMount, Awaiting, listVars
<1>2. InList' = InList /\ SataListed' = SataListed /\ ~Awaiting'
  BY <1>1 DEF InList, SataListed, Awaiting, portVars, driver
<1>3. \A q \in Ports : ~Names(q)'
  BY <1>1, RestRequests DEF LabelInv
<1>4. LabelsAreOwn'
  BY <1>1, <1>2 DEF LabelInv, LabelsAreOwn, portVars
<1> QED
  BY <1>1, <1>2, <1>3, <1>4 DEF LabelInv

(* A request is begun while none of the listed disks owes one that names   *)
(* the buffer; mem may be prepared for it.                                 *)
LEMMA BeginLabels ==
  ASSUME ListInv, RequestInv, LabelInv,
         NEW p \in Ports, NEW r \in Requests, NEW patient \in BOOLEAN,
         Begin(p, r, patient), Rightful(r),
         UNCHANGED <<drives, drive_count>>, caller # "mount", caller' # "mount",
         r.buf = Boot => caller' = "label",
         caller' = "label" => mem'[Boot] = Zero
  PROVE  LabelInv'
<1>1. RequestInv' /\ \A q \in Ports : Names(q)' <=> Names(q)
  BY BeginRequests, InvHasPorts
<1>2. InList' = InList /\ SataListed' = SataListed
  BY DEF InList, SataListed
<1>3. pc = "free" /\ cur' = r /\ trusted' = trusted
  BY DEF Begin
<1>4. AllTrusted' <=> AllTrusted
  BY <1>2, <1>3 DEF AllTrusted
<1>5. LabelsAreOwn'
  BY <1>2, <1>3 DEF LabelInv, LabelsAreOwn
<1>6. ASSUME NEW q \in Ports, Names(q)'
      PROVE  ~AllTrusted'
  BY <1>1, <1>3, <1>4, <1>6 DEF LabelInv
<1> QED
  BY <1>3, <1>5, <1>6 DEF LabelInv

LEMMA BeginsLabels ==
  ASSUME ListInv, RequestInv, LabelInv, ReadBoot \/ OpenIdentify \/ OpenRead \/ Save
  PROVE  RequestInv' /\ LabelInv'
<1>1. CASE ReadBoot
  <2> DEFINE p == drives[looked_at].base_port
             r == Read(0, Boot)
  <2>1. p \in Ports /\ r \in Requests /\ Rightful(r)
    BY <1>1, ScannedIsDisk, RequestFacts, RightfulRequests DEF ReadBoot
  <2>2. mem'[Boot] = Zero
    BY <1>1, RequestFacts DEF ReadBoot, BootSector, ListInv, PortTypeOK
  <2>3. /\ Begin(p, r, FALSE) /\ caller = "label" /\ caller' = "label"
        /\ UNCHANGED <<drives, drive_count>>
    BY <1>1 DEF ReadBoot, listVars
  <2> HIDE DEF p, r
  <2> QED
    BY <2>1, <2>2, <2>3, BeginLabels, BeginRequests, InvHasPorts
<1>2. CASE OpenIdentify
  <2> DEFINE p == Selected.base_port
             r == Identify
  <2>1. p \in Ports /\ r \in Requests /\ Rightful(r) /\ r.buf # Boot
    BY <1>2, SataHasPort, RequestFacts, RightfulRequests DEF OpenIdentify, ListInv
  <2>2. /\ Begin(p, r, TRUE) /\ caller = "none" /\ caller' = "open"
        /\ UNCHANGED <<drives, drive_count>>
    BY <1>2 DEF OpenIdentify, Press, Idle, listVars
  <2> HIDE DEF p, r
  <2> QED
    BY <2>1, <2>2, BeginLabels, BeginRequests, InvHasPorts
<1>3. CASE OpenRead
  <2> DEFINE p == Selected.base_port
             r == Read(0, Scratch)
  <2>1. p \in Ports /\ r \in Requests /\ Rightful(r) /\ r.buf # Boot
    BY <1>3, SataHasPort, RequestFacts, RightfulRequests DEF OpenRead, ListInv, CallInv
  <2>2. /\ Begin(p, r, FALSE) /\ caller = "open" /\ caller' = "opened"
        /\ UNCHANGED <<drives, drive_count>>
    BY <1>3 DEF OpenRead, listVars
  <2> HIDE DEF p, r
  <2> QED
    BY <2>1, <2>2, BeginLabels, BeginRequests, InvHasPorts
<1>4. CASE Save
  <2> DEFINE p == Selected.base_port
             r == Write(SaveLba, Out)
  <2>1. p \in Ports /\ r \in Requests /\ Rightful(r) /\ r.buf # Boot
    BY <1>4, SataHasPort, RequestFacts, RightfulRequests DEF Save, ListInv
  <2>2. /\ Begin(p, r, FALSE) /\ caller = "none" /\ caller' = "user"
        /\ UNCHANGED <<drives, drive_count>>
    BY <1>4 DEF Save, Press, Idle, listVars
  <2> HIDE DEF p, r
  <2> QED
    BY <2>1, <2>2, BeginLabels, BeginRequests, InvHasPorts
<1> QED
  BY <1>1, <1>2, <1>3, <1>4

LEMMA LabelDriveLabels ==
  ASSUME ListInv, RequestInv, LabelInv, LabelDrive
  PROVE  LabelInv'
<1>1. caller = "label" /\ caller' = "label" /\ Looked /\ answer # "none" /\ pc = "free"
      /\ pc' = "free" /\ trusted' = trusted
  BY DEF LabelDrive, Looked
<1>2. Awaiting /\ ~Awaiting' /\ \A q \in Ports : Names(q)' <=> Names(q)
  BY <1>1, RestRequests DEF Looked, Awaiting
<1>3. InList' = InList /\ InList \subseteq Places
  BY LabelFacts, ListedIsPlace DEF ListInv
<1>4. SataListed' = SataListed
  BY <1>3, LabelFacts DEF SataListed, InList
<1>5. AllTrusted' <=> AllTrusted
  BY <1>1, <1>4 DEF AllTrusted
<1>6. LabelsAreOwn'
  <2> SUFFICES ASSUME AllTrusted, NEW i \in InList, drives[i].type = 2
               PROVE  drives'[i].label \in {Zero, SectorOf(drives[i].base_port, 0)}
    BY <1>3, <1>5, LabelFacts DEF LabelsAreOwn, InList, AllTrusted
  <2>1. CASE i = looked_at
    <3>1. drives'[i].label = mem[Boot] /\ port = drives[i].base_port
      BY <1>3, <2>1, LabelFacts
    <3>2. mem[Boot] \in {Zero, SectorOf(port, 0)}
      BY <1>1, <1>2 DEF LabelInv
    <3> QED
      BY <3>1, <3>2
  <2>2. CASE i # looked_at
    BY <1>3, <2>2, LabelFacts DEF LabelInv, LabelsAreOwn, InList, AllTrusted
  <2> QED
    BY <2>1, <2>2
<1> QED
  BY <1>1, <1>2, <1>5, <1>6 DEF LabelInv

LEMMA ScanUsbLabels ==
  ASSUME ListInv, RequestInv, LabelInv, ScanUsb
  PROVE  LabelInv'
<1>1. caller = "none" /\ caller' = "none" /\ UNCHANGED <<portVars, unmounted, looked_at>>
  BY DEF ScanUsb, Press, Idle, scanVars
<1>2. CASE UNCHANGED <<drives, drive_count>>
  BY <1>1, <1>2, QuietLabels
<1>3. CASE Listed(UsbStick)
  <2> DEFINE d == UsbStick
  <2>1. d \in [type : {2, 3}, base_port : Ports \cup {0}, label : Contents] /\ d.type = 3
    BY ContentFacts DEF UsbStick, Drive
  <2> HIDE DEF d
  <2>2. Listed(d) /\ ListTypeOK
    BY <1>3 DEF d, ListInv
  <2>3. /\ \A i \in Places : drives'[i] = IF HasRoom /\ i = drive_count THEN d ELSE drives[i]
        /\ InList' = IF HasRoom THEN InList \cup {drive_count} ELSE InList
    BY <2>1, <2>2, ListedFacts
  <2>4. InList \subseteq Places /\ drive_count \notin InList /\ (HasRoom => drive_count \in Places)
    BY <2>2, ListedIsPlace DEF InList
  <2>5. {i \in InList' : drives'[i].type = 2} = {i \in InList : drives[i].type = 2}
        /\ \A i \in InList : drives'[i] = drives[i]
    BY <2>1, <2>3, <2>4
  <2>6. SataListed' = SataListed
    BY <2>5 DEF SataListed, InList
  <2>7. LabelsAreOwn'
    BY <1>1, <2>5, <2>6 DEF LabelInv, LabelsAreOwn, InList, portVars
  <2>8. ~Awaiting' /\ \A q \in Ports : Names(q)' <=> Names(q)
    BY <1>1, RestRequests DEF Awaiting, ListInv, CallInv, portVars, driver
  <2> QED
    BY <1>1, <2>6, <2>7, <2>8 DEF LabelInv, AllTrusted, portVars
<1> QED
  BY <1>2, <1>3 DEF ScanUsb

LEMMA ReturnLabels ==
  ASSUME ListInv, RequestInv, LabelInv, Opened \/ Returned
  PROVE  LabelInv'
<1>1. /\ caller \in {"opened", "user"} /\ caller' = "none" /\ Looked /\ pc = "free"
      /\ UNCHANGED <<drives, drive_count>> /\ trusted' = trusted
  BY DEF Opened, Returned, Looked, listVars
<1>2. ~Awaiting' /\ \A q \in Ports : Names(q)' <=> Names(q)
  BY <1>1, RestRequests DEF Looked, Awaiting
<1>3. InList' = InList /\ SataListed' = SataListed
  BY <1>1 DEF InList, SataListed
<1>4. LabelsAreOwn'
  BY <1>1, <1>3 DEF LabelInv, LabelsAreOwn
<1> QED
  BY <1>1, <1>2, <1>3, <1>4 DEF LabelInv, AllTrusted

(* The list, while the driver or an adapter works.                         *)
LEMMA MachineLabels ==
  ASSUME ListInv, RequestInv, LabelInv, UNCHANGED <<listVars, userVars, caller, scanVars>>,
         Driver \/ Hardware
  PROVE  LabelInv'
<1>1. /\ UNCHANGED <<drives, drive_count, caller, unmounted, looked_at>>
      /\ InList' = InList /\ SataListed' = SataListed
  BY DEF listVars, scanVars, InList, SataListed
<1>2. port' = port /\ cur' = cur /\ (Awaiting' <=> Awaiting)
      /\ trusted' \in {trusted, trusted \ {port}}
  <2>1. CASE Issue
    BY <2>1 DEF Issue, Awaiting
  <2>2. CASE Done \/ GiveUp \/ Waited
    BY <2>2 DEF Done, GiveUp, GivesUp, Waited, Returns, Awaiting
  <2>3. CASE Hardware
    BY <2>3 DEF Hardware, Adapter, Fetch, Transfer, Fail, driver, Awaiting
  <2> QED
    BY <2>1, <2>2, <2>3 DEF Driver
<1>3. AllTrusted' => AllTrusted
  BY <1>1, <1>2 DEF AllTrusted
<1>4. LabelsAreOwn'
  BY <1>1, <1>2, <1>3 DEF LabelInv, LabelsAreOwn, AllTrusted
<1>5. port \in Ports /\ NoRequest.buf # Boot
  BY RightfulRequests DEF ListInv, PortTypeOK
<1>6. ASSUME NEW p \in Ports, Names(p)'
      PROVE  IF caller = "mount" THEN p \in unmounted
             ELSE ~AllTrusted' \/ (p = port /\ pc' # "free" /\ caller = "label")
  <2>1. CASE Hardware
    <3>1. Names(p)
      BY ZenonT(60), <1>5, <1>6, <2>1
         DEF Hardware, Adapter, Fetch, Transfer, Fail, Names, ListInv, PortTypeOK
    <3>2. pc' = pc /\ trusted' = trusted
      BY <2>1 DEF Hardware, Adapter, Fetch, Transfer, Fail, driver
    <3> QED
      BY <1>1, <3>1, <3>2 DEF LabelInv, AllTrusted
  <2>2. CASE Issue
    <3>1. pc # "free" /\ pc' # "free" /\ trusted' = trusted
      BY <2>2 DEF Issue
    <3>2. CASE Names(p)
      BY <1>1, <3>1, <3>2 DEF LabelInv, AllTrusted
    <3>3. CASE ~Names(p)
      <4>1. p = port /\ cur.buf = Boot
        BY <1>6, <2>2, <3>3 DEF Issue, Names, hba, ListInv, PortTypeOK
      <4>2. caller = "label"
        BY <3>1, <4>1 DEF LabelInv, Awaiting
      <4> QED
        BY <3>1, <4>1, <4>2
    <3> QED
      BY <3>2, <3>3
  <2>3. CASE Done \/ GiveUp \/ Waited
    <3>1. Names(p) /\ pc # "free" /\ pc' = "free"
      BY <1>6, <2>3 DEF Done, GiveUp, GivesUp, Waited, Returns, Names, hba
    <3>2. CASE ~(p = port /\ caller = "label")
      BY <1>3, <3>1, <3>2 DEF LabelInv
    <3>3. CASE p = port /\ caller = "label"
      <4>1. CASE Done
        <5>1. ~CI(p)
          BY <3>3, <4>1 DEF Done
        <5> QED
          BY <1>5, <3>1, <5>1 DEF CI, Names
      <4>2. CASE GiveUp
        <5>1. looked_at < drive_count /\ port = drives[looked_at].base_port
          BY <3>1, <3>3 DEF ListInv, CallInv, Awaiting
        <5>2. port \in SataListed
          BY <3>3, <5>1, ScannedIsDisk DEF SataListed, InList
        <5>3. port \notin trusted'
          BY <4>2 DEF GiveUp
        <5> QED
          BY <1>1, <3>3, <5>2, <5>3 DEF AllTrusted
      <4>3. CASE Waited
        BY <3>3, <4>3 DEF Waited, ListInv, CallInv
      <4> QED
        BY <2>3, <4>1, <4>2, <4>3
    <3> QED
      BY <3>2, <3>3
  <2> QED
    BY <2>1, <2>2, <2>3 DEF Driver
<1>7. ASSUME caller = "label", Awaiting, AllTrusted'
      PROVE  mem'[Boot] \in {Zero, SectorOf(port, 0)}
  <2>1. mem[Boot] \in {Zero, SectorOf(port, 0)}
    BY <1>3, <1>7 DEF LabelInv
  <2>2. CASE UNCHANGED mem
    BY <2>1, <2>2
  <2>3. ASSUME NEW p \in Ports, Transfer(p)
        PROVE  mem'[Boot] \in {Zero, SectorOf(port, 0)}
    <3> DEFINE r == fetched[p]
    <3>1. CASE r.buf # Boot \/ r.op = "write"
      BY <2>1, <2>3, <3>1, RequestFacts DEF Transfer
    <3>2. CASE r.buf = Boot /\ r.op # "write"
      <4>1. p = port
        BY <1>3, <1>7, <3>2 DEF LabelInv, Names
      <4>2. mem'[Boot] = IF r.op = "read" THEN disk[p][r.lba] ELSE Zero
        BY <2>3, <3>2, RequestFacts DEF Transfer
      <4>3. r.op = "read" => disk[p][r.lba] = SectorOf(p, 0)
        BY DEF RequestInv, Rightful
      <4> QED
        BY <4>1, <4>2, <4>3
    <3> QED
      BY <3>1, <3>2
  <2> QED
    BY <2>2, <2>3 DEF Driver, Issue, Done, GiveUp, Waited, Returns, Hardware, Adapter, Fetch, Fail
<1> QED
  BY <1>1, <1>2, <1>4, <1>6, <1>7 DEF LabelInv

LEMMA StepKeepsLabels ==
  ASSUME ListInv, RequestInv, LabelInv, [Next]_vars
  PROVE  RequestInv' /\ LabelInv'
<1>1. PortInv
  BY InvHasPorts
<1>2. CASE Ref \/ EndScan \/ (\E i \in Places : Select(i)) \/ UNCHANGED vars
  <2>1. UNCHANGED <<portVars, drives, drive_count, unmounted, looked_at>>
    BY <1>2 DEF Ref, EndScan, Select, vars, listVars, scanVars
  <2>2. caller' = caller \/ (~Awaiting /\ caller = "label" /\ caller' = "none")
    BY <1>2 DEF Ref, EndScan, Select, vars, Awaiting
  <2> QED
    BY <2>1, <2>2, QuietLabels, RestRequests
<1>3. CASE StartScan \/ EndMount \/ ScanUsb
  <2>1. UNCHANGED portVars
    BY <1>3 DEF StartScan, EndMount, ScanUsb
  <2> QED
    BY <1>3, <2>1, RestRequests, StartScanLabels, EndMountLabels, ScanUsbLabels
<1>4. CASE ListPort \/ LabelDrive \/ Opened \/ Returned
  <2>1. Looked
    BY <1>4 DEF ListPort, LabelDrive, Opened, Returned
  <2> QED
    BY <1>4, <2>1, RestRequests, ListPortLabels, LabelDriveLabels, ReturnLabels
<1>5. CASE MountPort
  <2>1. PICK p \in Ports : LinkUp(p) \/ LinkDown(p)
    BY <1>5, FirstIsLeast DEF MountPort, ListInv, ListTypeOK
  <2> QED
    BY <1>1, <1>5, <2>1, LinkRequests, MountPortLabels
<1>6. CASE ReadBoot \/ OpenIdentify \/ OpenRead \/ Save
  BY <1>6, BeginsLabels
<1>7. CASE (Driver \/ Hardware) /\ UNCHANGED <<listVars, userVars, caller, scanVars>>
  BY <1>1, <1>7, DriverRequests, AdapterRequests, MachineLabels DEF Hardware
<1> QED
  BY <1>2, <1>3, <1>4, <1>5, <1>6, <1>7 DEF Next, Scan, Buttons

(* The name of a listed drive is taken from its own boot sector or is      *)
(* empty, whatever reads were given up and whenever they are carried out,  *)
(* as long as the listed disks are trusted.                                *)
THEOREM NamesComeFromTheirDisks == Spec => []LabelsAreOwn
<1>1. Init => RequestInv /\ LabelInv
  <2> SUFFICES ASSUME Init
               PROVE  RequestInv /\ LabelInv
    OBVIOUS
  <2>1. RequestInv
    BY RightfulRequests, RequestFacts DEF Init, PortInit, RequestInv
  <2>2. InList = {} /\ ~Awaiting /\ caller = "none"
    BY DEF Init, PortInit, InList, Awaiting
  <2>3. \A p \in Ports : ~Names(p)
    BY RightfulRequests DEF Init, PortInit, Names
  <2> QED
    BY <2>1, <2>2, <2>3 DEF LabelInv, LabelsAreOwn, InList
<1>2. ListInv /\ RequestInv /\ LabelInv /\ [Next]_vars => RequestInv' /\ LabelInv'
  BY StepKeepsLabels
<1>3. LabelInv => LabelsAreOwn
  BY DEF LabelInv
<1> QED
  BY <1>1, <1>2, <1>3, ListInvariant, PTL DEF Spec

=============================================================================
