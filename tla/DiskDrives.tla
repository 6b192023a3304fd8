----------------------------- MODULE DiskDrives -----------------------------
(***************************************************************************)
(* The drive list of OS2 and who uses it: the scan that the disk manager   *)
(* starts (ahci_mount_drive, then ahci_read_mbr), REF, SCAN USB, the       *)
(* selection, OPEN, and the notepad's reading and SAVE, which go through   *)
(* disk_read_auto and disk_write_auto to the driver of AhciPort.           *)
(*                                                                         *)
(* A selection is an index.  REF empties the list and builds it again, so  *)
(* the index may lie beyond drive_count, where drives still holds what it  *)
(* held, or may mean another drive when other disks answer.                *)
(***************************************************************************)
EXTENDS AhciPort, Sequences

CONSTANTS
  MaxDrives,   (* places in drives; 8 in the code                          *)
  MaxClicks,   (* bound: buttons the user presses                          *)
  UsbFound     (* what find_and_init_usb may say: a set of BOOLEANs        *)

ASSUME MaxDrivesAssumption == MaxDrives \in Nat \ {0}
ASSUME MaxClicksAssumption == MaxClicks \in Nat
ASSUME UsbAssumption == UsbFound \subseteq BOOLEAN

Boot == 100    (* 0x00500000: sector 0, while the scan looks at it         *)
Out  == 101    (* 0x09000000: what SAVE writes                             *)
ASSUME BufferAssumption == Bufs = {Boot, Out}

SaveLba == 500 (* the sector SAVE writes, or that of the opened file       *)
ASSUME SectorAssumption == Lbas = {0, SaveLba}

Unselected == 99   (* -1 in the code                                       *)
Places  == 0 .. MaxDrives - 1
Drive(t, p) == [type |-> t, base_port |-> p, label |-> Zero]
Nothing == Drive(0, 0)
UsbStick == Drive(3, 0)    (* base_port is the I/O base of the controller  *)

VARIABLES
  drives, drive_count,
  drives_scanned, usb_scanned,
  selected_drive_idx,
  clicks,      (* how often a button was pressed                           *)
  caller,      (* who waits for the driver: none, mount, label, open ...   *)
  unmounted,   (* the ports ahci_mount_drive has yet to look at            *)
  looked_at,   (* the next drive ahci_read_mbr looks at                    *)
  chosen,      (* history: type and port of the entry the user clicked     *)
  seen,        (* history: the SATA ports listed when it was clicked       *)
  same         (* history: every scan since has found these ports          *)

listVars == <<drives, drive_count, drives_scanned, usb_scanned>>
userVars == <<selected_drive_idx, clicks, chosen, seen, same>>
scanVars == <<unmounted, looked_at>>
vars == <<portVars, listVars, userVars, caller, scanVars>>

Init ==
  /\ PortInit
  /\ drives = [i \in Places |-> Nothing] /\ drive_count = 0
  /\ drives_scanned = FALSE /\ usb_scanned = FALSE
  /\ selected_drive_idx = Unselected /\ clicks = 0
  /\ caller = "none" /\ unmounted = {} /\ looked_at = 0
  /\ chosen = Nothing /\ seen = {} /\ same = TRUE

SataListed == {drives[i].base_port : i \in {j \in 0 .. drive_count - 1 : drives[j].type = 2}}
Idle == caller = "none" /\ pc = "free"
Press == Idle /\ clicks < MaxClicks /\ clicks' = clicks + 1
user == <<selected_drive_idx, chosen, seen, same>>
First(S) == CHOOSE p \in S : \A q \in S : p <= q

(***************************************************************************)
(* The scan.                                                               *)
(***************************************************************************)
(* ahci_mount_drive keeps the drives that are not SATA and moves them to   *)
(* the front; OS2 has emptied the list before.                             *)
Kept(n) == {i \in 0 .. n - 1 : drives[i].type # 2}
Retained(n) ==
  [i \in Places |->
     IF i < Cardinality(Kept(n))
     THEN drives[CHOOSE k \in Kept(n) : Cardinality({j \in Kept(n) : j < k}) = i]
     ELSE drives[i]]

\* Mutant of CountBeforeScan: OS2 does not empty the list.
CountAsItWas    == drive_count
CountBeforeScan == 0
\* Mutant of NewCount: nor does ahci_mount_drive.
CountKept == drive_count
NewCount  == Cardinality(Kept(CountBeforeScan))

StartScan ==
  /\ Idle /\ ~drives_scanned
  /\ drives_scanned' = TRUE
  /\ drives' = Retained(CountBeforeScan)
  /\ drive_count' = NewCount
  /\ caller' = "mount" /\ unmounted' = Ports
  /\ UNCHANGED <<portVars, usb_scanned, userVars, looked_at>>

MountPort ==
  /\ caller = "mount" /\ pc = "free" /\ answer = "none" /\ unmounted # {}
  /\ LinkUp(First(unmounted)) \/ LinkDown(First(unmounted))
  /\ unmounted' = unmounted \ {First(unmounted)}
  /\ UNCHANGED <<listVars, userVars, caller, looked_at>>

HasRoom == drive_count < MaxDrives

(* A drive that failed is listed too, with an error for a name.            *)
Listed(d) ==
  IF HasRoom
  THEN /\ drives' = [drives EXCEPT ![drive_count] = d]
       /\ drive_count' = drive_count + 1
  ELSE UNCHANGED <<drives, drive_count>>

Looked ==
  /\ answer' = "none" /\ cur' = NoRequest /\ carried' = FALSE
  /\ UNCHANGED <<hba, slot, disk, mem, pc, port, trusted>>

ListPort ==
  /\ caller = "mount" /\ pc = "free" /\ answer # "none"
  /\ Listed(Drive(2, port))
  /\ Looked
  /\ UNCHANGED <<drives_scanned, usb_scanned, userVars, caller, scanVars>>

EndMount ==
  /\ caller = "mount" /\ pc = "free" /\ answer = "none" /\ unmounted = {}
  /\ caller' = "label" /\ looked_at' = 0
  /\ same' = (same /\ SataListed = seen)
  /\ UNCHANGED <<portVars, listVars, selected_drive_idx, clicks, chosen, seen, unmounted>>

(* ahci_read_mbr clears its buffer, ignores what the read returned, and    *)
(* names the drive after what it finds in the buffer.                      *)
\* Mutant of BootSector: the buffer is not cleared.
Uncleared(b)  == mem
BootSector(b) == [mem EXCEPT ![b] = Zero]

ReadBoot ==
  /\ caller = "label" /\ pc = "free" /\ answer = "none" /\ looked_at < drive_count
  /\ Begin(drives[looked_at].base_port, Read(0, Boot), FALSE)
  /\ mem' = BootSector(Boot)
  /\ UNCHANGED <<listVars, userVars, caller, scanVars>>

LabelDrive ==
  /\ caller = "label" /\ pc = "free" /\ answer # "none"
  /\ drives' = [drives EXCEPT ![looked_at].label = mem[Boot]]
  /\ looked_at' = looked_at + 1
  /\ Looked
  /\ UNCHANGED <<drive_count, drives_scanned, usb_scanned, userVars, caller, unmounted>>

EndScan ==
  /\ caller = "label" /\ pc = "free" /\ answer = "none" /\ looked_at >= drive_count
  /\ caller' = "none"
  /\ UNCHANGED <<portVars, listVars, userVars, scanVars>>

Scan == StartScan \/ MountPort \/ ListPort \/ EndMount \/ ReadBoot \/ LabelDrive \/ EndScan

(***************************************************************************)
(* The buttons of the drive list.                                          *)
(***************************************************************************)
Ref ==
  /\ Press
  /\ drives_scanned' = FALSE /\ usb_scanned' = FALSE
  /\ UNCHANGED <<portVars, drives, drive_count, user, caller, scanVars>>

ScanUsb ==
  /\ Press /\ drives_scanned /\ ~usb_scanned
  /\ usb_scanned' = TRUE
  /\ \E found \in UsbFound :
       IF found THEN Listed(UsbStick) ELSE UNCHANGED <<drives, drive_count>>
  /\ UNCHANGED <<portVars, drives_scanned, user, caller, scanVars>>

Select(i) ==
  /\ Press /\ drives_scanned /\ i < drive_count
  /\ selected_drive_idx' = i
  /\ chosen' = [drives[i] EXCEPT !.label = Zero] /\ seen' = SataListed /\ same' = TRUE
  /\ UNCHANGED <<portVars, listVars, caller, scanVars>>

Selected == drives[selected_drive_idx]
OnSata == selected_drive_idx # Unselected /\ Selected.type = 2

(* OPEN asks the selected SATA port who it is, then reads sector 0.  The   *)
(* answers are not looked at.                                              *)
OpenIdentify ==
  /\ Press /\ drives_scanned /\ OnSata
  /\ Begin(Selected.base_port, Identify, TRUE)
  /\ mem' = mem
  /\ caller' = "open"
  /\ UNCHANGED <<listVars, user, scanVars>>

OpenRead ==
  /\ caller = "open" /\ pc = "free" /\ answer # "none"
  /\ Begin(Selected.base_port, Read(0, Scratch), FALSE)
  /\ mem' = mem
  /\ caller' = "opened"
  /\ UNCHANGED <<listVars, userVars, scanVars>>

Opened ==
  /\ caller = "opened" /\ pc = "free" /\ answer # "none"
  /\ Looked /\ caller' = "none"
  /\ UNCHANGED <<listVars, userVars, scanVars>>

(* SAVE of the notepad; disk_write_auto refuses a stick.                   *)
Save ==
  /\ Press /\ OnSata
  /\ Begin(Selected.base_port, Write(SaveLba, Out), FALSE)
  /\ mem' = [mem EXCEPT ![Out] = Typed]
  /\ caller' = "user"
  /\ UNCHANGED <<listVars, user, scanVars>>

Returned ==
  /\ caller = "user" /\ pc = "free" /\ answer # "none"
  /\ Looked /\ caller' = "none"
  /\ UNCHANGED <<listVars, userVars, scanVars>>

Buttons ==
  \/ Ref \/ ScanUsb \/ (\E i \in Places : Select(i))
  \/ OpenIdentify \/ OpenRead \/ Opened \/ Save \/ Returned

Hardware == \E p \in Ports : Adapter(p)

Next ==
  \/ Scan
  \/ Buttons
  \/ (Driver \/ Hardware) /\ UNCHANGED <<listVars, userVars, caller, scanVars>>

Spec == Init /\ [][Next]_vars

(* The processor goes on: it polls, gives up, and returns to its caller.   *)
(* Nothing is assumed of the adapter.                                      *)
Continue == Scan \/ OpenRead \/ Opened \/ Returned
            \/ (Driver /\ UNCHANGED <<listVars, userVars, caller, scanVars>>)
FairSpec == Spec /\ WF_vars(Continue)

(***************************************************************************)
(* What is true of it.                                                     *)
(***************************************************************************)
TypeOK ==
  /\ PortTypeOK
  /\ drives \in [Places -> [type : {0, 2, 3}, base_port : Ports \cup {0}, label : Contents]]
  /\ drive_count \in 0 .. MaxDrives
  /\ drives_scanned \in BOOLEAN /\ usb_scanned \in BOOLEAN
  /\ clicks \in 0 .. MaxClicks
  /\ selected_drive_idx \in Places \cup {Unselected}
  /\ same \in BOOLEAN
  /\ caller \in {"none", "mount", "label", "open", "opened", "user"}
  /\ unmounted \subseteq Ports /\ looked_at \in 0 .. MaxDrives

(* The name of a listed drive comes from its own boot sector, or it has    *)
(* none, whatever reads failed during the scan, as long as none of the     *)
(* listed drives still owes a transfer into the one buffer they share.     *)
LabelsAreOwn ==
  SataListed \subseteq trusted =>
    \A i \in 0 .. drive_count - 1 :
      drives[i].type = 2 => drives[i].label \in {Zero, SectorOf(drives[i].base_port, 0)}

(* The index the user selected means the drive the user selected, after    *)
(* any number of REFs and USB scans, as long as every scan found the disks *)
(* that were there then; also when it lies beyond drive_count, where REF   *)
(* leaves a stick.  (A disk that answers once more or once less is enough  *)
(* for SAVE to write to another one.)                                      *)
IndexMeansDrive ==
  (selected_drive_idx # Unselected /\ caller # "mount" /\ same) =>
    /\ Selected.type = chosen.type
    /\ Selected.base_port = chosen.base_port

(* The list keeps to its array and names no disk twice, however often and  *)
(* in whatever order REF and SCAN USB rebuild it.                          *)
ListIsSound ==
  /\ TypeOK
  /\ \A i, j \in 0 .. drive_count - 1 :
       (drives[i].type = 2 /\ drives[j] = drives[i]) => i = j

(* No adapter can stop the scan: ahci_mount_drive and ahci_read_mbr come   *)
(* to their ends although any command may be lost.                         *)
ScanEnds == caller \in {"mount", "label"} ~> caller = "none"

(* OPEN returns when the selected disk finishes or refuses what it is      *)
(* asked, if no earlier command was given up: ahci_identify has no         *)
(* timeout, and would wait for ever for the command that was.              *)
OpenReturns ==
  (\A p \in Ports : WF_vars(Adapter(p) /\ UNCHANGED <<listVars, userVars, caller, scanVars>>))
    => ((pc = "waiting" /\ port \in trusted) ~> pc = "free")

(* Neither a scan nor, under that condition, OPEN freezes the desktop.     *)
DesktopGoesOn == ScanEnds /\ OpenReturns

(* The driver implements BlockDevice: a call that returns success has      *)
(* been carried out.  The exceptions are a port on which an earlier        *)
(* command ran into the timeout (its completion is taken for the new       *)
(* one's) and a port whose link was down at the last scan (CI reads 0 at   *)
(* once), both until the next REF.  What the adapter may still do is     *)
(* what it has fetched, what lies in the slot while CI is set, and the     *)
(* request that is being worked on.                                        *)
Busy == pc # "free"
Owed == [p \in Ports |->
  (IF fetched[p] # NoRequest THEN {fetched[p]} ELSE {})
    \cup (IF slot[p] # NoRequest /\ p \notin halted THEN {slot[p]} ELSE {})
    \cup (IF p = port /\ Busy /\ (carried => pc \in {"building", "preparing"}) THEN {cur} ELSE {})]
NoPort == 1000
Promise == INSTANCE BlockDevice
  WITH owed <- Owed, 
       current <- IF Busy THEN port ELSE NoPort, carried <- Busy /\ carried
ImplementsBlockDevice == Promise!Spec
=============================================================================
