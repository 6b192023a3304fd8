----------------------------- MODULE UsbStorage -----------------------------
(***************************************************************************)
(* USB sticks behind a UHCI controller: cosmos_usb.cpp and its callers.    *)
(* OS1 enumerates the sticks of both ports at boot; OS2 lists the          *)
(* controller itself as a drive.  A read is three transfers of one         *)
(* descriptor each: the command, the data, the status (Bulk-Only).         *)
(*                                                                         *)
(* Stick and host each keep a toggle per direction, so that a packet that  *)
(* is sent again is not taken twice.  The driver has one pair of toggles   *)
(* for all sticks and turns one after every transfer, done or not.         *)
(***************************************************************************)
EXTENDS Naturals, Sequences, FiniteSets

CONSTANTS
  Ports,       (* the ports of the controller (0 and 1)                    *)
  Lbas,        (* the sectors that are read                                *)
  Whole,       (* TRUE: a packet holds a sector, as in an emulator;        *)
               (* FALSE: it holds a part, as on a full-speed bus           *)
  MaxFaults    (* bound: packets lost and commands refused                 *)

ASSUME PortsAssumption == Ports \subseteq {0, 1}
ASSUME LbasAssumption == "capacity" \notin Lbas
ASSUME WholeAssumption == Whole \subseteq BOOLEAN
ASSUME FaultsAssumption == MaxFaults \in Nat

Parts == 3     (* for the eight parts of a sector: none of the calls can  *)
               (* get past the third                                       *)
IoBase == 100  (* usb_io_base, which OS2 uses as a device address          *)
Capacity == "capacity"

VARIABLES
  os, whole,   (* the system that runs; the packets                        *)
  found,       (* usb_io_base is set                                       *)
  plugged,     (* the ports with a stick                                   *)
  stick,       (* stick[p]: address, toggles and the packets it will send  *)
  toggleOut, toggleIn,   (* the driver's                                   *)
  drives,      (* the drives of type 3: address and whether sized          *)
  pc,          (* free, mounting, command, data, status                    *)
  next,        (* the port that is mounted next                            *)
  call,        (* the address and the sector of this call                  *)
  buffer,      (* what the data transfer wrote last                        *)
  answer,      (* of the last call                                         *)
  faults       (* packets lost and commands refused                        *)

device == <<os, whole, plugged>>
host == <<toggleOut, toggleIn>>
vars == <<device, host, found, stick, drives, pc, next, call, buffer, answer, faults>>

(***************************************************************************)
(* The stick.  A command makes it send the data, then the status; a        *)
(* command it cannot carry out, the bad status alone.  While it has        *)
(* packets to send it takes no command.                                    *)
(***************************************************************************)
Data(p, l, part) == <<"data", p, l, part>>
Good == <<"good status">>
Bad  == <<"bad status">>
Nothing == <<"nothing">>
\* In bytes; of a sector, what one packet holds at least.
Size(packet) == IF packet \in {Good, Bad} THEN 13
                ELSE IF packet[3] = Capacity THEN 8 ELSE 64

Reply(p, l) == IF whole \/ l = Capacity THEN <<Data(p, l, 1), Good>>
               ELSE [n \in 1 .. Parts |-> Data(p, l, n)] \o <<Good>>

Fresh(a) == [address |-> a, out |-> 0, in |-> 0, send |-> <<>>]
Flip(t) == 1 - t

Took(p, reply) ==
  [stick[p] EXCEPT !.out = Flip(@), !.send = reply]

\* A packet the host did not expect is a repetition to it: it is
\* acknowledged and dropped.
Expected(s) == IF s.send # <<>> /\ s.in # toggleIn
               THEN [s EXCEPT !.in = Flip(@), !.send = Tail(@)] ELSE s
Acknowledged(s) == [s EXCEPT !.in = Flip(@), !.send = Tail(@)]

At(a) == {p \in plugged : stick[p].address = a}

Init ==
  /\ os \in {"OS1", "OS2"} /\ whole \in Whole
  /\ plugged \in SUBSET Ports
  /\ stick = [p \in Ports |-> Fresh(IF os = "OS2" THEN p + 1 ELSE 0)]
  /\ found = FALSE /\ toggleOut = 0 /\ toggleIn = 0
  /\ drives = <<>>
  /\ pc = IF os = "OS1" THEN "mounting" ELSE "free"
  /\ next = 0 /\ call = <<0, Capacity>> /\ buffer = Nothing /\ answer = "none" /\ faults = 0

(***************************************************************************)
(* One transfer: uhci_execute_td, through usb_bulk_out and usb_bulk_in.    *)
(* ok is what it returns.                                                  *)
(***************************************************************************)
Fault == faults < MaxFaults /\ faults' = faults + 1

\* The command does not arrive, or its acknowledgement does not.
CommandLost(p, l) ==
  /\ Fault
  /\ \/ UNCHANGED stick
     \/ /\ stick[p].send = <<>> /\ stick[p].out = toggleOut
        /\ stick' = [stick EXCEPT ![p] = Took(p, Reply(p, l))]

\* A command with the toggle of the last one is acknowledged and dropped.
CommandArrives(p, l) ==
  /\ stick[p].send = <<>>
  /\ \/ /\ stick[p].out = toggleOut /\ UNCHANGED faults
        /\ stick' = [stick EXCEPT ![p] = Took(p, Reply(p, l))]
     \/ /\ stick[p].out = toggleOut /\ Fault
        /\ stick' = [stick EXCEPT ![p] = Took(p, <<Bad>>)]
     \/ stick[p].out # toggleOut /\ UNCHANGED <<stick, faults>>

\* Mutant of NextToggle: the toggle is kept.
Kept(t) == t

NextToggle(t) == Flip(t)

BulkOut(a, l, ok) ==
  /\ toggleOut' = NextToggle(toggleOut) /\ UNCHANGED toggleIn
  /\ IF ok THEN found /\ \E p \in At(a) : CommandArrives(p, l)
     ELSE \/ (~found \/ At(a) = {}) /\ UNCHANGED <<stick, faults>>
          \/ \E p \in At(a) : CommandLost(p, l)
          \/ (\E p \in At(a) : stick[p].send # <<>>) /\ UNCHANGED <<stick, faults>>

\* What fits into the room is taken, and the stick hears so unless the
\* acknowledgement is lost.
Fits(packet, room) == Size(packet) <= room

Awaited(p) == Expected(stick[p])

Answers(p, room) == /\ Awaited(p).send # <<>>
                    /\ Fits(Head(Awaited(p).send), room)

Taken(a, room, packet) ==
  \E p \in At(a) :
    /\ Answers(p, room) /\ packet = Head(Awaited(p).send)
    /\ \/ stick' = [stick EXCEPT ![p] = Acknowledged(Awaited(p))] /\ UNCHANGED faults
       \/ stick' = [stick EXCEPT ![p] = Awaited(p)] /\ Fault

\* No stick of that address has anything to send, or what it sends does not
\* fit, or it does not arrive.
Missed(a, room) ==
  \/ /\ \A p \in At(a) : ~Answers(p, room)
     /\ stick' = [p \in Ports |-> IF p \in At(a) THEN Awaited(p) ELSE stick[p]]
     /\ UNCHANGED faults
  \/ \E p \in At(a) : stick' \in {stick, [stick EXCEPT ![p] = Awaited(p)]} /\ Fault

BulkIn(a, room, ok, packet) ==
  /\ toggleIn' = NextToggle(toggleIn) /\ UNCHANGED toggleOut
  /\ IF ok THEN Taken(a, room, packet) ELSE packet = Nothing /\ Missed(a, room)

Packets == {Nothing, Good, Bad} \cup
  {Data(p, l, n) : p \in Ports, l \in Lbas \cup {Capacity}, n \in 1 .. Parts}

(***************************************************************************)
(* usb_bot_read_sectors and usb_bot_get_capacity.  The first transfer that *)
(* fails ends the call; nothing is done about what the stick still has to  *)
(* send.  Only a read looks at the status.                                 *)
(***************************************************************************)
Mounting == call[2] = Capacity

EndCall(result) ==
  /\ answer' = result
  /\ pc' = IF Mounting THEN "mounting" ELSE "free"
  /\ IF Mounting THEN drives' = [drives EXCEPT ![Len(drives)].sized = (result = "ok")]
     ELSE UNCHANGED drives

\* Mutant of Continue: the transfer's result is not looked at.
GoesOn(ok, stage) == pc' = stage /\ UNCHANGED <<drives, answer>>

Continue(ok, stage) ==
  IF ok THEN pc' = stage /\ UNCHANGED <<drives, answer>> ELSE EndCall("failed")

StatusAccepted(packet) == Mounting \/ packet = Good

SendCommand ==
  /\ pc = "command"
  /\ \E ok \in BOOLEAN :
       /\ BulkOut(call[1], call[2], ok)
       /\ Continue(ok, "data")
  /\ UNCHANGED <<device, found, next, call, buffer>>

ReceiveData ==
  /\ pc = "data"
  /\ \E ok \in BOOLEAN, packet \in Packets :
       /\ BulkIn(call[1], IF Mounting THEN 8 ELSE 512, ok, packet)
       /\ buffer' = IF ok THEN packet ELSE buffer
       /\ Continue(ok, "status")
  /\ UNCHANGED <<device, found, next, call>>

ReceiveStatus ==
  /\ pc = "status"
  /\ \E ok \in BOOLEAN, packet \in Packets :
       /\ BulkIn(call[1], 13, ok, packet)
       /\ EndCall(IF ok /\ StatusAccepted(packet) THEN "ok" ELSE "failed")
  /\ UNCHANGED <<device, found, next, call, buffer>>

(* OS1 has a second read of its own, which its test at boot and the sweep  *)
(* over addresses and endpoints use: its transfers ask for uhci_base_port, *)
(* which nothing ever sets, and it gives up at the first.                  *)
UhciBasePort == 0
BulkTransfer == UhciBasePort # 0
OwnRead == IF BulkTransfer THEN "ok" ELSE "no stick answers"

(***************************************************************************)
(* OS1 at boot: usb_mount_drive enumerates the stick of each port.  A port *)
(* reset and SET_CONFIGURATION put the stick's toggles back, not the       *)
(* driver's.                                                               *)
(***************************************************************************)
PciFindUhci == os = "OS1" /\ pc = "mounting" /\ ~found /\ found' = TRUE
  /\ UNCHANGED <<device, host, stick, drives, pc, next, call, buffer, answer, faults>>

Enumerated(p) == Fresh(p + 1)

\* One stage of SET_ADDRESS or SET_CONFIGURATION is lost, which the stick
\* may have carried out.
ControlFails(p) ==
  Fault /\ stick' \in {stick, [stick EXCEPT ![p] = Enumerated(p)]}

MountPort ==
  /\ pc = "mounting" /\ found /\ next \in Ports
  /\ next' = next + 1 /\ answer' = "none"
  /\ \/ /\ next \in plugged
        /\ stick' = [stick EXCEPT ![next] = Enumerated(next)]
        /\ drives' = Append(drives, [address |-> next + 1, sized |-> FALSE])
        /\ call' = <<next + 1, Capacity>> /\ pc' = "command"
        /\ UNCHANGED faults
     \/ next \in plugged /\ ControlFails(next) /\ UNCHANGED <<drives, call, pc>>
     \/ next \notin plugged /\ UNCHANGED <<stick, drives, call, pc, faults>>
  /\ UNCHANGED <<device, host, found, buffer>>

\* The test of the first stick follows.
MountEnds ==
  /\ pc = "mounting" /\ found /\ next \notin Ports
  /\ pc' = "free" /\ answer' = OwnRead
  /\ UNCHANGED <<device, host, found, stick, drives, next, call, buffer, faults>>

(* OS2: SCAN USB looks for a controller and lists it, once per click.      *)
ScanUsb ==
  /\ os = "OS2" /\ pc = "free" /\ drives = <<>>
  /\ found' = TRUE
  /\ drives' = <<[address |-> IoBase, sized |-> FALSE]>>
  /\ UNCHANGED <<device, host, stick, pc, next, call, buffer, answer, faults>>

(* fs_read_sectors of OS1, disk_read_auto of OS2.                          *)
Read(d, l) ==
  /\ pc = "free"
  /\ call' = <<drives[d].address, l>> /\ pc' = "command" /\ answer' = "none"
  /\ UNCHANGED <<device, host, found, stick, drives, next, buffer, faults>>

Sweep ==
  /\ os = "OS1" /\ pc = "free"
  /\ answer' = OwnRead
  /\ UNCHANGED <<device, host, found, stick, drives, pc, next, call, buffer, faults>>

Next ==
  \/ SendCommand \/ ReceiveData \/ ReceiveStatus
  \/ PciFindUhci \/ MountPort \/ MountEnds
  \/ ScanUsb \/ Sweep
  \/ \E d \in DOMAIN drives, l \in Lbas : Read(d, l)

Spec == Init /\ [][Next]_vars

(***************************************************************************)
(* Properties                                                              *)
(***************************************************************************)
(* The values the driver and the sticks hold.                              *)
TypeOK ==
  /\ pc \in {"free", "mounting", "command", "data", "status"}
  /\ toggleOut \in {0, 1} /\ toggleIn \in {0, 1}
  /\ \A p \in Ports : /\ stick[p].out \in {0, 1} /\ stick[p].in \in {0, 1}
                       /\ stick[p].address \in 0 .. 2
                       /\ stick[p].send \in Seq(Packets \ {Nothing}) /\ Len(stick[p].send) <= Parts + 1
  /\ \A d \in DOMAIN drives : drives[d].address \in {1, 2, IoBase}
  /\ buffer \in Packets /\ faults \in 0 .. MaxFaults

(* usb_bot_read_sectors returns true only with the sector that was asked   *)
(* for, of that stick, complete, in the buffer: whatever was lost, refused or left   *)
(* over by the calls before it, and with two sticks that share one pair of *)
(* toggles, it is never an older sector, a status or a part of a sector.   *)
ReadIsTrue ==
  answer = "ok" =>
    \E p \in At(call[1]) : buffer = Data(p, call[2], 1) /\ (whole \/ Mounting)

(* Toggles, packets and addresses are in range, and a read is true.        *)
TransfersAreSound == TypeOK /\ ReadIsTrue

(* A stick that is alone and that nothing happens to is sized by           *)
(* usb_mount_drive and answers every read: three transfers per call keep   *)
(* the toggles of driver and stick together.                               *)
LoneStickAnswers ==
  os = "OS1" /\ whole /\ faults = 0 /\ Cardinality(plugged) = 1 =>
    /\ answer # "failed"
    /\ pc = "free" => \A d \in DOMAIN drives : drives[d].sized
=============================================================================
