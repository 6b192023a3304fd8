------------------------------ MODULE Network ------------------------------
(***************************************************************************)
(* The network driver of net.cpp.  A machine has an Intel adapter (OS1 and *)
(* OS2) or an RTL8139 (OS1).  The main loop polls for frames and sends one *)
(* when the user asks; the adapter works, and the cable comes and goes, in *)
(* between.  Only an Intel adapter has rings (E1000); the RTL8139 writes   *)
(* the frames one after the other into one buffer, and the driver finds    *)
(* the next by adding lengths.  The driver is started by every PCI scan:   *)
(* at boot, and in OS1 by INSTALL and by SCAN while its lists are empty.   *)
(***************************************************************************)
EXTENDS E1000

CONSTANTS
  Nics,        (* the adapters a machine may have: "intel", "rtl"          *)
  Arriving,    (* Arriving[n]: the kinds that arrive at adapter n          *)
  RtlSize,     (* bytes of the RTL8139's buffer (8192)                     *)
  RtlLengths   (* the lengths, with checksum, a frame may have             *)

ASSUME SentAssumption == Sent = {"arp", "ip"}
ASSUME ArrivingAssumption ==
  "reply" \in Received /\ \A n \in Nics : Arriving[n] \subseteq Received
ASSUME RtlAssumption ==
  /\ RtlSize \in Nat \ {0} /\ RtlSize % 4 = 0
  /\ RtlLengths \subseteq 1 .. RtlSize \div 2

VARIABLES
  nic,         (* the adapter of this machine                              *)
  started,     (* intel_mem_base or rtl_io_base is set                     *)
  rx, tx,      (* the two rings of E1000                                   *)
  pc,          (* idle, polling, or waiting for the frame just sent        *)
  polled,      (* how many slots this poll has handled                     *)
  rtl,         (* the RTL8139: idx of the driver; read, write, at of the chip *)
  online,      (* cmd_status begins with ONLINE: what PING looks at        *)
  ip,          (* where ip_address came from                               *)
  epoch,       (* history: changes with every start of an Intel adapter    *)
  inStep       (* history: driver and adapter began the ring at one place  *)

vars == <<nic, started, rx, tx, pc, polled, rtl, online, ip, epoch, inStep>>

Offsets == {o \in 0 .. RtlSize : o % 4 = 0}

\* What the driver finds at an offset: a frame's header, bytes of a frame,
\* or memory no frame was ever written to.
Header(l, f) == [len |-> l, kind |-> f]
Remnant == Header(1, NoFrame)
Blank   == Header(0, NoFrame)

Init ==
  /\ nic \in Nics /\ started = FALSE
  /\ rx = StartedRx(0) /\ tx = StartedTx
  /\ rtl = [idx |-> 0, read |-> 0, write |-> 0, at |-> [o \in Offsets |-> Blank]]
  /\ pc = "idle" /\ polled = 0
  /\ online = FALSE /\ ip = "none" /\ epoch = FALSE /\ inStep = TRUE

(***************************************************************************)
(* intel_e1000_init and rtl8139_init: the adapter forgets its place, the   *)
(* driver keeps rx_cur_intel and rx_idx_rtl.                               *)
(***************************************************************************)
StartIntel ==
  /\ nic = "intel"
  /\ rx' = StartedRx(rx.cur) /\ tx' = StartedTx
  /\ inStep' = (rx.cur = 0)
  /\ epoch' = ~epoch
  /\ UNCHANGED <<rtl, ip>>

StartRtl ==
  /\ nic = "rtl"
  /\ rtl' = [rtl EXCEPT !.read = 0, !.write = 0] /\ inStep' = (rtl.idx = 0)
  /\ ip' = "none"
  /\ UNCHANGED <<rx, tx, epoch>>

Start ==
  /\ pc = "idle"
  /\ StartIntel \/ StartRtl
  /\ started' = TRUE /\ online' = FALSE
  /\ UNCHANGED <<nic, pc, polled>>

(***************************************************************************)
(* The adapter: frames arrive and leave.  While the cable is out they do   *)
(* not; it may come and go at any time, so that it is no state of its own: *)
(* the link is what the driver happens to read.                            *)
(***************************************************************************)
IntelReceives(f) ==
  /\ started /\ nic = "intel" /\ ~Idle(rx)
  /\ rx' = Arrived(rx, f)
  /\ UNCHANGED <<nic, started, tx, pc, polled, rtl, online, ip, epoch, inStep>>

IntelTransmits ==
  /\ started /\ nic = "intel" /\ ~Idle(tx)
  /\ tx' = Transmitted(tx)
  /\ UNCHANGED <<nic, started, rx, pc, polled, rtl, online, ip, epoch, inStep>>

\* A frame takes a header of four bytes and padding.
Room(l) == ((l + 4 + 3) \div 4) * 4
Used == (rtl.write + RtlSize - rtl.read) % RtlSize

\* A frame that reaches the end of the buffer goes on behind it (WRAP).
RtlReceives(f, l) ==
  /\ started /\ nic = "rtl" /\ Used + Room(l) < RtlSize
  /\ LET w == rtl.write IN
     rtl' = [rtl EXCEPT
       !.at = [o \in Offsets |-> IF o = w THEN Header(l, f)
                                 ELSE IF o \in w .. w + Room(l) - 1 THEN Remnant ELSE rtl.at[o]],
       !.write = (w + Room(l)) % RtlSize]
  /\ inStep' = (inStep /\ rtl.write + Room(l) < RtlSize)
  /\ UNCHANGED <<nic, started, rx, tx, pc, polled, online, ip, epoch>>

(***************************************************************************)
(* net_raw.  An Intel adapter is waited for, 1,500,000 polls long; the     *)
(* one buffer of the RTL8139 is not.  up is the link it reads.             *)
(***************************************************************************)
NetRaw(f, up) ==
  IF started /\ nic = "intel" /\ up
  THEN tx' = HandedOver(tx, f) /\ pc' = "sending"
  ELSE UNCHANGED <<tx, pc>>

\* The headers, their checksums and the payload make one kind of frame.
NetIp(up)      == NetRaw("ip", up)
SendUdpRaw(up) == NetIp(up)

\* An Intel adapter whose link is up takes a frame without a word.
Silent(seen, up) == started => nic = "intel" /\ seen /\ up

(* send_arp_ping reads the link (seen) and complains, but sends; so does   *)
(* apply_static_ip, which first says ONLINE.                               *)
SendArpPing(said) ==
  \E seen, up \in BOOLEAN : NetRaw("arp", up) /\ online' = (said /\ Silent(seen, up))

Connect ==
  /\ pc = "idle" /\ SendArpPing(online)
  /\ UNCHANGED <<nic, started, rx, polled, rtl, ip, epoch, inStep>>

ApplyStaticIp ==
  /\ pc = "idle" /\ ip' = "static" /\ SendArpPing(TRUE)
  /\ UNCHANGED <<nic, started, rx, polled, rtl, epoch, inStep>>

(* send_dhcp_discover does nothing without an address of the adapter or    *)
(* with its link down; who offers a lease gets no REQUEST.                 *)
SendDhcpDiscover ==
  /\ pc = "idle"
  /\ \E seen, up \in BOOLEAN :
       /\ SendUdpRaw(seen /\ up)
       /\ online' = (online /\ started /\ Silent(seen, up))
  /\ UNCHANGED <<nic, started, rx, polled, rtl, ip, epoch, inStep>>

SendTcpSyn ==
  /\ pc = "idle"
  /\ \E up \in BOOLEAN : NetIp(up)
  /\ online' = FALSE
  /\ UNCHANGED <<nic, started, rx, polled, rtl, ip, epoch, inStep>>

SentSlot == Ahead(tx.cur, RingSize - 1)

SendReturns ==
  /\ pc = "sending" /\ tx.slot[SentSlot] = NoFrame
  /\ pc' = "idle"
  /\ UNCHANGED <<nic, started, rx, tx, polled, rtl, online, ip, epoch, inStep>>

WaitsForever ==
  /\ pc = "sending" /\ tx.slot[SentSlot] # NoFrame
  /\ UNCHANGED vars

SendTimesOut ==
  /\ pc = "sending" /\ tx.slot[SentSlot] # NoFrame
  /\ pc' = "idle" /\ online' = FALSE
  /\ UNCHANGED <<nic, started, rx, tx, polled, rtl, ip, epoch, inStep>>

(***************************************************************************)
(* check_incoming.  Any frame replaces the status line; the answer to an   *)
(* ARP request makes it ONLINE, and the address shown is the answerer's.   *)
(***************************************************************************)
Poll ==
  /\ pc = "idle" /\ started /\ nic = "intel"
  /\ pc' = "polling"
  /\ UNCHANGED <<nic, started, rx, tx, polled, rtl, online, ip, epoch, inStep>>

OnlineAfter(f) == f = "reply"
AddressAfter(f) == CASE f = "reply" -> "peer" [] f = "lease" -> "lease" [] OTHER -> ip

HandleFrame ==
  LET f == rx.slot[rx.cur] IN
  /\ pc = "polling" /\ polled < RingSize /\ Waiting(rx)
  /\ rx' = Handled(rx) /\ polled' = polled + 1
  /\ online' = OnlineAfter(f) /\ ip' = AddressAfter(f)
  /\ UNCHANGED <<nic, started, tx, pc, rtl, epoch, inStep>>

LastHandled == Ahead(rx.cur, RingSize - 1)

PollEnds ==
  /\ pc = "polling" /\ (polled = RingSize \/ ~Waiting(rx))
  /\ rx' = IF polled > 0 THEN GivenBack(rx, LastHandled) ELSE rx
  /\ pc' = "idle" /\ polled' = 0
  /\ UNCHANGED <<nic, started, tx, rtl, online, ip, epoch, inStep>>

(* The RTL8139: one frame a poll.  A request is answered in its place in   *)
(* the buffer.  What is no header may look like any.                       *)
Found ==
  LET h == rtl.at[rtl.idx] IN
  IF h # Remnant THEN {h}
  ELSE {Blank} \cup {Header(l, f) : l \in RtlLengths \cup {RtlSize}, f \in Arriving[nic]}

Unpadded(idx, l) == ((idx + l + 4) \div 4) * 4
Past(idx, l) == ((idx + l + 4 + 3) \div 4) * 4
NextIdx(idx, l) == IF Past(idx, l) > RtlSize THEN 0 ELSE Past(idx, l)

RtlHandle(h) ==
  LET next == NextIdx(rtl.idx, h.len) IN
  /\ rtl' = [rtl EXCEPT
       !.idx = next, !.read = next % RtlSize,
       !.at[rtl.idx] = IF h.kind = "request" THEN Header(h.len, "reply") ELSE @]
  /\ online' = (online /\ h.kind \notin {"request", "lease"})
  /\ ip' = IF h.kind = "lease" THEN "lease" ELSE ip

RtlPoll ==
  /\ pc = "idle" /\ started /\ nic = "rtl" /\ rtl.read # rtl.write
  /\ \E h \in Found :
       IF h = Blank THEN rtl' = [rtl EXCEPT !.read = rtl.idx % RtlSize] /\ UNCHANGED <<online, ip>>
       ELSE RtlHandle(h)
  /\ UNCHANGED <<nic, started, rx, tx, pc, polled, epoch, inStep>>

Next ==
  \/ Start
  \/ \E f \in Arriving[nic] : IntelReceives(f) \/ \E l \in RtlLengths : RtlReceives(f, l)
  \/ IntelTransmits
  \/ Connect \/ ApplyStaticIp \/ SendDhcpDiscover \/ SendTcpSyn
  \/ SendReturns \/ SendTimesOut
  \/ Poll \/ HandleFrame \/ PollEnds \/ RtlPoll

Spec == Init /\ [][Next]_vars

(* net_raw and e1000_check_rx go on by themselves; the main loop polls     *)
(* every tenth frame, whatever the user asks in between.                   *)
FairSpec ==
  /\ Spec
  /\ WF_vars(SendReturns \/ SendTimesOut \/ HandleFrame \/ PollEnds)
  /\ SF_vars(Poll)

RtlStates ==
  [idx : Offsets, read : Offsets, write : Offsets,
   at : [Offsets -> [len : 0 .. RtlSize, kind : Received \cup {NoFrame}]]]

TypeOK ==
  /\ nic \in Nics /\ {started, online, epoch, inStep} \subseteq BOOLEAN
  /\ rx \in Ring(Received) /\ tx \in Ring(Sent)
  /\ pc \in {"idle", "polling", "sending"} /\ polled \in 0 .. RingSize
  /\ rtl \in RtlStates
  /\ ip \in {"none", "peer", "lease", "static"}

(* Receiving is a queue, as long as the driver was started with its place  *)
(* at the adapter's: frames are handled in the order of arrival, each of   *)
(* them once, none is overwritten by a later one, whatever arrives while a *)
(* poll runs and however late RDT is written.                              *)
Receiving == INSTANCE FrameQueue WITH
  Frames <- Received, Capacity <- RingSize - 1, Overruns <- FALSE,
  queue <- IF inStep THEN ToHandle(rx) ELSE <<>>
ReceivesInOrder == Receiving!Spec

(* Sending is a queue without a look at its end: the frames leave in the   *)
(* order in which they were handed over; when RingSize of them wait, all   *)
(* are lost at once, since head and tail then meet as in an empty ring.    *)
Sending == INSTANCE FrameQueue WITH
  Frames <- Sent, Capacity <- RingSize - 1, Overruns <- TRUE, queue <- ToSend(tx)
SendsInOrder == Sending!Spec

(* In the first lap of its buffer, and until it is started again with      *)
(* rx_idx_rtl at another place than 0, the RTL8139's driver looks where    *)
(* the chip put, or will put, the next frame, so that the lengths it adds  *)
(* and the CAPR it writes never lead it into a frame.  Afterwards nothing  *)
(* keeps the two together.                                                 *)
RtlFindsFrames ==
  nic = "rtl" /\ inStep =>
    /\ rtl.idx = rtl.read
    /\ rtl.idx # rtl.write => rtl.at[rtl.idx].kind # NoFrame

(* While the status line says ONLINE, which is all that PING looks at, the *)
(* address shown is that of the host that answered or the one set by hand: *)
(* a lease that replaces the address ends it.                              *)
OnlineShowsItsAddress == online => ip \in {"peer", "static"}

(* Driver and chip agree where the next frame lies, as long as             *)
(* RtlFindsFrames says, and status and address are of one host.            *)
DriverIsSound == TypeOK /\ RtlFindsFrames /\ OnlineShowsItsAddress

(* A send ends although the adapter never reports it, and so does a poll   *)
(* although frames keep coming.                                            *)
CallsReturn == pc # "idle" ~> pc = "idle"

(* An adapter that has run out of slots is given some back, so that frames *)
(* can arrive again.                                                       *)
ReceptionGoesOn == started /\ inStep /\ Idle(rx) ~> ~inStep \/ ~Idle(rx)
=============================================================================
