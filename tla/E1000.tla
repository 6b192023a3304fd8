------------------------------- MODULE E1000 -------------------------------
(***************************************************************************)
(* The two descriptor rings that net.cpp shares with an Intel adapter.     *)
(* The adapter works from head to tail and the driver keeps a place of its *)
(* own, cur.  A received frame is in its slot (DD is set) until the driver *)
(* clears the status; a frame to send is in its slot until the adapter     *)
(* reports it done.                                                        *)
(***************************************************************************)
EXTENDS Naturals, Sequences

CONSTANTS
  RingSize,    (* descriptors of each ring (32)                            *)
  Received,    (* the kinds of frames that arrive                          *)
  Sent         (* the kinds of frames that are sent                        *)

ASSUME RingAssumption == RingSize \in Nat \ {0, 1}

NoFrame == "no frame"
ASSUME KindsAssumption == NoFrame \notin Received \cup Sent

Slots == 0 .. RingSize - 1
After(s) == (s + 1) % RingSize

Ring(kinds) == [slot : [Slots -> kinds \cup {NoFrame}], head : Slots, tail : Slots, cur : Slots]

Empty == [s \in Slots |-> NoFrame]

\* The adapter owns the slots from head up to, but not with, tail.
Idle(ring) == ring.head = ring.tail

(***************************************************************************)
(* Receiving.  Starting clears the ring and gives the adapter all slots    *)
(* but one; the driver's place, a global, stays where it was.              *)
(***************************************************************************)
StartedRx(cur) == [slot |-> Empty, head |-> 0, tail |-> RingSize - 1, cur |-> cur]

Arrived(rx, f) == [rx EXCEPT !.slot[rx.head] = f, !.head = After(rx.head)]

Waiting(rx) == rx.slot[rx.cur] # NoFrame

StatusKept(rx) == [rx EXCEPT !.cur = After(rx.cur)]
Handled(rx) == [rx EXCEPT !.slot[rx.cur] = NoFrame, !.cur = After(rx.cur)]

OneTooMany(rx, last) == [rx EXCEPT !.tail = After(last)]
\* One write of RDT at the end of a poll: the last slot that was handled.
GivenBack(rx, last) == [rx EXCEPT !.tail = last]

(***************************************************************************)
(* Sending.  Nothing looks whether the slot is still the adapter's.        *)
(***************************************************************************)
StartedTx == [slot |-> Empty, head |-> 0, tail |-> 0, cur |-> 0]

AdvancedFirst(tx, f) ==
  [tx EXCEPT !.slot[After(tx.cur)] = f, !.cur = After(tx.cur), !.tail = After(tx.cur)]
HandedOver(tx, f) ==
  [tx EXCEPT !.slot[tx.cur] = f, !.cur = After(tx.cur), !.tail = After(tx.cur)]

Transmitted(tx) == [tx EXCEPT !.slot[tx.head] = NoFrame, !.head = After(tx.head)]

(***************************************************************************)
(* What waits: the received frames from the driver's place on, and the     *)
(* frames between the adapter's head and tail.                             *)
(***************************************************************************)
Ahead(s, n) == (s + n) % RingSize
InRow(rx) == CHOOSE n \in 0 .. RingSize :
  /\ \A i \in 0 .. n - 1 : rx.slot[Ahead(rx.cur, i)] # NoFrame
  /\ n < RingSize => rx.slot[Ahead(rx.cur, n)] = NoFrame

ToHandle(rx) == [i \in 1 .. InRow(rx) |-> rx.slot[Ahead(rx.cur, i - 1)]]
ToSend(tx) ==
  [i \in 1 .. (tx.tail + RingSize - tx.head) % RingSize |-> tx.slot[Ahead(tx.head, i - 1)]]
=============================================================================
