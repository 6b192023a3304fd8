----------------------------- MODULE FrameQueue -----------------------------
(***************************************************************************)
(* What one direction of the network driver promises: frames leave in the  *)
(* order in which they came, each of them once and none left out.  The     *)
(* driver may be started again, and what is waiting then is given up.      *)
(* Where the producer does not look whether there is room (Overruns), one  *)
(* frame too many costs all that wait; nothing else does.                  *)
(***************************************************************************)
EXTENDS Naturals, Sequences

CONSTANTS
  Frames,
  Capacity,    (* the frames that can wait                                 *)
  Overruns     (* the producer goes on when there is no room               *)

VARIABLES
  queue,
  epoch        (* changes whenever the driver is started                   *)

vars == <<queue, epoch>>

Init == queue = <<>> /\ epoch \in BOOLEAN

Put ==
  /\ Len(queue) < Capacity
  /\ \E f \in Frames : queue' = Append(queue, f)
  /\ UNCHANGED epoch

Take == queue # <<>> /\ queue' = Tail(queue) /\ UNCHANGED epoch

Overrun == Overruns /\ Len(queue) = Capacity /\ queue' = <<>> /\ UNCHANGED epoch

Restart == queue' = <<>> /\ epoch' = ~epoch

Next == Put \/ Take \/ Overrun \/ Restart

Spec == Init /\ [][Next]_vars
=============================================================================
