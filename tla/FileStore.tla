----------------------------- MODULE FileStore -----------------------------
(***************************************************************************)
(* What COPY and PASTE promise the user of the disk manager: a drive is a  *)
(* row of slots; a slot is empty or holds what the clipboard held at the   *)
(* one moment it was stored, and keeps it until the drive is formatted.    *)
(* A power failure is no step of its own: what was under way did not       *)
(* happen.                                                                 *)
(***************************************************************************)
CONSTANTS Drives, Slots, Nothing

VARIABLES
  store,  (* what the slots of each drive hold                             *)
  clip    (* what PASTE would store                                        *)

EmptyDrive == [s \in Slots |-> Nothing]

Init == store = [d \in Drives |-> EmptyDrive]

(* COPY, and whatever else uses the clipboard's memory.                    *)
Take == UNCHANGED store

Put(d, s) ==
  /\ store[d][s] = Nothing
  /\ store' = [store EXCEPT ![d][s] = clip]
  /\ UNCHANGED clip

Wipe(d) ==
  /\ store' = [store EXCEPT ![d] = EmptyDrive]
  /\ UNCHANGED clip

Next == Take \/ \E d \in Drives : Wipe(d) \/ \E s \in Slots : Put(d, s)

Spec == Init /\ [][Next]_<<store, clip>>
=============================================================================
