----------------------------- MODULE CpuSharing -----------------------------
(***************************************************************************)
(* What a scheduler promises, without its table, its frames or its         *)
(* interrupts: one task at a time owns the processor, only ready tasks are *)
(* given it, only the manager (the task that talks to the user) makes      *)
(* others ready or not, and nobody who stays ready is passed over more     *)
(* often than there are other tasks.                                       *)
(***************************************************************************)
EXTENDS Naturals

CONSTANTS
  Tasks,
  Manager,   (* the one of Tasks that makes others ready                       *)
  Patience   (* how often in a row a ready task may be passed over             *)

VARIABLES
  ready,     (* the tasks that want the processor                          *)
  owner,     (* the task that has it                                       *)
  waited     (* how often in a row a ready task was passed over            *)

sharingVars == <<ready, owner, waited>>

Init ==
  /\ ready = {Manager}
  /\ owner = Manager
  /\ waited = [t \in Tasks |-> 0]

Dispatch ==
  /\ owner' \in ready
  /\ waited' = [t \in Tasks |-> IF t \in ready \ {owner'} THEN waited[t] + 1 ELSE 0]
  /\ \A t \in Tasks : waited'[t] <= Patience
  /\ UNCHANGED ready

Wakes(t) ==
  /\ owner = Manager
  /\ t \notin ready
  /\ ready' = ready \cup {t}
  /\ UNCHANGED <<owner, waited>>

Stops(t) ==
  /\ owner = Manager
  /\ t # Manager
  /\ ready' = ready \ {t}
  /\ waited' = [waited EXCEPT ![t] = 0]
  /\ UNCHANGED owner

Next == Dispatch \/ \E t \in Tasks : Wakes(t) \/ Stops(t)

Spec == Init /\ [][Next]_sharingVars

(* A task that stays ready owns the processor again and again.             *)
FairSpec == Spec /\ \A t \in Tasks : []<>(owner = t \/ t \notin ready)
=============================================================================
