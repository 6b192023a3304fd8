----------------------------- MODULE RoundRobin -----------------------------
(***************************************************************************)
(* The scheduler of TaskScheduler with a history variable that counts how  *)
(* often in a row each runnable task was passed over, and the proof        *)
(* obligation that it implements CpuSharing.                               *)
(***************************************************************************)
EXTENDS TaskScheduler

VARIABLE waited

rrVars == <<vars, waited>>

RRInit == Init /\ waited = [s \in Slots |-> 0]

CountedTick ==
  /\ Tick
  /\ waited' = [s \in Slots |->
                  IF Runnable(s) /\ s # current_task' THEN waited[s] + 1 ELSE 0]

OtherStep ==
  /\ UserRequest \/ Execution \/ AppStep
  /\ waited' = [s \in Slots |-> IF Runnable(s)' THEN waited[s] ELSE 0]

RRNext == CountedTick \/ OtherStep

RRSpec     == RRInit /\ [][RRNext]_rrVars
RRFairSpec == RRSpec /\ Fairness

(* A runnable task is passed over less often in a row than there are tasks:*)
(* it waits for at most num_tasks - 1 time slices, whoever is created,     *)
(* paused, resumed or closed meanwhile (schedule, kernel_main.cpp:247-253).*)
BoundedBypass == \A s \in Slots : waited[s] < num_tasks

Sharing == INSTANCE CpuSharing WITH
             Tasks    <- Slots,
             Manager  <- 0,
             Patience <- MaxTasks - 1,
             ready    <- {0} \cup {s \in Slots : Runnable(s)},
             owner    <- current_task,
             waited   <- waited

(* The scheduler implements the sharing of one processor among the tasks   *)
(* that are active and not paused, managed by task 0; no task starves: one *)
(* that stays runnable gets the processor again and again, whatever the    *)
(* other tasks do.                                                         *)
ImplementsCpuSharing == Sharing!FairSpec
=============================================================================
