------------------------ MODULE TaskSchedulerProofs ------------------------
(***************************************************************************)
(* Invariants of the scheduler proved for every MaxTasks and every other   *)
(* value of the constants; after them, of RoundRobin: bounded bypass, and  *)
(* that it implements CpuSharing.                                          *)
(***************************************************************************)
EXTENDS RoundRobin, WellFoundedInduction, TLAPS

(* The slots from num_tasks on were never taken; the running one is below. *)
SlotsDense ==
  /\ current_task < num_tasks
  /\ \A s \in Slots : s >= num_tasks => ~active[s]

(* Task 0 is the kernel, alone with interrupts off until it has booted,    *)
(* and runnable from then on.                                              *)
KernelIsTask0 ==
  /\ Context(0).pc \in KernelPCs
  /\ Context(0).slot = 0 /\ Context(0).serial = serial[0]
  /\ ~paused[0]
  /\ active[0] <=> ~Booting
  /\ Booting => ~cpu.ie /\ current_task = 0

(* Every other live task executes a program of its own, never main's code. *)
TasksOutsideKernel ==
  \A s \in Slots \ {0} : active[s] => Context(s).pc \in TaskPCs

SchedulerInv ==
  /\ TypeOK
  /\ SlotsDense
  /\ KernelIsTask0
  /\ TasksOutsideKernel
  /\ RunningTaskIsRunnable
  /\ ContextsBelong

USE MaxTasksAssumption, SectorsAssumption, SleepTicksAssumption,
    MaxSpawnsAssumption, CallsAssumption, ReloadAssumption

-----------------------------------------------------------------------------
(* The loop of schedule ends on a slot that exists and may run.            *)
LEMMA PickedIsRunnable ==
  ASSUME SchedulerInv, cpu.ie, NEW next \in Slots, Picked(next)
  PROVE  Runnable(next) /\ next < num_tasks
<1>1. Runnable(current_task) /\ current_task \in 0 .. num_tasks - 1
      /\ num_tasks \in 1 .. MaxTasks
  BY DEF SchedulerInv, TypeOK, SlotsDense, KernelIsTask0, RunningTaskIsRunnable, Slots
<1>2. PICK k \in 1 .. num_tasks : next = Visit(k) /\ (Runnable(next) \/ k = num_tasks)
  BY DEF Picked
<1>3. next < num_tasks
  BY <1>1, <1>2 DEF Visit, Wrap
<1>4. k = num_tasks => next = current_task
  BY <1>1, <1>2 DEF Visit, Wrap
<1> QED
  BY <1>1, <1>2, <1>3, <1>4

(* A tick changes no task's context, except that it ends a hlt of the      *)
(* running one.                                                            *)
LEMMA TickKeepsContexts ==
  ASSUME TypeOK, Tick, NEW s \in Slots
  PROVE  Context(s)' = IF s = current_task THEN PastHalt(cpu) ELSE Context(s)
BY DEF TypeOK, Tick, Context, FramesAfterTick

(* An interrupted context stays a context of the same task.                *)
LEMMA PastHaltKeeps ==
  ASSUME NEW c \in Contexts
  PROVE  /\ PastHalt(c) \in Contexts
         /\ PastHalt(c).slot = c.slot /\ PastHalt(c).serial = c.serial
         /\ PastHalt(c).ie = c.ie
         /\ PastHalt(c).pc = CASE c.pc = "halt"    -> "run"
                              [] c.pc = "resting" -> "return"
                              [] OTHER            -> c.pc
BY DEF PastHalt, Contexts, KernelPCs, TaskPCs

(* The timer interrupt preserves the invariant.                            *)
LEMMA TickPreserves ==
  ASSUME SchedulerInv, Tick
  PROVE  SchedulerInv'
<1>1. PICK next \in Slots : /\ Picked(next)
                            /\ saved' = FramesAfterTick(next)
                            /\ current_task' = next
                            /\ cpu' = saved'[next]
  BY DEF Tick
<1>2. cpu.ie /\ Runnable(next) /\ next < num_tasks
  BY <1>1, PickedIsRunnable DEF Tick
<1>3. UNCHANGED <<active, paused, num_tasks, serial, spawned, request, sector,
                  ram, tone, sound_muted>>
  BY DEF Tick, loadVars, soundVars
<1>4. cpu \in Contexts /\ PastHalt(cpu) \in Contexts
  BY PastHaltKeeps DEF SchedulerInv, TypeOK
<1>5. TypeOK'
  <2>1. sleep_left' \in [Slots -> 0 .. SleepTicks]
    BY DEF SchedulerInv, TypeOK, Tick, CountDown
  <2>2. saved' \in [Slots -> Contexts] /\ cpu' \in Contexts
    BY <1>1, <1>4 DEF SchedulerInv, TypeOK, FramesAfterTick
  <2> QED
    BY <1>1, <1>3, <2>1, <2>2 DEF SchedulerInv, TypeOK
<1>6. \A s \in Slots :
        Context(s)' = IF s = current_task THEN PastHalt(cpu) ELSE Context(s)
  BY TickKeepsContexts DEF SchedulerInv
<1>7. 0 \in Slots /\ current_task \in Slots
  BY DEF SchedulerInv, TypeOK, Slots
<1>8. SlotsDense'
  BY <1>1, <1>2, <1>3 DEF SchedulerInv, SlotsDense
<1>9. Booting' <=> Booting
  BY <1>4, <1>6, <1>7, PastHaltKeeps DEF Booting, Context
<1>10. KernelIsTask0'
  <2>1. ~Booting
    BY <1>2 DEF SchedulerInv, KernelIsTask0
  <2>2. Context(0)'.pc \in KernelPCs
    BY <1>4, <1>6, <1>7, PastHaltKeeps DEF SchedulerInv, KernelIsTask0, Context, KernelPCs
  <2>3. Context(0)'.slot = 0 /\ Context(0)'.serial = serial[0]
    BY <1>4, <1>6, <1>7, PastHaltKeeps DEF SchedulerInv, KernelIsTask0, Context
  <2> QED
    BY <1>3, <1>9, <2>1, <2>2, <2>3 DEF SchedulerInv, KernelIsTask0
<1>11. TasksOutsideKernel'
  BY <1>3, <1>4, <1>6, PastHaltKeeps
     DEF SchedulerInv, TasksOutsideKernel, Context, TaskPCs
<1>12. RunningTaskIsRunnable'
  BY <1>1, <1>2, <1>3 DEF RunningTaskIsRunnable, Runnable
<1>13. ContextsBelong'
  BY <1>3, <1>4, <1>6, PastHaltKeeps DEF SchedulerInv, ContextsBelong, Context
<1> QED
  BY <1>5, <1>8, <1>10, <1>11, <1>12, <1>13 DEF SchedulerInv

-----------------------------------------------------------------------------
(* A step that only moves the running context on.                          *)
LEMMA MovingOnPreserves ==
  ASSUME SchedulerInv, TypeOK', UNCHANGED tableVars,
         cpu'.slot = cpu.slot, cpu'.serial = cpu.serial,
         current_task = 0 => cpu.pc # "boot" /\ cpu'.pc \in KernelPCs \ {"boot"},
         current_task # 0 => cpu'.pc \in TaskPCs
  PROVE  SchedulerInv'
<1>1. /\ active' = active /\ paused' = paused /\ saved' = saved
      /\ num_tasks' = num_tasks /\ current_task' = current_task /\ serial' = serial
  BY DEF tableVars
<1>2. \A s \in Slots \ {current_task} : Context(s)' = Context(s)
  BY <1>1 DEF Context
<1>3. Context(current_task) = cpu /\ Context(current_task)' = cpu'
  BY <1>1 DEF Context
<1>4. 0 \in Slots /\ current_task \in Slots
  BY DEF SchedulerInv, TypeOK, Slots
<1>5. Booting' <=> Booting
  BY <1>1 DEF Booting, Context, tableVars
<1>6. SlotsDense'
  BY <1>1 DEF SchedulerInv, SlotsDense
<1>7. KernelIsTask0'
  <2>1. CASE current_task = 0
    BY <1>1, <1>3, <1>5, <2>1 DEF SchedulerInv, KernelIsTask0, Booting
  <2>2. CASE current_task # 0
    BY <1>1, <1>2, <1>4, <1>5, <2>2 DEF SchedulerInv, KernelIsTask0
  <2> QED
    BY <2>1, <2>2
<1>8. TasksOutsideKernel'
  BY <1>1, <1>2, <1>3 DEF SchedulerInv, TasksOutsideKernel
<1>9. RunningTaskIsRunnable'
  BY <1>1, <1>5 DEF SchedulerInv, RunningTaskIsRunnable, Runnable
<1>10. ContextsBelong'
  BY <1>1, <1>2, <1>3 DEF SchedulerInv, ContextsBelong
<1> QED
  BY <1>6, <1>7, <1>8, <1>9, <1>10 DEF SchedulerInv

(* A step of the main loop that changes no task, only its own pc.          *)
LEMMA KernelStepPreserves ==
  ASSUME SchedulerInv, UNCHANGED tableVars, NEW from \in KernelPCs \ {"boot"},
         NEW to \in KernelPCs \ {"boot"}, InKernel(from), KernelTo(to),
         request' \in {"none", "idle", "worker", "app"}, sector' \in 0 .. Sectors,
         ram' \in {"junk", "blank", "app", "foreign"},
         sleep_left' \in [Slots -> 0 .. SleepTicks],
         tone' \in BOOLEAN, sound_muted' \in BOOLEAN
  PROVE  SchedulerInv'
<1>1. /\ cpu' \in Contexts /\ cpu'.slot = cpu.slot /\ cpu'.serial = cpu.serial
      /\ cpu'.pc = to
  BY DEF SchedulerInv, TypeOK, KernelTo, Contexts
<1>2. TypeOK'
  BY <1>1 DEF SchedulerInv, TypeOK, tableVars
<1>3. current_task = 0 /\ cpu.pc # "boot"
  BY DEF InKernel
<1> QED
  BY <1>1, <1>2, <1>3, MovingOnPreserves

-----------------------------------------------------------------------------
(* main leaves the boot code.                                              *)
LEMMA BootPreserves ==
  ASSUME SchedulerInv, BootTask0
  PROVE  SchedulerInv'
<1>1. /\ active' = [active EXCEPT ![0] = TRUE] /\ request' = "idle"
      /\ cpu' = [cpu EXCEPT !.pc = "spawn"] /\ current_task' = current_task
      /\ paused' = paused /\ saved' = saved /\ num_tasks' = num_tasks
      /\ serial' = serial
      /\ UNCHANGED <<spawned, sector, ram, sleep_left, tone, sound_muted>>
  BY DEF BootTask0, KernelTo, soundVars
<1>2. /\ current_task = 0 /\ cpu.pc = "boot" /\ 0 \in Slots
      /\ cpu \in Contexts /\ active \in [Slots -> BOOLEAN]
      /\ num_tasks \in 1 .. MaxTasks
  BY DEF BootTask0, InKernel, SchedulerInv, TypeOK
<1>3. /\ cpu' \in Contexts /\ cpu'.pc = "spawn" /\ cpu'.slot = cpu.slot
      /\ cpu'.serial = cpu.serial /\ cpu'.ie = cpu.ie
  BY <1>1, <1>2 DEF Contexts, KernelPCs
<1>4. TypeOK'
  BY <1>1, <1>2, <1>3 DEF SchedulerInv, TypeOK
<1>5. /\ Context(0) = cpu /\ Context(0)' = cpu' /\ ~paused[0]
      /\ \A s \in Slots \ {0} : Context(s)' = Context(s) /\ active'[s] = active[s]
  BY <1>1, <1>2 DEF SchedulerInv, KernelIsTask0, Context
<1>6. SlotsDense'
  BY <1>1, <1>2, <1>5 DEF SchedulerInv, SlotsDense
<1>7. KernelIsTask0'
  BY <1>1, <1>2, <1>3, <1>5 DEF SchedulerInv, KernelIsTask0, Booting, KernelPCs
<1>8. TasksOutsideKernel'
  BY <1>5 DEF SchedulerInv, TasksOutsideKernel
<1>12. ContextsBelong'
  <2> SUFFICES ASSUME NEW s \in Slots, active'[s]
               PROVE  Context(s)'.slot = s /\ Context(s)'.serial = serial'[s]
    BY DEF ContextsBelong
  <2>1. CASE s = 0
    BY <1>1, <1>3, <1>5, <2>1 DEF SchedulerInv, KernelIsTask0
  <2>2. CASE s # 0
    BY <1>1, <1>5, <2>2 DEF SchedulerInv, ContextsBelong
  <2> QED
    BY <2>1, <2>2
<1>9. RunningTaskIsRunnable'
  BY <1>1, <1>2, <1>5 DEF RunningTaskIsRunnable, Runnable
<1> QED
  BY <1>4, <1>6, <1>7, <1>8, <1>9, <1>12 DEF SchedulerInv

(* create_task: the slot it takes was inactive, so not the running one.    *)
LEMMA CreateTaskPreserves ==
  ASSUME SchedulerInv, CreateTask
  PROVE  SchedulerInv'
<1>1. /\ cpu' = [cpu EXCEPT !.pc = "loop", !.ie = TRUE] /\ spawned' = spawned + 1
      /\ request' = "none" /\ current_task' = current_task
      /\ UNCHANGED <<sector, ram, sleep_left, tone, sound_muted>>
  BY DEF CreateTask, soundVars
<1>2. /\ current_task = 0 /\ cpu.pc = "spawn" /\ 0 \in Slots
      /\ cpu \in Contexts /\ Context(0) = cpu /\ Context(0)' = cpu'
  BY <1>1 DEF CreateTask, InKernel, SchedulerInv, TypeOK, Context
<1>3. /\ cpu' \in Contexts /\ cpu'.pc = "loop" /\ cpu'.slot = cpu.slot
      /\ cpu'.serial = cpu.serial
  BY <1>1, <1>2 DEF Contexts, KernelPCs
<1>4. ~Booting /\ ~Booting'
  BY <1>2, <1>3 DEF Booting
<1>6. CASE ~\E id \in Slots : TakesSlot(id)
  <2>1. UNCHANGED <<saved, serial, active, paused, num_tasks>>
    BY <1>6 DEF CreateTask
  <2>2. TypeOK'
    BY <1>1, <1>3, <2>1 DEF SchedulerInv, TypeOK
  <2>3. \A s \in Slots \ {0} : Context(s)' = Context(s)
    BY <1>1, <1>2, <2>1 DEF Context
  <2>4. SlotsDense' /\ RunningTaskIsRunnable'
    BY <1>1, <1>2, <1>4, <2>1
       DEF SchedulerInv, SlotsDense, RunningTaskIsRunnable, Runnable
  <2>5. KernelIsTask0'
    BY <1>1, <1>2, <1>3, <1>4, <2>1 DEF SchedulerInv, KernelIsTask0, KernelPCs
  <2>6. TasksOutsideKernel'
    BY <2>1, <2>3 DEF SchedulerInv, TasksOutsideKernel
  <2>7. ContextsBelong'
    <3> SUFFICES ASSUME NEW s \in Slots, active'[s]
                 PROVE  Context(s)'.slot = s /\ Context(s)'.serial = serial'[s]
      BY DEF ContextsBelong
    <3>1. CASE s = 0
      BY <1>2, <1>3, <2>1, <3>1 DEF SchedulerInv, KernelIsTask0
    <3>2. CASE s # 0
      BY <2>1, <2>3, <3>2 DEF SchedulerInv, ContextsBelong
    <3> QED
      BY <3>1, <3>2
  <2> QED
    BY <2>2, <2>4, <2>5, <2>6, <2>7 DEF SchedulerInv
<1>7. CASE \E id \in Slots : TakesSlot(id)
  <2>1. PICK id \in Slots :
          /\ TakesSlot(id)
          /\ saved' = [saved EXCEPT ![id] = NewFrame(id)]
          /\ serial' = [serial EXCEPT ![id] = spawned + 1]
          /\ active' = [active EXCEPT ![id] = TRUE]
          /\ paused' = [paused EXCEPT ![id] = FALSE]
          /\ num_tasks' = IF id >= num_tasks THEN id + 1 ELSE num_tasks
    BY <1>7 DEF CreateTask
  <2>2. /\ id # 0 /\ id \in 1 .. MaxTasks - 1 /\ num_tasks \in 1 .. MaxTasks
        /\ num_tasks' \in 1 .. MaxTasks
    BY <2>1 DEF TakesSlot, SchedulerInv, TypeOK, Slots
  <2>3. /\ NewFrame(id) \in Contexts /\ NewFrame(id).slot = id
        /\ NewFrame(id).serial = spawned + 1 /\ NewFrame(id).pc = "run"
        /\ NewFrame(id).ie
    BY <1>2 DEF NewFrame, Contexts, SchedulerInv, TypeOK, Programs, TaskPCs
  <2>4. TypeOK'
    BY <1>1, <1>3, <2>1, <2>2, <2>3 DEF SchedulerInv, TypeOK
  <2>5. /\ Context(id)' = NewFrame(id)
        /\ \A s \in Slots \ {0, id} : Context(s)' = Context(s)
    BY <1>1, <1>2, <2>1, <2>2 DEF Context, SchedulerInv, TypeOK
  <2>6. \A s \in Slots \ {id} :
          /\ active'[s] = active[s] /\ paused'[s] = paused[s]
          /\ serial'[s] = serial[s] /\ saved'[s] = saved[s]
    BY <2>1 DEF SchedulerInv, TypeOK
  <2>7. SlotsDense'
    BY <1>1, <1>2, <2>1, <2>2, <2>6 DEF SchedulerInv, SlotsDense, Slots
  <2>8. KernelIsTask0'
    BY <1>1, <1>2, <1>3, <1>4, <2>2, <2>6 DEF SchedulerInv, KernelIsTask0, KernelPCs
  <2>9. TasksOutsideKernel'
    BY <2>3, <2>5, <2>6 DEF SchedulerInv, TasksOutsideKernel, TaskPCs
  <2>10. RunningTaskIsRunnable'
    BY <1>1, <1>2, <1>4, <2>2, <2>6 DEF SchedulerInv, RunningTaskIsRunnable, Runnable
  <2>11. ContextsBelong'
    <3> SUFFICES ASSUME NEW s \in Slots, active'[s]
                 PROVE  Context(s)'.slot = s /\ Context(s)'.serial = serial'[s]
      BY DEF ContextsBelong
    <3>1. CASE s = id
      BY <2>1, <2>3, <2>5, <3>1 DEF SchedulerInv, TypeOK
    <3>2. CASE s = 0
      BY <1>2, <1>3, <2>2, <2>6, <3>2 DEF SchedulerInv, KernelIsTask0
    <3>3. CASE s \notin {0, id}
      BY <2>5, <2>6, <3>3 DEF SchedulerInv, ContextsBelong
    <3> QED
      BY <3>1, <3>2, <3>3
  <2> QED
    BY <2>4, <2>7, <2>8, <2>9, <2>10, <2>11 DEF SchedulerInv
<1> QED
  BY <1>6, <1>7

(* The task manager's buttons spare task 0, which is running.              *)
LEMMA ButtonsPreserve ==
  ASSUME SchedulerInv, NEW t \in Slots, TogglePause(t) \/ CloseTask(t)
  PROVE  SchedulerInv'
<1>1. /\ UNCHANGED <<saved, num_tasks, current_task, serial, spawned, request,
                     sector, ram, sleep_left, tone, sound_muted>>
      /\ active' \in [Slots -> BOOLEAN] /\ paused' \in [Slots -> BOOLEAN]
      /\ \A s \in Slots : active'[s] => active[s]
      /\ \A s \in Slots \ {t} : active'[s] = active[s] /\ paused'[s] = paused[s]
  BY DEF TogglePause, CloseTask, loadVars, soundVars, SchedulerInv, TypeOK
<1>2. t # 0 /\ current_task = 0 /\ cpu.pc = "loop" /\ 0 \in Slots
  BY DEF TogglePause, CloseTask, InKernel, SchedulerInv, TypeOK, Slots
<1>3. PICK to \in {"mute", "loop"} : cpu' = [cpu EXCEPT !.pc = to]
  BY DEF TogglePause, CloseTask, KernelTo, SilenceNext
<1>4. /\ cpu' \in Contexts /\ cpu'.pc = to /\ cpu'.slot = cpu.slot
      /\ cpu'.serial = cpu.serial
  BY <1>3 DEF SchedulerInv, TypeOK, Contexts, KernelPCs
<1>5. TypeOK'
  BY <1>1, <1>4 DEF SchedulerInv, TypeOK
<1>6. /\ Context(0) = cpu /\ Context(0)' = cpu'
      /\ \A s \in Slots \ {0} : Context(s)' = Context(s)
  BY <1>1, <1>2 DEF Context
<1>7. ~Booting /\ ~Booting'
  BY <1>2, <1>4, <1>6 DEF Booting
<1>8. KernelIsTask0'
  BY <1>1, <1>2, <1>4, <1>6, <1>7 DEF SchedulerInv, KernelIsTask0, KernelPCs
<1>9. SlotsDense' /\ TasksOutsideKernel' /\ ContextsBelong'
  BY <1>1, <1>2, <1>4, <1>6
     DEF SchedulerInv, SlotsDense, TasksOutsideKernel, ContextsBelong
<1>10. RunningTaskIsRunnable'
  BY <1>1, <1>2, <1>7 DEF SchedulerInv, RunningTaskIsRunnable, Runnable
<1> QED
  BY <1>5, <1>8, <1>9, <1>10 DEF SchedulerInv

(* The rest of the main loop: commands, loading, sleeping and beeping.     *)
LEMMA MainLoopPreserves ==
  ASSUME SchedulerInv,
         \/ StartCommand \/ RunApp \/ ReadSector \/ ReadSectorFails \/ CheckSignature
         \/ ToggleMute \/ Silence \/ SleepMs \/ SleepEnds \/ TestBeep
  PROVE  SchedulerInv'
<1> DEFINE Data ==
             /\ request \in {"none", "idle", "worker", "app"} /\ sector \in 0 .. Sectors
             /\ ram \in {"junk", "blank", "app", "foreign"}
             /\ sleep_left \in [Slots -> 0 .. SleepTicks]
             /\ tone \in BOOLEAN /\ sound_muted \in BOOLEAN
<1>0. SleepTicks \in 0 .. SleepTicks
  OBVIOUS
<1>1. Data /\ UNCHANGED tableVars
  BY DEF SchedulerInv, TypeOK, tableVars, StartCommand, RunApp, ReadSector,
         ReadSectorFails, CheckSignature, ToggleMute, Silence, SleepMs, SleepEnds, TestBeep
<1> USE DEF loadVars, soundVars
<1>2. CASE StartCommand
  <2>1. Data' /\ InKernel("loop") /\ KernelTo("spawn")
    BY <1>1, <1>2 DEF StartCommand
  <2> QED
    BY <1>1, <2>1, KernelStepPreserves DEF KernelPCs
<1>3. CASE RunApp
  <2>1. Data' /\ InKernel("loop") /\ KernelTo("load")
    BY <1>1, <1>3 DEF RunApp
  <2> QED
    BY <1>1, <2>1, KernelStepPreserves DEF KernelPCs
<1>4. CASE ReadSector
  <2>1. Data' /\ InKernel("load") /\ cpu \in Contexts
    BY <1>1, <1>4 DEF ReadSector, SchedulerInv, TypeOK
  <2>2. KernelTo("check") \/ KernelTo("load")
    BY <1>4, <2>1 DEF ReadSector, KernelTo, InKernel, Contexts
  <2> QED
    BY <1>1, <2>1, <2>2, KernelStepPreserves DEF KernelPCs
<1>5. CASE ReadSectorFails
  <2>1. Data' /\ InKernel("load") /\ KernelTo("loop")
    BY <1>1, <1>5 DEF ReadSectorFails
  <2> QED
    BY <1>1, <2>1, KernelStepPreserves DEF KernelPCs
<1>6. CASE CheckSignature
  <2>1. Data' /\ InKernel("check") /\ (KernelTo("spawn") \/ KernelTo("loop"))
    BY <1>1, <1>6 DEF CheckSignature, SignatureValid
  <2> QED
    BY <1>1, <2>1, KernelStepPreserves DEF KernelPCs
<1>7. CASE ToggleMute
  <2>1. Data' /\ InKernel("loop") /\ (KernelTo("mute") \/ KernelTo("loop"))
    BY <1>1, <1>7 DEF ToggleMute
  <2> QED
    BY <1>1, <2>1, KernelStepPreserves DEF KernelPCs
<1>8. CASE Silence
  <2>1. Data' /\ InKernel("mute") /\ KernelTo("loop")
    BY <1>1, <1>8 DEF Silence, PlayFreq
  <2> QED
    BY <1>1, <2>1, KernelStepPreserves DEF KernelPCs
<1>9. CASE SleepMs
  <2>1. Data' /\ InKernel("loop") /\ KernelTo("sleep")
    BY <1>0, <1>1, <1>9 DEF SleepMs
  <2> QED
    BY <1>1, <2>1, KernelStepPreserves DEF KernelPCs
<1>10. CASE SleepEnds
  <2>1. Data' /\ InKernel("sleep") /\ KernelTo("loop")
    BY <1>1, <1>10 DEF SleepEnds
  <2> QED
    BY <1>1, <2>1, KernelStepPreserves DEF KernelPCs
<1>11. CASE TestBeep
  <2>1. Data' /\ InKernel("loop") /\ KernelTo("beep")
    BY <1>0, <1>1, <1>11 DEF TestBeep
  <2> QED
    BY <1>1, <2>1, KernelStepPreserves DEF KernelPCs
<1> QED
  BY <1>2, <1>3, <1>4, <1>5, <1>6, <1>7, <1>8, <1>9, <1>10, <1>11

(* What the other tasks do, in their own code or in a system call.         *)
LEMMA TaskStepPreserves ==
  ASSUME SchedulerInv,
         \/ BeepEnds \/ IdleHalts \/ WorkerYields \/ DispatchYield \/ YieldReturns \/ DispatchPlayFreq
         \/ DispatchPlaySound \/ AppStep
  PROVE  SchedulerInv'
<1>1. /\ current_task = 0 => cpu.pc \in KernelPCs
      /\ current_task # 0 => cpu.pc \in TaskPCs
  BY DEF SchedulerInv, TypeOK, KernelIsTask0, TasksOutsideKernel,
         RunningTaskIsRunnable, Runnable, Context
<1>2. UNCHANGED tableVars /\ cpu \in Contexts
  BY DEF SchedulerInv, TypeOK, BeepEnds, IdleHalts, WorkerYields, DispatchYield, YieldReturns,
         DispatchPlayFreq, DispatchPlaySound, AppStep, Int80, AppDerails
<1> DEFINE MovesOn == /\ cpu' \in Contexts
                      /\ cpu'.slot = cpu.slot /\ cpu'.serial = cpu.serial
                      /\ current_task = 0 => cpu.pc = "beep" /\ cpu'.pc = "loop"
                      /\ current_task # 0 => cpu'.pc \in TaskPCs
<1>3. MovesOn
  <2> USE <1>1, <1>2 DEF Contexts, KernelPCs, TaskPCs
  <2>1. CASE BeepEnds
    BY <2>1 DEF BeepEnds
  <2>2. CASE IdleHalts
    BY <2>2 DEF IdleHalts, Running
  <2>3. CASE WorkerYields \/ DispatchYield
    <3>1. /\ \/ cpu' = [cpu EXCEPT !.pc = "halt", !.ie = TRUE]
             \/ cpu' = [[cpu EXCEPT !.pc = "halt", !.ie = TRUE] EXCEPT !.pc = "resting"]
          /\ cpu.pc \in {"run", "yield"}
      BY <2>3 DEF WorkerYields, DispatchYield, Running, Halted
    <3> QED
      BY <3>1
  <2>4. CASE DispatchPlayFreq \/ YieldReturns
    BY <2>4 DEF DispatchPlayFreq, YieldReturns, SyscallReturn
  <2>5. CASE DispatchPlaySound
    <3>1. /\ cpu.pc = "sound"
          /\ \/ cpu' = [cpu EXCEPT !.pc = "run", !.ie = TRUE]
             \/ cpu' = [cpu EXCEPT !.pc = "beep"]
      BY <2>5 DEF DispatchPlaySound, SyscallReturn
    <3>2. CASE cpu' = [cpu EXCEPT !.pc = "run", !.ie = TRUE]
      BY <3>1, <3>2
    <3>3. CASE cpu' = [cpu EXCEPT !.pc = "beep"]
      BY <3>1, <3>3
    <3> QED
      BY <3>1, <3>2, <3>3
  <2>6. CASE AppStep
    <3>1. CASE \E call \in Calls : Int80(call)
      BY <3>1 DEF Int80, GateLeavesInterrupts, Running
    <3>2. CASE AppDerails
      BY <3>2 DEF AppDerails, Running
    <3> QED
      BY <2>6, <3>1, <3>2 DEF AppStep
  <2> QED
    BY <2>1, <2>2, <2>3, <2>4, <2>5, <2>6
<1>4. /\ request' = request /\ sector' = sector /\ ram' = ram
      /\ sound_muted' = sound_muted /\ tone' \in BOOLEAN
  BY DEF SchedulerInv, TypeOK, BeepEnds, IdleHalts, WorkerYields, DispatchYield, YieldReturns,
         DispatchPlayFreq, DispatchPlaySound, AppStep, Int80, AppDerails, PlayFreq,
         loadVars, soundVars
<1>5. sleep_left' \in [Slots -> 0 .. SleepTicks]
  <2>1. sleep_left' = sleep_left \/ sleep_left' = [sleep_left EXCEPT ![current_task] = SleepTicks]
    BY DEF BeepEnds, IdleHalts, WorkerYields, DispatchYield, YieldReturns, DispatchPlayFreq,
           DispatchPlaySound, AppStep, Int80, AppDerails
  <2>2. SleepTicks \in 0 .. SleepTicks /\ sleep_left \in [Slots -> 0 .. SleepTicks]
    BY DEF SchedulerInv, TypeOK
  <2> QED
    BY <2>1, <2>2
<1>6. TypeOK'
  BY <1>2, <1>3, <1>4, <1>5 DEF SchedulerInv, TypeOK, tableVars
<1> QED
  BY <1>1, <1>2, <1>3, <1>6, MovingOnPreserves DEF KernelPCs

-----------------------------------------------------------------------------
LEMMA InitEstablishes == Init => SchedulerInv
<1> SUFFICES ASSUME Init PROVE SchedulerInv
  OBVIOUS
<1>1. 0 \in Slots /\ BootContext \in Contexts
  BY DEF Slots, BootContext, Contexts, Programs, KernelPCs
<1>2. \A s \in Slots : EmptyFrame(s) \in Contexts
  BY DEF EmptyFrame, Contexts
<1>3. TypeOK
  <2>1. saved \in [Slots -> Contexts] /\ cpu \in Contexts
    BY <1>1, <1>2 DEF Init
  <2>2. /\ active \in [Slots -> BOOLEAN] /\ paused \in [Slots -> BOOLEAN]
        /\ serial \in [Slots -> Nat] /\ sleep_left \in [Slots -> 0 .. SleepTicks]
    BY DEF Init
  <2>3. num_tasks \in 1 .. MaxTasks /\ spawned \in Nat /\ sector \in 0 .. Sectors
    BY DEF Init
  <2>4. tone \in BOOLEAN /\ sound_muted \in BOOLEAN
    BY Zenon DEF Init
  <2>5. current_task \in Slots
    BY <1>1 DEF Init
  <2>6. /\ request \in {"none", "idle", "worker", "app"}
        /\ ram \in {"junk", "blank", "app", "foreign"}
    BY DEF Init
  <2> QED
    BY <2>1, <2>2, <2>3, <2>4, <2>5, <2>6 DEF TypeOK
<1>4. Context(0) = BootContext /\ Booting
  BY DEF Init, Context, BootContext, Booting
<1> QED
  BY <1>1, <1>3, <1>4
     DEF Init, SchedulerInv, SlotsDense, KernelIsTask0, TasksOutsideKernel,
         RunningTaskIsRunnable, ContextsBelong,
         BootContext, KernelPCs, Slots

LEMMA NextPreserves == SchedulerInv /\ [Next]_vars => SchedulerInv'
<1> SUFFICES ASSUME SchedulerInv, [Next]_vars PROVE SchedulerInv'
  OBVIOUS
<1>1. CASE Tick
  BY <1>1, TickPreserves
<1>2. CASE BootTask0
  BY <1>2, BootPreserves
<1>3. CASE CreateTask
  BY <1>3, CreateTaskPreserves
<1>4. CASE \E t \in Slots : TogglePause(t) \/ CloseTask(t)
  BY <1>4, ButtonsPreserve
<1>5. CASE \/ StartCommand \/ RunApp \/ ReadSector \/ ReadSectorFails \/ CheckSignature
           \/ ToggleMute \/ Silence \/ SleepMs \/ SleepEnds \/ TestBeep
  BY <1>5, MainLoopPreserves
<1>6. CASE \/ BeepEnds \/ IdleHalts \/ WorkerYields \/ DispatchYield \/ YieldReturns \/ DispatchPlayFreq
           \/ DispatchPlaySound \/ AppStep
  BY <1>6, TaskStepPreserves
<1>7. CASE UNCHANGED vars
  BY <1>7 DEF vars, tableVars, loadVars, soundVars, SchedulerInv, TypeOK, SlotsDense,
              KernelIsTask0, TasksOutsideKernel, RunningTaskIsRunnable, ContextsBelong,
              Context, Booting, Runnable
<1> QED
  BY <1>1, <1>2, <1>3, <1>4, <1>5, <1>6, <1>7 DEF Next, UserRequest, Execution

(* Every reachable state of the scheduler satisfies the inductive          *)
(* invariant, for any number of slots, tasks, sectors and system calls.    *)
THEOREM SchedulerInvariant == Spec => []SchedulerInv
BY InitEstablishes, NextPreserves, PTL DEF Spec

(* Type correctness of the scheduler (struct Task and its globals,         *)
(* kernel_main.cpp:144-153).                                               *)
THEOREM TypeCorrect == Spec => []TypeOK
<1>1. SchedulerInv => TypeOK
  BY DEF SchedulerInv
<1> QED
  BY <1>1, SchedulerInvariant, PTL

(* schedule and the buttons of the task manager together never leave the   *)
(* processor with a closed or a paused task.                               *)
THEOREM NeverRunsPausedTask == Spec => []RunningTaskIsRunnable
<1>1. SchedulerInv => RunningTaskIsRunnable
  BY DEF SchedulerInv
<1> QED
  BY <1>1, SchedulerInvariant, PTL

(* A context switch restores the frame of the task it switches to, and of  *)
(* its latest incarnation, however slots are closed and taken again.       *)
THEOREM ContextsNeverMixed == Spec => []ContextsBelong
<1>1. SchedulerInv => ContextsBelong
  BY DEF SchedulerInv
<1> QED
  BY <1>1, SchedulerInvariant, PTL

(* A paused task's frame does not change and it does not run.              *)
THEOREM PausedStaysFrozen == Spec => PausedTaskFrozen
<1>1. SchedulerInv /\ [Next]_vars
        => [\A s \in Slots : active[s] /\ paused[s] /\ active'[s] /\ paused'[s]
              => current_task' # s /\ saved'[s] = saved[s]]_vars
  <2> SUFFICES ASSUME SchedulerInv, Next, NEW s \in Slots,
                      active[s], paused[s], active'[s], paused'[s]
               PROVE  current_task' # s /\ saved'[s] = saved[s]
    OBVIOUS
  <2>1. s # current_task
    BY DEF SchedulerInv, RunningTaskIsRunnable, KernelIsTask0, Runnable
  <2>2. CASE Tick
    <3>1. PICK next \in Slots : Picked(next) /\ saved' = FramesAfterTick(next)
                                /\ current_task' = next
      BY <2>2 DEF Tick
    <3>2. Runnable(next)
      BY <2>2, <3>1, PickedIsRunnable DEF Tick
    <3> QED
      BY <2>1, <3>1, <3>2 DEF Runnable, FramesAfterTick, SchedulerInv, TypeOK
  <2>3. CASE CreateTask
    <3>1. CASE \E id \in Slots : TakesSlot(id)
      <4>1. PICK id \in Slots : TakesSlot(id) /\ saved' = [saved EXCEPT ![id] = NewFrame(id)]
        BY <2>3, <3>1 DEF CreateTask
      <4>2. ~active[id]
        BY <4>1 DEF TakesSlot, SchedulerInv, SlotsDense, TypeOK
      <4> QED
        BY <2>1, <2>3, <4>1, <4>2 DEF CreateTask, SchedulerInv, TypeOK
    <3>2. CASE ~\E id \in Slots : TakesSlot(id)
      BY <2>1, <2>3, <3>2 DEF CreateTask
    <3> QED
      BY <3>1, <3>2
  <2>4. CASE ~Tick /\ ~CreateTask
    <3>1. saved' = saved /\ current_task' = current_task
      BY <2>4 DEF Next, UserRequest, Execution, AppStep, tableVars, BootTask0,
                  StartCommand, RunApp, ReadSector, ReadSectorFails, CheckSignature,
                  TogglePause, CloseTask, ToggleMute, Silence, SleepMs, SleepEnds,
                  TestBeep, BeepEnds, IdleHalts, WorkerYields, Int80, DispatchYield, YieldReturns,
                  DispatchPlayFreq, DispatchPlaySound, AppDerails
    <3> QED
      BY <2>1, <3>1
  <2> QED
    BY <2>2, <2>3, <2>4
<1> QED
  BY <1>1, SchedulerInvariant, PTL DEF Spec, PausedTaskFrozen
-----------------------------------------------------------------------------
(* The slot asked for before the disk is read is there after it.           *)

(* Between has_free_task_slot and create_task nobody takes the last slot;  *)
(* when main creates the idle task only slot 0 was ever used.              *)
FreeSlotKept ==
  /\ Context(0).pc \in {"spawn", "load", "check"} => HasFreeSlot
  /\ Booting => num_tasks = 1

LEMMA LeastNumber ==
  ASSUME NEW S \in SUBSET Nat, S # {}
  PROVE  \E s \in S : \A t \in S : s <= t
<1> DEFINE Less == OpToRel(<, Nat)
<1>1. IsWellFoundedOn(Less, Nat)
  BY NatLessThanWellFounded
<1>2. PICK s \in S : \A t \in S : ~(<<t, s>> \in Less)
  <2> HIDE DEF Less
  <2> QED BY <1>1, WFMin
<1>3. ASSUME NEW t \in S, t < s PROVE FALSE
  <2>1. <<t, s>> \in Less
    BY <1>3 DEF OpToRel
  <2> QED
    BY <1>2, <2>1
<1> QED
  BY <1>3

(* has_free_task_slot and create_task agree on when a slot is free.        *)
LEMMA FreeSlotIsFound ==
  ASSUME TypeOK, HasFreeSlot
  PROVE  \E id \in Slots : TakesSlot(id)
<1>1. CASE \E i \in Slots \ {0} : ~active[i]
  <2> DEFINE Free == {i \in Slots \ {0} : ~active[i]}
  <2>1. PICK id \in Free : \A t \in Free : id <= t
    <3>1. Free \in SUBSET Nat /\ Free # {}
      BY <1>1 DEF Slots
    <3> QED
      BY <3>1, LeastNumber
  <2>2. \A j \in 1 .. id - 1 : active[j]
    <3> SUFFICES ASSUME NEW j \in 1 .. id - 1 PROVE active[j]
      OBVIOUS
    <3>1. id \in 1 .. MaxTasks - 1 /\ j \in Slots \ {0} /\ ~(id <= j)
      BY <2>1 DEF Slots
    <3> QED
      BY <2>1, <3>1
  <2> QED
    BY <1>1, <2>1, <2>2 DEF TakesSlot
<1>2. CASE ~\E i \in Slots \ {0} : ~active[i]
  <2>1. num_tasks < MaxTasks /\ num_tasks \in Slots
    BY <1>2 DEF HasFreeSlot, TypeOK, Slots
  <2> QED
    BY <1>2, <2>1 DEF TakesSlot
<1> QED
  BY <1>1, <1>2

LEMMA FreeSlotStep ==
  ASSUME SchedulerInv, FreeSlotKept, [Next]_vars
  PROVE  FreeSlotKept'
<1>0. 0 \in Slots /\ current_task \in Slots /\ cpu \in Contexts
  BY DEF SchedulerInv, TypeOK, Slots
<1>1. CASE Tick
  <2>1. UNCHANGED <<active, num_tasks>>
    BY <1>1 DEF Tick
  <2>2. Context(0)'.pc = Context(0).pc \/ Context(0)'.pc \in {"run", "return"}
    BY <1>0, <1>1, TickKeepsContexts, PastHaltKeeps DEF SchedulerInv, Context
  <2> QED
    BY <2>1, <2>2 DEF FreeSlotKept, HasFreeSlot, Booting
<1>2. CASE BootTask0
  <2>1. num_tasks' = num_tasks /\ Booting /\ Context(0)'.pc = "spawn"
    BY <1>0, <1>2 DEF BootTask0, InKernel, KernelTo, Booting, Context, Contexts
  <2>2. num_tasks' < MaxTasks
    BY <2>1 DEF FreeSlotKept
  <2> QED
    BY <2>1, <2>2 DEF FreeSlotKept, HasFreeSlot, Booting
<1>3. CASE CreateTask
  BY <1>0, <1>3 DEF CreateTask, InKernel, FreeSlotKept, Booting, Context, Contexts
<1>4. CASE \E t \in Slots : TogglePause(t) \/ CloseTask(t)
  <2>1. current_task = 0 /\ current_task' = 0 /\ cpu'.pc \in {"mute", "loop"}
    BY <1>0, <1>4 DEF TogglePause, CloseTask, InKernel, KernelTo, SilenceNext, Contexts
  <2> QED
    BY <2>1 DEF FreeSlotKept, Booting, Context
<1>5. CASE StartCommand \/ RunApp
  <2>1. HasFreeSlot' /\ Context(0)'.pc \in {"spawn", "load"}
    BY <1>0, <1>5 DEF StartCommand, RunApp, InKernel, KernelTo, tableVars, HasFreeSlot,
                      Context, Contexts
  <2> QED
    BY <2>1 DEF FreeSlotKept, Booting
<1>6. CASE ReadSector \/ ReadSectorFails \/ CheckSignature
  <2>1. /\ current_task = 0 /\ current_task' = 0 /\ UNCHANGED <<active, num_tasks>>
        /\ cpu.pc \in {"load", "check"} /\ cpu'.pc # "boot"
    BY <1>0, <1>6 DEF ReadSector, ReadSectorFails, CheckSignature, InKernel, KernelTo,
                      tableVars, Contexts
  <2> QED
    BY <2>1 DEF FreeSlotKept, HasFreeSlot, Booting, Context
<1>7. CASE ToggleMute \/ Silence \/ SleepMs \/ SleepEnds \/ TestBeep
  <2>1. /\ current_task = 0 /\ current_task' = 0
        /\ cpu'.pc \in {"mute", "loop", "sleep", "beep"}
    BY <1>0, <1>7 DEF ToggleMute, Silence, SleepMs, SleepEnds, TestBeep, InKernel,
                      KernelTo, tableVars, Contexts
  <2> QED
    BY <2>1 DEF FreeSlotKept, Booting, Context
<1>8. CASE \/ BeepEnds \/ IdleHalts \/ WorkerYields \/ DispatchYield \/ YieldReturns \/ DispatchPlayFreq
           \/ DispatchPlaySound \/ AppStep
  <2>1. /\ UNCHANGED <<active, num_tasks, current_task, saved>>
        /\ cpu'.pc \in TaskPCs \cup {"loop"}
    BY <1>0, <1>8 DEF BeepEnds, IdleHalts, WorkerYields, DispatchYield, YieldReturns, DispatchPlayFreq,
                      DispatchPlaySound, AppStep, Int80, AppDerails, SyscallReturn, Halted,
                      tableVars, Contexts, TaskPCs
  <2>2. Context(0)' = Context(0) \/ Context(0)'.pc \in TaskPCs \cup {"loop"}
    BY <2>1 DEF Context
  <2>3. "boot" \notin TaskPCs /\ TaskPCs \cap {"spawn", "load", "check"} = {}
    BY DEF TaskPCs
  <2> QED
    BY <2>1, <2>2, <2>3 DEF FreeSlotKept, HasFreeSlot, Booting
<1>9. CASE UNCHANGED vars
  BY <1>9 DEF vars, tableVars, FreeSlotKept, HasFreeSlot, Booting, Context
<1> QED
  BY <1>1, <1>2, <1>3, <1>4, <1>5, <1>6, <1>7, <1>8, <1>9
     DEF Next, UserRequest, Execution

(* The loader, the START command and the boot code never reach             *)
(* create_task without a slot for it, whoever closes tasks or is preempted *)
(* between the question and the call (kernel_main.cpp:183-197 and 1649).            *)
THEOREM SpawnedTasksFindASlot == Spec => []SlotsAreSound
<1>1. Init => FreeSlotKept
  BY DEF Init, FreeSlotKept, Context, BootContext
<1>2. SchedulerInv /\ FreeSlotKept => SlotsAreSound
  BY FreeSlotIsFound DEF SchedulerInv, FreeSlotKept, SlotsAreSound, SpawnFindsSlot
<1> QED
  BY <1>1, <1>2, FreeSlotStep, SchedulerInvariant, PTL DEF Spec

-----------------------------------------------------------------------------
(* The speaker.                                                            *)

(* Besides the kernel only apps beep, and only apps make system calls.     *)
InService == {"yield", "tone", "silence", "sound", "beep"}

CallersAreApps ==
  \A s \in Slots \ {0} :
    active[s] /\ Context(s).pc \in InService => Context(s).prog = "app"

SoundInv == CallersAreApps /\ NoOrphanTone /\ MutedIsSilent

(* Somebody who can end the tone.                                          *)
ToneOwned ==
  \/ Context(0).pc \in {"mute", "beep"}
  \/ \E s \in Slots : Runnable(s) /\ Context(s).prog = "app"

(* A step of task 0 that leaves the other tasks alone.                     *)
LEMMA KernelSound ==
  ASSUME SchedulerInv, SoundInv, UNCHANGED tableVars, current_task = 0,
         cpu'.prog = cpu.prog,
         cpu.pc \in {"mute", "beep"} => cpu'.pc = cpu.pc \/ ~tone',
         tone' => tone \/ cpu'.pc = "beep",
         sound_muted' => \/ cpu'.pc = "mute"
                         \/ ~tone'
                         \/ sound_muted /\ cpu.pc # "mute" /\ (tone' => tone)
  PROVE  SoundInv'
<1>1. /\ UNCHANGED <<active, paused, saved, current_task>>
      /\ 0 \in Slots /\ Context(0) = cpu /\ Context(0)' = cpu'
      /\ \A s \in Slots \ {0} : Context(s)' = Context(s)
  BY DEF tableVars, Context, SchedulerInv, TypeOK
<1>2. CallersAreApps'
  BY <1>1 DEF SoundInv, CallersAreApps
<1>3. NoOrphanTone'
  <2> SUFFICES ASSUME tone' PROVE ToneOwned'
    BY DEF NoOrphanTone, ToneOwned
  <2>1. CASE cpu'.pc = "beep"
    BY <1>1, <2>1 DEF ToneOwned
  <2>2. CASE cpu'.pc # "beep"
    <3>1. ToneOwned
      BY <2>2 DEF SoundInv, NoOrphanTone, ToneOwned
    <3>2. CASE cpu.pc \in {"mute", "beep"}
      BY <1>1, <3>2 DEF ToneOwned
    <3>3. CASE cpu.pc \notin {"mute", "beep"}
      <4>1. PICK s \in Slots : Runnable(s) /\ Context(s).prog = "app"
        BY <1>1, <3>1, <3>3 DEF ToneOwned
      <4>2. Runnable(s)' /\ Context(s)'.prog = "app"
        BY <1>1, <4>1 DEF Runnable
      <4> QED
        BY <4>2 DEF ToneOwned
    <3> QED
      BY <3>2, <3>3
  <2> QED
    BY <2>1, <2>2
<1>4. MutedIsSilent'
  BY <1>1 DEF SoundInv, MutedIsSilent
<1> QED
  BY <1>2, <1>3, <1>4 DEF SoundInv

(* A step of another task, which stays what it is; if it starts a tone it  *)
(* is an app and the sound is on.                                          *)
LEMMA TaskSound ==
  ASSUME SchedulerInv, SoundInv, UNCHANGED tableVars, current_task # 0,
         sound_muted' = sound_muted, cpu'.prog = cpu.prog,
         cpu'.pc \in InService => cpu.prog = "app",
         tone' => tone \/ (cpu.prog = "app" /\ ~sound_muted)
  PROVE  SoundInv'
<1>1. /\ UNCHANGED <<active, paused, saved, current_task>>
      /\ 0 \in Slots /\ current_task \in Slots
      /\ Context(current_task) = cpu /\ Context(current_task)' = cpu'
      /\ \A s \in Slots \ {current_task} : Context(s)' = Context(s)
  BY DEF tableVars, Context, SchedulerInv, TypeOK, Slots
<1>2. CallersAreApps'
  BY <1>1 DEF SoundInv, CallersAreApps
<1>3. Runnable(current_task)
  BY DEF SchedulerInv, RunningTaskIsRunnable, KernelIsTask0
<1>4. ToneOwned => ToneOwned'
  <2>1. \A s \in Slots : Runnable(s)' = Runnable(s) /\ Context(s)'.prog = Context(s).prog
    BY <1>1 DEF Runnable
  <2> QED
    BY <1>1, <2>1 DEF ToneOwned
<1>5. NoOrphanTone'
  <2> SUFFICES ASSUME tone' PROVE ToneOwned'
    BY DEF NoOrphanTone, ToneOwned
  <2>1. ToneOwned
    BY <1>1, <1>3 DEF SoundInv, NoOrphanTone, ToneOwned
  <2> QED
    BY <1>4, <2>1
<1>6. MutedIsSilent'
  BY <1>1 DEF SoundInv, MutedIsSilent
<1> QED
  BY <1>2, <1>5, <1>6 DEF SoundInv

(* The steps of the main loop that leave the table alone.                  *)
LEMMA MainLoopSound ==
  ASSUME SchedulerInv, SoundInv,
         \/ StartCommand \/ RunApp \/ ReadSector \/ ReadSectorFails \/ CheckSignature
         \/ ToggleMute \/ Silence \/ SleepMs \/ SleepEnds \/ TestBeep
  PROVE  SoundInv'
<1>0. cpu \in Contexts
  BY DEF SchedulerInv, TypeOK
<1>1. /\ UNCHANGED tableVars /\ current_task = 0 /\ cpu'.prog = cpu.prog
  BY <1>0 DEF StartCommand, RunApp, ReadSector, ReadSectorFails, CheckSignature,
         ToggleMute, Silence, SleepMs, SleepEnds, TestBeep, tableVars, InKernel,
         KernelTo, Contexts
<1>2. CASE StartCommand \/ RunApp \/ ReadSector \/ ReadSectorFails \/ CheckSignature
           \/ SleepMs \/ SleepEnds
  <2>1. cpu.pc \notin {"mute", "beep"} /\ tone' = tone /\ sound_muted' = sound_muted
    BY <1>2 DEF StartCommand, RunApp, ReadSector, ReadSectorFails, CheckSignature,
                SleepMs, SleepEnds, InKernel, soundVars
  <2> QED
    BY <1>1, <2>1, KernelSound
<1>3. CASE ToggleMute
  <2>1. /\ cpu.pc = "loop" /\ tone' = tone
        /\ sound_muted' => cpu'.pc = "mute"
    BY <1>0, <1>3 DEF ToggleMute, InKernel, KernelTo, Contexts
  <2> QED
    BY <1>1, <2>1, KernelSound
<1>4. CASE Silence
  <2>1. ~tone'
    BY <1>4 DEF Silence, PlayFreq
  <2> QED
    BY <1>1, <2>1, KernelSound
<1>5. CASE TestBeep
  <2>1. cpu.pc = "loop" /\ cpu'.pc = "beep" /\ ~sound_muted'
    BY <1>0, <1>5 DEF TestBeep, InKernel, KernelTo, Contexts
  <2> QED
    BY <1>1, <2>1, KernelSound
<1> QED
  BY <1>2, <1>3, <1>4, <1>5

(* A system call or the end of a beep, in the running task.                *)
LEMMA TaskStepSound ==
  ASSUME SchedulerInv, SoundInv,
         \/ BeepEnds \/ IdleHalts \/ WorkerYields \/ DispatchYield \/ YieldReturns \/ DispatchPlayFreq
         \/ DispatchPlaySound \/ AppStep
  PROVE  SoundInv'
<1>1. /\ current_task = 0 => cpu.pc \in KernelPCs
      /\ current_task # 0 => active[current_task] /\ Context(current_task) = cpu
  BY DEF SchedulerInv, TypeOK, KernelIsTask0, RunningTaskIsRunnable, Runnable, Context
<1>2. /\ UNCHANGED <<tableVars, sound_muted>> /\ cpu \in Contexts
      /\ cpu'.prog = cpu.prog
  BY ZenonT(60) DEF SchedulerInv, TypeOK, BeepEnds, IdleHalts, WorkerYields, DispatchYield, YieldReturns,
         DispatchPlayFreq, DispatchPlaySound, AppStep, Int80, AppDerails, SyscallReturn,
         Halted, loadVars, soundVars, tableVars, Contexts
<1>3. current_task \in Slots
  BY DEF SchedulerInv, TypeOK
<1>4. current_task # 0 /\ cpu.pc \in InService => cpu.prog = "app"
  BY <1>1, <1>3 DEF SoundInv, CallersAreApps
<1>5. CASE BeepEnds
  <2>1. ~tone' /\ cpu'.pc \in {"loop", "run"} /\ {"loop", "run"} \cap InService = {}
    BY <1>2, <1>5 DEF BeepEnds, Contexts, InService
  <2>2. CASE current_task = 0
    BY <1>2, <2>1, <2>2, KernelSound
  <2>3. CASE current_task # 0
    BY <1>2, <2>1, <2>3, TaskSound
  <2> QED
    BY <2>2, <2>3
<1>6. CASE IdleHalts \/ WorkerYields \/ DispatchYield \/ YieldReturns
  <2>1. /\ tone' = tone /\ cpu'.pc \in {"halt", "resting", "run"}
        /\ {"halt", "resting", "run"} \cap InService = {}
        /\ cpu.pc \in {"run", "yield", "return"}
    BY <1>2, <1>6 DEF IdleHalts, WorkerYields, DispatchYield, YieldReturns, Halted,
                      SyscallReturn, Running, soundVars, Contexts, InService
  <2>2. current_task # 0
    BY <1>1, <2>1 DEF KernelPCs
  <2> QED
    BY <1>2, <2>1, <2>2, TaskSound
<1>7. CASE AppStep
  <2>1. tone' = tone /\ cpu.prog = "app" /\ cpu.pc = "run"
    BY <1>7 DEF AppStep, Int80, AppDerails, Running, soundVars
  <2>2. current_task # 0
    BY <1>1, <2>1 DEF KernelPCs
  <2> QED
    BY <1>2, <2>1, <2>2, TaskSound
<1>8. CASE DispatchPlayFreq
  <2>1. /\ tone' => ~sound_muted
        /\ cpu'.pc = "run" /\ "run" \notin InService /\ cpu.pc \in {"tone", "silence"}
    BY <1>2, <1>8 DEF DispatchPlayFreq, PlayFreq, SyscallReturn, Contexts,
                      InService
  <2>2. current_task # 0
    BY <1>1, <2>1 DEF KernelPCs
  <2>3. cpu.prog = "app"
    BY <1>4, <2>1, <2>2 DEF InService
  <2> QED
    BY <1>2, <2>1, <2>2, <2>3, TaskSound
<1>9. CASE DispatchPlaySound
  <2>1. cpu.pc = "sound"
    BY <1>9 DEF DispatchPlaySound
  <2>2. current_task # 0 /\ cpu.prog = "app"
    BY <1>1, <1>4, <2>1 DEF KernelPCs, InService
  <2>3. tone' => tone \/ ~sound_muted
    BY <1>9 DEF DispatchPlaySound
  <2> QED
    BY <1>2, <2>2, <2>3, TaskSound
<1> QED
  BY <1>5, <1>6, <1>7, <1>8, <1>9

LEMMA TickSound ==
  ASSUME SchedulerInv, SoundInv, Tick
  PROVE  SoundInv'
<1>1. /\ UNCHANGED <<active, paused, tone, sound_muted>>
      /\ 0 \in Slots /\ current_task \in Slots /\ cpu \in Contexts
  BY DEF Tick, soundVars, SchedulerInv, TypeOK, Slots
<1>2. \A s \in Slots :
        /\ Context(s)'.prog = Context(s).prog
        /\ \/ Context(s)'.pc = Context(s).pc
           \/ Context(s).pc \in {"halt", "resting"} /\ Context(s)'.pc \in {"run", "return"}
  <2> TAKE s \in Slots
  <2>1. Context(s)' = IF s = current_task THEN PastHalt(cpu) ELSE Context(s)
    BY TickKeepsContexts DEF SchedulerInv
  <2>2. s = current_task => Context(s) = cpu
    BY DEF Context
  <2>3. PastHalt(cpu).prog = cpu.prog
    BY <1>1 DEF PastHalt, Contexts
  <2> QED
    BY <1>1, <2>1, <2>2, <2>3, PastHaltKeeps
<1>3. CallersAreApps'
  BY <1>1, <1>2 DEF SoundInv, CallersAreApps, InService
<1>4. NoOrphanTone'
  BY <1>1, <1>2 DEF SoundInv, NoOrphanTone, Runnable
<1>5. MutedIsSilent'
  BY <1>1, <1>2 DEF SoundInv, MutedIsSilent
<1> QED
  BY <1>3, <1>4, <1>5 DEF SoundInv

(* create_task and the boot code only add a task.                          *)
LEMMA SpawnSound ==
  ASSUME SchedulerInv, SoundInv, BootTask0 \/ CreateTask
  PROVE  SoundInv'
<1>1. /\ UNCHANGED <<current_task, tone, sound_muted>> /\ current_task = 0
      /\ 0 \in Slots /\ cpu \in Contexts /\ Context(0) = cpu /\ Context(0)' = cpu'
      /\ cpu.pc \in {"boot", "spawn"} /\ cpu'.pc \in {"spawn", "loop"}
      /\ cpu'.prog = cpu.prog
  BY DEF BootTask0, CreateTask, InKernel, KernelTo, soundVars, SchedulerInv, TypeOK,
         Context, Contexts
<1>2. \A s \in Slots \ {0} :
        \/ active'[s] = active[s] /\ paused'[s] = paused[s] /\ Context(s)' = Context(s)
        \/ ~active[s] /\ Context(s)'.pc = "run"
  <2>1. CASE BootTask0
    BY <1>1, <2>1 DEF BootTask0, SchedulerInv, TypeOK, Context
  <2>2. CASE CreateTask /\ ~\E id \in Slots : TakesSlot(id)
    BY <1>1, <2>2 DEF CreateTask, Context
  <2>3. CASE CreateTask /\ \E id \in Slots : TakesSlot(id)
    <3>1. PICK id \in Slots :
            /\ TakesSlot(id)
            /\ saved' = [saved EXCEPT ![id] = NewFrame(id)]
            /\ active' = [active EXCEPT ![id] = TRUE]
            /\ paused' = [paused EXCEPT ![id] = FALSE]
      BY <2>3 DEF CreateTask
    <3>2. ~active[id]
      BY <3>1 DEF TakesSlot, SchedulerInv, SlotsDense, TypeOK
    <3>3. active \in [Slots -> BOOLEAN] /\ paused \in [Slots -> BOOLEAN]
          /\ saved \in [Slots -> Contexts]
      BY DEF SchedulerInv, TypeOK
    <3> QED
      BY <1>1, <3>1, <3>2, <3>3 DEF Context, NewFrame
  <2> QED
    BY <2>1, <2>2, <2>3
<1>3. CallersAreApps'
  <2>1. "run" \notin InService
    BY DEF InService
  <2> QED
    BY <1>2, <2>1 DEF SoundInv, CallersAreApps
<1>4. NoOrphanTone'
  <2> SUFFICES ASSUME tone' PROVE ToneOwned'
    BY DEF NoOrphanTone, ToneOwned
  <2>1. PICK s \in Slots : Runnable(s) /\ Context(s).prog = "app"
    BY <1>1 DEF SoundInv, NoOrphanTone
  <2>2. Runnable(s)' /\ Context(s)'.prog = "app"
    <3>1. CASE s = 0
      BY <1>1, <2>1, <3>1 DEF Runnable, SchedulerInv, TypeOK, BootTask0, CreateTask, TakesSlot,
                              SlotsDense
    <3>2. CASE s # 0
      BY <1>2, <2>1, <3>2 DEF Runnable
    <3> QED
      BY <3>1, <3>2
  <2> QED
    BY <2>2 DEF ToneOwned
<1>5. MutedIsSilent'
  BY <1>1 DEF SoundInv, MutedIsSilent
<1> QED
  BY <1>3, <1>4, <1>5 DEF SoundInv

(* A task that is paused or closed is followed by play_freq(0), one that   *)
(* is resumed was not counted on.                                          *)
LEMMA ButtonsSound ==
  ASSUME SchedulerInv, SoundInv, NEW t \in Slots, TogglePause(t) \/ CloseTask(t)
  PROVE  SoundInv'
<1>1. /\ UNCHANGED <<current_task, saved, tone, sound_muted>> /\ current_task = 0
      /\ 0 \in Slots /\ cpu \in Contexts /\ Context(0) = cpu /\ Context(0)' = cpu'
      /\ cpu.pc = "loop" /\ cpu'.pc \in {"mute", "loop"} /\ cpu'.prog = cpu.prog
      /\ \A s \in Slots \ {0} : Context(s)' = Context(s)
  BY DEF TogglePause, CloseTask, InKernel, KernelTo, SilenceNext, soundVars, SchedulerInv,
         TypeOK, Context, Contexts
<1>2. /\ active \in [Slots -> BOOLEAN] /\ paused \in [Slots -> BOOLEAN]
      /\ cpu'.pc = "loop" => /\ active' = active
                             /\ ~paused'[t] /\ \A s \in Slots \ {t} : paused'[s] = paused[s]
      /\ \A s \in Slots : active'[s] => active[s]
  BY <1>1 DEF TogglePause, CloseTask, KernelTo, SilenceNext, SchedulerInv, TypeOK, Contexts
<1>3. CallersAreApps'
  BY <1>1, <1>2 DEF SoundInv, CallersAreApps
<1>4. NoOrphanTone'
  <2> SUFFICES ASSUME tone', cpu'.pc = "loop" PROVE ToneOwned'
    BY <1>1 DEF NoOrphanTone, ToneOwned
  <2>1. PICK s \in Slots : Runnable(s) /\ Context(s).prog = "app"
    BY <1>1 DEF SoundInv, NoOrphanTone
  <2>2. Runnable(s)' /\ Context(s)'.prog = "app"
    BY <1>1, <1>2, <2>1 DEF Runnable
  <2> QED
    BY <2>2 DEF ToneOwned
<1>5. MutedIsSilent'
  BY <1>1 DEF SoundInv, MutedIsSilent
<1> QED
  BY <1>3, <1>4, <1>5 DEF SoundInv

LEMMA SoundStep == SchedulerInv /\ SoundInv /\ [Next]_vars => SoundInv'
<1> SUFFICES ASSUME SchedulerInv, SoundInv, [Next]_vars PROVE SoundInv'
  OBVIOUS
<1>1. CASE UNCHANGED vars
  BY <1>1 DEF vars, tableVars, soundVars, SoundInv, CallersAreApps, NoOrphanTone,
              MutedIsSilent, Context, Runnable
<1> QED
  BY <1>1, TickSound, SpawnSound, ButtonsSound, MainLoopSound, TaskStepSound
     DEF Next, UserRequest, Execution

(* No tone is left behind by a task that was paused or closed, and none    *)
(* sounds while the desktop is muted: play_freq and play_sound             *)
(* (kernel.cpp:1215-1246) and the buttons (kernel_main.cpp:3019 and        *)
(* 3083-3100) in any interleaving with the timer.                          *)
THEOREM TonesHaveOwners == Spec => []TonesBelong
<1>1. Init => SoundInv
  BY DEF Init, SoundInv, CallersAreApps, NoOrphanTone, MutedIsSilent
<1>2. SoundInv => TonesBelong
  BY DEF SoundInv, TonesBelong
<1> QED
  BY <1>1, <1>2, SoundStep, SchedulerInvariant, PTL DEF Spec

-----------------------------------------------------------------------------
(* RoundRobin.                                                             *)

USE MaxTasksAssumption

(* The running task's slot, counted round from the waiting task s: the     *)
(* loop of schedule has RoundFrom(s) - s visits left to make after s.      *)
RoundFrom(s) == IF s > current_task THEN num_tasks + current_task ELSE current_task

(* Every pass leaves one visit fewer in which to be passed over.           *)
WaitingInv ==
  /\ waited \in [Slots -> Nat]
  /\ waited[current_task] = 0
  /\ \A s \in Slots : ~Runnable(s) => waited[s] = 0
  /\ \A s \in Slots \ {current_task} :
       Runnable(s) => waited[s] + s <= RoundFrom(s)

RRInv == SchedulerInv /\ WaitingInv

LEMMA RunnableBelow ==
  ASSUME SchedulerInv
  PROVE  /\ \A s \in Slots : Runnable(s) => s < num_tasks
         /\ num_tasks \in 1 .. MaxTasks /\ current_task \in 0 .. num_tasks - 1
         /\ Slots = 0 .. MaxTasks - 1
         /\ active \in [Slots -> BOOLEAN] /\ paused \in [Slots -> BOOLEAN]
BY DEF SchedulerInv, TypeOK, SlotsDense, Runnable, Slots

(* Which steps switch tasks, and which change the table.                   *)
LEMMA OnlyTicksSwitch ==
  ASSUME SchedulerInv, UserRequest \/ Execution \/ AppStep
  PROVE  /\ current_task' = current_task
         /\ \/ UNCHANGED <<active, paused, num_tasks>>
            \/ BootTask0
            \/ CreateTask
            \/ \E t \in Slots : TogglePause(t) \/ CloseTask(t)
BY DEF UserRequest, Execution, AppStep, tableVars, BootTask0, CreateTask,
       StartCommand, RunApp, ReadSector, ReadSectorFails, CheckSignature,
       TogglePause, CloseTask, ToggleMute, Silence, SleepMs, SleepEnds,
       TestBeep, BeepEnds, IdleHalts, WorkerYields, Int80, DispatchYield, YieldReturns,
       DispatchPlayFreq, DispatchPlaySound, AppDerails

LEMMA TableGrowsFromTask0 ==
  ASSUME SchedulerInv, UserRequest \/ Execution \/ AppStep
  PROVE  \/ num_tasks' = num_tasks
         \/ current_task = 0 /\ num_tasks' >= num_tasks
<1>1. num_tasks \in 1 .. MaxTasks
  BY RunnableBelow
<1>2. CASE CreateTask
  <2>1. CASE \E id \in Slots : TakesSlot(id)
    <3>1. PICK id \in Slots : num_tasks' = IF id >= num_tasks THEN id + 1 ELSE num_tasks
      BY <1>2, <2>1 DEF CreateTask
    <3> QED
      BY <1>1, <1>2, <3>1 DEF CreateTask, InKernel, Slots
  <2>2. CASE ~\E id \in Slots : TakesSlot(id)
    BY <1>2, <2>2 DEF CreateTask
  <2> QED
    BY <2>1, <2>2
<1>3. CASE ~CreateTask
  BY <1>3, OnlyTicksSwitch DEF BootTask0, TogglePause, CloseTask
<1> QED
  BY <1>2, <1>3

LEMMA CountedTickWaits ==
  ASSUME RRInv, CountedTick
  PROVE  WaitingInv'
<1>1. PICK next \in Slots : Picked(next) /\ current_task' = next
  BY DEF CountedTick, Tick
<1>2. PICK k \in 1 .. num_tasks :
        next = Visit(k) /\ \A j \in 1 .. k - 1 : ~Runnable(Visit(j))
  BY <1>1 DEF Picked
<1>3. UNCHANGED <<active, paused, num_tasks>>
  BY DEF CountedTick, Tick
<1>4. \A s \in Slots : Runnable(s)' = Runnable(s)
  BY <1>3 DEF Runnable
<1>5. waited' = [s \in Slots |-> IF Runnable(s) /\ s # next THEN waited[s] + 1 ELSE 0]
  BY <1>1 DEF CountedTick
<1>6. /\ num_tasks \in 1 .. MaxTasks /\ current_task \in 0 .. num_tasks - 1
      /\ Slots = 0 .. MaxTasks - 1
      /\ \A s \in Slots : Runnable(s) => s < num_tasks
  BY RunnableBelow DEF RRInv
<1>7. ASSUME NEW s \in Slots \ {next}, Runnable(s)
      PROVE  waited'[s] + s <= RoundFrom(s)'
  <2>1. waited'[s] = waited[s] + 1 /\ waited[s] \in Nat /\ s \in 0 .. num_tasks - 1
    BY <1>5, <1>6, <1>7 DEF RRInv, WaitingInv
  <2>2. RoundFrom(s)' = IF s > next THEN num_tasks + next ELSE next
    BY <1>1, <1>3 DEF RoundFrom
  <2>3. waited[s] + 1 + s <= IF s > next THEN num_tasks + next ELSE next
    <3>1. CASE s = current_task
      BY <1>2, <1>6, <1>7, <2>1, <3>1 DEF RRInv, WaitingInv, Visit, Wrap
    <3>2. CASE s # current_task
      <4> DEFINE d == IF s > current_task THEN s - current_task
                                          ELSE s + num_tasks - current_task
      <4>1. waited[s] + s <= RoundFrom(s)
        BY <1>7, <3>2 DEF RRInv, WaitingInv
      <4>2. d \in 1 .. num_tasks /\ Visit(d) = s
        BY <1>6, <2>1, <3>2 DEF Visit, Wrap
      <4>3. d > k
        BY <1>2, <1>7, <4>2
      <4> QED
        BY <1>2, <1>6, <2>1, <3>2, <4>1, <4>3 DEF RoundFrom, Visit, Wrap
    <3> QED
      BY <3>1, <3>2
  <2> QED
    BY <2>1, <2>2, <2>3
<1>8. waited' \in [Slots -> Nat] /\ waited'[next] = 0
  BY <1>1, <1>5 DEF RRInv, WaitingInv
<1>9. \A s \in Slots : ~Runnable(s) => waited'[s] = 0
  BY <1>5
<1> QED
  BY <1>1, <1>3, <1>4, <1>7, <1>8, <1>9 DEF WaitingInv

(* Where a slot stands in the round while the table grows to n slots.      *)
LEMMA RoundGrows ==
  ASSUME NEW n \in Nat, NEW m \in Nat, NEW c \in Nat, NEW s \in Nat, NEW w \in Nat,
         n = m \/ (c = 0 /\ n >= m), w + s <= IF s > c THEN m + c ELSE c
  PROVE  w + s <= IF s > c THEN n + c ELSE c
OBVIOUS

LEMMA NewcomerFits ==
  ASSUME NEW n \in Nat, NEW c \in Nat, NEW s \in Nat, s < n, s # c
  PROVE  0 + s <= IF s > c THEN n + c ELSE c
OBVIOUS

LEMMA OtherStepWaits ==
  ASSUME RRInv, SchedulerInv', OtherStep
  PROVE  WaitingInv'
<1>1. current_task' = current_task
  BY OnlyTicksSwitch DEF OtherStep, RRInv
<1>2. \/ num_tasks' = num_tasks
      \/ current_task = 0 /\ num_tasks' >= num_tasks
  BY TableGrowsFromTask0 DEF OtherStep, RRInv
<1>3. /\ num_tasks \in 1 .. MaxTasks /\ current_task \in 0 .. num_tasks - 1
      /\ Slots = 0 .. MaxTasks - 1
  BY RunnableBelow DEF RRInv
<1>8. num_tasks' \in 1 .. MaxTasks
  BY DEF SchedulerInv, TypeOK
<1>11. \A s \in Slots : active'[s] => s < num_tasks'
  BY <1>3, <1>8 DEF SchedulerInv, SlotsDense, Slots
<1>4. waited \in [Slots -> Nat] /\ waited[current_task] = 0
  BY DEF RRInv, WaitingInv
<1>10. waited' = [s \in Slots |-> IF Runnable(s)' THEN waited[s] ELSE 0]
  BY DEF OtherStep
<1>9. \A s \in Slots : waited'[s] = IF Runnable(s)' THEN waited[s] ELSE 0
  BY Zenon, <1>10
<1>5. ASSUME NEW s \in Slots \ {current_task}, Runnable(s)'
      PROVE  waited'[s] + s <= RoundFrom(s)'
  <2>1. waited'[s] = waited[s] /\ active'[s]
    BY <1>5, <1>9 DEF Runnable
  <2>2. s \in Nat /\ s < num_tasks' /\ num_tasks' \in Nat /\ num_tasks \in Nat
        /\ current_task \in Nat /\ s # current_task
    BY <1>3, <1>5, <1>8, <1>11, <2>1 DEF Slots
  <2>3. waited[s] \in Nat
    BY <1>4, <1>5
  <2>4. RoundFrom(s)' = IF s > current_task THEN num_tasks' + current_task
                                            ELSE current_task
    BY <1>1 DEF RoundFrom
  <2>5. CASE Runnable(s)
    <3>1. waited[s] + s <= RoundFrom(s)
      BY <1>5, <2>5 DEF RRInv, WaitingInv
    <3> QED
      BY <1>2, <2>1, <2>2, <2>3, <2>4, <3>1, RoundGrows DEF RoundFrom
  <2>6. CASE ~Runnable(s)
    <3>1. waited[s] = 0
      BY <1>5, <2>6 DEF RRInv, WaitingInv
    <3> QED
      BY <2>1, <2>2, <2>4, <3>1, NewcomerFits
  <2> QED
    BY <2>5, <2>6
<1>6. waited' \in [Slots -> Nat] /\ waited'[current_task] = 0
  <2>1. \A s \in Slots : waited'[s] \in {waited[s], 0}
    BY <1>9
  <2>2. waited' = [s \in Slots |-> waited'[s]]
    BY Zenon, <1>9, <1>10
  <2>3. \A s \in Slots : waited'[s] \in Nat
    BY <1>4, <2>1
  <2>4. waited'[current_task] = 0
    <3>1. current_task \in Slots
      BY <1>3 DEF Slots
    <3> QED
      BY <1>4, <2>1, <3>1
  <2> QED
    BY <2>2, <2>3, <2>4
<1>7. \A s \in Slots : ~Runnable(s)' => waited'[s] = 0
  BY <1>9
<1> QED
  BY <1>1, <1>5, <1>6, <1>7 DEF WaitingInv

LEMMA RRInitEstablishes == RRInit => RRInv
<1> SUFFICES ASSUME RRInit PROVE RRInv
  OBVIOUS
<1>1. SchedulerInv
  BY InitEstablishes DEF RRInit
<1>2. waited = [s \in Slots |-> 0] /\ \A s \in Slots : ~Runnable(s)
  BY DEF RRInit, Init, Runnable
<1>3. current_task \in Slots
  BY <1>1 DEF SchedulerInv, TypeOK
<1> QED
  BY <1>1, <1>2, <1>3 DEF RRInv, WaitingInv

LEMMA RRStepIsStep == RRNext => Next
BY DEF RRNext, CountedTick, OtherStep, Next

LEMMA RRNextPreserves == RRInv /\ [RRNext]_rrVars => RRInv'
<1> SUFFICES ASSUME RRInv, [RRNext]_rrVars PROVE RRInv'
  OBVIOUS
<1>1. SchedulerInv'
  BY NextPreserves, RRStepIsStep DEF RRInv, rrVars
<1>2. CASE CountedTick
  BY <1>1, <1>2, CountedTickWaits DEF RRInv
<1>3. CASE OtherStep
  BY <1>1, <1>3, OtherStepWaits DEF RRInv
<1>4. CASE UNCHANGED rrVars
  BY <1>1, <1>4 DEF RRInv, WaitingInv, rrVars, vars, tableVars, RoundFrom, Runnable
<1> QED
  BY <1>2, <1>3, <1>4 DEF RRNext

(* Nobody is passed over num_tasks times in a row: the loop of schedule    *)
(* (kernel_main.cpp:247-253) reaches every runnable slot before it comes   *)
(* back, and slots are only added while task 0 runs, behind all others.    *)
THEOREM BypassIsBounded == RRSpec => []BoundedBypass
<1>1. RRInv => BoundedBypass
  <2> SUFFICES ASSUME RRInv, NEW s \in Slots PROVE waited[s] < num_tasks
    BY DEF BoundedBypass
  <2>1. /\ num_tasks \in 1 .. MaxTasks /\ current_task \in 0 .. num_tasks - 1
        /\ s \in Nat /\ waited[s] \in Nat
    BY RunnableBelow DEF RRInv, WaitingInv
  <2>2. CASE s = current_task \/ ~Runnable(s)
    BY <2>1, <2>2 DEF RRInv, WaitingInv
  <2>3. CASE s # current_task /\ Runnable(s)
    <3>1. waited[s] + s <= RoundFrom(s)
      BY <2>3 DEF RRInv, WaitingInv
    <3> QED
      BY <2>1, <2>3, <3>1 DEF RoundFrom
  <2> QED
    BY <2>2, <2>3
<1> QED
  BY <1>1, RRInitEstablishes, RRNextPreserves, PTL DEF RRSpec

-----------------------------------------------------------------------------
(* Refinement: each step of the scheduler is a step of CpuSharing or none. *)
Ready == {0} \cup {s \in Slots : Runnable(s)}

LEMMA BelowPatience ==
  ASSUME NEW w \in Nat, NEW n \in Nat, NEW m \in Nat, w < n, n <= m
  PROVE  w <= m - 1
OBVIOUS

LEMMA TickDispatches ==
  ASSUME RRInv, RRInv', BoundedBypass', CountedTick
  PROVE  Sharing!Dispatch
<1>1. PICK next \in Slots : Picked(next) /\ current_task' = next
  BY DEF CountedTick, Tick
<1>2. Runnable(next) /\ cpu.ie
  BY <1>1, PickedIsRunnable DEF RRInv, CountedTick, Tick
<1>3. Runnable(0)
  BY <1>2 DEF RRInv, SchedulerInv, KernelIsTask0, Runnable
<1>4. UNCHANGED <<active, paused>>
  BY DEF CountedTick, Tick
<1>5. Ready' = Ready
  BY <1>4 DEF Ready, Runnable
<1>6. waited' = [t \in Slots |-> IF t \in Ready \ {current_task'} THEN waited[t] + 1 ELSE 0]
  <2>1. \A t \in Slots : (Runnable(t) /\ t # current_task') <=> t \in Ready \ {current_task'}
    BY <1>3 DEF Ready
  <2>2. waited' = [t \in Slots |->
                     IF Runnable(t) /\ t # current_task' THEN waited[t] + 1 ELSE 0]
    BY DEF CountedTick
  <2> QED
    BY <2>1, <2>2
<1>7. \A t \in Slots : waited'[t] <= MaxTasks - 1
  <2> SUFFICES ASSUME NEW t \in Slots PROVE waited'[t] <= MaxTasks - 1
    OBVIOUS
  <2>1. waited'[t] \in Nat /\ waited'[t] < num_tasks'
    BY DEF RRInv, WaitingInv, BoundedBypass
  <2>2. num_tasks' \in Nat /\ num_tasks' <= MaxTasks
    BY DEF RRInv, SchedulerInv, TypeOK
  <2> QED
    BY <2>1, <2>2, BelowPatience
<1>8. current_task' \in Ready
  BY <1>1, <1>2 DEF Ready
<1> QED
  BY <1>5, <1>6, <1>7, <1>8 DEF Sharing!Dispatch, Ready

(* What a step other than a tick does to the waiting times.                *)
LEMMA OtherStepForgets ==
  ASSUME RRInv, OtherStep
  PROVE  /\ waited' \in [Slots -> Nat]
         /\ \A s \in Slots : waited'[s] = IF Runnable(s)' THEN waited[s] ELSE 0
         /\ \A s \in Slots : ~Runnable(s) => waited[s] = 0
         /\ waited \in [Slots -> Nat]
<1>1. waited \in [Slots -> Nat] /\ \A s \in Slots : ~Runnable(s) => waited[s] = 0
  BY DEF RRInv, WaitingInv
<1>2. waited' = [s \in Slots |-> IF Runnable(s)' THEN waited[s] ELSE 0]
  BY DEF OtherStep
<1>3. \A s \in Slots : waited'[s] = IF Runnable(s)' THEN waited[s] ELSE 0
  BY Zenon, <1>2
<1>4. waited' = [s \in Slots |-> waited'[s]]
  BY Zenon, <1>2, <1>3
<1>5. \A s \in Slots : waited'[s] \in {waited[s], 0}
  BY <1>3
<1>6. \A s \in Slots : waited'[s] \in Nat
  BY <1>1, <1>5
<1> QED
  BY <1>1, <1>3, <1>4, <1>6

(* Readiness of all but t is untouched, and t becomes ready or stops.      *)
LEMMA OneTaskChanges ==
  ASSUME RRInv, OtherStep, current_task = 0, NEW t \in Slots, t # 0,
         \A s \in Slots \ {0, t} : Runnable(s)' = Runnable(s),
         Runnable(0), Runnable(0)', Runnable(t)' => ~Runnable(t)
  PROVE  Sharing!Wakes(t) \/ Sharing!Stops(t)
<1>1. /\ waited' \in [Slots -> Nat] /\ waited \in [Slots -> Nat]
      /\ \A s \in Slots : waited'[s] = IF Runnable(s)' THEN waited[s] ELSE 0
      /\ \A s \in Slots : ~Runnable(s) => waited[s] = 0
  BY OtherStepForgets
<1>2. current_task' = current_task
  BY OnlyTicksSwitch DEF OtherStep, RRInv
<1>3. CASE Runnable(t)'
  <2>1. Ready' = Ready \cup {t} /\ t \notin Ready
    BY <1>3 DEF Ready
  <2>2. \A s \in Slots : waited'[s] = waited[s]
    <3> SUFFICES ASSUME NEW s \in Slots PROVE waited'[s] = waited[s]
      OBVIOUS
    <3>1. CASE s \in {0, t}
      BY <1>1, <1>3, <3>1
    <3>2. CASE s \notin {0, t}
      BY <1>1, <3>2
    <3> QED
      BY <3>1, <3>2
  <2>3. waited' = waited
    BY <1>1, <2>2
  <2> QED
    BY <1>2, <2>1, <2>3 DEF Sharing!Wakes, Ready
<1>4. CASE ~Runnable(t)'
  <2>1. Ready' = Ready \ {t}
    BY <1>4 DEF Ready
  <2>2. \A s \in Slots : waited'[s] = [waited EXCEPT ![t] = 0][s]
    <3> SUFFICES ASSUME NEW s \in Slots
                 PROVE  waited'[s] = [waited EXCEPT ![t] = 0][s]
      OBVIOUS
    <3>1. CASE s = t
      BY <1>1, <1>4, <3>1
    <3>2. CASE s # t
      <4>1. waited'[s] = waited[s]
        BY <1>1, <3>2
      <4> QED
        BY <1>1, <3>2, <4>1
    <3> QED
      BY <3>1, <3>2
  <2>3. waited' = [waited EXCEPT ![t] = 0]
    BY <1>1, <2>2
  <2> QED
    BY <1>2, <2>1, <2>3 DEF Sharing!Stops, Ready
<1> QED
  BY <1>3, <1>4

(* A step that changes nobody's readiness, or only main's at boot.         *)
LEMMA NobodyChanges ==
  ASSUME RRInv, OtherStep,
         \A s \in Slots \ {0} : Runnable(s)' = Runnable(s),
         Runnable(0) => Runnable(0)'
  PROVE  UNCHANGED Sharing!sharingVars
<1>1. /\ waited' \in [Slots -> Nat] /\ waited \in [Slots -> Nat]
      /\ \A s \in Slots : waited'[s] = IF Runnable(s)' THEN waited[s] ELSE 0
      /\ \A s \in Slots : ~Runnable(s) => waited[s] = 0
  BY OtherStepForgets
<1>2. current_task' = current_task
  BY OnlyTicksSwitch DEF OtherStep, RRInv
<1>3. Ready' = Ready
  BY DEF Ready
<1>4. \A s \in Slots : waited'[s] = waited[s]
  <2> SUFFICES ASSUME NEW s \in Slots PROVE waited'[s] = waited[s]
    OBVIOUS
  <2>1. CASE s = 0
    BY <1>1, <2>1
  <2>2. CASE s # 0
    BY <1>1, <2>2
  <2> QED
    BY <2>1, <2>2
<1>5. waited' = waited
  BY <1>1, <1>4
<1> QED
  BY <1>2, <1>3, <1>5 DEF Sharing!sharingVars, Ready

LEMMA OtherStepShares ==
  ASSUME RRInv, RRInv', OtherStep
  PROVE  \/ \E t \in Slots : Sharing!Wakes(t) \/ Sharing!Stops(t)
         \/ UNCHANGED Sharing!sharingVars
<1>1. UserRequest \/ Execution \/ AppStep
  BY DEF OtherStep
<1>2. /\ active \in [Slots -> BOOLEAN] /\ paused \in [Slots -> BOOLEAN]
      /\ ~paused[0] /\ ~paused'[0] /\ 0 \in Slots
      /\ active[0] <=> ~Booting
  BY SMTT(30) DEF RRInv, SchedulerInv, TypeOK, KernelIsTask0, Slots
<1>3. CASE UNCHANGED <<active, paused, num_tasks>>
  <2>1. \A s \in Slots : Runnable(s)' = Runnable(s)
    BY <1>3 DEF Runnable
  <2> QED
    BY <1>2, <2>1, NobodyChanges
<1>4. CASE BootTask0
  <2>1. active' = [active EXCEPT ![0] = TRUE] /\ paused' = paused
    BY <1>4 DEF BootTask0
  <2>2. Runnable(0)' /\ \A s \in Slots \ {0} : Runnable(s)' = Runnable(s)
    BY <1>2, <2>1 DEF Runnable
  <2> QED
    BY <2>2, NobodyChanges
<1>5. CASE CreateTask
  <2>1. CASE ~\E id \in Slots : TakesSlot(id)
    <3>1. \A s \in Slots : Runnable(s)' = Runnable(s)
      BY <1>5, <2>1 DEF Runnable, CreateTask
    <3> QED
      BY <1>2, <3>1, NobodyChanges
  <2>2. CASE \E id \in Slots : TakesSlot(id)
    <3>1. PICK id \in Slots : /\ TakesSlot(id)
                              /\ active' = [active EXCEPT ![id] = TRUE]
                              /\ paused' = [paused EXCEPT ![id] = FALSE]
      BY <1>5, <2>2 DEF CreateTask
    <3>2. id # 0 /\ ~active[id]
      BY <3>1 DEF TakesSlot, RRInv, SchedulerInv, SlotsDense, TypeOK
    <3>3. current_task = 0 /\ cpu.pc = "spawn"
      BY <1>5 DEF CreateTask, InKernel
    <3>4. Runnable(0) /\ Runnable(0)'
      BY <1>2, <3>1, <3>2, <3>3 DEF Runnable, Booting, Context
    <3>5. /\ ~Runnable(id) /\ Runnable(id)'
          /\ \A s \in Slots \ {0, id} : Runnable(s)' = Runnable(s)
      BY <1>2, <3>1, <3>2 DEF Runnable
    <3>6. Sharing!Wakes(id) \/ Sharing!Stops(id)
      BY <3>2, <3>3, <3>4, <3>5, OneTaskChanges
    <3> QED
      BY <3>6
  <2> QED
    BY <2>1, <2>2
<1>6. CASE \E t \in Slots : TogglePause(t) \/ CloseTask(t)
  <2>1. PICK t \in Slots : TogglePause(t) \/ CloseTask(t)
    BY <1>6
  <2>2. t # 0 /\ current_task = 0 /\ active[t] /\ cpu.pc = "loop"
    BY <2>1 DEF TogglePause, CloseTask, InKernel, Slots
  <2>3. \A s \in Slots \ {t} : active'[s] = active[s] /\ paused'[s] = paused[s]
    BY <1>2, <2>1 DEF TogglePause, CloseTask
  <2>4. Runnable(0) /\ Runnable(0)'
    BY <1>2, <2>2, <2>3 DEF Runnable, Booting, Context
  <2>5. \A s \in Slots \ {0, t} : Runnable(s)' = Runnable(s)
    BY <2>3 DEF Runnable
  <2>6. Runnable(t)' => ~Runnable(t)
    BY <1>2, <2>1 DEF Runnable, TogglePause, CloseTask
  <2>7. Sharing!Wakes(t) \/ Sharing!Stops(t)
    BY <2>2, <2>4, <2>5, <2>6, OneTaskChanges
  <2> QED
    BY <2>7
<1> QED
  BY <1>1, <1>3, <1>4, <1>5, <1>6, OnlyTicksSwitch DEF RRInv

(* Every behaviour of the scheduler, with the readiness of its slots and   *)
(* the running task read off its state, is one of CpuSharing.              *)
THEOREM SharesTheProcessor == RRSpec => Sharing!Spec
<1>1. RRInit => Sharing!Init
  <2> SUFFICES ASSUME RRInit PROVE Sharing!Init
    OBVIOUS
  <2>1. \A s \in Slots : ~Runnable(s)
    BY DEF RRInit, Init, Runnable
  <2> QED
    BY <2>1 DEF RRInit, Init, Sharing!Init
<1>2. RRInv /\ RRInv' /\ BoundedBypass' /\ [RRNext]_rrVars
        => [Sharing!Next]_(Sharing!sharingVars)
  <2> SUFFICES ASSUME RRInv, RRInv', BoundedBypass', [RRNext]_rrVars
               PROVE  [Sharing!Next]_(Sharing!sharingVars)
    OBVIOUS
  <2>1. CASE CountedTick
    BY <2>1, TickDispatches DEF Sharing!Next
  <2>2. CASE OtherStep
    BY <2>2, OtherStepShares DEF Sharing!Next
  <2>3. CASE UNCHANGED rrVars
    BY <2>3 DEF rrVars, vars, tableVars, Sharing!sharingVars, Runnable
  <2> QED
    BY <2>1, <2>2, <2>3 DEF RRNext
<1>3. RRSpec => []RRInv
  BY RRInitEstablishes, RRNextPreserves, PTL DEF RRSpec
<1> QED
  BY <1>1, <1>2, <1>3, BypassIsBounded, PTL DEF RRSpec, Sharing!Spec
=============================================================================
