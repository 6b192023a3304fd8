--------------------------- MODULE TaskScheduler ---------------------------
(***************************************************************************)
(* The preemptive round-robin scheduler of OS2 (kernel_main.cpp) and       *)
(* everything that changes its state: the timer interrupt, create_task,    *)
(* the task manager's pause and close buttons, the START and RUNAPP        *)
(* commands with the loading of an app, sleep_ms, the test beep and the    *)
(* system calls of an app that yield or drive the speaker.                 *)
(*                                                                         *)
(* One processor executes the context cpu.  A timer interrupt may arrive   *)
(* between any two steps while the interrupt flag cpu.ie is set; the code  *)
(* of the main loop runs as task 0 and is preempted like any other task.   *)
(* An atomic step of the model is either a stretch of code whose only      *)
(* accesses to shared state happen with interrupts off, or one that makes  *)
(* a single access to shared state.                                        *)
(***************************************************************************)
EXTENDS Naturals

CONSTANTS
  MaxTasks,         (* length of tasks[]; 4 in the code                    *)
  Sectors,          (* sectors load_and_run_bin reads; 10 in the code      *)
  SleepTicks,       (* ticks a sleep_ms of the model lasts                 *)
  MaxSpawns,        (* bound: tasks created in a behaviour                 *)
  Calls,            (* the system calls apps make                          *)
  ReloadWhileLive   (* may the user load an app while another one exists?  *)

ASSUME MaxTasksAssumption   == MaxTasks \in Nat /\ MaxTasks >= 2
ASSUME SectorsAssumption    == Sectors \in Nat \ {0}
ASSUME SleepTicksAssumption == SleepTicks \in Nat \ {0}
ASSUME MaxSpawnsAssumption  == MaxSpawns \in Nat
ASSUME CallsAssumption      == Calls \subseteq {"yield", "tone", "silence", "sound"}
ASSUME ReloadAssumption     == ReloadWhileLive \in BOOLEAN

VARIABLES
  active,        (* tasks[].active                                         *)
  paused,        (* tasks[].paused                                         *)
  saved,         (* the interrupt frame at tasks[].rsp                     *)
  num_tasks,
  current_task,
  cpu,           (* the context the processor executes                     *)
  serial,        (* which create_task call each slot stems from            *)
  spawned,       (* create_task calls so far                               *)
  request,       (* what task 0 is about to pass to create_task            *)
  sector,        (* sectors load_and_run_bin has read                      *)
  ram,           (* what lies in the app's memory at 0x01100000            *)
  sleep_left,    (* per task: ticks until its sleep_ms target is reached   *)
  tone,          (* is the speaker (or the HDA stream) sounding?           *)
  sound_muted

tableVars == <<active, paused, saved, num_tasks, current_task, serial, spawned>>
loadVars  == <<request, sector, ram>>
soundVars == <<tone, sound_muted>>
vars      == <<tableVars, cpu, loadVars, sleep_left, soundVars>>

Slots    == 0 .. MaxTasks - 1
Programs == {"kernel", "idle", "worker", "app"}

(* Where a context stands.  A halted one sits on the hlt of yield or of    *)
(* the idle task; "sleep" and "beep" are the hlt loop of sleep_ms, called  *)
(* directly or by play_sound; a system call's name is its dispatcher.      *)
(* "resting" is the hlt of a yield inside the dispatcher, "return" what is *)
(* left of that call behind it, interrupts on.                             *)
KernelPCs == {"boot", "loop", "spawn", "load", "check", "mute", "sleep", "beep"}
TaskPCs   == {"run", "halt", "beep", "resting", "return", "wild"} \cup Calls

Contexts == [slot : Slots, serial : Nat, prog : Programs \cup {"none"},
             pc : KernelPCs \cup TaskPCs \cup {"none"}, ie : BOOLEAN]

EmptyFrame(s) ==
  [slot |-> s, serial |-> 0, prog |-> "none", pc |-> "none", ie |-> FALSE]

BootContext ==
  [slot |-> 0, serial |-> 0, prog |-> "kernel", pc |-> "boot", ie |-> FALSE]

TypeOK ==
  /\ active \in [Slots -> BOOLEAN]
  /\ paused \in [Slots -> BOOLEAN]
  /\ saved \in [Slots -> Contexts]
  /\ num_tasks \in 1 .. MaxTasks
  /\ current_task \in Slots
  /\ cpu \in Contexts
  /\ serial \in [Slots -> Nat]
  /\ spawned \in Nat
  /\ request \in {"none", "idle", "worker", "app"}
  /\ sector \in 0 .. Sectors
  /\ ram \in {"junk", "blank", "app", "foreign"}
  /\ sleep_left \in [Slots -> 0 .. SleepTicks]
  /\ tone \in BOOLEAN
  /\ sound_muted \in BOOLEAN

Init ==
  /\ active = [s \in Slots |-> FALSE]
  /\ paused = [s \in Slots |-> FALSE]
  /\ saved = [s \in Slots |-> EmptyFrame(s)]
  /\ num_tasks = 1
  /\ current_task = 0
  /\ cpu = BootContext
  /\ serial = [s \in Slots |-> 0]
  /\ spawned = 0
  /\ request = "none"
  /\ sector = 0
  /\ ram = "junk"
  /\ sleep_left = [s \in Slots |-> 0]
  /\ tone = FALSE
  /\ sound_muted = FALSE

(***************************************************************************)
(* The timer interrupt: pit_isr saves the running context and calls        *)
(* schedule, which walks the slots from the one after current_task.        *)
(***************************************************************************)

Runnable(s) == active[s] /\ ~paused[s]

SkipLast(i) == IF i >= num_tasks - 1 THEN 0 ELSE i

Wrap(i) == IF i >= num_tasks THEN i - num_tasks ELSE i

(* The k-th slot the loop of schedule visits; the num_tasks-th one is      *)
(* current_task again.                                                     *)
Visit(k) == Wrap(current_task + k)

AnyActivePicked(next) ==
  \E k \in 1 .. num_tasks :
    /\ next = Visit(k)
    /\ active[next] \/ k = num_tasks
    /\ \A j \in 1 .. k - 1 : ~active[Visit(j)]

LowestPicked(next) ==
  /\ Runnable(next)
  /\ \A j \in 0 .. next - 1 : ~Runnable(j) \/ j = current_task

(* schedule leaves its loop at the first runnable slot, or after num_tasks *)
(* iterations, which is where it started.                                  *)
Picked(next) ==
  \E k \in 1 .. num_tasks :
    /\ next = Visit(k)
    /\ Runnable(next) \/ k = num_tasks
    /\ \A j \in 1 .. k - 1 : ~Runnable(Visit(j))

HaltsAgain(c) == c

(* An interrupt that ends a hlt returns to the instruction behind it; the  *)
(* task that yields in a system call is still in that call then.           *)
PastHalt(c) ==
  [c EXCEPT !.pc = CASE @ = "halt"    -> "run"
                     [] @ = "resting" -> "return"
                     [] OTHER         -> @]

FramesMixedUp(next) == [saved EXCEPT ![next] = PastHalt(cpu)]

FramesAfterTick(next) == [saved EXCEPT ![current_task] = PastHalt(cpu)]

CountOnlyPreempted ==
  [s \in Slots |-> IF sleep_left[s] = 0 \/ s = current_task
                     THEN sleep_left[s] ELSE sleep_left[s] - 1]

CountDown == [s \in Slots |-> IF sleep_left[s] = 0 THEN 0 ELSE sleep_left[s] - 1]

Tick ==
  /\ cpu.ie
  /\ \E next \in Slots :
       /\ Picked(next)
       /\ saved' = FramesAfterTick(next)
       /\ current_task' = next
       /\ cpu' = saved'[next]
  /\ sleep_left' = CountDown
  /\ UNCHANGED <<active, paused, num_tasks, serial, spawned, loadVars, soundVars>>

(***************************************************************************)
(* Task 0: the boot code and the main loop.                                *)
(***************************************************************************)

InKernel(pc) == current_task = 0 /\ cpu.pc = pc

KernelTo(pc) == cpu' = [cpu EXCEPT !.pc = pc]

(* main declares itself task 0 and asks for the idle task, interrupts off. *)
BootTask0 ==
  /\ InKernel("boot")
  /\ active' = [active EXCEPT ![0] = TRUE]
  /\ request' = "idle"
  /\ KernelTo("spawn")
  /\ UNCHANGED <<paused, saved, num_tasks, current_task, serial, spawned, sector, ram, sleep_left, soundVars>>

AlwaysFreeSlot == num_tasks <= MaxTasks

HasFreeSlot ==
  \/ num_tasks < MaxTasks
  \/ \E i \in Slots \ {0} : ~active[i]

(* The slot create_task takes: the first inactive one of 1..MaxTasks-1,    *)
(* otherwise the one at num_tasks.                                         *)
TakesSlot(id) ==
  IF \E i \in Slots \ {0} : ~active[i]
    THEN id # 0 /\ ~active[id] /\ \A j \in 1 .. id - 1 : active[j]
    ELSE num_tasks < MaxTasks /\ id = num_tasks

(* The frame create_task builds at the top of the slot's stack: rflags is  *)
(* 0x0202, so the task starts with interrupts enabled.                     *)
NewFrame(id) ==
  [slot |-> id, serial |-> spawned + 1, prog |-> request, pc |-> "run", ie |-> TRUE]

(* create_task between its cli and its sti.  It enables interrupts on the  *)
(* way out, whether it found a slot or not and whatever they were before.  *)
CreateTask ==
  /\ InKernel("spawn")
  /\ IF \E id \in Slots : TakesSlot(id)
       THEN \E id \in Slots :
              /\ TakesSlot(id)
              /\ saved' = [saved EXCEPT ![id] = NewFrame(id)]
              /\ serial' = [serial EXCEPT ![id] = spawned + 1]
              /\ active' = [active EXCEPT ![id] = TRUE]
              /\ paused' = [paused EXCEPT ![id] = FALSE]
              /\ num_tasks' = IF id >= num_tasks THEN id + 1 ELSE num_tasks
       ELSE UNCHANGED <<saved, serial, active, paused, num_tasks>>
  /\ spawned' = spawned + 1
  /\ cpu' = [cpu EXCEPT !.pc = "loop", !.ie = TRUE]
  /\ request' = "none"
  /\ UNCHANGED <<current_task, sector, ram, sleep_left, soundVars>>

(* The START command; with every slot taken it only prints an error.       *)
StartCommand ==
  /\ InKernel("loop")
  /\ HasFreeSlot
  /\ spawned < MaxSpawns
  /\ request' = "worker"
  /\ KernelTo("spawn")
  /\ UNCHANGED <<tableVars, sector, ram, sleep_left, soundVars>>

Context(s) == IF s = current_task THEN cpu ELSE saved[s]

LiveApp(s) == active[s] /\ Context(s).prog = "app"

(* load_and_run_bin, for RUNAPP or a .BIN opened in the explorer: every    *)
(* app is loaded to the same address, which is cleared first.              *)
RunApp ==
  /\ InKernel("loop")
  /\ HasFreeSlot
  /\ spawned < MaxSpawns
  /\ ReloadWhileLive \/ \A s \in Slots : ~LiveApp(s)
  /\ ram' = "blank"
  /\ sector' = 0
  /\ KernelTo("load")
  /\ UNCHANGED <<tableVars, request, sleep_left, soundVars>>

(* One disk_read_auto; the last sector completes whatever is on the disk.  *)
ReadSector ==
  /\ InKernel("load")
  /\ sector < Sectors
  /\ sector' = sector + 1
  /\ IF sector' = Sectors
       THEN ram' \in {"app", "foreign"} /\ KernelTo("check")
       ELSE UNCHANGED <<ram, cpu>>
  /\ UNCHANGED <<tableVars, request, sleep_left, soundVars>>

ReadSectorFails ==
  /\ InKernel("load")
  /\ KernelTo("loop")
  /\ UNCHANGED <<tableVars, loadVars, sleep_left, soundVars>>

SignatureValid == ram = "app"

CheckSignature ==
  /\ InKernel("check")
  /\ request' = IF SignatureValid THEN "app" ELSE request
  /\ KernelTo(IF SignatureValid THEN "spawn" ELSE "loop")
  /\ UNCHANGED <<tableVars, sector, ram, sleep_left, soundVars>>

(* The task manager's buttons are drawn for t > 0 only.                    *)
TogglePause(t) ==
  /\ InKernel("loop")
  /\ t > 0 /\ active[t]
  /\ paused' = [paused EXCEPT ![t] = ~@]
  /\ KernelTo(IF paused'[t] THEN "mute" ELSE "loop")
  /\ UNCHANGED <<active, saved, num_tasks, current_task, serial, spawned, loadVars, sleep_left, soundVars>>

BackToLoop == "loop"

(* After a pause or a close the main loop calls play_freq(0).              *)
SilenceNext == "mute"

CloseTask(t) ==
  /\ InKernel("loop")
  /\ t > 0 /\ active[t]
  /\ active' = [active EXCEPT ![t] = FALSE]
  /\ paused' = [paused EXCEPT ![t] = FALSE]
  /\ KernelTo(SilenceNext)
  /\ UNCHANGED <<saved, num_tasks, current_task, serial, spawned, loadVars, sleep_left, soundVars>>

ToggleMute ==
  /\ InKernel("loop")
  /\ sound_muted' = ~sound_muted
  /\ KernelTo(IF sound_muted' THEN "mute" ELSE "loop")
  /\ UNCHANGED <<tableVars, loadVars, sleep_left, tone>>

(* What play_freq makes of a frequency; only zero and non-zero differ.     *)
PlayFreq(f) == f /\ ~sound_muted

Silence ==
  /\ InKernel("mute")
  /\ tone' = PlayFreq(FALSE)
  /\ KernelTo("loop")
  /\ UNCHANGED <<tableVars, loadVars, sleep_left, sound_muted>>

(* MKDIR waits for the drive with sleep_ms.                                *)
SleepMs ==
  /\ InKernel("loop")
  /\ sleep_left' = [sleep_left EXCEPT ![0] = SleepTicks]
  /\ KernelTo("sleep")
  /\ UNCHANGED <<tableVars, loadVars, soundVars>>

SleepEnds ==
  /\ InKernel("sleep")
  /\ sleep_left[0] = 0
  /\ KernelTo("loop")
  /\ UNCHANGED <<tableVars, loadVars, sleep_left, soundVars>>

(* TEST BEEP: play_sound starts the tone and sleeps.                       *)
TestBeep ==
  /\ InKernel("loop")
  /\ ~sound_muted
  /\ tone' = TRUE
  /\ sleep_left' = [sleep_left EXCEPT ![0] = SleepTicks]
  /\ KernelTo("beep")
  /\ UNCHANGED <<tableVars, loadVars, sound_muted>>

(* The end of play_sound, in task 0 or in a system call (whose iretq       *)
(* restores the caller's interrupt flag).                                  *)
BeepEnds ==
  /\ cpu.pc = "beep"
  /\ sleep_left[current_task] = 0
  /\ tone' = FALSE
  /\ cpu' = [cpu EXCEPT !.pc = IF current_task = 0 THEN "loop" ELSE "run", !.ie = TRUE]
  /\ UNCHANGED <<tableVars, loadVars, sleep_left, sound_muted>>

(***************************************************************************)
(* The other tasks.                                                        *)
(***************************************************************************)

Running(prog) == cpu.prog = prog /\ cpu.pc = "run"

(* yield: sti and hlt; no interrupt can come between the two.              *)
Halted == [cpu EXCEPT !.pc = "halt", !.ie = TRUE]

IdleHalts ==
  /\ Running("idle")
  /\ cpu' = [cpu EXCEPT !.pc = "halt"]
  /\ UNCHANGED <<tableVars, loadVars, sleep_left, soundVars>>

WorkerYields ==
  /\ Running("worker")
  /\ cpu' = Halted
  /\ UNCHANGED <<tableVars, loadVars, sleep_left, soundVars>>

(* Gate 0x80 has type 0xEE, an interrupt gate: it clears the flag.         *)
GateLeavesInterrupts == FALSE

(* An app whose code is in place enters the kernel by int 0x80.            *)
Int80(call) ==
  /\ Running("app")
  /\ ram = "app"
  /\ cpu' = [cpu EXCEPT !.pc = call, !.ie = GateLeavesInterrupts]
  /\ UNCHANGED <<tableVars, loadVars, sleep_left, soundVars>>

SyscallReturn == cpu' = [cpu EXCEPT !.pc = "run", !.ie = TRUE]

(* System call 0 halts inside the dispatcher: sti lets the timer in, and   *)
(* the frame it saves lies within the call.                                *)
DispatchYield ==
  /\ cpu.pc = "yield"
  /\ cpu' = [Halted EXCEPT !.pc = "resting"]
  /\ UNCHANGED <<tableVars, loadVars, sleep_left, soundVars>>

(* The rest of the call, once the timer has woken it: yield and the        *)
(* dispatcher return, iretq gives the caller its flags back.               *)
YieldReturns ==
  /\ cpu.pc = "return"
  /\ SyscallReturn
  /\ UNCHANGED <<tableVars, loadVars, sleep_left, soundVars>>

DispatchPlayFreq ==
  /\ cpu.pc \in {"tone", "silence"}
  /\ tone' = PlayFreq(cpu.pc = "tone")
  /\ SyscallReturn
  /\ UNCHANGED <<tableVars, loadVars, sleep_left, sound_muted>>

DispatchPlaySound ==
  /\ cpu.pc = "sound"
  /\ IF sound_muted
       THEN SyscallReturn /\ UNCHANGED <<tone, sleep_left>>
       ELSE /\ tone' = TRUE
            /\ sleep_left' = [sleep_left EXCEPT ![current_task] = SleepTicks]
            /\ cpu' = [cpu EXCEPT !.pc = "beep"]
  /\ UNCHANGED <<tableVars, loadVars, sound_muted>>

(* An app whose code was cleared or replaced under it executes whatever is *)
(* there.  What it does next is not determined by the source; the model    *)
(* lets it spin, with interrupts enabled or not.                           *)
AppDerails ==
  /\ Running("app")
  /\ ram # "app"
  /\ \E i \in BOOLEAN : cpu' = [cpu EXCEPT !.pc = "wild", !.ie = i]
  /\ UNCHANGED <<tableVars, loadVars, sleep_left, soundVars>>

(***************************************************************************)
(* What the user may ask of the main loop; nothing obliges him to.         *)
(***************************************************************************)
UserRequest ==
  \/ StartCommand
  \/ RunApp
  \/ \E t \in Slots : TogglePause(t) \/ CloseTask(t)
  \/ ToggleMute
  \/ SleepMs
  \/ TestBeep

(* What the processor does by itself.                                      *)
Execution ==
  \/ BootTask0
  \/ CreateTask
  \/ ReadSector
  \/ ReadSectorFails
  \/ CheckSignature
  \/ Silence
  \/ SleepEnds
  \/ BeepEnds
  \/ IdleHalts
  \/ WorkerYields
  \/ DispatchYield
  \/ YieldReturns
  \/ DispatchPlayFreq
  \/ DispatchPlaySound

(* What an app does by itself.                                             *)
AppStep ==
  \/ \E call \in Calls : Int80(call)
  \/ AppDerails

Next ==
  \/ Tick
  \/ UserRequest
  \/ Execution
  \/ AppStep

(* The PIC keeps a timer interrupt pending while interrupts are off, so it *)
(* is taken once they are on, however briefly: strong fairness.  A task    *)
(* that gets the processor again and again executes instructions there,    *)
(* for a tick lasts much longer than one: strong fairness of each task's   *)
(* steps.  The user is never obliged to do anything.                       *)
Fairness ==
  /\ SF_vars(Tick)
  /\ \A s \in Slots : SF_vars(current_task = s /\ Execution)

Spec     == Init /\ [][Next]_vars
FairSpec == Spec /\ Fairness

(***************************************************************************)
(* Properties.                                                             *)
(***************************************************************************)

Booting == Context(0).pc = "boot"

(* Whatever is paused or closed while the timer interrupts, the processor  *)
(* never ends up executing a task that is closed or paused: schedule's     *)
(* fall-through to the last running task (kernel_main.cpp:255) is harmless *)
(* because the buttons only run in task 0 and spare it.                    *)
RunningTaskIsRunnable == Booting \/ Runnable(current_task)

(* The frame schedule returns is the one of the task it picked, and of its *)
(* latest incarnation: a slot that was closed and taken again never runs   *)
(* the old task's context, and no context runs in another's slot.          *)
ContextsBelong ==
  \A s \in Slots :
    active[s] => Context(s).slot = s /\ Context(s).serial = serial[s]

(* has_free_task_slot is asked before the disk is read, create_task runs   *)
(* after it, with interrupts enabled in between: the slot is still there.  *)
SpawnFindsSlot ==
  (Context(0).pc = "spawn" \/ Context(0).pc = "load") => \E id \in Slots : TakesSlot(id)

(* The table is of its type, and a slot that was free is taken.            *)
SlotsAreSound == TypeOK /\ SpawnFindsSlot

(* The speaker sounds only while an app can stop it or the kernel is       *)
(* about to: pausing and closing tasks leaves no tone behind, though the   *)
(* timer may run another app between the button and its play_freq(0).      *)
NoOrphanTone ==
  tone => \/ Context(0).pc \in {"mute", "beep"}
          \/ \E s \in Slots : Runnable(s) /\ Context(s).prog = "app"

(* Once the main loop is through with the mute button, nothing sounds      *)
(* until it is pressed again, whichever way an app or the kernel asks.     *)
MutedIsSilent == sound_muted /\ Context(0).pc # "mute" => ~tone

(* Whatever order the apps, the mute button and the task manager take      *)
(* each other's turn in, a tone has an owner and none sounds while muted.  *)
TonesBelong == NoOrphanTone /\ MutedIsSilent

(* The processor never executes hlt with interrupts disabled: the loops of *)
(* yield and sleep_ms count on the PIT to wake them                        *)
(* (kernel_main.cpp:124-126 and 2162-2164).                                *)
HaltWakesUp == cpu.pc \in {"halt", "resting", "sleep", "beep"} => cpu.ie

(* A paused task stays frozen: until it is resumed or closed it is not     *)
(* given the processor and its saved frame does not change.                *)
PausedTaskFrozen ==
  [][\A s \in Slots :
       active[s] /\ paused[s] /\ active'[s] /\ paused'[s]
         => current_task' # s /\ saved'[s] = saved[s]]_vars

(* Loading, spawning, beeping and sleeping end: the main loop comes back   *)
(* to the user however often the timer takes the processor from it.        *)
MainLoopReturns == []<>(Context(0).pc = "loop")

(* A task that yields in a system call gets out of the call again, unless  *)
(* it is paused or closed there: the gate masks the interrupt that must    *)
(* end yield's hlt, and yield opens it again (kernel_main.cpp:124-127).    *)
YieldingCallReturns ==
  \A s \in Slots :
    Runnable(s) /\ Context(s).pc = "yield"
      ~> ~Runnable(s) \/ Context(s).pc = "run"
=============================================================================
