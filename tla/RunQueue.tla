------------------------------ MODULE RunQueue ------------------------------
(***************************************************************************)
(* The SMP scheduler of axtask (.arceos/modules/axtask/src/run_queue.rs)   *)
(* with the FIFO policy of vendor/scheduler, as this kernel is built: one  *)
(* run queue per CPU, cooperative, no preemption.  A CPU leaves a task     *)
(* only when the task yields, blocks, exits or migrates; other CPUs        *)
(* meanwhile spawn and unblock tasks onto any run queue.                   *)
(*                                                                         *)
(* The subject is the hand-over of a task between CPUs: a task marked      *)
(* Blocked is still executing on its CPU until that CPU has saved its      *)
(* context, and on_cpu keeps a waker on another CPU from queueing it       *)
(* before.  Who unblocks a task, and when, is left open: any CPU may do so *)
(* while the task is Blocked (WaitQueue and WaitTimeout model the callers).*)
(*                                                                         *)
(* The idle task of CPU c is named c.  The gc task of a CPU is one of the  *)
(* tasks; only the dropping of exited tasks on its own CPU is modelled.    *)
(***************************************************************************)
EXTENDS Naturals, Sequences

CONSTANTS Cpus, Tasks,
          Main,      \* the init task, current on the boot CPU at start
          BootCpu,
          NoTask

ASSUME TasksAssumption ==
  /\ Cpus \cap Tasks = {} /\ NoTask \notin Cpus \cup Tasks
  /\ Main \in Tasks /\ BootCpu \in Cpus

VARIABLES state,        \* state[t]: the TaskState of t
          on_cpu,       \* on_cpu[t]: the flag a waker spins on
          cpumask,      \* cpumask[t]: the CPUs t may run on
          life,         \* life[t]: whether the Arc of t exists
          saved,        \* saved[t]: the context of t is in its TaskContext
          ready_queue,  \* ready_queue[c]: the FIFO of c's run queue
          current,      \* current[c]: the current task pointer of c
          prev_task,    \* prev_task[c]: PREV_TASK of c
          next_task,    \* next_task[c]: the task c is switching to
          pc,           \* pc[c]: where c is in the scheduler
          waking,       \* waking[c]: the task c is putting on a run queue
          target,       \* target[c]: that run queue
          moving,       \* moving[m]: the task the migration task m carries
          exited        \* exited[c]: EXITED_TASKS of c

taskVars == <<state, on_cpu, cpumask, life, saved>>
cpuVars == <<ready_queue, current, prev_task, next_task, pc, waking, target>>
vars == <<taskVars, cpuVars, moving, exited>>

All == Tasks \cup Cpus
Optional == All \cup {NoTask}
TaskState == {"Running", "Ready", "Blocked", "Exited"}
PCs == {"run", "spin", "exit", "exit_spin", "pick", "switch", "load", "clear"}

(* The types of the variables.                                             *)
TypeOK ==
  /\ state \in [All -> TaskState]
  /\ on_cpu \in [All -> BOOLEAN]
  /\ cpumask \in [All -> SUBSET Cpus]
  /\ life \in [All -> {"new", "live", "dropped"}]
  /\ saved \in [All -> BOOLEAN]
  /\ ready_queue \in [Cpus -> Seq(Tasks)]
  /\ current \in [Cpus -> All]
  /\ prev_task \in [Cpus -> Optional]
  /\ next_task \in [Cpus -> Optional]
  /\ pc \in [Cpus -> PCs]
  /\ waking \in [Cpus -> Optional]
  /\ target \in [Cpus -> Cpus]
  /\ moving \in [Tasks -> Tasks \cup {NoTask}]
  /\ exited \in [Cpus -> SUBSET Tasks]

(* init and init_secondary: the boot CPU runs main and has a fresh idle    *)
(* task; the other CPUs run their idle task.                               *)
Init ==
  LET running == {Main} \cup (Cpus \ {BootCpu})
  IN /\ state = [t \in All |-> IF t \in running THEN "Running" ELSE "Ready"]
     /\ on_cpu = [t \in All |-> t \in running]
     /\ cpumask = [t \in All |-> IF t \in Cpus THEN {t} ELSE Cpus]
     /\ life = [t \in All |-> IF t \in Cpus \cup {Main} THEN "live" ELSE "new"]
     /\ saved = [t \in All |-> t \notin running]
     /\ ready_queue = [c \in Cpus |-> <<>>]
     /\ current = [c \in Cpus |-> IF c = BootCpu THEN Main ELSE c]
     /\ prev_task = [c \in Cpus |-> NoTask]
     /\ next_task = [c \in Cpus |-> NoTask]
     /\ pc = [c \in Cpus |-> "run"]
     /\ waking = [c \in Cpus |-> NoTask]
     /\ target = [c \in Cpus |-> c]
     /\ moving = [t \in Tasks |-> NoTask]
     /\ exited = [c \in Cpus |-> {}]

is_idle(t) == t \in Cpus

Goto(c, l) == pc' = [pc EXCEPT ![c] = l]

(* The current task of c executes its own code and is no migration task.   *)
InTask(c) ==
  /\ pc[c] = "run"
  /\ current[c] \in Tasks
  /\ moving[current[c]] = NoTask

Enqueue(c, t) == ready_queue' = [ready_queue EXCEPT ![c] = Append(@, t)]

-----------------------------------------------------------------------------
(* spawn_task: a new task goes to the run queue select_run_queue picks.    *)
Spawn(c, t, r) ==
  /\ InTask(c)
  /\ life[t] = "new"
  /\ r \in cpumask[t]
  /\ life' = [life EXCEPT ![t] = "live"]
  /\ Enqueue(r, t)
  /\ UNCHANGED <<state, on_cpu, cpumask, saved, current, prev_task, next_task,
                 pc, waking, target, moving, exited>>

(* yield_current: put_task_with_state(curr, Running), then resched.  The   *)
(* idle task becomes Ready but is not queued.                              *)
Yield(c) ==
  LET t == current[c]
  IN /\ pc[c] = "run"
     /\ is_idle(t) \/ InTask(c)
     /\ state' = [state EXCEPT ![t] = "Ready"]
     /\ IF is_idle(t) THEN UNCHANGED ready_queue ELSE Enqueue(c, t)
     /\ Goto(c, "pick")
     /\ UNCHANGED <<on_cpu, cpumask, life, saved, current, prev_task, next_task,
                    waking, target, moving, exited>>

(* blocked_resched and sleep_until: mark the task Blocked, then resched.   *)
Block(c) ==
  /\ InTask(c)
  /\ state' = [state EXCEPT ![current[c]] = "Blocked"]
  /\ Goto(c, "pick")
  /\ UNCHANGED <<on_cpu, cpumask, life, saved, ready_queue, current, prev_task,
                 next_task, waking, target, moving, exited>>

(* exit_current: the task is Exited; it then wakes its joiners and gc.     *)
Exit(c) ==
  /\ InTask(c)
  /\ current[c] # Main
  /\ state' = [state EXCEPT ![current[c]] = "Exited"]
  /\ Goto(c, "exit")
  /\ UNCHANGED <<on_cpu, cpumask, life, saved, ready_queue, current, prev_task,
                 next_task, waking, target, moving, exited>>

(* It is pushed on EXITED_TASKS of this CPU, then resched.                 *)
ExitPush(c) ==
  /\ pc[c] = "exit"
  /\ exited' = [exited EXCEPT ![c] = @ \cup {current[c]}]
  /\ Goto(c, "pick")
  /\ UNCHANGED <<taskVars, ready_queue, current, prev_task, next_task, waking,
                 target, moving>>

(* Faulty variant: the state is stored whatever it was.                    *)
UnblockStore(c, t, r) ==
  /\ pc[c] \in {"run", "exit"}
  /\ state[t] \in {"Blocked", "Ready"} /\ life[t] = "live"
  /\ r \in cpumask[t]
  /\ state' = [state EXCEPT ![t] = "Ready"]
  /\ waking' = [waking EXCEPT ![c] = t]
  /\ target' = [target EXCEPT ![c] = r]
  /\ Goto(c, IF pc[c] = "run" THEN "spin" ELSE "exit_spin")
  /\ UNCHANGED <<on_cpu, cpumask, life, saved, ready_queue, current, prev_task,
                 next_task, moving, exited>>

(* unblock_task on c, called by its task, by an exiting task or by a timer *)
(* interrupt: the compare-and-swap from Blocked to Ready succeeds.  A      *)
(* failing one changes nothing.                                            *)
UnblockCas(c, t, r) ==
  /\ pc[c] \in {"run", "exit"}
  /\ state[t] = "Blocked"
  /\ r \in cpumask[t]
  /\ state' = [state EXCEPT ![t] = "Ready"]
  /\ waking' = [waking EXCEPT ![c] = t]
  /\ target' = [target EXCEPT ![c] = r]
  /\ Goto(c, IF pc[c] = "run" THEN "spin" ELSE "exit_spin")
  /\ UNCHANGED <<on_cpu, cpumask, life, saved, ready_queue, current, prev_task,
                 next_task, moving, exited>>

(* Faulty variant: no spin on on_cpu.                                      *)
PutAtOnce(c) ==
  /\ pc[c] \in {"spin", "exit_spin"}
  /\ Enqueue(target[c], waking[c])
  /\ waking' = [waking EXCEPT ![c] = NoTask]
  /\ target' = [target EXCEPT ![c] = c]
  /\ Goto(c, IF pc[c] = "spin" THEN "run" ELSE "exit")
  /\ UNCHANGED <<taskVars, current, prev_task, next_task, moving, exited>>

(* Faulty variant: giving up instead of spinning.                          *)
PutOrGiveUp(c) ==
  /\ pc[c] \in {"spin", "exit_spin"}
  /\ IF on_cpu[waking[c]] THEN UNCHANGED ready_queue ELSE Enqueue(target[c], waking[c])
  /\ waking' = [waking EXCEPT ![c] = NoTask]
  /\ target' = [target EXCEPT ![c] = c]
  /\ Goto(c, IF pc[c] = "spin" THEN "run" ELSE "exit")
  /\ UNCHANGED <<taskVars, current, prev_task, next_task, moving, exited>>

(* It then spins while the task is on a CPU and queues it after that.      *)
UnblockPut(c) ==
  /\ pc[c] \in {"spin", "exit_spin"}
  /\ ~on_cpu[waking[c]]
  /\ Enqueue(target[c], waking[c])
  /\ waking' = [waking EXCEPT ![c] = NoTask]
  /\ target' = [target EXCEPT ![c] = c]
  /\ Goto(c, IF pc[c] = "spin" THEN "run" ELSE "exit")
  /\ UNCHANGED <<taskVars, current, prev_task, next_task, moving, exited>>

(* set_current_affinity when this CPU stays in the mask.                   *)
SetAffinity(c, mask) ==
  /\ InTask(c)
  /\ c \in mask
  /\ cpumask' = [cpumask EXCEPT ![current[c]] = mask]
  /\ UNCHANGED <<state, on_cpu, life, saved, cpuVars, moving, exited>>

(* set_current_affinity when it does not: migrate_current makes the task   *)
(* Ready without queueing it and switches to a new migration task m.       *)
Migrate(c, mask, m) ==
  /\ InTask(c)
  /\ mask # {} /\ c \notin mask
  /\ life[m] = "new"
  /\ cpumask' = [cpumask EXCEPT ![current[c]] = mask]
  /\ state' = [state EXCEPT ![current[c]] = "Ready"]
  /\ life' = [life EXCEPT ![m] = "live"]
  /\ moving' = [moving EXCEPT ![m] = current[c]]
  /\ next_task' = [next_task EXCEPT ![c] = m]
  /\ Goto(c, "switch")
  /\ UNCHANGED <<on_cpu, saved, ready_queue, current, prev_task, waking, target,
                 exited>>

(* migrate_entry, the body of the migration task, which then exits.        *)
MigrateEntry(c, r) ==
  LET m == current[c]
  IN /\ pc[c] = "run"
     /\ m \in Tasks /\ moving[m] # NoTask
     /\ r \in cpumask[moving[m]]
     /\ Enqueue(r, moving[m])
     /\ moving' = [moving EXCEPT ![m] = NoTask]
     /\ state' = [state EXCEPT ![m] = "Exited"]
     /\ Goto(c, "exit")
     /\ UNCHANGED <<on_cpu, cpumask, life, saved, current, prev_task, next_task,
                    waking, target, exited>>

-----------------------------------------------------------------------------
(* resched: pick_next_task, or the idle task when the queue is empty.      *)
Pick(c) ==
  LET empty == ready_queue[c] = <<>>
  IN /\ pc[c] = "pick"
     /\ next_task' = [next_task EXCEPT ![c] =
                        IF empty THEN c ELSE Head(ready_queue[c])]
     /\ ready_queue' = IF empty THEN ready_queue
                       ELSE [ready_queue EXCEPT ![c] = Tail(@)]
     /\ Goto(c, "switch")
     /\ UNCHANGED <<taskVars, current, prev_task, waking, target, moving, exited>>

(* switch_to up to the context switch: the next task is Running and        *)
(* current.  Nothing more is done when it is the previous one.             *)
SwitchTo(c) ==
  LET next == next_task[c]
      prev == current[c]
  IN /\ pc[c] = "switch"
     /\ state' = [state EXCEPT ![next] = "Running"]
     /\ next_task' = [next_task EXCEPT ![c] = NoTask]
     /\ IF prev = next
        THEN Goto(c, "run") /\ UNCHANGED <<on_cpu, prev_task, current>>
        ELSE /\ on_cpu' = [on_cpu EXCEPT ![next] = TRUE]
             /\ prev_task' = [prev_task EXCEPT ![c] = prev]
             /\ current' = [current EXCEPT ![c] = next]
             /\ Goto(c, "load")
     /\ UNCHANGED <<cpumask, life, saved, ready_queue, waking, target, moving,
                    exited>>

(* TaskContext::switch_to saves the previous context and loads the next.   *)
ContextSwitch(c) ==
  /\ pc[c] = "load"
  /\ saved' = [saved EXCEPT ![prev_task[c]] = TRUE, ![current[c]] = FALSE]
  /\ Goto(c, "clear")
  /\ UNCHANGED <<state, on_cpu, cpumask, life, ready_queue, current, prev_task,
                 next_task, waking, target, moving, exited>>

(* clear_prev_task_on_cpu, run by the next task.                           *)
ClearPrev(c) ==
  /\ pc[c] = "clear"
  /\ on_cpu' = [on_cpu EXCEPT ![prev_task[c]] = FALSE]
  /\ Goto(c, "run")
  /\ UNCHANGED <<state, cpumask, life, saved, ready_queue, current, prev_task,
                 next_task, waking, target, moving, exited>>

(* Faulty variant: one list of exited tasks for all CPUs.                  *)
GcDropGlobal(c, t) ==
  /\ InTask(c)
  /\ \E d \in Cpus : t \in exited[d]
  /\ \A d \in Cpus : current[d] # t
  /\ life' = [life EXCEPT ![t] = "dropped"]
  /\ exited' = [d \in Cpus |-> exited[d] \ {t}]
  /\ UNCHANGED <<state, on_cpu, cpumask, saved, cpuVars, moving>>

(* gc_entry: a task of this CPU drops an exited one.  The list holds its   *)
(* last reference: no current pointer is it (see set_current).             *)
GcDrop(c, t) ==
  /\ InTask(c)
  /\ t \in exited[c]
  /\ \A d \in Cpus : current[d] # t
  /\ life' = [life EXCEPT ![t] = "dropped"]
  /\ exited' = [exited EXCEPT ![c] = @ \ {t}]
  /\ UNCHANGED <<state, on_cpu, cpumask, saved, cpuVars, moving>>

Scheduler(c) ==
  \/ ExitPush(c) \/ UnblockPut(c) \/ Pick(c) \/ SwitchTo(c)
  \/ ContextSwitch(c) \/ ClearPrev(c)
  \/ \E r \in Cpus : MigrateEntry(c, r)

Task(c) ==
  \/ \E t \in Tasks, r \in Cpus : Spawn(c, t, r) \/ UnblockCas(c, t, r)
  \/ \E mask \in SUBSET Cpus :
       SetAffinity(c, mask) \/ \E m \in Tasks : Migrate(c, mask, m)
  \/ \E t \in Tasks : GcDrop(c, t)

LeaveCpu(c) == Yield(c) \/ Block(c) \/ Exit(c)

Next == \E c \in Cpus : Scheduler(c) \/ Task(c) \/ LeaveCpu(c)

Spec == Init /\ [][Next]_vars

-----------------------------------------------------------------------------
(* The task whose context is loaded on c.                                  *)
Executing(c) == IF pc[c] = "load" THEN prev_task[c] ELSE current[c]

(* No task executes on two CPUs, and none is current on one CPU while it   *)
(* still executes on another: the on_cpu spin in put_task_with_state.      *)
OneCpuPerTask ==
  \A c, d \in Cpus : c # d =>
    Executing(c) # Executing(d) /\ current[c] # current[d]
      /\ Executing(c) # current[d]

(* A context is loaded only after the CPU the task ran on has saved it.    *)
ContextSaved ==
  \A c \in Cpus : pc[c] = "load" => saved[current[c]]

(* resched's assertion "next is not ready" never fires.                    *)
PickedReady ==
  \A c \in Cpus : pc[c] = "switch" => state[next_task[c]] = "Ready"

(* The places from which a task will run: once in a run queue, about to be *)
(* queued by a waker or a migration task, or picked.                       *)
QueuedOn(t, c) ==
  {<<"queue", c, i>> : i \in {j \in DOMAIN ready_queue[c] : ready_queue[c][j] = t}}
Queued(t) == UNION {QueuedOn(t, c) : c \in Cpus}
Woken(t) == {<<"waking", c>> : c \in {d \in Cpus : waking[d] = t}}
Picked(t) == {<<"next", c>> : c \in {d \in Cpus : next_task[d] = t}}
Carried(t) == {<<"moving", m>> : m \in {n \in Tasks : moving[n] = t}}
Places(t) == Queued(t) \cup Woken(t) \cup Picked(t) \cup Carried(t)

(* A live Ready task is in exactly one of them, another task in none.      *)
ReadyInOnePlace ==
  \A t \in Tasks :
    /\ (life[t] = "live" /\ state[t] = "Ready") =>
         \E p \in Places(t) : Places(t) = {p}
    /\ state[t] # "Ready" => Places(t) = {}

(* The two together: a task is on one CPU, with its own context.           *)
Exclusive == OneCpuPerTask /\ ContextSaved

(* A task runs, and is queued, only on a CPU of its mask: the assertion    *)
(* "Migration failed" of set_current_affinity never fires.                 *)
AffinityRespected ==
  \A c \in Cpus :
    /\ pc[c] = "run" => c \in cpumask[current[c]]
    /\ \A i \in DOMAIN ready_queue[c] : c \in cpumask[ready_queue[c][i]]

(* The three together: a Ready task waits in one place, on a CPU it may    *)
(* run on, and what a CPU picks is Ready.                                  *)
Placement == TypeOK /\ PickedReady /\ ReadyInOnePlace /\ AffinityRespected

(* The gc task never frees a task a CPU is still switching away from, so   *)
(* clear_prev_task_on_cpu's expect("... prev_task has been dropped") holds. *)
PrevNotDropped ==
  \A c \in Cpus :
    pc[c] \in {"load", "clear"} => life[prev_task[c]] = "live"

(* A Ready task gets to run, and a waker's spin ends.                      *)
ReadyRuns ==
  \A t \in Tasks :
    (life[t] = "live" /\ state[t] = "Ready") ~> (state[t] = "Running")
=============================================================================
