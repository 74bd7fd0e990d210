---------------------------- MODULE PlaceProofs ----------------------------
(***************************************************************************)
(* Where the scheduler of RunQueue keeps tasks, for any number of CPUs and *)
(* tasks: the inductive invariant PlaceInv, what the operations on a run   *)
(* queue do to it, and its proof for the operations that create, block,    *)
(* wake and yield a task.  RunQueueProofs has the other operations and the *)
(* theorem.                                                                *)
(***************************************************************************)
EXTENDS RunQueue, TLAPS

Running(c) == pc[c] \in {"run", "spin", "load", "clear"}
Active(c) == Running(c) \/ pc[c] \in {"exit", "exit_spin"}

(* Where a CPU is in the scheduler, and what it then holds.                *)
PcInv ==
  \A c \in Cpus :
    /\ pc[c] = "switch" <=> next_task[c] # NoTask
    /\ pc[c] \in {"spin", "exit_spin"} <=> waking[c] # NoTask
    /\ waking[c] \in Tasks \cup {NoTask}
    /\ next_task[c] \in Tasks \cup {c, NoTask}
    /\ current[c] \in Tasks \cup {c}
    /\ Running(c) => state[current[c]] = "Running"
    /\ pc[c] \in {"exit", "exit_spin"} =>
         current[c] \in Tasks /\ state[current[c]] = "Exited"

(* An active CPU shares its current task with no other active CPU.         *)
ActiveInv ==
  \A c, d \in Cpus : Active(c) /\ Active(d) /\ current[c] = current[d] => c = d

(* t is in a run queue, held by a waker, picked or carried.                *)
InQueue(t) ==
  \E c \in Cpus : \E i \in 1 .. Len(ready_queue[c]) : ready_queue[c][i] = t

Held(t) ==
  \/ InQueue(t)
  \/ \E c \in Cpus : waking[c] = t \/ next_task[c] = t
  \/ \E m \in Tasks : moving[m] = t

(* Such a task is Ready, and a live Ready task is such a task.             *)
HeldInv ==
  \A t \in All : Held(t) => state[t] = "Ready" /\ life[t] = "live"
ReadyHeld ==
  \A t \in Tasks : life[t] = "live" /\ state[t] = "Ready" => Held(t)

(* No task is in a run queue twice, or in two run queues.                  *)
QueueOnce ==
  \A c, d \in Cpus :
    \A i \in 1 .. Len(ready_queue[c]), j \in 1 .. Len(ready_queue[d]) :
      ready_queue[c][i] = ready_queue[d][j] => c = d /\ i = j

(* A queued task is held in no other way.                                  *)
QueueOnly ==
  \A t \in All : InQueue(t) =>
    /\ \A d \in Cpus : waking[d] # t /\ next_task[d] # t
    /\ \A m \in Tasks : moving[m] # t

(* A task held outside the run queues is held once.                        *)
HoldOnce ==
  /\ \A c \in Cpus : waking[c] # NoTask =>
       /\ \A d \in Cpus : waking[d] = waking[c] => c = d
       /\ \A d \in Cpus : waking[c] # next_task[d]
       /\ \A m \in Tasks : waking[c] # moving[m]
  /\ \A c \in Cpus : next_task[c] # NoTask =>
       /\ \A d \in Cpus : next_task[d] = next_task[c] => c = d
       /\ \A m \in Tasks : next_task[c] # moving[m]
  /\ \A m, n \in Tasks : moving[m] # NoTask /\ moving[m] = moving[n] => m = n

(* The idle task of c runs on c only, and never blocks or exits.           *)
IdleInv ==
  \A c \in Cpus :
    /\ life[c] = "live"
    /\ cpumask[c] = {c}
    /\ state[c] = "Ready" \/ (state[c] = "Running" /\ current[c] = c /\ Running(c))

(* What the life of a task says about its state.                           *)
LifeInv ==
  \A t \in Tasks :
    /\ life[t] = "new" =>
         state[t] = "Ready" /\ cpumask[t] = Cpus /\ moving[t] = NoTask
    /\ state[t] \in {"Running", "Blocked"} => life[t] = "live"
    /\ \A c \in Cpus : t \in exited[c] => state[t] = "Exited"

(* A task is queued, runs, is picked and is woken on a CPU of its mask.    *)
QueueMask ==
  \A c \in Cpus : \A i \in 1 .. Len(ready_queue[c]) :
    c \in cpumask[ready_queue[c][i]]
MaskInv ==
  \A c \in Cpus :
    /\ Running(c) => c \in cpumask[current[c]]
    /\ next_task[c] # NoTask => c \in cpumask[next_task[c]]
    /\ waking[c] # NoTask => target[c] \in cpumask[waking[c]]

PlaceInv ==
  /\ TypeOK /\ PcInv /\ ActiveInv /\ HeldInv /\ QueueOnce /\ QueueOnly
  /\ HoldOnce /\ ReadyHeld /\ IdleInv /\ LifeInv /\ QueueMask
  /\ MaskInv

-----------------------------------------------------------------------------
(* What an append to a run queue leaves in the run queues.                 *)
LEMMA EnqueueFacts ==
  ASSUME TypeOK, NEW c \in Cpus, NEW t \in Tasks, Enqueue(c, t)
  PROVE  /\ ready_queue' \in [Cpus -> Seq(Tasks)]
         /\ \A d \in Cpus : d # c => ready_queue'[d] = ready_queue[d]
         /\ Len(ready_queue[c]) \in Nat
         /\ Len(ready_queue'[c]) = Len(ready_queue[c]) + 1
         /\ ready_queue'[c][Len(ready_queue[c]) + 1] = t
         /\ \A i \in 1 .. Len(ready_queue[c]) :
              ready_queue'[c][i] = ready_queue[c][i]
  BY DEF TypeOK, Enqueue

(* The same, as what is in the run queues after the append: the tasks that *)
(* were there, where they were, and t once.                                *)
LEMMA EnqueueStep ==
  ASSUME TypeOK, NEW c \in Cpus, NEW t \in Tasks, Enqueue(c, t)
  PROVE  /\ \A d \in Cpus : \A i \in 1 .. Len(ready_queue'[d]) :
              \/ i \in 1 .. Len(ready_queue[d]) /\ ready_queue'[d][i] = ready_queue[d][i]
              \/ d = c /\ i = Len(ready_queue[c]) + 1 /\ ready_queue'[d][i] = t
         /\ \A d \in Cpus : \A i \in 1 .. Len(ready_queue[d]) :
              i \in 1 .. Len(ready_queue'[d]) /\ ready_queue'[d][i] = ready_queue[d][i]
         /\ \E i \in 1 .. Len(ready_queue'[c]) : ready_queue'[c][i] = t
<1> DEFINE new == Len(ready_queue[c]) + 1
<1>1. /\ \A d \in Cpus : d # c => ready_queue'[d] = ready_queue[d]
      /\ new - 1 \in Nat /\ new - 1 = Len(ready_queue[c])
      /\ Len(ready_queue'[c]) = new
      /\ ready_queue'[c][new] = t
      /\ \A i \in 1 .. new - 1 : ready_queue'[c][i] = ready_queue[c][i]
  BY EnqueueFacts
<1>2. ASSUME NEW d \in Cpus, NEW i \in 1 .. Len(ready_queue'[d])
      PROVE  \/ i \in 1 .. Len(ready_queue[d]) /\ ready_queue'[d][i] = ready_queue[d][i]
             \/ d = c /\ i = new /\ ready_queue'[d][i] = t
  <2>1. CASE d = c
    BY ONLY <1>1, <1>2, <2>1
  <2>2. CASE d # c
    BY ONLY <1>1, <1>2, <2>2, Zenon
  <2> QED
    BY <2>1, <2>2, Zenon
<1>3. ASSUME NEW d \in Cpus, NEW i \in 1 .. Len(ready_queue[d])
      PROVE  i \in 1 .. Len(ready_queue'[d]) /\ ready_queue'[d][i] = ready_queue[d][i]
  BY ONLY <1>1, <1>3
<1>4. new \in 1 .. Len(ready_queue'[c]) /\ ready_queue'[c][new] = t
  BY ONLY <1>1
<1> QED
  BY ONLY <1>2, <1>3, <1>4, Zenon

-----------------------------------------------------------------------------
(* What holds a task, one by one.                                          *)
LEMMA HeldFacts ==
  ASSUME TypeOK
  PROVE  /\ \A c \in Cpus : \A i \in 1 .. Len(ready_queue[c]) :
              ready_queue[c][i] \in Tasks /\ InQueue(ready_queue[c][i])
         /\ \A t \in All : InQueue(t) => Held(t)
         /\ \A c \in Cpus : waking[c] # NoTask => Held(waking[c])
         /\ \A c \in Cpus : next_task[c] # NoTask => Held(next_task[c])
         /\ \A m \in Tasks : moving[m] # NoTask => Held(moving[m])
<1>1. ASSUME NEW c \in Cpus, NEW i \in 1 .. Len(ready_queue[c])
      PROVE  ready_queue[c][i] \in Tasks
  BY <1>1 DEF TypeOK
<1> QED
  BY <1>1, Zenon DEF InQueue, Held

(* A step that leaves the run queues and the holders alone.                *)
LEMMA HoldFrame ==
  ASSUME QueueOnce, QueueOnly, HoldOnce,
         UNCHANGED <<ready_queue, waking, next_task, moving>>
  PROVE  /\ QueueOnce' /\ QueueOnly' /\ HoldOnce'
         /\ \A t \in All : Held(t)' <=> Held(t)
  BY DEF QueueOnce, QueueOnly, HoldOnce, Held, InQueue

(* A task that was not queued is queued once after an append.              *)
LEMMA EnqueueOnce ==
  ASSUME TypeOK, QueueOnce, NEW c \in Cpus, NEW t \in Tasks, Enqueue(c, t),
         ~InQueue(t)
  PROVE  /\ QueueOnce'
         /\ \A u \in All : InQueue(u)' <=> InQueue(u) \/ u = t
<1>1. \A d \in Cpus : \A i \in 1 .. Len(ready_queue'[d]) :
        \/ i \in 1 .. Len(ready_queue[d]) /\ ready_queue'[d][i] = ready_queue[d][i]
        \/ d = c /\ i = Len(ready_queue[c]) + 1 /\ ready_queue'[d][i] = t
  BY EnqueueStep
<1>2. \A d \in Cpus : \A i \in 1 .. Len(ready_queue[d]) :
        i \in 1 .. Len(ready_queue'[d]) /\ ready_queue'[d][i] = ready_queue[d][i]
  BY EnqueueStep, Zenon
<1>3. InQueue(t)'
  BY EnqueueStep DEF InQueue
<1>4. QueueOnce'
  BY <1>1, SMTT(40) DEF QueueOnce, InQueue
<1>5. ASSUME NEW u \in All PROVE InQueue(u)' <=> InQueue(u) \/ u = t
  <2>1. ASSUME InQueue(u)' PROVE InQueue(u) \/ u = t
    <3>1. PICK d \in Cpus :
            \E i \in 1 .. Len(ready_queue'[d]) : ready_queue'[d][i] = u
      BY <2>1, Zenon DEF InQueue
    <3> QED
      BY <1>1, <3>1, Zenon DEF InQueue
  <2>2. ASSUME InQueue(u) PROVE InQueue(u)'
    BY <1>2, <2>2, Zenon DEF InQueue
  <2> QED
    BY <1>3, <2>1, <2>2, Zenon
<1> QED
  BY <1>4, <1>5, Zenon

(* An append on a CPU of the task's mask, the masks unchanged.             *)
LEMMA EnqueueMask ==
  ASSUME TypeOK, QueueMask, NEW c \in Cpus, NEW t \in Tasks, Enqueue(c, t),
         c \in cpumask[t], UNCHANGED cpumask
  PROVE  QueueMask'
<1>1. \A d \in Cpus : \A i \in 1 .. Len(ready_queue'[d]) :
        \/ i \in 1 .. Len(ready_queue[d]) /\ ready_queue'[d][i] = ready_queue[d][i]
        \/ d = c /\ i = Len(ready_queue[c]) + 1 /\ ready_queue'[d][i] = t
  BY EnqueueStep
<1>2. ASSUME NEW d \in Cpus, NEW i \in 1 .. Len(ready_queue'[d])
      PROVE  d \in cpumask[ready_queue'[d][i]]
  BY <1>1, <1>2, Zenon DEF QueueMask
<1> QED
  BY <1>2, Zenon DEF QueueMask

(* The task at the head of a queue leaves it, and is then in no queue.     *)
LEMMA PickQueue ==
  ASSUME TypeOK, QueueOnce, QueueMask, NEW c \in Cpus, Pick(c),
         ready_queue[c] # <<>>
  PROVE  LET n == Head(ready_queue[c])
         IN /\ ready_queue' \in [Cpus -> Seq(Tasks)]
            /\ n \in Tasks /\ InQueue(n) /\ c \in cpumask[n]
            /\ QueueOnce' /\ QueueMask'
            /\ \A u \in All : InQueue(u)' <=> InQueue(u) /\ u # n
<1> DEFINE q == ready_queue[c]
           n == Head(q)
<1>1. /\ q \in Seq(Tasks) /\ Len(q) \in Nat /\ Len(q) # 0
      /\ n \in Tasks /\ n = q[1]
      /\ 1 \in 1 .. Len(q)
  BY DEF TypeOK
<1>2. /\ ready_queue' \in [Cpus -> Seq(Tasks)]
      /\ \A d \in Cpus : d # c => ready_queue'[d] = ready_queue[d]
      /\ ready_queue'[c] = Tail(q)
  BY <1>1 DEF TypeOK, Pick
<1>3. /\ Len(ready_queue'[c]) = Len(q) - 1
      /\ \A i \in 1 .. Len(q) - 1 : i + 1 \in 1 .. Len(q) /\ ready_queue'[c][i] = q[i + 1]
  BY <1>1, <1>2
<1>4. \A d \in Cpus : \A i \in 1 .. Len(ready_queue'[d]) :
        \/ d # c /\ i \in 1 .. Len(ready_queue[d]) /\ ready_queue'[d][i] = ready_queue[d][i]
        \/ d = c /\ i + 1 \in 1 .. Len(q) /\ i + 1 # 1 /\ ready_queue'[d][i] = q[i + 1]
  <2>1. ASSUME NEW d \in Cpus, d # c
        PROVE  ready_queue'[d] = ready_queue[d]
    BY ONLY <1>2, <2>1, Zenon
  <2>2. ASSUME NEW i \in 1 .. Len(ready_queue'[c])
        PROVE  i + 1 \in 1 .. Len(q) /\ i + 1 # 1 /\ ready_queue'[c][i] = q[i + 1]
    BY ONLY <1>1, <1>3, <2>2
  <2> QED
    BY ONLY <2>1, <2>2, Zenon
<1>5. InQueue(n) /\ c \in cpumask[n]
  BY <1>1, Zenon DEF InQueue, QueueMask
<1>6. QueueOnce'
  BY <1>1, <1>4, SMTT(40) DEF QueueOnce
<1>7. QueueMask'
  <2>1. UNCHANGED cpumask
    BY Zenon DEF Pick, taskVars
  <2>2. ASSUME NEW d \in Cpus, NEW i \in 1 .. Len(ready_queue'[d])
        PROVE  d \in cpumask[ready_queue'[d][i]]
    BY <1>4, <2>2, SMTT(40) DEF QueueMask
  <2> QED
    BY <2>1, <2>2, Zenon DEF QueueMask
<1>8. ASSUME NEW u \in All, InQueue(u)' PROVE InQueue(u) /\ u # n
  <2>1. PICK d \in Cpus :
          \E i \in 1 .. Len(ready_queue'[d]) : ready_queue'[d][i] = u
    BY <1>8, Zenon DEF InQueue
  <2>2. PICK i \in 1 .. Len(ready_queue'[d]) : ready_queue'[d][i] = u
    BY <2>1, Zenon
  <2>3. CASE d # c
    BY <1>1, <1>2, <2>2, <2>3, SMTT(40) DEF InQueue, QueueOnce
  <2>4. CASE d = c
    BY <1>1, <1>4, <2>2, <2>4, SMTT(40) DEF InQueue, QueueOnce
  <2> QED
    BY <2>3, <2>4, Zenon
<1>9. ASSUME NEW u \in All, InQueue(u), u # n PROVE InQueue(u)'
  <2>1. PICK d \in Cpus : \E i \in 1 .. Len(ready_queue[d]) : ready_queue[d][i] = u
    BY <1>9, Zenon DEF InQueue
  <2>2. PICK i \in 1 .. Len(ready_queue[d]) : ready_queue[d][i] = u
    BY <2>1, Zenon
  <2>3. CASE d # c
    BY <1>2, <2>2, <2>3, Zenon DEF InQueue
  <2>4. CASE d = c
    <3>1. i - 1 \in 1 .. Len(ready_queue'[c]) /\ ready_queue'[c][i - 1] = u
      BY <1>1, <1>3, <1>9, <2>2, <2>4, SMTT(40)
    <3> QED
      BY <3>1, Zenon DEF InQueue
  <2> QED
    BY <2>3, <2>4, Zenon
<1> QED
  BY <1>1, <1>2, <1>5, <1>6, <1>7, <1>8, <1>9, Zenon

-----------------------------------------------------------------------------
(* add_task puts a new task in one run queue.                              *)
LEMMA SpawnPlace ==
  ASSUME PlaceInv, NEW c \in Cpus, NEW t \in Tasks, NEW r \in Cpus, Spawn(c, t, r)
  PROVE  PlaceInv'
<1> USE TasksAssumption DEF PlaceInv, Spawn, InTask, All, Optional
<1>x. /\ \A u \in All : life'[u] = IF u = t THEN "live" ELSE life[u]
      /\ life[t] = "new" /\ InTask(c)
      /\ UNCHANGED <<state, cpumask, current, next_task, pc, waking, target, moving,
                     exited>>
  BY Zenon DEF TypeOK, PcInv
<1> USE <1>x
<1>a. ~Held(t) /\ ~InQueue(t)
  BY HeldFacts, Zenon DEF HeldInv
<1>b. QueueOnce' /\ \A u \in All : InQueue(u)' <=> InQueue(u) \/ u = t
  BY EnqueueOnce, <1>a, Zenon
<1>c. \A u \in All : Held(u)' <=> Held(u) \/ u = t
  BY <1>b, Zenon DEF Held
<1>1. TypeOK'
  BY EnqueueFacts, SMTT(40) DEF TypeOK
<1> HIDE DEF Spawn, InTask
<1>2. PcInv' /\ ActiveInv'
  BY DEF PcInv, ActiveInv, Active, Running
<1>3. HeldInv'
  BY <1>c, Zenon DEF HeldInv, LifeInv
<1>4. QueueOnly'
  BY <1>a, <1>b, Zenon DEF QueueOnly, Held
<1>5. HoldOnce'
  BY ZenonT(40) DEF HoldOnce
<1>6. ReadyHeld'
  BY <1>c, Zenon DEF ReadyHeld
<1>7. IdleInv' /\ LifeInv'
  BY DEF IdleInv, LifeInv, Running
<1>8. QueueMask'
  BY EnqueueMask, Zenon DEF Spawn
<1>9. MaskInv'
  BY Zenon DEF MaskInv, Running
<1> QED
  BY <1>b, <1>1, <1>2, <1>3, <1>4, <1>5, <1>6, <1>7, <1>8, <1>9, Zenon

(* yield_current puts the current task in its own CPU's queue, and the     *)
(* idle task in none.                                                      *)
LEMMA YieldPlace ==
  ASSUME PlaceInv, NEW c \in Cpus, Yield(c)
  PROVE  PlaceInv'
<1> DEFINE t == current[c]
<1> USE TasksAssumption DEF PlaceInv, Yield, InTask, Goto, All, Optional, is_idle
<1>x. /\ \A d \in Cpus : pc'[d] = IF d = c THEN "pick" ELSE pc[d]
      /\ \A u \in All : state'[u] = IF u = t THEN "Ready" ELSE state[u]
      /\ pc[c] = "run" /\ (t = c \/ t \in Tasks)
      /\ UNCHANGED <<cpumask, life, current, next_task, waking, target, moving, exited>>
  BY DEF TypeOK, PcInv
<1> USE <1>x
<1>a. t \in All /\ state[t] = "Running" /\ c \in cpumask[t] /\ ~Held(t) /\ ~InQueue(t)
  BY HeldFacts, Zenon DEF PcInv, Running, HeldInv, MaskInv
<1>b. /\ ready_queue' \in [Cpus -> Seq(Tasks)]
      /\ QueueOnce' /\ QueueMask'
      /\ \A u \in All : InQueue(u)' <=> InQueue(u) \/ (u = t /\ t \in Tasks)
  <2>1. CASE t \in Tasks
    <3>1. Enqueue(c, t)
      BY <2>1, Zenon
    <3> QED
      BY EnqueueOnce, EnqueueMask, EnqueueFacts, <1>a, <2>1, <3>1, Zenon
  <2>2. CASE t \notin Tasks
    <3>1. UNCHANGED <<ready_queue, cpumask>>
      BY <2>2, <1>a, Zenon
    <3> QED
      BY <2>2, <3>1 DEF TypeOK, QueueOnce, QueueMask, InQueue
  <2> QED
    BY <2>1, <2>2, Zenon
<1>c. \A u \in All : Held(u)' <=> Held(u) \/ (u = t /\ t \in Tasks)
  BY <1>b, Zenon DEF Held
<1>1. TypeOK'
  BY <1>b, ZenonT(40) DEF TypeOK, PCs, TaskState
<1> HIDE DEF Yield, InTask, Goto
<1>2. PcInv' /\ ActiveInv'
  BY DEF PcInv, ActiveInv, Active, Running
<1>3. HeldInv'
  BY <1>a, <1>c DEF HeldInv, LifeInv
<1>4. QueueOnly'
  BY <1>a, <1>b, Zenon DEF QueueOnly, Held
<1>5. HoldOnce'
  BY DEF HoldOnce
<1>6. ReadyHeld'
  BY <1>c, Zenon DEF ReadyHeld
<1>7. IdleInv' /\ LifeInv'
  BY <1>a DEF IdleInv, LifeInv, Running
<1>8. MaskInv'
  BY Zenon DEF MaskInv, Running
<1> QED
  BY <1>b, <1>1, <1>2, <1>3, <1>4, <1>5, <1>6, <1>7, <1>8, Zenon

(* A step on c that moves no task between the places: the running task     *)
(* blocks or exits, an exited task is left, contexts are exchanged, exited *)
(* tasks are dropped.                                                      *)
NoMove(c) ==
  LET t == current[c]
  IN /\ UNCHANGED <<ready_queue, next_task, waking, moving, current, target, cpumask>>
     /\ \A d \in Cpus : d # c => pc'[d] = pc[d]
     /\ \A u \in All : u # t => state'[u] = state[u]
     /\ \/ state'[t] = state[t] /\ pc'[c] = pc[c]
        \/ state'[t] = state[t] /\ pc[c] \in {"load", "clear"} /\ pc'[c] \in {"clear", "run"}
        \/ state'[t] = state[t] /\ pc[c] = "exit" /\ pc'[c] = "pick"
        \/ t \in Tasks /\ pc[c] = "run" /\ state'[t] = "Blocked" /\ pc'[c] = "pick"
        \/ t \in Tasks /\ pc[c] = "run" /\ state'[t] = "Exited" /\ pc'[c] = "exit"
     /\ \A u \in All : life'[u] = life[u] \/ (state[u] = "Exited" /\ life'[u] = "dropped")
     /\ \A d \in Cpus, u \in Tasks :
          u \in exited'[d] => u \in exited[d] \/ state'[u] = "Exited"

LEMMA NoMovePlace ==
  ASSUME PlaceInv, TypeOK', NEW c \in Cpus, NoMove(c)
  PROVE  PlaceInv'
<1> DEFINE t == current[c]
<1> USE TasksAssumption DEF PlaceInv, All, NoMove
<1>a. t \in All /\ (state'[t] # state[t] => ~Held(t) /\ state[t] = "Running")
  BY DEF PcInv, Running, HeldInv
<1>b. QueueOnce' /\ QueueOnly' /\ HoldOnce' /\ \A u \in All : Held(u)' <=> Held(u)
  BY HoldFrame, Zenon
<1>1. PcInv' /\ ActiveInv'
  BY SMTT(40) DEF PcInv, ActiveInv, Active, Running
<1>2. HeldInv' /\ ReadyHeld'
  BY <1>a, <1>b DEF HeldInv, ReadyHeld
<1>3. IdleInv' /\ LifeInv'
  BY <1>a, SMTT(40) DEF PcInv, IdleInv, LifeInv, Running
<1>4. QueueMask' /\ MaskInv'
  BY SMTT(40) DEF QueueMask, MaskInv, Running
<1> QED
  BY <1>b, <1>1, <1>2, <1>3, <1>4, Zenon

(* unblock_task: the waker whose compare-and-swap succeeds alone holds the *)
(* task.                                                                   *)
LEMMA UnblockCasPlace ==
  ASSUME PlaceInv, NEW c \in Cpus, NEW t \in Tasks, NEW r \in Cpus,
         UnblockCas(c, t, r)
  PROVE  PlaceInv'
<1> USE TasksAssumption DEF PlaceInv, UnblockCas, Goto, All, Optional
<1>x. /\ \E l \in {"spin", "exit_spin"} :
           /\ l = "spin" <=> pc[c] = "run"
           /\ \A d \in Cpus : pc'[d] = IF d = c THEN l ELSE pc[d]
      /\ \A u \in All : state'[u] = IF u = t THEN "Ready" ELSE state[u]
      /\ \A u \in Cpus : waking'[u] = IF u = c THEN t ELSE waking[u]
      /\ \A u \in Cpus : target'[u] = IF u = c THEN r ELSE target[u]
      /\ pc[c] \in {"run", "exit"} /\ state[t] = "Blocked" /\ r \in cpumask[t]
      /\ UNCHANGED <<cpumask, life, ready_queue, current, next_task, moving, exited>>
  BY DEF TypeOK, PcInv
<1> USE <1>x
<1>a. ~Held(t) /\ life[t] = "live" /\ waking[c] = NoTask
  BY Zenon DEF HeldInv, LifeInv, PcInv
<1>b. QueueOnce' /\ QueueMask' /\ \A u \in All : InQueue(u)' <=> InQueue(u)
  BY DEF QueueOnce, QueueMask, InQueue
<1>c. \A u \in All : Held(u)' <=> Held(u) \/ u = t
  BY <1>a, <1>b, SMTT(40) DEF Held
<1>1. TypeOK'
  BY DEF TypeOK, PCs, TaskState
<1> HIDE DEF UnblockCas, Goto
<1>2. PcInv' /\ ActiveInv'
  BY DEF PcInv, ActiveInv, Active, Running
<1>3. HeldInv' /\ ReadyHeld'
  BY <1>a, <1>c DEF HeldInv, ReadyHeld
<1>4. QueueOnly'
  BY <1>a, <1>b, SMTT(40) DEF QueueOnly, Held
<1>5. HoldOnce'
  BY <1>a, SMTT(40) DEF HoldOnce, Held
<1>6. IdleInv' /\ LifeInv'
  BY <1>a, SMTT(40) DEF IdleInv, LifeInv, Running
<1>7. MaskInv'
  BY DEF PcInv, MaskInv, Running
<1> QED
  BY <1>b, <1>1, <1>2, <1>3, <1>4, <1>5, <1>6, <1>7, Zenon

(* put_task_with_state: the waker puts the task it holds in one queue.     *)
LEMMA UnblockPutPlace ==
  ASSUME PlaceInv, NEW c \in Cpus, UnblockPut(c)
  PROVE  PlaceInv'
<1> DEFINE t == waking[c]
<1> USE TasksAssumption DEF PlaceInv, UnblockPut, Goto, All, Optional, taskVars
<1>x. /\ \E l \in {"run", "exit"} :
           /\ l = "run" <=> pc[c] = "spin"
           /\ \A d \in Cpus : pc'[d] = IF d = c THEN l ELSE pc[d]
      /\ \A u \in Cpus : waking'[u] = IF u = c THEN NoTask ELSE waking[u]
      /\ \A u \in Cpus : target'[u] = IF u = c THEN c ELSE target[u]
      /\ pc[c] \in {"spin", "exit_spin"}
      /\ UNCHANGED <<state, cpumask, life, current, next_task, moving, exited>>
  BY SMTT(40) DEF TypeOK, PcInv
<1> USE <1>x
<1>a. t \in Tasks /\ target[c] \in Cpus /\ Held(t) /\ ~InQueue(t)
  BY HeldFacts, SMTT(40) DEF TypeOK, PcInv, QueueOnly
<1>b. /\ QueueOnce'
      /\ \A u \in All : InQueue(u)' <=> InQueue(u) \/ u = t
  BY EnqueueOnce, <1>a, ZenonT(40)
<1>c. \A u \in All : Held(u)' <=> Held(u)
  BY <1>a, <1>b, SMTT(40) DEF Held
<1>1. TypeOK'
  BY <1>a, EnqueueFacts, SMTT(40) DEF TypeOK, PCs
<1> HIDE DEF UnblockPut, Goto, taskVars
<1>2. PcInv' /\ ActiveInv'
  BY DEF PcInv, ActiveInv, Active, Running
<1>3. HeldInv' /\ ReadyHeld'
  BY <1>c, Zenon DEF HeldInv, ReadyHeld
<1>4. QueueOnly'
  BY <1>a, <1>b, SMTT(40) DEF QueueOnly, HoldOnce
<1>5. HoldOnce'
  BY DEF HoldOnce
<1>6. IdleInv' /\ LifeInv'
  BY DEF PcInv, IdleInv, LifeInv, Running
<1>7. QueueMask'
  BY EnqueueMask, <1>a, Zenon DEF MaskInv, UnblockPut, taskVars
<1>8. MaskInv'
  BY DEF PcInv, MaskInv, Running
<1> QED
  BY <1>b, <1>1, <1>2, <1>3, <1>4, <1>5, <1>6, <1>7, <1>8, Zenon

(* set_current_affinity changes the mask of a running task only.           *)
LEMMA SetAffinityPlace ==
  ASSUME PlaceInv, NEW c \in Cpus, NEW mask \in SUBSET Cpus, SetAffinity(c, mask)
  PROVE  PlaceInv'
<1> DEFINE t == current[c]
<1> USE TasksAssumption DEF PlaceInv, SetAffinity, InTask, All, Optional, cpuVars
<1>x. /\ \A u \in All : cpumask'[u] = IF u = t THEN mask ELSE cpumask[u]
      /\ pc[c] = "run" /\ t \in Tasks /\ c \in mask
      /\ UNCHANGED <<state, life, ready_queue, current, next_task, pc, waking,
                     target, moving, exited>>
  BY Zenon DEF TypeOK, PcInv
<1> USE <1>x
<1>a. t \in Tasks /\ state[t] = "Running" /\ ~Held(t) /\ ~InQueue(t)
  BY HeldFacts, Zenon DEF PcInv, Running, HeldInv
<1>b. QueueOnce' /\ QueueOnly' /\ HoldOnce' /\ \A u \in All : Held(u)' <=> Held(u)
  BY HoldFrame, Zenon
<1>1. TypeOK'
  BY DEF TypeOK
<1> HIDE DEF SetAffinity, InTask, cpuVars
<1>2. PcInv' /\ ActiveInv'
  BY DEF PcInv, ActiveInv, Active, Running
<1>3. HeldInv' /\ ReadyHeld'
  BY <1>b, Zenon DEF HeldInv, ReadyHeld
<1>4. IdleInv' /\ LifeInv'
  BY <1>a, SMTT(40) DEF IdleInv, LifeInv, Running
<1>c. /\ \A d \in Cpus : \A i \in 1 .. Len(ready_queue[d]) :
           ready_queue[d][i] \in All /\ ready_queue[d][i] # t
      /\ \A d \in Cpus :
           /\ next_task[d] # NoTask => next_task[d] \in All /\ next_task[d] # t
           /\ waking[d] # NoTask => waking[d] \in All /\ waking[d] # t
  BY <1>a, HeldFacts DEF TypeOK
<1>5. QueueMask'
  BY <1>c, ZenonT(40) DEF QueueMask
<1>6. MaskInv'
  <2>1. ASSUME NEW d \in Cpus, Running(d) PROVE d \in cpumask'[current[d]]
    <3>1. current[d] \in All /\ (current[d] = t => d = c)
      BY <2>1 DEF PcInv, ActiveInv, Active, Running
    <3>2. d \in cpumask[current[d]]
      BY <2>1, Zenon DEF MaskInv
    <3> QED
      BY <3>1, <3>2
  <2> QED
    BY <1>c, <2>1, ZenonT(40) DEF MaskInv, Running
<1> QED
  BY <1>b, <1>1, <1>2, <1>3, <1>4, <1>5, <1>6, Zenon
=============================================================================
