--------------------------- MODULE RunQueueProofs ---------------------------
(***************************************************************************)
(* Proofs about the scheduler of RunQueue: the operations that choose and  *)
(* switch to a task and that migrate one keep PlaceInv, and with those of  *)
(* PlaceProofs, every step does.  The invariant does not need the on_cpu   *)
(* spin; CpuProofs rests on it.                                            *)
(***************************************************************************)
EXTENDS PlaceProofs

(* migrate_current: the migration task is picked and carries the current   *)
(* task, which is in no other place.                                       *)
LEMMA MigratePlace ==
  ASSUME PlaceInv, NEW c \in Cpus, NEW mask \in SUBSET Cpus, NEW m \in Tasks,
         Migrate(c, mask, m)
  PROVE  PlaceInv'
<1> DEFINE t == current[c]
<1> USE TasksAssumption DEF PlaceInv, Migrate, InTask, Goto, All, Optional
<1>x. /\ \A d \in Cpus : pc'[d] = IF d = c THEN "switch" ELSE pc[d]
      /\ \A u \in All : state'[u] = IF u = t THEN "Ready" ELSE state[u]
      /\ \A u \in All : life'[u] = IF u = m THEN "live" ELSE life[u]
      /\ \A u \in All : cpumask'[u] = IF u = t THEN mask ELSE cpumask[u]
      /\ \A u \in Cpus : next_task'[u] = IF u = c THEN m ELSE next_task[u]
      /\ \A u \in Tasks : moving'[u] = IF u = m THEN t ELSE moving[u]
      /\ pc[c] = "run" /\ t \in Tasks /\ life[m] = "new"
      /\ UNCHANGED <<ready_queue, current, waking, target, exited>>
  BY DEF TypeOK, PcInv
<1> USE <1>x
<1>a. /\ t \in Tasks /\ state[t] = "Running" /\ life[t] = "live" /\ t # m
      /\ ~Held(t) /\ ~InQueue(t) /\ ~Held(m) /\ ~InQueue(m)
  BY HeldFacts, ZenonT(40) DEF PcInv, Running, HeldInv, LifeInv
<1>b. next_task[c] = NoTask /\ moving[m] = NoTask
  BY Zenon DEF PcInv, LifeInv
<1>c. QueueOnce' /\ \A u \in All : InQueue(u)' <=> InQueue(u)
  BY DEF QueueOnce, InQueue
<1>d. \A u \in All : Held(u)' <=> Held(u) \/ u = t \/ u = m
  BY <1>b, <1>c, SMTT(40) DEF Held
<1>1. TypeOK'
  BY DEF TypeOK, PCs, TaskState
<1> HIDE DEF Migrate, InTask, Goto
<1>2. PcInv' /\ ActiveInv'
  BY DEF PcInv, ActiveInv, Active, Running
<1>3. HeldInv' /\ ReadyHeld'
  BY <1>a, <1>d DEF HeldInv, ReadyHeld, LifeInv
<1>4. QueueOnly'
  BY <1>a, <1>c, SMTT(40) DEF QueueOnly
<1>5. HoldOnce'
  BY <1>a, <1>b, SMTT(40) DEF HoldOnce, Held
<1>6. IdleInv' /\ LifeInv'
  BY <1>a, SMTT(40) DEF IdleInv, LifeInv, Running
<1>e. /\ \A d \in Cpus : \A i \in 1 .. Len(ready_queue[d]) :
           ready_queue[d][i] \in All /\ ready_queue[d][i] # t
      /\ \A d \in Cpus :
           /\ next_task[d] # NoTask => next_task[d] \in All /\ next_task[d] # t
           /\ waking[d] # NoTask => waking[d] \in All /\ waking[d] # t
  BY <1>a, HeldFacts, SMTT(40) DEF TypeOK
<1>7. QueueMask'
  BY <1>e DEF QueueMask
<1>8. MaskInv'
  <2>1. ASSUME NEW d \in Cpus, Running(d)' PROVE d \in cpumask'[current[d]]
    <3>1. Running(d) /\ current[d] \in All /\ current[d] # t
      BY <2>1 DEF PcInv, ActiveInv, Active, Running
    <3>2. d \in cpumask[current[d]]
      BY <2>1, <3>1, Zenon DEF MaskInv
    <3> QED
      BY <3>1, <3>2, Zenon
  <2>2. ASSUME NEW d \in Cpus, next_task'[d] # NoTask
        PROVE  d \in cpumask'[next_task'[d]]
    <3>1. CASE d = c
      BY <1>a, <3>1 DEF LifeInv
    <3>2. CASE d # c
      BY <1>e, <2>2, <3>2 DEF MaskInv
    <3> QED
      BY <3>1, <3>2, Zenon
  <2>3. ASSUME NEW d \in Cpus, waking[d] # NoTask
        PROVE  target[d] \in cpumask'[waking[d]]
    BY <1>e, <2>3, Zenon DEF MaskInv
  <2> QED
    BY <2>1, <2>2, <2>3, Zenon DEF MaskInv
<1> QED
  BY <1>c, <1>1, <1>2, <1>3, <1>4, <1>5, <1>6, <1>7, <1>8, Zenon

(* migrate_entry puts the task it carries in one queue, and then exits.    *)
LEMMA MigrateEntryPlace ==
  ASSUME PlaceInv, NEW c \in Cpus, NEW r \in Cpus, MigrateEntry(c, r)
  PROVE  PlaceInv'
<1> DEFINE m == current[c]
           t == moving[m]
<1> USE TasksAssumption DEF PlaceInv, MigrateEntry, Goto, All, Optional
<1>x. /\ \A d \in Cpus : pc'[d] = IF d = c THEN "exit" ELSE pc[d]
      /\ \A u \in All : state'[u] = IF u = m THEN "Exited" ELSE state[u]
      /\ \A u \in Tasks : moving'[u] = IF u = m THEN NoTask ELSE moving[u]
      /\ pc[c] = "run" /\ m \in Tasks /\ r \in cpumask[t]
      /\ UNCHANGED <<cpumask, life, current, next_task, waking, target, exited>>
  BY SMTT(40) DEF TypeOK, PcInv
<1> USE <1>x
<1>a. /\ m \in Tasks /\ state[m] = "Running" /\ ~Held(m)
      /\ t \in Tasks /\ Held(t) /\ ~InQueue(t) /\ t # m
  BY HeldFacts DEF TypeOK, PcInv, Running, HeldInv, QueueOnly
<1>b. /\ QueueOnce'
      /\ \A u \in All : InQueue(u)' <=> InQueue(u) \/ u = t
  BY EnqueueOnce, <1>a, ZenonT(40)
<1>c. \A u \in All : Held(u)' <=> Held(u)
  BY <1>a, <1>b, SMTT(40) DEF Held
<1>1. TypeOK'
  BY <1>a, EnqueueFacts, SMTT(40) DEF TypeOK, PCs, TaskState
<1> HIDE DEF MigrateEntry, Goto
<1>2. PcInv' /\ ActiveInv'
  BY SMTT(40) DEF PcInv, ActiveInv, Active, Running
<1>3. HeldInv' /\ ReadyHeld'
  BY <1>a, <1>c, SMTT(40) DEF HeldInv, ReadyHeld
<1>4. QueueOnly'
  BY <1>a, <1>b, SMTT(40) DEF QueueOnly, HoldOnce
<1>5. HoldOnce'
  BY DEF HoldOnce
<1>6. IdleInv' /\ LifeInv'
  BY <1>a DEF IdleInv, LifeInv, Running
<1>7. QueueMask'
  BY EnqueueMask, <1>a, Zenon DEF MigrateEntry
<1>8. MaskInv'
  BY Zenon DEF MaskInv, Running
<1> QED
  BY <1>b, <1>1, <1>2, <1>3, <1>4, <1>5, <1>6, <1>7, <1>8, Zenon

(* resched moves a task from the head of the queue to the CPU, or takes    *)
(* the idle task, which is in no place.                                    *)
LEMMA PickPlace ==
  ASSUME PlaceInv, NEW c \in Cpus, Pick(c)
  PROVE  PlaceInv'
<1> DEFINE n == next_task'[c]
<1> USE TasksAssumption DEF PlaceInv, Goto, All, Optional, taskVars
<1>a. /\ pc[c] = "pick" /\ next_task[c] = NoTask /\ n \in Tasks \cup {c}
      /\ ready_queue' \in [Cpus -> Seq(Tasks)]
      /\ c \in cpumask[n] /\ state[n] = "Ready" /\ life[n] = "live"
      /\ QueueOnce' /\ QueueMask'
      /\ \A u \in All : InQueue(u)' <=> InQueue(u) /\ u # n
      /\ n \in Tasks => InQueue(n)
  <2>1. pc[c] = "pick" /\ next_task[c] = NoTask
    BY Zenon DEF Pick, PcInv
  <2>2. CASE ready_queue[c] = <<>>
    <3>1. UNCHANGED <<ready_queue, cpumask>> /\ n = c
      BY <2>2, Zenon DEF Pick, TypeOK
    <3>2. /\ state[c] = "Ready" /\ life[c] = "live" /\ c \in cpumask[c]
          /\ ~InQueue(c)
      <4>1. ~InQueue(c)
        BY HeldFacts, Zenon DEF InQueue
      <4> QED
        BY <2>1, <4>1, Zenon DEF IdleInv, Running
    <3> QED
      BY <2>1, <3>1, <3>2 DEF TypeOK, QueueOnce, QueueMask, InQueue
  <2>3. CASE ready_queue[c] # <<>>
    <3>1. n = Head(ready_queue[c])
      BY <2>3, Zenon DEF Pick, TypeOK
    <3> QED
      BY <2>1, <2>3, <3>1, PickQueue, HeldFacts DEF HeldInv
  <2> QED
    BY <2>2, <2>3, Zenon
<1>b. /\ next_task' = [next_task EXCEPT ![c] = n]
      /\ pc' = [pc EXCEPT ![c] = "switch"]
      /\ UNCHANGED <<taskVars, current, prev_task, waking, target, moving, exited>>
  BY ZenonT(40) DEF Pick, TypeOK
<1>x. /\ \A d \in Cpus : next_task'[d] = IF d = c THEN n ELSE next_task[d]
      /\ \A d \in Cpus : pc'[d] = IF d = c THEN "switch" ELSE pc[d]
      /\ UNCHANGED <<state, life, cpumask, current, waking, target, moving, exited>>
  BY <1>b DEF TypeOK
<1>y. /\ pc[c] = "pick" /\ next_task[c] = NoTask /\ n \in Tasks \cup {c}
      /\ c \in cpumask[n] /\ state[n] = "Ready" /\ life[n] = "live"
      /\ \A u \in All : InQueue(u)' <=> InQueue(u) /\ u # n
      /\ n \in Tasks => InQueue(n)
  BY <1>a, Zenon
<1> USE <1>x, <1>y
<1> HIDE DEF n
<1>c. \A u \in All : Held(u)' <=> Held(u) \/ u = n
  BY SMTT(40) DEF Held
<1>1. TypeOK'
  <2>1. \A x \in Optional : [next_task EXCEPT ![c] = x] \in [Cpus -> Optional]
    BY Zenon DEF TypeOK
  <2>2. n \in Optional
    BY <1>a, Zenon
  <2>3. next_task' \in [Cpus -> Optional]
    BY <2>1, <2>2, <1>b, Zenon
  <2>4. pc' \in [Cpus -> PCs]
    BY <1>b, Zenon DEF TypeOK, PCs
  <2> QED
    BY <1>a, <1>b, <2>3, <2>4 DEF TypeOK
<1> HIDE DEF Goto, taskVars
<1>2. PcInv' /\ ActiveInv'
  BY DEF PcInv, ActiveInv, Active, Running
<1>3. HeldInv' /\ ReadyHeld'
  BY <1>c, Zenon DEF HeldInv, ReadyHeld
<1>4. QueueOnly'
  BY DEF QueueOnly
<1>5. HoldOnce'
  <2>1. \A m \in Tasks : moving[m] \in Tasks \cup {NoTask}
    BY Zenon DEF TypeOK
  <2>2. CASE n \in Tasks
    <3>1. /\ \A d \in Cpus : waking[d] # n /\ next_task[d] # n
          /\ \A m \in Tasks : moving[m] # n
      BY <2>2, Zenon DEF QueueOnly
    <3> QED
      BY <3>1 DEF HoldOnce
  <2>3. CASE n = c
    BY <2>1, <2>3, SMTT(40) DEF PcInv, HoldOnce
  <2> QED
    BY <2>2, <2>3, Zenon
<1>6. IdleInv' /\ LifeInv'
  BY DEF IdleInv, LifeInv, Running
<1>7. MaskInv'
  BY Zenon DEF MaskInv, Running
<1> QED
  BY <1>a, <1>1, <1>2, <1>3, <1>4, <1>5, <1>6, <1>7, Zenon

(* switch_to makes the picked task current and Running: it is in no place. *)
LEMMA SwitchToPlace ==
  ASSUME PlaceInv, NEW c \in Cpus, SwitchTo(c)
  PROVE  PlaceInv'
<1> DEFINE n == next_task[c]
<1> USE TasksAssumption DEF PlaceInv, Goto, All, Optional
<1>a. /\ pc[c] = "switch" /\ n \in Tasks \cup {c} /\ Held(n) /\ ~InQueue(n)
      /\ state[n] = "Ready" /\ life[n] = "live" /\ c \in cpumask[n]
  BY HeldFacts DEF SwitchTo, PcInv, HeldInv, QueueOnly, MaskInv
<1>b. /\ state' = [state EXCEPT ![n] = "Running"]
      /\ next_task' = [next_task EXCEPT ![c] = NoTask]
      /\ current' = [current EXCEPT ![c] = n]
      /\ \E l \in {"run", "load"} : pc' = [pc EXCEPT ![c] = l]
      /\ UNCHANGED <<cpumask, life, saved, ready_queue, waking, target, moving, exited>>
  BY <1>a DEF SwitchTo, TypeOK
<1>x. /\ \A u \in All : state'[u] = IF u = n THEN "Running" ELSE state[u]
      /\ \A d \in Cpus : next_task'[d] = IF d = c THEN NoTask ELSE next_task[d]
      /\ \A d \in Cpus : current'[d] = IF d = c THEN n ELSE current[d]
      /\ \E l \in {"run", "load"} :
           \A d \in Cpus : pc'[d] = IF d = c THEN l ELSE pc[d]
      /\ UNCHANGED <<cpumask, life, ready_queue, waking, target, moving, exited>>
  BY <1>a, <1>b DEF TypeOK
<1> USE <1>x
<1>e. on_cpu' \in [All -> BOOLEAN] /\ prev_task' \in [Cpus -> Optional]
  <2>1. CASE current[c] = n
    BY <2>1 DEF SwitchTo, TypeOK
  <2>2. CASE current[c] # n
    <3>1. /\ on_cpu' = [on_cpu EXCEPT ![n] = TRUE]
          /\ prev_task' = [prev_task EXCEPT ![c] = current[c]]
      BY <2>2, Zenon DEF SwitchTo
    <3>2. on_cpu' \in [All -> BOOLEAN]
      BY <3>1, Zenon DEF TypeOK
    <3>3. prev_task' \in [Cpus -> Optional]
      BY <3>1, ZenonT(40) DEF TypeOK
    <3> QED
      BY <3>2, <3>3, Zenon
  <2> QED
    BY <2>1, <2>2, Zenon
<1>c. QueueOnce' /\ QueueMask' /\ \A u \in All : InQueue(u)' <=> InQueue(u)
  BY SMTT(40) DEF QueueOnce, QueueMask, InQueue
<1>d. \A u \in All : Held(u)' <=> Held(u) /\ u # n
  BY <1>a, <1>c, SMTT(40) DEF Held, HoldOnce
<1>1. TypeOK'
  <2>1. state' \in [All -> TaskState] /\ next_task' \in [Cpus -> Optional]
    BY <1>b, Zenon DEF TypeOK, TaskState
  <2>2. current' \in [Cpus -> All] /\ pc' \in [Cpus -> PCs]
    BY <1>a, <1>b, SMTT(40) DEF TypeOK, PCs
  <2> QED
    BY <1>b, <1>e, <2>1, <2>2 DEF TypeOK
<1> HIDE DEF Goto
<1>2. PcInv' /\ ActiveInv'
  BY <1>a, SMTT(40) DEF PcInv, ActiveInv, Active, Running
<1>p. QueueOnly /\ HeldInv /\ ReadyHeld /\ HoldOnce /\ Tasks \subseteq All /\ NoTask \notin All
  BY Zenon
<1>3. HeldInv' /\ ReadyHeld'
  BY ONLY <1>a, <1>d, <1>p, <1>x, ZenonT(40) DEF HeldInv, ReadyHeld
<1>4. QueueOnly'
  <2> SUFFICES ASSUME NEW u \in All, InQueue(u)'
               PROVE  /\ \A d \in Cpus : waking'[d] # u /\ next_task'[d] # u
                      /\ \A m \in Tasks : moving'[m] # u
    BY DEF QueueOnly
  <2>1. InQueue(u)
    BY <1>c
  <2>2. /\ \A d \in Cpus : waking[d] # u /\ next_task[d] # u
        /\ \A m \in Tasks : moving[m] # u
    BY ONLY <1>p, <2>1, u \in All DEF QueueOnly
  <2> QED
    BY ONLY <1>p, <1>x, <2>2, u \in All, Zenon
<1>5. HoldOnce'
  BY ONLY <1>p, <1>x DEF HoldOnce
<1>6. IdleInv' /\ LifeInv'
  BY <1>a, SMTT(40) DEF IdleInv, LifeInv, Running
<1>7. MaskInv'
  BY <1>a DEF MaskInv, Running
<1> QED
  BY <1>c, <1>1, <1>2, <1>3, <1>4, <1>5, <1>6, <1>7, Zenon

(* init and init_secondary establish the invariant.                        *)
LEMMA InitPlace == Init => PlaceInv
<1> SUFFICES ASSUME Init PROVE PlaceInv
  BY Zenon
<1> USE TasksAssumption DEF Init, All, Optional
<1>a. \A t : ~InQueue(t)
  BY DEF InQueue
<1>b. \A t \in All : ~Held(t)
  BY <1>a, Zenon DEF Held
<1>1. TypeOK
  BY DEF TypeOK, PCs, TaskState
<1>2. PcInv /\ ActiveInv
  BY Zenon DEF PcInv, ActiveInv, Active, Running
<1>3. HeldInv /\ ReadyHeld
  BY <1>b, Zenon DEF HeldInv, ReadyHeld
<1>4. QueueOnce /\ QueueOnly /\ HoldOnce /\ QueueMask
  BY <1>a DEF QueueOnce, QueueOnly, HoldOnce, QueueMask
<1>5. IdleInv /\ LifeInv
  BY Zenon DEF IdleInv, LifeInv, Running
<1>6. MaskInv
  BY Zenon DEF MaskInv, Running
<1> QED
  BY <1>1, <1>2, <1>3, <1>4, <1>5, <1>6, Zenon DEF PlaceInv

(* Every step of the scheduler keeps the invariant.                        *)
LEMMA NextPlace == PlaceInv /\ [Next]_vars => PlaceInv'
<1> SUFFICES ASSUME PlaceInv, [Next]_vars PROVE PlaceInv'
  BY Zenon
<1>0. TypeOK /\ LifeInv
  BY Zenon DEF PlaceInv
<1>1. CASE UNCHANGED vars
  <2>1. TypeOK' /\ \A c \in Cpus : NoMove(c)
    BY <1>0, <1>1, Zenon DEF vars, taskVars, cpuVars, TypeOK, NoMove
  <2> QED
    BY <2>1, NoMovePlace, TasksAssumption, Zenon
<1>2. ASSUME NEW c \in Cpus, Block(c) \/ Exit(c) PROVE PlaceInv'
  <2>a. ASSUME Block(c) PROVE TypeOK'
    BY <1>0, <2>a, Zenon DEF Block, InTask, Goto, TypeOK, PCs, TaskState, All
  <2>b. ASSUME Exit(c) PROVE TypeOK'
    BY <1>0, <2>b, Zenon DEF Exit, InTask, Goto, TypeOK, PCs, TaskState, All
  <2>1. TypeOK'
    BY <1>2, <2>a, <2>b, Zenon
  <2>2. NoMove(c)
    BY <1>0, <1>2, ZenonT(40) DEF Block, Exit, InTask, Goto, TypeOK, NoMove, All
  <2> QED
    BY <2>1, <2>2, NoMovePlace, Zenon
<1>3. ASSUME NEW c \in Cpus, ExitPush(c) PROVE PlaceInv'
  <2>1. current[c] \in Tasks /\ state[current[c]] = "Exited"
    BY <1>3, Zenon DEF ExitPush, PlaceInv, PcInv
  <2>2. TypeOK'
    BY <1>0, <1>3, <2>1, Zenon DEF ExitPush, Goto, TypeOK, PCs, taskVars
  <2>3. NoMove(c)
    BY <1>0, <1>3, <2>1, Zenon DEF ExitPush, Goto, TypeOK, NoMove, taskVars
  <2> QED
    BY <2>2, <2>3, NoMovePlace, Zenon
<1>4. ASSUME NEW c \in Cpus, ContextSwitch(c) \/ ClearPrev(c) PROVE PlaceInv'
  <2>1. on_cpu' \in [All -> BOOLEAN] /\ saved' \in [All -> BOOLEAN]
    BY <1>0, <1>4, Zenon DEF ContextSwitch, ClearPrev, TypeOK
  <2>2. /\ \E l \in {"clear", "run"} : pc' = [pc EXCEPT ![c] = l]
        /\ UNCHANGED <<state, cpumask, life, ready_queue, current, prev_task,
                       next_task, waking, target, moving, exited>>
    BY <1>4, Zenon DEF ContextSwitch, ClearPrev, Goto
  <2>3. TypeOK'
    BY <1>0, <2>1, <2>2, ZenonT(40) DEF TypeOK, PCs
  <2>4. NoMove(c)
    BY <1>0, <1>4, <2>2, Zenon DEF ContextSwitch, ClearPrev, Goto, TypeOK, NoMove
  <2> QED
    BY <2>3, <2>4, NoMovePlace, Zenon
<1>5. ASSUME NEW c \in Cpus, NEW t \in Tasks, GcDrop(c, t) PROVE PlaceInv'
  <2>1. state[t] = "Exited"
    BY <1>0, <1>5, Zenon DEF GcDrop, LifeInv
  <2>2. TypeOK'
    BY <1>0, <1>5, Zenon DEF GcDrop, TypeOK, cpuVars, All
  <2>3. NoMove(c)
    BY <1>0, <1>5, <2>1, Zenon DEF GcDrop, TypeOK, NoMove, cpuVars, All
  <2> QED
    BY <2>2, <2>3, NoMovePlace, Zenon
<1>6. ASSUME NEW c \in Cpus, Scheduler(c) PROVE PlaceInv'
  BY <1>3, <1>4, <1>6, UnblockPutPlace, PickPlace, SwitchToPlace, MigrateEntryPlace, Zenon DEF Scheduler
<1>7. ASSUME NEW c \in Cpus, Task(c) PROVE PlaceInv'
  BY <1>5, <1>7, SpawnPlace, UnblockCasPlace, SetAffinityPlace, MigratePlace, Zenon DEF Task
<1>8. ASSUME NEW c \in Cpus, LeaveCpu(c) PROVE PlaceInv'
  BY <1>2, <1>8, YieldPlace, Zenon DEF LeaveCpu
<1> QED
  BY <1>1, <1>6, <1>7, <1>8, Zenon DEF Next

(* The invariant is about the run queues what ReadyInOnePlace says.        *)
LEMMA OnePlace == PlaceInv => ReadyInOnePlace
<1> SUFFICES ASSUME PlaceInv, NEW t \in Tasks
             PROVE  /\ (life[t] = "live" /\ state[t] = "Ready") =>
                         \E p \in Places(t) : Places(t) = {p}
                    /\ state[t] # "Ready" => Places(t) = {}
  BY Zenon DEF ReadyInOnePlace
<1> USE TasksAssumption DEF PlaceInv
<1>a. /\ t \in All /\ t # NoTask
      /\ \A c \in Cpus : DOMAIN ready_queue[c] = 1 .. Len(ready_queue[c])
  BY DEF TypeOK, All
<1>c. QueueOnce /\ QueueOnly /\ HoldOnce
  BY Zenon
<1>b. \A p : p \in Places(t) <=>
        \/ \E c \in Cpus : \E i \in 1 .. Len(ready_queue[c]) :
             ready_queue[c][i] = t /\ p = <<"queue", c, i>>
        \/ \E c \in Cpus : waking[c] = t /\ p = <<"waking", c>>
        \/ \E c \in Cpus : next_task[c] = t /\ p = <<"next", c>>
        \/ \E m \in Tasks : moving[m] = t /\ p = <<"moving", m>>
  <2>1. \A c \in Cpus : \A p : p \in QueuedOn(t, c) <=>
          \E i \in 1 .. Len(ready_queue[c]) :
            ready_queue[c][i] = t /\ p = <<"queue", c, i>>
    BY <1>a, Zenon DEF QueuedOn
  <2>2. \A p : p \in Queued(t) <=> \E c \in Cpus : p \in QueuedOn(t, c)
    <3> DEFINE S == {QueuedOn(t, c) : c \in Cpus}
    <3>1. \A x : x \in S <=> \E c \in Cpus : x = QueuedOn(t, c)
      BY Zenon
    <3> HIDE DEF S
    <3>2. Queued(t) = UNION S
      BY Zenon DEF Queued, S
    <3> QED
      BY ONLY <3>1, <3>2, ZenonT(40)
  <2>3. \A p : p \in Woken(t) <=>
          \E c \in Cpus : waking[c] = t /\ p = <<"waking", c>>
    BY Zenon DEF Woken
  <2>4. \A p : p \in Picked(t) <=>
          \E c \in Cpus : next_task[c] = t /\ p = <<"next", c>>
    BY Zenon DEF Picked
  <2>5. \A p : p \in Carried(t) <=>
          \E m \in Tasks : moving[m] = t /\ p = <<"moving", m>>
    BY Zenon DEF Carried
  <2>6. \A p : p \in Places(t) <=>
          p \in Queued(t) \/ p \in Woken(t) \/ p \in Picked(t) \/ p \in Carried(t)
    BY Zenon DEF Places
  <2> QED
    BY ONLY <2>1, <2>2, <2>3, <2>4, <2>5, <2>6
<1>1. ASSUME ~Held(t) PROVE Places(t) = {}
  BY <1>b, <1>1, Zenon DEF Held, InQueue
<1>2. ASSUME NEW p, NEW q, p \in Places(t), q \in Places(t) PROVE p = q
  <2>1. CASE InQueue(t)
    BY ONLY <1>a, <1>b, <1>c, <1>2, <2>1 DEF QueueOnce, QueueOnly
  <2>2. CASE ~InQueue(t)
    BY ONLY <1>a, <1>b, <1>c, <1>2, <2>2 DEF InQueue, HoldOnce
  <2> QED
    BY <2>1, <2>2, Zenon
<1>3. ASSUME Held(t) PROVE Places(t) # {}
  <2>1. CASE InQueue(t)
    <3>1. PICK c \in Cpus : \E i \in 1 .. Len(ready_queue[c]) : ready_queue[c][i] = t
      BY <2>1, Zenon DEF InQueue
    <3>2. PICK i \in 1 .. Len(ready_queue[c]) : ready_queue[c][i] = t
      BY <3>1, Zenon
    <3>3. <<"queue", c, i>> \in Places(t)
      BY <1>b, <3>2, Zenon
    <3> QED
      BY <3>3, Zenon
  <2>2. CASE ~InQueue(t)
    BY <1>b, <1>3, <2>2, Zenon DEF Held
  <2> QED
    BY <2>1, <2>2, Zenon
<1>4. CASE state[t] = "Ready" /\ life[t] = "live"
  <2>1. Held(t)
    BY <1>4, Zenon DEF ReadyHeld
  <2>2. PICK p \in Places(t) : TRUE
    BY <1>3, <2>1, Zenon
  <2>3. Places(t) = {p}
    BY <1>2, <2>2, Zenon
  <2> QED
    BY <1>4, <2>2, <2>3, Zenon
<1>5. CASE state[t] # "Ready"
  BY <1>a, <1>1, <1>5, Zenon DEF HeldInv
<1> QED
  BY <1>4, <1>5, Zenon

(* A Ready task waits in exactly one place, on a CPU of its mask, and what *)
(* resched picks is Ready: its assertion "next is not ready" and the       *)
(* assertion "Migration failed" of set_current_affinity never fire.        *)
THEOREM PlacementAlways == Spec => []Placement
<1>1. PlaceInv => Placement
  <2> SUFFICES ASSUME PlaceInv PROVE Placement
    BY Zenon
  <2>1. TypeOK /\ ReadyInOnePlace
    BY OnePlace, Zenon DEF PlaceInv
  <2>2. PickedReady
    BY HeldFacts DEF PlaceInv, TypeOK, PickedReady, PcInv, HeldInv, All
  <2>3. AffinityRespected
    <3>1. \A c \in Cpus : DOMAIN ready_queue[c] = 1 .. Len(ready_queue[c])
      BY <2>1 DEF TypeOK
    <3> QED
      BY <3>1, Zenon DEF PlaceInv, AffinityRespected, MaskInv, QueueMask, Running
  <2> QED
    BY <2>1, <2>2, <2>3, Zenon DEF Placement
<1> QED
  BY InitPlace, NextPlace, <1>1, PTL DEF Spec
=============================================================================
