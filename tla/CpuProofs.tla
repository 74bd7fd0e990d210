----------------------------- MODULE CpuProofs -----------------------------
(***************************************************************************)
(* Proofs about the scheduler of RunQueue, for any number of CPUs and      *)
(* tasks: which CPU a task occupies.  The inductive invariant (CpuInv)     *)
(* rests on that of RunQueueProofs and on the on_cpu spin.                 *)
(***************************************************************************)
EXTENDS RunQueueProofs

(* c occupies t: t is its current task, or the one it is leaving.          *)
Occupies(c, t) ==
  current[c] = t \/ (pc[c] \in {"load", "clear"} /\ prev_task[c] = t)

(* A CPU switches between two tasks, its idle task or others.              *)
PrevInv ==
  \A c \in Cpus : pc[c] \in {"load", "clear"} =>
    prev_task[c] \in Tasks \cup {c} /\ prev_task[c] # current[c]

(* on_cpu is set for the tasks a CPU occupies.                             *)
OnCpuInv ==
  \A t \in All : on_cpu[t] <=> \E c \in Cpus : Occupies(c, t)

InQueueOf(c, t) == \E i \in 1 .. Len(ready_queue[c]) : ready_queue[c][i] = t

(* No two CPUs occupy one task.  A task a CPU occupies is queued, picked   *)
(* and listed as exited on that CPU only; the migration task that carries  *)
(* it is the one this CPU is switching to.                                 *)
OccupyInv ==
  \A d \in Cpus, t \in All : Occupies(d, t) =>
    /\ life[t] = "live"
    /\ \A c \in Cpus :
         Occupies(c, t) \/ InQueueOf(c, t) \/ next_task[c] = t \/ t \in exited[c]
           => c = d
    /\ \A m \in Tasks : moving[m] = t =>
         \/ pc[d] = "switch" /\ next_task[d] = m
         \/ pc[d] \in {"load", "clear"} /\ current[d] = m

(* A context is saved unless it is loaded on a CPU.                        *)
SavedInv ==
  \A t \in All : saved[t] <=> \A c \in Cpus : Executing(c) # t

CpuInv == PrevInv /\ OnCpuInv /\ OccupyInv /\ SavedInv

-----------------------------------------------------------------------------
(* A step that changes neither the current and previous tasks nor the      *)
(* flags, and does not begin or end a switch on c.                         *)
Quiet(c) ==
  /\ UNCHANGED <<current, prev_task, on_cpu, saved>>
  /\ pc[c] \notin {"load", "clear"}
  /\ \E l \in PCs \ {"load", "clear"} : pc' = [pc EXCEPT ![c] = l]

LEMMA QuietCpu ==
  ASSUME TypeOK, CpuInv, NEW c \in Cpus, Quiet(c)
  PROVE  /\ PrevInv' /\ OnCpuInv' /\ SavedInv'
         /\ \A d \in Cpus, t \in All : Occupies(d, t)' <=> Occupies(d, t)
         /\ \A d \in Cpus : d # c => pc'[d] = pc[d]
<1>1. \A d \in Cpus : /\ d # c => pc'[d] = pc[d]
                      /\ pc'[d] = "load" <=> pc[d] = "load"
                      /\ pc'[d] = "clear" <=> pc[d] = "clear"
  BY Zenon DEF Quiet, TypeOK, PCs
<1>2. UNCHANGED <<current, prev_task, on_cpu, saved>>
  BY Zenon DEF Quiet
<1>3. \A d \in Cpus, t \in All : Occupies(d, t)' <=> Occupies(d, t)
  BY <1>1, <1>2, Zenon DEF Occupies
<1>4. \A d \in Cpus : Executing(d)' = Executing(d)
  BY <1>1, <1>2, Zenon DEF Executing
<1>5. PrevInv'
  BY <1>1, <1>2, Zenon DEF CpuInv, PrevInv
<1>6. OnCpuInv'
  BY <1>2, <1>3, Zenon DEF CpuInv, OnCpuInv
<1>7. SavedInv'
  BY <1>2, <1>4, Zenon DEF CpuInv, SavedInv
<1> QED
  BY <1>1, <1>3, <1>5, <1>6, <1>7, Zenon

(* What the invariant says of the CPU c and its current task.              *)
LEMMA CurrentFacts ==
  ASSUME PlaceInv, CpuInv, NEW c \in Cpus
  PROVE  /\ current[c] \in All /\ Occupies(c, current[c])
         /\ \A d \in Cpus : Occupies(d, current[c]) => d = c
         /\ pc[c] \notin {"switch", "load", "clear"} =>
              \A m \in Tasks : moving[m] # current[c]
<1>1. current[c] \in All /\ Occupies(c, current[c])
  BY Zenon DEF PlaceInv, TypeOK, Occupies
<1> QED
  BY <1>1, Zenon DEF CpuInv, OccupyInv

(* An append adds t to the queue of c, and a pick adds to none.            *)
LEMMA EnqueueOf ==
  ASSUME TypeOK, NEW c \in Cpus, NEW t \in Tasks, Enqueue(c, t)
  PROVE  \A d \in Cpus, u \in All :
           InQueueOf(d, u)' => InQueueOf(d, u) \/ (d = c /\ u = t)
<1>1. \A d \in Cpus : \A i \in 1 .. Len(ready_queue'[d]) :
        \/ i \in 1 .. Len(ready_queue[d]) /\ ready_queue'[d][i] = ready_queue[d][i]
        \/ d = c /\ i = Len(ready_queue[c]) + 1 /\ ready_queue'[d][i] = t
  BY EnqueueStep
<1> QED
  BY <1>1, Zenon DEF InQueueOf

LEMMA PickOf ==
  ASSUME TypeOK, NEW c \in Cpus, Pick(c)
  PROVE  /\ \A d \in Cpus, u \in All : InQueueOf(d, u)' => InQueueOf(d, u)
         /\ \A d \in Cpus : next_task'[d] =
              IF d # c THEN next_task[d]
              ELSE IF ready_queue[c] = <<>> THEN c ELSE Head(ready_queue[c])
         /\ ready_queue[c] # <<>> =>
              Head(ready_queue[c]) \in Tasks /\ InQueueOf(c, Head(ready_queue[c]))
<1>1. CASE ready_queue[c] = <<>>
  BY <1>1, Zenon DEF TypeOK, Pick, InQueueOf
<1>2. CASE ready_queue[c] # <<>>
  <2> DEFINE q == ready_queue[c]
  <2>1. /\ Len(q) \in Nat /\ Len(q) # 0 /\ Head(q) = q[1] /\ Head(q) \in Tasks
        /\ Len(Tail(q)) = Len(q) - 1
        /\ \A i \in 1 .. Len(q) - 1 : i + 1 \in 1 .. Len(q) /\ Tail(q)[i] = q[i + 1]
    BY <1>2 DEF TypeOK
  <2>2. /\ \A d \in Cpus : d # c => ready_queue'[d] = ready_queue[d]
        /\ ready_queue'[c] = Tail(q)
        /\ \A d \in Cpus : next_task'[d] = IF d # c THEN next_task[d] ELSE Head(q)
    BY <1>2, Zenon DEF Pick, TypeOK
  <2>3. InQueueOf(c, Head(q))
    BY <2>1 DEF InQueueOf
  <2>4. ASSUME NEW d \in Cpus, NEW u \in All, InQueueOf(d, u)' PROVE InQueueOf(d, u)
    <3>1. PICK i \in 1 .. Len(ready_queue'[d]) : ready_queue'[d][i] = u
      BY <2>4, Zenon DEF InQueueOf
    <3>2. CASE d # c
      BY <2>2, <3>1, <3>2, Zenon DEF InQueueOf
    <3>3. CASE d = c
      <4>1. i + 1 \in 1 .. Len(q) /\ q[i + 1] = u
        BY <2>1, <2>2, <3>1, <3>3, Zenon
      <4> QED
        BY <3>3, <4>1, Zenon DEF InQueueOf
    <3> QED
      BY <3>2, <3>3, Zenon
  <2> QED
    BY <1>2, <2>1, <2>2, <2>3, <2>4, Zenon
<1> QED
  BY <1>1, <1>2, Zenon

(* Steps that put no task in a place and move none: the current task of c  *)
(* blocks, exits, is listed as exited, or wakes or drops another one.      *)
LEMMA StayCpu ==
  ASSUME PlaceInv, CpuInv, NEW c \in Cpus, NEW t \in Tasks, NEW r \in Cpus,
         Block(c) \/ Exit(c) \/ ExitPush(c) \/ UnblockCas(c, t, r) \/ GcDrop(c, t)
  PROVE  CpuInv'
<1> USE DEF taskVars, cpuVars, InTask, Goto
<1>1. Quiet(c)
  BY DEF PlaceInv, TypeOK, Quiet, PCs, Block, Exit, ExitPush, UnblockCas, GcDrop
<1>2. /\ PrevInv' /\ OnCpuInv' /\ SavedInv'
      /\ \A d \in Cpus, u \in All : Occupies(d, u)' <=> Occupies(d, u)
      /\ \A d \in Cpus : d # c => pc'[d] = pc[d]
  BY <1>1, QuietCpu, Zenon DEF PlaceInv
<1>3. /\ UNCHANGED <<ready_queue, next_task, moving, current>>
      /\ \A d \in Cpus, u \in All : InQueueOf(d, u)' <=> InQueueOf(d, u)
      /\ pc[c] \notin {"switch", "load", "clear"}
  BY Zenon DEF Block, Exit, ExitPush, UnblockCas, GcDrop, InQueueOf
<1>4. ASSUME NEW d \in Cpus, NEW u \in All, Occupies(d, u) PROVE life'[u] = "live"
  <2>1. CASE GcDrop(c, t)
    <3>1. u # t
      BY <1>4, <2>1 DEF GcDrop, CpuInv, OccupyInv, Occupies
    <3> QED
      BY <1>4, <2>1, <3>1 DEF GcDrop, CpuInv, OccupyInv, PlaceInv, TypeOK
  <2>2. CASE UNCHANGED life
    BY <1>4, <2>2, Zenon DEF CpuInv, OccupyInv
  <2> QED
    BY <2>1, <2>2, Zenon DEF Block, Exit, ExitPush, UnblockCas
<1>5. ASSUME NEW d \in Cpus, NEW u \in All, Occupies(d, u), NEW e \in Cpus, u \in exited'[e]
      PROVE  e = d
  <2>1. CASE ExitPush(c)
    <3>1. u \in exited[e] \/ (e = c /\ u = current[c])
      BY <1>5, <2>1, Zenon DEF ExitPush, PlaceInv, TypeOK
    <3> QED
      BY <1>5, <3>1, CurrentFacts DEF CpuInv, OccupyInv
  <2>2. CASE ~ExitPush(c)
    <3>1. u \in exited[e]
      <4>1. CASE GcDrop(c, t)
        BY <1>5, <4>1, Zenon DEF GcDrop, PlaceInv, TypeOK
      <4>2. CASE UNCHANGED exited
        BY <1>5, <4>2, Zenon
      <4> QED
        BY <2>2, <4>1, <4>2, Zenon DEF Block, Exit, UnblockCas
    <3> QED
      BY <1>5, <3>1, Zenon DEF CpuInv, OccupyInv
  <2> QED
    BY <2>1, <2>2, Zenon
<1>6. OccupyInv'
  BY <1>2, <1>3, <1>4, <1>5, CurrentFacts DEF CpuInv, OccupyInv
<1> QED
  BY <1>2, <1>6, Zenon DEF CpuInv

(* A change of the mask is none of the occupied tasks.                     *)
LEMMA SetAffinityCpu ==
  ASSUME CpuInv, NEW c \in Cpus, NEW mask \in SUBSET Cpus, SetAffinity(c, mask)
  PROVE  CpuInv'
  BY DEF SetAffinity, cpuVars, CpuInv, PrevInv, OnCpuInv, OccupyInv, SavedInv,
         Occupies, Executing, InQueueOf

(* A new task goes to a queue: no CPU occupies it.                         *)
LEMMA SpawnCpu ==
  ASSUME PlaceInv, CpuInv, NEW c \in Cpus, NEW t \in Tasks, NEW r \in Cpus,
         Spawn(c, t, r)
  PROVE  CpuInv'
<1> USE DEF InTask
<1>1. Quiet(c)
  BY Zenon DEF PlaceInv, TypeOK, Quiet, PCs, Spawn
<1>2. /\ PrevInv' /\ OnCpuInv' /\ SavedInv'
      /\ \A d \in Cpus, u \in All : Occupies(d, u)' <=> Occupies(d, u)
  BY <1>1, QuietCpu, Zenon DEF PlaceInv
<1>3. \A d \in Cpus, u \in All : InQueueOf(d, u)' => InQueueOf(d, u) \/ u = t
  BY EnqueueOf, Zenon DEF PlaceInv, Spawn
<1>4. \A d \in Cpus : ~Occupies(d, t)
  BY Zenon DEF Spawn, CpuInv, OccupyInv, All
<1>5. OccupyInv'
  BY <1>2, <1>3, <1>4 DEF PlaceInv, TypeOK, Spawn, CpuInv, OccupyInv
<1> QED
  BY <1>2, <1>5, Zenon DEF CpuInv

(* The current task is queued on its own CPU: no other occupies it.        *)
LEMMA YieldCpu ==
  ASSUME PlaceInv, CpuInv, NEW c \in Cpus, Yield(c)
  PROVE  CpuInv'
<1> USE DEF InTask, Goto, is_idle
<1>1. Quiet(c)
  BY Zenon DEF PlaceInv, TypeOK, Quiet, PCs, Yield
<1>2. /\ PrevInv' /\ OnCpuInv' /\ SavedInv'
      /\ \A d \in Cpus, u \in All : Occupies(d, u)' <=> Occupies(d, u)
      /\ \A d \in Cpus : d # c => pc'[d] = pc[d]
  BY <1>1, QuietCpu, Zenon DEF PlaceInv
<1>3. \A d \in Cpus, u \in All :
        InQueueOf(d, u)' => InQueueOf(d, u) \/ (d = c /\ u = current[c])
  <2>1. CASE is_idle(current[c])
    BY <2>1, Zenon DEF Yield, InQueueOf
  <2>2. CASE ~is_idle(current[c])
    BY <2>2, EnqueueOf, Zenon DEF Yield, PlaceInv
  <2> QED
    BY <2>1, <2>2, Zenon
<1>4. OccupyInv'
  BY <1>2, <1>3, CurrentFacts DEF Yield, CpuInv, OccupyInv
<1> QED
  BY <1>2, <1>4, Zenon DEF CpuInv

(* The waker queues the task when no CPU occupies it: the spin on on_cpu.  *)
LEMMA UnblockPutCpu ==
  ASSUME PlaceInv, CpuInv, NEW c \in Cpus, UnblockPut(c)
  PROVE  CpuInv'
<1> DEFINE t == waking[c]
<1> USE DEF Goto, taskVars
<1>1. Quiet(c)
  BY Zenon DEF PlaceInv, TypeOK, Quiet, PCs, UnblockPut
<1>2. /\ PrevInv' /\ OnCpuInv' /\ SavedInv'
      /\ \A d \in Cpus, u \in All : Occupies(d, u)' <=> Occupies(d, u)
      /\ \A d \in Cpus : d # c => pc'[d] = pc[d]
  BY <1>1, QuietCpu, Zenon DEF PlaceInv
<1>3. t \in Tasks /\ target[c] \in Cpus
  BY Zenon DEF PlaceInv, TypeOK, PcInv, UnblockPut
<1>4. \A d \in Cpus, u \in All : InQueueOf(d, u)' => InQueueOf(d, u) \/ u = t
  BY <1>3, EnqueueOf, Zenon DEF PlaceInv, UnblockPut
<1>5. \A d \in Cpus : ~Occupies(d, t)
  BY <1>3, Zenon DEF UnblockPut, CpuInv, OnCpuInv, All
<1>6. OccupyInv'
  BY <1>2, <1>4, <1>5, CurrentFacts DEF UnblockPut, CpuInv, OccupyInv
<1> QED
  BY <1>2, <1>6, Zenon DEF CpuInv

(* The migration task is new, and carries the task its CPU is leaving.     *)
LEMMA MigrateCpu ==
  ASSUME PlaceInv, CpuInv, NEW c \in Cpus, NEW mask \in SUBSET Cpus, NEW m \in Tasks,
         Migrate(c, mask, m)
  PROVE  CpuInv'
<1> USE DEF InTask, Goto
<1>1. Quiet(c)
  BY Zenon DEF PlaceInv, TypeOK, Quiet, PCs, Migrate
<1>2. /\ PrevInv' /\ OnCpuInv' /\ SavedInv'
      /\ \A d \in Cpus, u \in All : Occupies(d, u)' <=> Occupies(d, u)
      /\ \A d \in Cpus : d # c => pc'[d] = pc[d]
  BY <1>1, QuietCpu, Zenon DEF PlaceInv
<1>3. /\ pc[c] = "run" /\ pc'[c] = "switch" /\ UNCHANGED <<current, exited>>
      /\ \A d \in Cpus : next_task'[d] = IF d = c THEN m ELSE next_task[d]
      /\ \A n \in Tasks : moving'[n] = IF n = m THEN current[c] ELSE moving[n]
      /\ \A u \in All : life'[u] = IF u = m THEN "live" ELSE life[u]
      /\ \A d \in Cpus, u \in All : InQueueOf(d, u)' <=> InQueueOf(d, u)
  BY Zenon DEF PlaceInv, TypeOK, Migrate, InQueueOf
<1>4. \A d \in Cpus : ~Occupies(d, m)
  BY Zenon DEF Migrate, CpuInv, OccupyInv, All
<1>5. OccupyInv'
  BY <1>2, <1>3, <1>4, CurrentFacts DEF CpuInv, OccupyInv
<1> QED
  BY <1>2, <1>5, Zenon DEF CpuInv

(* When the migration task runs, no CPU occupies the task it carries.      *)
LEMMA MigrateEntryCpu ==
  ASSUME PlaceInv, CpuInv, NEW c \in Cpus, NEW r \in Cpus, MigrateEntry(c, r)
  PROVE  CpuInv'
<1> DEFINE m == current[c]
           t == moving[m]
<1> USE DEF Goto
<1>1. Quiet(c)
  BY Zenon DEF PlaceInv, TypeOK, Quiet, PCs, MigrateEntry
<1>2. /\ PrevInv' /\ OnCpuInv' /\ SavedInv'
      /\ \A d \in Cpus, u \in All : Occupies(d, u)' <=> Occupies(d, u)
      /\ \A d \in Cpus : d # c => pc'[d] = pc[d]
  BY <1>1, QuietCpu, Zenon DEF PlaceInv
<1>3. /\ m \in Tasks /\ t \in Tasks /\ pc[c] = "run" /\ state[m] = "Running"
      /\ \A d \in Cpus : next_task[d] # m
  <2>1. m \in Tasks /\ t \in Tasks /\ pc[c] = "run" /\ state[m] = "Running"
    BY DEF PlaceInv, TypeOK, PcInv, Running, MigrateEntry
  <2> QED
    BY <2>1, HeldFacts, TasksAssumption, Zenon DEF PlaceInv, HeldInv, All
<1>4. \A d \in Cpus, u \in All : InQueueOf(d, u)' => InQueueOf(d, u) \/ u = t
  BY <1>3, EnqueueOf DEF PlaceInv, MigrateEntry
<1>5. ASSUME NEW d \in Cpus, Occupies(d, t) PROVE FALSE
  <2>1. pc[d] \in {"load", "clear"} /\ current[d] = m
    BY <1>3, <1>5 DEF CpuInv, OccupyInv, All
  <2>2. d = c
    BY <1>3, <2>1, Zenon DEF PlaceInv, ActiveInv, Active, Running
  <2> QED
    BY <1>3, <2>1, <2>2, Zenon
<1>6. \A n \in Tasks : moving'[n] # NoTask => moving'[n] = moving[n]
  BY Zenon DEF PlaceInv, TypeOK, MigrateEntry
<1>7. NoTask \notin All
  BY TasksAssumption, Zenon DEF All
<1>8. UNCHANGED <<current, next_task, life, exited>>
  BY Zenon DEF MigrateEntry
<1>9. OccupyInv'
  BY <1>2, <1>3, <1>4, <1>5, <1>6, <1>7, <1>8, CurrentFacts DEF CpuInv, OccupyInv
<1> QED
  BY <1>2, <1>9, Zenon DEF CpuInv

(* resched picks from its own queue, or its own idle task.                 *)
LEMMA PickCpu ==
  ASSUME PlaceInv, CpuInv, NEW c \in Cpus, Pick(c)
  PROVE  CpuInv'
<1> DEFINE n == next_task'[c]
<1> USE DEF Goto, taskVars
<1>1. Quiet(c)
  BY Zenon DEF PlaceInv, TypeOK, Quiet, PCs, Pick
<1>2. /\ PrevInv' /\ OnCpuInv' /\ SavedInv'
      /\ \A d \in Cpus, u \in All : Occupies(d, u)' <=> Occupies(d, u)
      /\ \A d \in Cpus : d # c => pc'[d] = pc[d]
  BY <1>1, QuietCpu, Zenon DEF PlaceInv
<1>3. /\ \A d \in Cpus, u \in All : InQueueOf(d, u)' => InQueueOf(d, u)
      /\ \A d \in Cpus : d # c => next_task'[d] = next_task[d]
      /\ n = c \/ (n \in Tasks /\ InQueueOf(c, n))
  BY PickOf, Zenon DEF PlaceInv
<1>4. ASSUME NEW d \in Cpus, Occupies(d, n) PROVE d = c
  <2>1. CASE n = c
    BY <1>4, <2>1, TasksAssumption, SMTT(40) DEF Occupies, PlaceInv, PcInv, CpuInv, PrevInv
  <2>2. CASE n \in Tasks /\ InQueueOf(c, n)
    BY <1>4, <2>2 DEF CpuInv, OccupyInv, All
  <2> QED
    BY <1>3, <2>1, <2>2, Zenon
<1>5. pc[c] = "pick" /\ UNCHANGED <<current, moving, life, exited>>
  BY Zenon DEF Pick
<1>6. OccupyInv'
  BY <1>2, <1>3, <1>4, <1>5, CurrentFacts DEF CpuInv, OccupyInv
<1> QED
  BY <1>2, <1>6, Zenon DEF CpuInv

(* switch_to: no CPU occupies the picked task, unless it is current here.  *)
LEMMA SwitchToCpu ==
  ASSUME PlaceInv, CpuInv, NEW c \in Cpus, SwitchTo(c)
  PROVE  CpuInv'
<1> DEFINE n == next_task[c]
           prev == current[c]
<1> USE DEF Goto
<1>1. /\ pc[c] = "switch" /\ n \in Tasks \cup {c} /\ n \in All /\ n # NoTask
      /\ state[n] = "Ready" /\ life[n] = "live" /\ ~InQueue(n)
      /\ \A m \in Tasks : moving[m] # n
      /\ \A d \in Cpus : d # c => next_task[d] # n
      /\ \A d \in Cpus : n \notin exited[d]
  <2>1. pc[c] = "switch" /\ n \in Tasks \cup {c} /\ n # NoTask
    BY Zenon DEF PlaceInv, PcInv, SwitchTo
  <2>2. n \in All /\ Held(n) /\ ~InQueue(n)
    BY <2>1, HeldFacts, Zenon DEF PlaceInv, QueueOnly, All
  <2>3. state[n] = "Ready" /\ life[n] = "live"
    BY <2>2, Zenon DEF PlaceInv, HeldInv
  <2>4. \A d \in Cpus : n \notin exited[d]
    BY <2>1, <2>3, Zenon DEF PlaceInv, TypeOK, LifeInv
  <2>5. /\ \A m \in Tasks : moving[m] # n
        /\ \A d \in Cpus : d # c => next_task[d] # n
    BY <2>1, Zenon DEF PlaceInv, HoldOnce
  <2> QED
    BY <2>1, <2>2, <2>3, <2>4, <2>5, Zenon
<1>2. /\ UNCHANGED <<life, saved, ready_queue, moving, exited>>
      /\ \A d \in Cpus : next_task'[d] = IF d = c THEN NoTask ELSE next_task[d]
      /\ \A d \in Cpus, u \in All : InQueueOf(d, u)' <=> InQueueOf(d, u)
      /\ \A d \in Cpus : d # c => pc'[d] = pc[d]
  BY Zenon DEF PlaceInv, TypeOK, SwitchTo, InQueueOf
<1>3. \A d \in Cpus : ~InQueueOf(d, n)
  BY <1>1, Zenon DEF InQueue, InQueueOf
<1>4. prev \in Tasks \cup {c} /\ prev \in All
  BY Zenon DEF PlaceInv, TypeOK, PcInv
<1>5. \A u \in All : Occupies(c, u) <=> u = prev
  BY <1>1, Zenon DEF Occupies
<1>6. CASE prev = n
  <2>1. UNCHANGED <<current, prev_task, on_cpu>> /\ pc'[c] = "run"
    BY <1>6, Zenon DEF SwitchTo, PlaceInv, TypeOK
  <2>2. \A d \in Cpus, u \in All : Occupies(d, u)' <=> Occupies(d, u)
    BY <1>1, <1>2, <2>1, Zenon DEF Occupies
  <2>3. \A d \in Cpus : Executing(d)' = Executing(d)
    BY <1>1, <1>2, <2>1, Zenon DEF Executing
  <2>4. PrevInv' /\ OnCpuInv' /\ SavedInv'
    BY <1>2, <2>1, <2>2, <2>3, SMTT(40) DEF CpuInv, PrevInv, OnCpuInv, SavedInv
  <2>5. OccupyInv'
    BY <1>1, <1>2, <1>5, <1>6, <2>1, <2>2, TasksAssumption
    DEF CpuInv, OccupyInv, All
  <2> QED
    BY <2>4, <2>5, Zenon DEF CpuInv
<1>7. CASE prev # n
  <2>1. /\ \A u \in All : on_cpu'[u] <=> on_cpu[u] \/ u = n
        /\ \A d \in Cpus : /\ prev_task'[d] = IF d = c THEN prev ELSE prev_task[d]
                           /\ current'[d] = IF d = c THEN n ELSE current[d]
        /\ pc'[c] = "load"
    <3>1. /\ on_cpu' = [on_cpu EXCEPT ![n] = TRUE]
          /\ prev_task' = [prev_task EXCEPT ![c] = prev]
          /\ current' = [current EXCEPT ![c] = n]
          /\ pc' = [pc EXCEPT ![c] = "load"]
      BY <1>7, Zenon DEF SwitchTo
    <3>2. \A u \in All : on_cpu'[u] <=> on_cpu[u] \/ u = n
      BY <3>1, Zenon DEF PlaceInv, TypeOK
    <3> QED
      BY <3>1, <3>2, Zenon DEF PlaceInv, TypeOK
  <2>2. \A d \in Cpus : ~Occupies(d, n)
    <3>1. ASSUME NEW d \in Cpus, Occupies(d, n) PROVE d = c
      BY <1>1, <3>1, Zenon DEF CpuInv, OccupyInv
    <3> QED
      BY <1>1, <1>5, <1>7, <3>1, Zenon
  <2>3. \A d \in Cpus, u \in All :
          Occupies(d, u)' <=> Occupies(d, u) \/ (d = c /\ u = n)
    BY <1>1, <1>2, <1>5, <2>1 DEF Occupies
  <2>4. \A d \in Cpus : Executing(d)' = Executing(d)
    BY <1>1, <1>2, <2>1, Zenon DEF Executing
  <2>5. PrevInv'
    BY <1>2, <1>4, <1>7, <2>1, Zenon DEF CpuInv, PrevInv
  <2>6. OnCpuInv'
    BY <2>1, <2>3, Zenon DEF CpuInv, OnCpuInv
  <2>7. SavedInv'
    BY <1>2, <2>4 DEF CpuInv, SavedInv
  <2>8. OccupyInv'
    <3> SUFFICES ASSUME NEW d \in Cpus, NEW u \in All, Occupies(d, u)'
                 PROVE  /\ life'[u] = "live"
                        /\ \A e \in Cpus :
                             Occupies(e, u)' \/ InQueueOf(e, u)' \/ next_task'[e] = u
                               \/ u \in exited'[e] => e = d
                        /\ \A m \in Tasks : moving'[m] = u =>
                             \/ pc'[d] = "switch" /\ next_task'[d] = m
                             \/ pc'[d] \in {"load", "clear"} /\ current'[d] = m
      BY Zenon DEF OccupyInv
    <3>1. CASE u = n
      BY <1>1, <1>2, <1>3, <2>2, <2>3, <3>1, TasksAssumption, Zenon DEF All
    <3>2. CASE u # n /\ d # c
      BY <1>2, <2>1, <2>3, <3>2, TasksAssumption, SMTT(40) DEF CpuInv, OccupyInv, All
    <3>3. CASE u # n /\ d = c
      BY <1>1, <1>2, <1>5, <2>1, <2>3, <3>3, TasksAssumption DEF CpuInv, OccupyInv, All
    <3> QED
      BY <3>1, <3>2, <3>3, Zenon
  <2> QED
    BY <2>5, <2>6, <2>7, <2>8, Zenon DEF CpuInv
<1> QED
  BY <1>6, <1>7, Zenon

(* The exchange of contexts: what c executed is saved, and what it now     *)
(* executes is not.                                                        *)
LEMMA ContextSwitchCpu ==
  ASSUME PlaceInv, CpuInv, NEW c \in Cpus, ContextSwitch(c)
  PROVE  CpuInv'
<1> DEFINE n == current[c]
           prev == prev_task[c]
<1> USE DEF Goto
<1>1. /\ pc[c] = "load" /\ pc'[c] = "clear" /\ \A d \in Cpus : d # c => pc'[d] = pc[d]
      /\ UNCHANGED <<on_cpu, life, ready_queue, current, prev_task, next_task, moving,
                     exited>>
      /\ n \in All /\ prev \in All /\ prev # n
  BY DEF ContextSwitch, PlaceInv, TypeOK, PcInv, CpuInv, PrevInv, All
<1>2. \A u \in All : saved'[u] <=> (saved[u] \/ u = prev) /\ u # n
  BY <1>1, Zenon DEF ContextSwitch, PlaceInv, TypeOK
<1>3. \A d \in Cpus, u \in All : Occupies(d, u)' <=> Occupies(d, u)
  BY <1>1, Zenon DEF Occupies
<1>4. /\ \A d \in Cpus : d # c => Executing(d)' = Executing(d)
      /\ Executing(c)' = n /\ Executing(c) = prev
  BY <1>1, Zenon DEF Executing
<1>5. \A d \in Cpus : d # c => Executing(d) # prev /\ Executing(d) # n
  BY <1>1 DEF Executing, CpuInv, OccupyInv, Occupies
<1>6. SavedInv'
  BY <1>1, <1>2, <1>4, <1>5 DEF CpuInv, SavedInv
<1>7. PrevInv' /\ OnCpuInv'
  BY <1>1, <1>3, Zenon DEF CpuInv, PrevInv, OnCpuInv
<1>8. \A d \in Cpus, u \in All : InQueueOf(d, u)' <=> InQueueOf(d, u)
  BY <1>1, Zenon DEF InQueueOf
<1>9. OccupyInv'
  BY <1>1, <1>3, <1>8 DEF CpuInv, OccupyInv
<1> QED
  BY <1>6, <1>7, <1>9, Zenon DEF CpuInv

(* clear_prev_task_on_cpu: c occupies only its current task from here on.  *)
LEMMA ClearPrevCpu ==
  ASSUME PlaceInv, CpuInv, NEW c \in Cpus, ClearPrev(c)
  PROVE  CpuInv'
<1> DEFINE n == current[c]
           prev == prev_task[c]
<1> USE DEF Goto
<1>1. /\ pc[c] = "clear" /\ pc'[c] = "run" /\ \A d \in Cpus : d # c => pc'[d] = pc[d]
      /\ UNCHANGED <<saved, life, ready_queue, current, prev_task, next_task, moving,
                     exited>>
      /\ n \in All /\ prev \in All /\ prev # n
  BY DEF ClearPrev, PlaceInv, TypeOK, PcInv, CpuInv, PrevInv, All
<1>2. \A u \in All : on_cpu'[u] <=> on_cpu[u] /\ u # prev
  BY <1>1, Zenon DEF ClearPrev, PlaceInv, TypeOK
<1>3. \A d \in Cpus, u \in All :
        Occupies(d, u)' <=> Occupies(d, u) /\ ~(d = c /\ u = prev)
  BY <1>1, Zenon DEF Occupies
<1>4. Occupies(c, prev)
  BY <1>1, Zenon DEF Occupies
<1>5. \A d \in Cpus : Executing(d)' = Executing(d)
  BY <1>1, Zenon DEF Executing
<1>6. PrevInv' /\ SavedInv'
  BY <1>1, <1>5 DEF CpuInv, PrevInv, SavedInv
<1>7. OnCpuInv'
  BY <1>1, <1>2, <1>3, <1>4 DEF CpuInv, OnCpuInv, OccupyInv
<1>8. \A d \in Cpus, u \in All : InQueueOf(d, u)' <=> InQueueOf(d, u)
  BY <1>1, Zenon DEF InQueueOf
<1>9. \A m \in Tasks : moving[m] # n
  <2>1. state[n] = "Running"
    BY <1>1, Zenon DEF PlaceInv, PcInv, Running
  <2>2. ~Held(n)
    BY <1>1, <2>1, Zenon DEF PlaceInv, HeldInv
  <2> QED
    BY <2>2, Zenon DEF Held
<1>10. OccupyInv'
  BY <1>1, <1>3, <1>8, <1>9 DEF CpuInv, OccupyInv, Occupies
<1> QED
  BY <1>6, <1>7, <1>10, Zenon DEF CpuInv

(* init and init_secondary establish the invariant.                        *)
LEMMA InitCpu == Init => CpuInv
<1> SUFFICES ASSUME Init PROVE CpuInv
  BY Zenon
<1> USE TasksAssumption
<1>1. /\ \A c \in Cpus : /\ pc[c] = "run" /\ next_task[c] = NoTask /\ exited[c] = {}
                         /\ current[c] = IF c = BootCpu THEN Main ELSE c
                         /\ ready_queue[c] = <<>>
      /\ \A m \in Tasks : moving[m] = NoTask
      /\ \A t \in All : /\ on_cpu[t] <=> t \in {Main} \cup (Cpus \ {BootCpu})
                        /\ saved[t] <=> t \notin {Main} \cup (Cpus \ {BootCpu})
      /\ \A t \in Cpus \cup {Main} : life[t] = "live"
  BY Zenon DEF Init, All
<1>2. \A c \in Cpus, t \in All : Occupies(c, t) <=> current[c] = t
  BY <1>1, Zenon DEF Occupies
<1>3. \A c \in Cpus : Executing(c) = current[c]
  BY <1>1, Zenon DEF Executing
<1>4. \A c \in Cpus, t \in All : ~InQueueOf(c, t)
  BY <1>1 DEF InQueueOf
<1>5. PrevInv
  BY <1>1, Zenon DEF PrevInv
<1>6. OnCpuInv
  BY <1>1, <1>2 DEF OnCpuInv, All
<1>7. SavedInv
  BY <1>1, <1>3 DEF SavedInv, All
<1>8. OccupyInv
  BY <1>1, <1>2, <1>4 DEF OccupyInv, All
<1> QED
  BY <1>5, <1>6, <1>7, <1>8, Zenon DEF CpuInv

(* Every step of the scheduler keeps the two invariants.                   *)
LEMMA NextCpu == PlaceInv /\ CpuInv /\ [Next]_vars => CpuInv'
<1> SUFFICES ASSUME PlaceInv, CpuInv, [Next]_vars PROVE CpuInv'
  BY Zenon
<1>1. CASE UNCHANGED vars
  BY <1>1 DEF vars, taskVars, cpuVars, CpuInv, PrevInv, OnCpuInv, OccupyInv, SavedInv,
              Occupies, Executing, InQueueOf
<1>2. ASSUME NEW c \in Cpus, Scheduler(c) PROVE CpuInv'
  <2>1. CASE ExitPush(c)
    BY <2>1, StayCpu, TasksAssumption, Zenon
  <2> QED
    BY <1>2, <2>1, UnblockPutCpu, PickCpu, SwitchToCpu, ContextSwitchCpu, ClearPrevCpu,
       MigrateEntryCpu, Zenon DEF Scheduler
<1>3. ASSUME NEW c \in Cpus, Task(c) PROVE CpuInv'
  <2>1. ASSUME NEW t \in Tasks, GcDrop(c, t) PROVE CpuInv'
    BY <2>1, StayCpu, Zenon
  <2> QED
    BY <1>3, <2>1, SpawnCpu, StayCpu, SetAffinityCpu, MigrateCpu, Zenon DEF Task
<1>4. ASSUME NEW c \in Cpus, LeaveCpu(c) PROVE CpuInv'
  BY <1>4, YieldCpu, StayCpu, TasksAssumption, Zenon DEF LeaveCpu
<1> QED
  BY <1>1, <1>2, <1>3, <1>4, Zenon DEF Next

(* The two invariants hold throughout.                                     *)
LEMMA CpuInvAlways == Spec => [](PlaceInv /\ CpuInv)
  BY InitPlace, NextPlace, InitCpu, NextCpu, PTL DEF Spec

(* No task executes on two CPUs, and a context is loaded only once the CPU *)
(* the task ran on has saved it: what the spin on on_cpu in                *)
(* put_task_with_state is for.                                             *)
THEOREM ExclusiveAlways == Spec => []Exclusive
<1>1. PlaceInv /\ CpuInv => Exclusive
  <2> SUFFICES ASSUME PlaceInv, CpuInv PROVE Exclusive
    BY Zenon
  <2>1. \A c \in Cpus : /\ Executing(c) \in All /\ Occupies(c, Executing(c))
                        /\ current[c] \in All /\ Occupies(c, current[c])
    BY Zenon DEF PlaceInv, TypeOK, CpuInv, PrevInv, Executing, Occupies, All
  <2>2. OneCpuPerTask
    BY <2>1 DEF OneCpuPerTask, CpuInv, OccupyInv
  <2>3. ContextSaved
    <3> SUFFICES ASSUME NEW c \in Cpus, pc[c] = "load" PROVE saved[current[c]]
      BY Zenon DEF ContextSaved
    <3>1. Executing(c) # current[c]
      BY Zenon DEF Executing, CpuInv, PrevInv
    <3>2. \A d \in Cpus : Executing(d) # current[c]
      BY <2>2, <3>1, Zenon DEF OneCpuPerTask
    <3> QED
      BY <2>1, <3>2, Zenon DEF CpuInv, SavedInv
  <2> QED
    BY <2>2, <2>3, Zenon DEF Exclusive
<1> QED
  BY CpuInvAlways, <1>1, PTL

(* gc_entry frees no task a CPU is still switching away from, so the weak  *)
(* reference clear_prev_task_on_cpu upgrades is alive.                     *)
THEOREM PrevNotDroppedAlways == Spec => []PrevNotDropped
<1>1. PlaceInv /\ CpuInv => PrevNotDropped
  <2> SUFFICES ASSUME PlaceInv, CpuInv, NEW c \in Cpus, pc[c] \in {"load", "clear"}
               PROVE  life[prev_task[c]] = "live"
    BY Zenon DEF PrevNotDropped
  <2>1. prev_task[c] \in All /\ Occupies(c, prev_task[c])
    BY Zenon DEF CpuInv, PrevInv, Occupies, All
  <2> QED
    BY <2>1, Zenon DEF CpuInv, OccupyInv
<1> QED
  BY CpuInvAlways, <1>1, PTL
=============================================================================
