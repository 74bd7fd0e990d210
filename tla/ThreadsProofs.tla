--------------------------- MODULE ThreadsProofs ---------------------------
(***************************************************************************)
(* Proofs about Threads, for any sets of tasks, CPUs and exit codes: a     *)
(* task that ends wakes everyone who joins it, the gc task frees only what *)
(* nobody can reach, and a join that returns finds the value of the thread *)
(* and is the only owner of the packet.                                    *)
(*                                                                         *)
(* TasksInv is the inductive invariant of the tasks underneath (Join), in  *)
(* three parts: WaitInv for the wait queues, JoinInv for who waits for     *)
(* whom, GcInv for what is freed.  ThreadsInv adds the packets.            *)
(***************************************************************************)
EXTENDS Threads, TLAPS

ExitPCs == {"store", "pop", "unblock", "bury", "gone"}
JoinPCs == {"lock", "check", "push", "cancel", "read", "returned"}

(* A task is asleep only where it waits in join, and Exited from the first *)
(* step of exit_current on.  A task whose flag is set sleeps.              *)
StateInv ==
  \A t \in Tasks :
    /\ pc[t] \in ExitPCs <=> state[t] = "Exited"
    /\ state[t] \in {"Blocked", "Ready"} => pc[t] = "lock"
    /\ in_wait_queue[t] => state[t] = "Blocked"

(* From its test of the state to its push a joiner has the queue's lock.   *)
GuardInv == \A t \in Tasks : pc[t] \in {"check", "push"} => guard[at[t]] = t

(* Queued tasks have their flag set and are in one place of one queue.     *)
QueueInv ==
  /\ \A q \in Queues : \A i \in DOMAIN queue[q] : in_wait_queue[queue[q][i]]
  /\ \A q, r \in Queues : \A i \in DOMAIN queue[q], j \in DOMAIN queue[r] :
       queue[q][i] = queue[r][j] => q = r /\ i = j

(* A task that was popped sleeps until the task that popped it goes on.    *)
WakeInv ==
  /\ \A t \in Tasks : pc[t] = "unblock" =>
       waking[t] \in Tasks /\ state[waking[t]] = "Blocked" /\ ~in_wait_queue[waking[t]]
  /\ \A t, u \in Tasks :
       pc[t] = "unblock" /\ pc[u] = "unblock" /\ waking[t] = waking[u] => t = u

WaitInv == StateInv /\ GuardInv /\ QueueInv /\ WakeInv

(* A joiner holds a reference to the task it joins, and has left the wait  *)
(* only after that task was Exited.                                        *)
AtInv ==
  \A t \in Tasks :
    /\ pc[t] \in JoinPCs => at[t] \in held[t]
    /\ pc[t] \notin JoinPCs => at[t] = t
    /\ pc[t] \in {"cancel", "read", "returned"} => state[at[t]] = "Exited"

JoinInv == AtInv /\ JoinersWoken

(* EXITED_TASKS has only tasks that are gone, and does not grow during a   *)
(* round of gc_entry.                                                      *)
ListInv ==
  \A c \in Cpus :
    /\ \A i \in DOMAIN exited_tasks[c] : pc[exited_tasks[c][i]] = "gone"
    /\ gc[c] = "loop" => Exiting(c) = {} /\ n[c] <= Len(exited_tasks[c])

FreedInv == \A u \in dropped : pc[u] = "gone" /\ \A t \in Tasks : u \notin held[t]

GcInv == ListInv /\ FreedInv

TasksInv == TypeOK /\ WaitInv /\ JoinInv /\ GcInv

Bodies == {"native", "unborn", "f", "stored", "over", "left"}

PacketTypeOK ==
  /\ body \in [Tasks -> Bodies]
  /\ packet \in [Tasks -> [owners : SUBSET {"handle", "thread"}, result : {None, Ret}]]
  /\ taking \in [Tasks -> Tasks \cup {NoTask}]

(* A program uses the threads of axstd, or axtask itself.                  *)
KindInv == (\A t \in Tasks : body[t] = "native") \/ (\A t \in Tasks : body[t] # "native")

(* A task that is not spawned yet is unknown to everyone.  A thread exits  *)
(* after its closure or through thread::exit.  Once the value is stored it *)
(* stays in the packet as long as there is a handle, and the closure drops *)
(* its reference to the packet at its end.                                 *)
BodyInv ==
  \A u \in Tasks :
    /\ body[u] = "unborn" =>
         pc[u] = "out" /\ \A t \in Tasks : u \notin held[t] /\ taking[t] # u
    /\ pc[u] \in ExitPCs => body[u] \in {"native", "over", "left"}
    /\ body[u] \in {"stored", "over"} /\ "handle" \in packet[u].owners => packet[u].result = Ret
    /\ body[u] = "over" => "thread" \notin packet[u].owners

(* A thread has at most one JoinHandle, held by one task or being consumed *)
(* by a join that has waited for the thread to exit.                       *)
HandleInv ==
  /\ \A t, u \in Tasks : u \in held[t] /\ body[u] # "native" =>
       /\ "handle" \in packet[u].owners
       /\ \A v \in Tasks : taking[v] # u /\ (u \in held[v] => v = t)
  /\ \A t \in Tasks : taking[t] # NoTask =>
       /\ "handle" \in packet[taking[t]].owners /\ body[taking[t]] \in {"over", "left"}
       /\ \A v \in Tasks : taking[v] = taking[t] => v = t

PacketInv == PacketTypeOK /\ KindInv /\ BodyInv /\ HandleInv

ThreadsInv == TasksInv /\ PacketInv

-----------------------------------------------------------------------------
(* What popping the front of a non-empty queue leaves.                     *)
LEMMA TailFacts ==
  ASSUME NEW S, NEW s \in Seq(S), s # <<>>
  PROVE  /\ Head(s) \in S /\ Tail(s) \in Seq(S)
         /\ 1 \in DOMAIN s /\ Head(s) = s[1] /\ Len(Tail(s)) = Len(s) - 1
         /\ \A i \in DOMAIN Tail(s) :
              i + 1 \in DOMAIN s /\ i + 1 # 1 /\ Tail(s)[i] = s[i + 1]
  OBVIOUS

(* What pushing a task at the back of a queue adds.                        *)
LEMMA AppendFacts ==
  ASSUME NEW S, NEW s \in Seq(S), NEW e \in S
  PROVE  /\ Append(s, e) \in Seq(S) /\ Len(Append(s, e)) = Len(s) + 1
         /\ \A i \in DOMAIN Append(s, e) :
              \/ i \in DOMAIN s /\ Append(s, e)[i] = s[i]
              \/ i = Len(s) + 1 /\ Append(s, e)[i] = e
         /\ Len(s) + 1 \notin DOMAIN s
  OBVIOUS

(* All tasks run, nobody waits and nothing has been freed.                 *)
LEMMA InitTasksInv == Init => TasksInv
  <1> SUFFICES ASSUME Init PROVE TasksInv
    BY Zenon
  <1> USE DEF Init, WQInit
  <1>1. TypeOK
    BY DEF TypeOK, WQTypeOK, TaskState, PCs
  <1>2. WaitInv
    BY DEF WaitInv, StateInv, GuardInv, QueueInv, WakeInv, ExitPCs
  <1>3. JoinInv
    BY Zenon DEF JoinInv, AtInv, JoinersWoken, JoinPCs
  <1>4. GcInv
    BY DEF GcInv, ListInv, FreedInv, Exiting
  <1> QED
    BY <1>1, <1>2, <1>3, <1>4, Zenon DEF TasksInv

(* Nothing changes.                                                        *)
LEMMA TasksStutter ==
  ASSUME TasksInv, UNCHANGED vars
  PROVE  TasksInv'
  <1> USE DEF TasksInv, vars, wqVars, taskVars, gcVars
  <1>1. TypeOK'
    BY Zenon DEF TypeOK, WQTypeOK
  <1>2. WaitInv'
    BY DEF WaitInv, StateInv, GuardInv, QueueInv, WakeInv
  <1>3. JoinInv'
    BY Zenon DEF JoinInv, AtInv, JoinersWoken
  <1>4. GcInv'
    BY Zenon DEF GcInv, ListInv, FreedInv, Exiting
  <1> QED
    BY <1>1, <1>2, <1>3, <1>4, Zenon

(* A step that leaves EXITED_TASKS and gc alone, and in which no task      *)
(* begins to exit or comes back, keeps ListInv.                            *)
LEMMA ListFrame ==
  ASSUME TasksInv, UNCHANGED <<exited_tasks, gc, n>>,
         \A c \in Cpus : Exiting(c)' \subseteq Exiting(c),
         \A u \in Tasks : pc[u] = "gone" => pc'[u] = "gone"
  PROVE  ListInv'
  <1> USE DEF TasksInv, TypeOK
  <1>1. ASSUME NEW c \in Cpus, NEW i \in DOMAIN exited_tasks[c]
        PROVE  pc'[exited_tasks[c][i]] = "gone"
    <2>1. exited_tasks[c][i] \in Tasks /\ pc[exited_tasks[c][i]] = "gone"
      BY DEF GcInv, ListInv
    <2> QED
      BY <2>1, Zenon
  <1>2. ASSUME NEW c \in Cpus, gc[c] = "loop"
        PROVE  Exiting(c)' = {} /\ n[c] <= Len(exited_tasks[c])
    BY <1>2, Zenon DEF GcInv, ListInv
  <1> QED
    BY <1>1, <1>2, Zenon DEF ListInv

(* join() is called with a reference to u.                                 *)
LEMMA JoinCallInv ==
  ASSUME TasksInv, Tasks \subseteq Queues, NEW t \in Tasks, NEW u \in Tasks, JoinCall(t, u)
  PROVE  TasksInv'
  <1> USE NoTaskAssumption DEF TasksInv, TypeOK, WQTypeOK, wqVars, gcVars, taskVars, At, Goto,
          JoinCall
  <1>1. TypeOK'
    BY Zenon DEF TaskState, PCs
  <1>2. StateInv' /\ GuardInv'
    BY SMTT(40) DEF WaitInv, StateInv, GuardInv, WakeInv, ExitPCs, TaskState
  <1>3. QueueInv'
    BY DEF WaitInv, StateInv, QueueInv
  <1>4. WakeInv'
    BY SMTT(40) DEF WaitInv, StateInv, QueueInv, WakeInv, ExitPCs
  <1>5. AtInv'
    BY DEF WaitInv, StateInv, JoinInv, AtInv, JoinPCs, ExitPCs
  <1>6. JoinersWoken'
    BY SMTT(40) DEF WaitInv, StateInv, GuardInv, JoinInv, AtInv, JoinersWoken, JoinPCs, ExitPCs
  <1>7. ListInv'
    BY DEF GcInv, ListInv, Exiting
  <1>8. FreedInv'
    BY Zenon DEF GcInv, FreedInv
  <1> QED
    BY <1>1, <1>2, <1>3, <1>4, <1>5, <1>6, <1>7, <1>8, Zenon DEF WaitInv, JoinInv, GcInv

(* A joiner takes the queue's lock.                                        *)
LEMMA LockInv ==
  ASSUME TasksInv, Tasks \subseteq Queues, NEW t \in Tasks, Lock(t)
  PROVE  TasksInv'
  <1> USE NoTaskAssumption DEF TasksInv, TypeOK, WQTypeOK, wqVars, gcVars, taskVars, At, Goto,
          Lock, LockQueue
  <1>1. TypeOK'
    BY Zenon DEF TaskState, PCs
  <1>2. StateInv' /\ GuardInv'
    BY SMTT(40) DEF WaitInv, StateInv, GuardInv, WakeInv, ExitPCs, TaskState
  <1>3. QueueInv'
    BY DEF WaitInv, StateInv, QueueInv
  <1>4. WakeInv'
    BY SMTT(40) DEF WaitInv, StateInv, QueueInv, WakeInv, ExitPCs
  <1>5. AtInv'
    BY DEF WaitInv, StateInv, JoinInv, AtInv, JoinPCs, ExitPCs
  <1>6. JoinersWoken'
    BY DEF WaitInv, StateInv, GuardInv, JoinInv, AtInv, JoinersWoken, JoinPCs, ExitPCs
  <1>7. ListInv'
    BY SMTT(40) DEF GcInv, ListInv, Exiting
  <1>8. FreedInv'
    BY Zenon DEF GcInv, FreedInv
  <1> QED
    BY <1>1, <1>2, <1>3, <1>4, <1>5, <1>6, <1>7, <1>8, Zenon DEF WaitInv, JoinInv, GcInv

(* The joined task is Exited: the joiner leaves.                           *)
LEMMA CheckExitedInv ==
  ASSUME TasksInv, Tasks \subseteq Queues, NEW t \in Tasks, CheckExited(t)
  PROVE  TasksInv'
  <1> USE NoTaskAssumption DEF TasksInv, TypeOK, WQTypeOK, wqVars, gcVars, taskVars, At, Goto,
          CheckExited, UnlockQueue
  <1>1. TypeOK'
    BY Zenon DEF TaskState, PCs
  <1>2. StateInv' /\ GuardInv'
    BY DEF WaitInv, StateInv, GuardInv, WakeInv, ExitPCs, TaskState
  <1>3. QueueInv'
    BY DEF WaitInv, StateInv, QueueInv
  <1>4. WakeInv'
    BY SMTT(40) DEF WaitInv, StateInv, QueueInv, WakeInv, ExitPCs
  <1>5. AtInv'
    BY DEF WaitInv, StateInv, JoinInv, AtInv, JoinPCs, ExitPCs
  <1>6. JoinersWoken'
    BY DEF WaitInv, StateInv, GuardInv, JoinInv, AtInv, JoinersWoken, JoinPCs, ExitPCs
  <1>7. ListInv'
    <2>1. \A c \in Cpus : Exiting(c)' \subseteq Exiting(c)
      BY Zenon DEF Exiting
    <2> QED
      BY <2>1, ListFrame, Zenon
  <1>8. FreedInv'
    BY Zenon DEF GcInv, FreedInv
  <1> QED
    BY <1>1, <1>2, <1>3, <1>4, <1>5, <1>6, <1>7, <1>8, Zenon DEF WaitInv, JoinInv, GcInv

(* The joined task is not Exited yet, and no test comes after this one.    *)
LEMMA CheckAliveInv ==
  ASSUME TasksInv, Tasks \subseteq Queues, NEW t \in Tasks, CheckAlive(t)
  PROVE  TasksInv'
  <1> USE NoTaskAssumption DEF TasksInv, TypeOK, WQTypeOK, wqVars, gcVars, taskVars, At, Goto,
          CheckAlive
  <1>1. TypeOK'
    BY Zenon DEF TaskState, PCs
  <1>2. StateInv' /\ GuardInv'
    BY DEF WaitInv, StateInv, GuardInv, WakeInv, ExitPCs, TaskState
  <1>3. QueueInv'
    BY SMTT(40) DEF WaitInv, StateInv, QueueInv
  <1>4. WakeInv'
    BY SMTT(40) DEF WaitInv, StateInv, QueueInv, WakeInv, ExitPCs
  <1>5. AtInv'
    BY DEF WaitInv, StateInv, JoinInv, AtInv, JoinPCs, ExitPCs
  <1>6. JoinersWoken'
    BY SMTT(40) DEF WaitInv, StateInv, GuardInv, JoinInv, AtInv, JoinersWoken, JoinPCs, ExitPCs
  <1>7. ListInv'
    BY SMTT(40) DEF GcInv, ListInv, Exiting
  <1>8. FreedInv'
    BY Zenon DEF GcInv, FreedInv
  <1> QED
    BY <1>1, <1>2, <1>3, <1>4, <1>5, <1>6, <1>7, <1>8, Zenon DEF WaitInv, JoinInv, GcInv

(* The joiner goes to sleep in the queue of a task that has yet to pop.    *)
LEMMA PushInv ==
  ASSUME TasksInv, Tasks \subseteq Queues, NEW t \in Tasks, Push(t)
  PROVE  TasksInv'
  <1> USE NoTaskAssumption DEF TasksInv, TypeOK, WQTypeOK, wqVars, gcVars, taskVars, At, Goto,
          Push, BlockedResched
  <1>1. TypeOK'
    BY SMTT(40) DEF TaskState, PCs
  <1>2. StateInv' /\ GuardInv'
    BY DEF WaitInv, StateInv, GuardInv, WakeInv, ExitPCs, TaskState
  <1>3. QueueInv'
    <2> DEFINE a == at[t]
    <2>1. a \in Queues /\ ~in_wait_queue[t] /\ queue[a] \in Seq(Tasks)
      BY Zenon DEF WaitInv, StateInv
    <2>2. queue' = [queue EXCEPT ![a] = Append(queue[a], t)]
          /\ in_wait_queue' = [in_wait_queue EXCEPT ![t] = TRUE]
      BY Zenon
    <2> HIDE DEF a
    <2>3. ASSUME NEW q \in Queues, NEW i \in DOMAIN queue'[q]
          PROVE  \/ i \in DOMAIN queue[q] /\ queue'[q][i] = queue[q][i]
                    /\ queue[q][i] \in Tasks /\ in_wait_queue[queue[q][i]] /\ queue[q][i] # t
                 \/ q = a /\ i = Len(queue[a]) + 1 /\ queue'[q][i] = t
      <3>1. queue'[q] = IF q = a THEN Append(queue[a], t) ELSE queue[q]
        BY <2>1, <2>2, Zenon
      <3>2. \/ i \in DOMAIN queue[q] /\ queue'[q][i] = queue[q][i]
            \/ q = a /\ i = Len(queue[a]) + 1 /\ queue'[q][i] = t
        BY ONLY <2>1, <3>1, <2>3, AppendFacts, t \in Tasks, SMTT(40)
      <3>3. i \in DOMAIN queue[q] => queue[q][i] \in Tasks /\ in_wait_queue[queue[q][i]]
        BY DEF WaitInv, QueueInv
      <3> QED
        BY <2>1, <3>2, <3>3, Zenon
    <2>4. ASSUME NEW q \in Queues, NEW i \in DOMAIN queue'[q]
          PROVE  in_wait_queue'[queue'[q][i]]
      <3>1. in_wait_queue \in [Tasks -> BOOLEAN]
        BY Zenon
      <3> QED
        BY ONLY <2>2, <2>3, <3>1, t \in Tasks, Zenon
    <2>4a. QueueInv
      BY Zenon DEF WaitInv
    <2>5. ASSUME NEW q \in Queues, NEW r \in Queues, NEW i \in DOMAIN queue'[q],
                 NEW j \in DOMAIN queue'[r], queue'[q][i] = queue'[r][j]
          PROVE  q = r /\ i = j
      BY ONLY <2>3, <2>4a, <2>5 DEF QueueInv
    <2> QED
      BY ONLY <2>4, <2>5, Zenon DEF QueueInv
  <1>4. WakeInv'
    <2>1. state[t] = "Running" /\ state' = [state EXCEPT ![t] = "Blocked"]
          /\ in_wait_queue' = [in_wait_queue EXCEPT ![t] = TRUE]
          /\ pc' = [pc EXCEPT ![t] = "lock"] /\ waking' = waking
      BY ZenonT(40) DEF WaitInv, StateInv, ExitPCs
    <2>2. ASSUME NEW u \in Tasks, pc'[u] = "unblock"
          PROVE  pc[u] = "unblock" /\ waking[u] \in Tasks \ {t}
                 /\ state[waking[u]] = "Blocked" /\ ~in_wait_queue[waking[u]]
      BY <2>1, <2>2, SMTT(40) DEF WaitInv, WakeInv
    <2>3. ASSUME NEW v \in Tasks, pc'[v] = "unblock"
          PROVE  waking'[v] \in Tasks /\ state'[waking'[v]] = "Blocked"
                 /\ ~in_wait_queue'[waking'[v]]
      BY <2>1, <2>2, <2>3, SMTT(40)
    <2>4. ASSUME NEW v \in Tasks, NEW w \in Tasks, pc'[v] = "unblock", pc'[w] = "unblock",
                 waking'[v] = waking'[w]
          PROVE  v = w
      BY <2>1, <2>2, <2>4, SMTT(40) DEF WaitInv, WakeInv
    <2> QED
      BY ONLY <2>3, <2>4, Zenon DEF WakeInv
  <1>5. AtInv'
    <2>1. ASSUME NEW u \in Tasks PROVE state[u] = "Exited" => state'[u] = "Exited"
      BY Zenon DEF WaitInv, StateInv, ExitPCs
    <2>2. at' = at /\ held' = held /\ pc[t] = "push" /\ pc' = [pc EXCEPT ![t] = "lock"]
      BY Zenon
    <2> QED
      BY <2>1, <2>2, SMTT(40) DEF JoinInv, AtInv, JoinPCs
  <1>6. JoinersWoken'
    BY DEF WaitInv, StateInv, GuardInv, JoinInv, AtInv, JoinersWoken, JoinPCs, ExitPCs
  <1>7. ListInv'
    <2>1. \A c \in Cpus : Exiting(c)' \subseteq Exiting(c)
      BY Zenon DEF Exiting
    <2> QED
      BY <2>1, ListFrame, Zenon
  <1>8. FreedInv'
    BY Zenon DEF GcInv, FreedInv
  <1> QED
    BY <1>1, <1>2, <1>3, <1>4, <1>5, <1>6, <1>7, <1>8, Zenon DEF WaitInv, JoinInv, GcInv

(* cancel_events finds the flag clear, so it leaves the queue alone.       *)
LEMMA CancelInv ==
  ASSUME TasksInv, Tasks \subseteq Queues, NEW t \in Tasks, Cancel(t)
  PROVE  TasksInv'
  <1>0. UNCHANGED wqVars /\ pc[t] = "cancel" /\ Goto(t, "read")
        /\ UNCHANGED <<at, waking, exit_code, code, result, held, cpu, gcVars>>
    BY ZenonT(40) DEF TasksInv, TypeOK, WQTypeOK, WaitInv, StateInv, Cancel, CancelEvents, At, wqVars
  <1> USE <1>0, NoTaskAssumption DEF TasksInv, TypeOK, WQTypeOK, wqVars, gcVars, taskVars, Goto
  <1>1. TypeOK'
    BY Zenon DEF TaskState, PCs
  <1>2. StateInv' /\ GuardInv'
    BY SMTT(40) DEF WaitInv, StateInv, GuardInv, WakeInv, ExitPCs, TaskState
  <1>3. QueueInv'
    BY SMTT(40) DEF WaitInv, StateInv, QueueInv
  <1>4. WakeInv'
    BY SMTT(40) DEF WaitInv, StateInv, QueueInv, WakeInv, ExitPCs
  <1>5. AtInv'
    BY SMTT(40) DEF WaitInv, StateInv, JoinInv, AtInv, JoinPCs, ExitPCs
  <1>6. JoinersWoken'
    BY SMTT(40) DEF WaitInv, StateInv, GuardInv, JoinInv, AtInv, JoinersWoken, JoinPCs, ExitPCs
  <1>7. ListInv'
    BY DEF GcInv, ListInv, Exiting
  <1>8. FreedInv'
    BY Zenon DEF GcInv, FreedInv
  <1> QED
    BY <1>1, <1>2, <1>3, <1>4, <1>5, <1>6, <1>7, <1>8, Zenon DEF WaitInv, JoinInv, GcInv

(* join() reads the exit code.                                             *)
LEMMA ReadCodeInv ==
  ASSUME TasksInv, Tasks \subseteq Queues, NEW t \in Tasks, ReadCode(t)
  PROVE  TasksInv'
  <1> USE NoTaskAssumption DEF TasksInv, TypeOK, WQTypeOK, wqVars, gcVars, taskVars, At, Goto,
          ReadCode
  <1>1. TypeOK'
    BY ZenonT(40) DEF TaskState, PCs
  <1>2. StateInv' /\ GuardInv'
    BY SMTT(40) DEF WaitInv, StateInv, GuardInv, WakeInv, ExitPCs, TaskState
  <1>3. QueueInv'
    BY SMTT(40) DEF WaitInv, StateInv, QueueInv
  <1>4. WakeInv'
    BY SMTT(40) DEF WaitInv, StateInv, QueueInv, WakeInv, ExitPCs
  <1>5. AtInv'
    BY SMTT(40) DEF WaitInv, StateInv, JoinInv, AtInv, JoinPCs, ExitPCs
  <1>6. JoinersWoken'
    BY SMTT(40) DEF WaitInv, StateInv, GuardInv, JoinInv, AtInv, JoinersWoken, JoinPCs, ExitPCs
  <1>7. ListInv'
    BY DEF GcInv, ListInv, Exiting
  <1>8. FreedInv'
    BY Zenon DEF GcInv, FreedInv
  <1> QED
    BY <1>1, <1>2, <1>3, <1>4, <1>5, <1>6, <1>7, <1>8, Zenon DEF WaitInv, JoinInv, GcInv

(* The reference that was joined through is dropped.                       *)
LEMMA DropRefInv ==
  ASSUME TasksInv, Tasks \subseteq Queues, NEW t \in Tasks, DropRef(t)
  PROVE  TasksInv'
  <1> USE NoTaskAssumption DEF TasksInv, TypeOK, WQTypeOK, wqVars, gcVars, taskVars, At, Goto,
          DropRef
  <1>1. TypeOK'
    BY ZenonT(40) DEF TaskState, PCs
  <1>2. StateInv' /\ GuardInv'
    BY SMTT(40) DEF WaitInv, StateInv, GuardInv, WakeInv, ExitPCs, TaskState
  <1>3. QueueInv'
    BY SMTT(40) DEF WaitInv, StateInv, QueueInv
  <1>4. WakeInv'
    BY SMTT(40) DEF WaitInv, StateInv, QueueInv, WakeInv, ExitPCs
  <1>5. AtInv'
    BY SMTT(40) DEF WaitInv, StateInv, JoinInv, AtInv, JoinPCs, ExitPCs
  <1>6. JoinersWoken'
    BY SMTT(40) DEF WaitInv, StateInv, GuardInv, JoinInv, AtInv, JoinersWoken, JoinPCs, ExitPCs
  <1>7. ListInv'
    BY DEF GcInv, ListInv, Exiting
  <1>8. FreedInv'
    BY Zenon DEF GcInv, FreedInv
  <1> QED
    BY <1>1, <1>2, <1>3, <1>4, <1>5, <1>6, <1>7, <1>8, Zenon DEF WaitInv, JoinInv, GcInv

(* A reference goes out of scope.                                          *)
LEMMA ForgetInv ==
  ASSUME TasksInv, Tasks \subseteq Queues, NEW t \in Tasks, NEW u, Forget(t, u)
  PROVE  TasksInv'
  <1> USE NoTaskAssumption DEF TasksInv, TypeOK, WQTypeOK, wqVars, gcVars, taskVars, At, Goto,
          Forget
  <1>1. TypeOK'
    BY Zenon DEF TaskState, PCs
  <1>2. StateInv' /\ GuardInv'
    BY ZenonT(40) DEF WaitInv, StateInv, GuardInv, WakeInv, ExitPCs, TaskState
  <1>3. QueueInv'
    BY SMTT(40) DEF WaitInv, StateInv, QueueInv
  <1>4. WakeInv'
    BY SMTT(40) DEF WaitInv, StateInv, QueueInv, WakeInv, ExitPCs
  <1>5. AtInv'
    BY SMTT(40) DEF WaitInv, StateInv, JoinInv, AtInv, JoinPCs, ExitPCs
  <1>6. JoinersWoken'
    BY SMTT(40) DEF WaitInv, StateInv, GuardInv, JoinInv, AtInv, JoinersWoken, JoinPCs, ExitPCs
  <1>7. ListInv'
    BY DEF GcInv, ListInv, Exiting
  <1>8. FreedInv'
    BY Zenon DEF GcInv, FreedInv
  <1> QED
    BY <1>1, <1>2, <1>3, <1>4, <1>5, <1>6, <1>7, <1>8, Zenon DEF WaitInv, JoinInv, GcInv

(* A task becomes Exited; gc on its CPU is not in its loop.                *)
LEMMA ExitInv ==
  ASSUME TasksInv, Tasks \subseteq Queues, NEW t \in Tasks, NEW k \in Codes \cup {0}, Exit(t, k)
  PROVE  TasksInv'
  <1> USE NoTaskAssumption DEF TasksInv, TypeOK, WQTypeOK, wqVars, gcVars, taskVars, At, Goto,
          Exit
  <1>1. TypeOK'
    BY Zenon DEF TaskState, PCs
  <1>2. StateInv' /\ GuardInv'
    BY SMTT(40) DEF WaitInv, StateInv, GuardInv, WakeInv, ExitPCs, TaskState
  <1>3. QueueInv'
    BY SMTT(40) DEF WaitInv, StateInv, QueueInv
  <1>4. WakeInv'
    BY SMTT(40) DEF WaitInv, StateInv, QueueInv, WakeInv, ExitPCs
  <1>5. AtInv'
    BY DEF WaitInv, StateInv, JoinInv, AtInv, JoinPCs, ExitPCs
  <1>6. JoinersWoken'
    BY SMTT(40) DEF WaitInv, StateInv, GuardInv, JoinInv, AtInv, JoinersWoken, JoinPCs, ExitPCs
  <1>7. ListInv'
    BY DEF GcInv, ListInv, Exiting
  <1>8. FreedInv'
    BY Zenon DEF GcInv, FreedInv
  <1> QED
    BY <1>1, <1>2, <1>3, <1>4, <1>5, <1>6, <1>7, <1>8, Zenon DEF WaitInv, JoinInv, GcInv

(* The exit code is stored.                                                *)
LEMMA StoreCodeInv ==
  ASSUME TasksInv, Tasks \subseteq Queues, NEW t \in Tasks, StoreCode(t)
  PROVE  TasksInv'
  <1> USE NoTaskAssumption DEF TasksInv, TypeOK, WQTypeOK, wqVars, gcVars, taskVars, At, Goto,
          StoreCode
  <1>1. TypeOK'
    BY ZenonT(40) DEF TaskState, PCs
  <1>2. StateInv' /\ GuardInv'
    BY SMTT(40) DEF WaitInv, StateInv, GuardInv, WakeInv, ExitPCs, TaskState
  <1>3. QueueInv'
    BY SMTT(40) DEF WaitInv, StateInv, QueueInv
  <1>4. WakeInv'
    BY SMTT(40) DEF WaitInv, StateInv, QueueInv, WakeInv, ExitPCs
  <1>5. AtInv'
    BY SMTT(40) DEF WaitInv, StateInv, JoinInv, AtInv, JoinPCs, ExitPCs
  <1>6. JoinersWoken'
    BY SMTT(40) DEF WaitInv, StateInv, GuardInv, JoinInv, AtInv, JoinersWoken, JoinPCs, ExitPCs
  <1>7. ListInv'
    BY DEF GcInv, ListInv, Exiting
  <1>8. FreedInv'
    BY Zenon DEF GcInv, FreedInv
  <1> QED
    BY <1>1, <1>2, <1>3, <1>4, <1>5, <1>6, <1>7, <1>8, Zenon DEF WaitInv, JoinInv, GcInv

(* The queue is empty: everyone who slept in it has been popped, and no    *)
(* joiner is between its test and its push, as the lock is free.           *)
LEMMA PopNothingInv ==
  ASSUME TasksInv, Tasks \subseteq Queues, NEW t \in Tasks, Pop(t), queue[t] = <<>>
  PROVE  TasksInv'
  <1>0. /\ pc[t] = "pop" /\ state[t] = "Exited" /\ guard[t] = NoTask
        /\ pc' = [pc EXCEPT ![t] = "bury"]
        /\ UNCHANGED <<wqVars, waking, at, exit_code, code, result, held, cpu, gcVars>>
    BY Zenon DEF TasksInv, WaitInv, StateInv, ExitPCs, Pop, PopNothing, PopFront, At, Goto
  <1> USE <1>0, NoTaskAssumption DEF TasksInv, TypeOK, WQTypeOK, wqVars, gcVars
  <1>1. TypeOK'
    BY Zenon DEF PCs
  <1>2. WaitInv'
    BY DEF WaitInv, StateInv, GuardInv, QueueInv, WakeInv, ExitPCs
  <1>3. AtInv'
    BY DEF JoinInv, AtInv, JoinPCs
  <1>4. JoinersWoken'
    BY DEF WaitInv, GuardInv, JoinInv, JoinersWoken
  <1>5. ListInv'
    <2>1. \A c \in Cpus : Exiting(c)' \subseteq Exiting(c)
      BY Zenon DEF Exiting
    <2> QED
      BY <2>1, ListFrame, Zenon
  <1>6. FreedInv'
    BY Zenon DEF GcInv, FreedInv
  <1> QED
    BY <1>1, <1>2, <1>3, <1>4, <1>5, <1>6, Zenon DEF JoinInv, GcInv

(* The front task u is popped and its flag cleared, under the lock.        *)
LEMMA PopFrontInv ==
  ASSUME TasksInv, Tasks \subseteq Queues, NEW t \in Tasks, Pop(t), queue[t] # <<>>
  PROVE  TasksInv'
  <1> DEFINE u == Head(queue[t])
  <1>0. /\ pc[t] = "pop" /\ state[t] = "Exited" /\ guard[t] = NoTask
        /\ pc' = [pc EXCEPT ![t] = "unblock"]
        /\ queue' = [queue EXCEPT ![t] = Tail(queue[t])]
        /\ in_wait_queue' = [in_wait_queue EXCEPT ![u] = FALSE]
        /\ guard' = [guard EXCEPT ![t] = t]
        /\ waking' = [waking EXCEPT ![t] = u]
        /\ UNCHANGED <<state, at, exit_code, code, result, held, cpu, gcVars>>
    BY Zenon DEF TasksInv, WaitInv, StateInv, ExitPCs, Pop, PopNothing, PopFront, At, Goto
  <1>1. t \in Queues /\ queue[t] \in Seq(Tasks)
    BY Zenon DEF TasksInv, TypeOK, WQTypeOK
  <1>2. u \in Tasks /\ 1 \in DOMAIN queue[t] /\ u = queue[t][1] /\ Tail(queue[t]) \in Seq(Tasks)
    BY <1>1, TailFacts, Zenon
  <1>3. in_wait_queue[u] /\ state[u] = "Blocked"
    BY <1>1, <1>2 DEF TasksInv, WaitInv, QueueInv, StateInv
  <1> HIDE DEF u
  <1> USE <1>0, <1>1, <1>2, <1>3, NoTaskAssumption DEF TasksInv, TypeOK, WQTypeOK, gcVars
  <1>4. TypeOK'
    <2>1. queue' \in [Queues -> Seq(Tasks)] /\ in_wait_queue' \in [Tasks -> BOOLEAN]
      BY Zenon
    <2> QED
      BY <2>1, Zenon DEF PCs
  <1>5. StateInv' /\ GuardInv'
    BY SMTT(40) DEF WaitInv, StateInv, GuardInv, ExitPCs
  <1>6. QueueInv'
    <2>1. ASSUME NEW q \in Queues, NEW i \in DOMAIN queue'[q]
          PROVE  \E k \in DOMAIN queue[q] :
                   /\ queue'[q][i] = queue[q][k] /\ queue[q][k] # u
                   /\ k = IF q = t THEN i + 1 ELSE i
      <3>1. CASE q = t
        <4>1. i + 1 \in DOMAIN queue[t] /\ i + 1 # 1 /\ queue'[t][i] = queue[t][i + 1]
          BY ONLY <1>0, <1>1, <2>1, <3>1, TailFacts, TypeOK, queue[t] # <<>> DEF TypeOK, WQTypeOK
        <4>2. queue[t][i + 1] # u
          BY <4>1 DEF WaitInv, QueueInv
        <4> QED
          BY <3>1, <4>1, <4>2, Zenon
      <3>2. CASE q # t
        BY <3>2, <2>1, Zenon DEF WaitInv, QueueInv
      <3> QED
        BY <3>1, <3>2, Zenon
    <2>2. ASSUME NEW q \in Queues, NEW i \in DOMAIN queue'[q]
          PROVE  in_wait_queue'[queue'[q][i]]
      <3>1. PICK k \in DOMAIN queue[q] : queue'[q][i] = queue[q][k] /\ queue[q][k] # u
        BY <2>1, SMTT(40)
      <3>2. in_wait_queue[queue[q][k]] /\ queue[q][k] \in Tasks
        BY DEF WaitInv, QueueInv
      <3> QED
        BY <3>1, <3>2, Zenon
    <2>3. ASSUME NEW q \in Queues, NEW r \in Queues, NEW i \in DOMAIN queue'[q],
                 NEW j \in DOMAIN queue'[r], queue'[q][i] = queue'[r][j]
          PROVE  q = r /\ i = j
      <3>1. PICK k \in DOMAIN queue[q] :
              queue'[q][i] = queue[q][k] /\ k = IF q = t THEN i + 1 ELSE i
        BY ONLY <2>1, Zenon
      <3>2. PICK l \in DOMAIN queue[r] :
              queue'[r][j] = queue[r][l] /\ l = IF r = t THEN j + 1 ELSE j
        BY ONLY <2>1, Zenon
      <3>a. QueueInv /\ queue' \in [Queues -> Seq(Tasks)]
        BY <1>4, Zenon DEF WaitInv
      <3>b. queue[q][k] = queue[r][l]
        BY ONLY <2>3, <3>1, <3>2, Zenon
      <3>3. q = r /\ k = l
        BY ONLY <3>a, <3>b, q \in Queues, r \in Queues, k \in DOMAIN queue[q], l \in DOMAIN queue[r]
        DEF QueueInv
      <3>4. i \in Nat /\ j \in Nat
        BY ONLY <2>3, <3>a
      <3> QED
        BY ONLY <3>1, <3>2, <3>3, <3>4
    <2> QED
      BY ONLY <2>2, <2>3, Zenon DEF QueueInv
  <1>7. WakeInv'
    <2>1. ASSUME NEW v \in Tasks \ {t}, pc[v] = "unblock"
          PROVE  waking[v] \in Tasks \ {u} /\ state[waking[v]] = "Blocked"
                 /\ ~in_wait_queue[waking[v]]
      BY <2>1, Zenon DEF WaitInv, WakeInv
    <2>2. ASSUME NEW v \in Tasks, pc'[v] = "unblock"
          PROVE  waking'[v] \in Tasks /\ state'[waking'[v]] = "Blocked"
                 /\ ~in_wait_queue'[waking'[v]]
      BY <2>1, <2>2, SMTT(40)
    <2>3. ASSUME NEW v \in Tasks, NEW w \in Tasks, pc'[v] = "unblock", pc'[w] = "unblock",
                 waking'[v] = waking'[w]
          PROVE  v = w
      BY <2>1, <2>3, SMTT(40) DEF WaitInv, WakeInv
    <2> QED
      BY ONLY <2>2, <2>3, Zenon DEF WakeInv
  <1>8. AtInv'
    BY SMTT(40) DEF JoinInv, AtInv, JoinPCs
  <1>9. JoinersWoken'
    BY Zenon DEF JoinInv, JoinersWoken
  <1>10. ListInv'
    <2>1. \A c \in Cpus : Exiting(c)' \subseteq Exiting(c)
      BY Zenon DEF Exiting
    <2> QED
      BY <2>1, ListFrame, Zenon
  <1>11. FreedInv'
    BY Zenon DEF GcInv, FreedInv
  <1> QED
    BY <1>4, <1>5, <1>6, <1>7, <1>8, <1>9, <1>10, <1>11, Zenon DEF WaitInv, JoinInv, GcInv

(* The popped task becomes Ready.                                          *)
LEMMA UnblockInv ==
  ASSUME TasksInv, Tasks \subseteq Queues, NEW t \in Tasks, Unblock(t)
  PROVE  TasksInv'
  <1> USE NoTaskAssumption DEF TasksInv, TypeOK, WQTypeOK, wqVars, gcVars, taskVars, At, Goto,
          Unblock, UnblockOneTask, Unblocked
  <1>1. TypeOK'
    BY Zenon DEF TaskState, PCs
  <1>2. StateInv' /\ GuardInv'
    BY SMTT(40) DEF WaitInv, StateInv, GuardInv, WakeInv, ExitPCs, TaskState
  <1>3. QueueInv'
    BY DEF WaitInv, StateInv, QueueInv
  <1>4. WakeInv'
    <2>1. waking[t] \in Tasks /\ pc[t] = "unblock"
      BY Zenon DEF WaitInv, WakeInv
    <2>2. ASSUME NEW u \in Tasks, pc'[u] = "unblock"
          PROVE  /\ pc[u] = "unblock" /\ waking'[u] = waking[u]
                 /\ waking[u] \in Tasks \ {waking[t]}
                 /\ state[waking[u]] = "Blocked" /\ ~in_wait_queue[waking[u]]
      BY <2>1, <2>2, Zenon DEF WaitInv, WakeInv
    <2>3. ASSUME NEW u \in Tasks \ {waking[t]} PROVE state'[u] = state[u]
      BY <2>1, Zenon
    <2>4. ASSUME NEW v \in Tasks, pc'[v] = "unblock"
          PROVE  waking'[v] \in Tasks /\ state'[waking'[v]] = "Blocked"
                 /\ ~in_wait_queue'[waking'[v]]
      BY <2>2, <2>3, <2>4, SMTT(40)
    <2>5. ASSUME NEW v \in Tasks, NEW w \in Tasks, pc'[v] = "unblock", pc'[w] = "unblock",
                 waking'[v] = waking'[w]
          PROVE  v = w
      BY <2>2, <2>5, SMTT(40) DEF WaitInv, WakeInv
    <2> QED
      BY ONLY <2>4, <2>5, Zenon DEF WakeInv
  <1>5. AtInv'
    BY SMTT(40) DEF WaitInv, StateInv, JoinInv, AtInv, JoinPCs, ExitPCs
  <1>6. JoinersWoken'
    BY DEF WaitInv, StateInv, GuardInv, JoinInv, AtInv, JoinersWoken, JoinPCs, ExitPCs
  <1>7. ListInv'
    BY SMTT(40) DEF GcInv, ListInv, Exiting
  <1>8. FreedInv'
    BY Zenon DEF GcInv, FreedInv
  <1> QED
    BY <1>1, <1>2, <1>3, <1>4, <1>5, <1>6, <1>7, <1>8, Zenon DEF WaitInv, JoinInv, GcInv

(* The task is on EXITED_TASKS.                                            *)
LEMMA BuryInv ==
  ASSUME TasksInv, Tasks \subseteq Queues, NEW t \in Tasks, Bury(t)
  PROVE  TasksInv'
  <1> USE NoTaskAssumption DEF TasksInv, TypeOK, WQTypeOK, wqVars, gcVars, taskVars, At, Goto,
          Bury
  <1>1. TypeOK'
    BY SMTT(40) DEF TaskState, PCs
  <1>2. StateInv' /\ GuardInv'
    BY SMTT(40) DEF WaitInv, StateInv, GuardInv, WakeInv, ExitPCs, TaskState
  <1>3. QueueInv'
    BY SMTT(40) DEF WaitInv, StateInv, QueueInv
  <1>4. WakeInv'
    BY DEF WaitInv, StateInv, QueueInv, WakeInv, ExitPCs
  <1>5. AtInv'
    BY SMTT(40) DEF WaitInv, StateInv, JoinInv, AtInv, JoinPCs, ExitPCs
  <1>6. JoinersWoken'
    BY DEF WaitInv, StateInv, GuardInv, JoinInv, AtInv, JoinersWoken, JoinPCs, ExitPCs
  <1>7. ListInv'
    <2>0. pc \in [Tasks -> PCs]
      BY Zenon
    <2> DEFINE k == cpu[t]
    <2>1. k \in Cpus /\ exited_tasks[k] \in Seq(Tasks) /\ pc' = [pc EXCEPT ![t] = "gone"]
          /\ exited_tasks' = [exited_tasks EXCEPT ![k] = Append(exited_tasks[k], t)]
          /\ gc' = [gc EXCEPT ![k] = "ready"] /\ n' = n
      BY Zenon
    <2> HIDE DEF k
    <2>2. ASSUME NEW c \in Cpus, NEW i \in DOMAIN exited_tasks'[c]
          PROVE  pc'[exited_tasks'[c][i]] = "gone"
      <3>1. ASSUME i \in DOMAIN exited_tasks[c], exited_tasks'[c][i] = exited_tasks[c][i]
            PROVE  pc'[exited_tasks'[c][i]] = "gone"
        <4>1. exited_tasks[c][i] \in Tasks /\ pc[exited_tasks[c][i]] = "gone"
          BY <3>1, SMTT(40) DEF GcInv, ListInv
        <4> QED
          BY ONLY <2>1, <3>1, <4>1, <2>0, Zenon
      <3>2. \/ i \in DOMAIN exited_tasks[c] /\ exited_tasks'[c][i] = exited_tasks[c][i]
            \/ exited_tasks'[c][i] = t
        <4>1. exited_tasks'[c] = IF c = k THEN Append(exited_tasks[k], t) ELSE exited_tasks[c]
          BY <2>1, SMTT(40)
        <4> QED
          BY ONLY <4>1, <2>1, <2>2, AppendFacts, t \in Tasks, SMTT(40)
      <3> QED
        BY ONLY <2>1, <3>1, <3>2, <2>0, t \in Tasks, Zenon
    <2>3. ASSUME NEW c \in Cpus, gc'[c] = "loop"
          PROVE  Exiting(c)' = {} /\ n'[c] <= Len(exited_tasks'[c])
      <3>1. c # k /\ gc[c] = "loop" /\ exited_tasks'[c] = exited_tasks[c]
        BY <2>1, <2>3, SMTT(40)
      <3>2. Exiting(c)' \subseteq Exiting(c)
        BY <2>1 DEF Exiting
      <3> QED
        BY <2>1, <3>1, <3>2, SMTT(40) DEF GcInv, ListInv
    <2> QED
      BY ONLY <2>2, <2>3, Zenon DEF ListInv
  <1>8. FreedInv'
    BY Zenon DEF GcInv, FreedInv
  <1> QED
    BY <1>1, <1>2, <1>3, <1>4, <1>5, <1>6, <1>7, <1>8, Zenon DEF WaitInv, JoinInv, GcInv

(* A Ready task is dispatched.                                             *)
LEMMA RunInv ==
  ASSUME TasksInv, Tasks \subseteq Queues, NEW t \in Tasks, Run(t)
  PROVE  TasksInv'
  <1> USE NoTaskAssumption DEF TasksInv, TypeOK, WQTypeOK, wqVars, gcVars, taskVars, At, Goto,
          Run, Dispatch
  <1>1. TypeOK'
    BY Zenon DEF TaskState, PCs
  <1>2. StateInv' /\ GuardInv'
    BY Zenon DEF WaitInv, StateInv, GuardInv, WakeInv, ExitPCs, TaskState
  <1>3. QueueInv'
    BY SMTT(40) DEF WaitInv, StateInv, QueueInv
  <1>4. WakeInv'
    BY SMTT(40) DEF WaitInv, StateInv, QueueInv, WakeInv, ExitPCs
  <1>5. AtInv'
    BY DEF WaitInv, StateInv, JoinInv, AtInv, JoinPCs, ExitPCs
  <1>6. JoinersWoken'
    BY Zenon DEF WaitInv, StateInv, GuardInv, JoinInv, AtInv, JoinersWoken, JoinPCs, ExitPCs
  <1>7. ListInv'
    BY Zenon DEF GcInv, ListInv, Exiting
  <1>8. FreedInv'
    BY Zenon DEF GcInv, FreedInv
  <1> QED
    BY <1>1, <1>2, <1>3, <1>4, <1>5, <1>6, <1>7, <1>8, Zenon DEF WaitInv, JoinInv, GcInv

(* A round of gc_entry begins.                                             *)
LEMMA GcStartInv ==
  ASSUME TasksInv, Tasks \subseteq Queues, NEW c \in Cpus, GcStart(c)
  PROVE  TasksInv'
  <1> USE NoTaskAssumption DEF TasksInv, TypeOK, WQTypeOK, wqVars, gcVars, taskVars, At, Goto,
          GcStart
  <1>1. TypeOK'
    BY SMTT(40) DEF TaskState, PCs
  <1>2. StateInv' /\ GuardInv'
    BY Zenon DEF WaitInv, StateInv, GuardInv, WakeInv, ExitPCs, TaskState
  <1>3. QueueInv'
    BY SMTT(40) DEF WaitInv, StateInv, QueueInv
  <1>4. WakeInv'
    BY DEF WaitInv, StateInv, QueueInv, WakeInv, ExitPCs
  <1>5. AtInv'
    BY Zenon DEF WaitInv, StateInv, JoinInv, AtInv, JoinPCs, ExitPCs
  <1>6. JoinersWoken'
    BY Zenon DEF WaitInv, StateInv, GuardInv, JoinInv, AtInv, JoinersWoken, JoinPCs, ExitPCs
  <1>7. ListInv'
    BY SMTT(40) DEF GcInv, ListInv, Exiting
  <1>8. FreedInv'
    BY Zenon DEF GcInv, FreedInv
  <1> QED
    BY <1>1, <1>2, <1>3, <1>4, <1>5, <1>6, <1>7, <1>8, Zenon DEF WaitInv, JoinInv, GcInv

(* One exited task is freed, or kept for the next round.                   *)
LEMMA GcTurnInv ==
  ASSUME TasksInv, Tasks \subseteq Queues, NEW c \in Cpus, GcTurn(c)
  PROVE  TasksInv'
  <1> DEFINE u == Head(exited_tasks[c])
  <1> DEFINE rest == Tail(exited_tasks[c])
  <1>a. exited_tasks[c] \in Seq(Tasks) /\ exited_tasks[c] # <<>> /\ n[c] \in Nat /\ n[c] > 0
        /\ gc[c] = "loop" /\ n[c] <= Len(exited_tasks[c])
    <2>1. exited_tasks[c] \in Seq(Tasks) /\ n[c] \in Nat /\ n[c] > 0 /\ gc[c] = "loop"
          /\ n[c] <= Len(exited_tasks[c])
      BY Zenon DEF TasksInv, TypeOK, GcInv, ListInv, GcTurn
    <2> QED
      BY <2>1
  <1>b. u \in Tasks /\ pc[u] = "gone"
    BY <1>a, TailFacts DEF TasksInv, GcInv, ListInv
  <1>c. /\ exited_tasks' \in [Cpus -> Seq(Tasks)]
        /\ n' = [n EXCEPT ![c] = n[c] - 1] /\ n[c] - 1 \in Nat
        /\ \A d \in Cpus : \A i \in DOMAIN exited_tasks'[d] :
             \E j \in DOMAIN exited_tasks[d] : exited_tasks'[d][i] = exited_tasks[d][j]
        /\ \A d \in Cpus \ {c} : exited_tasks'[d] = exited_tasks[d]
        /\ Len(exited_tasks[c]) - 1 <= Len(exited_tasks'[c])
    <2>1. PICK l \in {rest, Append(rest, u)} : exited_tasks' = [exited_tasks EXCEPT ![c] = l]
      BY Zenon DEF GcTurn
    <2>2. rest \in Seq(Tasks) /\ Len(rest) = Len(exited_tasks[c]) - 1
          /\ 1 \in DOMAIN exited_tasks[c] /\ u = exited_tasks[c][1]
          /\ \A i \in DOMAIN rest : i + 1 \in DOMAIN exited_tasks[c] /\ rest[i] = exited_tasks[c][i + 1]
      BY <1>a, TailFacts, Zenon
    <2> HIDE DEF rest, u
    <2>3. l \in Seq(Tasks) /\ Len(exited_tasks[c]) - 1 <= Len(l)
          /\ \A i \in DOMAIN l : (i \in DOMAIN rest /\ l[i] = rest[i]) \/ l[i] = u
      <3>1. CASE l = rest
        BY <1>a, <2>2, <3>1
      <3>2. CASE l = Append(rest, u)
        BY <1>a, <1>b, <2>2, <3>2, AppendFacts
      <3> QED
        BY <2>1, <3>1, <3>2, Zenon
    <2>4. \A i \in DOMAIN l : \E j \in DOMAIN exited_tasks[c] : l[i] = exited_tasks[c][j]
      BY <2>2, <2>3, Zenon
    <2>5. exited_tasks \in [Cpus -> Seq(Tasks)]
      BY Zenon DEF TasksInv, TypeOK
    <2>6. exited_tasks' \in [Cpus -> Seq(Tasks)] /\ exited_tasks'[c] = l
          /\ \A d \in Cpus \ {c} : exited_tasks'[d] = exited_tasks[d]
      BY ONLY <2>1, <2>3, <2>5, c \in Cpus, Zenon
    <2>7. \A d \in Cpus : \A i \in DOMAIN exited_tasks'[d] :
             \E j \in DOMAIN exited_tasks[d] : exited_tasks'[d][i] = exited_tasks[d][j]
      BY ONLY <2>4, <2>6
    <2>8. n' = [n EXCEPT ![c] = n[c] - 1] /\ n[c] - 1 \in Nat
      BY <1>a DEF GcTurn
    <2> QED
      BY ONLY <2>3, <2>6, <2>7, <2>8, Zenon
  <1>d. /\ dropped' \subseteq dropped \cup {u}
        /\ u \in dropped' => u \in dropped \/ \A t \in Tasks : u \notin held[t]
        /\ UNCHANGED <<wqVars, taskVars, gc>>
    BY Zenon DEF GcTurn
  <1> HIDE DEF u, rest
  <1> USE <1>a, <1>b, <1>c, <1>d, NoTaskAssumption DEF TasksInv, TypeOK, WQTypeOK, wqVars, gcVars, taskVars, At
  <1>1. TypeOK'
    BY ZenonT(40) DEF TaskState, PCs
  <1>2. StateInv' /\ GuardInv'
    BY ZenonT(40) DEF WaitInv, StateInv, GuardInv, WakeInv, ExitPCs, TaskState
  <1>3. QueueInv'
    BY SMTT(40) DEF WaitInv, StateInv, QueueInv
  <1>4. WakeInv'
    BY DEF WaitInv, StateInv, QueueInv, WakeInv, ExitPCs
  <1>5. AtInv'
    BY Zenon DEF WaitInv, StateInv, JoinInv, AtInv, JoinPCs, ExitPCs
  <1>6. JoinersWoken'
    BY Zenon DEF WaitInv, StateInv, GuardInv, JoinInv, AtInv, JoinersWoken, JoinPCs, ExitPCs
  <1>7. ListInv'
    <2>1. ASSUME NEW d \in Cpus, NEW i \in DOMAIN exited_tasks'[d]
          PROVE  pc[exited_tasks'[d][i]] = "gone"
      BY SMTT(40) DEF GcInv, ListInv
    <2>2. ASSUME NEW d \in Cpus, gc[d] = "loop"
          PROVE  Exiting(d)' = {} /\ n'[d] <= Len(exited_tasks'[d])
      <3>1. Exiting(d)' = Exiting(d)
        BY Zenon DEF Exiting
      <3>2. n[d] <= Len(exited_tasks[d])
        BY <2>2, Zenon DEF GcInv, ListInv
      <3>3. n'[d] <= Len(exited_tasks'[d])
        <4>1. CASE d = c
          BY <4>1
        <4>2. CASE d # c
          BY <3>2, <4>2, Zenon
        <4> QED
          BY <4>1, <4>2, Zenon
      <3> QED
        BY <2>2, <3>1, <3>3, Zenon DEF GcInv, ListInv
    <2> QED
      BY ONLY <2>1, <2>2, <1>d, Zenon DEF ListInv, taskVars
  <1>8. FreedInv'
    <2>1. FreedInv
      BY Zenon DEF GcInv
    <2> QED
      BY ONLY <2>1, <1>b, <1>d, Zenon DEF FreedInv, taskVars
  <1> QED
    BY <1>1, <1>2, <1>3, <1>4, <1>5, <1>6, <1>7, <1>8, Zenon DEF WaitInv, JoinInv, GcInv

(* The round is over.                                                      *)
LEMMA GcWaitInv ==
  ASSUME TasksInv, Tasks \subseteq Queues, NEW c \in Cpus, GcWait(c)
  PROVE  TasksInv'
  <1> USE NoTaskAssumption DEF TasksInv, TypeOK, WQTypeOK, wqVars, gcVars, taskVars, At, Goto,
          GcWait
  <1>1. TypeOK'
    BY Zenon DEF TaskState, PCs
  <1>2. StateInv' /\ GuardInv'
    BY Zenon DEF WaitInv, StateInv, GuardInv, WakeInv, ExitPCs, TaskState
  <1>3. QueueInv'
    BY SMTT(40) DEF WaitInv, StateInv, QueueInv
  <1>4. WakeInv'
    BY DEF WaitInv, StateInv, QueueInv, WakeInv, ExitPCs
  <1>5. AtInv'
    BY Zenon DEF WaitInv, StateInv, JoinInv, AtInv, JoinPCs, ExitPCs
  <1>6. JoinersWoken'
    BY Zenon DEF WaitInv, StateInv, GuardInv, JoinInv, AtInv, JoinersWoken, JoinPCs, ExitPCs
  <1>7. ListInv'
    BY DEF GcInv, ListInv, Exiting
  <1>8. FreedInv'
    BY Zenon DEF GcInv, FreedInv
  <1> QED
    BY <1>1, <1>2, <1>3, <1>4, <1>5, <1>6, <1>7, <1>8, Zenon DEF WaitInv, JoinInv, GcInv
-----------------------------------------------------------------------------
(* Every step of the tasks underneath keeps their invariant.               *)
LEMMA BelowInv ==
  ASSUME TasksInv, Tasks \subseteq Queues, NEW t \in Tasks, Below(t)
  PROVE  TasksInv'
  BY LockInv, CheckExitedInv, CheckAliveInv, PushInv, CancelInv, ReadCodeInv, StoreCodeInv,
     PopNothingInv, PopFrontInv, UnblockInv, BuryInv, RunInv, Zenon DEF Below

LEMMA GcStepInv ==
  ASSUME TasksInv, Tasks \subseteq Queues, NEW c \in Cpus, Gc(c)
  PROVE  TasksInv'
  BY GcStartInv, GcTurnInv, GcWaitInv, Zenon DEF Gc

(* A step that leaves closures and packets alone, takes no new reference,  *)
(* and in which only threads whose closure is over begin to exit.          *)
LEMMA PacketFrame ==
  ASSUME ThreadsInv, UNCHANGED packetVars,
         \A t \in Tasks : held'[t] \subseteq held[t],
         \A u \in Tasks : body[u] = "unborn" => pc'[u] = pc[u],
         \A u \in Tasks : pc'[u] \in ExitPCs =>
                            pc[u] \in ExitPCs \/ body[u] \in {"native", "over", "left"}
  PROVE  PacketInv'
  <1> USE DEF ThreadsInv, PacketInv, packetVars
  <1>1. PacketTypeOK' /\ KindInv'
    BY Zenon DEF PacketTypeOK, KindInv
  <1>2. BodyInv'
    BY Zenon DEF BodyInv
  <1>3. HandleInv'
    BY DEF HandleInv
  <1> QED
    BY <1>1, <1>2, <1>3, Zenon

(* The steps of Join that begin or end no closure.                         *)
LEMMA QuietStep ==
  ASSUME ThreadsInv, NEW t \in Tasks, Below(t)
  PROVE  PacketInv'
  <1>1. held' = held /\ UNCHANGED packetVars
    BY Zenon DEF Below, Lock, CheckExited, CheckAlive, Push, Cancel, ReadCode, StoreCode, Pop, Unblock,
           Bury, Run, taskVars
  <1>2. \/ pc' = pc
        \/ \E l \in PCs : /\ pc' = [pc EXCEPT ![t] = l] /\ pc[t] # "out"
                          /\ l \in ExitPCs => pc[t] \in ExitPCs
    BY Zenon DEF Below, Lock, CheckExited, CheckAlive, Push, Cancel, ReadCode, StoreCode, Pop, Unblock,
           Bury, Run, taskVars, At, Goto, PCs, ExitPCs
  <1>3. pc \in [Tasks -> PCs] /\ \A u \in Tasks : body[u] = "unborn" => pc[u] = "out"
    BY Zenon DEF ThreadsInv, TasksInv, TypeOK, PacketInv, BodyInv
  <1>4. /\ \A u \in Tasks : body[u] = "unborn" => pc'[u] = pc[u]
        /\ \A u \in Tasks : pc'[u] \in ExitPCs => pc[u] \in ExitPCs
    <2>1. CASE pc' = pc
      BY <2>1, Zenon
    <2>2. CASE pc' # pc
      <3>1. PICK l \in PCs : /\ pc' = [pc EXCEPT ![t] = l] /\ pc[t] # "out"
                             /\ l \in ExitPCs => pc[t] \in ExitPCs
        BY <1>2, <2>2, Zenon
      <3>2. pc'[t] = l /\ body[t] # "unborn" /\ \A u \in Tasks \ {t} : pc'[u] = pc[u]
        BY <1>3, <3>1, Zenon
      <3> QED
        BY ONLY <3>1, <3>2, Zenon
    <2> QED
      BY <2>1, <2>2, Zenon
  <1>5. \A u \in Tasks : held'[u] \subseteq held[u]
    BY <1>1, Zenon
  <1>6. \A u \in Tasks : pc'[u] \in ExitPCs =>
                         pc[u] \in ExitPCs \/ body[u] \in {"native", "over", "left"}
    BY <1>4, Zenon
  <1> QED
    BY <1>1, <1>4, <1>5, <1>6, PacketFrame, Zenon

(* Threads.spawn: the new thread was unknown to everyone, its one handle   *)
(* is held by t.                                                           *)
LEMMA SpawnInv ==
  ASSUME ThreadsInv, NEW t \in Tasks, NEW u \in Tasks, spawn(t, u)
  PROVE  ThreadsInv'
  <1>0. /\ body[t] = "f" /\ body[u] = "unborn" /\ pc[u] = "out"
        /\ body' = [body EXCEPT ![u] = "f"]
        /\ packet' = [packet EXCEPT ![u] = new_packet]
        /\ held' = [held EXCEPT ![t] = held[t] \cup {u}]
        /\ UNCHANGED <<wqVars, gcVars, pc, at, waking, exit_code, code, result, cpu, taking>>
    BY Zenon DEF spawn, InClosure, TaskInner_new, ax_spawn, ThreadsInv, PacketInv, BodyInv
  <1> USE <1>0, NoTaskAssumption DEF ThreadsInv, wqVars, gcVars
  <1>1. TypeOK'
    <2>1. held' \in [Tasks -> SUBSET Tasks]
      BY Zenon DEF TasksInv, TypeOK
    <2> QED
      BY <2>1, Zenon DEF TasksInv, TypeOK, WQTypeOK
  <1>2. WaitInv' /\ ListInv'
    <2>1. StateInv' /\ GuardInv'
      BY Zenon DEF TasksInv, WaitInv, StateInv, GuardInv
    <2>2. QueueInv'
      BY DEF TasksInv, WaitInv, QueueInv
    <2>3. WakeInv'
      BY Zenon DEF TasksInv, WaitInv, WakeInv
    <2>4. ListInv'
      BY ZenonT(40) DEF TasksInv, GcInv, ListInv, Exiting
    <2> QED
      BY <2>1, <2>2, <2>3, <2>4, Zenon DEF WaitInv
  <1>3. JoinInv' /\ FreedInv'
    BY DEF TasksInv, TypeOK, JoinInv, AtInv, JoinersWoken, GcInv, FreedInv
  <1>4. TasksInv'
    BY <1>1, <1>2, <1>3, Zenon DEF TasksInv, GcInv
  <1> USE DEF PacketInv
  <1>5. PacketTypeOK'
    BY Zenon DEF PacketTypeOK, new_packet, Bodies
  <1>6. KindInv'
    BY Zenon DEF KindInv, PacketTypeOK
  <1>7. BodyInv'
    BY SMTT(40) DEF BodyInv, PacketTypeOK, new_packet, ExitPCs, TasksInv, TypeOK
  <1>8. HandleInv'
    BY SMTT(40) DEF HandleInv, BodyInv, PacketTypeOK, new_packet, TasksInv, TypeOK
  <1> QED
    BY <1>4, <1>5, <1>6, <1>7, <1>8, Zenon

(* A JoinHandle is dropped by the one task that holds it.                  *)
LEMMA DetachInv ==
  ASSUME ThreadsInv, Tasks \subseteq Queues, NEW t \in Tasks, NEW u \in Tasks, Detach(t, u)
  PROVE  ThreadsInv'
  <1>0. /\ body[t] = "f" /\ u \in held[t]
        /\ held' = [held EXCEPT ![t] = held[t] \ {u}]
        /\ packet' = [packet EXCEPT ![u].owners = packet[u].owners \ {"handle"}]
        /\ UNCHANGED <<pc, body, taking>>
    BY Zenon DEF Detach, InClosure, Forget
  <1>1. TasksInv'
    BY ForgetInv, Zenon DEF Detach, ThreadsInv
  <1> USE <1>0 DEF ThreadsInv, PacketInv
  <1>2. PacketTypeOK' /\ KindInv'
    BY DEF PacketTypeOK, KindInv
  <1>3. BodyInv'
    BY DEF BodyInv, PacketTypeOK, TasksInv, TypeOK
  <1>4. HandleInv'
    BY SMTT(40) DEF HandleInv, KindInv, PacketTypeOK, TasksInv, TypeOK
  <1> QED
    BY <1>1, <1>2, <1>3, <1>4, Zenon

(* A call of join changes no closure and no packet.                        *)
LEMMA CallInv ==
  ASSUME ThreadsInv, Tasks \subseteq Queues, NEW t \in Tasks, NEW u \in Tasks, JoinCall(t, u),
         body[t] # "unborn", UNCHANGED packetVars
  PROVE  ThreadsInv'
  <1>1. TasksInv'
    BY JoinCallInv, Zenon DEF ThreadsInv
  <1>2. held' = held /\ pc' = [pc EXCEPT ![t] = "lock"] /\ pc \in [Tasks -> PCs]
    BY Zenon DEF JoinCall, Goto, ThreadsInv, TasksInv, TypeOK
  <1>3. PacketInv'
    BY <1>2, PacketFrame, Zenon DEF ExitPCs
  <1> QED
    BY <1>1, <1>3, Zenon DEF ThreadsInv

(* A native task drops a reference, after a join or without one.           *)
LEMMA NativeDropInv ==
  ASSUME ThreadsInv, Tasks \subseteq Queues, NEW t \in Tasks, NEW u \in Tasks,
         Forget(t, u) \/ DropRef(t), body[t] = "native", UNCHANGED packetVars
  PROVE  ThreadsInv'
  <1>1. TasksInv'
    BY ForgetInv, DropRefInv, Zenon DEF ThreadsInv
  <1>2. /\ \A v \in Tasks : held'[v] \subseteq held[v]
        /\ pc \in [Tasks -> PCs] /\ (pc' = pc \/ pc' = [pc EXCEPT ![t] = "out"])
    <2>1. held \in [Tasks -> SUBSET Tasks] /\ pc \in [Tasks -> PCs]
      BY Zenon DEF ThreadsInv, TasksInv, TypeOK
    <2>2. CASE Forget(t, u)
      BY <2>1, <2>2, Zenon DEF Forget
    <2>3. CASE DropRef(t)
      BY <2>1, <2>3, Zenon DEF DropRef, Goto
    <2> QED
      BY <2>2, <2>3, Zenon
  <1>3. PacketInv'
    BY <1>2, PacketFrame, Zenon DEF ExitPCs
  <1> QED
    BY <1>1, <1>3, Zenon DEF ThreadsInv

(* A task exits: a native one, or a thread at the end of its closure.      *)
LEMMA TaskExitInv ==
  ASSUME ThreadsInv, Tasks \subseteq Queues, NEW t \in Tasks, NEW k \in Codes \cup {0}, Exit(t, k),
         body[t] \in {"native", "over"}, UNCHANGED packetVars
  PROVE  ThreadsInv'
  <1>1. TasksInv'
    BY ExitInv, Zenon DEF ThreadsInv
  <1>2. held' = held /\ pc' = [pc EXCEPT ![t] = "store"] /\ pc \in [Tasks -> PCs]
    BY Zenon DEF Exit, Goto, ThreadsInv, TasksInv, TypeOK
  <1>3. PacketInv'
    BY <1>2, PacketFrame, Zenon DEF ExitPCs
  <1> QED
    BY <1>1, <1>3, Zenon DEF ThreadsInv

(* thread::exit: the closure is left, its packet stays as it is.           *)
LEMMA AxExitInv ==
  ASSUME ThreadsInv, Tasks \subseteq Queues, NEW t \in Tasks, NEW k \in Codes, ax_exit(t, k)
  PROVE  ThreadsInv'
  <1>0. /\ body[t] = "f" /\ held' = held /\ pc' = [pc EXCEPT ![t] = "store"]
        /\ body' = [body EXCEPT ![t] = "left"] /\ UNCHANGED <<packet, taking>>
    BY Zenon DEF ax_exit, InClosure, Exit, Goto
  <1>1. TasksInv'
    BY ExitInv, Zenon DEF ax_exit, ThreadsInv
  <1> USE <1>0 DEF ThreadsInv, PacketInv
  <1>2. PacketTypeOK' /\ KindInv'
    BY Zenon DEF PacketTypeOK, KindInv, Bodies
  <1>3. BodyInv'
    BY SMTT(40) DEF BodyInv, PacketTypeOK, TasksInv, TypeOK, ExitPCs
  <1>4. HandleInv'
    BY DEF HandleInv, PacketTypeOK
  <1> QED
    BY <1>1, <1>2, <1>3, <1>4, Zenon

(* The value of the closure is stored in the packet.                       *)
LEMMA StoreResultInv ==
  ASSUME ThreadsInv, NEW t \in Tasks, StoreResult(t)
  PROVE  ThreadsInv'
  <1>0. /\ body[t] = "f" /\ pc[t] = "out" /\ UNCHANGED vars
        /\ body' = [body EXCEPT ![t] = "stored"]
        /\ packet' = [packet EXCEPT ![t].result = Ret] /\ UNCHANGED taking
    BY Zenon DEF StoreResult, InClosure, At
  <1>1. TasksInv'
    BY <1>0, TasksStutter, Zenon DEF ThreadsInv
  <1> USE <1>0 DEF ThreadsInv, PacketInv, vars, taskVars
  <1>2. PacketTypeOK' /\ KindInv'
    BY DEF PacketTypeOK, KindInv, Bodies
  <1>3. BodyInv'
    BY DEF BodyInv, PacketTypeOK, ExitPCs
  <1>4. HandleInv'
    BY DEF HandleInv, PacketTypeOK
  <1> QED
    BY <1>1, <1>2, <1>3, <1>4, Zenon

(* The closure drops its packet, the last thing it does.                   *)
LEMMA DropTheirsInv ==
  ASSUME ThreadsInv, NEW t \in Tasks, DropTheirs(t)
  PROVE  ThreadsInv'
  <1>0. /\ body[t] = "stored" /\ pc[t] = "out" /\ UNCHANGED vars
        /\ body' = [body EXCEPT ![t] = "over"]
        /\ packet' = [packet EXCEPT ![t].owners = packet[t].owners \ {"thread"}] /\ UNCHANGED taking
    BY Zenon DEF DropTheirs, At
  <1>1. TasksInv'
    BY <1>0, TasksStutter, Zenon DEF ThreadsInv
  <1> USE <1>0 DEF ThreadsInv, PacketInv, vars, taskVars
  <1>2. PacketTypeOK' /\ KindInv'
    BY DEF PacketTypeOK, KindInv, Bodies
  <1>3. BodyInv'
    BY DEF BodyInv, PacketTypeOK, ExitPCs
  <1>4. HandleInv'
    BY DEF HandleInv, PacketTypeOK
  <1> QED
    BY <1>1, <1>2, <1>3, <1>4, Zenon

(* join has waited: the joined thread is Exited, and its handle is now     *)
(* only in the hands of this join.                                         *)
LEMMA WaitedInv ==
  ASSUME ThreadsInv, Tasks \subseteq Queues, NEW t \in Tasks, ax_wait_for_exit(t)
  PROVE  ThreadsInv'
  <1>1. TasksInv'
    BY DropRefInv, Zenon DEF ax_wait_for_exit, ThreadsInv
  <1> DEFINE u == at[t]
  <1>2. /\ body[t] = "f" /\ pc[t] = "returned" /\ pc' = [pc EXCEPT ![t] = "out"]
        /\ held' = [held EXCEPT ![t] = held[t] \ {u}]
        /\ taking' = [taking EXCEPT ![t] = u] /\ UNCHANGED <<body, packet>>
    BY Zenon DEF ax_wait_for_exit, DropRef, At, Goto
  <1>3. u \in Tasks /\ u \in held[t] /\ pc[u] \in ExitPCs
    BY <1>2, Zenon DEF ThreadsInv, TasksInv, TypeOK, WaitInv, StateInv, JoinInv, AtInv, JoinPCs
  <1>4. body[u] \in {"over", "left"}
    BY <1>2, <1>3, Zenon DEF ThreadsInv, PacketInv, KindInv, BodyInv
  <1> HIDE DEF u
  <1> USE <1>2, <1>3, <1>4, NoTaskAssumption DEF ThreadsInv, PacketInv
  <1>5. PacketTypeOK' /\ KindInv'
    BY Zenon DEF PacketTypeOK, KindInv
  <1>6. BodyInv'
    BY DEF BodyInv, PacketTypeOK, TasksInv, TypeOK, ExitPCs
  <1>7. HandleInv'
    <2>1. /\ held \in [Tasks -> SUBSET Tasks] /\ taking \in [Tasks -> Tasks \cup {NoTask}]
          /\ "handle" \in packet[u].owners
          /\ \A v \in Tasks : taking[v] # u /\ (u \in held[v] => v = t)
      BY Zenon DEF HandleInv, PacketTypeOK, TasksInv, TypeOK
    <2>2. ASSUME NEW v \in Tasks, NEW w \in Tasks, w \in held'[v], body'[w] # "native"
          PROVE  /\ "handle" \in packet'[w].owners
                 /\ \A x \in Tasks : taking'[x] # w /\ (w \in held'[x] => x = v)
      <3>1. w # u /\ w \in held[v]
        BY <2>1, <2>2, Zenon
      <3> QED
        BY <2>1, <2>2, <3>1 DEF HandleInv
    <2>3. ASSUME NEW v \in Tasks, taking'[v] # NoTask
          PROVE  /\ "handle" \in packet'[taking'[v]].owners /\ body'[taking'[v]] \in {"over", "left"}
                 /\ \A x \in Tasks : taking'[x] = taking'[v] => x = v
      <3>1. CASE v = t
        BY <2>1, <3>1, Zenon
      <3>2. CASE v # t
        BY <2>1, <2>3, <3>2, ZenonT(40) DEF HandleInv
      <3> QED
        BY <3>1, <3>2, Zenon
    <2> QED
      BY ONLY <2>2, <2>3, Zenon DEF HandleInv
  <1> QED
    BY <1>1, <1>5, <1>6, <1>7, Zenon

(* The value is taken and the handle is gone.                              *)
LEMMA GetMutInv ==
  ASSUME ThreadsInv, NEW t \in Tasks, get_mut(t)
  PROVE  ThreadsInv'
  <1> DEFINE u == taking[t]
  <1>0. /\ u # NoTask /\ UNCHANGED vars
        /\ packet' = [packet EXCEPT ![u] = [owners |-> packet[u].owners \ {"handle"}, result |-> None]]
        /\ taking' = [taking EXCEPT ![t] = NoTask] /\ UNCHANGED body
    BY Zenon DEF get_mut
  <1>1. TasksInv'
    BY <1>0, TasksStutter, Zenon DEF ThreadsInv
  <1>2. u \in Tasks
    BY <1>0, ZenonT(40) DEF ThreadsInv, PacketInv, PacketTypeOK
  <1>3. \A v \in Tasks : u \notin held[v] \/ body[u] = "native"
    BY <1>2 DEF ThreadsInv, PacketInv, HandleInv
  <1>4. \A v \in Tasks \ {t} : taking[v] # u
    BY <1>0, Zenon DEF ThreadsInv, PacketInv, HandleInv
  <1> HIDE DEF u
  <1> USE <1>0, <1>2, <1>3, <1>4, NoTaskAssumption DEF ThreadsInv, PacketInv, vars, taskVars
  <1>5. PacketTypeOK' /\ KindInv'
    BY ZenonT(40) DEF PacketTypeOK, KindInv
  <1>6. BodyInv'
    BY SMTT(40) DEF BodyInv, PacketTypeOK
  <1>7. HandleInv'
    BY DEF HandleInv, PacketTypeOK
  <1> QED
    BY <1>1, <1>5, <1>6, <1>7, Zenon

-----------------------------------------------------------------------------
LEMMA InitThreadsInv == ThreadsInit => ThreadsInv
  <1> SUFFICES ASSUME ThreadsInit PROVE ThreadsInv
    BY Zenon
  <1>1. TasksInv
    BY InitTasksInv, Zenon DEF ThreadsInit
  <1>2. PacketTypeOK
    BY Zenon DEF ThreadsInit, PacketTypeOK, NoPacket, Bodies
  <1>3. KindInv
    BY Zenon DEF ThreadsInit, KindInv
  <1>4. BodyInv
    BY NoTaskAssumption, Zenon DEF ThreadsInit, Init, BodyInv, NoPacket, ExitPCs
  <1>5. HandleInv
    BY Zenon DEF ThreadsInit, HandleInv
  <1> QED
    BY <1>1, <1>2, <1>3, <1>4, <1>5, Zenon DEF ThreadsInv, PacketInv

LEMMA NextThreadsInv ==
  ASSUME Tasks \subseteq Queues, ThreadsInv, [ThreadsNext]_threadsVars
  PROVE  ThreadsInv'
  <1>1. CASE UNCHANGED threadsVars
    <2>1. TasksInv' /\ held' = held /\ pc' = pc
      BY <1>1, TasksStutter, Zenon DEF ThreadsInv, threadsVars, vars, taskVars
    <2>2. PacketInv'
      BY <1>1, <2>1, PacketFrame, Zenon DEF threadsVars
    <2> QED
      BY <2>1, <2>2, Zenon DEF ThreadsInv
  <1>2. ASSUME NEW t \in Tasks, Below(t) PROVE ThreadsInv'
    BY <1>2, BelowInv, QuietStep, Zenon DEF ThreadsInv
  <1>3. ASSUME NEW t \in Tasks, Native(t) PROVE ThreadsInv'
    BY <1>3, CallInv, NativeDropInv, TaskExitInv, Zenon DEF Native
  <1>4. ASSUME NEW t \in Tasks, ThreadStep(t) PROVE ThreadsInv'
    <2>1. ASSUME task_entry(t) PROVE ThreadsInv'
      BY <2>1, TaskExitInv, Zenon DEF task_entry
    <2>2. ASSUME NativeJoined(t) PROVE ThreadsInv'
      BY <2>2, NativeDropInv, Zenon DEF NativeJoined
    <2> QED
      BY <1>2, <1>4, <2>1, <2>2, DropTheirsInv, WaitedInv, GetMutInv, Zenon DEF ThreadStep
  <1>5. ASSUME NEW c \in Cpus, GcStep(c) PROVE ThreadsInv'
    <2>1. TasksInv'
      BY <1>5, GcStepInv, Zenon DEF GcStep, ThreadsInv
    <2>2. held' = held /\ pc' = pc /\ UNCHANGED packetVars
      BY <1>5, Zenon DEF GcStep, Gc, GcStart, GcTurn, GcWait, taskVars
    <2>3. PacketInv'
      BY <2>2, PacketFrame, Zenon
    <2> QED
      BY <2>1, <2>3, Zenon DEF ThreadsInv
  <1>6. ASSUME NEW t \in Tasks, NEW u \in Tasks, join(t, u) PROVE ThreadsInv'
    BY <1>6, CallInv, Zenon DEF join, InClosure
  <1> QED
    BY <1>1, <1>3, <1>4, <1>5, <1>6, SpawnInv, DetachInv, StoreResultInv, AxExitInv, Zenon DEF ThreadsNext

(* The invariant says what JoinSafe promises.                              *)
LEMMA InvJoinSafe == ThreadsInv => JoinSafe
  <1> SUFFICES ASSUME ThreadsInv PROVE JoinSafe
    BY Zenon
  <1> USE DEF ThreadsInv, TasksInv
  <1>1. JoinersWoken
    BY Zenon DEF JoinInv
  <1>2. DroppedUnreachable
    <2>1. ASSUME NEW u \in dropped
          PROVE  /\ u \in Tasks /\ pc[u] = "gone" /\ queue[u] = <<>>
                 /\ \A t \in Tasks : u \notin held[t]
      BY Zenon DEF JoinInv, JoinersWoken, GcInv, FreedInv, TypeOK
    <2>2. ASSUME NEW t \in Tasks PROVE at[t] = t \/ at[t] \in held[t]
      BY Zenon DEF JoinInv, AtInv
    <2> QED
      BY <2>1, <2>2 DEF DroppedUnreachable
  <1>3. PacketReady
    <2>1. ASSUME NEW t \in Tasks, taking[t] # NoTask, body[taking[t]] # "left"
          PROVE  packet[taking[t]] = [owners |-> {"handle"}, result |-> Ret]
      <3> DEFINE u == taking[t]
      <3>1. u \in Tasks /\ body[u] = "over" /\ "handle" \in packet[u].owners
        BY <2>1, Zenon DEF PacketInv, PacketTypeOK, HandleInv
      <3>2. packet[u] \in [owners : SUBSET {"handle", "thread"}, result : {None, Ret}]
            /\ "thread" \notin packet[u].owners /\ packet[u].result = Ret
        BY <3>1, Zenon DEF PacketInv, PacketTypeOK, BodyInv
      <3>3. packet[u].owners = {"handle"}
        BY <3>1, <3>2, Zenon
      <3> QED
        BY <3>2, <3>3, Zenon
    <2> QED
      BY <2>1, Zenon DEF PacketReady
  <1> QED
    BY <1>1, <1>2, <1>3, Zenon DEF JoinSafe

(* A task that ends wakes all who join it although exit_current does not   *)
(* take the queue's lock; gc_entry frees a task only when nobody can reach *)
(* it any more; and JoinHandle::join never panics on a packet that is      *)
(* still shared, unless the thread left through thread::exit.  For any     *)
(* tasks, CPUs and exit codes.                                             *)
THEOREM JoinSafeAlways == ThreadsSpec => []JoinSafe
  <1>1. ThreadsInit => ThreadsInv
    BY InitThreadsInv, Zenon
  <1>2. ThreadsInv /\ [ThreadsNext]_threadsVars => ThreadsInv'
    BY NextThreadsInv, JoinAssumption, Zenon
  <1>3. ThreadsInv => JoinSafe
    BY InvJoinSafe, Zenon
  <1> QED
    BY <1>1, <1>2, <1>3, PTL DEF ThreadsSpec
=============================================================================
