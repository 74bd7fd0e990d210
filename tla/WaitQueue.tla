----------------------------- MODULE WaitQueue -----------------------------
(***************************************************************************)
(* The wait queues of axtask (.arceos/modules/axtask/src/wait_queue.rs)    *)
(* and the part of the run queue that blocks and unblocks a task.          *)
(*                                                                         *)
(* This module holds the state and the steps every user of a wait queue    *)
(* shares.  Mutex, WaitTimeout and Join extend it with the operations that *)
(* call those steps and with their next-state relations.  Each step is one *)
(* atomic access or one section under the queue's SpinNoIrq lock.  CPUs    *)
(* are abstracted: a Ready task may be picked to run at any time; RunQueue *)
(* models how that comes about.                                            *)
(***************************************************************************)
EXTENDS Naturals, Sequences

CONSTANTS Tasks,    \* the tasks of the system
          Queues,   \* the wait queues
          NoTask    \* stands for "no task": a free lock, owner id 0

ASSUME NoTaskAssumption == NoTask \notin Tasks

VARIABLES queue,          \* queue[q]: the VecDeque of waiting tasks
          guard,          \* guard[q]: the task holding q's SpinNoIrq lock
          state,          \* state[t]: the TaskState of t
          in_wait_queue   \* in_wait_queue[t]: the flag of that name in TaskInner

wqVars == <<queue, guard, state, in_wait_queue>>

TaskState == {"Running", "Ready", "Blocked", "Exited"}

WQTypeOK ==
  /\ queue \in [Queues -> Seq(Tasks)]
  /\ guard \in [Queues -> Tasks \cup {NoTask}]
  /\ state \in [Tasks -> TaskState]
  /\ in_wait_queue \in [Tasks -> BOOLEAN]

WQInit ==
  /\ queue = [q \in Queues |-> <<>>]
  /\ guard = [q \in Queues |-> NoTask]
  /\ state = [t \in Tasks |-> "Running"]
  /\ in_wait_queue = [t \in Tasks |-> FALSE]

-----------------------------------------------------------------------------
(* self.queue.lock(): the SpinNoIrq lock is taken by a running task.       *)
LockQueue(q, t) ==
  /\ guard[q] = NoTask
  /\ guard' = [guard EXCEPT ![q] = t]
  /\ UNCHANGED <<queue, state, in_wait_queue>>

UnlockQueue(q, t) ==
  /\ guard[q] = t
  /\ guard' = [guard EXCEPT ![q] = NoTask]
  /\ UNCHANGED <<queue, state, in_wait_queue>>

(* Faulty variant of blocked_resched: the task is not pushed.              *)
BlockedReschedNoPush(q, t) ==
  /\ guard[q] = t
  /\ state' = [state EXCEPT ![t] = "Blocked"]
  /\ in_wait_queue' = [in_wait_queue EXCEPT ![t] = TRUE]
  /\ guard' = [guard EXCEPT ![q] = NoTask]
  /\ UNCHANGED queue

(* blocked_resched: with the lock held, mark the task Blocked, push it and *)
(* drop the lock.  The call returns when the task is Running again.        *)
BlockedResched(q, t) ==
  /\ guard[q] = t
  /\ state' = [state EXCEPT ![t] = "Blocked"]
  /\ in_wait_queue' = [in_wait_queue EXCEPT ![t] = TRUE]
  /\ queue' = [queue EXCEPT ![q] = Append(@, t)]
  /\ guard' = [guard EXCEPT ![q] = NoTask]

(* Faulty variant: the flag is not cleared.                                *)
PopFrontKeepFlag(q, t) ==
  /\ guard[q] = NoTask
  /\ queue[q] # <<>>
  /\ queue' = [queue EXCEPT ![q] = Tail(@)]
  /\ guard' = [guard EXCEPT ![q] = t]
  /\ UNCHANGED <<state, in_wait_queue>>

(* The first half of notify_one and of unblock_one_task: the front task is *)
(* popped and its flag cleared.  The lock is kept for the second half.     *)
PopFront(q, t) ==
  /\ guard[q] = NoTask
  /\ queue[q] # <<>>
  /\ queue' = [queue EXCEPT ![q] = Tail(@)]
  /\ in_wait_queue' = [in_wait_queue EXCEPT ![Head(queue[q])] = FALSE]
  /\ guard' = [guard EXCEPT ![q] = t]
  /\ UNCHANGED state

(* notify_one on an empty queue returns false and wakes nobody.            *)
PopNothing(q) ==
  /\ guard[q] = NoTask
  /\ queue[q] = <<>>
  /\ UNCHANGED wqVars

(* unblock_task: put_task_with_state moves the task from Blocked to Ready  *)
(* with one compare-and-swap and does nothing when it is not Blocked.      *)
Unblocked(u) ==
  IF state[u] = "Blocked" THEN [state EXCEPT ![u] = "Ready"] ELSE state

(* The second half of notify_one: the task is unblocked and the lock       *)
(* released.                                                               *)
UnblockOneTask(q, t, u) ==
  /\ guard[q] = t
  /\ state' = Unblocked(u)
  /\ guard' = [guard EXCEPT ![q] = NoTask]
  /\ UNCHANGED <<queue, in_wait_queue>>

(* cancel_events: a task whose flag is still set was not woken by notify   *)
(* and takes itself out of the queue, under the lock.                      *)
CancelEvents(q, t) ==
  LET others(u) == u # t
  IN /\ in_wait_queue[t] => guard[q] = NoTask
     /\ queue' = IF in_wait_queue[t]
                 THEN [queue EXCEPT ![q] = SelectSeq(@, others)]
                 ELSE queue
     /\ in_wait_queue' = [in_wait_queue EXCEPT ![t] = FALSE]
     /\ UNCHANGED <<guard, state>>

(* A Ready task is picked by its run queue and switched to.                *)
Dispatch(t) ==
  /\ state[t] = "Ready"
  /\ state' = [state EXCEPT ![t] = "Running"]
  /\ UNCHANGED <<queue, guard, in_wait_queue>>
=============================================================================
