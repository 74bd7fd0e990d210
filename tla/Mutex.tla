------------------------------- MODULE Mutex -------------------------------
(***************************************************************************)
(* The sleeping mutex of axsync (.arceos/modules/axsync/src/mutex.rs) on   *)
(* top of the wait queue: owner_id is an atomic word, lock() falls back to *)
(* wait_until(|| !is_locked()), and unlock() swaps the word to 0 before it *)
(* takes the queue's lock to wake a waiter.  One queue per mutex.  A task  *)
(* holds at most one of these mutexes at a time.                           *)
(***************************************************************************)
EXTENDS WaitQueue

VARIABLES owner_id,   \* owner_id[m]: the owner, NoTask for 0
          pc,         \* pc[t]: where t is in lock() or unlock()
          at,         \* at[t]: the mutex t is working on
          waking      \* waking[t]: the task t popped in notify_one

vars == <<queue, guard, state, in_wait_queue, owner_id, pc, at, waking>>

PCs == {"out", "cas", "wait", "check", "block", "cancel", "crit",
        "notify", "unblock"}

(* The types of the variables.                                             *)
TypeOK ==
  /\ WQTypeOK
  /\ owner_id \in [Queues -> Tasks \cup {NoTask}]
  /\ pc \in [Tasks -> PCs]
  /\ at \in [Tasks -> Queues]
  /\ waking \in [Tasks -> Tasks \cup {NoTask}]

Init ==
  /\ WQInit
  /\ owner_id = [m \in Queues |-> NoTask]
  /\ pc = [t \in Tasks |-> "out"]
  /\ at \in [Tasks -> Queues]
  /\ waking = [t \in Tasks |-> NoTask]

is_locked(m) == owner_id[m] # NoTask

(* t is executing, and next executes the step named by l.                  *)
At(t, l) == state[t] = "Running" /\ pc[t] = l

Goto(t, l) == pc' = [pc EXCEPT ![t] = l]

-----------------------------------------------------------------------------
(* The task calls lock().                                                  *)
LockCall(t, m) ==
  /\ At(t, "out")
  /\ at' = [at EXCEPT ![t] = m]
  /\ Goto(t, "cas")
  /\ UNCHANGED <<wqVars, owner_id, waking>>

(* Faulty variant: the store without the comparison.                       *)
CasUnchecked(t) ==
  /\ At(t, "cas")
  /\ owner_id' = [owner_id EXCEPT ![at[t]] = t]
  /\ Goto(t, "crit")
  /\ UNCHANGED <<wqVars, at, waking>>

(* compare_exchange_weak(0, current_id) succeeds.                          *)
CasOk(t) ==
  /\ At(t, "cas")
  /\ ~is_locked(at[t])
  /\ owner_id' = [owner_id EXCEPT ![at[t]] = t]
  /\ Goto(t, "crit")
  /\ UNCHANGED <<wqVars, at, waking>>

(* It fails because the mutex is owned, or spuriously: the weak form may.  *)
CasFail(t) ==
  /\ At(t, "cas")
  /\ Goto(t, "wait")
  /\ UNCHANGED <<wqVars, owner_id, at, waking>>

(* One turn of wait_until's loop: take the queue's lock.                   *)
WaitUntil(t) ==
  /\ At(t, "wait")
  /\ LockQueue(at[t], t)
  /\ Goto(t, "check")
  /\ UNCHANGED <<owner_id, at, waking>>

(* condition() holds: break, which drops the lock.                         *)
CheckFree(t) ==
  /\ At(t, "check")
  /\ ~is_locked(at[t])
  /\ UnlockQueue(at[t], t)
  /\ Goto(t, "cancel")
  /\ UNCHANGED <<owner_id, at, waking>>

(* condition() fails.  The owner may release the mutex from here on, but   *)
(* cannot notify before this task has pushed itself.                       *)
CheckLocked(t) ==
  /\ At(t, "check")
  /\ is_locked(at[t])
  /\ Goto(t, "block")
  /\ UNCHANGED <<wqVars, owner_id, at, waking>>

(* blocked_resched; when it returns the loop starts over.                  *)
Block(t) ==
  /\ At(t, "block")
  /\ BlockedResched(at[t], t)
  /\ Goto(t, "wait")
  /\ UNCHANGED <<owner_id, at, waking>>

(* cancel_events after the loop, then lock() tries again.                  *)
Cancel(t) ==
  /\ At(t, "cancel")
  /\ CancelEvents(at[t], t)
  /\ Goto(t, "cas")
  /\ UNCHANGED <<owner_id, at, waking>>

(* try_lock() succeeds; a failing try_lock() changes nothing.              *)
TryLock(t, m) ==
  /\ At(t, "out")
  /\ ~is_locked(m)
  /\ owner_id' = [owner_id EXCEPT ![m] = t]
  /\ at' = [at EXCEPT ![t] = m]
  /\ Goto(t, "crit")
  /\ UNCHANGED <<wqVars, waking>>

(* Faulty variant of unlock: nobody is notified.                           *)
SwapNoNotify(t) ==
  /\ At(t, "crit")
  /\ owner_id' = [owner_id EXCEPT ![at[t]] = NoTask]
  /\ Goto(t, "out")
  /\ UNCHANGED <<wqVars, at, waking>>

(* unlock(): owner_id.swap(0).                                             *)
Swap(t) ==
  /\ At(t, "crit")
  /\ owner_id' = [owner_id EXCEPT ![at[t]] = NoTask]
  /\ Goto(t, "notify")
  /\ UNCHANGED <<wqVars, at, waking>>

(* unlock(): notify_one(true), up to the pop.                              *)
Notify(t) ==
  LET q == at[t]
  IN /\ At(t, "notify")
     /\ \/ /\ PopNothing(q)
           /\ Goto(t, "out")
           /\ UNCHANGED waking
        \/ /\ PopFront(q, t)
           /\ waking' = [waking EXCEPT ![t] = Head(queue[q])]
           /\ Goto(t, "unblock")
     /\ UNCHANGED <<owner_id, at>>

(* unlock(): the popped task is made Ready, the lock dropped.              *)
Unblock(t) ==
  /\ At(t, "unblock")
  /\ UnblockOneTask(at[t], t, waking[t])
  /\ waking' = [waking EXCEPT ![t] = NoTask]
  /\ Goto(t, "out")
  /\ UNCHANGED <<owner_id, at>>

Run(t) ==
  /\ Dispatch(t)
  /\ UNCHANGED <<owner_id, pc, at, waking>>

(* The steps a task that is inside lock() or unlock() takes by itself.     *)
Step(t) ==
  \/ CasFail(t) \/ WaitUntil(t) \/ CheckFree(t) \/ CheckLocked(t)
  \/ Block(t) \/ Cancel(t) \/ Swap(t) \/ Notify(t) \/ Unblock(t) \/ Run(t)

Next ==
  \E t \in Tasks :
    \/ \E m \in Queues : LockCall(t, m) \/ TryLock(t, m)
    \/ CasOk(t)
    \/ Step(t)

Spec == Init /\ [][Next]_vars

(* A task that can run does run on.  It gets the spin lock of a queue, and *)
(* wins the compare-and-swap, if it can again and again.                   *)
Fairness ==
  \A t \in Tasks :
    /\ WF_vars(Step(t))
    /\ SF_vars(WaitUntil(t) \/ Notify(t))
    /\ SF_vars(CasOk(t))

FairSpec == Spec /\ Fairness

-----------------------------------------------------------------------------
(* At most one task is between lock() and unlock(), and owner_id names it, *)
(* so unlock()'s assertion that the caller owns the mutex never fires.     *)
MutualExclusion ==
  \A m \in Queues, t \in Tasks :
    (pc[t] = "crit" /\ at[t] = m) <=> (owner_id[m] = t)

(* t is awake, or about to be, and will look at m again before it sleeps.  *)
Active(t, m) ==
  /\ at[t] = m
  /\ state[t] # "Blocked"
  /\ pc[t] \in {"cas", "wait", "check", "cancel", "notify", "unblock"}

(* No wake-up is lost: when the mutex is free and tasks sleep in its queue *)
(* some task is on its way to take it or to wake one of them, although     *)
(* unlock() releases owner_id before it takes the queue's lock.            *)
NoLostWakeup ==
  \A m \in Queues :
    (~is_locked(m) /\ queue[m] # <<>>) => \E t \in Tasks : Active(t, m)

BlockedQueued(t) ==
  state[t] = "Blocked" =>
    \/ \E i \in DOMAIN queue[at[t]] : queue[at[t]][i] = t
    \/ \E u \in Tasks : pc[u] = "unblock" /\ waking[u] = t

QueuedOnce ==
  \A q \in Queues : \A i, j \in DOMAIN queue[q] :
    queue[q][i] = queue[q][j] => i = j

(* Nobody sleeps outside the queue: a Blocked task is in the queue of the  *)
(* mutex it wants, or has just been popped by a notifier that will unblock *)
(* it; and no queue holds a task twice, so notify_one() is never spent on  *)
(* a task that is already awake.                                           *)
SleepersQueued ==
  /\ \A t \in Tasks : BlockedQueued(t)
  /\ QueuedOnce

(* The two together: whoever sleeps is queued or being woken, and a free   *)
(* mutex with sleepers has somebody who will take it or wake one of them.  *)
SleepersWoken == NoLostWakeup /\ SleepersQueued

(* A free mutex with sleepers is taken again.                              *)
MutexProgress ==
  \A m \in Queues :
    (~is_locked(m) /\ queue[m] # <<>>) ~> is_locked(m)

-----------------------------------------------------------------------------
(* The inductive invariant, by parts.  The queue's lock is held exactly in *)
(* the sections that took it.                                              *)
GuardInv ==
  \A q \in Queues, t \in Tasks :
    (guard[q] = t) <=> (pc[t] \in {"check", "block", "unblock"} /\ at[t] = q)

(* Only a task in wait_until's loop is ever off the CPU, and the flag is   *)
(* set only while the task is asleep.                                      *)
SleepInv ==
  \A t \in Tasks :
    /\ state[t] # "Running" => pc[t] = "wait"
    /\ in_wait_queue[t] => state[t] = "Blocked"

(* A queued task is asleep, wants this mutex and has its flag set.         *)
QueueInv ==
  \A q \in Queues : \A i \in DOMAIN queue[q] :
    LET t == queue[q][i]
    IN state[t] = "Blocked" /\ at[t] = q /\ in_wait_queue[t]

(* A task being woken is asleep, wants the notifier's mutex and is in no   *)
(* queue any more.                                                         *)
WakingInv ==
  \A t \in Tasks : pc[t] = "unblock" =>
    /\ waking[t] \in Tasks
    /\ state[waking[t]] = "Blocked"
    /\ at[waking[t]] = at[t]
    /\ ~in_wait_queue[waking[t]]

(* A task that saw the mutex locked and is about to sleep has the queue's  *)
(* lock; if the mutex has been released since, its releaser has yet to     *)
(* notify.                                                                 *)
HandoffInv ==
  \A t \in Tasks : (pc[t] = "block" /\ ~is_locked(at[t])) =>
    \E u \in Tasks : pc[u] = "notify" /\ at[u] = at[t]

IInv ==
  /\ TypeOK /\ MutualExclusion /\ NoLostWakeup /\ SleepersQueued
  /\ GuardInv /\ SleepInv /\ QueueInv /\ WakingInv /\ HandoffInv
=============================================================================
