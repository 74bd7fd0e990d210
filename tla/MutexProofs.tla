---------------------------- MODULE MutexProofs ----------------------------
(***************************************************************************)
(* Proofs about Mutex for any sets of tasks and mutexes: mutual exclusion, *)
(* and that no wake-up is lost.  IInv is the inductive invariant; there is *)
(* one lemma per action, with one step per part of IInv.                   *)
(***************************************************************************)
EXTENDS Mutex, TLAPS

(* The mutexes start free, with every task awake and outside them.         *)
LEMMA InitIInv == Init => IInv
  <1> SUFFICES ASSUME Init PROVE IInv
    OBVIOUS
  <1>1. TypeOK
    BY DEF Init, WQInit, TypeOK, WQTypeOK, TaskState, PCs
  <1>2. MutualExclusion /\ GuardInv
    BY NoTaskAssumption DEF Init, WQInit, MutualExclusion, GuardInv
  <1>3. NoLostWakeup /\ HandoffInv /\ WakingInv /\ SleepInv
    BY DEF Init, WQInit, NoLostWakeup, HandoffInv, WakingInv, SleepInv
  <1>4. QueueInv /\ SleepersQueued
    BY DEF Init, WQInit, QueueInv, SleepersQueued, BlockedQueued, QueuedOnce
  <1> QED
    BY <1>1, <1>2, <1>3, <1>4 DEF IInv

(* What popping the front of a non-empty queue leaves.                     *)
LEMMA TailFacts ==
  ASSUME NEW S, NEW s \in Seq(S), s # <<>>
  PROVE  /\ Head(s) \in S /\ Tail(s) \in Seq(S)
         /\ 1 \in DOMAIN s /\ Head(s) = s[1]
         /\ \A i \in DOMAIN Tail(s) :
              i + 1 \in DOMAIN s /\ i + 1 # 1 /\ Tail(s)[i] = s[i + 1]
         /\ \A i \in DOMAIN s :
              i = 1 \/ (i - 1 \in DOMAIN Tail(s) /\ Tail(s)[i - 1] = s[i])
  OBVIOUS

(* What pushing a task at the back of a queue adds.                        *)
LEMMA AppendFacts ==
  ASSUME NEW S, NEW s \in Seq(S), NEW e \in S
  PROVE  /\ Append(s, e) \in Seq(S)
         /\ \A i \in DOMAIN s : i \in DOMAIN Append(s, e) /\ Append(s, e)[i] = s[i]
         /\ \E i \in DOMAIN Append(s, e) : Append(s, e)[i] = e
         /\ \A i \in DOMAIN Append(s, e) :
              \/ i \in DOMAIN s /\ Append(s, e)[i] = s[i]
              \/ i = Len(s) + 1 /\ Append(s, e)[i] = e
         /\ Len(s) + 1 \notin DOMAIN s
  OBVIOUS

(* lock() is called. *)
LEMMA LockCallIInv ==
  ASSUME IInv, NEW t \in Tasks, NEW m \in Queues, LockCall(t, m)
  PROVE  IInv'
  <1> USE DEF IInv, TypeOK, WQTypeOK, LockCall, At, Goto, wqVars
  <1>1. TypeOK'
    BY DEF TaskState, PCs
  <1>2. MutualExclusion'
    BY NoTaskAssumption DEF MutualExclusion, is_locked
  <1>3. GuardInv'
    BY NoTaskAssumption DEF GuardInv, SleepInv
  <1>4. SleepInv'
    BY DEF SleepInv, QueueInv, WakingInv
  <1>5. QueueInv'
    BY DEF SleepInv, QueueInv, WakingInv
  <1>6. WakingInv'
    BY DEF SleepInv, QueueInv, WakingInv, GuardInv
  <1>7. ASSUME NEW v \in Tasks PROVE BlockedQueued(v)'
    <2>1. BlockedQueued(v)
      BY DEF SleepersQueued
    <2> QED
      BY <2>1 DEF BlockedQueued, SleepInv
  <1>7a. QueuedOnce'
    BY DEF SleepersQueued, QueuedOnce
  <1>8. ASSUME NEW v \in Tasks, (pc[v] = "block" /\ ~is_locked(at[v]))'
        PROVE  (\E u \in Tasks : pc[u] = "notify" /\ at[u] = at[v])'
    <2>1. v # t /\ pc[v] = "block" /\ ~is_locked(at[v]) /\ at'[v] = at[v]
      BY <1>8 DEF is_locked
    <2>2. PICK u \in Tasks : pc[u] = "notify" /\ at[u] = at[v]
      BY <2>1 DEF HandoffInv
    <2> QED
      BY <2>1, <2>2
  <1>9. ASSUME NEW n \in Queues, (~is_locked(n) /\ queue[n] # <<>>)'
        PROVE  (\E u \in Tasks : Active(u, n))'
    <2>1. PICK u \in Tasks : Active(u, n)
      BY <1>9 DEF NoLostWakeup, is_locked
    <2> QED
      BY <2>1 DEF Active
  <1>10. HandoffInv' /\ NoLostWakeup' /\ SleepersQueued'
    BY ONLY <1>7, <1>7a, <1>8, <1>9 DEF HandoffInv, NoLostWakeup, SleepersQueued
  <1> QED
    BY <1>1, <1>2, <1>3, <1>4, <1>5, <1>6, <1>10 DEF IInv

(* The compare-and-swap takes a free mutex. *)
LEMMA CasOkIInv ==
  ASSUME IInv, NEW t \in Tasks, CasOk(t)
  PROVE  IInv'
  <1> USE DEF IInv, TypeOK, WQTypeOK, CasOk, At, Goto, wqVars
  <1>1. TypeOK'
    BY DEF TaskState, PCs
  <1>2. MutualExclusion'
    BY NoTaskAssumption DEF MutualExclusion, is_locked
  <1>3. GuardInv'
    BY NoTaskAssumption DEF GuardInv, SleepInv
  <1>4. SleepInv'
    BY DEF SleepInv, QueueInv, WakingInv
  <1>5. QueueInv'
    BY DEF SleepInv, QueueInv, WakingInv
  <1>6. WakingInv'
    BY DEF SleepInv, QueueInv, WakingInv, GuardInv
  <1>7. ASSUME NEW v \in Tasks PROVE BlockedQueued(v)'
    <2>1. BlockedQueued(v)
      BY DEF SleepersQueued
    <2> QED
      BY <2>1 DEF BlockedQueued, SleepInv
  <1>7a. QueuedOnce'
    BY DEF SleepersQueued, QueuedOnce
  <1>8. ASSUME NEW v \in Tasks, (pc[v] = "block" /\ ~is_locked(at[v]))'
        PROVE  (\E u \in Tasks : pc[u] = "notify" /\ at[u] = at[v])'
    BY <1>8, NoTaskAssumption DEF HandoffInv, GuardInv, MutualExclusion, is_locked
  <1>9. ASSUME NEW n \in Queues, (~is_locked(n) /\ queue[n] # <<>>)'
        PROVE  (\E u \in Tasks : Active(u, n))'
    BY <1>9, NoTaskAssumption
    DEF NoLostWakeup, Active, HandoffInv, GuardInv, SleepInv, WakingInv, is_locked
  <1>10. HandoffInv' /\ NoLostWakeup' /\ SleepersQueued'
    BY ONLY <1>7, <1>7a, <1>8, <1>9 DEF HandoffInv, NoLostWakeup, SleepersQueued
  <1> QED
    BY <1>1, <1>2, <1>3, <1>4, <1>5, <1>6, <1>10 DEF IInv

(* The compare-and-swap fails. *)
LEMMA CasFailIInv ==
  ASSUME IInv, NEW t \in Tasks, CasFail(t)
  PROVE  IInv'
  <1> USE DEF IInv, TypeOK, WQTypeOK, CasFail, At, Goto, wqVars
  <1>1. TypeOK'
    BY DEF TaskState, PCs
  <1>2. MutualExclusion'
    BY NoTaskAssumption DEF MutualExclusion, is_locked
  <1>3. GuardInv'
    BY NoTaskAssumption DEF GuardInv, SleepInv
  <1>4. SleepInv'
    BY DEF SleepInv, QueueInv, WakingInv
  <1>5. QueueInv'
    BY DEF SleepInv, QueueInv, WakingInv
  <1>6. WakingInv'
    BY DEF SleepInv, QueueInv, WakingInv, GuardInv
  <1>7. ASSUME NEW v \in Tasks PROVE BlockedQueued(v)'
    <2>1. BlockedQueued(v)
      BY DEF SleepersQueued
    <2> QED
      BY <2>1 DEF BlockedQueued, SleepInv
  <1>7a. QueuedOnce'
    BY DEF SleepersQueued, QueuedOnce
  <1>8. ASSUME NEW v \in Tasks, (pc[v] = "block" /\ ~is_locked(at[v]))'
        PROVE  (\E u \in Tasks : pc[u] = "notify" /\ at[u] = at[v])'
    BY <1>8, NoTaskAssumption DEF HandoffInv, GuardInv, MutualExclusion, is_locked
  <1>9. ASSUME NEW n \in Queues, (~is_locked(n) /\ queue[n] # <<>>)'
        PROVE  (\E u \in Tasks : Active(u, n))'
    BY <1>9, NoTaskAssumption
    DEF NoLostWakeup, Active, HandoffInv, GuardInv, SleepInv, WakingInv, is_locked
  <1>10. HandoffInv' /\ NoLostWakeup' /\ SleepersQueued'
    BY ONLY <1>7, <1>7a, <1>8, <1>9 DEF HandoffInv, NoLostWakeup, SleepersQueued
  <1> QED
    BY <1>1, <1>2, <1>3, <1>4, <1>5, <1>6, <1>10 DEF IInv

(* The queue's lock is taken. *)
LEMMA WaitUntilIInv ==
  ASSUME IInv, NEW t \in Tasks, WaitUntil(t)
  PROVE  IInv'
  <1> USE DEF IInv, TypeOK, WQTypeOK, WaitUntil, At, Goto, wqVars, LockQueue
  <1>1. TypeOK'
    BY DEF TaskState, PCs
  <1>2. MutualExclusion'
    BY NoTaskAssumption DEF MutualExclusion, is_locked
  <1>3. GuardInv'
    BY NoTaskAssumption DEF GuardInv, SleepInv
  <1>4. SleepInv'
    BY DEF SleepInv, QueueInv, WakingInv
  <1>5. QueueInv'
    BY DEF SleepInv, QueueInv, WakingInv
  <1>6. WakingInv'
    BY DEF SleepInv, QueueInv, WakingInv, GuardInv
  <1>7. ASSUME NEW v \in Tasks PROVE BlockedQueued(v)'
    <2>1. BlockedQueued(v)
      BY DEF SleepersQueued
    <2> QED
      BY <2>1 DEF BlockedQueued, SleepInv
  <1>7a. QueuedOnce'
    BY DEF SleepersQueued, QueuedOnce
  <1>8. ASSUME NEW v \in Tasks, (pc[v] = "block" /\ ~is_locked(at[v]))'
        PROVE  (\E u \in Tasks : pc[u] = "notify" /\ at[u] = at[v])'
    BY <1>8, NoTaskAssumption DEF HandoffInv, GuardInv, MutualExclusion, is_locked
  <1>9. ASSUME NEW n \in Queues, (~is_locked(n) /\ queue[n] # <<>>)'
        PROVE  (\E u \in Tasks : Active(u, n))'
    BY <1>9, NoTaskAssumption
    DEF NoLostWakeup, Active, HandoffInv, GuardInv, SleepInv, WakingInv, is_locked
  <1>10. HandoffInv' /\ NoLostWakeup' /\ SleepersQueued'
    BY ONLY <1>7, <1>7a, <1>8, <1>9 DEF HandoffInv, NoLostWakeup, SleepersQueued
  <1> QED
    BY <1>1, <1>2, <1>3, <1>4, <1>5, <1>6, <1>10 DEF IInv

(* The mutex looks free: the lock is dropped. *)
LEMMA CheckFreeIInv ==
  ASSUME IInv, NEW t \in Tasks, CheckFree(t)
  PROVE  IInv'
  <1> USE DEF IInv, TypeOK, WQTypeOK, CheckFree, At, Goto, wqVars, UnlockQueue
  <1>1. TypeOK'
    BY DEF TaskState, PCs
  <1>2. MutualExclusion'
    BY NoTaskAssumption DEF MutualExclusion, is_locked
  <1>3. GuardInv'
    BY NoTaskAssumption DEF GuardInv, SleepInv
  <1>4. SleepInv'
    BY DEF SleepInv, QueueInv, WakingInv
  <1>5. QueueInv'
    BY DEF SleepInv, QueueInv, WakingInv
  <1>6. WakingInv'
    BY DEF SleepInv, QueueInv, WakingInv, GuardInv
  <1>7. ASSUME NEW v \in Tasks PROVE BlockedQueued(v)'
    <2>1. BlockedQueued(v)
      BY DEF SleepersQueued
    <2> QED
      BY <2>1 DEF BlockedQueued, SleepInv
  <1>7a. QueuedOnce'
    BY DEF SleepersQueued, QueuedOnce
  <1>8. ASSUME NEW v \in Tasks, (pc[v] = "block" /\ ~is_locked(at[v]))'
        PROVE  (\E u \in Tasks : pc[u] = "notify" /\ at[u] = at[v])'
    BY <1>8, NoTaskAssumption DEF HandoffInv, GuardInv, MutualExclusion, is_locked
  <1>9. ASSUME NEW n \in Queues, (~is_locked(n) /\ queue[n] # <<>>)'
        PROVE  (\E u \in Tasks : Active(u, n))'
    BY <1>9, NoTaskAssumption
    DEF NoLostWakeup, Active, HandoffInv, GuardInv, SleepInv, WakingInv, is_locked
  <1>10. HandoffInv' /\ NoLostWakeup' /\ SleepersQueued'
    BY ONLY <1>7, <1>7a, <1>8, <1>9 DEF HandoffInv, NoLostWakeup, SleepersQueued
  <1> QED
    BY <1>1, <1>2, <1>3, <1>4, <1>5, <1>6, <1>10 DEF IInv

(* The mutex is locked: the task is going to sleep. *)
LEMMA CheckLockedIInv ==
  ASSUME IInv, NEW t \in Tasks, CheckLocked(t)
  PROVE  IInv'
  <1> USE DEF IInv, TypeOK, WQTypeOK, CheckLocked, At, Goto, wqVars
  <1>1. TypeOK'
    BY DEF TaskState, PCs
  <1>2. MutualExclusion'
    BY NoTaskAssumption DEF MutualExclusion, is_locked
  <1>3. GuardInv'
    BY NoTaskAssumption DEF GuardInv, SleepInv
  <1>4. SleepInv'
    BY DEF SleepInv, QueueInv, WakingInv
  <1>5. QueueInv'
    BY DEF SleepInv, QueueInv, WakingInv
  <1>6. WakingInv'
    BY DEF SleepInv, QueueInv, WakingInv, GuardInv
  <1>7. ASSUME NEW v \in Tasks PROVE BlockedQueued(v)'
    <2>1. BlockedQueued(v)
      BY DEF SleepersQueued
    <2> QED
      BY <2>1 DEF BlockedQueued, SleepInv
  <1>7a. QueuedOnce'
    BY DEF SleepersQueued, QueuedOnce
  <1>8. ASSUME NEW v \in Tasks, (pc[v] = "block" /\ ~is_locked(at[v]))'
        PROVE  (\E u \in Tasks : pc[u] = "notify" /\ at[u] = at[v])'
    BY <1>8, NoTaskAssumption DEF HandoffInv, GuardInv, MutualExclusion, is_locked
  <1>9. ASSUME NEW n \in Queues, (~is_locked(n) /\ queue[n] # <<>>)'
        PROVE  (\E u \in Tasks : Active(u, n))'
    BY <1>9, NoTaskAssumption
    DEF NoLostWakeup, Active, HandoffInv, GuardInv, SleepInv, WakingInv, is_locked
  <1>10. HandoffInv' /\ NoLostWakeup' /\ SleepersQueued'
    BY ONLY <1>7, <1>7a, <1>8, <1>9 DEF HandoffInv, NoLostWakeup, SleepersQueued
  <1> QED
    BY <1>1, <1>2, <1>3, <1>4, <1>5, <1>6, <1>10 DEF IInv

(* The task pushes itself and sleeps.  If the mutex is free again, HandoffInv
   names the task that has yet to notify. *)
LEMMA BlockIInv ==
  ASSUME IInv, NEW t \in Tasks, Block(t)
  PROVE  IInv'
  <1>0. queue[at[t]] \in Seq(Tasks) /\ at[t] \in Queues
    BY DEF IInv, TypeOK, WQTypeOK
  <1>a. \A i \in DOMAIN queue[at[t]] : queue[at[t]][i] # t
    BY <1>0 DEF IInv, QueueInv, Block, At
  <1>b. /\ \E i \in DOMAIN Append(queue[at[t]], t) : Append(queue[at[t]], t)[i] = t
        /\ \A i \in DOMAIN Append(queue[at[t]], t) :
             \/ i \in DOMAIN queue[at[t]] /\ Append(queue[at[t]], t)[i] = queue[at[t]][i]
             \/ i = Len(queue[at[t]]) + 1 /\ Append(queue[at[t]], t)[i] = t
    BY <1>0, AppendFacts
  <1> USE DEF IInv, TypeOK, WQTypeOK, Block, At, Goto, wqVars, BlockedResched
  <1>1. TypeOK'
    BY DEF TaskState, PCs
  <1>2. MutualExclusion'
    BY NoTaskAssumption DEF MutualExclusion, is_locked
  <1>3. GuardInv'
    BY NoTaskAssumption DEF GuardInv, SleepInv
  <1>4. SleepInv'
    BY SMTT(40) DEF SleepInv, QueueInv, WakingInv
  <1>5. QueueInv'
    BY DEF SleepInv, QueueInv, WakingInv
  <1>6. WakingInv'
    BY DEF SleepInv, QueueInv, WakingInv, GuardInv
  <1>7. ASSUME NEW v \in Tasks PROVE BlockedQueued(v)'
    <2>1. BlockedQueued(v)
      BY DEF SleepersQueued
    <2>2. CASE v = t
      BY <2>2, <1>0, <1>b DEF BlockedQueued
    <2>3. CASE v # t /\ at[v] # at[t]
      BY <2>1, <2>3 DEF BlockedQueued
    <2>4. CASE v # t /\ at[v] = at[t]
      BY <2>1, <2>4, <1>0, AppendFacts DEF BlockedQueued
    <2> QED
      BY <2>2, <2>3, <2>4
  <1>7a. QueuedOnce'
    <2>1. QueuedOnce
      BY DEF SleepersQueued
    <2>2. ASSUME NEW q \in Queues, NEW i \in DOMAIN queue'[q],
                 NEW j \in DOMAIN queue'[q], queue'[q][i] = queue'[q][j]
          PROVE  i = j
      <3>1. CASE q # at[t]
        BY <2>1, <2>2, <3>1 DEF QueuedOnce
      <3>2. CASE q = at[t]
        <4>1. queue'[q] = Append(queue[q], t)
          BY <3>2
        <4> QED
          BY <2>1, <2>2, <3>2, <4>1, <1>a, <1>b DEF QueuedOnce
      <3> QED
        BY <3>1, <3>2
    <2> QED
      BY <2>2, SMTT(40) DEF QueuedOnce
  <1>8. ASSUME NEW v \in Tasks, (pc[v] = "block" /\ ~is_locked(at[v]))'
        PROVE  (\E u \in Tasks : pc[u] = "notify" /\ at[u] = at[v])'
    BY <1>8, NoTaskAssumption DEF HandoffInv, GuardInv, MutualExclusion, is_locked
  <1>9. ASSUME NEW n \in Queues, (~is_locked(n) /\ queue[n] # <<>>)'
        PROVE  (\E u \in Tasks : Active(u, n))'
    <2>1. CASE n = at[t]
      <3>1. PICK u \in Tasks : pc[u] = "notify" /\ at[u] = at[t]
        BY <1>9, <2>1 DEF HandoffInv, is_locked
      <3> QED
        BY <3>1, <2>1, Zenon DEF Active, SleepInv
    <2>2. CASE n # at[t]
      <3>1. PICK u \in Tasks : Active(u, n)
        BY <1>9, <2>2 DEF NoLostWakeup, is_locked
      <3> QED
        BY <3>1, <2>2 DEF Active
    <2> QED
      BY <2>1, <2>2
  <1>10. HandoffInv' /\ NoLostWakeup' /\ SleepersQueued'
    BY ONLY <1>7, <1>7a, <1>8, <1>9 DEF HandoffInv, NoLostWakeup, SleepersQueued
  <1> QED
    BY <1>1, <1>2, <1>3, <1>4, <1>5, <1>6, <1>10 DEF IInv

(* cancel_events finds the flag clear, so it leaves the queue alone. *)
LEMMA CancelIInv ==
  ASSUME IInv, NEW t \in Tasks, Cancel(t)
  PROVE  IInv'
  <1>0. UNCHANGED wqVars /\ pc[t] = "cancel" /\ Goto(t, "cas")
        /\ UNCHANGED <<owner_id, at, waking>>
    BY DEF IInv, TypeOK, WQTypeOK, SleepInv, Cancel, CancelEvents, At, wqVars
  <1> USE DEF IInv, TypeOK, WQTypeOK, Goto, wqVars
  <1>1. TypeOK'
    BY <1>0 DEF TaskState, PCs
  <1>2. MutualExclusion'
    BY <1>0, NoTaskAssumption DEF MutualExclusion, is_locked
  <1>3. GuardInv'
    BY <1>0, NoTaskAssumption DEF GuardInv, SleepInv
  <1>4. SleepInv'
    BY <1>0 DEF SleepInv, QueueInv, WakingInv
  <1>5. QueueInv'
    BY <1>0 DEF SleepInv, QueueInv, WakingInv
  <1>6. WakingInv'
    BY <1>0 DEF SleepInv, QueueInv, WakingInv, GuardInv
  <1>7. ASSUME NEW v \in Tasks PROVE BlockedQueued(v)'
    <2>1. BlockedQueued(v)
      BY DEF SleepersQueued
    <2> QED
      BY <1>0, <2>1 DEF BlockedQueued, SleepInv
  <1>7a. QueuedOnce'
    BY <1>0 DEF SleepersQueued, QueuedOnce
  <1>8. ASSUME NEW v \in Tasks, (pc[v] = "block" /\ ~is_locked(at[v]))'
        PROVE  (\E u \in Tasks : pc[u] = "notify" /\ at[u] = at[v])'
    BY <1>0, <1>8, NoTaskAssumption DEF HandoffInv, GuardInv, MutualExclusion, is_locked
  <1>9. ASSUME NEW n \in Queues, (~is_locked(n) /\ queue[n] # <<>>)'
        PROVE  (\E u \in Tasks : Active(u, n))'
    BY <1>0, <1>9, NoTaskAssumption
    DEF NoLostWakeup, Active, HandoffInv, GuardInv, SleepInv, WakingInv, is_locked
  <1>10. HandoffInv' /\ NoLostWakeup' /\ SleepersQueued'
    BY ONLY <1>7, <1>7a, <1>8, <1>9, SMTT(40) DEF HandoffInv, NoLostWakeup, SleepersQueued
  <1> QED
    BY <1>1, <1>2, <1>3, <1>4, <1>5, <1>6, <1>10 DEF IInv

(* try_lock() takes a free mutex. *)
LEMMA TryLockIInv ==
  ASSUME IInv, NEW t \in Tasks, NEW m \in Queues, TryLock(t, m)
  PROVE  IInv'
  <1> USE DEF IInv, TypeOK, WQTypeOK, TryLock, At, Goto, wqVars
  <1>1. TypeOK'
    BY DEF TaskState, PCs
  <1>2. MutualExclusion'
    BY NoTaskAssumption DEF MutualExclusion, is_locked
  <1>3. GuardInv'
    BY NoTaskAssumption DEF GuardInv, SleepInv
  <1>4. SleepInv'
    BY DEF SleepInv, QueueInv, WakingInv
  <1>5. QueueInv'
    BY DEF SleepInv, QueueInv, WakingInv
  <1>6. WakingInv'
    BY DEF SleepInv, QueueInv, WakingInv, GuardInv
  <1>7. ASSUME NEW v \in Tasks PROVE BlockedQueued(v)'
    <2>1. BlockedQueued(v)
      BY DEF SleepersQueued
    <2> QED
      BY <2>1, Zenon DEF BlockedQueued, SleepInv
  <1>7a. QueuedOnce'
    BY DEF SleepersQueued, QueuedOnce
  <1>8. ASSUME NEW v \in Tasks, (pc[v] = "block" /\ ~is_locked(at[v]))'
        PROVE  (\E u \in Tasks : pc[u] = "notify" /\ at[u] = at[v])'
    <2>1. v # t /\ pc[v] = "block" /\ ~is_locked(at[v]) /\ at'[v] = at[v]
      BY <1>8 DEF is_locked
    <2>2. PICK u \in Tasks : pc[u] = "notify" /\ at[u] = at[v]
      BY <2>1 DEF HandoffInv
    <2> QED
      BY <2>1, <2>2
  <1>9. ASSUME NEW n \in Queues, (~is_locked(n) /\ queue[n] # <<>>)'
        PROVE  (\E u \in Tasks : Active(u, n))'
    <2>1. PICK u \in Tasks : Active(u, n)
      BY <1>9 DEF NoLostWakeup, is_locked
    <2> QED
      BY <2>1 DEF Active
  <1>10. HandoffInv' /\ NoLostWakeup' /\ SleepersQueued'
    BY ONLY <1>7, <1>7a, <1>8, <1>9 DEF HandoffInv, NoLostWakeup, SleepersQueued
  <1> QED
    BY <1>1, <1>2, <1>3, <1>4, <1>5, <1>6, <1>10 DEF IInv

(* unlock() frees the mutex; the caller has yet to notify. *)
LEMMA SwapIInv ==
  ASSUME IInv, NEW t \in Tasks, Swap(t)
  PROVE  IInv'
  <1> USE DEF IInv, TypeOK, WQTypeOK, Swap, At, Goto, wqVars
  <1>1. TypeOK'
    BY DEF TaskState, PCs
  <1>2. MutualExclusion'
    BY NoTaskAssumption DEF MutualExclusion, is_locked
  <1>3. GuardInv'
    BY NoTaskAssumption, SMTT(40) DEF GuardInv, SleepInv
  <1>4. SleepInv'
    BY DEF SleepInv, QueueInv, WakingInv
  <1>5. QueueInv'
    BY DEF SleepInv, QueueInv, WakingInv
  <1>6. WakingInv'
    BY DEF SleepInv, QueueInv, WakingInv, GuardInv
  <1>7. ASSUME NEW v \in Tasks PROVE BlockedQueued(v)'
    <2>1. BlockedQueued(v)
      BY DEF SleepersQueued
    <2> QED
      BY <2>1 DEF BlockedQueued, SleepInv
  <1>7a. QueuedOnce'
    BY DEF SleepersQueued, QueuedOnce
  <1>8. ASSUME NEW v \in Tasks, (pc[v] = "block" /\ ~is_locked(at[v]))'
        PROVE  (\E u \in Tasks : pc[u] = "notify" /\ at[u] = at[v])'
    BY <1>8, NoTaskAssumption DEF HandoffInv, GuardInv, MutualExclusion, is_locked
  <1>9. ASSUME NEW n \in Queues, (~is_locked(n) /\ queue[n] # <<>>)'
        PROVE  (\E u \in Tasks : Active(u, n))'
    BY <1>9, NoTaskAssumption, SMTT(40)
    DEF NoLostWakeup, Active, HandoffInv, GuardInv, SleepInv, WakingInv, is_locked
  <1>10. HandoffInv' /\ NoLostWakeup' /\ SleepersQueued'
    BY ONLY <1>7, <1>7a, <1>8, <1>9, SMTT(40) DEF HandoffInv, NoLostWakeup, SleepersQueued
  <1> QED
    BY <1>1, <1>2, <1>3, <1>4, <1>5, <1>6, <1>10 DEF IInv

(* The popped task becomes Ready and is the one that will look at the mutex. *)
LEMMA UnblockIInv ==
  ASSUME IInv, NEW t \in Tasks, Unblock(t)
  PROVE  IInv'
  <1> USE DEF IInv, TypeOK, WQTypeOK, Unblock, At, Goto, wqVars, UnblockOneTask, Unblocked
  <1>1. TypeOK'
    BY Zenon DEF TaskState, PCs
  <1>2. MutualExclusion'
    BY NoTaskAssumption DEF MutualExclusion, is_locked
  <1>3. GuardInv'
    BY NoTaskAssumption DEF GuardInv, SleepInv
  <1>4. SleepInv'
    BY DEF SleepInv, QueueInv, WakingInv
  <1>5. QueueInv'
    BY DEF SleepInv, QueueInv, WakingInv
  <1>6. WakingInv'
    BY DEF SleepInv, QueueInv, WakingInv, GuardInv
  <1>7. ASSUME NEW v \in Tasks PROVE BlockedQueued(v)'
    <2>1. BlockedQueued(v)
      BY DEF SleepersQueued
    <2> QED
      BY <2>1 DEF BlockedQueued, SleepInv
  <1>7a. QueuedOnce'
    BY DEF SleepersQueued, QueuedOnce
  <1>8. ASSUME NEW v \in Tasks, (pc[v] = "block" /\ ~is_locked(at[v]))'
        PROVE  (\E u \in Tasks : pc[u] = "notify" /\ at[u] = at[v])'
    BY <1>8, NoTaskAssumption DEF HandoffInv, GuardInv, MutualExclusion, is_locked
  <1>9. ASSUME NEW n \in Queues, (~is_locked(n) /\ queue[n] # <<>>)'
        PROVE  (\E u \in Tasks : Active(u, n))'
    BY <1>9, NoTaskAssumption, SMTT(40)
    DEF NoLostWakeup, Active, HandoffInv, GuardInv, SleepInv, WakingInv, is_locked
  <1>10. HandoffInv' /\ NoLostWakeup' /\ SleepersQueued'
    BY ONLY <1>7, <1>7a, <1>8, <1>9, SMTT(40) DEF HandoffInv, NoLostWakeup, SleepersQueued
  <1> QED
    BY <1>1, <1>2, <1>3, <1>4, <1>5, <1>6, <1>10 DEF IInv

(* A Ready task runs. *)
LEMMA RunIInv ==
  ASSUME IInv, NEW t \in Tasks, Run(t)
  PROVE  IInv'
  <1> USE DEF IInv, TypeOK, WQTypeOK, Run, At, Goto, wqVars, Dispatch
  <1>1. TypeOK'
    BY DEF TaskState, PCs
  <1>2. MutualExclusion'
    BY NoTaskAssumption DEF MutualExclusion, is_locked
  <1>3. GuardInv'
    BY NoTaskAssumption DEF GuardInv, SleepInv
  <1>4. SleepInv'
    BY DEF SleepInv, QueueInv, WakingInv
  <1>5. QueueInv'
    BY DEF SleepInv, QueueInv, WakingInv
  <1>6. WakingInv'
    BY DEF SleepInv, QueueInv, WakingInv, GuardInv
  <1>7. ASSUME NEW v \in Tasks PROVE BlockedQueued(v)'
    <2>1. BlockedQueued(v)
      BY DEF SleepersQueued
    <2> QED
      BY <2>1 DEF BlockedQueued, SleepInv
  <1>7a. QueuedOnce'
    BY DEF SleepersQueued, QueuedOnce
  <1>8. ASSUME NEW v \in Tasks, (pc[v] = "block" /\ ~is_locked(at[v]))'
        PROVE  (\E u \in Tasks : pc[u] = "notify" /\ at[u] = at[v])'
    BY <1>8, NoTaskAssumption, SMTT(40) DEF HandoffInv, GuardInv, MutualExclusion, is_locked
  <1>9. ASSUME NEW n \in Queues, (~is_locked(n) /\ queue[n] # <<>>)'
        PROVE  (\E u \in Tasks : Active(u, n))'
    BY <1>9, NoTaskAssumption, SMTT(40)
    DEF NoLostWakeup, Active, HandoffInv, GuardInv, SleepInv, WakingInv, is_locked
  <1>10. HandoffInv' /\ NoLostWakeup' /\ SleepersQueued'
    BY ONLY <1>7, <1>7a, <1>8, <1>9, SMTT(40) DEF HandoffInv, NoLostWakeup, SleepersQueued
  <1> QED
    BY <1>1, <1>2, <1>3, <1>4, <1>5, <1>6, <1>10 DEF IInv
(* notify_one on an empty queue: nobody sleeps there, so nobody needs the  *)
(* caller any more.                                                        *)
LEMMA NotifyNobodyIInv ==
  ASSUME IInv, NEW t \in Tasks, At(t, "notify"), PopNothing(at[t]),
         Goto(t, "out"), UNCHANGED <<owner_id, at, waking>>
  PROVE  IInv'
  <1> USE DEF IInv, TypeOK, WQTypeOK, At, Goto, wqVars, PopNothing
  <1>1. TypeOK' /\ MutualExclusion' /\ GuardInv'
    BY SMTT(40) DEF PCs, MutualExclusion, GuardInv
  <1>2. SleepInv' /\ QueueInv' /\ WakingInv'
    BY DEF SleepInv, QueueInv, WakingInv
  <1>3. ASSUME NEW v \in Tasks PROVE BlockedQueued(v)'
    <2>1. BlockedQueued(v)
      BY DEF SleepersQueued
    <2> QED
      BY <2>1 DEF BlockedQueued
  <1>4. QueuedOnce'
    BY DEF SleepersQueued, QueuedOnce
  <1>5. HandoffInv'
    BY NoTaskAssumption DEF HandoffInv, GuardInv, is_locked
  <1>6. ASSUME NEW n \in Queues, (~is_locked(n) /\ queue[n] # <<>>)'
        PROVE  (\E u \in Tasks : Active(u, n))'
    <2>1. PICK u \in Tasks : Active(u, n)
      BY <1>6 DEF NoLostWakeup, is_locked
    <2>2. u # t
      BY <1>6, <2>1 DEF Active
    <2> QED
      BY <2>1, <2>2 DEF Active
  <1>7. NoLostWakeup' /\ SleepersQueued'
    BY ONLY <1>3, <1>4, <1>6, SMTT(40) DEF NoLostWakeup, SleepersQueued
  <1> QED
    BY <1>1, <1>2, <1>5, <1>7, SMTT(40) DEF IInv

(* notify_one pops a task: the caller, which holds the queue's lock until  *)
(* it has unblocked that task, is the active one.                          *)
LEMMA NotifyPopIInv ==
  ASSUME IInv, NEW t \in Tasks, At(t, "notify"), PopFront(at[t], t),
         waking' = [waking EXCEPT ![t] = Head(queue[at[t]])],
         Goto(t, "unblock"), UNCHANGED <<owner_id, at>>
  PROVE  IInv'
  <1> DEFINE q == at[t]
             h == Head(queue[q])
  <1>1. q \in Queues /\ queue[q] \in Seq(Tasks) /\ queue[q] # <<>>
    BY SMTT(40) DEF IInv, TypeOK, WQTypeOK, PopFront
  <1>2. /\ h \in Tasks /\ Tail(queue[q]) \in Seq(Tasks)
        /\ 1 \in DOMAIN queue[q] /\ h = queue[q][1]
        /\ \A i \in DOMAIN Tail(queue[q]) :
             /\ i + 1 \in DOMAIN queue[q] /\ i + 1 # 1
             /\ Tail(queue[q])[i] = queue[q][i + 1]
        /\ \A i \in DOMAIN queue[q] :
             \/ i = 1
             \/ i - 1 \in DOMAIN Tail(queue[q]) /\ Tail(queue[q])[i - 1] = queue[q][i]
    BY <1>1, TailFacts, SMTT(40)
  <1>3. state[h] = "Blocked" /\ at[h] = q /\ h # t
    BY <1>1, <1>2 DEF IInv, QueueInv, At
  <1>4. /\ queue' = [queue EXCEPT ![q] = Tail(queue[q])]
        /\ in_wait_queue' = [in_wait_queue EXCEPT ![h] = FALSE]
        /\ guard[q] = NoTask /\ guard' = [guard EXCEPT ![q] = t]
        /\ waking' = [waking EXCEPT ![t] = h]
        /\ pc' = [pc EXCEPT ![t] = "unblock"]
        /\ pc[t] = "notify" /\ state[t] = "Running"
        /\ UNCHANGED <<owner_id, at, state>>
    BY DEF PopFront, Goto, At
  <1>5. QueuedOnce /\ \A v \in Tasks : BlockedQueued(v)
    BY SMTT(40) DEF IInv, SleepersQueued
  <1> HIDE DEF q, h
  <1> USE DEF IInv, TypeOK, WQTypeOK
  <1>6. TypeOK'
    BY <1>1, <1>2, <1>4 DEF TaskState, PCs
  <1>7. MutualExclusion'
    BY <1>4 DEF MutualExclusion
  <1>8. GuardInv'
    BY <1>1, <1>4, NoTaskAssumption, SMTT(40) DEF GuardInv, q
  <1>9. SleepInv'
    BY <1>4, SMTT(40) DEF SleepInv
  <1>10. ASSUME NEW p \in Queues, NEW i \in DOMAIN queue'[p]
         PROVE  /\ state'[queue'[p][i]] = "Blocked"
                /\ at'[queue'[p][i]] = p
                /\ in_wait_queue'[queue'[p][i]]
    <2>1. CASE p = q
      <3>1. queue'[p] = Tail(queue[q])
        BY <2>1, <1>1, <1>4, SMTT(40)
      <3>2. i + 1 \in DOMAIN queue[q] /\ queue'[p][i] = queue[q][i + 1] /\ i + 1 # 1
        BY <3>1, <1>2, <1>10, SMTT(40)
      <3>3. queue[q][i + 1] # h
        BY <3>2, <1>1, <1>2, <1>5, SMTT(40) DEF QueuedOnce
      <3> QED
        BY <2>1, <3>2, <3>3, <1>1, <1>4, SMTT(40) DEF QueueInv
    <2>2. CASE p # q
      <3>1. queue'[p] = queue[p]
        BY <2>2, <1>4, SMTT(40)
      <3>2. at[queue[p][i]] = p /\ state[queue[p][i]] = "Blocked" /\ in_wait_queue[queue[p][i]]
        BY <3>1, <1>10, SMTT(40) DEF QueueInv
      <3> QED
        BY <2>2, <3>1, <3>2, <1>3, <1>4, SMTT(40)
    <2> QED
      BY <2>1, <2>2, SMTT(40)
  <1>11. QueueInv'
    BY ONLY <1>10, SMTT(40) DEF QueueInv
  <1>12. WakingInv'
    BY <1>1, <1>2, <1>3, <1>4, NoTaskAssumption, SMTT(40) DEF WakingInv, q
  <1>13. ASSUME NEW v \in Tasks, state[v] = "Blocked"
         PROVE  \/ \E i \in DOMAIN queue'[at[v]] : queue'[at[v]][i] = v
                \/ \E u \in Tasks : pc'[u] = "unblock" /\ waking'[u] = v
    <2>1. CASE v = h
      BY <2>1, <1>4
    <2>2. CASE \E u \in Tasks : pc[u] = "unblock" /\ waking[u] = v
      BY <2>2, <1>4
    <2>3. CASE v # h /\ \E i \in DOMAIN queue[at[v]] : queue[at[v]][i] = v
      <3>1. PICK i \in DOMAIN queue[at[v]] : queue[at[v]][i] = v
        BY <2>3
      <3>2. CASE at[v] # q
        BY <3>1, <3>2, <1>4, SMTT(40)
      <3>3. CASE at[v] = q
        <4>1. i - 1 \in DOMAIN Tail(queue[q]) /\ Tail(queue[q])[i - 1] = v
          BY <2>3, <3>1, <3>3, <1>2, SMTT(40)
        <4>2. queue'[at[v]] = Tail(queue[q])
          BY <3>3, <1>1, <1>4
        <4> QED
          BY <4>1, <4>2, Zenon
      <3> QED
        BY <3>2, <3>3
    <2> QED
      BY <2>1, <2>2, <2>3, <1>13, <1>5, Zenon DEF BlockedQueued
  <1>14. ASSUME NEW p \in Queues, NEW i \in DOMAIN queue'[p],
                NEW j \in DOMAIN queue'[p], queue'[p][i] = queue'[p][j]
         PROVE  i = j
    <2>1. CASE p = q
      <3>1. queue'[p] = Tail(queue[q])
        BY <2>1, <1>1, <1>4, SMTT(40)
      <3>2. /\ i + 1 \in DOMAIN queue[q] /\ j + 1 \in DOMAIN queue[q]
            /\ queue[q][i + 1] = queue[q][j + 1]
        BY <3>1, <1>2, <1>14, SMTT(40)
      <3>3. i + 1 = j + 1
        BY <3>2, <1>1, <1>5, SMTT(40) DEF QueuedOnce
      <3>4. i \in Nat /\ j \in Nat
        <4>1. DOMAIN Tail(queue[q]) \subseteq Nat
          BY <1>2
        <4> QED
          BY <4>1, <3>1, <1>14, SMTT(40)
      <3> QED
        BY <3>3, <3>4, SMTT(40)
    <2>2. CASE p # q
      <3>1. queue'[p] = queue[p]
        BY <2>2, <1>4
      <3> QED
        BY <3>1, <1>14, <1>5, SMTT(40) DEF QueuedOnce
    <2> QED
      BY <2>1, <2>2, SMTT(40)
  <1>15. SleepersQueued'
    <2>1. at' = at /\ state' = state
      BY <1>4
    <2>2. \A v \in Tasks : BlockedQueued(v)'
      BY ONLY <2>1, <1>13 DEF BlockedQueued
    <2>3. QueuedOnce'
      BY ONLY <1>14, SMTT(40) DEF QueuedOnce
    <2> QED
      BY ONLY <2>2, <2>3, SMTT(40) DEF SleepersQueued
  <1>16. HandoffInv'
    BY <1>1, <1>4, NoTaskAssumption DEF HandoffInv, GuardInv, is_locked, q
  <1>17. ASSUME NEW n \in Queues, (~is_locked(n) /\ queue[n] # <<>>)'
         PROVE  (\E u \in Tasks : Active(u, n))'
    <2>1. CASE n = q
      BY <2>1, <1>4, SMTT(40) DEF Active, q
    <2>2. CASE n # q
      <3>1. PICK u \in Tasks : Active(u, n)
        BY <1>4, <1>17, <2>2, SMTT(40) DEF NoLostWakeup, is_locked
      <3> QED
        BY <3>1, <1>4, SMTT(40) DEF Active
    <2> QED
      BY <2>1, <2>2, SMTT(40)
  <1>18. NoLostWakeup'
    BY ONLY <1>17 DEF NoLostWakeup
  <1> QED
    BY <1>6, <1>7, <1>8, <1>9, <1>11, <1>12, <1>15, <1>16, <1>18 DEF IInv

(* A stuttering step.                                                      *)
LEMMA StutterIInv == IInv /\ UNCHANGED vars => IInv'
  <1> SUFFICES ASSUME IInv, UNCHANGED vars PROVE IInv'
    OBVIOUS
  <1>1. TypeOK'
    BY DEF vars, IInv, TypeOK, WQTypeOK
  <1>2. MutualExclusion' /\ NoLostWakeup'
    BY SMTT(40) DEF vars, IInv, MutualExclusion, NoLostWakeup, Active, is_locked
  <1>3. SleepersQueued' /\ GuardInv' /\ SleepInv'
    BY DEF vars, IInv, SleepersQueued, BlockedQueued, QueuedOnce, GuardInv, SleepInv
  <1>4. QueueInv' /\ WakingInv' /\ HandoffInv'
    <2>1. QueueInv'
      BY DEF vars, IInv, QueueInv
    <2>2. WakingInv'
      BY DEF vars, IInv, WakingInv
    <2>3. HandoffInv'
      BY DEF vars, IInv, HandoffInv, is_locked
    <2> QED
      BY <2>1, <2>2, <2>3
  <1> QED
    BY ONLY <1>1, <1>2, <1>3, <1>4 DEF IInv

(* Every step of the mutex preserves the inductive invariant.              *)
LEMMA NextIInv == IInv /\ [Next]_vars => IInv'
  <1> SUFFICES ASSUME IInv, [Next]_vars PROVE IInv'
    OBVIOUS
  <1>1. CASE UNCHANGED vars
    BY <1>1, StutterIInv
  <1>2. ASSUME NEW t \in Tasks, NEW m \in Queues, LockCall(t, m) PROVE IInv'
    BY <1>2, LockCallIInv
  <1>3. ASSUME NEW t \in Tasks, NEW m \in Queues, TryLock(t, m) PROVE IInv'
    BY <1>3, TryLockIInv
  <1>4. ASSUME NEW t \in Tasks, CasOk(t) PROVE IInv'
    BY <1>4, CasOkIInv
  <1>5. ASSUME NEW t \in Tasks, Notify(t) PROVE IInv'
    BY <1>5, NotifyNobodyIInv, NotifyPopIInv DEF Notify
  <1>6. ASSUME NEW t \in Tasks, Step(t) PROVE IInv'
    BY <1>5, <1>6, CasFailIInv, WaitUntilIInv, CheckFreeIInv, CheckLockedIInv,
       BlockIInv, CancelIInv, SwapIInv, UnblockIInv, RunIInv DEF Step
  <1> QED
    BY <1>1, <1>2, <1>3, <1>4, <1>6 DEF Next

(* IInv holds in every state the mutex code can reach.                     *)
THEOREM IInvAlways == Spec => []IInv
  BY InitIInv, NextIInv, PTL DEF Spec

(* For any number of tasks, lock() and try_lock() let one task at a time   *)
(* past them and owner_id names it.                                        *)
THEOREM MutualExclusionAlways == Spec => []MutualExclusion
  <1>1. IInv => MutualExclusion
    BY DEF IInv
  <1> QED
    BY <1>1, IInvAlways, PTL

(* For any number of tasks, unlock()'s swap-then-notify loses no wake-up,  *)
(* and a sleeper is in the queue exactly once, or being unblocked.         *)
THEOREM SleepersWokenAlways == Spec => []SleepersWoken
  <1>1. IInv => SleepersWoken
    BY DEF IInv, SleepersWoken
  <1> QED
    BY <1>1, IInvAlways, PTL
=============================================================================
