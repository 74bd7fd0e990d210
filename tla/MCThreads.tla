----------------------------- MODULE MCThreads -----------------------------
(***************************************************************************)
(* Threads, for TLC: those of the Rust library and the tasks below them    *)
(* (Threads), the POSIX threads of the C library (Pthread), and what the   *)
(* kernel keeps for each thread of a user program, its signals (Signals)   *)
(* and its time statistics (TimeStat).  `part` says which of them a        *)
(* behaviour is about; the variables of the others do not change.          *)
(***************************************************************************)
EXTENDS Threads

CONSTANTS MaxTid, Sigs, MaxSent, TimedThreads, MaxTime,
          PThreads, FirstThread, NoThread, Results

VARIABLES part,
          st, proc, group, listed, reaped, pending, plock, shared, actions, arg,
          now, mode, stat, since, real,
          place, map, boxed, slot, joining, got, value, failed

S == INSTANCE Signals
T == INSTANCE TimeStat WITH Threads <- TimedThreads
P == INSTANCE Pthread WITH Threads <- PThreads, Main <- FirstThread, at <- place,
       packet <- slot, arg <- joining, result <- value, panicked <- failed

sVars == <<st, proc, group, listed, reaped, pending, plock, shared, actions, arg>>
tVars == <<now, mode, stat, since, real>>
pVars == <<place, map, boxed, slot, joining, got, value, failed>>
allVars == <<part, threadsVars, sVars, tVars, pVars>>

MCInit ==
  /\ part \in {"threads", "signals", "time", "pthread"}
  /\ ThreadsInit /\ S!SigInit /\ T!TimeInit /\ P!PtInit
  /\ part # "threads" => body[Main] = "f"

MCNext ==
  /\ UNCHANGED part
  /\ \/ part = "threads" /\ ThreadsNext /\ UNCHANGED <<sVars, tVars, pVars>>
     \/ part = "signals" /\ S!SigNext /\ UNCHANGED <<threadsVars, tVars, pVars>>
     \/ part = "time" /\ T!TimeNext /\ UNCHANGED <<threadsVars, sVars, pVars>>
     \/ part = "pthread" /\ P!PtNext /\ UNCHANGED <<threadsVars, sVars, tVars>>

(* The steps of thread t that wait for a spin lock.                        *)
Locking(t) ==
  \/ part = "threads" /\ ThreadStep(t) /\ UNCHANGED sVars
  \/ /\ part = "signals" /\ UNCHANGED threadsVars
     /\ S!LockActions(t) \/ S!LockPending(t) \/ S!Push(t)

(* A thread's next step is taken; a lock that is free again and again is   *)
(* taken in the end.  Tasks and S!Tids are the same set here.              *)
MCFairness == \A t \in Tasks :
  /\ WF_sVars(part = "signals" /\ S!Run(t))
  /\ SF_<<threadsVars, sVars>>(Locking(t))

MCSpec == MCInit /\ [][MCNext]_allVars /\ MCFairness

(* A thread that runs can be found through the tables, by kill, tkill and  *)
(* tgkill, and the mutex of check_signals is never left taken.             *)
Reachable == S!Reachable

(* A thread on its way back to user mode gets there, however the threads   *)
(* of its process compete in check_signals, unless one has a signal.       *)
Returns == S!Returns

(* The time sys_times reports for kernel mode is that of the thread's      *)
(* system calls that have returned, each from its entry to its end.        *)
KernelTime == T!KernelTime

(* pthread_join returns what the thread it waited for returned or gave to  *)
(* pthread_exit, and nobody finds a Pthread that a joiner has freed.       *)
JoinValue == P!JoinValue
=============================================================================
