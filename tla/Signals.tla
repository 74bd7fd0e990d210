------------------------------ MODULE Signals ------------------------------
(***************************************************************************)
(* Threads, the tables they are found in, and signals: core/src/task.rs,   *)
(* core/src/signal.rs and the callers in api/src/imp.  A thread is in user *)
(* mode, in a system call, or on its way back, where post_trap_callback    *)
(* calls check_signals.                                                    *)
(*                                                                         *)
(* No system call changes ThreadData::blocked, so it is empty for every    *)
(* thread, and its complement, the mask of check_signals, has every        *)
(* signal.  What check_signals does with a signal that is not in the mask  *)
(* is never reached.  The sleeping mutex of the actions is taken in one    *)
(* step when it is free.                                                   *)
(***************************************************************************)
EXTENDS Naturals, Sequences, FiniteSets, FiniteSetsExt

CONSTANTS MaxTid,      \* ids 1..MaxTid; 1 is the first thread
          Sigs,        \* numbers that are signals
          MaxSent      \* bound on the signals sent

Tids == 1..MaxTid
None == 0

VARIABLES st,        \* st[t]: where thread t is
          proc,      \* proc[t]: the process of t
          group,     \* group[p]: the threads in the thread group of p
          listed,    \* THREAD_TABLE, PROCESS_TABLE
          reaped,    \* processes whose last reference is gone
          pending,   \* pending[t]: the queue of ThreadData
          plock,     \* plock[t]: the thread that holds the lock of that queue
          shared,    \* shared[p]: the queue of ProcessData
          actions,   \* actions[p]: the thread that holds the mutex
          arg        \* arg[t]: the thread being cloned, or what is being sent

sigVars == <<st, proc, group, listed, reaped, pending, plock, shared, actions, arg>>

NoArg == [to |-> None, sig |-> None]
Alive == {"user", "sys", "built", "added", "send", "post", "lock", "look"}

SigInit ==
  /\ st = [t \in Tids |-> IF t = 1 THEN "user" ELSE "none"]
  /\ proc = [t \in Tids |-> IF t = 1 THEN 1 ELSE None]
  /\ group = [p \in Tids |-> IF p = 1 THEN {1} ELSE {}]
  /\ listed = [threads |-> {1}, procs |-> {1}]
  /\ reaped = {}
  /\ pending = [t \in Tids |-> <<>>]
  /\ plock = [t \in Tids |-> None]
  /\ shared = [p \in Tids |-> <<>>]
  /\ actions = [p \in Tids |-> None]
  /\ arg = [t \in Tids |-> NoArg]

Go(t, s) == st' = [st EXCEPT ![t] = s]

(* A weak reference in a table can be upgraded while the task is there.    *)
ThreadFound(t) == t \in listed.threads /\ st[t] # "gone"
ProcessFound(p) == p \in listed.procs /\ p \notin reaped

-----------------------------------------------------------------------------
(* A system call, or a fault or an interrupt, which goes straight on to    *)
(* post_trap_callback.                                                     *)
Enter(t) ==
  /\ st[t] = "user"
  /\ Go(t, "sys") \/ Go(t, "post")
  /\ UNCHANGED <<proc, group, listed, reaped, pending, plock, shared, actions, arg>>

Leave(t) ==
  /\ st[t] = "sys"
  /\ Go(t, "post")
  /\ UNCHANGED <<proc, group, listed, reaped, pending, plock, shared, actions, arg>>

(* sys_clone: ThreadBuilder::build puts the thread into the group of the   *)
(* caller's process or of a new one.                                       *)
NewThread(t) ==
  /\ st[t] = "sys"
  /\ \E n \in Tids : \E p \in {proc[t], n} :
       /\ st[n] = "none" /\ \A m \in 1..(n - 1) : st[m] # "none"
       /\ st' = [st EXCEPT ![t] = "built", ![n] = "new"]
       /\ proc' = [proc EXCEPT ![n] = p]
       /\ group' = [group EXCEPT ![p] = @ \cup {n}]
       /\ arg' = [arg EXCEPT ![t].to = n]
  /\ UNCHANGED <<listed, reaped, pending, plock, shared, actions>>

(* Faulty variant: a thread of a process that is listed is not added.      *)
add_thread_to_tableOnce(t) ==
  /\ st[t] = "built"
  /\ LET n == arg[t].to
     IN  listed' = [threads |-> IF proc[n] \in listed.procs THEN listed.threads
                                ELSE listed.threads \cup {n},
                    procs |-> listed.procs \cup {proc[n]}]
  /\ Go(t, "added")
  /\ UNCHANGED <<proc, group, reaped, pending, plock, shared, actions, arg>>

(* add_thread_to_table.  The lock of the first table is kept to the end.   *)
add_thread_to_table(t) ==
  /\ st[t] = "built"
  /\ LET n == arg[t].to
     IN  listed' = [threads |-> listed.threads \cup {n},
                    procs |-> listed.procs \cup {proc[n]}]
  /\ Go(t, "added")
  /\ UNCHANGED <<proc, group, reaped, pending, plock, shared, actions, arg>>

(* spawn_task; the new thread enters user space without a check.           *)
Spawn(t) ==
  /\ st[t] = "added"
  /\ st' = [st EXCEPT ![t] = "sys", ![arg[t].to] = "user"]
  /\ arg' = [arg EXCEPT ![t] = NoArg]
  /\ UNCHANGED <<proc, group, listed, reaped, pending, plock, shared, actions>>

-----------------------------------------------------------------------------
Sent == MapThenSumSet(LAMBDA t : Len(pending[t]) + Len(shared[t])
                                 + (IF st[t] = "send" THEN 1 ELSE 0), Tids)

(* send_signal_proc up to the push: the first thread in the order of the   *)
(* ids, or the process itself if its threads have all exited.              *)
send_signal_proc(t, p, sig) ==
  /\ st[t] = "sys" /\ Sent < MaxSent
  /\ ProcessFound(p)
  /\ IF group[p] # {}
     THEN /\ arg' = [arg EXCEPT ![t] = [to |-> Min(group[p]), sig |-> sig]]
          /\ Go(t, "send")
          /\ UNCHANGED shared
     ELSE /\ shared' = [shared EXCEPT ![p] = Append(@, sig)]
          /\ UNCHANGED <<arg, st>>
  /\ UNCHANGED <<proc, group, listed, reaped, pending, plock, actions>>

(* send_signal_thread up to the push.                                      *)
send_signal_thread(t, n, sig) ==
  /\ st[t] = "sys" /\ Sent < MaxSent
  /\ ThreadFound(n)
  /\ sig \in Sigs
  /\ arg' = [arg EXCEPT ![t] = [to |-> n, sig |-> sig]]
  /\ Go(t, "send")
  /\ UNCHANGED <<proc, group, listed, reaped, pending, plock, shared, actions>>

sys_rt_kill(t) == \E p \in Tids, sig \in Sigs : send_signal_proc(t, p, sig)

(* handle_syscall passes the first argument twice.                         *)
sys_tkill(t) == \E n \in Tids : send_signal_thread(t, n, n)
sys_tgkill(t) == \E n \in Tids, sig \in Sigs : send_signal_thread(t, n, sig)

(* pending.lock().push_back: the thread may have exited meanwhile.         *)
Push(t) ==
  /\ st[t] = "send"
  /\ plock[arg[t].to] = None
  /\ pending' = [pending EXCEPT ![arg[t].to] = Append(@, arg[t].sig)]
  /\ arg' = [arg EXCEPT ![t] = NoArg]
  /\ Go(t, "sys")
  /\ UNCHANGED <<proc, group, listed, reaped, plock, shared, actions>>

-----------------------------------------------------------------------------
(* check_signals: the mutex of the actions, then in a loop the lock of the *)
(* queue and its front.                                                    *)
LockActions(t) ==
  /\ st[t] = "post"
  /\ actions[proc[t]] = None
  /\ actions' = [actions EXCEPT ![proc[t]] = t]
  /\ Go(t, "lock")
  /\ UNCHANGED <<proc, group, listed, reaped, pending, plock, shared, arg>>

LockPending(t) ==
  /\ st[t] = "lock"
  /\ plock[t] = None
  /\ plock' = [plock EXCEPT ![t] = t]
  /\ Go(t, "look")
  /\ UNCHANGED <<proc, group, listed, reaped, pending, shared, actions, arg>>

(* Faulty variant: the mutex is not released when there is no signal.      *)
NoneLeftKeeps(t) ==
  /\ st[t] = "look" /\ pending[t] = <<>>
  /\ plock' = [plock EXCEPT ![t] = None]
  /\ Go(t, "user")
  /\ UNCHANGED <<proc, group, listed, reaped, pending, shared, actions, arg>>

(* The queue is empty: return false, and on to user mode.                  *)
NoneLeft(t) ==
  /\ st[t] = "look" /\ pending[t] = <<>>
  /\ plock' = [plock EXCEPT ![t] = None]
  /\ actions' = [actions EXCEPT ![proc[t]] = None]
  /\ Go(t, "user")
  /\ UNCHANGED <<proc, group, listed, reaped, pending, shared, arg>>

(* The mask contains the signal at the front: continue.                    *)
InMask(t) ==
  /\ st[t] = "look" /\ pending[t] # <<>>
  /\ plock' = [plock EXCEPT ![t] = None]
  /\ Go(t, "lock")
  /\ UNCHANGED <<proc, group, listed, reaped, pending, shared, actions, arg>>

-----------------------------------------------------------------------------
(* do_exit of api: the thread leaves its group.  No signal is sent to the  *)
(* others by exit_group.                                                   *)
do_exit(t) ==
  /\ st[t] = "sys"
  /\ group' = [group EXCEPT ![proc[t]] = @ \ {t}]
  /\ Go(t, "exited")
  /\ UNCHANGED <<proc, listed, reaped, pending, plock, shared, actions, arg>>

(* The gc task drops the task and with it the thread.                      *)
DropTask(t) ==
  /\ st[t] = "exited"
  /\ Go(t, "gone")
  /\ UNCHANGED <<proc, group, listed, reaped, pending, plock, shared, actions, arg>>

(* The parent has waited for the process, and no thread is left.           *)
Reap(p) ==
  /\ p \in listed.procs \ (reaped \cup {1})
  /\ \A t \in Tids : proc[t] = p => st[t] = "gone"
  /\ reaped' = reaped \cup {p}
  /\ UNCHANGED <<st, proc, group, listed, pending, plock, shared, actions, arg>>

Run(t) == Leave(t) \/ add_thread_to_table(t) \/ Spawn(t) \/ NoneLeft(t) \/ InMask(t)

SigNext ==
  \/ \E t \in Tids :
       \/ Enter(t) \/ Run(t) \/ NewThread(t) \/ sys_rt_kill(t) \/ sys_tkill(t) \/ sys_tgkill(t)
       \/ Push(t) \/ LockActions(t) \/ LockPending(t) \/ do_exit(t) \/ DropTask(t)
  \/ \E p \in Tids : Reap(p)

-----------------------------------------------------------------------------
(* A thread that runs can be found: it is in THREAD_TABLE, its process is  *)
(* in PROCESS_TABLE and not gone, and it is in the thread group, so kill,  *)
(* tkill and tgkill reach it.  A thread that waits for the mutex of the    *)
(* actions never waits for one that has ended.                             *)
Reachable ==
  /\ \A t \in Tids : st[t] \in Alive =>
       ThreadFound(t) /\ ProcessFound(proc[t]) /\ t \in group[proc[t]]
  /\ \A p \in Tids : actions[p] # None => st[actions[p]] \in {"lock", "look"}

(* A thread on its way back to user mode gets there, however the threads   *)
(* of its process compete for the mutex of check_signals, unless one of    *)
(* them has a signal.                                                      *)
Returns == \A t \in Tids :
  st[t] \in {"post", "lock", "look"} ~>
    (st[t] = "user" \/ \E o \in Tids : proc[o] = proc[t] /\ pending[o] # <<>>)

(* What the comment before check_signals says: a pending signal that is    *)
(* not blocked is taken from the queue and acted on before the thread goes *)
(* back to user mode.                                                      *)
Taken == \A t \in Tids :
  (st[t] \in {"post", "lock", "look"} /\ pending[t] # <<>>) ~>
    (pending[t] = <<>> \/ st[t] \in {"exited", "gone"})
=============================================================================
