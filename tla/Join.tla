-------------------------------- MODULE Join --------------------------------
(***************************************************************************)
(* How a task ends (exit_current in axtask/src/run_queue.rs, notify_exit   *)
(* in task.rs), how another waits for it (TaskInner::join) and how the gc  *)
(* task frees it (gc_entry).  run_user_app joins the main task of every    *)
(* user program this way.                                                  *)
(*                                                                         *)
(* The wait queue wait_for_exit of task t is the queue named t.            *)
(* EXITED_TASKS and the gc task are per CPU: neither exit_current nor a    *)
(* round of gc_entry gives up its CPU, so on one CPU they do not overlap,  *)
(* while joiners drop their references on the other CPUs at any time.      *)
(***************************************************************************)
EXTENDS WaitQueue

CONSTANTS Cpus,
          Codes   \* the exit codes other than 0, the initial exit_code

ASSUME JoinAssumption == Tasks \subseteq Queues

VARIABLES pc,            \* pc[t]: where t is in join() or exit_current()
          at,            \* at[t]: the task t joins, or t itself when it exits
          waking,        \* waking[t]: the task t popped in notify_all
          exit_code,     \* exit_code[t]: the word in TaskInner
          code,          \* code[t]: the argument of exit(), 0 before it
          result,        \* result[t]: what join() of at[t] returned
          held,          \* held[t]: the tasks t holds an AxTaskRef of
          cpu,           \* cpu[t]: the CPU on which t calls exit()
          exited_tasks,  \* exited_tasks[c]: EXITED_TASKS of c
          gc,            \* gc[c]: whether the gc task of c waits, is Ready or loops
          n,             \* n[c]: the turns left of gc_entry's for loop
          dropped        \* the tasks whose memory has been freed

taskVars == <<pc, at, waking, exit_code, code, result, held, cpu>>
gcVars == <<exited_tasks, gc, n, dropped>>
vars == <<wqVars, taskVars, gcVars>>

PCs == {"out", "lock", "check", "push", "cancel", "read", "returned",
        "store", "pop", "unblock", "bury", "gone"}

(* The types of the variables.                                             *)
TypeOK ==
  /\ WQTypeOK
  /\ pc \in [Tasks -> PCs]
  /\ at \in [Tasks -> Tasks]
  /\ waking \in [Tasks -> Tasks \cup {NoTask}]
  /\ exit_code \in [Tasks -> Codes \cup {0}]
  /\ code \in [Tasks -> Codes \cup {0}]
  /\ result \in [Tasks -> Codes \cup {0}]
  /\ held \in [Tasks -> SUBSET Tasks]
  /\ cpu \in [Tasks -> Cpus]
  /\ exited_tasks \in [Cpus -> Seq(Tasks)]
  /\ gc \in [Cpus -> {"wait", "ready", "loop"}]
  /\ n \in [Cpus -> Nat]
  /\ dropped \subseteq Tasks

Init ==
  /\ WQInit
  /\ pc = [t \in Tasks |-> "out"]
  /\ at = [t \in Tasks |-> t]
  /\ waking = [t \in Tasks |-> NoTask]
  /\ exit_code = [t \in Tasks |-> 0]
  /\ code = [t \in Tasks |-> 0]
  /\ result = [t \in Tasks |-> 0]
  /\ held \in {h \in [Tasks -> SUBSET Tasks] : \A t \in Tasks : t \notin h[t]}
  /\ cpu \in [Tasks -> Cpus]
  /\ exited_tasks = [c \in Cpus |-> <<>>]
  /\ gc = [c \in Cpus |-> "ready"]
  /\ n = [c \in Cpus |-> 0]
  /\ dropped = {}

(* An exiting task is in state Exited and still executes.                  *)
At(t, l) == state[t] \in {"Running", "Exited"} /\ pc[t] = l

Goto(t, l) == pc' = [pc EXCEPT ![t] = l]

-----------------------------------------------------------------------------
(* join(): wait_until(|| self.state() == Exited) on the joined task.       *)
JoinCall(t, u) ==
  /\ At(t, "out")
  /\ u \in held[t]
  /\ at' = [at EXCEPT ![t] = u]
  /\ Goto(t, "lock")
  /\ UNCHANGED <<wqVars, waking, exit_code, code, result, held, cpu, gcVars>>

Lock(t) ==
  /\ At(t, "lock")
  /\ LockQueue(at[t], t)
  /\ Goto(t, "check")
  /\ UNCHANGED <<at, waking, exit_code, code, result, held, cpu, gcVars>>

CheckExited(t) ==
  /\ At(t, "check")
  /\ state[at[t]] = "Exited"
  /\ UnlockQueue(at[t], t)
  /\ Goto(t, "cancel")
  /\ UNCHANGED <<at, waking, exit_code, code, result, held, cpu, gcVars>>

CheckAlive(t) ==
  /\ At(t, "check")
  /\ state[at[t]] # "Exited"
  /\ Goto(t, "push")
  /\ UNCHANGED <<wqVars, at, waking, exit_code, code, result, held, cpu, gcVars>>

Push(t) ==
  /\ At(t, "push")
  /\ BlockedResched(at[t], t)
  /\ Goto(t, "lock")
  /\ UNCHANGED <<at, waking, exit_code, code, result, held, cpu, gcVars>>

Cancel(t) ==
  /\ At(t, "cancel")
  /\ CancelEvents(at[t], t)
  /\ Goto(t, "read")
  /\ UNCHANGED <<at, waking, exit_code, code, result, held, cpu, gcVars>>

(* join() then loads exit_code and returns it.                             *)
ReadCode(t) ==
  /\ At(t, "read")
  /\ result' = [result EXCEPT ![t] = exit_code[at[t]]]
  /\ Goto(t, "returned")
  /\ UNCHANGED <<wqVars, at, waking, exit_code, code, held, cpu, gcVars>>

(* The caller drops the reference it joined through and goes on.           *)
DropRef(t) ==
  /\ At(t, "returned")
  /\ held' = [held EXCEPT ![t] = @ \ {at[t]}]
  /\ at' = [at EXCEPT ![t] = t]
  /\ result' = [result EXCEPT ![t] = 0]
  /\ Goto(t, "out")
  /\ UNCHANGED <<wqVars, waking, exit_code, code, cpu, gcVars>>

(* A reference goes out of scope without a join.                           *)
Forget(t, u) ==
  /\ At(t, "out")
  /\ u \in held[t]
  /\ held' = [held EXCEPT ![t] = @ \ {u}]
  /\ UNCHANGED <<wqVars, pc, at, waking, exit_code, code, result, cpu, gcVars>>

-----------------------------------------------------------------------------
Exiting(c) == {t \in Tasks : cpu[t] = c /\ pc[t] \in {"store", "pop", "unblock", "bury"}}

(* exit_current(k): the state becomes Exited first.                        *)
Exit(t, k) ==
  /\ At(t, "out")
  /\ Exiting(cpu[t]) = {} /\ gc[cpu[t]] # "loop"
  /\ state' = [state EXCEPT ![t] = "Exited"]
  /\ code' = [code EXCEPT ![t] = k]
  /\ Goto(t, "store")
  /\ UNCHANGED <<queue, guard, in_wait_queue, at, waking, exit_code, result, held,
                 cpu, gcVars>>

(* Faulty variant of notify_exit: nobody is notified.                      *)
StoreOnly(t) ==
  /\ At(t, "store")
  /\ exit_code' = [exit_code EXCEPT ![t] = code[t]]
  /\ Goto(t, "bury")
  /\ UNCHANGED <<wqVars, at, waking, code, result, held, cpu, gcVars>>

(* notify_exit: store the exit code.                                       *)
StoreCode(t) ==
  /\ At(t, "store")
  /\ exit_code' = [exit_code EXCEPT ![t] = code[t]]
  /\ Goto(t, "pop")
  /\ UNCHANGED <<wqVars, at, waking, code, result, held, cpu, gcVars>>

(* notify_exit: notify_all on wait_for_exit, one notify_one per turn.      *)
Pop(t) ==
  /\ At(t, "pop")
  /\ \/ PopNothing(t) /\ Goto(t, "bury") /\ UNCHANGED waking
     \/ /\ PopFront(t, t)
        /\ waking' = [waking EXCEPT ![t] = Head(queue[t])]
        /\ Goto(t, "unblock")
  /\ UNCHANGED <<at, exit_code, code, result, held, cpu, gcVars>>

Unblock(t) ==
  /\ At(t, "unblock")
  /\ UnblockOneTask(t, t, waking[t])
  /\ waking' = [waking EXCEPT ![t] = NoTask]
  /\ Goto(t, "pop")
  /\ UNCHANGED <<at, exit_code, code, result, held, cpu, gcVars>>

(* The task is pushed on EXITED_TASKS, gc notified, and resched called.    *)
(* The stack is not unwound: references that are still on it stay counted. *)
Bury(t) ==
  LET c == cpu[t]
  IN /\ At(t, "bury")
     /\ exited_tasks' = [exited_tasks EXCEPT ![c] = Append(@, t)]
     /\ gc' = [gc EXCEPT ![c] = "ready"]
     /\ Goto(t, "gone")
     /\ UNCHANGED <<wqVars, at, waking, exit_code, code, result, held, cpu, n, dropped>>

-----------------------------------------------------------------------------
(* gc_entry: a round looks once at each of the n tasks exited so far.      *)
GcStart(c) ==
  /\ gc[c] = "ready"
  /\ Exiting(c) = {}
  /\ gc' = [gc EXCEPT ![c] = "loop"]
  /\ n' = [n EXCEPT ![c] = Len(exited_tasks[c])]
  /\ UNCHANGED <<wqVars, taskVars, exited_tasks, dropped>>

(* One turn: the front task is dropped if the list had the last reference  *)
(* (strong_count is 1) and pushed back otherwise.                          *)
GcTurn(c) ==
  LET u == Head(exited_tasks[c])
      last == \A t \in Tasks : u \notin held[t]
  IN /\ gc[c] = "loop" /\ n[c] > 0
     /\ n' = [n EXCEPT ![c] = @ - 1]
     /\ exited_tasks' = [exited_tasks EXCEPT ![c] =
                           IF last THEN Tail(@) ELSE Append(Tail(@), u)]
     /\ dropped' = IF last THEN dropped \cup {u} ELSE dropped
     /\ UNCHANGED <<wqVars, taskVars, gc>>

(* After the loop: WAIT_FOR_EXIT.wait().                                   *)
GcWait(c) ==
  /\ gc[c] = "loop" /\ n[c] = 0
  /\ gc' = [gc EXCEPT ![c] = "wait"]
  /\ UNCHANGED <<wqVars, taskVars, exited_tasks, n, dropped>>

Run(t) ==
  /\ Dispatch(t)
  /\ UNCHANGED <<taskVars, gcVars>>

Step(t) ==
  \/ Lock(t) \/ CheckExited(t) \/ CheckAlive(t) \/ Push(t) \/ Cancel(t)
  \/ ReadCode(t) \/ DropRef(t) \/ StoreCode(t) \/ Pop(t) \/ Unblock(t)
  \/ Bury(t) \/ Run(t)

Gc(c) == GcStart(c) \/ GcTurn(c) \/ GcWait(c)

Next ==
  \/ \E t \in Tasks :
       \/ \E u \in Tasks : JoinCall(t, u) \/ Forget(t, u)
       \/ \E k \in Codes : Exit(t, k)
       \/ Step(t)
  \/ \E c \in Cpus : Gc(c)

Spec == Init /\ [][Next]_vars

-----------------------------------------------------------------------------
(* Nobody is left sleeping on a task that has ended, although exit_current *)
(* changes the state without the queue's lock, between a joiner's test of  *)
(* the state and its push.                                                 *)
JoinersWoken ==
  \A u \in Tasks : pc[u] \in {"bury", "gone"} =>
    /\ queue[u] = <<>>
    /\ \A t \in Tasks : ~(pc[t] = "push" /\ at[t] = u)

(* The gc task frees only tasks that have ended and that nobody can reach, *)
(* so join() never reads a freed task.                                     *)
DroppedUnreachable ==
  \A u \in dropped :
    /\ pc[u] = "gone" /\ queue[u] = <<>>
    /\ \A t \in Tasks : t # u => u \notin held[t] /\ at[t] # u

(* join() on a task that ends returns.                                     *)
JoinReturns ==
  \A t \in Tasks :
    (pc[t] = "lock" /\ state[at[t]] = "Exited") ~> (pc[t] = "returned")

(* "Wait for the task to exit, and return the exit code" (task.rs:154).    *)
JoinReturnsCode ==
  \A t \in Tasks : pc[t] = "returned" => result[t] = code[at[t]]
=============================================================================
