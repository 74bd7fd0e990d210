------------------------------ MODULE Process ------------------------------
(***************************************************************************)
(* The life of processes and threads: sys_clone, do_exit and sys_waitpid   *)
(* (api/src/imp/task) on the process tree of vendor/axprocess, and         *)
(* run_user_app, the kernel's main task, which starts the programs.        *)
(*                                                                         *)
(* Processes and threads share the ids of tasks.  Id Main is the kernel's  *)
(* main task and the init process, which has no threads and never exits.   *)
(* Each step of a thread is one section under a lock of the process tree;  *)
(* threads of all processes interleave between steps: they run on several  *)
(* CPUs, and on one CPU sys_clone may block on the address space and       *)
(* sys_waitpid yields.                                                     *)
(*                                                                         *)
(* Every process stays in the init process's group, since no system call   *)
(* changes groups: a wait is for any child or for one pid.                 *)
(***************************************************************************)
EXTENDS Naturals

CONSTANTS MaxId,   \* bound on the task ids handed out
          Codes,   \* exit codes
          Kinds    \* the forms of clone used, among the three below

ASSUME MaxIdAssumption == MaxId \in Nat \ {0}
ASSUME CodesAssumption == 0 \in Codes
ASSUME KindsAssumption == Kinds \subseteq {"fork", "CLONE_PARENT", "CLONE_THREAD"}

Ids == 1..MaxId
Main == 1

VARIABLES next_id,       \* the next task id
          app,           \* the task run_user_app joins, Main before the first
          procs,         \* the processes built so far
          parent,        \* parent[p]
          children,      \* children[p]: the pids in its children map
          is_zombie,     \* is_zombie[p]
          threads,       \* threads[p]: the tids in its thread group
          exit_code,     \* exit_code[p]: the exit code of the thread group
          group_exited,  \* group_exited[p]
          process,       \* process[t]: the process of thread t
          pc,            \* pc[t]: where t is in a system call
          new,           \* new[t]: the id of the task t is creating
          owner,         \* owner[t]: the process that gets the new child or thread
          snapshot,      \* snapshot[t]: the children sys_waitpid collected
          rest,          \* rest[t]: those not yet looked at in this turn
          found,         \* found[t]: the zombie sys_waitpid found
          options,       \* options[t]: the options of sys_waitpid
          status         \* status[t]: the exit code and whether it is exit_group

treeVars == <<procs, parent, children, is_zombie>>
groupVars == <<threads, exit_code, group_exited>>
cloneVars == <<new, owner>>
waitVars == <<snapshot, rest, found, options>>
vars == <<next_id, app, treeVars, groupVars, process, pc, cloneVars, waitVars, status>>

PCs == {"none", "out", "build", "thread", "scan", "free", "code",
        "exit", "zombie", "reparent", "group", "gone"}
WaitOptions == {"WNOHANG", "WNOWAIT"}

(* The types of the variables.                                             *)
TypeOK ==
  /\ next_id \in 2..MaxId + 1
  /\ app \in Ids
  /\ procs \subseteq Ids
  /\ parent \in [Ids -> Ids]
  /\ children \in [Ids -> SUBSET Ids]
  /\ is_zombie \in [Ids -> BOOLEAN]
  /\ threads \in [Ids -> SUBSET Ids]
  /\ exit_code \in [Ids -> Codes]
  /\ group_exited \in [Ids -> BOOLEAN]
  /\ process \in [Ids -> Ids]
  /\ pc \in [Ids -> PCs]
  /\ new \in [Ids -> Ids]
  /\ owner \in [Ids -> Ids]
  /\ snapshot \in [Ids -> SUBSET Ids]
  /\ rest \in [Ids -> SUBSET Ids]
  /\ found \in [Ids -> Ids]
  /\ options \in [Ids -> SUBSET WaitOptions]
  /\ status \in [Ids -> [code : Codes, group : BOOLEAN]]

(* main() has built the init process.                                      *)
Init ==
  /\ next_id = 2
  /\ app = Main
  /\ procs = {Main}
  /\ parent = [p \in Ids |-> Main]
  /\ children = [p \in Ids |-> {}]
  /\ is_zombie = [p \in Ids |-> FALSE]
  /\ threads = [p \in Ids |-> {}]
  /\ exit_code = [p \in Ids |-> 0]
  /\ group_exited = [p \in Ids |-> FALSE]
  /\ process = [t \in Ids |-> Main]
  /\ pc = [t \in Ids |-> "none"]
  /\ new = [t \in Ids |-> Main]
  /\ owner = [t \in Ids |-> Main]
  /\ snapshot = [t \in Ids |-> {}]
  /\ rest = [t \in Ids |-> {}]
  /\ found = [t \in Ids |-> Main]
  /\ options = [t \in Ids |-> {}]
  /\ status = [t \in Ids |-> [code |-> 0, group |-> FALSE]]

(* The children map of p is locked by the thread that ends p.              *)
Locked(p) == \E t \in Ids : pc[t] = "reparent" /\ process[t] = p

Goto(t, l) == pc' = [pc EXCEPT ![t] = l]

-----------------------------------------------------------------------------
(* run_user_app: a new process under init with one thread.  It returns,    *)
(* and the next program starts, when the program's main task has exited.   *)
RunUserApp ==
  LET i == next_id
  IN /\ i \in Ids
     /\ app = Main \/ pc[app] = "gone"
     /\ next_id' = i + 1
     /\ app' = i
     /\ procs' = procs \cup {i}
     /\ parent' = [parent EXCEPT ![i] = Main]
     /\ children' = [children EXCEPT ![Main] = @ \cup {i}]
     /\ threads' = [threads EXCEPT ![i] = {i}]
     /\ process' = [process EXCEPT ![i] = i]
     /\ Goto(i, "out")
     /\ UNCHANGED <<is_zombie, exit_code, group_exited, cloneVars, waitVars, status>>

(* sys_clone: the new task takes an id, and the process it will belong to  *)
(* or whose child it will be is looked up.                                 *)
Clone(t, kind) ==
  /\ pc[t] = "out"
  /\ next_id \in Ids
  /\ next_id' = next_id + 1
  /\ new' = [new EXCEPT ![t] = next_id]
  /\ owner' = [owner EXCEPT ![t] =
                 IF kind = "CLONE_PARENT" THEN parent[process[t]] ELSE process[t]]
  /\ Goto(t, IF kind = "CLONE_THREAD" THEN "thread" ELSE "build")
  /\ UNCHANGED <<app, treeVars, groupVars, process, waitVars, status>>

(* sys_clone fails after the id was taken: parent_tid is a bad pointer, or *)
(* with CLONE_PARENT the parent has been dropped.                          *)
CloneError(t) ==
  /\ pc[t] = "out"
  /\ next_id \in Ids
  /\ next_id' = next_id + 1
  /\ UNCHANGED <<app, treeVars, groupVars, process, pc, cloneVars, waitVars, status>>

(* The address space cannot be copied: ENOMEM.                             *)
CloneNoMemory(t) ==
  /\ pc[t] = "build"
  /\ new' = [new EXCEPT ![t] = Main]
  /\ owner' = [owner EXCEPT ![t] = Main]
  /\ Goto(t, "out")
  /\ UNCHANGED <<next_id, app, treeVars, groupVars, process, waitVars, status>>

(* ProcessBuilder::build: the process exists and is in the children map of *)
(* the parent chosen above, whatever became of it since.                   *)
CloneBuild(t) ==
  LET i == new[t]
  IN /\ pc[t] = "build"
     /\ ~Locked(owner[t])
     /\ procs' = procs \cup {i}
     /\ parent' = [parent EXCEPT ![i] = owner[t]]
     /\ children' = [children EXCEPT ![owner[t]] = @ \cup {i}]
     /\ owner' = [owner EXCEPT ![t] = i]
     /\ Goto(t, "thread")
     /\ UNCHANGED <<next_id, app, is_zombie, groupVars, process, new, waitVars, status>>

(* ThreadBuilder::build and spawn_task.                                    *)
CloneThread(t) ==
  LET i == new[t]
  IN /\ pc[t] = "thread"
     /\ threads' = [threads EXCEPT ![owner[t]] = @ \cup {i}]
     /\ process' = [process EXCEPT ![i] = owner[t]]
     /\ pc' = [pc EXCEPT ![t] = "out", ![i] = "out"]
     /\ new' = [new EXCEPT ![t] = Main]
     /\ owner' = [owner EXCEPT ![t] = Main]
     /\ UNCHANGED <<next_id, app, treeVars, exit_code, group_exited, waitVars, status>>

-----------------------------------------------------------------------------
(* sys_waitpid: the children asked for are collected once.  With none the  *)
(* call fails with ECHILD and changes nothing.                             *)
WaitPid(t, which, opts) ==
  LET selected == children[process[t]] \cap which
  IN /\ pc[t] = "out"
     /\ ~Locked(process[t])
     /\ selected # {}
     /\ snapshot' = [snapshot EXCEPT ![t] = selected]
     /\ rest' = [rest EXCEPT ![t] = selected]
     /\ options' = [options EXCEPT ![t] = opts]
     /\ Goto(t, "scan")
     /\ UNCHANGED <<next_id, app, treeVars, groupVars, process, cloneVars, found, status>>

(* One look at the next child, in the order of their pids.                 *)
WaitScan(t) ==
  /\ pc[t] = "scan"
  /\ \E c \in rest[t] :
       /\ \A d \in rest[t] : c <= d
       /\ rest' = [rest EXCEPT ![t] = @ \ {c}]
       /\ IF is_zombie[c]
          THEN /\ found' = [found EXCEPT ![t] = c]
               /\ Goto(t, IF "WNOWAIT" \in options[t] THEN "code" ELSE "free")
          ELSE UNCHANGED <<found, pc>>
  /\ UNCHANGED <<next_id, app, treeVars, groupVars, process, cloneVars, snapshot,
                 options, status>>

(* sys_waitpid returns and its locals are gone.                            *)
Return(t) ==
  /\ snapshot' = [snapshot EXCEPT ![t] = {}]
  /\ rest' = [rest EXCEPT ![t] = {}]
  /\ found' = [found EXCEPT ![t] = Main]
  /\ options' = [options EXCEPT ![t] = {}]
  /\ Goto(t, "out")

(* Faulty variant: the next turn does not start from the first child.      *)
WaitAgainUsedUp(t) ==
  /\ pc[t] = "scan"
  /\ rest[t] = {}
  /\ "WNOHANG" \in options[t] /\ Return(t)
  /\ UNCHANGED <<next_id, app, treeVars, groupVars, process, cloneVars, status>>

(* No zombie in this turn: return 0 with WNOHANG, else yield and repeat.   *)
WaitAgain(t) ==
  /\ pc[t] = "scan"
  /\ rest[t] = {}
  /\ \/ "WNOHANG" \in options[t] /\ Return(t)
     \/ /\ "WNOHANG" \notin options[t]
        /\ rest' = [rest EXCEPT ![t] = snapshot[t]]
        /\ UNCHANGED <<snapshot, found, options, pc>>
  /\ UNCHANGED <<next_id, app, treeVars, groupVars, process, cloneVars, status>>

(* Process::free: the zombie leaves its parent's children map.             *)
WaitFree(t) ==
  LET p == parent[found[t]]
  IN /\ pc[t] = "free"
     /\ ~Locked(p)
     /\ children' = [children EXCEPT ![p] = @ \ {found[t]}]
     /\ Goto(t, "code")
     /\ UNCHANGED <<next_id, app, procs, parent, is_zombie, groupVars, process,
                    cloneVars, waitVars, status>>

(* The exit code is read after that, and the call returns.                 *)
WaitCode(t) ==
  /\ pc[t] = "code"
  /\ Return(t)
  /\ UNCHANGED <<next_id, app, treeVars, groupVars, process, cloneVars, status>>

-----------------------------------------------------------------------------
(* sys_exit and sys_exit_group.                                            *)
Exit(t, code, group) ==
  /\ pc[t] = "out"
  /\ status' = [status EXCEPT ![t] = [code |-> code, group |-> group]]
  /\ Goto(t, "exit")
  /\ UNCHANGED <<next_id, app, treeVars, groupVars, process, cloneVars, waitVars>>

(* Faulty variant: the last but one thread takes itself for the last.      *)
ThreadExitTooEarly(t) ==
  LET p == process[t]
  IN /\ pc[t] = "exit"
     /\ exit_code' = [exit_code EXCEPT ![p] = status[t].code]
     /\ threads' = [threads EXCEPT ![p] = @ \ {t}]
     /\ Goto(t, IF \E u \in Ids : threads[p] \ {t} \subseteq {u} THEN "zombie" ELSE "group")
     /\ UNCHANGED <<next_id, app, treeVars, group_exited, process, cloneVars,
                    waitVars, status>>

(* Thread::exit, under the lock of the thread group.                       *)
ThreadExit(t) ==
  LET p == process[t]
  IN /\ pc[t] = "exit"
     /\ exit_code' = IF group_exited[p] THEN exit_code
                     ELSE [exit_code EXCEPT ![p] = status[t].code]
     /\ threads' = [threads EXCEPT ![p] = @ \ {t}]
     /\ Goto(t, IF threads[p] \ {t} = {} THEN "zombie" ELSE "group")
     /\ UNCHANGED <<next_id, app, treeVars, group_exited, process, cloneVars,
                    waitVars, status>>

(* Process::exit, run by the last thread: lock the children, become a      *)
(* zombie, ...                                                             *)
BecomeZombie(t) ==
  /\ pc[t] = "zombie"
  /\ ~Locked(process[t])
  /\ is_zombie' = [is_zombie EXCEPT ![process[t]] = TRUE]
  /\ Goto(t, "reparent")
  /\ UNCHANGED <<next_id, app, procs, parent, children, groupVars, process,
                 cloneVars, waitVars, status>>

(* Faulty variant: the children keep their parent.                         *)
ReparentMapOnly(t) ==
  LET p == process[t]
  IN /\ pc[t] = "reparent"
     /\ children' = [children EXCEPT ![p] = {}, ![Main] = @ \cup children[p]]
     /\ Goto(t, "group")
     /\ UNCHANGED <<next_id, app, procs, parent, is_zombie, groupVars, process,
                    cloneVars, waitVars, status>>

(* Faulty variant: init's map is not extended.                             *)
ReparentNoInsert(t) ==
  LET p == process[t]
  IN /\ pc[t] = "reparent"
     /\ parent' = [q \in Ids |-> IF q \in children[p] THEN Main ELSE parent[q]]
     /\ children' = [children EXCEPT ![p] = {}]
     /\ Goto(t, "group")
     /\ UNCHANGED <<next_id, app, procs, is_zombie, groupVars, process, cloneVars,
                    waitVars, status>>

(* ... and give the children to init, under the lock of init's children.   *)
Reparent(t) ==
  LET p == process[t]
      orphans == children[p]
  IN /\ pc[t] = "reparent"
     /\ parent' = [q \in Ids |-> IF q \in orphans THEN Main ELSE parent[q]]
     /\ children' = [children EXCEPT ![p] = {}, ![Main] = @ \cup orphans]
     /\ Goto(t, "group")
     /\ UNCHANGED <<next_id, app, procs, is_zombie, groupVars, process, cloneVars,
                    waitVars, status>>

(* Faulty variant: exit_group stores its code with the mark.               *)
GroupExitStoresCode(t) ==
  /\ pc[t] = "group"
  /\ group_exited' = [group_exited EXCEPT ![process[t]] = @ \/ status[t].group]
  /\ exit_code' = IF status[t].group
                  THEN [exit_code EXCEPT ![process[t]] = status[t].code] ELSE exit_code
  /\ Goto(t, "gone")
  /\ UNCHANGED <<next_id, app, treeVars, threads, process, cloneVars, waitVars, status>>

(* exit_group marks the group only now; then the task exits.  Other        *)
(* threads of the group go on.                                             *)
GroupExit(t) ==
  /\ pc[t] = "group"
  /\ group_exited' = [group_exited EXCEPT ![process[t]] = @ \/ status[t].group]
  /\ status' = [status EXCEPT ![t] = [code |-> 0, group |-> FALSE]]
  /\ Goto(t, "gone")
  /\ UNCHANGED <<next_id, app, treeVars, threads, exit_code, process, cloneVars, waitVars>>

Step(t) ==
  \/ CloneBuild(t) \/ CloneThread(t)
  \/ WaitScan(t) \/ WaitAgain(t) \/ WaitFree(t) \/ WaitCode(t)
  \/ ThreadExit(t) \/ BecomeZombie(t) \/ Reparent(t) \/ GroupExit(t)

Call(t) ==
  \/ \E kind \in Kinds : Clone(t, kind)
  \/ CloneError(t) \/ CloneNoMemory(t)
  \/ \E which \in {Ids} \cup {{p} : p \in Ids}, opts \in SUBSET WaitOptions :
       WaitPid(t, which, opts)
  \/ \E code \in Codes, group \in BOOLEAN : Exit(t, code, group)

Next == RunUserApp \/ \E t \in Ids : Call(t) \/ Step(t)

Spec == Init /\ [][Next]_vars

(* Threads inside a system call keep running: every run queue is FIFO and  *)
(* the kernel's loops yield.  The locks here are held for one step.        *)
Fairness == \A t \in Ids : WF_vars(Step(t))

FairSpec == Spec /\ Fairness

-----------------------------------------------------------------------------
(* The two directions of the tree agree, in every interleaving of builds,  *)
(* exits and waits: a process in a children map has that parent, so it is  *)
(* in one map only.                                                        *)
FamilyTree ==
  \A p, q \in Ids : q \in children[p] => p \in procs /\ q \in procs /\ parent[q] = p

(* No process is lost before it ends: it is in its parent's children map,  *)
(* where a waitpid of the parent finds it.                                 *)
NotLost ==
  \A p \in procs \ {Main} : ~is_zombie[p] => p \in children[parent[p]]

(* Of the threads that leave a process at the same time exactly one ends   *)
(* it, and a zombie has no threads: none is added by a concurrent clone.   *)
EndsOnce ==
  /\ \A p \in Ids : is_zombie[p] => threads[p] = {}
  /\ \A t, u \in Ids :
       (t # u /\ pc[t] \in {"zombie", "reparent"} /\ process[u] = process[t])
         => pc[u] \in {"none", "group", "gone"}

(* The exit code of a zombie is final: sys_waitpid reads it after free(),  *)
(* in a step of its own.                                                   *)
FinalCode ==
  [][\A p \in Ids : is_zombie[p] => exit_code'[p] = exit_code[p] /\ is_zombie'[p]]_vars

(* sys_waitpid returns once one of the children it collected is a zombie.  *)
WaitReturns ==
  \A t \in Ids :
    (pc[t] = "scan" /\ \E c \in snapshot[t] : is_zombie[c]) ~> (pc[t] = "out")

(* "Child processes are inherited by the init process or by the nearest    *)
(* subreaper process" (vendor/axprocess/src/process.rs:203-204): no        *)
(* process has a parent that has finished exiting.                         *)
Inherited ==
  \A p \in procs : is_zombie[parent[p]] => Locked(parent[p])

-----------------------------------------------------------------------------
(* The inductive invariant, by parts.  A thread is in its thread group     *)
(* until Thread::exit.                                                     *)
Active(t) == pc[t] \in {"out", "build", "thread", "scan", "free", "code", "exit"}

(* What exists has an id that was handed out, and the init process, which  *)
(* has no threads, is no zombie.                                           *)
IdInv ==
  /\ Main \in procs /\ ~is_zombie[Main]
  /\ \A p \in Ids : (p \in procs => p < next_id) /\ (is_zombie[p] => p \in procs)
  /\ \A p \in Ids : parent[p] \in procs
  /\ \A t \in Ids : pc[t] # "none" => t < next_id /\ process[t] \in procs \ {Main}

(* The id of a task being created is used by nobody else: it is no thread, *)
(* and no thread's process.                                                *)
NewInv ==
  \A t \in Ids : pc[t] \in {"build", "thread"} =>
    /\ new[t] < next_id /\ new[t] # Main /\ pc[new[t]] = "none" /\ ~is_zombie[new[t]]
    /\ \A u \in Ids : pc[u] # "none" => process[u] # new[t]
    /\ \A u \in Ids : u # t /\ pc[u] \in {"build", "thread"} => new[u] # new[t]

(* The process a task is created for exists, and a thread is added either  *)
(* to the caller's process or to the one just built.                       *)
OwnerInv ==
  \A t \in Ids :
    /\ pc[t] = "build" => new[t] \notin procs /\ owner[t] \in procs
    /\ pc[t] = "thread" => /\ owner[t] \in procs \ {Main}
                           /\ owner[t] \in {process[t], new[t]}

ThreadInv ==
  \A p, t \in Ids : t \in threads[p] <=> (Active(t) /\ process[t] = p)

(* sys_waitpid frees only zombies.                                         *)
FoundInv ==
  \A t \in Ids : pc[t] \in {"free", "code"} => is_zombie[found[t]]

IInv ==
  /\ TypeOK /\ FamilyTree /\ NotLost /\ EndsOnce
  /\ IdInv /\ NewInv /\ OwnerInv /\ ThreadInv /\ FoundInv
=============================================================================
