------------------------------ MODULE UserMem ------------------------------
(***************************************************************************)
(* How the kernel reads memory of a program: check_region and              *)
(* check_null_terminated (api/src/ptr.rs), access_user_memory (core/src/   *)
(* mm.rs) and the page-fault handler (src/mm.rs) when the fault comes from *)
(* the kernel.                                                             *)
(*                                                                         *)
(* The flag ACCESSING_USER_MEM belongs to a CPU, while the closure that    *)
(* runs under it locks the address space, and the lock may put the task to *)
(* sleep.  A task that wakes up may run on any CPU.                        *)
(***************************************************************************)
EXTENDS Naturals, FiniteSets

CONSTANTS Threads, Cpus, Spaces,
          NPages,           \* the pages of an address space
          Nobody, NoCpu

Pages == 1..NPages

VARIABLES space,    \* space[t]: the address space of t; it never changes
          um,       \* um[t]: where t is
          sched,    \* sched[t]: the CPU t runs on, "ready" or "blocked"
          pg,       \* pg[t]: the page t looks at
          v,        \* v[t]: the CPU whose flag access_user_memory has borrowed
          ACCESSING_USER_MEM,
          owner,    \* owner[s]: who holds the mutex of address space s
          allowed,  \* allowed[s]: the pages in an area with the access flags
          present,  \* present[s]: the pages the page table maps
          crashed   \* a fault in the kernel was not handled

umVars == <<space, um, sched, pg, v, ACCESSING_USER_MEM, owner, allowed, present, crashed>>

UserMemInit ==
  /\ space \in [Threads -> Spaces]
  /\ um = [t \in Threads |-> "user"]
  /\ sched = [t \in Threads |-> "ready"]
  /\ pg = [t \in Threads |-> 1]
  /\ v = [t \in Threads |-> NoCpu]
  /\ ACCESSING_USER_MEM = [c \in Cpus |-> FALSE]
  /\ owner = [s \in Spaces |-> Nobody]
  /\ allowed = [s \in Spaces |-> Pages]
  /\ present = [s \in Spaces |-> {}]
  /\ crashed = FALSE

At(t, l) == sched[t] \in Cpus /\ um[t] = l /\ ~crashed
Goto(t, l) == um' = [um EXCEPT ![t] = l]
Unlocked(t) == owner[space[t]] = Nobody
Memory == <<owner, allowed, present>>

-----------------------------------------------------------------------------
(* The scheduler: a CPU without a task takes a Ready one.                  *)
Dispatch(t) ==
  /\ sched[t] = "ready" /\ ~crashed
  /\ \E c \in Cpus : /\ \A u \in Threads : sched[u] # c
                     /\ sched' = [sched EXCEPT ![t] = c]
  /\ UNCHANGED <<space, um, pg, v, ACCESSING_USER_MEM, Memory, crashed>>

(* A task gives up its CPU between system calls, before it uses a pointer  *)
(* it has checked (a read that has to wait), and under the mutex while     *)
(* sys_mmap reads a file.                                                  *)
Leave(t) ==
  /\ At(t, "user") \/ At(t, "use") \/ At(t, "held")
  /\ sched' = [sched EXCEPT ![t] = "ready"]
  /\ UNCHANGED <<space, um, pg, v, ACCESSING_USER_MEM, Memory, crashed>>

(* aspace.lock() while another task holds the mutex.                       *)
Sleep(t) ==
  /\ \E l \in {"string", "fault", "region", "change"} : At(t, l)
  /\ ~Unlocked(t)
  /\ sched' = [sched EXCEPT ![t] = "blocked"]
  /\ UNCHANGED <<space, um, pg, v, ACCESSING_USER_MEM, Memory, crashed>>

Wake(t) ==
  /\ sched[t] = "blocked" /\ Unlocked(t) /\ ~crashed
  /\ sched' = [sched EXCEPT ![t] = "ready"]
  /\ UNCHANGED <<space, um, pg, v, ACCESSING_USER_MEM, Memory, crashed>>

-----------------------------------------------------------------------------
(* access_user_memory: the flag of this CPU is set, and cleared at the end *)
(* through the same reference.                                             *)
access_user_memory(t) ==
  /\ v' = [v EXCEPT ![t] = sched[t]]
  /\ ACCESSING_USER_MEM' = [ACCESSING_USER_MEM EXCEPT ![sched[t]] = TRUE]

EndAccess(t) ==
  /\ v' = [v EXCEPT ![t] = NoCpu]
  /\ ACCESSING_USER_MEM' = [ACCESSING_USER_MEM EXCEPT ![v[t]] = FALSE]

check_null_terminated(t) ==
  /\ At(t, "user")
  /\ access_user_memory(t)
  /\ pg' = [pg EXCEPT ![t] = 1]
  /\ Goto(t, "string")
  /\ UNCHANGED <<space, sched, Memory, crashed>>

(* Faulty variant: EFAULT is returned past the end of the access.          *)
CheckPageReturns(t) ==
  /\ At(t, "string") /\ Unlocked(t)
  /\ IF pg[t] \in allowed[space[t]]
     THEN Goto(t, "read") /\ UNCHANGED <<v, ACCESSING_USER_MEM>>
     ELSE Goto(t, "user") /\ v' = [v EXCEPT ![t] = NoCpu] /\ UNCHANGED ACCESSING_USER_MEM
  /\ UNCHANGED <<space, sched, pg, Memory, crashed>>

(* The access to the next page is checked under the mutex.                 *)
CheckPage(t) ==
  /\ At(t, "string") /\ Unlocked(t)
  /\ IF pg[t] \in allowed[space[t]]
     THEN Goto(t, "read") /\ UNCHANGED <<v, ACCESSING_USER_MEM>>
     ELSE Goto(t, "user") /\ EndAccess(t)
  /\ UNCHANGED <<space, sched, pg, Memory, crashed>>

(* The characters of a page are read; the string ends there, and is used   *)
(* without the flag, or goes on.                                           *)
ReadPage(t) ==
  /\ At(t, "read") /\ pg[t] \in present[space[t]]
  /\ \/ Goto(t, "use") /\ EndAccess(t) /\ UNCHANGED pg
     \/ /\ pg' = [pg EXCEPT ![t] = @ + 1]
        /\ Goto(t, "string")
        /\ UNCHANGED <<v, ACCESSING_USER_MEM>>
  /\ UNCHANGED <<space, sched, Memory, crashed>>

(* A fault in the kernel, from a string or a checked pointer: without the  *)
(* flag of this CPU it is not handled, and the trap panics.                *)
handle_page_fault(t) ==
  /\ At(t, "read") \/ At(t, "use")
  /\ pg[t] \notin present[space[t]]
  /\ IF ACCESSING_USER_MEM[sched[t]]
     THEN Goto(t, "fault") /\ UNCHANGED crashed
     ELSE crashed' = TRUE /\ UNCHANGED um
  /\ UNCHANGED <<space, sched, pg, v, ACCESSING_USER_MEM, Memory>>

(* With the mutex: the page gets a frame, or do_exit ends the thread here, *)
(* inside the closure.                                                     *)
FaultMap(t) ==
  /\ At(t, "fault") /\ Unlocked(t)
  /\ IF pg[t] \in allowed[space[t]]
     THEN /\ present' = [present EXCEPT ![space[t]] = @ \cup {pg[t]}]
          /\ Goto(t, IF v[t] = NoCpu THEN "use" ELSE "read")
          /\ UNCHANGED sched
     ELSE /\ Goto(t, "killed")
          /\ sched' = [sched EXCEPT ![t] = "blocked"]
          /\ UNCHANGED present
  /\ UNCHANGED <<space, pg, v, ACCESSING_USER_MEM, owner, allowed, crashed>>

-----------------------------------------------------------------------------
(* PtrWrapper::get: check_region checks and populates, then the kernel     *)
(* uses the pointer without the flag.                                      *)
get(t) ==
  /\ At(t, "user")
  /\ \E p \in Pages : pg' = [pg EXCEPT ![t] = p]
  /\ Goto(t, "region")
  /\ UNCHANGED <<space, sched, v, ACCESSING_USER_MEM, Memory, crashed>>

check_region(t) ==
  /\ At(t, "region") /\ Unlocked(t)
  /\ IF pg[t] \in allowed[space[t]]
     THEN /\ present' = [present EXCEPT ![space[t]] = @ \cup {pg[t]}]
          /\ Goto(t, "use")
     ELSE Goto(t, "user") /\ UNCHANGED present
  /\ UNCHANGED <<space, sched, pg, v, ACCESSING_USER_MEM, owner, allowed, crashed>>

Use(t) ==
  /\ At(t, "use") /\ pg[t] \in present[space[t]]
  /\ Goto(t, "user")
  /\ UNCHANGED <<space, sched, pg, v, ACCESSING_USER_MEM, Memory, crashed>>

(* sys_mmap and sys_munmap of one page, with the mutex in between.         *)
Change(t) ==
  /\ At(t, "user")
  /\ \E p \in Pages : pg' = [pg EXCEPT ![t] = p]
  /\ Goto(t, "change")
  /\ UNCHANGED <<space, sched, v, ACCESSING_USER_MEM, Memory, crashed>>

Lock(t) ==
  /\ At(t, "change") /\ Unlocked(t)
  /\ owner' = [owner EXCEPT ![space[t]] = t]
  /\ Goto(t, "held")
  /\ UNCHANGED <<space, sched, pg, v, ACCESSING_USER_MEM, allowed, present, crashed>>

Changed(t) ==
  LET s == space[t]
  IN /\ At(t, "held")
     /\ \/ allowed' = [allowed EXCEPT ![s] = @ \cup {pg[t]}] /\ UNCHANGED present
        \/ /\ allowed' = [allowed EXCEPT ![s] = @ \ {pg[t]}]
           /\ present' = [present EXCEPT ![s] = @ \ {pg[t]}]
     /\ owner' = [owner EXCEPT ![s] = Nobody]
     /\ Goto(t, "user")
     /\ UNCHANGED <<space, sched, pg, v, ACCESSING_USER_MEM, crashed>>

UserMemNext ==
  \E t \in Threads :
    \/ Dispatch(t) \/ Leave(t) \/ Sleep(t) \/ Wake(t)
    \/ check_null_terminated(t) \/ CheckPage(t) \/ ReadPage(t)
    \/ handle_page_fault(t) \/ FaultMap(t)
    \/ get(t) \/ check_region(t) \/ Use(t)
    \/ Change(t) \/ Lock(t) \/ Changed(t)

-----------------------------------------------------------------------------
(* A fault of the kernel itself is never taken for one of a program: the   *)
(* flag of a CPU is set only on behalf of a thread inside                  *)
(* access_user_memory, or of one that do_exit ended there.                 *)
FlagOwed ==
  \A c \in Cpus : ACCESSING_USER_MEM[c] => \E t \in Threads : v[t] = c

(* "Enables scoped access into user memory, allowing page faults to occur  *)
(* inside kernel" (core/src/mm.rs:176): a thread that reads inside         *)
(* access_user_memory has the flag of its CPU.                             *)
AccessScoped ==
  \A t \in Threads : At(t, "read") => ACCESSING_USER_MEM[sched[t]]
=============================================================================
