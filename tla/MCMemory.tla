----------------------------- MODULE MCMemory -----------------------------
(***************************************************************************)
(* Memory, for TLC: address spaces that two threads share or copy          *)
(* (AddrSpace), one address space with more pages and odd lengths (One),   *)
(* the kernel's access to user memory (UserMem), and the allocators below  *)
(* (Alloc).  `part` says which of them a behaviour is about; the variables *)
(* of the others do not change.                                            *)
(***************************************************************************)
EXTENDS AddrSpace, TLC

CONSTANTS t0, s0,                       \* the thread and the space of One
          Cpus, UserPages, Nobody, NoCpu,
          Machines, PhysEnd, MaxRuns, Sizes, MaxObjects

VARIABLES part,
          process1, space1, state1, fault1, areas1, pt1, free1,
          uspace, um, sched, pg, v, ACCESSING_USER_MEM, owner, allowed, present, crashed,
          machine, palloc, pools, runs, uncached, lock, at, arg

RW == {"READ", "WRITE"}
BothProts == {{"READ"}, RW}
OneProt == {RW}

Segment(start, end, flags, data) ==
  [area |-> [start |-> start, end |-> end, flags |-> flags, populate |-> TRUE], data |-> data]

(* A page of code, and a page of heap at the end.                          *)
MCImage == <<Segment(1, 2, RW, 1), Segment(2, 3, RW, 0)>>
OneImage == <<Segment(1, 2, {"READ"}, 1), Segment(3, 4, RW, 0)>>

One == INSTANCE AddrSpace
         WITH Threads <- {t0}, Spaces <- {s0}, NPages <- 3, Lengths <- {1, 3, 6},
              Prots <- BothProts, Image <- OneImage,
              process <- process1, space <- space1, state <- state1, fault <- fault1,
              areas <- areas1, pt <- pt1, free <- free1
U == INSTANCE UserMem WITH NPages <- UserPages, space <- uspace
A == INSTANCE Alloc WITH Tasks <- Threads

oneVars == <<process1, space1, state1, fault1, areas1, pt1, free1>>
uVars == <<uspace, um, sched, pg, v, ACCESSING_USER_MEM, owner, allowed, present, crashed>>
aVars == <<machine, palloc, pools, runs, uncached, lock, at, arg>>

(* No program runs.                                                        *)
NoProgram ==
  /\ process = [u \in Threads |-> u]
  /\ space = [u \in Threads |-> NoSpace]
  /\ state = [u \in Threads |-> "none"]
  /\ fault = [u \in Threads |-> NoFault]
  /\ areas = [s \in Spaces |-> {}]
  /\ pt = [s \in Spaces |-> [p \in Pages |-> NotMapped]]
  /\ free = Frames
NoAccess ==
  /\ uspace = 0 /\ um = 0 /\ sched = 0 /\ pg = 0 /\ v = 0 /\ ACCESSING_USER_MEM = 0
  /\ owner = 0 /\ allowed = 0 /\ present = 0 /\ crashed = 0
NoAllocator ==
  /\ machine = 0 /\ palloc = 0 /\ pools = 0 /\ runs = 0 /\ uncached = 0
  /\ lock = 0 /\ at = 0 /\ arg = 0

MCInit ==
  /\ One!Init
  /\ \/ part = "shared" /\ Init /\ NoAccess /\ NoAllocator
     \/ part = "one" /\ NoProgram /\ NoAccess /\ NoAllocator
     \/ part = "access" /\ NoProgram /\ U!UserMemInit /\ NoAllocator
     \/ part = "alloc" /\ NoProgram /\ NoAccess /\ A!AllocInit

MCNext ==
  /\ UNCHANGED part
  /\ \/ part = "shared" /\ Next /\ UNCHANGED <<oneVars, uVars, aVars>>
     \/ part = "one" /\ One!Use(t0) /\ UNCHANGED <<vars, uVars, aVars>>
     \/ part = "access" /\ U!UserMemNext /\ UNCHANGED <<vars, oneVars, aVars>>
     \/ part = "alloc" /\ A!AllocNext /\ UNCHANGED <<vars, oneVars, uVars>>

MCSpec == MCInit /\ [][MCNext]_<<part, vars, oneVars, uVars, aVars>>

Symmetry == Permutations(Threads) \cup Permutations(Spaces)

(* Areas do not overlap, and the page table agrees with them, also when    *)
(* frames ran out in the middle of mprotect or of clone.                   *)
TablesMatch ==
  /\ part = "shared" => AreasDisjoint /\ TableMatchesAreas
  /\ part = "one" => One!TypeOK /\ One!AreasDisjoint /\ One!TableMatchesAreas

(* find_free_area finds the least address that fits, and munmap and        *)
(* mprotect change the pages of their range and no others.                 *)
AreasExact == part = "one" => One!LeastFree /\ One!RangesExact

(* No frame is reachable twice or free while it is mapped, and an address  *)
(* space nobody uses holds none.                                           *)
FramesOwned == part = "shared" => TypeOK /\ FramesExclusive /\ UnusedEmpty

(* Page by page, an address space does what PageMap says.                  *)
ImplementsPageMap == PageMapSpec /\ One!PageMapSpec

(* A fault of the kernel itself is never taken for one of a program: the   *)
(* flag of a CPU is set only on behalf of a thread inside                  *)
(* access_user_memory.                                                     *)
FlagOwed == part = "access" => U!FlagOwed

(* Every page of free memory is in exactly one place at every moment, and  *)
(* coherent memory is uncached exactly while it is in use.                 *)
PagesAccounted == part = "alloc" => A!Accounted /\ A!Coherent
=============================================================================
