----------------------------- MODULE AddrSpace -----------------------------
(***************************************************************************)
(* User memory: mmap, munmap, mprotect, execve, clone, page faults and     *)
(* user pointers (api/src/imp/mm, api/src/ptr.rs, core/src/mm.rs,          *)
(* src/mm.rs) on the address spaces of axmm.                               *)
(*                                                                         *)
(* Every operation holds the mutex of the address space, so it is one      *)
(* step; a fault is raised by the hardware in a step of its own before.    *)
(* Addresses given by programs are in half pages, so that they can be      *)
(* misaligned; address 0 is null, and the user's pages are 1..NPages.      *)
(* Page contents and the frames of the page tables are left out.           *)
(***************************************************************************)
EXTENDS MemorySet, SequencesExt

CONSTANTS Threads,   \* threads, of all processes
          Spaces,    \* address spaces
          NPages,    \* pages of the user range
          NFrames,   \* physical frames
          Prots,     \* permissions, sets of "READ" and "WRITE"
          Lengths,   \* lengths programs pass, in half pages
          Image,     \* the segments, stack and heap of a program, in load order:
                     \* an area, and how many of its pages get data at once
          NoSpace,   \* no address space
          NoPerm     \* no permission: the page is in no area

ASSUME SizeAssumption == NPages \in Nat \ {0} /\ NFrames \in Nat \ {0}
ASSUME ProtsAssumption == Prots \subseteq (SUBSET {"READ", "WRITE"}) \ {{}}
ASSUME ImageAssumption ==
  /\ \A i \in 1..Len(Image) :
       /\ Image[i].area \in
            [start : 1..NPages, end : 2..NPages + 1, flags : Prots, populate : {TRUE}]
       /\ Image[i].data \in 0..Image[i].area.end - Image[i].area.start
  /\ \A i, j \in 1..Len(Image) :
       i # j => PagesOf(Image[i].area) \cap PagesOf(Image[j].area) = {}
ASSUME SpaceAssumption == NoSpace \notin Spaces /\ NoPerm \notin Prots

VARIABLES process,   \* process[t]: the process of t, named by its first thread
          space,     \* space[t]: the address space of t's process
          state,     \* state[t]: "none", "user", "fault", "exiting" or "exited"
          fault,     \* fault[t]: the page and the access of a fault being handled
          areas,     \* areas[s]: the memory set
          pt,        \* pt[s]: the page table, a frame and flags for each page
          free       \* the frames in the allocator

vars == <<process, space, state, fault, areas, pt, free>>
threadVars == <<process, space, state, fault>>

Pages == 1..NPages
Limit == NPages + 1
Frames == 1..NFrames
NotMapped == [frame |-> 0, flags |-> {}]
NoFault == [page |-> 1, access |-> "READ"]

Area == [start : 1..Limit, end : 1..Limit, flags : Prots, populate : BOOLEAN]

(* The types of the variables.                                             *)
TypeOK ==
  /\ process \in [Threads -> Threads]
  /\ space \in [Threads -> Spaces \cup {NoSpace}]
  /\ state \in [Threads -> {"none", "user", "fault", "exiting", "exited"}]
  /\ fault \in [Threads -> [page : Pages, access : {"READ", "WRITE"}]]
  /\ \A s \in Spaces : areas[s] \subseteq Area
  /\ pt \in [Spaces -> [Pages -> [frame : 0..NFrames, flags : Prots \cup {{}}]]]
  /\ free \subseteq Frames

Mapped(table) == {p \in Pages : table[p].frame # 0}

Rank(x, S) == Cardinality({y \in S : y <= x})

(* The flags of the area a page is in.                                     *)
FlagsAt(set, p) == (CHOOSE a \in find(set, p) : TRUE).flags

(* alloc_frame and pt.map for the pages in S, in order, as far as there    *)
(* are frames: what every populating loop does.                            *)
Populate(table, S, F, set) ==
  [p \in Pages |->
    IF p \in S /\ Rank(p, S) <= Cardinality(F)
    THEN [frame |-> CHOOSE f \in F : Rank(f, F) = Rank(p, S), flags |-> FlagsAt(set, p)]
    ELSE table[p]]

FramesOf(table) == {table[p].frame : p \in Mapped(table)}

(* unmap_alloc: the frames of the pages in S go back to the allocator.     *)
Clear(table, S) == [p \in Pages |-> IF p \in S THEN NotMapped ELSE table[p]]

(* Half pages to pages, rounded up.                                        *)
align_up(x) == (x + 1) \div 2

Aligned(addr) == addr % 2 = 0

(* validate_region: the range lies in the user range.                      *)
validate_region(lo, n) == 1 <= lo /\ lo + n <= Limit

-----------------------------------------------------------------------------
(* The operations of AddrSpace.  Each gives the areas, the table and the   *)
(* free frames after it.                                                   *)

Mem(set, table, frames) == [areas |-> set, pt |-> table, free |-> frames]

MemOf(s) == Mem(areas[s], pt[s], free)

MemUnmap(m, lo, hi) ==
  LET S == {p \in lo..hi - 1 : p \in Covered(m.areas)}
  IN Mem(unmap(m.areas, lo, hi), Clear(m.pt, S),
         m.free \cup FramesOf([p \in Pages |-> IF p \in S THEN m.pt[p] ELSE NotMapped]))

(* map_alloc: refused if the area is empty or overlaps another; a page for *)
(* which there is no frame is skipped without an error.                    *)
CanMap(m, a) ==
  /\ validate_region(a.start, a.end - a.start)
  /\ a.start < a.end
  /\ ~overlaps(m.areas, a.start, a.end)

map_alloc(m, a) ==
  LET set == insert(m.areas, a)
      table == Populate(m.pt, IF a.populate THEN PagesOf(a) ELSE {}, m.free, set)
  IN Mem(set, table, m.free \ FramesOf(table))

(* populate_area: the pages of lazy areas that have no frame get one, up   *)
(* to the first gap between areas or until the frames run out.             *)
Missing(m, lo, hi) ==
  {p \in MappedPrefix(m.areas, lo, hi) :
     m.pt[p].frame = 0 /\ \E a \in find(m.areas, p) : ~a.populate}

populate_area(m, lo, hi) ==
  LET table == Populate(m.pt, Missing(m, lo, hi), m.free, m.areas)
  IN Mem(m.areas, table, m.free \ FramesOf(table))

PopulateOk(m, lo, hi) ==
  /\ MappedPrefix(m.areas, lo, hi) = lo..hi - 1
  /\ Cardinality(Missing(m, lo, hi)) <= Cardinality(m.free)

(* protect_region in the part of each area inside the range: it stops at   *)
(* the first page that has no frame, and nobody looks at its result.       *)
protect_region(table, part, flags) ==
  [p \in Pages |->
    IF p \in part /\ \A q \in part : q <= p => table[q].frame # 0
    THEN [table[p] EXCEPT !.flags = flags] ELSE table[p]]

(* Faulty variant: only the areas are changed.                             *)
ProtectAreasOnly(m, lo, hi, flags) == Mem(protect(m.areas, lo, hi, flags), m.pt, m.free)

AddrSpaceProtect(m, lo, hi, flags) ==
  LET part(p) == {q \in lo..hi - 1 : find(m.areas, q) = find(m.areas, p)}
  IN Mem(protect(m.areas, lo, hi, flags),
         [p \in Pages |->
           IF p \in lo..hi - 1 THEN protect_region(m.pt, part(p), flags)[p] ELSE m.pt[p]],
         m.free)

(* check_region_access: every page is in an area that allows the access.   *)
check_region_access(set, lo, hi, access) ==
  \A p \in lo..hi - 1 : \E a \in find(set, p) : access \subseteq a.flags

(* load_user_app as far as the first k parts of the image.  The data of a  *)
(* part is written before the next is mapped, which fails if a page has no *)
(* frame.                                                                  *)
load_user_app(m, k) ==
  FoldLeft(LAMBDA n, part : map_alloc(n, part.area), m, SubSeq(Image, 1, k))

CanLoad(m, k) ==
  \A i \in 1..k - 1 : \A p \in PagesOf(Image[i].area) :
    p < Image[i].area.start + Image[i].data => load_user_app(m, i).pt[p].frame # 0

(* unmap_user_areas and clear.                                             *)
Empty(m) == Mem({}, [p \in Pages |-> NotMapped], m.free \cup FramesOf(m.pt))

(* Faulty variant: the copy keeps the frames of the original.              *)
clone_shallow(m) == m

(* clone_or_err: the areas again, with frames for the pages of populated   *)
(* areas and for the pages the original has.                               *)
clone_or_err(m) ==
  LET S == Mapped(m.pt) \cup UNION {PagesOf(a) : a \in {b \in m.areas : b.populate}}
      table == Populate([p \in Pages |-> NotMapped], S, m.free, m.areas)
  IN Mem(m.areas, table, m.free \ FramesOf(table))

CloneOk(m) == Mapped(m.pt) \subseteq Mapped(clone_or_err(m).pt)

-----------------------------------------------------------------------------
Init ==
  /\ \E t \in Threads, s \in Spaces :
       /\ process = [u \in Threads |-> u]
       /\ space = [u \in Threads |-> IF u = t THEN s ELSE NoSpace]
       /\ state = [u \in Threads |-> IF u = t THEN "user" ELSE "none"]
       /\ LET m == load_user_app(Mem({}, [p \in Pages |-> NotMapped], Frames), Len(Image))
          IN /\ areas = [r \in Spaces |-> IF r = s THEN m.areas ELSE {}]
             /\ pt = [r \in Spaces |-> IF r = s THEN m.pt ELSE [p \in Pages |-> NotMapped]]
             /\ free = m.free
  /\ fault = [t \in Threads |-> NoFault]

Become(s, m) ==
  /\ areas' = [areas EXCEPT ![s] = m.areas]
  /\ pt' = [pt EXCEPT ![s] = m.pt]
  /\ free' = m.free

(* A system call that changes the caller's address space only.             *)
Change(t, m) == Become(space[t], m) /\ UNCHANGED threadVars

(* sys_mmap.  A misaligned address gives a misaligned length, which is     *)
(* refused.  MAP_FIXED unmaps first.  A file mapping is populated; if the  *)
(* file cannot be read afterwards, the new area stays.                     *)
Mmap(t, addr, len, prot, fixed, populate) ==
  LET m == MemOf(space[t])
      n == align_up(len)
      near == find_free_area(m.areas, addr \div 2, n, 1, Limit)
      start == IF fixed THEN {addr \div 2}
               ELSE IF near # {} THEN near ELSE find_free_area(m.areas, 1, n, 1, Limit)
      base(lo) == IF fixed THEN MemUnmap(m, lo, lo + n) ELSE m
  IN /\ state[t] = "user"
     /\ Aligned(addr)
     /\ \E lo \in start :
          LET a == [start |-> lo, end |-> lo + n, flags |-> prot, populate |-> populate]
          IN validate_region(lo, n) /\ CanMap(base(lo), a) /\ Change(t, map_alloc(base(lo), a))

(* sys_munmap.                                                             *)
Munmap(t, addr, len) ==
  /\ state[t] = "user"
  /\ Aligned(addr)
  /\ validate_region(addr \div 2, align_up(len))
  /\ Change(t, MemUnmap(MemOf(space[t]), addr \div 2, addr \div 2 + align_up(len)))

(* Faulty variant: the result of populate_area is not looked at.           *)
MprotectUnchecked(t, addr, len, prot) ==
  LET lo == addr \div 2
      hi == lo + align_up(len)
  IN /\ state[t] = "user"
     /\ Aligned(addr)
     /\ validate_region(lo, hi - lo)
     /\ Change(t, AddrSpaceProtect(populate_area(MemOf(space[t]), lo, hi), lo, hi, prot))

(* sys_mprotect populates the range before it changes the flags; pages     *)
(* populated before an error keep their frames.                            *)
Mprotect(t, addr, len, prot) ==
  LET lo == addr \div 2
      hi == lo + align_up(len)
      m == populate_area(MemOf(space[t]), lo, hi)
  IN /\ state[t] = "user"
     /\ Aligned(addr)
     /\ validate_region(lo, hi - lo)
     /\ Change(t, IF PopulateOk(MemOf(space[t]), lo, hi)
                  THEN AddrSpaceProtect(m, lo, hi, prot) ELSE m)

(* check_region, before the kernel uses a pointer from a program.          *)
check_region(m, addr, len, access) ==
  LET lo == addr \div 2
      hi == align_up(addr + len)
  IN IF check_region_access(m.areas, lo, hi, access) THEN populate_area(m, lo, hi) ELSE m

CheckRegion(t, addr, len, access) ==
  state[t] = "user" /\ Change(t, check_region(MemOf(space[t]), addr, len, access))

(* A page fault: the access is not allowed by the page table.              *)
FaultRaise(t, p, access) ==
  /\ state[t] = "user"
  /\ access \notin pt[space[t]][p].flags
  /\ state' = [state EXCEPT ![t] = "fault"]
  /\ fault' = [fault EXCEPT ![t] = [page |-> p, access |-> access]]
  /\ UNCHANGED <<process, space, areas, pt, free>>

(* handle_page_fault in a lazy area: a frame is taken before pt.map is     *)
(* tried, and pt.map refuses a page that is mapped.  If anything fails,    *)
(* the thread goes on to do_exit(SIGSEGV).                                 *)
HandleFault(t) ==
  LET s == space[t]
      p == fault[t].page
      takes == /\ \E a \in find(areas[s], p) : fault[t].access \in a.flags /\ ~a.populate
               /\ free # {}
      maps == takes /\ pt[s][p].frame = 0
      frame == Min(free)
  IN /\ state[t] = "fault"
     /\ free' = IF takes THEN free \ {frame} ELSE free
     /\ pt' = IF maps
              THEN [pt EXCEPT ![s][p] = [frame |-> frame, flags |-> FlagsAt(areas[s], p)]]
              ELSE pt
     /\ state' = [state EXCEPT ![t] = IF maps THEN "user" ELSE "exiting"]
     /\ fault' = [fault EXCEPT ![t] = NoFault]
     /\ UNCHANGED <<process, space, areas>>

Alive(t) == state[t] \notin {"none", "exited"}

(* sys_execve: everything is unmapped, then the image is loaded; when that *)
(* fails after k parts, the caller goes on with what is there.             *)
Execve(t, k) ==
  LET m == Empty(MemOf(space[t]))
  IN /\ state[t] = "user"
     /\ \A u \in Threads \ {t} : process[u] = process[t] => ~Alive(u)
     /\ CanLoad(m, k)
     /\ Change(t, load_user_app(m, k))

(* sys_clone with CLONE_THREAD or CLONE_VM, and without.                   *)
CloneShare(t, u, thread) ==
  /\ state[t] = "user" /\ state[u] = "none"
  /\ state' = [state EXCEPT ![u] = "user"]
  /\ space' = [space EXCEPT ![u] = space[t]]
  /\ process' = [process EXCEPT ![u] = IF thread THEN process[t] ELSE u]
  /\ UNCHANGED <<fault, areas, pt, free>>

CloneCopy(t, u, s) ==
  /\ state[t] = "user" /\ state[u] = "none"
  /\ \A v \in Threads : space[v] # s
  /\ CloneOk(MemOf(space[t]))
  /\ Become(s, clone_or_err(MemOf(space[t])))
  /\ state' = [state EXCEPT ![u] = "user"]
  /\ space' = [space EXCEPT ![u] = s]
  /\ process' = [process EXCEPT ![u] = u]
  /\ UNCHANGED fault

(* do_exit: the word at clear_child_tid, if it is set, is checked as a     *)
(* pointer first.                                                          *)
Exit(t, clear_child_tid) ==
  /\ state[t] \in {"user", "exiting"}
  /\ state' = [state EXCEPT ![t] = "exited"]
  /\ Become(space[t], IF clear_child_tid = {} THEN MemOf(space[t])
                      ELSE check_region(MemOf(space[t]), Min(clear_child_tid), 1, {"READ", "WRITE"}))
  /\ UNCHANGED <<process, space, fault>>

(* The process data of a process that has ended is dropped; the last       *)
(* reference to an address space clears it.                                *)
Drop(t) ==
  LET gone == {u \in Threads : process[u] = process[t] /\ state[u] # "none"}
  IN /\ state[t] = "exited"
     /\ \A u \in gone : state[u] = "exited"
     /\ state' = [u \in Threads |-> IF u \in gone THEN "none" ELSE state[u]]
     /\ space' = [u \in Threads |-> IF u \in gone THEN NoSpace ELSE space[u]]
     /\ process' = [u \in Threads |-> IF u \in gone THEN u ELSE process[u]]
     /\ Become(space[t], IF \E u \in Threads \ gone : space[u] = space[t]
                         THEN MemOf(space[t]) ELSE Empty(MemOf(space[t])))
     /\ UNCHANGED fault

Addresses == 2..2 * NPages + 1

(* What a thread does to the address space it has.                         *)
Use(t) ==
  \/ \E addr \in {0} \cup Addresses, len \in Lengths, prot \in Prots, populate \in BOOLEAN :
       Mmap(t, addr, len, prot, FALSE, populate)
  \/ \E addr \in Addresses, len \in Lengths, prot \in Prots, populate \in BOOLEAN :
       Mmap(t, addr, len, prot, TRUE, populate)
  \/ \E addr \in Addresses, len \in Lengths : Munmap(t, addr, len)
  \/ \E addr \in Addresses, len \in Lengths, prot \in Prots : Mprotect(t, addr, len, prot)
  \/ \E addr \in Addresses, len \in Lengths, access \in {{"READ"}, {"READ", "WRITE"}} :
       CheckRegion(t, addr, len, access)
  \/ \E p \in Pages, access \in {"READ", "WRITE"} : FaultRaise(t, p, access)
  \/ HandleFault(t)
  \/ \E k \in 0..Len(Image) : Execve(t, k)
  \/ \E word \in {{}} \cup {{2 * p} : p \in Pages} : Exit(t, word)
  \/ Drop(t)

Clone(t) == \E u \in Threads :
  \/ \E thread \in BOOLEAN : CloneShare(t, u, thread)
  \/ \E s \in Spaces : CloneCopy(t, u, s)

Next == \E t \in Threads : Use(t) \/ Clone(t)

Spec == Init /\ [][Next]_vars

-----------------------------------------------------------------------------
(* The areas of an address space are not empty, lie in the user range and  *)
(* do not overlap, whatever mmap, munmap and mprotect did to their edges:  *)
(* what unmap_user_areas, split and the shrink functions assert, and what  *)
(* find relies on when it looks at one neighbour only.                     *)
AreasDisjoint ==
  \A s \in Spaces : \A a \in areas[s] :
    /\ a.start < a.end
    /\ \A b \in areas[s] : a = b \/ a.end <= b.start \/ b.end <= a.start

(* A page has a frame only while it is in an area, and in an area that is  *)
(* filled on demand the page table gives exactly the area's permission,    *)
(* also when frames ran out in the middle of mprotect or of clone.         *)
TableMatchesAreas ==
  \A s \in Spaces : \A p \in Mapped(pt[s]) :
    \E a \in find(areas[s], p) : a.populate \/ pt[s][p].flags = a.flags

(* No frame is in two places of page tables, and none is free while it is  *)
(* mapped: neither fork, nor a fault that finds the page mapped, nor a     *)
(* failed load shares or frees memory that someone can still reach.        *)
FramesExclusive ==
  /\ \A s, r \in Spaces : \A p \in Mapped(pt[s]), q \in Mapped(pt[r]) :
       pt[s][p].frame = pt[r][q].frame => s = r /\ p = q
  /\ \A s \in Spaces : FramesOf(pt[s]) \cap free = {}

(* An address space nobody uses holds no areas and no frames.              *)
UnusedEmpty ==
  \A s \in Spaces :
    (\A t \in Threads : space[t] # s) => areas[s] = {} /\ Mapped(pt[s]) = {}

(* find_free_area returns the least address from the hint on where the     *)
(* size fits between areas, and nothing only when there is none, although  *)
(* it looks only at the ends of areas.                                     *)
LeastFree ==
  \A s \in Spaces, hint \in 0..NPages, size \in 1..NPages :
    LET fits == {x \in Max({hint, 1})..Limit - size :
                   x..x + size - 1 \cap Covered(areas[s]) = {}}
    IN find_free_area(areas[s], hint, size, 1, Limit) =
         {x \in fits : \A y \in fits : x <= y}

(* The permission of each page, or NoPerm.                                 *)
PermOf(set) ==
  [p \in Pages |->
    IF \E a \in set : a.start <= p /\ p < a.end
    THEN (CHOOSE a \in set : a.start <= p /\ p < a.end).flags ELSE NoPerm]

(* Cutting, shrinking and splitting areas amounts to changing the pages of *)
(* the range and no others: unmap takes exactly them away, and protect     *)
(* gives exactly those that are mapped the new flags.                      *)
RangesExact ==
  \A s \in Spaces, lo \in Pages, hi \in Pages \cup {Limit} : lo < hi =>
    LET before == PermOf(areas[s])
    IN /\ PermOf(unmap(areas[s], lo, hi)) =
            [p \in Pages |-> IF p \in lo..hi - 1 THEN NoPerm ELSE before[p]]
       /\ \A f \in Prots : PermOf(protect(areas[s], lo, hi, f)) =
            [p \in Pages |->
              IF p \in lo..hi - 1 /\ before[p] # NoPerm THEN f ELSE before[p]]

(* Page by page, all of this is PageMap: a call changes the permissions of *)
(* one range of its own address space, clone copies or shares them, and no *)
(* fault, pointer check or lack of frames changes any.                     *)
Images ==
  {PermOf({Image[i].area : i \in 1..k}) : k \in 0..Len(Image)}

Abstract == INSTANCE PageMap WITH perm <- [s \in Spaces |-> PermOf(areas[s])]

PageMapSpec == Abstract!Spec

(* "Returns `true` if the page fault is handled successfully (not a real   *)
(* fault)" (handle_page_fault): a thread is not sent to do_exit for an     *)
(* access to a page of a lazy area that the page table allows by then.     *)
RealFaults ==
  [][\A t \in Threads :
       /\ state[t] = "fault" /\ state'[t] = "exiting"
       /\ \E a \in find(areas[space[t]], fault[t].page) : ~a.populate
       => fault[t].access \notin pt[space[t]][fault[t].page].flags]_vars
=============================================================================
