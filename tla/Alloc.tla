------------------------------- MODULE Alloc -------------------------------
(***************************************************************************)
(* The memory of the kernel: which regions exist (axhal/src/mem.rs and     *)
(* platform/*/mem.rs), how axruntime hands them to the global allocator,   *)
(* the two levels of that allocator (axalloc), and the coherent memory for *)
(* devices (axdma) taken from it.                                          *)
(*                                                                         *)
(* Addresses are page numbers.  The page allocator is a bitmap and the     *)
(* byte allocators are TLSF; both come from the crate `allocator`.  Sizes  *)
(* of byte allocations are in units, UNITS to a page; HEADER units of a    *)
(* pool hold its bookkeeping.                                              *)
(*                                                                         *)
(* AddrSpace::protect does not fail on pages that are mapped, which pages  *)
(* of the page allocator always are: update_flags has no error here.       *)
(***************************************************************************)
EXTENDS Naturals, Sequences, FiniteSets, FiniteSetsExt, SequencesExt

CONSTANTS Tasks, Nobody,
          Machines,       \* subset of {"x86_pc", "raspi", "virt", "two_banks"}
          PhysEnd,        \* pages of memory: 0 .. PhysEnd - 1
          MaxRuns,        \* bound on the page runs in use
          Sizes,          \* sizes of byte allocations, in units
          MaxObjects      \* bound on the objects of a byte allocator

UNITS == 4
HEADER == 2
MIN_HEAP == 1             \* MIN_HEAP_SIZE in pages
DMA_EXPAND == 2           \* pages axdma asks for; 4 in the code

Region(p, n, f) == [paddr |-> p, size |-> n, free |-> f]
RegionPages(r) == r.paddr .. r.paddr + r.size - 1

(* Code, data and the boot stack, after the page the firmware keeps.       *)
ImageEnd == 3
kernel_image_regions == <<Region(1, 1, FALSE), Region(2, 1, FALSE)>>
default_free_regions == <<Region(ImageEnd, PhysEnd - ImageEnd, TRUE)>>
default_mmio_regions == <<Region(PhysEnd, 1, FALSE)>>

x86_platform_regions ==
  <<Region(0, 1, FALSE)>> \o default_free_regions \o default_mmio_regions
raspi_platform_regions ==
  <<Region(0, 1, FALSE)>> \o default_free_regions \o default_mmio_regions
virt_platform_regions == default_free_regions \o default_mmio_regions

(* A platform may report more than one free region.                        *)
TwoBanks == <<Region(ImageEnd, 1, TRUE), Region(ImageEnd + 2, PhysEnd - ImageEnd - 2, TRUE)>>

platform_regions(m) == CASE m = "x86_pc" -> x86_platform_regions
                         [] m = "raspi" -> raspi_platform_regions
                         [] m = "virt" -> virt_platform_regions
                         [] m = "two_banks" -> TwoBanks

memory_regions(m) == kernel_image_regions \o platform_regions(m)

VARIABLES machine,
          palloc,     \* free pages of the page allocator
          pools,      \* pools["heap"], pools["dma"]: memory of the byte allocators
          runs,       \* page runs in use: [start, n, align, dma]
          uncached,   \* pages the kernel maps UNCACHED
          lock,       \* lock["heap"], lock["dma"]: who holds the allocator's lock
          at, arg     \* where a task is, and with which size or run

allocVars == <<machine, palloc, pools, runs, uncached, lock, at, arg>>

Run(s, n) == s .. s + n - 1
RunPages == UNION {Run(r.start, r.n) : r \in runs}
PoolPages(a) == UNION {Run(p.start, p.n) : p \in pools[a]}

-----------------------------------------------------------------------------
(* BitmapPageAllocator::alloc_pages takes the lowest pages that are free.  *)
(* The alignment counts only when more than one page is asked for.         *)
Fits(n, align) == {s \in palloc : Run(s, n) \subseteq palloc /\ (n > 1 => s % align = 0)}
alloc_pages(n, align) == IF n = 0 \/ Fits(n, align) = {} THEN {} ELSE {Min(Fits(n, align))}

(* The largest free region, the first of several.                          *)
MaxRegion(rs) ==
  rs[Min({i \in DOMAIN rs : rs[i].free /\ \A j \in DOMAIN rs : rs[j].free => rs[j].size <= rs[i].size})]

AddedRegions(rs) == {r \in Range(rs) : r.free /\ r.paddr # MaxRegion(rs).paddr}

Pool(s, n) == [start |-> s, n |-> n, live |-> [u \in Sizes |-> 0]]

(* init_allocator: global_init with the largest region, whose first pages  *)
(* become the heap, then global_add_memory with the others.                *)
init_allocator ==
  /\ \A t \in Tasks : at[t] = "boot"
  /\ \E m \in {MaxRegion(memory_regions(machine))} :
       /\ m.size > MIN_HEAP
       /\ palloc' = RegionPages(m) \ Run(m.paddr, MIN_HEAP)
       /\ pools' = [pools EXCEPT !["heap"] =
            {Pool(m.paddr, MIN_HEAP)}
              \cup {Pool(r.paddr, r.size) : r \in AddedRegions(memory_regions(machine))}]
  /\ at' = [t \in Tasks |-> "idle"]
  /\ UNCHANGED <<machine, runs, uncached, lock, arg>>

-----------------------------------------------------------------------------
Goto(t, l, x) == at' = [at EXCEPT ![t] = l] /\ arg' = [arg EXCEPT ![t] = x]
Done(t) == Goto(t, "idle", 0)

Acquire(a, t) == lock[a] = Nobody /\ lock' = [lock EXCEPT ![a] = t]
Release(a) == lock' = [lock EXCEPT ![a] = Nobody]

(* The TLSF allocator of p: what it has left, and its objects.             *)
Units(p) == FoldFunction(+, 0, [u \in Sizes |-> u * p.live[u]])
Room(p) == p.n * UNITS - HEADER - Units(p)
Replace(a, p, q) == pools' = [pools EXCEPT ![a] = (@ \ {p}) \cup {q}]
WithRoom(a, u) == {p \in pools[a] : Room(p) >= u}
total_bytes(a) == UNITS * Cardinality(PoolPages(a))
Objects(a) == MapThenSumSet(LAMBDA p : FoldFunction(+, 0, p.live), pools[a])

(* GlobalAllocator::alloc takes the lock of the heap and keeps it.         *)
AllocCall(t) ==
  /\ at[t] = "idle" /\ Objects("heap") < MaxObjects
  /\ Acquire("heap", t)
  /\ \E u \in Sizes : Goto(t, "alloc", u)
  /\ UNCHANGED <<machine, palloc, pools, runs, uncached>>

AllocFound(t) ==
  /\ at[t] = "alloc"
  /\ \E p \in WithRoom("heap", arg[t]) : Replace("heap", p, [p EXCEPT !.live[arg[t]] = @ + 1])
  /\ Release("heap") /\ Done(t)
  /\ UNCHANGED <<machine, palloc, runs, uncached>>

next_power_of_two(n) == Min({k \in {2^i : i \in 0..n} : k >= n})
expand_pages(u) == Max({next_power_of_two(Max({total_bytes("heap"), u})) \div UNITS, 1})

Take(ps) == palloc' = palloc \ ps

(* No room: as many pages again as the heap has, and another try; or the   *)
(* call fails.                                                             *)
AllocExpand(t) ==
  /\ at[t] = "alloc" /\ WithRoom("heap", arg[t]) = {}
  /\ \E n \in {expand_pages(arg[t])} :
       \/ \E s \in alloc_pages(n, 1) :
            /\ Take(Run(s, n))
            /\ pools' = [pools EXCEPT !["heap"] = @ \cup {Pool(s, n)}]
            /\ UNCHANGED <<lock, at, arg>>
       \/ /\ alloc_pages(n, 1) = {}
          /\ Release("heap") /\ Done(t)
          /\ UNCHANGED <<palloc, pools>>
  /\ UNCHANGED <<machine, runs, uncached>>

(* GlobalAllocator::dealloc of a live object.                              *)
Dealloc(t) ==
  /\ at[t] = "idle" /\ lock["heap"] = Nobody
  /\ \E p \in pools["heap"], u \in Sizes :
       p.live[u] > 0 /\ Replace("heap", p, [p EXCEPT !.live[u] = @ - 1])
  /\ UNCHANGED <<machine, palloc, runs, uncached, lock, at, arg>>

-----------------------------------------------------------------------------
(* GlobalPage, the frames of page tables, and the queues of the VirtIO     *)
(* drivers: page runs that are taken and given back in one step each.      *)
TakeRun(n, align) ==
  /\ Cardinality(runs) < MaxRuns
  /\ \E s \in alloc_pages(n, align) :
       /\ Take(Run(s, n))
       /\ runs' = runs \cup {[start |-> s, n |-> n, align |-> align, dma |-> FALSE]}

GlobalPage_alloc == TakeRun(1, 1)
alloc_contiguous == \E n, align \in {1, 2} : TakeRun(n, align)
alloc_frame == TakeRun(1, 1)
dma_alloc == \E n \in {1, 2} : TakeRun(n, 1)

PageAlloc(t) ==
  /\ at[t] = "idle"
  /\ GlobalPage_alloc \/ alloc_contiguous \/ alloc_frame \/ dma_alloc
  /\ UNCHANGED <<machine, pools, uncached, lock, at, arg>>

(* Drop of GlobalPage, dealloc_frame and dma_dealloc.                      *)
PageDrop(t) ==
  /\ at[t] = "idle"
  /\ \E r \in runs :
       /\ ~ r.dma
       /\ palloc' = palloc \cup Run(r.start, r.n)
       /\ runs' = runs \ {r}
  /\ UNCHANGED <<machine, pools, uncached, lock, at, arg>>

-----------------------------------------------------------------------------
(* axdma.  ALLOCATOR is locked for the whole call.  Fewer units than a     *)
(* page come from its byte allocator.                                      *)
alloc_coherent(t) ==
  /\ at[t] = "idle" /\ Acquire("dma", t)
  /\ \/ /\ Objects("dma") < MaxObjects
        /\ \E u \in {v \in Sizes : v < UNITS} : Goto(t, "dma_try", <<u, FALSE>>)
     \/ Cardinality(runs) < MaxRuns /\ \E n, align \in {1, 2} : Goto(t, "dma_pages", <<n, align>>)
  /\ UNCHANGED <<machine, palloc, pools, runs, uncached>>

(* alloc_coherent_bytes; arg holds is_expanded.  How many pages are free   *)
(* is read here, and they are asked for in a later step.                   *)
DmaTry(t) ==
  /\ at[t] = "dma_try"
  /\ \/ /\ \E p \in WithRoom("dma", arg[t][1]) :
             Replace("dma", p, [p EXCEPT !.live[arg[t][1]] = @ + 1])
        /\ Release("dma") /\ Done(t)
     \/ /\ WithRoom("dma", arg[t][1]) = {} /\ arg[t][2]
        /\ Release("dma") /\ Done(t) /\ UNCHANGED pools
     \/ /\ WithRoom("dma", arg[t][1]) = {} /\ ~ arg[t][2]
        /\ Goto(t, "dma_expand", <<arg[t][1], Min({DMA_EXPAND, Cardinality(palloc)})>>)
        /\ UNCHANGED <<pools, lock>>
  /\ UNCHANGED <<machine, palloc, runs, uncached>>

Failed(t) == Release("dma") /\ Done(t) /\ UNCHANGED palloc

DmaExpand(t) ==
  /\ at[t] = "dma_expand"
  /\ \/ \E s \in alloc_pages(arg[t][2], 1) :
          /\ Take(Run(s, arg[t][2]))
          /\ Goto(t, "dma_add", <<s, arg[t][2], arg[t][1]>>) /\ UNCHANGED lock
     \/ alloc_pages(arg[t][2], 1) = {} /\ Failed(t)
  /\ UNCHANGED <<machine, pools, runs, uncached>>

(* Faulty variant: the pages keep their mapping.                           *)
update_flagsNone(ps, flags) == UNCHANGED uncached

(* The kernel's mapping of the pages becomes UNCACHED, or cached again.    *)
update_flags(ps, flags) ==
  uncached' = IF flags = "UNCACHED" THEN uncached \cup ps ELSE uncached \ ps

DmaAdd(t) ==
  /\ at[t] = "dma_add"
  /\ update_flags(Run(arg[t][1], arg[t][2]), "UNCACHED")
  /\ pools' = [pools EXCEPT !["dma"] = @ \cup {Pool(arg[t][1], arg[t][2])}]
  /\ Goto(t, "dma_try", <<arg[t][3], TRUE>>)
  /\ UNCHANGED <<machine, palloc, runs, lock>>

alloc_coherent_pages(t) ==
  /\ at[t] = "dma_pages"
  /\ \/ \E s \in alloc_pages(arg[t][1], arg[t][2]) :
          /\ Take(Run(s, arg[t][1]))
          /\ Goto(t, "dma_flag", <<s, arg[t][1], arg[t][2]>>) /\ UNCHANGED lock
     \/ alloc_pages(arg[t][1], arg[t][2]) = {} /\ Failed(t)
  /\ UNCHANGED <<machine, pools, runs, uncached>>

DmaFlag(t) ==
  /\ at[t] = "dma_flag"
  /\ update_flags(Run(arg[t][1], arg[t][2]), "UNCACHED")
  /\ runs' = runs \cup {[start |-> arg[t][1], n |-> arg[t][2], align |-> arg[t][3], dma |-> TRUE]}
  /\ Release("dma") /\ Done(t)
  /\ UNCHANGED <<machine, palloc, pools>>

(* dealloc_coherent gives pages back first and maps them cached after.     *)
dealloc_coherent(t) ==
  /\ at[t] = "idle"
  /\ \/ \E r \in runs :
          /\ r.dma /\ Acquire("dma", t)
          /\ palloc' = palloc \cup Run(r.start, r.n)
          /\ runs' = runs \ {r}
          /\ Goto(t, "dma_reset", <<r.start, r.n>>) /\ UNCHANGED pools
     \/ \E p \in pools["dma"], u \in Sizes :
          /\ p.live[u] > 0 /\ lock["dma"] = Nobody
          /\ Replace("dma", p, [p EXCEPT !.live[u] = @ - 1])
          /\ UNCHANGED <<palloc, runs, lock, at, arg>>
  /\ UNCHANGED <<machine, uncached>>

DmaReset(t) ==
  /\ at[t] = "dma_reset"
  /\ update_flags(Run(arg[t][1], arg[t][2]), "CACHED")
  /\ Release("dma") /\ Done(t)
  /\ UNCHANGED <<machine, palloc, pools, runs>>

-----------------------------------------------------------------------------
AllocInit ==
  /\ machine \in Machines
  /\ palloc = {} /\ runs = {} /\ uncached = {}
  /\ pools = [a \in {"heap", "dma"} |-> {}]
  /\ lock = [a \in {"heap", "dma"} |-> Nobody]
  /\ at = [t \in Tasks |-> "boot"]
  /\ arg = [t \in Tasks |-> 0]

AllocNext ==
  \/ init_allocator
  \/ \E t \in Tasks :
       \/ AllocCall(t) \/ AllocFound(t) \/ AllocExpand(t) \/ Dealloc(t)
       \/ PageAlloc(t) \/ PageDrop(t)
       \/ alloc_coherent(t) \/ DmaTry(t) \/ DmaExpand(t) \/ DmaAdd(t)
       \/ alloc_coherent_pages(t) \/ DmaFlag(t) \/ dealloc_coherent(t) \/ DmaReset(t)

-----------------------------------------------------------------------------
Booted == \A t \in Tasks : at[t] # "boot"
FreePages == UNION {RegionPages(r) : r \in {q \in Range(memory_regions(machine)) : q.free}}

(* Pages a task has taken and not yet passed on.                           *)
InFlight(t) == IF at[t] \in {"dma_add", "dma_flag"} THEN Run(arg[t][1], arg[t][2]) ELSE {}

Uses == <<palloc, PoolPages("heap"), PoolPages("dma"), RunPages,
          UNION {InFlight(t) : t \in Tasks}>>

(* Every page of a free region is at every moment in exactly one place:    *)
(* free in the bitmap, part of the heap, part of the coherent heap, in a   *)
(* page run that is in use, or in the hands of a task that is expanding    *)
(* one of them.  Pages of other regions are in none.  This is about        *)
(* init_allocator, the expansion in alloc and alloc_coherent_bytes, and    *)
(* all early returns between taking pages and handing them over.           *)
Accounted ==
  Booted => /\ UNION Range(Uses) = FreePages
            /\ \A i, j \in DOMAIN Uses : i # j => Uses[i] \cap Uses[j] = {}
            /\ \A r, q \in runs : r # q => Run(r.start, r.n) \cap Run(q.start, q.n) = {}

(* Coherent memory that is in use is uncached, and when no call of axdma   *)
(* is under way nothing else is: pages that were given back are cached     *)
(* again whoever has them by then.                                         *)
Coherent ==
  /\ PoolPages("dma") \cup UNION {Run(r.start, r.n) : r \in {q \in runs : q.dma}} \subseteq uncached
  /\ lock["dma"] = Nobody =>
       uncached = PoolPages("dma") \cup UNION {Run(r.start, r.n) : r \in {q \in runs : q.dma}}

(* A page run starts at a multiple of the alignment it was asked for with, *)
(* as the comment of GlobalAllocator::alloc_pages says.                    *)
Aligned == \A r \in runs : r.start % r.align = 0
=============================================================================
