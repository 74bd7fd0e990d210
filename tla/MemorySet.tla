----------------------------- MODULE MemorySet -----------------------------
(***************************************************************************)
(* The algorithms of vendor/memory_set on the areas of an address space.   *)
(*                                                                         *)
(* An area is a record [start, end, flags, populate]: it maps the pages    *)
(* start..end - 1, and populate says whether its backend allocates frames  *)
(* at once or on demand.  A memory set, a BTreeMap from start addresses to *)
(* areas, is the set of its areas.  Where the code looks at neighbours in  *)
(* the map only, so do these definitions.                                  *)
(***************************************************************************)
EXTENDS Integers, FiniteSetsExt

PagesOf(a) == a.start..a.end - 1

(* The pages that belong to some area.                                     *)
Covered(areas) == UNION {PagesOf(a) : a \in areas}

(* range(..x).last(), range(..=x).last() and range(x..).next(): a set of   *)
(* at most one area.                                                       *)
LastBefore(areas, x) ==
  {a \in areas : a.start < x /\ \A b \in areas : b.start < x => b.start <= a.start}

LastUpTo(areas, x) == LastBefore(areas, x + 1)

FirstFrom(areas, x) ==
  {a \in areas : a.start >= x /\ \A b \in areas : b.start >= x => a.start <= b.start}

overlaps(areas, lo, hi) ==
  \E a \in LastBefore(areas, lo) \cup FirstFrom(areas, lo) : a.start < hi /\ lo < a.end

find(areas, x) == {a \in LastUpTo(areas, x) : x < a.end}

(* find_free_area: the hint or the end of the area it is in, then the end  *)
(* of each later area, is tried as the start.  The result is a set of at   *)
(* most one address.                                                       *)
find_free_area(areas, hint, size, base, limit) ==
  LET low == Max({hint, base})
      first == Max({low} \cup {a.end : a \in LastBefore(areas, low)})
      later == {a \in areas : a.start >= first}
      next(x) == Min({limit} \cup {a.start : a \in {b \in later : b.start >= x}})
      fits == {x \in {first} \cup {a.end : a \in later} : x + size <= next(x)}
  IN {x \in fits : \A y \in fits : x <= y}

(* map: the part that concerns the areas; AddrSpace adds the page table.   *)
insert(areas, a) == {b \in areas : b.start # a.start} \cup {a}

(* Faulty variant: an area cut in the middle keeps only its left part.     *)
unmapNoSplit(areas, lo, hi) ==
  LET kept == {a \in areas : ~(lo <= a.start /\ a.end <= hi)}
      cut == {a \in LastBefore(kept, lo) : lo < a.end}
      left == (kept \ cut) \cup {[a EXCEPT !.end = lo] : a \in cut}
      after == {a \in FirstFrom(left, lo) : a.start < hi}
  IN (left \ after) \cup {[a EXCEPT !.start = hi] : a \in after}

(* unmap: remove the areas inside the range, then shrink or split the one  *)
(* that reaches into it from the left, then shrink the one on the right.   *)
unmap(areas, lo, hi) ==
  LET kept == {a \in areas : ~(lo <= a.start /\ a.end <= hi)}
      cut == {a \in LastBefore(kept, lo) : lo < a.end}
      left == (kept \ cut)
                \cup {[a EXCEPT !.end = lo] : a \in cut}
                \cup {[a EXCEPT !.start = hi] : a \in {b \in cut : hi < b.end}}
      after == {a \in FirstFrom(left, lo) : a.start < hi}
  IN IF lo = hi THEN areas
     ELSE (left \ after) \cup {[a EXCEPT !.start = hi] : a \in after}

(* protect: each area that meets the range is split at the range's ends    *)
(* and the part inside gets the flags.  The parts are inserted after the   *)
(* loop, in the order right, middle; a later one replaces an earlier one   *)
(* that starts at the same address.                                        *)
protect(areas, lo, hi, flags) ==
  LET hit == {a \in areas : a.start < hi /\ lo < a.end}
      parts(a) ==
        LET left == IF a.start < lo THEN {[a EXCEPT !.end = lo]} ELSE {}
            right == IF hi < a.end THEN {[a EXCEPT !.start = hi]} ELSE {}
            middle == [a EXCEPT !.start = Max({lo, a.start}), !.end = Min({hi, a.end}),
                                !.flags = flags]
        IN insert(left \cup right, middle)
  IN (areas \ hit) \cup UNION {parts(a) : a \in hit}

(* The part of a memory region, from lo on, that is mapped without a gap.  *)
MappedPrefix(areas, lo, hi) ==
  {p \in lo..hi - 1 : \A q \in lo..p : \E a \in areas : q \in PagesOf(a)}
=============================================================================
