------------------------------- MODULE Paths -------------------------------
(***************************************************************************)
(* Path names as the kernel treats them: axfs_vfs::path, axfs/src/root.rs  *)
(* and arceos_posix_api/src/imp/path_link.rs.                              *)
(*                                                                         *)
(* A path is a record: whether it begins with '/', its components, and     *)
(* whether it ends with '/'.  Text is put together in two places where the *)
(* code relies on a '/' being there; Glue[m, n] is the name that comes out *)
(* when it is not, and says which names begin with which.                  *)
(***************************************************************************)
EXTENDS Naturals, Sequences, SequencesExt

CONSTANTS Names,   \* names of directory entries
          Glue,    \* [set of pairs of names -> Names]
          Mounts   \* [names -> file systems]: mount points, directly under /

ASSUME PathsAssumption ==
  /\ \A x \in DOMAIN Glue : x \in Names \X Names /\ Glue[x] \in Names
  /\ DOMAIN Mounts \subseteq Names

Path(a, c, s) == [abs |-> a, comps |-> c, slash |-> s]
Root == Path(TRUE, <<>>, TRUE)
Empty == Path(FALSE, <<>>, FALSE)

(* The string ends with '.'.                                               *)
EndsWithDot(p) == ~p.slash /\ p.comps # <<>> /\ Last(p.comps) \in {".", ".."}

(* axfs_vfs::path::canonicalize: "." goes, ".." takes the last one away.   *)
canonicalize(p) ==
  LET c == FoldLeft(LAMBDA acc, n : CASE n = "." -> acc
                                      [] n = ".." -> IF acc = <<>> THEN acc ELSE Front(acc)
                                      [] OTHER -> Append(acc, n),
                    <<>>, p.comps)
  IN  Path(p.abs, c, p.abs /\ c = <<>>)

(* The strings p and q one after the other; q does not begin with '/'.     *)
Concat(p, q) ==
  IF p.slash \/ p.comps = <<>> THEN Path(p.abs, p.comps \o q.comps, q.slash)
  ELSE Path(p.abs, Front(p.comps) \o <<Glue[<<Last(p.comps), Head(q.comps)>>]>>
                     \o Tail(q.comps), q.slash)

(* absolute_path: relative to the string in CURRENT_DIR_PATH.              *)
absolute_path(p, cwd) == canonicalize(IF p.abs THEN p ELSE Concat(cwd, p))

(* FilePath::new, before the links are looked up: a '/' at the end stays.  *)
Normal(p, cwd) ==
  LET c == absolute_path(p, cwd) IN Path(TRUE, c.comps, c.slash \/ p.slash)

(* FilePath::starts_with compares strings.                                 *)
StartsWith(n, m) == n = m \/ \E s \in Names : <<m, s>> \in DOMAIN Glue /\ Glue[<<m, s>>] = n

(* adjust_path_suffix.                                                     *)
adjust_path_suffix(p, force_dir) ==
  [p EXCEPT !.slash = @ \/ force_dir \/ EndsWithDot(p)]

-----------------------------------------------------------------------------
Main == "main"

(* "./" at the front is dropped, again and again.                          *)
TrimDots(c) ==
  LET n == CHOOSE i \in 0..Len(c) : /\ \A j \in 1..i : c[j] = "."
                                    /\ i = Len(c) \/ c[i + 1] # "."
  IN  IF n = Len(c) /\ n > 0 THEN <<".">> ELSE SubSeq(c, n + 1, Len(c))

(* lookup_mounted_fs: the mount point with the longest string that the     *)
(* path begins with, and the rest of the path.  What follows the mount     *)
(* point need not be a '/'.                                                *)
Hits(d) == {m \in DOMAIN Mounts : d # <<>> /\ StartsWith(d[1], m)}
Rest(d, m) ==
  IF d[1] = m THEN Tail(d)
  ELSE <<CHOOSE s \in Names : <<m, s>> \in DOMAIN Glue /\ Glue[<<m, s>>] = d[1]>> \o Tail(d)
Served(d, hit) ==
  IF hit = {} THEN [v |-> Main, comps |-> d]
  ELSE LET m == CHOOSE m \in hit : \A k \in hit : StartsWith(m, k)
       IN  [v |-> Mounts[m], comps |-> Rest(d, m)]
lookup_mounted_fs(c) == Served(TrimDots(c), Hits(TrimDots(c)))
=============================================================================
