------------------------------ MODULE PageMap ------------------------------
(***************************************************************************)
(* What an address space promises, page by page: which pages a thread may  *)
(* use, and with which permission.  There are no areas, no page tables and *)
(* no frames here.  A step of mmap, munmap, mprotect, execve, clone or     *)
(* exit changes the pages it names and nothing else.                       *)
(***************************************************************************)
EXTENDS Naturals

CONSTANTS Threads, Spaces, NPages, Prots, NoSpace, NoPerm,
          Images   \* what execve may leave in an address space

VARIABLES space,   \* space[t]: the address space of thread t, or NoSpace
          perm     \* perm[s]: the permission of each page, or NoPerm

Pages == 1..NPages
Ranges == UNION {{lo..hi : hi \in lo..NPages} : lo \in Pages}

vars == <<space, perm>>

Set(s, R, f) == perm' = [perm EXCEPT ![s] = [p \in Pages |-> IF p \in R THEN f ELSE @[p]]]

Init ==
  /\ space \in [Threads -> Spaces \cup {NoSpace}]
  /\ perm \in [Spaces -> [Pages -> Prots \cup {NoPerm}]]

(* Using memory: page faults and checks of pointers change nothing here.   *)
Use == UNCHANGED vars

(* mmap with MAP_FIXED or without, and mprotect: one permission for the    *)
(* pages of a range.                                                       *)
Map(s) == \E R \in Ranges, f \in Prots : UNCHANGED space /\ Set(s, R, f)

Unmap(s) == \E R \in Ranges : UNCHANGED space /\ Set(s, R, NoPerm)

(* execve replaces everything by the program's image.                      *)
Replace(s) ==
  /\ UNCHANGED space
  /\ \E image \in Images : perm' = [perm EXCEPT ![s] = image]

(* clone shares the caller's address space or copies it to an unused one.  *)
Share(t, u) == space' = [space EXCEPT ![u] = space[t]] /\ UNCHANGED perm

Copy(t, u, s) ==
  /\ \A v \in Threads : space[v] # s
  /\ space' = [space EXCEPT ![u] = s]
  /\ perm' = [perm EXCEPT ![s] = perm[space[t]]]

(* A process leaves its address space; the last one takes the pages away.  *)
Leave(T) ==
  \E s \in Spaces :
    /\ \A t \in T : space[t] = s
    /\ space' = [t \in Threads |-> IF t \in T THEN NoSpace ELSE space[t]]
    /\ IF \E u \in Threads \ T : space[u] = s THEN UNCHANGED perm
       ELSE perm' = [perm EXCEPT ![s] = [p \in Pages |-> NoPerm]]

Next ==
  \/ Use
  \/ \E t, u \in Threads :
       /\ space[t] # NoSpace
       /\ space[u] = NoSpace
       /\ Share(t, u) \/ \E s \in Spaces : Copy(t, u, s)
  \/ \E T \in SUBSET Threads : T # {} /\ Leave(T)
  \/ \E s \in {space[t] : t \in Threads} \ {NoSpace} :
       Map(s) \/ Unmap(s) \/ Replace(s)

Spec == Init /\ [][Next]_vars
=============================================================================
