----------------------------- MODULE ByteQueue -----------------------------
(***************************************************************************)
(* What a pipe promises its users: a bounded queue of bytes.  Bytes come   *)
(* out in the order in which they went in, none twice and none left out.   *)
(* A read ends with "eof" only when the write end is gone and everything   *)
(* has been read.                                                          *)
(***************************************************************************)
EXTENDS Naturals, Sequences

CONSTANTS Capacity, Bytes

VARIABLES q,       \* the bytes in the pipe
          closed,  \* the write end is gone
          got      \* what the last read returned

(* The result of a read.                                                   *)
Read(s, e) == [bytes |-> s, eof |-> e]

Init == q = <<>> /\ closed = TRUE /\ got = Read(<<>>, FALSE)

(* Some bytes are appended.                                                *)
Put == /\ ~closed
       /\ \E n \in 1..Capacity - Len(q) : \E s \in [1..n -> Bytes] : q' = q \o s
       /\ UNCHANGED <<closed, got>>

(* The first bytes are taken, as many as were asked for.                   *)
Get == /\ q # <<>>
       /\ \E n \in 0..Len(q) : got' = Read(SubSeq(q, 1, n), FALSE) /\ q' = SubSeq(q, n + 1, Len(q))
       /\ UNCHANGED closed

Eof == closed /\ q = <<>> /\ got' = Read(<<>>, TRUE) /\ UNCHANGED <<q, closed>>

Close == closed' = TRUE /\ UNCHANGED <<q, got>>

(* The last bytes are put and the write end goes in the same step.         *)
PutClose == /\ ~closed
            /\ \E n \in 1..Capacity - Len(q) : \E s \in [1..n -> Bytes] : q' = q \o s
            /\ closed' = TRUE
            /\ UNCHANGED got

(* A new pipe; nobody can read the old one any more.                       *)
New == q' = <<>> /\ closed' = FALSE /\ got' = Read(<<>>, FALSE)

Next == Put \/ Get \/ Eof \/ Close \/ PutClose \/ New

Spec == Init /\ [][Next]_<<q, closed, got>>
=============================================================================
