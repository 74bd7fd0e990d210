------------------------------ MODULE FlatDisk ------------------------------
(***************************************************************************)
(* What the file systems expect of the disk (Read, Write and Seek for Disk *)
(* in axfs/src/fs): bytes in a row and a position.  A transfer goes on     *)
(* from the position in pieces of any size, and may end with an error      *)
(* after some of them.                                                     *)
(***************************************************************************)
EXTENDS Naturals, Sequences

CONSTANTS Size, Buffers, Reads

VARIABLES mem,   \* the bytes, from 0
          pos,   \* the position
          op,    \* "idle", "read" or "write"
          rest,  \* write: bytes still to write; read: as many still to read
          done   \* read: what was read so far

flatVars == <<mem, pos, op, rest, done>>

Init == /\ mem \in [0..Size - 1 -> {0}]
        /\ pos = 0 /\ op = "idle" /\ rest = <<>> /\ done = <<>>

Seek == /\ op = "idle" /\ pos' \in 0..Size
        /\ UNCHANGED <<mem, op, rest, done>>

Begin == /\ op = "idle" /\ done' = <<>>
         /\ \/ op' = "write" /\ rest' \in Buffers
            \/ op' = "read" /\ \E n \in Reads : rest' = [i \in 1..n |-> 0]
         /\ UNCHANGED <<mem, pos>>

Some(n) == /\ pos + n <= Size
           /\ pos' = pos + n
           /\ rest' = SubSeq(rest, n + 1, Len(rest))
           /\ UNCHANGED op

WriteSome == /\ op = "write"
             /\ \E n \in 1..Len(rest) :
                  /\ Some(n)
                  /\ mem' = [a \in 0..Size - 1 |->
                               IF a \in pos..pos + n - 1 THEN rest[a - pos + 1] ELSE mem[a]]
             /\ UNCHANGED done

ReadSome == /\ op = "read"
            /\ \E n \in 1..Len(rest) :
                 /\ Some(n)
                 /\ done' = done \o [i \in 1..n |-> mem[pos + i - 1]]
            /\ UNCHANGED mem

(* The end, or an error.                                                   *)
End == /\ op # "idle" /\ op' = "idle" /\ rest' = <<>>
       /\ rest = <<>> \/ done' = <<>>
       /\ rest = <<>> => done' = done
       /\ UNCHANGED <<mem, pos>>

Next == Seek \/ Begin \/ WriteSome \/ ReadSome \/ End
Spec == Init /\ [][Next]_flatVars
=============================================================================
