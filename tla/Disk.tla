-------------------------------- MODULE Disk --------------------------------
(***************************************************************************)
(* The disk with a cursor (axfs/src/dev.rs) as FAT and ext4 use it: a      *)
(* block device can only be read and written by whole blocks, so part of a *)
(* block is written by reading it, changing the part and writing it back.  *)
(* The device may report an error at any access, and does behind its end.  *)
(***************************************************************************)
EXTENDS Integers, Sequences, FiniteSets, FiniteSetsExt

CONSTANTS BLOCK_SIZE, NumBlocks,
          Buffers, Reads  \* buffers written, and lengths read

VARIABLES dev,               \* dev[b]: the bytes of block b, from 0
          block_id, offset,  \* the cursor
          op, rest, done     \* the transfer that is going on

diskVars == <<dev, block_id, offset, op, rest, done>>

disk_new ==
  /\ dev = [b \in 0..NumBlocks - 1 |-> [i \in 0..BLOCK_SIZE - 1 |-> 0]]
  /\ block_id = 0 /\ offset = 0
  /\ op = "idle" /\ rest = <<>> /\ done = <<>>

size == NumBlocks * BLOCK_SIZE
position == block_id * BLOCK_SIZE + offset

set_position(p) == block_id' = p \div BLOCK_SIZE /\ offset' = p % BLOCK_SIZE

(* Seek: from the start, the cursor or the end, not below 0.  A position   *)
(* behind the end is allowed; the model goes up to the end.                *)
seek ==
  /\ op = "idle"
  /\ \E base \in {0, position, size}, off \in -size..size :
       base + off \in 0..size /\ set_position(base + off)
  /\ UNCHANGED <<dev, op, rest, done>>

Transfer ==
  /\ op = "idle" /\ done' = <<>>
  /\ \/ op' = "write" /\ rest' \in Buffers
     \/ op' = "read" /\ \E n \in Reads : rest' = [i \in 1..n |-> 0]
  /\ UNCHANGED <<dev, block_id, offset>>

(* How much one turn of the loop moves, and where the cursor is then.      *)
Whole == offset = 0 /\ Len(rest) >= BLOCK_SIZE
Count == IF Whole THEN BLOCK_SIZE ELSE Min({Len(rest), BLOCK_SIZE - offset})

(* Faulty variant: the cursor stays in the block that was filled.          *)
AdvanceStays ==
  /\ IF Whole THEN block_id' = block_id + 1 /\ UNCHANGED offset
     ELSE offset' = (offset + Count) % BLOCK_SIZE /\ UNCHANGED block_id
  /\ rest' = SubSeq(rest, Count + 1, Len(rest))

Advance ==
  /\ IF Whole THEN block_id' = block_id + 1 /\ UNCHANGED offset
     ELSE IF offset + Count >= BLOCK_SIZE
       THEN block_id' = block_id + 1 /\ offset' = offset + Count - BLOCK_SIZE
     ELSE offset' = offset + Count /\ UNCHANGED block_id
  /\ rest' = SubSeq(rest, Count + 1, Len(rest))

read_one ==
  /\ op = "read" /\ rest # <<>> /\ block_id < NumBlocks
  /\ done' = done \o [i \in 1..Count |-> dev[block_id][offset + i - 1]]
  /\ Advance
  /\ UNCHANGED <<dev, op>>

write_one ==
  /\ op = "write" /\ rest # <<>> /\ block_id < NumBlocks
  /\ dev' = [dev EXCEPT ![block_id] =
               [i \in 0..BLOCK_SIZE - 1 |->
                  IF i \in offset..offset + Count - 1 THEN rest[i - offset + 1] ELSE @[i]]]
  /\ Advance
  /\ UNCHANGED <<op, done>>

(* The device reports an error: the loop ends, what was moved stays moved. *)
DevError ==
  /\ op # "idle" /\ rest # <<>>
  /\ op' = "idle" /\ rest' = <<>> /\ done' = <<>>
  /\ UNCHANGED <<dev, block_id, offset>>

(* The buffer is empty.                                                    *)
Finish ==
  /\ op # "idle" /\ rest = <<>>
  /\ op' = "idle"
  /\ UNCHANGED <<dev, block_id, offset, rest, done>>

DiskNext == seek \/ Transfer \/ read_one \/ write_one \/ DevError \/ Finish

DiskSpec == disk_new /\ [][DiskNext]_diskVars

Flat == INSTANCE FlatDisk WITH
          Size <- size, pos <- position,
          mem <- [a \in 0..size - 1 |-> dev[a \div BLOCK_SIZE][a % BLOCK_SIZE]]

(* The disk with its cursor over blocks is a row of bytes with a position: *)
(* no read or write touches a byte outside its range, also when it begins  *)
(* or ends within a block, and an error leaves a prefix written.           *)
FlatDiskSpec == Flat!Spec
=============================================================================
