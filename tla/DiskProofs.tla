----------------------------- MODULE DiskProofs -----------------------------
(***************************************************************************)
(* Proof that the disk with a cursor over whole blocks (Disk) is a row of  *)
(* bytes with a position (FlatDisk), for any size and number of blocks,    *)
(* any buffers and any lengths: what was moved and where the position is   *)
(* agree after every turn of the loop, and after an error.                 *)
(*                                                                         *)
(* V is the set of values a byte has; the device starts with zeros.        *)
(***************************************************************************)
EXTENDS Disk, TLAPS

Blocks == 0..NumBlocks - 1
Offsets == 0..BLOCK_SIZE - 1

(* The cursor is within a block, and the device has whole blocks.          *)
DiskInv(V) ==
  /\ dev \in [Blocks -> [Offsets -> V]]
  /\ block_id \in Nat /\ offset \in Offsets
  /\ op \in {"idle", "read", "write"}
  /\ rest \in Seq(V) /\ done \in Seq(V)

(* What is known of the constants.                                         *)
Sizes(V) ==
  /\ BLOCK_SIZE \in Nat \ {0} /\ NumBlocks \in Nat
  /\ 0 \in V /\ Buffers \subseteq Seq(V) /\ Reads \subseteq Nat

(* The byte at address a, where Flat has it.                               *)
Byte(a) == dev[a \div BLOCK_SIZE][a % BLOCK_SIZE]
Mem == [a \in 0..size - 1 |-> Byte(a)]

-----------------------------------------------------------------------------
(* The quotient and the remainder are the block and the offset.            *)
LEMMA DivMod ==
  ASSUME NEW B \in Nat \ {0}, NEW q \in Nat, NEW r \in 0..B - 1
  PROVE  /\ q * B + r \in Nat
         /\ (q * B + r) \div B = q /\ (q * B + r) % B = r
  <1> DEFINE a == q * B + r
  <1>1. a \in Nat
    OBVIOUS
  <1> HIDE DEF a
  <1> DEFINE p == a \div B
  <1> DEFINE s == a % B
  <1>2. p \in Nat /\ s \in 0..B - 1 /\ a = (p * B) + s
    BY <1>1
  <1> HIDE DEF p, s
  <1>3. q * B + r = p * B + s
    BY <1>2 DEF a
  <1>4. q <= p /\ p <= q
    BY <1>2, <1>3
  <1>5. q = p /\ r = s
    BY <1>2, <1>3, <1>4
  <1> QED
    BY <1>1, <1>5 DEF a, p, s

(* Every address is that of one byte of one block.                         *)
LEMMA Address ==
  ASSUME NEW B \in Nat \ {0}, NEW N \in Nat, NEW a \in 0..(N * B) - 1
  PROVE  /\ a \div B \in 0..N - 1 /\ a % B \in 0..B - 1
         /\ a = ((a \div B) * B) + (a % B)
  <1> DEFINE p == a \div B
  <1> DEFINE s == a % B
  <1>1. p \in Nat /\ s \in 0..B - 1 /\ a = (p * B) + s
    OBVIOUS
  <1> HIDE DEF p, s
  <1>2. p < N
    BY <1>1
  <1> QED
    BY <1>1, <1>2 DEF p, s

LEMMA MinPair ==
  ASSUME NEW x \in Nat, NEW y \in Nat
  PROVE  Min({x, y}) = IF x <= y THEN x ELSE y
  <1> DEFINE m == IF x <= y THEN x ELSE y
  <1>1. m \in {x, y} /\ \A z \in {x, y} : m <= z
    OBVIOUS
  <1>2. \A w \in {x, y} : (\A z \in {x, y} : w <= z) => w = m
    OBVIOUS
  <1> HIDE DEF m
  <1>3. Min({x, y}) = m
    BY <1>1, <1>2 DEF Min
  <1> QED
    BY <1>3 DEF m

(* One turn moves at least one byte, no more than are left, and ends in    *)
(* the block in which it began.                                            *)
LEMMA CountFacts ==
  ASSUME NEW V, Sizes(V), DiskInv(V), rest # <<>>
  PROVE  Count \in 1..Len(rest) /\ offset + Count <= BLOCK_SIZE
  <1>1. Len(rest) \in Nat /\ Len(rest) # 0 /\ offset \in 0..BLOCK_SIZE - 1
        /\ BLOCK_SIZE \in Nat \ {0}
    BY DEF DiskInv, Offsets, Sizes
  <1>2. Min({Len(rest), BLOCK_SIZE - offset})
          = IF Len(rest) <= BLOCK_SIZE - offset THEN Len(rest) ELSE BLOCK_SIZE - offset
    BY <1>1, MinPair
  <1> QED
    BY <1>1, <1>2 DEF Count, Whole

(* The position goes up by what was moved, and stays on the disk.          *)
LEMMA AdvanceFacts ==
  ASSUME NEW V, Sizes(V), DiskInv(V), rest # <<>>, block_id < NumBlocks, Advance
  PROVE  /\ block_id' \in Nat /\ offset' \in Offsets /\ rest' \in Seq(V)
         /\ position' = position + Count /\ position + Count <= size
         /\ rest' = SubSeq(rest, Count + 1, Len(rest))
  <1>1. /\ Count \in 1..Len(rest) /\ offset + Count <= BLOCK_SIZE
        /\ block_id \in Nat /\ offset \in 0..BLOCK_SIZE - 1 /\ rest \in Seq(V)
        /\ BLOCK_SIZE \in Nat \ {0} /\ NumBlocks \in Nat
    BY CountFacts DEF DiskInv, Offsets, Sizes
  <1>2. /\ block_id' \in Nat /\ offset' \in 0..BLOCK_SIZE - 1
        /\ block_id' * BLOCK_SIZE + offset' = block_id * BLOCK_SIZE + offset + Count
    <2>1. (block_id + 1) * BLOCK_SIZE = block_id * BLOCK_SIZE + BLOCK_SIZE
      BY <1>1
    <2>2. CASE Whole
      <3>1. Count = BLOCK_SIZE /\ block_id' = block_id + 1 /\ offset' = offset
        BY <2>2 DEF Count, Advance
      <3> QED
        BY <1>1, <2>1, <3>1
    <2>3. CASE ~Whole /\ offset + Count >= BLOCK_SIZE
      <3>1. block_id' = block_id + 1 /\ offset' = offset + Count - BLOCK_SIZE
        BY <2>3 DEF Advance
      <3> QED
        BY <1>1, <2>1, <2>3, <3>1
    <2>4. CASE ~Whole /\ ~(offset + Count >= BLOCK_SIZE)
      <3>1. block_id' = block_id /\ offset' = offset + Count
        BY <2>4 DEF Advance
      <3> QED
        BY <1>1, <2>4, <3>1
    <2> QED
      BY <2>2, <2>3, <2>4
  <1>3. block_id * BLOCK_SIZE + BLOCK_SIZE <= NumBlocks * BLOCK_SIZE
    BY <1>1
  <1>4. position + Count <= size
    BY <1>1, <1>3 DEF position, size
  <1>5. rest' = SubSeq(rest, Count + 1, Len(rest)) /\ rest' \in Seq(V)
    BY <1>1 DEF Advance
  <1> QED
    BY <1>2, <1>4, <1>5 DEF position, Offsets

(* The bytes one turn moves are those behind the position.                 *)
LEMMA WithinBlock ==
  ASSUME NEW V, Sizes(V), DiskInv(V), NEW i \in Nat, offset + i < BLOCK_SIZE
  PROVE  (position + i) \div BLOCK_SIZE = block_id /\ (position + i) % BLOCK_SIZE = offset + i
  <1>1. /\ block_id \in Nat /\ offset \in 0..BLOCK_SIZE - 1 /\ BLOCK_SIZE \in Nat \ {0}
        /\ offset + i \in 0..BLOCK_SIZE - 1
    BY DEF DiskInv, Offsets, Sizes
  <1> DEFINE k == offset + i
  <1>2. position + i = block_id * BLOCK_SIZE + k
    BY <1>1 DEF position
  <1>3. k \in 0..BLOCK_SIZE - 1
    BY <1>1
  <1> HIDE DEF k
  <1>4. (block_id * BLOCK_SIZE + k) \div BLOCK_SIZE = block_id
        /\ (block_id * BLOCK_SIZE + k) % BLOCK_SIZE = k
    BY <1>1, <1>3, DivMod
  <1> QED
    BY <1>2, <1>4 DEF k

-----------------------------------------------------------------------------
(* The disk starts with zeros and the cursor at 0.                         *)
LEMMA InitDiskInv ==
  ASSUME NEW V, Sizes(V), disk_new
  PROVE  DiskInv(V) /\ Flat!Init
  <1>1. DiskInv(V)
    BY DEF disk_new, DiskInv, Sizes, Blocks, Offsets
  <1>2. ASSUME NEW a \in 0..size - 1 PROVE Byte(a) = 0
    BY Address, Zenon DEF disk_new, size, Byte, Sizes
  <1>3. Mem \in [0..size - 1 -> {0}]
    BY <1>2 DEF Mem
  <1>4. position = 0
    BY DEF disk_new, position, Sizes
  <1> QED
    BY <1>1, <1>3, <1>4, Zenon DEF Flat!Init, disk_new, Mem, Byte

(* Seek goes to a position on the disk.                                    *)
LEMMA SeekStep ==
  ASSUME NEW V, Sizes(V), DiskInv(V), seek
  PROVE  DiskInv(V)' /\ Flat!Seek
  <1>1. PICK p \in 0..size : set_position(p)
    <2>1. PICK base \in {0, position, size}, off \in -size..size :
            base + off \in 0..size /\ set_position(base + off)
      BY DEF seek
    <2> QED
      BY <2>1
  <1>2. size \in Nat /\ BLOCK_SIZE \in Nat \ {0}
    BY DEF Sizes, size
  <1>3. block_id' \in Nat /\ offset' \in Offsets /\ (block_id' * BLOCK_SIZE) + offset' = p
    BY <1>1, <1>2 DEF set_position, Offsets
  <1>4. DiskInv(V)'
    BY <1>3 DEF DiskInv, seek
  <1> QED
    BY <1>3, <1>4 DEF Flat!Seek, seek, position

(* A transfer begins.                                                      *)
LEMMA TransferStep ==
  ASSUME NEW V, Sizes(V), DiskInv(V), Transfer
  PROVE  DiskInv(V)' /\ Flat!Begin
  <1>1. rest' \in Seq(V)
    <2>1. ASSUME NEW k \in Reads, rest' = [i \in 1..k |-> 0] PROVE rest' \in Seq(V)
      <3>1. k \in Nat /\ 0 \in V
        BY DEF Sizes
      <3> QED
        BY <2>1, <3>1
    <2> QED
      BY <2>1 DEF Transfer, Sizes
  <1>2. DiskInv(V)'
    BY <1>1 DEF DiskInv, Transfer
  <1>3. position' = position
    BY DEF Transfer, position
  <1> QED
    BY <1>2, <1>3 DEF Flat!Begin, Transfer

(* One turn of the read loop reads the bytes behind the position.          *)
LEMMA ReadStep ==
  ASSUME NEW V, Sizes(V), DiskInv(V), read_one
  PROVE  DiskInv(V)' /\ Flat!ReadSome
  <1>1. /\ op = "read" /\ rest # <<>> /\ block_id < NumBlocks /\ Advance
        /\ done' = done \o [i \in 1..Count |-> dev[block_id][offset + i - 1]]
        /\ UNCHANGED <<dev, op>>
    BY DEF read_one
  <1>2. Count \in 1..Len(rest) /\ offset + Count <= BLOCK_SIZE
    BY <1>1, CountFacts
  <1>3. /\ block_id' \in Nat /\ offset' \in Offsets /\ rest' \in Seq(V)
        /\ position' = position + Count /\ position + Count <= size
        /\ rest' = SubSeq(rest, Count + 1, Len(rest))
    BY <1>1, AdvanceFacts
  <1>4. /\ block_id \in Blocks /\ offset \in 0..BLOCK_SIZE - 1 /\ position \in Nat /\ size \in Nat
        /\ Count \in Nat /\ BLOCK_SIZE \in Nat \ {0} /\ rest \in Seq(V)
    <2>1. block_id \in Nat /\ offset \in 0..BLOCK_SIZE - 1 /\ NumBlocks \in Nat
          /\ BLOCK_SIZE \in Nat \ {0} /\ rest \in Seq(V)
      BY DEF DiskInv, Offsets, Sizes
    <2>2. block_id * BLOCK_SIZE \in Nat /\ NumBlocks * BLOCK_SIZE \in Nat
      BY <2>1
    <2>3. position \in Nat /\ size \in Nat
      BY <2>1, <2>2 DEF position, size
    <2> QED
      BY <1>1, <1>2, <2>1, <2>3 DEF Blocks
  <1>5. ASSUME NEW i \in 1..Count
        PROVE  /\ dev[block_id][offset + i - 1] = Mem[position + i - 1]
               /\ dev[block_id][offset + i - 1] \in V
    <2>1. i - 1 \in Nat /\ offset + (i - 1) < BLOCK_SIZE /\ offset + (i - 1) = offset + i - 1
          /\ position + (i - 1) \in 0..size - 1 /\ position + (i - 1) = position + i - 1
          /\ offset + (i - 1) \in Offsets
      BY <1>2, <1>3, <1>4 DEF Offsets
    <2>2. (position + (i - 1)) \div BLOCK_SIZE = block_id
          /\ (position + (i - 1)) % BLOCK_SIZE = offset + (i - 1)
      BY <2>1, WithinBlock
    <2> QED
      BY <1>4, <2>1, <2>2 DEF Mem, Byte, DiskInv
  <1>6. [i \in 1..Count |-> dev[block_id][offset + i - 1]] = [i \in 1..Count |-> Mem[position + i - 1]]
    BY <1>5
  <1>7. done' \in Seq(V)
    <2> DEFINE piece == [i \in 1..Count |-> dev[block_id][offset + i - 1]]
    <2>0. piece \in [1..Count -> V]
      BY <1>5
    <2> HIDE DEF piece
    <2>1. piece \in Seq(V)
      BY <1>4, <2>0
    <2>2. done' = done \o piece
      BY <1>1 DEF piece
    <2> QED
      BY <2>1, <2>2 DEF DiskInv
  <1>8. DiskInv(V)'
    BY <1>1, <1>3, <1>7, SMTT(40) DEF DiskInv
  <1>9. Flat!Some(Count)
    BY <1>1, <1>3 DEF Flat!Some
  <1>10. done' = done \o [i \in 1..Count |-> Mem[position + i - 1]] /\ Mem' = Mem
    BY <1>1, <1>6, Zenon DEF Mem, Byte
  <1>11. Flat!ReadSome
    BY <1>1, <1>2, <1>9, <1>10, Zenon DEF Flat!ReadSome, Mem, Byte
  <1> QED
    BY <1>8, <1>11

(* One turn of the write loop reads a block, changes the bytes behind the  *)
(* position and writes it back: no other byte changes.                     *)
LEMMA WriteStep ==
  ASSUME NEW V, Sizes(V), DiskInv(V), write_one
  PROVE  DiskInv(V)' /\ Flat!WriteSome
  <1> DEFINE new == [i \in Offsets |->
                       IF i \in offset..offset + Count - 1 THEN rest[i - offset + 1]
                       ELSE dev[block_id][i]]
  <1>1. /\ op = "write" /\ rest # <<>> /\ block_id < NumBlocks /\ Advance
        /\ dev' = [dev EXCEPT ![block_id] = new]
        /\ UNCHANGED <<op, done>>
    BY DEF write_one, Offsets
  <1>2. Count \in 1..Len(rest) /\ offset + Count <= BLOCK_SIZE
    BY <1>1, CountFacts
  <1>3. /\ block_id' \in Nat /\ offset' \in Offsets /\ rest' \in Seq(V)
        /\ position' = position + Count /\ position + Count <= size
        /\ rest' = SubSeq(rest, Count + 1, Len(rest))
    BY <1>1, AdvanceFacts
  <1>4. /\ block_id \in Blocks /\ block_id \in Nat /\ offset \in 0..BLOCK_SIZE - 1
        /\ position \in Nat /\ size \in Nat /\ size = NumBlocks * BLOCK_SIZE /\ NumBlocks \in Nat
        /\ Count \in Nat /\ BLOCK_SIZE \in Nat \ {0} /\ rest \in Seq(V)
        /\ dev \in [Blocks -> [Offsets -> V]]
    <2>1. block_id \in Nat /\ offset \in 0..BLOCK_SIZE - 1 /\ NumBlocks \in Nat
          /\ BLOCK_SIZE \in Nat \ {0} /\ rest \in Seq(V) /\ dev \in [Blocks -> [Offsets -> V]]
      BY DEF DiskInv, Offsets, Sizes
    <2>2. block_id * BLOCK_SIZE \in Nat /\ NumBlocks * BLOCK_SIZE \in Nat
      BY <2>1
    <2>3. position \in Nat /\ size \in Nat
      BY <2>1, <2>2 DEF position, size
    <2> QED
      BY <1>1, <1>2, <2>1, <2>3 DEF Blocks, size
  <1>5. new \in [Offsets -> V]
    <2>1. ASSUME NEW i \in Offsets, i \in offset..offset + Count - 1
          PROVE  rest[i - offset + 1] \in V
      BY <1>2, <1>4, <2>1 DEF Offsets
    <2> QED
      BY <1>4, <2>1
  <1> HIDE DEF new
  <1>6. DiskInv(V)'
    BY <1>1, <1>3, <1>4, <1>5 DEF DiskInv
  <1>7. ASSUME NEW a \in 0..size - 1
        PROVE  Byte(a)' = IF a \in position..position + Count - 1
                          THEN rest[a - position + 1] ELSE Byte(a)
    <2> DEFINE b == a \div BLOCK_SIZE
    <2> DEFINE o == a % BLOCK_SIZE
    <2>1. b \in Blocks /\ o \in Offsets /\ a = (b * BLOCK_SIZE) + o
      BY <1>4, Address, Zenon DEF Blocks, Offsets
    <2>2. Byte(a) = dev[b][o] /\ Byte(a)' = dev'[b][o]
      BY DEF Byte
    <2> HIDE DEF b, o
    <2>3. position = block_id * BLOCK_SIZE + offset
      BY DEF position
    <2>4. CASE b # block_id
      <3>1. dev'[b] = dev[b]
        BY <1>1, <1>4, <2>1, <2>4
      <3> DEFINE x == b * BLOCK_SIZE
      <3> DEFINE y == block_id * BLOCK_SIZE
      <3>a. x \in Nat /\ y \in Nat /\ b \in Nat
        BY <1>4, <2>1 DEF Blocks
      <3>b. a = x + o /\ position = y + offset
        BY <2>1, <2>3
      <3>2. a \notin position..position + Count - 1
        <4>1. CASE b < block_id
          <5>1. x + BLOCK_SIZE <= y
            BY <1>4, <2>1, <4>1 DEF Blocks
          <5> HIDE DEF x, y
          <5> QED
            BY <1>2, <1>4, <2>1, <3>a, <3>b, <5>1 DEF Offsets
        <4>2. CASE block_id < b
          <5>1. y + BLOCK_SIZE <= x
            BY <1>4, <2>1, <4>2 DEF Blocks
          <5> HIDE DEF x, y
          <5> QED
            BY <1>2, <1>4, <2>1, <3>a, <3>b, <5>1 DEF Offsets
        <4> QED
          BY <1>4, <2>1, <2>4, <4>1, <4>2 DEF Blocks
      <3> QED
        BY <2>2, <3>1, <3>2
    <2>5. CASE b = block_id
      <3>1. dev'[b][o] = IF o \in offset..offset + Count - 1 THEN rest[o - offset + 1]
                         ELSE dev[b][o]
        BY <1>1, <1>4, <2>1, <2>5 DEF new
      <3>2. a - position = o - offset
        BY <1>4, <2>1, <2>3, <2>5 DEF Blocks, Offsets
      <3>3. a \in position..position + Count - 1 <=> o \in offset..offset + Count - 1
        BY <1>2, <1>4, <2>1, <3>2 DEF Blocks, Offsets
      <3> QED
        BY <2>2, <3>1, <3>2, <3>3
    <2> QED
      BY <2>4, <2>5
  <1>8. Mem' = [a \in 0..size - 1 |-> IF a \in position..position + Count - 1
                                      THEN rest[a - position + 1] ELSE Mem[a]]
    BY <1>7 DEF Mem, size
  <1>9. Flat!Some(Count)
    BY <1>1, <1>3 DEF Flat!Some
  <1>10. Flat!WriteSome
    BY <1>1, <1>2, <1>8, <1>9 DEF Flat!WriteSome, Mem, Byte
  <1> QED
    BY <1>6, <1>10

(* The transfer ends, with an error or because nothing is left.            *)
LEMMA EndStep ==
  ASSUME NEW V, DiskInv(V), DevError \/ Finish
  PROVE  DiskInv(V)' /\ Flat!End
  <1>1. DiskInv(V)'
    <2>1. <<>> \in Seq(V)
      OBVIOUS
    <2>2. rest' \in {<<>>, rest} /\ done' \in {<<>>, done} /\ op' = "idle"
          /\ UNCHANGED <<dev, block_id, offset>>
      BY DEF DevError, Finish
    <2> QED
      BY <2>1, <2>2, Zenon DEF DiskInv
  <1> QED
    BY <1>1 DEF DevError, Finish, Flat!End, position

(* The disk with its cursor implements a row of bytes with a position: no  *)
(* read or write touches a byte outside its range, whether it begins or    *)
(* ends within a block, and what an error leaves is a prefix of the write. *)
(* For any block size and any number of blocks, buffers and lengths.       *)
THEOREM FlatDiskImplemented ==
  ASSUME NEW V, Sizes(V)
  PROVE  DiskSpec => FlatDiskSpec
  <1>1. disk_new => DiskInv(V) /\ Flat!Init
    BY InitDiskInv
  <1>2. DiskInv(V) /\ [DiskNext]_diskVars => DiskInv(V)' /\ [Flat!Next]_(Flat!flatVars)
    <2> SUFFICES ASSUME DiskInv(V), [DiskNext]_diskVars
                 PROVE  DiskInv(V)' /\ [Flat!Next]_(Flat!flatVars)
      OBVIOUS
    <2>1. CASE UNCHANGED diskVars
      BY <2>1 DEF diskVars, DiskInv, Flat!flatVars, position
    <2> QED
      BY <2>1, SeekStep, TransferStep, ReadStep, WriteStep, EndStep DEF DiskNext, Flat!Next
  <1> QED
    BY <1>1, <1>2, PTL DEF DiskSpec, FlatDiskSpec, Flat!Spec
=============================================================================
