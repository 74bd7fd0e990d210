----------------------------- MODULE RingBuffer -----------------------------
(***************************************************************************)
(* PipeRingBuffer (arceos_posix_api, imp/pipe.rs): an array used in a      *)
(* circle, the next place to read (head) and to write (tail), and a status *)
(* that tells a full buffer from an empty one.                             *)
(***************************************************************************)
EXTENDS Naturals, Sequences

CONSTANTS RING_BUFFER_SIZE, Bytes

ASSUME RingAssumption == RING_BUFFER_SIZE \in Nat \ {0} /\ Bytes # {}

Cells == 0..RING_BUFFER_SIZE - 1

Rings == [arr : [Cells -> Bytes], head : Cells, tail : Cells,
          status : {"Full", "Empty", "Normal"}]

ring_new == [arr |-> [i \in Cells |-> CHOOSE b \in Bytes : TRUE],
             head |-> 0, tail |-> 0, status |-> "Empty"]

(* The cell after cell i.                                                  *)
After(i) == (i + 1) % RING_BUFFER_SIZE

(* Faulty variant: a buffer that has become full looks empty.              *)
write_byteNoFull(r, b) ==
  [arr |-> [r.arr EXCEPT ![r.tail] = b], head |-> r.head, tail |-> After(r.tail),
   status |-> IF After(r.tail) = r.head THEN "Empty" ELSE "Normal"]

write_byte(r, b) ==
  [arr |-> [r.arr EXCEPT ![r.tail] = b], head |-> r.head, tail |-> After(r.tail),
   status |-> IF After(r.tail) = r.head THEN "Full" ELSE "Normal"]

read_byte(r) ==
  [arr |-> r.arr, head |-> After(r.head), tail |-> r.tail,
   status |-> IF After(r.head) = r.tail THEN "Empty" ELSE "Normal"]

(* Loops of write_byte and of read_byte: the buffer after each turn.       *)
WriteLoop(r, s) ==
  LET f[i \in 0..Len(s)] == IF i = 0 THEN r ELSE write_byte(f[i - 1], s[i]) IN f

ReadLoop(r, n) ==
  LET f[i \in 0..n] == IF i = 0 THEN r ELSE read_byte(f[i - 1]) IN f

available_read(r) ==
  IF r.status = "Empty" THEN 0
  ELSE IF r.tail > r.head THEN r.tail - r.head
  ELSE r.tail + RING_BUFFER_SIZE - r.head

available_write(r) ==
  IF r.status = "Full" THEN 0 ELSE RING_BUFFER_SIZE - available_read(r)

(* The cell of the i-th byte to be read, from 1.                           *)
Cell(r, i) == IF r.head + i - 1 < RING_BUFFER_SIZE THEN r.head + i - 1
              ELSE r.head + i - 1 - RING_BUFFER_SIZE

(* The bytes in the buffer, in the order in which they will be read.       *)
Contents(r) == [i \in 1..available_read(r) |-> r.arr[Cell(r, i)]]
=============================================================================
