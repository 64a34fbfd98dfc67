------------------------------ MODULE KeyBuffer ------------------------------
(***************************************************************************)
(* The ring buffer of the keyboard firmware (KeyboardHost/inout.c): a      *)
(* record of two indices and an array of MaxData characters.  An empty     *)
(* buffer has head = tail = -1; otherwise head is the oldest character and *)
(* tail the newest, both included, so that all MaxData cells can be used.  *)
(*                                                                         *)
(* Only operators live here: InOut owns the buffer and says which of its   *)
(* accesses the SPI interrupt may fall between.                            *)
(***************************************************************************)
EXTENDS Integers

CONSTANT MaxData     \* MAX_DATA, 255 in the program

(* sizeBuffer returns a uint8_t: 255 cells is the most it can count. *)
ASSUME MaxDataAssumption == MaxData \in 1..255

Byte  == 0..255
Cell  == 0..(MaxData - 1)
Index == -1..(MaxData - 1)
BufferType == [head : Index, tail : Index, data : [Cell -> Byte]]

EmptyBuffer == [head |-> -1, tail |-> -1, data |-> [c \in Cell |-> 0]]

isEmpty(b) == b.head = -1

(* Mutant: a cell too early. *)
isFull_Early(b) == (b.tail + 2) % MaxData = b.head

isFull(b) == (b.tail + 1) % MaxData = b.head

(* Mutant: tail taken for the cell after the newest character. *)
sizeBuffer_TailExcluded(b) ==
  IF isEmpty(b) THEN 0
  ELSE IF b.tail < b.head THEN (MaxData - (b.head - b.tail)) % 256
       ELSE (b.tail - b.head) % 256

(* The uint8_t result of sizeBuffer. *)
sizeBuffer(b) ==
  IF isEmpty(b) THEN 0
  ELSE IF b.tail < b.head
       THEN (MaxData - (b.head - b.tail) + 1) % 256
       ELSE (b.tail - b.head + 1) % 256

(* The cell n places after cell h. *)
cellAfter(h, n) == IF h + n < MaxData THEN h + n ELSE h + n - MaxData

(* Mutant: the index does not come round. *)
nextCell_NoWrap(t) == t + 1

(* The cell enqueue writes when it has read t from buffer.tail. *)
nextCell(t) == (t + 1) % MaxData

(* dequeue: the character returned, and the buffer left. *)
dequeueKey(b) == IF isEmpty(b) THEN 0 ELSE b.data[b.head]

(* Mutants: the character stays in the buffer; the others leave with it. *)
dequeue_Keeps(b) ==
  IF b.head = b.tail THEN [head |-> -1, tail |-> -1, data |-> b.data] ELSE b
dequeue_Clears(b) == [head |-> -1, tail |-> -1, data |-> b.data]

dequeue(b) ==
  IF isEmpty(b) THEN b
  ELSE IF b.head = b.tail THEN [head |-> -1, tail |-> -1, data |-> b.data]
       ELSE [b EXCEPT !.head = (@ + 1) % MaxData]
=============================================================================
