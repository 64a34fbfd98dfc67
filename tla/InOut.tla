-------------------------------- MODULE InOut --------------------------------
(***************************************************************************)
(* The exchange side of the keyboard firmware, KeyboardHost/inout.c.  Two  *)
(* contexts share the ring buffer and the request line INT (PORTB bit 4):  *)
(*   - the main loop, which calls keyHandler for every pressed key;        *)
(*   - the interrupt SPI_STC_vect, which runs after each byte the main     *)
(*     board has clocked through the SPI and loads the answer to the next. *)
(* The interrupt runs to its end.  keyHandler does not mask it: the steps  *)
(* of keyHandler are its accesses to the shared memory, and IrqAt is the   *)
(* set of steps before which an interrupt can be taken.                    *)
(*                                                                         *)
(* Two pairs of accesses are one step each, for an interrupt between them  *)
(* does nothing new.  isFull and the read of tail that follows: either the *)
(* interrupt leaves tail alone and may as well come after both, or it      *)
(* leaves the buffer empty, so not full, and may as well come before both. *)
(* isEmpty and the write of head: an empty buffer it leaves empty.  That   *)
(* the two bytes of an int are accessed together is an abstraction, which  *)
(* the README discusses.                                                   *)
(***************************************************************************)
EXTENDS KeyBuffer

CONSTANTS
  Key,        \* the characters keyHandler is called with
  IrqAt,      \* where in keyHandler SPI_STC_vect can be taken
  Stray       \* the bytes SPDR may hold at reset, which leaves it undefined

(* The points of keyHandler between two accesses to shared memory. *)
EnqueuePoint == {"writeTail", "writeData", "setHead"}
Point        == EnqueuePoint \cup {"setInt"}

ASSUME KeyAssumption   == Key \subseteq Byte
ASSUME IrqAtAssumption == IrqAt \subseteq Point
ASSUME StrayAssumption == Stray \subseteq Byte /\ Stray # {}

(* The bytes the main board sends. *)
AskType == 0      \* answered with the device type
AskSize == 1      \* answered with sizeBuffer(), unless sizeSendFlag is set
AskKey  == 255    \* any other byte: answered with dequeue()
Request == {AskType, AskSize, AskKey}

Keyboard == 1     \* the device type this firmware answers with

VARIABLES
  buffer,         \* the ring buffer
  sizeSendFlag,   \* 0 or 1
  INT,            \* level of the request line
  SPDR,           \* the byte the next SPI transfer will shift out
  at,             \* "idle", or the point keyHandler has reached
  key,            \* its argument
  ktail,          \* the value of buffer.tail it has read into a register
  raced           \* history: SPI_STC_vect has run inside enqueue

shared == <<buffer, sizeSendFlag, INT, SPDR>>
local  == <<at, key, ktail>>
iovars == <<shared, local, raced>>

TypeOK ==
  /\ buffer \in BufferType
  /\ sizeSendFlag \in {0, 1}
  /\ INT \in BOOLEAN
  /\ SPDR \in Byte
  /\ at \in Point \cup {"idle"}
  /\ key \in Byte
  /\ ktail \in Index
  /\ raced \in BOOLEAN

(* initIO, after which interrupts are enabled. *)
Init ==
  /\ buffer = EmptyBuffer
  /\ sizeSendFlag = 0
  /\ INT = FALSE
  /\ SPDR \in Stray
  /\ at = "idle"
  /\ key = 0
  /\ ktail = -1
  /\ raced = FALSE

-----------------------------------------------------------------------------
(* keyHandler: enqueue, then raise the line. *)

(* Entry of enqueue: a full buffer drops the character. *)
KeyHandler(k) ==
  /\ at = "idle"
  /\ key' = k
  /\ at' = IF isFull(buffer) THEN "setInt" ELSE "writeTail"
  /\ ktail' = IF isFull(buffer) THEN ktail ELSE buffer.tail
  /\ UNCHANGED <<shared, raced>>

WriteTail ==
  /\ at = "writeTail"
  /\ buffer' = [buffer EXCEPT !.tail = nextCell(ktail)]
  /\ at' = "writeData"
  /\ UNCHANGED <<sizeSendFlag, INT, SPDR, key, ktail, raced>>

WriteData ==
  /\ at = "writeData"
  /\ buffer' = [buffer EXCEPT !.data[nextCell(ktail)] = key]
  /\ at' = "setHead"
  /\ UNCHANGED <<sizeSendFlag, INT, SPDR, key, ktail, raced>>

SetHead ==
  /\ at = "setHead"
  /\ buffer' = IF isEmpty(buffer) THEN [buffer EXCEPT !.head = 0] ELSE buffer
  /\ at' = "setInt"
  /\ UNCHANGED <<sizeSendFlag, INT, SPDR, key, ktail, raced>>

(* The line goes up whether or not the character was kept. *)
SetInt ==
  /\ at = "setInt"
  /\ INT' = TRUE
  /\ at' = "idle"
  /\ UNCHANGED <<buffer, sizeSendFlag, SPDR, key, ktail, raced>>

HandlerStep == WriteTail \/ WriteData \/ SetHead \/ SetInt

-----------------------------------------------------------------------------
(* SPI_STC_vect, by the byte received. *)

IsrType(b) ==
  /\ b = AskType
  /\ SPDR' = Keyboard
  /\ UNCHANGED <<buffer, sizeSendFlag, INT>>

IsrSize(b) ==
  /\ b = AskSize
  /\ sizeSendFlag = 0
  /\ SPDR' = sizeBuffer(buffer)
  /\ sizeSendFlag' = 0
  /\ UNCHANGED <<buffer, INT>>

(* The default case; also the case AskSize once sizeSendFlag is set. *)
IsrKey(b) ==
  /\ b # AskType
  /\ b = AskSize => sizeSendFlag # 0
  /\ SPDR' = dequeueKey(buffer)
  /\ buffer' = dequeue(buffer)
  /\ LET drained == sizeBuffer(buffer') = 0
     IN  /\ INT' = (INT /\ ~drained)
         /\ sizeSendFlag' = IF b = AskSize /\ drained THEN 1 ELSE sizeSendFlag

CanInterrupt == at = "idle" \/ at \in IrqAt

SpiIsr(b) ==
  /\ CanInterrupt
  /\ IsrType(b) \/ IsrSize(b) \/ IsrKey(b)
  /\ raced' = (raced \/ at \in EnqueuePoint)
  /\ UNCHANGED local

-----------------------------------------------------------------------------
Next ==
  \/ \E k \in Key : KeyHandler(k)
  \/ HandlerStep
  \/ \E b \in Request : SpiIsr(b)

Spec == Init /\ [][Next]_iovars

-----------------------------------------------------------------------------
(* Once keyHandler has returned, a character that waits has the request    *)
(* line up, whatever interrupts keyHandler was hit by: the main board      *)
(* looks only at the line, so a character behind a low line would wait for *)
(* the next key (keyHandler raising after enqueue, SPI_STC_vect lowering   *)
(* only on an empty buffer).                                               *)
NoStrandedKey == at = "idle" /\ ~isEmpty(buffer) => INT

(* The characters waiting.  While enqueue runs, the buffer still ends at   *)
(* the tail it has read: a character counts once head and tail hold it.    *)
Contents ==
  LET tail == IF at \in EnqueuePoint THEN ktail ELSE buffer.tail
  IN  [i \in 1..sizeBuffer([buffer EXCEPT !.tail = tail]) |->
         buffer.data[cellAfter(buffer.head, i - 1)]]

(* How far keyHandler is with its character. *)
Offered ==
  IF at = "idle" THEN <<"none">>
  ELSE IF at = "setInt" THEN <<"handled">>
  ELSE <<"offered", key>>

Q == INSTANCE KeyQueue
       WITH queue <- Contents, answer <- SPDR, line <- INT, offer <- Offered,
            Capacity <- MaxData, DeviceType <- Keyboard

(* As long as no interrupt has fallen inside enqueue, keyHandler and       *)
(* SPI_STC_vect together are a bounded FIFO: no character is lost,         *)
(* repeated, overtaken or invented between the call of keyHandler and the  *)
(* answer that carries it, and the size answered is the number waiting.    *)
ImplementsKeyQueue == Q!Init /\ [][raced' \/ Q!Next]_(Q!qvars)
=============================================================================
