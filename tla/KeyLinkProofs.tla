---------------------------- MODULE KeyLinkProofs ----------------------------
(***************************************************************************)
(* The link, for every number of connectors, every connector the keyboard  *)
(* may be plugged in, every size of its buffer and every place where       *)
(* SPI_STC_vect can be taken in keyHandler: what the probe finds, what is  *)
(* written, in which order, and which keys are lost on the way.            *)
(***************************************************************************)
EXTENDS KeyLink, SeqFilterProofs

B == INSTANCE InOutProofs

(* An undriven line does not read as a keyboard, and a wait leaves         *)
(* SPI_STC_vect the time to run.                                           *)
QuietBus == KEYBOARD \notin Stray /\ IsrInTime

(* What the probe has written so far: no other connector has a keyboard;   *)
(* once the keyboard's own, probed while it was up, has been passed, it is *)
(* known.                                                                  *)
Probing == {"probe1", "probe2"}

Known == device[Slot] = KEYBOARD

ProbeInv ==
  /\ conn \in Connector
  /\ device = [i \in Connector |-> device[i]]
  /\ \A i \in Connector : i # Slot => device[i] # KEYBOARD
  /\ early => up
  /\ early /\ pc = "probe1" => conn > Slot
  /\ early /\ pc = "probe2" => conn >= Slot
  /\ early /\ (pc \notin Probing \/ conn > Slot) => Known

(* Between the two transfers to it, the keyboard's answer is on its way:   *)
(* SPI_STC_vect is still to load it, or has.                               *)
AnswerComing ==
  early /\ pc = "probe2" /\ conn = Slot =>
    irq = IO!AskType \/ (irq = NoByte /\ SPDR = KEYBOARD)

IInv == ProbeInv /\ AnswerComing

LEMMA InitIInv == Init => IInv
BY LinkAssumption
DEF Init, IInv, ProbeInv, AnswerComing, Probing, Connector, KEYBOARD

(* What the keyboard board does. *)
LEMMA KeyboardIInv ==
  ASSUME IInv, Boot \/ TypeKey \/ HandlerStep \/ Isr
  PROVE  IInv'
<1> USE DEF IInv, ProbeInv, AnswerComing, Known, master, client, history, iovars
<1>1. CASE Boot
  BY <1>1 DEF Boot
<1>2. CASE TypeKey
  BY <1>2 DEF TypeKey, IO!KeyHandler, IO!shared
<1>3. CASE HandlerStep
  BY <1>3 DEF HandlerStep, IO!HandlerStep, IO!WriteTail, IO!WriteData, IO!SetHead, IO!SetInt
<1>4. CASE Isr
  <2>1. /\ UNCHANGED <<conn, device, early, up, pc>> /\ irq # NoByte /\ irq' = NoByte
    BY <1>4 DEF Isr
  <2>2. irq = IO!AskType => SPDR' = KEYBOARD
    BY <1>4 DEF Isr, IO!SpiIsr, IO!IsrType, IO!IsrSize, IO!IsrKey, IO!Keyboard, KEYBOARD,
                IO!AskType, IO!AskSize
  <2>3. QED BY <2>1, <2>2
<1>5. QED BY <1>1, <1>2, <1>3, <1>4

(* What the main board does once it has probed. *)
LEMMA AfterProbe ==
  ASSUME IInv, pc \notin Probing, pc' \notin Probing,
         UNCHANGED <<conn, device, early, up>>
  PROVE  IInv'
BY DEF IInv, ProbeInv, AnswerComing, Known, Probing

LEMMA ProbeIInv ==
  ASSUME QuietBus, IInv, Probe1 \/ Probe2
  PROVE  IInv'
<1> USE DEF IInv, ProbeInv, AnswerComing, Known, Probing
<1>1. Slot \in Connector /\ MAX_DEVICES \in Nat /\ Connector \subseteq Int
  BY LinkAssumption DEF Connector
<1>2. CASE Probe1
  <2>1. /\ pc = "probe1" /\ pc' = "probe2" /\ UNCHANGED <<conn, device, up>>
        /\ early' = (early \/ (conn = Slot /\ up))
    BY <1>2 DEF Probe1, transferSPI
  <2>2. conn = Slot /\ up => irq' = IO!AskType
    BY <1>2 DEF Probe1, transferSPI
  <2>3. early => up /\ conn > Slot
    BY <2>1
  <2>4. early' => up' /\ (conn' > Slot \/ conn' = Slot)
    BY <2>1, <2>3
  <2>5. early' /\ conn' > Slot => Known'
    <3>1. CASE early
      BY <2>1, <2>3, <3>1
    <3>2. CASE ~early
      <4>1. early' => conn = Slot
        BY <2>1, <3>2
      <4>2. ~(early' /\ conn' > Slot)
        BY <1>1, <2>1, <4>1
      <4>3. QED BY <4>2
    <3>3. QED BY <3>1, <3>2
  <2>6. AnswerComing'
    BY <1>1, <2>1, <2>2, <2>3
  <2>7. QED BY <1>1, <2>1, <2>4, <2>5, <2>6
<1>3. CASE Probe2
  <2>1. PICK answer \in Received(conn) : device' = [device EXCEPT ![conn] = answer]
    BY <1>3 DEF Probe2
  <2>2. /\ pc = "probe2" /\ UNCHANGED <<early, up>> /\ (IsrInTime => irq = NoByte)
        /\ \/ pc' = "probe1" /\ conn' = conn + 1 /\ conn + 1 < MAX_DEVICES
           \/ pc' = "poll" /\ conn' = conn
    BY <1>3 DEF Probe2, Waited, transferSPI, history
  <2>3. conn # Slot => answer # KEYBOARD
    BY <2>1 DEF Received, QuietBus
  <2>4. early /\ conn = Slot => answer = KEYBOARD
    BY <2>1, <2>2 DEF Received, QuietBus, NoByte, IO!AskType
  <2>5. conn' \in Connector /\ conn' >= conn
    BY <1>1, <2>2 DEF Connector
  <2>6. \A i \in Connector : i # Slot => device'[i] # KEYBOARD
    BY <2>1, <2>3
  <2>7. early => device'[Slot] = KEYBOARD
    <3>1. CASE conn = Slot
      BY <1>1, <2>1, <2>4, <3>1
    <3>2. CASE conn # Slot
      BY <1>1, <2>1, <2>2, <3>2
    <3>3. QED BY <3>1, <3>2
  <2>8. early => conn >= Slot
    BY <2>2
  <2>9. pc' = "probe1" => conn' > conn
    BY <1>1, <2>2
  <2>10. early' => up'
    BY <2>2
  <2>11. early' /\ pc' = "probe1" => conn' > Slot
    BY <1>1, <2>2, <2>5, <2>8, <2>9
  <2>12. device' = [i \in Connector |-> device'[i]]
    BY <2>1
  <2>13. pc' # "probe2"
    BY <2>2
  <2>14. early' => Known'
    BY <2>2, <2>7
  <2>15. QED BY <2>5, <2>6, <2>10, <2>11, <2>12, <2>13, <2>14
<1>4. QED BY <1>2, <1>3

LEMMA NextIInv ==
  ASSUME QuietBus, IInv, [Next]_vars
  PROVE  IInv'
<1>1. CASE Poll \/ PollUnknown \/ Grab1 \/ Grab2
  BY <1>1, AfterProbe
  DEF Poll, PollUnknown, Grab1, Grab2, transferSPI, Probing, history, client
<1>2. CASE Call \/ Client
  BY <1>2, AfterProbe
  DEF Call, Client, Size1, Size2, Keys1, Keys2, Keys3, Transfer, transferSPI, Probing, history, client
<1>3. CASE Wild \/ UNCHANGED vars
  BY <1>3 DEF Wild, vars, master, client, history, iovars, IInv, ProbeInv, AnswerComing, Known
<1>4. QED
  BY <1>1, <1>2, <1>3, KeyboardIInv, ProbeIInv DEF Next, Clavier

(* The keyboard is found where it is, and nowhere else, if its firmware    *)
(* was up when its connector was probed: initConnectorsList keeps the      *)
(* second answer, and SPI_STC_vect has loaded the type by then.            *)
THEOREM KeyboardIsFound ==
  ASSUME QuietBus
  PROVE  Spec => []ProbeFindsKeyboard
<1>1. IInv /\ [Next]_vars => IInv'
  BY NextIInv
<1>2. IInv => ProbeFindsKeyboard
  BY DEF IInv, ProbeInv, Known, Probing, ProbeFindsKeyboard
<1>3. QED
  BY <1>1, <1>2, InitIInv, PTL DEF Spec

-----------------------------------------------------------------------------
(* Types. *)

(* grabKeys has a key left to read where it is about to read one. *)
Types == TypeOK /\ (pc \in {"keys1", "keys2", "keys3"} => left # 0)

(* What the types of the keyboard board give for its buffer. *)
LEMMA BufferParts ==
  ASSUME NEW b \in IO!BufferType
  PROVE  /\ b.head \in IO!Index /\ b.tail \in IO!Index
         /\ b.data \in [IO!Cell -> IO!Byte]
         /\ ~IO!isEmpty(b) => b.head \in IO!Cell
BY SlaveAssumption DEF IO!BufferType, IO!isEmpty, IO!Index, IO!Cell

LEMMA NextCell ==
  ASSUME NEW t \in IO!Index
  PROVE  IO!nextCell(t) \in IO!Cell /\ IO!nextCell(t) \in IO!Index
BY SlaveAssumption DEF IO!Index, IO!Cell, IO!nextCell

LEMMA Dequeued ==
  ASSUME NEW b \in IO!BufferType
  PROVE  /\ IO!dequeue(b) \in IO!BufferType
         /\ IO!dequeue(b).data = b.data
         /\ IO!dequeueKey(b) \in {0} \cup {b.data[c] : c \in IO!Cell}
<1>1. -1 \in IO!Index /\ (b.head \in IO!Cell => (b.head + 1) % MaxData \in IO!Index)
  BY SlaveAssumption DEF IO!Index, IO!Cell
<1>2. IO!dequeue(b) \in IO!BufferType /\ IO!dequeue(b).data = b.data
  BY <1>1, BufferParts DEF IO!dequeue, IO!BufferType
<1>3. QED BY <1>2, BufferParts DEF IO!dequeueKey

LEMMA SizeIsByte ==
  ASSUME NEW b \in IO!BufferType
  PROVE  IO!sizeBuffer(b) \in IO!Byte
<1>1. \A n \in Int : n % 256 \in 0..255
  OBVIOUS
<1>2. b.head \in Int /\ b.tail \in Int
  BY BufferParts DEF IO!Index
<1>3. MaxData - (b.head - b.tail) + 1 \in Int /\ b.tail - b.head + 1 \in Int
  BY <1>2, SlaveAssumption
<1>4. QED BY <1>1, <1>3 DEF IO!sizeBuffer, IO!Byte

LEMMA KeysAreBytes ==
  \A n \in 0..MaxTyped : FirstKey + n - 1 \in IO!Byte /\ (n < MaxTyped => FirstKey + n \in IO!Byte)
BY BoundAssumption DEF FirstKey, IO!Byte

LEMMA InitTypes == Init => Types
<1> SUFFICES ASSUME Init PROVE Types
  OBVIOUS
<1>1. -1 \in IO!Index /\ 0 \in IO!Byte
  BY SlaveAssumption DEF IO!Index, IO!Byte
<1>2. IO!EmptyBuffer \in IO!BufferType
  BY <1>1 DEF IO!EmptyBuffer, IO!BufferType
<1>3. IO!TypeOK
  BY <1>1, <1>2, SlaveAssumption DEF Init, IO!Init, IO!TypeOK, IO!Point
<1>4. 0 \in Connector
  BY LinkAssumption DEF Connector
<1>5. 0 \in 0..MaxKeys /\ 0 \in 0..MaxCalls /\ 0 \in 0..0 /\ 0 \in 0..MaxTyped
  BY BoundAssumption
<1>6. QED BY <1>1, <1>3, <1>4, <1>5 DEF Init, TypeOK, Types

(* The keyboard board. *)
LEMMA KeyboardTypes ==
  ASSUME Types, Boot \/ TypeKey \/ HandlerStep \/ Isr
  PROVE  Types'
<1> USE DEF Types, TypeOK, IO!TypeOK, master, client, history, iovars
<1>1. buffer.tail \in IO!Index /\ buffer.head \in IO!Index /\ 0 \in IO!Index
  BY BufferParts, SlaveAssumption DEF IO!Index
<1>2. IO!nextCell(ktail) \in IO!Cell /\ IO!nextCell(ktail) \in IO!Index
  BY NextCell
<1>3. CASE Boot
  BY <1>3 DEF Boot
<1>4. CASE TypeKey
  <2>1. typed \in 0..MaxTyped /\ typed < MaxTyped /\ typed' = typed + 1
    BY <1>4 DEF TypeKey
  <2>2. typed' \in 0..MaxTyped /\ FirstKey + typed \in IO!Byte
    BY <2>1, KeysAreBytes, BoundAssumption
  <2>3. /\ at' \in IO!Point \cup {"idle"} /\ key' \in IO!Byte /\ ktail' \in IO!Index
        /\ UNCHANGED <<buffer, sizeSendFlag, INT, SPDR>>
    BY <1>1, <1>4, <2>2 DEF TypeKey, IO!KeyHandler, IO!shared, IO!Point, IO!EnqueuePoint
  <2>4. spaced' \in BOOLEAN
    BY <1>4 DEF TypeKey, AtRest
  <2>5. dropped' \in 0..typed'
    BY <1>4, <2>1 DEF TypeKey
  <2>6. UNCHANGED <<up, irq, master, early, raced>>
    BY <1>4 DEF TypeKey, IO!KeyHandler
  <2>7. QED BY <2>2, <2>3, <2>4, <2>5, <2>6
<1>5. CASE HandlerStep
  <2> USE DEF HandlerStep, IO!HandlerStep, IO!BufferType, IO!Point, IO!EnqueuePoint
  <2>1. CASE IO!WriteTail
    BY <1>2, <1>5, <2>1 DEF IO!WriteTail
  <2>2. CASE IO!WriteData
    BY <1>2, <1>5, <2>2 DEF IO!WriteData
  <2>3. CASE IO!SetHead
    BY <1>1, <1>5, <2>3 DEF IO!SetHead
  <2>4. CASE IO!SetInt
    BY <1>5, <2>4 DEF IO!SetInt
  <2>5. QED BY <1>5, <2>1, <2>2, <2>3, <2>4
<1>6. CASE Isr
  <2>1. /\ UNCHANGED <<at, key, ktail>> /\ irq' = NoByte
        /\ UNCHANGED <<up, master, typed, early, spaced, dropped>>
    BY <1>6 DEF Isr, IO!SpiIsr, IO!local
  <2>2. raced' \in BOOLEAN
    BY <1>6 DEF Isr, IO!SpiIsr
  <2>3. /\ buffer' \in IO!BufferType /\ sizeSendFlag' \in {0, 1}
        /\ INT' \in BOOLEAN /\ SPDR' \in IO!Byte
    <3>1. CASE IO!IsrType(irq)
      BY <3>1 DEF IO!IsrType, IO!Keyboard, IO!Byte
    <3>2. CASE IO!IsrSize(irq)
      BY <3>2, SizeIsByte DEF IO!IsrSize
    <3>3. CASE IO!IsrKey(irq)
      <4>1. buffer \in IO!BufferType
        OBVIOUS
      <4>2. buffer.data \in [IO!Cell -> IO!Byte]
        BY <4>1, BufferParts
      <4>3. 0 \in IO!Byte
        BY DEF IO!Byte
      <4>4. IO!dequeueKey(buffer) \in IO!Byte /\ IO!dequeue(buffer) \in IO!BufferType
        BY <4>1, <4>2, <4>3, Dequeued
      <4>5. QED BY <3>3, <4>4 DEF IO!IsrKey
    <3>4. QED BY <1>6, <3>1, <3>2, <3>3 DEF Isr, IO!SpiIsr
  <2>4. QED BY <2>1, <2>2, <2>3
<1>7. QED BY <1>3, <1>4, <1>5, <1>6

(* A transfer, and what it returns. *)
LEMMA TransferTypes ==
  ASSUME TypeOK, NEW i, NEW b \in IO!Request, transferSPI(i, b)
  PROVE  /\ Received(i) \subseteq IO!Byte
         /\ IO!TypeOK' /\ up' \in BOOLEAN /\ irq' \in {NoByte} \cup IO!Request
<1>1. IO!Request \subseteq IO!Byte
  BY DEF IO!Request, IO!AskType, IO!AskSize, IO!AskKey, IO!Byte
<1>2. QED
  BY <1>1, SlaveAssumption DEF TypeOK, IO!TypeOK, transferSPI, Received

LEMMA Requests == {IO!AskType, IO!AskSize, IO!AskKey} = IO!Request
BY DEF IO!Request

LEMMA MasterTypes ==
  ASSUME Types, Clavier \/ Call \/ Client
  PROVE  Types'
<1> USE DEF Types, TypeOK, client, history
<1>1. CASE Probe1
  BY <1>1, TransferTypes, Requests DEF Probe1
<1>2. CASE Probe2
  <2>1. /\ IO!TypeOK' /\ up' \in BOOLEAN /\ irq' \in {NoByte} \cup IO!Request
        /\ Received(conn) \subseteq IO!Byte
    BY <1>2, TransferTypes, Requests DEF Probe2
  <2>2. device' \in [Connector -> IO!Byte]
    BY <1>2, <2>1 DEF Probe2
  <2>3. conn' \in Connector
    BY <1>2, LinkAssumption DEF Probe2, Connector
  <2>4. QED BY <1>2, <2>1, <2>2, <2>3 DEF Probe2
<1>3. CASE Poll
  BY <1>3 DEF Poll, iovars, IO!TypeOK
<1>4. CASE PollUnknown
  BY <1>4 DEF PollUnknown, iovars, IO!TypeOK
<1>5. CASE Grab1
  BY <1>5, TransferTypes, Requests DEF Grab1
<1>6. CASE Grab2
  BY <1>6, TransferTypes, Requests DEF Grab2
<1>7. CASE Call
  <2>1. calls' \in 0..MaxCalls /\ sized' \in 0..calls'
    BY <1>7, BoundAssumption DEF Call
  <2>2. left' \in 0..MaxKeys
    BY <1>7, BoundAssumption DEF Call
  <2>3. QED BY <1>7, <2>1, <2>2 DEF Call, iovars, IO!TypeOK
<1>8. CASE Size1 \/ Size2
  BY <1>8, TransferTypes, Requests DEF Size1, Size2, Transfer
<1>9. CASE Keys1
  BY <1>9, TransferTypes, Requests DEF Keys1, Transfer
<1>10. CASE Keys2 \/ Keys3
  <2>1. PICK i \in Connector : transferSPI(i, IO!AskType)
    BY <1>10 DEF Keys2, Keys3, Transfer
  <2>2. IO!TypeOK' /\ up' \in BOOLEAN /\ irq' \in {NoByte} \cup IO!Request
    BY <2>1, TransferTypes, Requests
  <2>3. \A j : Received(j) \subseteq IO!Byte
    BY SlaveAssumption DEF Received, IO!TypeOK
  <2>4. data' \in IO!Byte
    BY <1>10, <2>3 DEF Keys2, Keys3
  <2>5. left' \in 0..MaxKeys /\ (pc' \in {"keys1", "keys2", "keys3"} => left' # 0)
    BY <1>10, BoundAssumption DEF Keys2, Keys3
  <2>6. QED BY <1>10, <2>2, <2>4, <2>5 DEF Keys2, Keys3
<1>11. QED
  BY <1>1, <1>2, <1>3, <1>4, <1>5, <1>6, <1>7, <1>8, <1>9, <1>10 DEF Clavier, Client

LEMMA NextTypes == Types /\ [Next]_vars => Types'
<1>1. Types /\ (Wild \/ UNCHANGED vars) => Types'
  BY DEF Wild, vars, master, client, history, iovars, Types, TypeOK, IO!TypeOK
<1>2. QED BY <1>1, KeyboardTypes, MasterTypes DEF Next

(* Both boards keep their types, however late the interrupt, wherever it   *)
(* falls in keyHandler, and whatever an undriven line reads as.            *)
THEOREM TypeCorrect == Spec => []TypeOK
<1>1. Types => TypeOK
  BY DEF Types
<1>2. QED BY <1>1, InitTypes, NextTypes, PTL DEF Spec

-----------------------------------------------------------------------------
(* What is written. *)

(* The characters typed, and what an empty buffer answers. *)
Genuine == {0} \cup FirstKey..(FirstKey + typed - 1)

(* The transfer of b to the keyboard is answered: not yet, or with one of  *)
(* these bytes.                                                            *)
AnswerTo(b, bytes) ==
  \/ irq = b /\ SPDR = b
  \/ irq = NoByte /\ SPDR \in bytes

(* No cell of the buffer, used or not, holds anything else, nor will. *)
GenuineBuffer ==
  /\ \A c \in IO!Cell : buffer.data[c] \in Genuine
  /\ at \in {"writeTail", "writeData"} => key \in Genuine

(* Only the keyboard is taken for one. *)
OnlyKeyboard == \A i \in Connector : device[i] = KEYBOARD => i = Slot /\ up

(* Between the transfers of a call, the interrupt answers its last byte.   *)
Answered ==
  /\ pc = "grab2" => AnswerTo(IO!AskKey, Genuine)
  /\ pc \in {"keys2", "keys3"} => AnswerTo(IO!AskType, {KEYBOARD})
  /\ GrabKeysReadsTypes

Written == GenuineBuffer /\ OnlyKeyboard /\ Answered /\ NothingInvented

WInv == Types /\ Written

LEMMA InitWritten == Init => Written
<1> SUFFICES ASSUME Init PROVE Written
  OBVIOUS
<1>1. \A c \in IO!Cell : buffer.data[c] = 0
  BY DEF Init, IO!Init, IO!EmptyBuffer
<1>2. Len(serial) = 0
  BY DEF Init
<1>3. QED
  BY <1>1, <1>2
  DEF Init, IO!Init, Written, GenuineBuffer, Genuine, OnlyKeyboard, KEYBOARD, Answered,
      GrabKeysReadsTypes, NothingInvented

(* A key typed leaves what was genuine genuine. *)
LEMMA Grows ==
  ASSUME typed \in Nat, typed' = typed + 1
  PROVE  Genuine \subseteq Genuine' /\ FirstKey + typed \in Genuine'
BY DEF Genuine, FirstKey

LEMMA SameSerial ==
  ASSUME NothingInvented, UNCHANGED serial, typed \in Nat, typed' \in {typed, typed + 1}
  PROVE  NothingInvented'
<1> DEFINE own == IF IsrInTime THEN {0} ELSE {0, IO!AskKey}
           Char(n) == FirstKey..(FirstKey + n - 1)
<1>1. Char(typed) \subseteq Char(typed')
  <2>1. \A m \in Nat : 65..(65 + m - 1) \subseteq 65..(65 + (m + 1) - 1)
    OBVIOUS
  <2>2. Char(typed) \subseteq Char(typed + 1)
    BY <2>1 DEF FirstKey
  <2>3. QED BY <2>2
<1>2. \A i \in 1..Len(serial) : serial[i] \in own \cup Char(typed)
  BY DEF NothingInvented
<1> HIDE DEF own, Char
<1>3. \A i \in 1..Len(serial') : serial'[i] \in own \cup Char(typed')
  BY <1>1, <1>2
<1>4. QED BY <1>3 DEF NothingInvented, own, Char

(* The keyboard board. *)
LEMMA KeyboardWritten ==
  ASSUME Types, Written, Boot \/ TypeKey \/ HandlerStep \/ Isr
  PROVE  Written'
<1> USE DEF Written, OnlyKeyboard, Answered, AnswerTo, GrabKeysReadsTypes
<1>1. typed \in Nat /\ buffer \in IO!BufferType
  BY DEF Types, TypeOK, IO!TypeOK
<1>2. CASE Boot
  <2>1. UNCHANGED <<iovars, irq, master, history>> /\ up' = TRUE
    BY <1>2 DEF Boot
  <2>2. GenuineBuffer' /\ NothingInvented'
    BY <2>1, <1>1, SameSerial DEF GenuineBuffer, Genuine, iovars, master, history
  <2>3. QED BY <2>1, <2>2 DEF iovars, master, client, history, Genuine
<1>3. CASE TypeKey
  <2>1. /\ UNCHANGED <<buffer, SPDR, up, irq, pc, device, serial, data>>
        /\ typed' = typed + 1 /\ key' = FirstKey + typed
    BY <1>3 DEF TypeKey, IO!KeyHandler, IO!shared, master, client
  <2>2. Genuine \subseteq Genuine' /\ key' \in Genuine'
    BY <1>1, <2>1, Grows
  <2>3. GenuineBuffer'
    BY <2>1, <2>2 DEF GenuineBuffer
  <2>4. NothingInvented'
    BY <1>1, <2>1, SameSerial
  <2>5. QED BY <2>1, <2>2, <2>3, <2>4
<1>4. CASE HandlerStep
  <2>1. UNCHANGED <<SPDR, up, irq, pc, device, serial, data, typed>>
    BY <1>4
    DEF HandlerStep, IO!HandlerStep, IO!WriteTail, IO!WriteData, IO!SetHead, IO!SetInt,
        master, client, history
  <2>2. Genuine' = Genuine /\ NothingInvented'
    BY <1>1, <2>1, SameSerial DEF Genuine
  <2>3. GenuineBuffer'
    <3> USE DEF GenuineBuffer
    <3>1. CASE IO!WriteTail
      BY <2>2, <3>1 DEF IO!WriteTail
    <3>2. CASE IO!WriteData
      BY <1>1, <2>2, <3>2, BufferParts DEF IO!WriteData
    <3>3. CASE IO!SetHead
      BY <2>2, <3>3 DEF IO!SetHead
    <3>4. CASE IO!SetInt
      BY <2>2, <3>4 DEF IO!SetInt
    <3>5. QED BY <1>4, <3>1, <3>2, <3>3, <3>4 DEF HandlerStep, IO!HandlerStep
  <2>4. QED BY <2>1, <2>2, <2>3
<1>5. CASE Isr
  <2>1. /\ UNCHANGED <<at, key, up, pc, device, serial, data, typed>>
        /\ irq # NoByte /\ irq' = NoByte
    BY <1>5 DEF Isr, IO!SpiIsr, IO!local, master, client
  <2>2. Genuine' = Genuine /\ NothingInvented'
    BY <1>1, <2>1, SameSerial DEF Genuine
  <2>3. buffer'.data = buffer.data
    BY <1>1, <1>5, Dequeued DEF Isr, IO!SpiIsr, IO!IsrType, IO!IsrSize, IO!IsrKey
  <2>4. GenuineBuffer'
    BY <2>1, <2>2, <2>3 DEF GenuineBuffer
  <2>5. irq = IO!AskKey => SPDR' \in Genuine'
    <3>1. IO!dequeueKey(buffer) \in Genuine
      BY <1>1, Dequeued DEF GenuineBuffer, Genuine
    <3>2. QED
      BY <1>5, <2>2, <3>1
      DEF Isr, IO!SpiIsr, IO!IsrType, IO!IsrSize, IO!IsrKey, IO!AskKey, IO!AskType, IO!AskSize
  <2>6. irq = IO!AskType => SPDR' = KEYBOARD
    BY <1>5
    DEF Isr, IO!SpiIsr, IO!IsrType, IO!IsrSize, IO!IsrKey, IO!AskType, IO!AskSize,
        IO!Keyboard, KEYBOARD
  <2>7. QED BY <2>1, <2>2, <2>4, <2>5, <2>6
<1>6. QED BY <1>2, <1>3, <1>4, <1>5

(* A transfer to the keyboard is to be answered; one elsewhere is only     *)
(* made by the probe.                                                      *)
LEMMA Transferred ==
  ASSUME OnlyKeyboard, NEW i \in Connector, NEW b, indexDevice(i), transferSPI(i, b)
  PROVE  irq' = b /\ SPDR' = b /\ Received(i) = {SPDR}
BY DEF OnlyKeyboard, indexDevice, transferSPI, Received

LEMMA SameBuffer ==
  ASSUME GenuineBuffer, UNCHANGED <<buffer, at, key, typed>>
  PROVE  GenuineBuffer' /\ Genuine' = Genuine
BY DEF GenuineBuffer, Genuine

LEMMA MasterWritten ==
  ASSUME KEYBOARD \notin Stray, Types, Written, Clavier \/ Call \/ Client
  PROVE  Written'
<1>1. typed \in Nat
  BY DEF Types, TypeOK
<1>2. UNCHANGED <<buffer, at, key, typed, up>>
  BY DEF Clavier, Probe1, Probe2, Poll, PollUnknown, Grab1, Grab2, Call, Client,
         Size1, Size2, Keys1, Keys2, Keys3, Transfer, transferSPI, iovars, history
<1>3. GenuineBuffer' /\ Genuine' = Genuine
  BY <1>2, SameBuffer DEF Written
<1>4. OnlyKeyboard'
  <2>1. CASE Probe2
    BY <1>2, <2>1 DEF Probe2, Received, Written, OnlyKeyboard
  <2>2. CASE ~Probe2
    <3>1. UNCHANGED device
      BY <2>2 DEF Clavier, Probe1, Poll, PollUnknown, Grab1, Grab2, Call, Client,
                  Size1, Size2, Keys1, Keys2, Keys3
    <3>2. QED BY <1>2, <3>1 DEF Written, OnlyKeyboard
  <2>3. QED BY <2>1, <2>2
<1>5. NothingInvented'
  <2>1. CASE Grab2
    <3>1. PICK i \in Connector : /\ indexDevice(i) /\ transferSPI(i, IO!AskKey)
                                 /\ data' \in Received(i) /\ serial' = Append(serial, data')
      BY <2>1 DEF Grab2
    <3>2. data' = SPDR
      BY <3>1, Transferred DEF Written
    <3>3. AnswerTo(IO!AskKey, Genuine) /\ (IsrInTime => irq = NoByte)
      BY <2>1 DEF Grab2, Waited, Written, Answered
    <3>4. IO!AskKey # NoByte
      BY DEF IO!AskKey, NoByte
    <3>5. data' \in (IF IsrInTime THEN {0} ELSE {0, IO!AskKey}) \cup FirstKey..(FirstKey + typed - 1)
      BY <3>2, <3>3, <3>4 DEF AnswerTo, Genuine
    <3>6. serial \in Seq(IO!Byte)
      BY DEF Types, TypeOK
    <3>7. /\ Len(serial') = Len(serial) + 1 /\ serial'[Len(serial) + 1] = data'
          /\ \A n \in 1..Len(serial) : serial'[n] = serial[n]
      BY <3>1, <3>6
    <3>8. \A n \in 1..Len(serial') : n \in 1..Len(serial) \/ n = Len(serial) + 1
      BY <3>6, <3>7
    <3>9. QED BY <1>2, <3>5, <3>7, <3>8 DEF Written, NothingInvented
  <2>2. CASE ~Grab2
    <3>1. UNCHANGED serial
      BY <2>2 DEF Clavier, Probe1, Probe2, Poll, PollUnknown, Grab1, Call, Client,
                  Size1, Size2, Keys1, Keys2, Keys3
    <3>2. QED BY <1>1, <1>2, <3>1, SameSerial DEF Written
  <2>3. QED BY <2>1, <2>2
<1>6. Answered'
  <2> USE DEF Answered, AnswerTo, GrabKeysReadsTypes
  <2>1. CASE Grab1
    BY <2>1, Transferred DEF Grab1, Written
  <2>2. CASE Keys1
    BY <2>2, Transferred DEF Keys1, Transfer, Written
  <2>3. CASE Keys2 \/ Keys3
    <3>1. PICK i \in Connector : indexDevice(i) /\ transferSPI(i, IO!AskType)
      BY <2>3 DEF Keys2, Keys3, Transfer
    <3>2. irq' = IO!AskType /\ SPDR' = IO!AskType
      BY <3>1, Transferred DEF Written
    <3>3. PICK j \in Connector : indexDevice(j) /\ data' \in Received(j)
      BY <2>3 DEF Keys2, Keys3
    <3>4. data' = SPDR
      BY <3>3 DEF indexDevice, Received, Written, OnlyKeyboard
    <3>5. SPDR \in {KEYBOARD, IO!AskType} /\ pc' # "grab2"
      BY <2>3 DEF Keys2, Keys3, Written
    <3>6. QED BY <3>2, <3>4, <3>5
  <2>4. CASE ~(Grab1 \/ Keys1 \/ Keys2 \/ Keys3)
    <3>1. pc' \notin {"grab2", "keys2", "keys3"}
      BY <2>4 DEF Clavier, Probe1, Probe2, Poll, PollUnknown, Grab2, Call, Client, Size1, Size2
    <3>2. QED BY <3>1
  <2>5. QED BY <2>1, <2>2, <2>3, <2>4
<1>7. QED BY <1>3, <1>4, <1>5, <1>6 DEF Written

LEMMA NextWritten ==
  ASSUME KEYBOARD \notin Stray, WInv, [Next]_vars
  PROVE  WInv'
<1>1. Types'
  BY NextTypes DEF WInv
<1>2. CASE Wild \/ UNCHANGED vars
  <2>1. UNCHANGED vars
    BY <1>2 DEF Wild
  <2>2. typed \in Nat
    BY DEF WInv, Types, TypeOK
  <2>3. UNCHANGED <<buffer, SPDR, at, key, up, irq, pc, device, serial, data, typed>>
    BY <2>1 DEF vars, iovars, master, client, history
  <2>4. GenuineBuffer' /\ Genuine' = Genuine /\ NothingInvented'
    BY <2>2, <2>3, SameBuffer, SameSerial DEF WInv, Written
  <2>5. QED
    BY <1>1, <2>3, <2>4
    DEF WInv, Written, OnlyKeyboard, Answered, AnswerTo, GrabKeysReadsTypes
<1>3. CASE Boot \/ TypeKey \/ HandlerStep \/ Isr
  BY <1>1, <1>3, KeyboardWritten DEF WInv
<1>4. CASE Clavier \/ Call \/ Client
  BY <1>1, <1>4, MasterWritten DEF WInv
<1>5. QED BY <1>2, <1>3, <1>4 DEF Next

(* The invariant of the whole link, for any interrupt and any call.        *)
LEMMA WrittenInvariant ==
  ASSUME KEYBOARD \notin Stray
  PROVE  Spec => []WInv
<1>1. Init => WInv
  BY InitTypes, InitWritten DEF WInv
<1>2. WInv /\ [Next]_vars => WInv'
  BY NextWritten
<1>3. QED BY <1>1, <1>2, PTL DEF Spec

(* No character reaches the serial line that was not typed, except zeros   *)
(* and, when the interrupt comes late, the byte that asked: wherever the   *)
(* interrupt falls in keyHandler and whatever it does to the indices.      *)
THEOREM OnlyTypedIsWritten ==
  ASSUME KEYBOARD \notin Stray
  PROVE  Spec => []NothingInvented
<1>1. WInv => NothingInvented
  BY DEF WInv, Written
<1>2. QED BY <1>1, WrittenInvariant, PTL

(* grabKeys reads no character, in time or late. *)
THEOREM GrabKeysIsUseless ==
  ASSUME KEYBOARD \notin Stray
  PROVE  Spec => []GrabKeysReadsTypes
<1>1. WInv => GrabKeysReadsTypes
  BY DEF WInv, Written, Answered
<1>2. QED BY <1>1, WrittenInvariant, PTL

-----------------------------------------------------------------------------
(* The queue.  What module InOutProofs shows of the buffer holds here, for *)
(* the steps of the keyboard board are those of InOut: the characters      *)
(* waiting are a sequence, to which enqueue appends and which SPI_STC_vect *)
(* takes the first of.                                                     *)

Waiting == B!Contents

Enqueuing == at \in B!EnqueuePoint

LEMMA SlaveConstants ==
  /\ MaxData \in 1..255 /\ Key \subseteq B!Byte
  /\ IrqAt \subseteq B!Point /\ Stray \subseteq B!Byte /\ Stray # {}
BY SlaveAssumption, BoundAssumption
DEF FirstKey, Key, IO!Byte, IO!Point, IO!EnqueuePoint, B!Byte, B!Point, B!EnqueuePoint

LEMMA SlaveTypes == Types => B!TypeOK
BY DEF Types, TypeOK, IO!TypeOK, IO!BufferType, IO!Index, IO!Cell, IO!Byte, IO!Point,
       IO!EnqueuePoint, B!TypeOK, B!BufferType, B!Index, B!Cell, B!Byte, B!Point,
       B!EnqueuePoint

LEMMA SlaveInv ==
  ASSUME Types, B!Held
  PROVE  B!Inv /\ B!Mapped
<1>1. B!Inv
  BY SlaveTypes DEF B!Inv
<1>2. QED BY <1>1, SlaveConstants, B!ContentsIsView

LEMMA SlaveInvNext == Types' /\ B!Held' => B!Inv' /\ B!Mapped'
BY SlaveInv, PTL

LEMMA WaitingType ==
  ASSUME Types, B!Held
  PROVE  /\ Waiting \in Seq(0..255) /\ Len(Waiting) \in Nat
         /\ ~Enqueuing => (Waiting = <<>> <=> IO!isEmpty(buffer))
<1>1. B!Mapped /\ B!Ends(buffer.head, B!Tail0)
  BY SlaveInv DEF B!Held
<1>2. /\ Waiting \in Seq(0..255)
      /\ Waiting = <<>> <=> buffer.head = -1
  BY <1>1, SlaveConstants, B!ViewType DEF B!Mapped, Waiting, B!Byte
<1>3. QED BY <1>2, LenProperties DEF IO!isEmpty

(* The steps of the keyboard board are steps of InOut. *)
LEMMA SameSteps ==
  /\ \A k : IO!KeyHandler(k) => B!KeyHandler(k)
  /\ IO!WriteTail => B!WriteTail
  /\ IO!WriteData => B!WriteData
  /\ IO!SetHead => B!SetHead
  /\ IO!SetInt => B!SetInt
<1>1. \A k : IO!KeyHandler(k) => B!KeyHandler(k)
  BY DEF IO!KeyHandler, B!KeyHandler, IO!isFull, B!isFull, IO!shared, B!shared
<1>2. IO!WriteTail => B!WriteTail
  BY DEF IO!WriteTail, B!WriteTail, IO!nextCell, B!nextCell
<1>3. IO!WriteData => B!WriteData
  BY DEF IO!WriteData, B!WriteData, IO!nextCell, B!nextCell
<1>4. IO!SetHead => B!SetHead
  BY DEF IO!SetHead, B!SetHead, IO!isEmpty, B!isEmpty
<1>5. IO!SetInt => B!SetInt
  BY DEF IO!SetInt, B!SetInt
<1>6. QED BY <1>1, <1>2, <1>3, <1>4, <1>5

LEMMA SameIsr ==
  ASSUME NEW b, IO!SpiIsr(b)
  PROVE  B!SpiIsr(b)
<1> USE DEF IO!AskType, B!AskType, IO!AskSize, B!AskSize, IO!sizeBuffer, B!sizeBuffer,
            IO!isEmpty, B!isEmpty
<1>1. IO!IsrType(b) => B!IsrType(b)
  BY DEF IO!IsrType, B!IsrType, IO!Keyboard, B!Keyboard
<1>2. IO!IsrSize(b) => B!IsrSize(b)
  BY DEF IO!IsrSize, B!IsrSize
<1>3. IO!IsrKey(b) => B!IsrKey(b)
  BY DEF IO!IsrKey, B!IsrKey, IO!dequeueKey, B!dequeueKey, IO!dequeue, B!dequeue
<1>4. QED
  BY <1>1, <1>2, <1>3
  DEF IO!SpiIsr, B!SpiIsr, IO!CanInterrupt, B!CanInterrupt, IO!local, B!local,
      IO!EnqueuePoint, B!EnqueuePoint

(* A key typed is taken in, or dropped; it is not in the queue yet. *)
LEMMA TypeKeyQueue ==
  ASSUME Types, Types', B!Held, TypeKey
  PROVE  /\ B!Held' /\ Waiting' = Waiting
         /\ at = "idle" /\ at' \in {"writeTail", "setInt"}
         /\ at' = "writeTail" <=> ~IO!isFull(buffer)
         /\ at' = "writeTail" => Len(Waiting) < MaxData
         /\ at' = "setInt" => Len(Waiting) = MaxData
         /\ key' = FirstKey + typed
<1>1. FirstKey + typed \in Key
  BY BoundAssumption DEF TypeKey, Key, FirstKey, Types, TypeOK
<1>2. B!KeyHandler(FirstKey + typed) /\ IO!KeyHandler(FirstKey + typed)
  BY SameSteps DEF TypeKey
<1>3. B!Inv /\ B!Held'
  BY <1>1, <1>2, SlaveInv, SlaveConstants, B!HandlerHeld
<1>4. B!Inv'
  BY <1>3, SlaveInvNext
<1>5. B!Q!Offer(FirstKey + typed) \/ B!Q!Drop
  BY <1>1, <1>2, <1>3, <1>4, SlaveConstants, B!OfferStep
<1>6. Waiting' = Waiting
  BY <1>5 DEF B!Q!Offer, B!Q!Drop, Waiting
<1>7. /\ at' = "writeTail" => Len(Waiting) < MaxData
      /\ at' = "setInt" => Len(Waiting) = MaxData
  BY <1>5 DEF B!Q!Offer, B!Q!Drop, B!Q!Handled, B!Offered, Waiting
<1>8. QED BY <1>2, <1>3, <1>6, <1>7 DEF IO!KeyHandler

(* enqueue puts it in with its third write. *)
LEMMA HandlerQueue ==
  ASSUME Types, Types', B!Held, HandlerStep
  PROVE  /\ B!Held' /\ key' = key
         /\ \/ /\ at \in {"writeTail", "writeData"} /\ at' \in {"writeData", "setHead"}
               /\ Waiting' = Waiting /\ INT' = INT
            \/ /\ at = "setHead" /\ at' = "setInt"
               /\ Waiting' = Append(Waiting, key) /\ INT' = INT
            \/ /\ at = "setInt" /\ at' = "idle"
               /\ Waiting' = Waiting /\ INT' = TRUE
<1>1. B!WriteTail \/ B!WriteData \/ B!SetHead \/ B!SetInt
  BY SameSteps DEF HandlerStep, IO!HandlerStep
<1>2. B!Inv /\ B!Held' /\ B!Inv'
  <2>1. B!HandlerStep
    BY <1>1 DEF B!HandlerStep
  <2>2. B!Held'
    BY <2>1, SlaveInv, SlaveConstants, B!HandlerHeld
  <2>3. QED BY <2>2, SlaveInv, SlaveInvNext
<1>3. CASE B!WriteTail \/ B!WriteData
  <2>1. B!Same
    BY <1>2, <1>3, SlaveConstants, B!WriteStep
  <2>2. QED BY <1>2, <1>3, <2>1 DEF B!WriteTail, B!WriteData, B!Same, Waiting
<1>4. CASE B!SetHead
  <2>1. B!Q!Put(key)
    BY <1>2, <1>4, SlaveConstants, B!PutStep
  <2>2. QED BY <1>2, <1>4, <2>1 DEF B!SetHead, B!Q!Put, Waiting
<1>5. CASE B!SetInt
  <2>1. B!Q!Raise
    BY <1>2, <1>5, SlaveConstants, B!RaiseStep
  <2>2. QED BY <1>2, <1>5, <2>1 DEF B!SetInt, B!Q!Raise, Waiting
<1>6. QED BY <1>1, <1>3, <1>4, <1>5

(* SPI_STC_vect outside enqueue: only the request for a key takes one. *)
LEMMA IsrQueue ==
  ASSUME Types, Types', B!Held, Isr, ~Enqueuing
  PROVE  /\ B!Held'
         /\ irq # IO!AskKey => Waiting' = Waiting /\ INT' = INT
         /\ irq = IO!AskKey =>
              /\ SPDR' = IF Waiting = <<>> THEN 0 ELSE Head(Waiting)
              /\ Waiting' = IF Waiting = <<>> THEN <<>> ELSE Tail(Waiting)
              /\ INT' = (INT /\ Waiting' # <<>>)
<1> USE DEF IO!AskType, B!AskType, IO!AskSize, B!AskSize, IO!AskKey, B!AskKey
<1>1. irq \in B!Request /\ (irq = IO!AskType \/ irq = IO!AskSize \/ irq = IO!AskKey)
  BY DEF Isr, Types, TypeOK, IO!Request, B!Request
<1>2. B!SpiIsr(irq)
  BY SameIsr DEF Isr
<1>3. B!Held'
  BY <1>1, <1>2, SlaveInv, SlaveConstants, B!IsrHeld DEF Enqueuing
<1>4. B!Inv /\ B!Inv'
  BY <1>3, SlaveInv, SlaveInvNext
<1>5. /\ irq = IO!AskType => B!Q!AnswerType
      /\ irq = IO!AskSize => B!Q!AnswerSize
      /\ irq = IO!AskKey  => B!Q!AnswerKey
  BY <1>1, <1>2, <1>4, SlaveConstants, B!AnswerStep DEF Enqueuing
<1>6. B!Q!AnswerType \/ B!Q!AnswerSize => Waiting' = Waiting /\ INT' = INT
  BY DEF B!Q!AnswerType, B!Q!AnswerSize, Waiting
<1>7. B!Q!AnswerKey =>
        /\ SPDR' = IF Waiting = <<>> THEN 0 ELSE Head(Waiting)
        /\ Waiting' = IF Waiting = <<>> THEN <<>> ELSE Tail(Waiting)
        /\ INT' = (INT /\ Waiting' # <<>>)
  BY DEF B!Q!AnswerKey, Waiting
<1>8. QED BY <1>1, <1>3, <1>5, <1>6, <1>7

(* What leaves the buffer alone leaves the queue alone. *)
LEMMA Untouched ==
  ASSUME Types, Types', B!Held, UNCHANGED <<buffer, sizeSendFlag, at, key, ktail>>
  PROVE  B!Held' /\ Waiting' = Waiting /\ (Enqueuing' <=> Enqueuing)
<1>1. B!Held' /\ B!Tail0' = B!Tail0
  BY DEF B!Held, B!Tail0
<1>2. B!Mapped /\ B!Mapped'
  BY <1>1, SlaveInv, SlaveInvNext
<1>3. QED BY <1>1, <1>2 DEF B!Mapped, Waiting, Enqueuing

(* The main board's steps do. *)
LEMMA MasterLeaves ==
  ASSUME Clavier \/ Call \/ Client
  PROVE  /\ UNCHANGED <<buffer, sizeSendFlag, INT, at, key, ktail>>
         /\ UNCHANGED <<up, typed, spaced, dropped, raced>>
BY DEF Clavier, Probe1, Probe2, Poll, PollUnknown, Grab1, Grab2, Call, Client,
       Size1, Size2, Keys1, Keys2, Keys3, Transfer, transferSPI, iovars, history

(* And keyHandler notes no interrupt. *)
LEMMA KeptByHandler ==
  ASSUME TypeKey \/ HandlerStep
  PROVE  raced' = raced
BY DEF TypeKey, HandlerStep, IO!KeyHandler, IO!HandlerStep, IO!WriteTail, IO!WriteData,
       IO!SetHead, IO!SetInt

-----------------------------------------------------------------------------
(* Sequences of characters, by the order of the keys. *)

Rising(s)    == \A i, j \in 1..Len(s) : i < j => s[i] < s[j]
Within(s, n) == \A i \in 1..Len(s) : s[i] \in FirstKey..n
Below(s, k)  == \A i \in 1..Len(s) : s[i] < k
Above(s, k)  == \A i \in 1..Len(s) : k < s[i]
Before(s, t) == \A i \in 1..Len(s), j \in 1..Len(t) : s[i] < t[j]

LEMMA OneMore ==
  ASSUME NEW s \in Seq(0..255), NEW k \in 0..255
  PROVE  LET u == Append(s, k)
         IN  /\ u \in Seq(0..255)
             /\ Rising(s) /\ Below(s, k) => Rising(u)
             /\ \A n \in Int : Within(s, n) /\ k \in FirstKey..n => Within(u, n)
             /\ \A l : Above(s, l) /\ l < k => Above(u, l)
             /\ \A l : Below(s, l) /\ k < l => Below(u, l)
             /\ \A t : Before(s, t) /\ Above(t, k) => Before(u, t)
             /\ \A t : Before(t, s) /\ Below(t, k) => Before(t, u)
<1> DEFINE u == Append(s, k)
<1>1. /\ u \in Seq(0..255) /\ Len(u) = Len(s) + 1 /\ u[Len(s) + 1] = k
      /\ \A i \in 1..Len(s) : u[i] = s[i]
  BY AppendProperties
<1>2. Len(s) \in Nat
  BY LenProperties
<1>3. \A i \in 1..Len(u) : i \in 1..Len(s) \/ i = Len(s) + 1
  BY <1>1, <1>2
<1> HIDE DEF u
<1>4. Rising(s) /\ Below(s, k) => Rising(u)
  BY <1>1, <1>2, <1>3 DEF Rising, Below
<1>5. \A n \in Int : Within(s, n) /\ k \in FirstKey..n => Within(u, n)
  BY <1>1, <1>3 DEF Within
<1>6. /\ \A l : Above(s, l) /\ l < k => Above(u, l)
      /\ \A l : Below(s, l) /\ k < l => Below(u, l)
  BY <1>1, <1>3 DEF Above, Below
<1>7. /\ \A t : Before(s, t) /\ Above(t, k) => Before(u, t)
      /\ \A t : Before(t, s) /\ Below(t, k) => Before(t, u)
  BY <1>1, <1>3 DEF Before, Above, Below
<1>8. QED BY <1>1, <1>4, <1>5, <1>6, <1>7 DEF u

LEMMA OneLess ==
  ASSUME NEW s \in Seq(0..255), s # <<>>
  PROVE  /\ Head(s) \in 0..255 /\ Tail(s) \in Seq(0..255)
         /\ Len(Tail(s)) = Len(s) - 1 /\ Len(s) \in Nat
         /\ Rising(s) => Rising(Tail(s)) /\ Above(Tail(s), Head(s))
         /\ \A n : Within(s, n) => Within(Tail(s), n) /\ Head(s) \in FirstKey..n
         /\ \A t : Before(t, s) => Before(t, Tail(s)) /\ Below(t, Head(s))
<1> DEFINE u == Tail(s)
<1>1. /\ u \in Seq(0..255) /\ Len(u) = Len(s) - 1
      /\ Head(s) \in 0..255
      /\ \A i \in 1..Len(u) : u[i] = s[i + 1]
  BY HeadTailProperties
<1>2. Len(s) \in Nat /\ Len(s) # 0 /\ Head(s) = s[1]
  BY EmptySeq, LenProperties
<1>3. 1 \in 1..Len(s) /\ \A i \in 1..Len(u) : i \in Int /\ i + 1 \in 1..Len(s) /\ 1 < i + 1
  BY <1>1, <1>2
<1> HIDE DEF u
<1>4. Rising(s) => Rising(u)
  <2> SUFFICES ASSUME Rising(s), NEW i \in 1..Len(u), NEW j \in 1..Len(u), i < j
               PROVE  u[i] < u[j]
    BY DEF Rising
  <2>1. i + 1 < j + 1
    BY <1>3
  <2>2. QED BY <1>1, <1>3, <2>1 DEF Rising
<1>5. Rising(s) => Above(u, Head(s))
  BY <1>1, <1>2, <1>3 DEF Rising, Above
<1>6. \A n : Within(s, n) => Within(u, n) /\ Head(s) \in FirstKey..n
  BY <1>1, <1>2, <1>3 DEF Within
<1>7. \A t : Before(t, s) => Before(t, u) /\ Below(t, Head(s))
  BY <1>1, <1>2, <1>3 DEF Before, Below
<1>8. QED BY <1>1, <1>2, <1>4, <1>5, <1>6, <1>7 DEF u

LEMMA NoneYet ==
  \A t : Before(<<>>, t) /\ Before(t, <<>>)
BY DEF Before

-----------------------------------------------------------------------------
(* What is delivered. *)

LEMMA DeliveredType ==
  ASSUME Types
  PROVE  /\ Delivered \in Seq(Key) /\ Delivered \in Seq(0..255)
         /\ Len(Delivered) \in Nat /\ Len(serial) \in Nat
<1>1. serial \in Seq(IO!Byte)
  BY DEF Types, TypeOK
<1>2. Delivered \in Seq(Key \cap IO!Byte)
  BY <1>1, OnlyType DEF Delivered
<1>3. Delivered \in Seq(Key) /\ Delivered \in Seq(0..255)
  BY <1>2, SeqMonotonic DEF IO!Byte
<1>4. QED BY <1>1, <1>3, LenProperties

(* What a step of the main board does to the line and to the serial line:  *)
(* the second transfer of a grab writes what SPDR held.                    *)
Writes ==
  /\ pc = "grab2" /\ pc' = "poll" /\ irq' = IO!AskKey
  /\ serial' = Append(serial, SPDR) /\ SPDR \in 0..255
  /\ AnswerTo(IO!AskKey, Genuine) /\ (IsrInTime => irq = NoByte)
  /\ UNCHANGED sized

Serves ==
  /\ UNCHANGED serial
  /\ pc # "grab2"
  /\ pc' = "grab2" => pc = "grab1" /\ irq' = IO!AskKey
  /\ pc' = "grab1" => INT
  /\ \/ UNCHANGED <<irq, sized>> /\ pc \notin {"size1", "size2"} /\ pc' \notin {"size1", "size2"}
     \/ irq' = irq /\ sized' = sized + 1 /\ pc = "poll" /\ pc' = "size1"
     \/ /\ irq' = IO!AskSize /\ sized' = sized /\ pc = "size1" /\ pc' = "size2"
     \/ /\ irq' = IO!AskKey /\ sized' = sized /\ pc = "size2" /\ pc' = "poll"
     \/ /\ irq' = IO!AskKey /\ sized' = sized /\ pc = "grab1" /\ pc' = "grab2"
     \/ /\ irq' \in {irq, IO!AskType} /\ sized' = sized
        /\ pc \notin {"grab1", "grab2", "size1", "size2"}
        /\ pc' \notin {"grab1", "grab2", "size1", "size2"}

LEMMA MasterServes ==
  ASSUME WInv, Clavier \/ Call \/ Client
  PROVE  Writes \/ Serves
<1>1. OnlyKeyboard
  BY DEF WInv, Written
<1>2. \A b : Transfer(b) => irq' = b
  BY <1>1, Transferred DEF Transfer
<1>3. CASE Probe1 \/ Probe2
  BY <1>3 DEF Probe1, Probe2, transferSPI, client, Serves
<1>4. CASE Poll \/ PollUnknown
  <2>1. pc' = "grab1" => INT
    BY <1>1, <1>4 DEF Poll, PollUnknown, indexDevice, OnlyKeyboard
  <2>2. QED BY <1>4, <2>1 DEF Poll, PollUnknown, iovars, client, Serves
<1>5. CASE Grab1
  BY <1>1, <1>5, Transferred DEF Grab1, client, Serves
<1>6. CASE Grab2
  <2>1. PICK i \in Connector : /\ indexDevice(i) /\ transferSPI(i, IO!AskKey)
                               /\ data' \in Received(i) /\ serial' = Append(serial, data')
    BY <1>6 DEF Grab2
  <2>2. data' = SPDR /\ irq' = IO!AskKey
    BY <1>1, <2>1, Transferred
  <2>3. SPDR \in 0..255
    BY DEF WInv, Types, TypeOK, IO!TypeOK, IO!Byte
  <2>4. AnswerTo(IO!AskKey, Genuine)
    BY <1>6 DEF Grab2, WInv, Written, Answered
  <2>5. QED BY <1>6, <2>1, <2>2, <2>3, <2>4 DEF Grab2, Waited, Writes
<1>7. CASE Call
  BY <1>7 DEF Call, iovars, Serves
<1>8. CASE Client
  BY <1>2, <1>8 DEF Client, Size1, Size2, Keys1, Keys2, Keys3, client, Serves
<1>9. QED BY <1>3, <1>4, <1>5, <1>6, <1>7, <1>8 DEF Clavier

-----------------------------------------------------------------------------
(* The order of the keys: those delivered, then the one SPDR holds for the *)
(* second transfer of a grab, then those waiting, then the one enqueue has *)
(* in hand.                                                                *)

Newest == FirstKey + typed - (IF Enqueuing THEN 2 ELSE 1)

Order ==
  /\ B!Held
  /\ Enqueuing => key = FirstKey + typed - 1
  /\ Within(Waiting, Newest) /\ Rising(Waiting)
  /\ Within(Delivered, Newest) /\ Rising(Delivered) /\ Before(Delivered, Waiting)
  /\ Answering => SPDR <= Newest /\ Below(Delivered, SPDR) /\ Above(Waiting, SPDR)

OrderInv == WInv /\ (~raced => Order)

LEMMA KeyBounds ==
  ASSUME Types
  PROVE  /\ typed \in Nat /\ Newest \in Int
         /\ 0 \notin Key /\ IO!AskKey \notin Key /\ Key \subseteq 0..255
         /\ IO!AskKey # NoByte
BY BoundAssumption DEF Types, TypeOK, Newest, FirstKey, Key, IO!AskKey, NoByte

LEMMA WithinMore ==
  ASSUME NEW s, NEW m \in Int, NEW n \in Int, m <= n, Within(s, m)
  PROVE  Within(s, n)
BY DEF Within, FirstKey

LEMMA WithinBelow ==
  ASSUME NEW s, NEW m \in Int, NEW n \in Int, m < n, Within(s, m)
  PROVE  Below(s, n)
BY DEF Within, Below, FirstKey

LEMMA InitOrder == Init => Order
<1> SUFFICES ASSUME Init PROVE Order
  OBVIOUS
<1>1. Types /\ ~Enqueuing /\ ~Answering
  BY InitTypes DEF Init, IO!Init, Enqueuing, B!EnqueuePoint, Answering
<1>2. B!Held
  BY SlaveConstants DEF Init, IO!Init, IO!EmptyBuffer, B!Held, B!Ends, B!Tail0, B!Index, B!EnqueuePoint
<1>3. Waiting = <<>>
  BY <1>1, <1>2, WaitingType DEF Init, IO!Init, IO!EmptyBuffer, IO!isEmpty
<1>4. Delivered = <<>>
  BY OnlyEmpty DEF Init, Delivered
<1>5. QED BY <1>1, <1>2, <1>3, <1>4, NoneYet DEF Order, Within, Rising

(* A step that leaves the queue and what was delivered alone, and prepares *)
(* no answer.                                                              *)
LEMMA OrderKept ==
  ASSUME Order, B!Held', Waiting' = Waiting, UNCHANGED <<serial, at, key, typed>>,
         ~Answering' \/ UNCHANGED <<pc, irq, SPDR>>
  PROVE  Order'
<1>1. Delivered' = Delivered
  BY DEF Delivered
<1>2. (Enqueuing' <=> Enqueuing) /\ Newest' = Newest
  BY DEF Enqueuing, Newest
<1>3. Answering' => Answering /\ SPDR' = SPDR
  BY DEF Answering
<1>4. QED BY <1>1, <1>2, <1>3 DEF Order

LEMMA TypeKeyOrder ==
  ASSUME Types, Types', Order, TypeKey
  PROVE  Order'
<1>1. /\ B!Held' /\ Waiting' = Waiting /\ at = "idle"
      /\ at' \in {"writeTail", "setInt"} /\ key' = FirstKey + typed
  BY TypeKeyQueue DEF Order
<1>2. typed' = typed + 1 /\ typed \in Nat /\ UNCHANGED <<serial, pc, irq, SPDR>>
  BY DEF TypeKey, Types, TypeOK, IO!KeyHandler, IO!shared, master
<1>3. Delivered' = Delivered /\ (Answering' <=> Answering)
  BY <1>2 DEF Delivered, Answering
<1>4. Newest \in Int /\ Newest' \in Int /\ Newest <= Newest'
  BY <1>1, <1>2 DEF Newest, Enqueuing, B!EnqueuePoint, FirstKey
<1>5. key' = FirstKey + typed' - 1
  BY <1>1, <1>2 DEF FirstKey
<1>6. Within(Waiting', Newest') /\ Within(Delivered', Newest')
  BY <1>1, <1>3, <1>4, WithinMore DEF Order
<1>7. Answering' => SPDR' <= Newest'
  BY <1>2, <1>3, <1>4 DEF Order, Answering, Key, FirstKey
<1>8. QED BY <1>1, <1>2, <1>3, <1>5, <1>6, <1>7 DEF Order

LEMMA HandlerOrder ==
  ASSUME Types, Types', Order, HandlerStep
  PROVE  Order'
<1>1. /\ UNCHANGED <<serial, pc, irq, SPDR, typed>> /\ typed \in Nat
  BY DEF HandlerStep, IO!HandlerStep, IO!WriteTail, IO!WriteData, IO!SetHead, IO!SetInt,
         master, history, Types, TypeOK
<1>2. Delivered' = Delivered /\ (Answering' <=> Answering)
  BY <1>1 DEF Delivered, Answering
<1>3. B!Held' /\ key' = key /\ Newest \in Int /\ Newest' \in Int
  BY <1>1, HandlerQueue DEF Order, Newest, FirstKey
<1>4. CASE Waiting' = Waiting
  <2>1. (Enqueuing' <=> Enqueuing) \/ ~Enqueuing'
    BY HandlerQueue DEF Order, Enqueuing, B!EnqueuePoint
  <2>2. Newest <= Newest' /\ (Enqueuing' => Enqueuing)
    BY <1>1, <2>1 DEF Newest, FirstKey
  <2>3. Within(Waiting', Newest') /\ Within(Delivered', Newest')
    BY <1>2, <1>3, <1>4, <2>2, WithinMore DEF Order
  <2>4. Answering' => SPDR' <= Newest'
    BY <1>1, <1>2, <1>3, <2>2 DEF Order, Answering, Key, FirstKey
  <2>5. QED BY <1>1, <1>2, <1>3, <1>4, <2>2, <2>3, <2>4 DEF Order
<1>5. CASE at = "setHead" /\ at' = "setInt" /\ Waiting' = Append(Waiting, key)
  <2>1. Enqueuing /\ ~Enqueuing' /\ key = FirstKey + typed - 1
    BY <1>5 DEF Order, Enqueuing, B!EnqueuePoint
  <2>2. Newest < key /\ Newest' = key /\ key \in FirstKey..Newest'
    <3>1. Newest = FirstKey + typed - 2 /\ Newest' = FirstKey + typed - 1
      BY <1>1, <2>1 DEF Newest
    <3>2. key \in Key
      BY <1>5 DEF Order, B!Held, B!EnqueuePoint
    <3>3. QED BY <1>1, <2>1, <3>1, <3>2 DEF FirstKey, Key
  <2>3. Waiting \in Seq(0..255) /\ key \in 0..255 /\ key \in Int
    BY WaitingType DEF Order, Types, TypeOK, IO!TypeOK, IO!Byte
  <2>4. Below(Waiting, key) /\ Below(Delivered, key)
    BY <1>3, <2>2, <2>3, WithinBelow DEF Order
  <2>5. Within(Waiting, Newest') /\ Within(Delivered', Newest')
    BY <1>2, <1>3, <2>2, <2>3, WithinMore DEF Order
  <2>6. /\ Within(Waiting', Newest') /\ Rising(Waiting')
        /\ Before(Delivered', Waiting')
    BY <1>2, <1>3, <1>5, <2>2, <2>3, <2>4, <2>5, OneMore DEF Order
  <2>7. Answering' => SPDR' <= Newest' /\ SPDR' < key
    BY <1>1, <1>2, <1>3, <2>2, <2>3 DEF Order, Answering, Key, FirstKey
  <2>8. Answering' => Above(Waiting', SPDR')
    <3>1. Answering' => Above(Waiting, SPDR)
      BY <1>2 DEF Order
    <3>2. QED BY <1>1, <1>5, <2>3, <2>7, <3>1, OneMore
  <2>9. QED BY <1>1, <1>2, <1>3, <2>1, <2>5, <2>6, <2>7, <2>8 DEF Order
<1>6. QED BY <1>4, <1>5, HandlerQueue DEF Order

LEMMA IsrOrder ==
  ASSUME WInv, Types', Order, Isr, ~Enqueuing
  PROVE  Order'
<1>1. /\ UNCHANGED <<serial, at, key, typed, pc>> /\ irq # NoByte /\ Types
  BY DEF Isr, IO!SpiIsr, IO!local, master, WInv
<1>2. /\ B!Held'
      /\ irq # IO!AskKey => Waiting' = Waiting
      /\ irq = IO!AskKey =>
           /\ SPDR' = IF Waiting = <<>> THEN 0 ELSE Head(Waiting)
           /\ Waiting' = IF Waiting = <<>> THEN <<>> ELSE Tail(Waiting)
  BY <1>1, IsrQueue DEF Order
<1>3. pc = "grab2" => irq = IO!AskKey
  BY <1>1 DEF WInv, Written, Answered, AnswerTo
<1>4. 0 \notin Key
  BY <1>1, KeyBounds
<1>5. CASE Waiting' = Waiting /\ ~Answering'
  BY <1>1, <1>2, <1>5, OrderKept
<1>6. CASE irq = IO!AskKey /\ Waiting # <<>>
  <2>1. Waiting \in Seq(0..255) /\ Waiting' = Tail(Waiting) /\ SPDR' = Head(Waiting)
    BY <1>1, <1>2, <1>6, WaitingType DEF Order
  <2>2. /\ Delivered' = Delivered /\ ~Enqueuing' /\ Newest' = Newest
    BY <1>1 DEF Delivered, Enqueuing, Newest
  <2>3. /\ Rising(Waiting) /\ Within(Waiting, Newest) /\ Before(Delivered, Waiting)
    BY DEF Order
  <2>4. Rising(Waiting') /\ Above(Waiting', SPDR')
    BY <1>6, <2>1, <2>3, OneLess
  <2>5. Within(Waiting', Newest') /\ SPDR' \in FirstKey..Newest'
    BY <1>6, <2>1, <2>2, <2>3, OneLess
  <2>6. Before(Delivered', Waiting') /\ Below(Delivered', SPDR')
    BY <1>6, <2>1, <2>2, <2>3, OneLess
  <2>7. SPDR' <= Newest'
    BY <2>5, <1>1, KeyBounds, <2>2
  <2>8. QED BY <1>2, <2>2, <2>4, <2>5, <2>6, <2>7 DEF Order
<1>7. CASE irq = IO!AskKey /\ Waiting = <<>>
  BY <1>2, <1>4, <1>5, <1>7 DEF Answering
<1>8. irq # IO!AskKey => Waiting' = Waiting /\ ~Answering'
  BY <1>1, <1>2, <1>3 DEF Answering
<1>9. QED BY <1>5, <1>6, <1>7, <1>8

(* The second transfer of a grab writes what it answers: a character or    *)
(* not, and the byte that asked when SPI_STC_vect is late.                 *)
LEMMA Delivery ==
  ASSUME Types, Writes
  PROVE  /\ Delivered' = IF Answering THEN Append(Delivered, SPDR) ELSE Delivered
         /\ Len(serial') = Len(serial) + 1
         /\ ~Answering'
<1>1. serial \in Seq(IO!Byte) /\ SPDR \in IO!Byte /\ serial' = Append(serial, SPDR)
  BY DEF Types, TypeOK, Writes, IO!Byte
<1>2. Delivered' = IF SPDR \in Key THEN Append(Delivered, SPDR) ELSE Delivered
  BY <1>1, OnlyAppend DEF Delivered
<1>3. Len(serial') = Len(serial) + 1
  BY <1>1
<1>4. (irq = IO!AskKey /\ SPDR = IO!AskKey) \/ irq = NoByte
  BY DEF Writes, AnswerTo
<1>5. (SPDR \in Key) <=> Answering
  BY <1>4, KeyBounds DEF Writes, Answering
<1>6. QED BY <1>2, <1>3, <1>5 DEF Writes, Answering

LEMMA MasterOrder ==
  ASSUME WInv, Types', Order, Clavier \/ Call \/ Client
  PROVE  Order'
<1>1. Types /\ UNCHANGED <<buffer, sizeSendFlag, at, key, ktail, typed>>
  BY MasterLeaves DEF WInv
<1>2. B!Held' /\ Waiting' = Waiting /\ (Enqueuing' <=> Enqueuing) /\ Newest' = Newest
  BY <1>1, Untouched DEF Order, Newest
<1>3. CASE Writes
  <2>1. ~Answering' /\ Delivered' = IF Answering THEN Append(Delivered, SPDR) ELSE Delivered
    BY <1>1, <1>3, Delivery
  <2>2. CASE Answering
    <3>1. Delivered' = Append(Delivered, SPDR)
      BY <2>1, <2>2
    <3>2. Delivered \in Seq(0..255) /\ SPDR \in 0..255
      BY <1>1, <1>3, DeliveredType DEF Writes
    <3>3. SPDR \in FirstKey..Newest /\ Newest \in Int
      BY <1>1, <2>2, KeyBounds DEF Order, Answering, Key
    <3>4. Below(Delivered, SPDR) /\ Above(Waiting, SPDR)
      BY <2>2 DEF Order
    <3>5. Rising(Delivered) /\ Within(Delivered, Newest) /\ Before(Delivered, Waiting)
      BY DEF Order
    <3>6. Rising(Delivered') /\ Within(Delivered', Newest) /\ Before(Delivered', Waiting)
      BY <3>1, <3>2, <3>3, <3>4, <3>5, OneMore
    <3>7. QED BY <1>1, <1>2, <2>1, <3>6 DEF Order
  <2>3. CASE ~Answering
    BY <1>1, <1>2, <2>1, <2>3 DEF Order
  <2>4. QED BY <2>2, <2>3
<1>4. CASE Serves
  <2>1. UNCHANGED serial
    BY <1>4 DEF Serves
  <2>2. ~Answering'
    BY <1>1, <1>4, KeyBounds DEF Serves, Answering
  <2>3. QED BY <1>1, <1>2, <2>1, <2>2, OrderKept
<1>5. QED BY <1>3, <1>4, MasterServes

LEMMA NextOrder ==
  ASSUME KEYBOARD \notin Stray, OrderInv, [Next]_vars
  PROVE  OrderInv'
<1>1. WInv /\ Types /\ WInv' /\ Types'
  BY NextWritten, NextTypes DEF OrderInv, WInv
<1> SUFFICES ASSUME ~raced' PROVE Order'
  BY <1>1 DEF OrderInv
<1>2. Isr /\ Enqueuing => raced'
  <2>1. Isr /\ Enqueuing => raced' = TRUE
    BY DEF Isr, IO!SpiIsr, Enqueuing, IO!EnqueuePoint, B!EnqueuePoint
  <2>2. QED BY <2>1
<1>3. raced => raced'
  <2>1. Isr /\ raced => raced' = TRUE
    BY DEF Isr, IO!SpiIsr
  <2>2. Isr \/ raced' = raced
    BY KeptByHandler, MasterLeaves DEF Next, Boot, Wild, vars, iovars
  <2>3. QED BY <2>1, <2>2
<1>4. Order /\ (Isr => ~Enqueuing)
  BY <1>2, <1>3 DEF OrderInv
<1>5. CASE Boot \/ Wild \/ UNCHANGED vars
  <2>1. UNCHANGED <<buffer, sizeSendFlag, SPDR, at, key, ktail, irq, pc, serial, typed>>
    BY <1>5 DEF Boot, Wild, vars, iovars, master, client, history
  <2>2. B!Held' /\ Waiting' = Waiting
    BY <1>1, <1>4, <2>1, Untouched DEF Order
  <2>3. QED BY <1>4, <2>1, <2>2, OrderKept
<1>6. CASE TypeKey
  BY <1>1, <1>4, <1>6, TypeKeyOrder
<1>7. CASE HandlerStep
  BY <1>1, <1>4, <1>7, HandlerOrder
<1>8. CASE Isr
  BY <1>1, <1>4, <1>8, IsrOrder
<1>9. CASE Clavier \/ Call \/ Client
  BY <1>1, <1>4, <1>9, MasterOrder
<1>10. QED BY <1>5, <1>6, <1>7, <1>8, <1>9 DEF Next

LEMMA OrderInvariant ==
  ASSUME KEYBOARD \notin Stray
  PROVE  Spec => []OrderInv
<1>1. Init => OrderInv
  BY InitTypes, InitWritten, InitOrder DEF OrderInv, WInv
<1>2. OrderInv /\ [Next]_vars => OrderInv'
  BY NextOrder
<1>3. QED BY <1>1, <1>2, PTL DEF Spec

(* The keys written come in the order typed and none twice, for any buffer *)
(* and any delay of SPI_STC_vect, as long as it does not fall inside       *)
(* enqueue; a keyboard must not be read off an unconnected line.           *)
THEOREM KeysWrittenInOrder ==
  ASSUME KEYBOARD \notin Stray
  PROVE  Spec => []WrittenOnce
<1>1. OrderInv => WrittenOnce
  BY DEF OrderInv, Order, Rising, WrittenOnce
<1>2. QED BY <1>1, OrderInvariant, PTL

-----------------------------------------------------------------------------
(* The keys lost, where SPI_STC_vect does not fall inside enqueue.  Each   *)
(* key the buffer took is in the hand of enqueue, waiting, in SPDR for a   *)
(* grab to write, or delivered; or it was taken by a byte that asked for a *)
(* key and was answered outside a grab.  A grab leaves one such byte       *)
(* behind, and so does a call of bufferSize.                               *)

Outside == IrqAt \cap IO!EnqueuePoint = {}

InHand == IF Enqueuing THEN 1 ELSE 0
InSPDR == IF Answering THEN 1 ELSE 0
Asked  == IF irq = IO!AskKey /\ pc # "grab2" THEN 1 ELSE 0
Sizing == IF pc \in {"size1", "size2"} THEN 1 ELSE 0

Kept    == InHand + Len(Waiting) + InSPDR + Len(Delivered)
Allowed == (Len(serial) - Asked) + (sized - Sizing)

Taken == typed - dropped
Bound == Kept + Allowed

LossInv == WInv /\ Order /\ Taken <= Bound

LEMMA Amounts ==
  ASSUME Types, B!Held
  PROVE  /\ InHand \in {0, 1} /\ InSPDR \in {0, 1} /\ Asked \in {0, 1} /\ Sizing \in {0, 1}
         /\ Len(Waiting) \in Nat /\ Len(Delivered) \in Nat /\ Len(serial) \in Nat
         /\ typed \in Nat /\ dropped \in Nat /\ sized \in Nat
         /\ Kept \in Int /\ Allowed \in Int /\ Taken \in Int /\ Bound \in Int
<1>1. InHand \in {0, 1} /\ InSPDR \in {0, 1} /\ Asked \in {0, 1} /\ Sizing \in {0, 1}
  BY DEF InHand, InSPDR, Asked, Sizing
<1>2. Len(Waiting) \in Nat /\ Len(Delivered) \in Nat /\ Len(serial) \in Nat
  BY WaitingType, DeliveredType
<1>3. typed \in Nat /\ dropped \in Nat /\ sized \in Nat
  BY BoundAssumption DEF Types, TypeOK
<1>4. Kept \in Int /\ Allowed \in Int /\ Taken \in Int
  BY <1>1, <1>2, <1>3 DEF Kept, Allowed, Taken
<1>5. QED BY <1>1, <1>2, <1>3, <1>4 DEF Bound

LEMMA AmountsNext ==
  Types' /\ B!Held' =>
    (/\ InHand \in {0, 1} /\ InSPDR \in {0, 1} /\ Asked \in {0, 1} /\ Sizing \in {0, 1}
     /\ Len(Waiting) \in Nat /\ Len(Delivered) \in Nat /\ Len(serial) \in Nat
     /\ typed \in Nat /\ dropped \in Nat /\ sized \in Nat
     /\ Kept \in Int /\ Allowed \in Int /\ Taken \in Int /\ Bound \in Int)'
BY Amounts, PTL

(* What Order says of the queue, before and after a step. *)
LEMMA OrderHolds ==
  ASSUME WInv, Order, WInv', Order'
  PROVE  /\ Types /\ Types' /\ B!Held /\ B!Held'
         /\ \A s : Within(s, Newest) /\ s # <<>> /\ s \in Seq(0..255) => Head(s) \in Key
<1>1. Types /\ Types' /\ B!Held /\ B!Held'
  BY DEF WInv, Order
<1>2. FirstKey..Newest \subseteq Key
  BY <1>1, BoundAssumption DEF Types, TypeOK, Newest, Key, FirstKey
<1>3. QED BY <1>1, <1>2, OneLess

LEMMA KeyboardLoss ==
  ASSUME WInv', Order', LossInv, TypeKey \/ HandlerStep
  PROVE  LossInv'
<1>1. /\ Types /\ Types' /\ B!Held /\ B!Held' /\ WInv /\ Order
      /\ Taken <= Bound
  BY OrderHolds DEF LossInv
<1>2. /\ Len(Waiting) \in Nat /\ typed \in Nat /\ dropped \in Nat
      /\ Kept \in Int /\ Allowed \in Int /\ Taken \in Int /\ Bound \in Int
  BY <1>1, Amounts
<1>3. UNCHANGED <<serial, pc, irq, SPDR, sized>>
  BY DEF TypeKey, IO!KeyHandler, IO!shared, HandlerStep, IO!HandlerStep, IO!WriteTail,
         IO!WriteData, IO!SetHead, IO!SetInt, master, client
<1>4. Allowed' = Allowed /\ InSPDR' = InSPDR /\ Delivered' = Delivered
  BY <1>3 DEF Allowed, Asked, Sizing, InSPDR, Answering, Delivered
<1>5. Len(Delivered) \in Nat /\ InSPDR \in Int
  BY <1>1, Amounts
<1>6. CASE TypeKey
  <2>1. /\ Waiting' = Waiting /\ at = "idle" /\ at' \in {"writeTail", "setInt"}
        /\ at' = "writeTail" <=> ~IO!isFull(buffer)
    BY <1>1, <1>6, TypeKeyQueue
  <2>2. /\ typed' = typed + 1
        /\ dropped' = IF at' = "writeTail" THEN dropped ELSE dropped + 1
    BY <1>6, <2>1 DEF TypeKey
  <2>3. InHand = 0 /\ InHand' = IF at' = "writeTail" THEN 1 ELSE 0
    BY <2>1 DEF InHand, Enqueuing, B!EnqueuePoint
  <2>4. PICK i \in {0, 1} : InHand' = i
    BY <2>3
  <2>5. Kept' = Kept + i
    BY <1>2, <1>4, <1>5, <2>1, <2>3, <2>4 DEF Kept
  <2>6. Taken' = Taken + i /\ Bound' = Bound + i
    BY <1>2, <1>4, <2>2, <2>3, <2>4, <2>5 DEF Taken, Bound
  <2>7. Taken' <= Bound'
    <3>1. Taken + i <= Bound + i
      BY <1>1, <1>2, <2>4
    <3>2. QED BY <2>6, <3>1
  <2>8. QED BY <2>7 DEF LossInv
<1>7. CASE HandlerStep
  <2>1. UNCHANGED <<typed, dropped>>
    BY <1>7 DEF HandlerStep, history
  <2>2. \/ Waiting' = Waiting /\ InHand' = InHand
        \/ Waiting' = Append(Waiting, key) /\ InHand = 1 /\ InHand' = 0
    BY <1>1, <1>7, HandlerQueue DEF InHand, Enqueuing, B!EnqueuePoint
  <2>3. Kept' = Kept
    <3>1. CASE Waiting' = Waiting /\ InHand' = InHand
      BY <1>4, <3>1 DEF Kept
    <3>2. CASE Waiting' = Append(Waiting, key) /\ InHand = 1 /\ InHand' = 0
      <4>1. Waiting \in Seq(0..255) /\ key \in 0..255
        BY <1>1, WaitingType DEF Types, TypeOK, IO!TypeOK, IO!Byte
      <4>2. Len(Waiting') = Len(Waiting) + 1
        BY <3>2, <4>1
      <4>3. QED BY <1>2, <1>4, <1>5, <3>2, <4>2 DEF Kept
    <3>3. QED BY <2>2, <3>1, <3>2
  <2>4. Taken' = Taken /\ Bound' = Bound
    BY <1>4, <2>1, <2>3 DEF Taken, Bound
  <2>5. QED BY <1>1, <2>4 DEF LossInv
<1>8. QED BY <1>6, <1>7

LEMMA IsrLoss ==
  ASSUME WInv', Order', LossInv, Isr, ~Enqueuing
  PROVE  LossInv'
<1>1. /\ Types /\ Types' /\ B!Held /\ B!Held' /\ WInv /\ Order
      /\ Taken <= Bound
  BY OrderHolds DEF LossInv
<1>2. /\ UNCHANGED <<serial, at, pc, sized, typed, dropped>>
      /\ irq # NoByte /\ irq' = NoByte /\ NoByte # IO!AskKey
  BY DEF Isr, IO!SpiIsr, IO!local, master, client, NoByte, IO!AskKey
<1>3. /\ Delivered' = Delivered /\ InHand' = InHand /\ Sizing' = Sizing
      /\ Asked' = 0 /\ InSPDR = 0
  BY <1>2 DEF Delivered, InHand, Enqueuing, Sizing, Asked, InSPDR, Answering
<1>4. /\ Asked \in {0, 1} /\ InSPDR' \in {0, 1}
      /\ Len(Waiting) \in Nat /\ Len(Delivered) \in Nat /\ Len(serial) \in Nat
      /\ InHand \in {0, 1} /\ Sizing \in {0, 1} /\ sized \in Nat
      /\ Kept \in Int /\ Allowed \in Int /\ Taken \in Int /\ Bound \in Int /\ Bound' \in Int
  BY <1>1, Amounts, AmountsNext
<1>5. Allowed' = Allowed + Asked /\ Taken' = Taken
  BY <1>2, <1>3, <1>4 DEF Allowed, Taken
<1> PICK i \in {0, 1} : InSPDR' = i
  BY <1>4
<1>6. CASE Waiting' = Waiting
  <2>1. Kept' = Kept + i
    BY <1>3, <1>4, <1>6 DEF Kept
  <2>2. Bound' = Bound + (i + Asked)
    BY <1>4, <1>5, <2>1 DEF Bound
  <2>3. Taken' <= Bound'
    BY <1>1, <1>4, <1>5, <2>2
  <2>4. QED BY <2>3 DEF LossInv
<1>7. CASE irq = IO!AskKey /\ Waiting # <<>>
  <2>1. Waiting \in Seq(0..255) /\ SPDR' = Head(Waiting) /\ Waiting' = Tail(Waiting)
    BY <1>1, <1>7, IsrQueue, WaitingType
  <2>2. Len(Waiting') = Len(Waiting) - 1
    BY <1>7, <2>1, OneLess
  <2>3. SPDR' \in Key
    BY <1>1, <1>7, <2>1, OrderHolds DEF Order
  <2>4. i + Asked = 1
    <3>1. CASE pc = "grab2"
      BY <1>2, <1>7, <2>3, <3>1 DEF InSPDR, Answering, Asked
    <3>2. CASE pc # "grab2"
      BY <1>2, <1>7, <3>2 DEF InSPDR, Answering, Asked
    <3>3. QED BY <3>1, <3>2
  <2>5. Kept' = Kept - 1 + i
    BY <1>3, <1>4, <2>2 DEF Kept
  <2>6. Bound' = Bound
    BY <1>4, <1>5, <2>4, <2>5 DEF Bound
  <2>7. QED BY <1>1, <1>5, <2>6 DEF LossInv
<1>8. QED BY <1>1, <1>6, <1>7, IsrQueue

LEMMA MasterLoss ==
  ASSUME WInv', Order', LossInv, Clavier \/ Call \/ Client
  PROVE  LossInv'
<1>1. /\ Types /\ Types' /\ B!Held /\ B!Held' /\ WInv /\ Order
      /\ Taken <= Bound
  BY OrderHolds DEF LossInv
<1>2. UNCHANGED <<typed, dropped>> /\ Waiting' = Waiting /\ InHand' = InHand
  BY <1>1, MasterLeaves, Untouched DEF InHand
<1>3. /\ InSPDR \in {0, 1} /\ Asked \in {0, 1} /\ Asked' \in {0, 1}
      /\ Sizing \in {0, 1} /\ InHand \in {0, 1}
      /\ Len(Waiting) \in Nat /\ Len(Delivered) \in Nat /\ Len(serial) \in Nat
      /\ sized \in Nat /\ typed \in Nat /\ dropped \in Nat
      /\ Kept \in Int /\ Allowed \in Int /\ Taken \in Int /\ Bound \in Int
      /\ Sizing' \in {0, 1} /\ sized' \in Nat
  BY <1>1, Amounts, AmountsNext
<1>4. Taken' = Taken
  BY <1>2 DEF Taken
<1>5. CASE Writes
  <2>1. /\ Delivered' = IF Answering THEN Append(Delivered, SPDR) ELSE Delivered
        /\ Len(serial') = Len(serial) + 1 /\ InSPDR' = 0
    BY <1>1, <1>5, Delivery DEF InSPDR
  <2>2. Delivered \in Seq(0..255) /\ SPDR \in 0..255
    BY <1>1, <1>5, DeliveredType DEF Writes
  <2>3. PICK d \in Nat : Len(Delivered') = d /\ d = Len(Delivered) + InSPDR
    BY <1>3, <2>1, <2>2 DEF InSPDR
  <2>4. Kept' = Kept
    <3>1. Kept' = InHand + Len(Waiting) + 0 + d
      BY <1>2, <2>1, <2>3 DEF Kept
    <3>2. QED BY <1>3, <2>3, <3>1 DEF Kept
  <2>5. Asked = 0 /\ Asked' = 1 /\ Sizing = 0 /\ Sizing' = 0 /\ sized' = sized
    BY <1>5 DEF Writes, Asked, Sizing
  <2>6. Allowed' = Allowed
    BY <1>3, <2>1, <2>5 DEF Allowed
  <2>7. Bound' = Bound
    BY <2>4, <2>6 DEF Bound
  <2>8. QED BY <1>1, <1>4, <2>7 DEF LossInv
<1>6. CASE Serves
  <2>1. InSPDR = 0 /\ InSPDR' = 0 /\ UNCHANGED serial /\ Delivered' = Delivered
    BY <1>1, <1>6, KeyBounds DEF Serves, InSPDR, Answering, Delivered
  <2>2. Kept' = Kept
    BY <1>2, <2>1 DEF Kept
  <2>3. IO!AskType # IO!AskKey /\ IO!AskSize # IO!AskKey
    BY DEF IO!AskType, IO!AskSize, IO!AskKey
  <2>4. \E n \in Nat : Asked' + (Sizing' - sized') = Asked + (Sizing - sized) - n
    <3> USE DEF Asked, Sizing
    <3>1. CASE /\ UNCHANGED <<irq, sized>>
               /\ pc \notin {"size1", "size2"} /\ pc' \notin {"size1", "size2"}
      BY <1>3, <1>6, <3>1 DEF Serves
    <3>2. CASE irq' = irq /\ sized' = sized + 1 /\ pc = "poll" /\ pc' = "size1"
      BY <1>3, <3>2
    <3>3. CASE irq' = IO!AskSize /\ sized' = sized /\ pc = "size1" /\ pc' = "size2"
      BY <1>3, <2>3, <3>3
    <3>4. CASE irq' = IO!AskKey /\ sized' = sized /\ pc = "size2" /\ pc' = "poll"
      BY <1>3, <3>4
    <3>5. CASE irq' = IO!AskKey /\ sized' = sized /\ pc = "grab1" /\ pc' = "grab2"
      BY <1>3, <3>5
    <3>6. CASE /\ irq' \in {irq, IO!AskType} /\ sized' = sized
               /\ pc \notin {"grab1", "grab2", "size1", "size2"}
               /\ pc' \notin {"grab1", "grab2", "size1", "size2"}
      BY <1>3, <2>3, <3>6
    <3>7. QED BY <1>6, <3>1, <3>2, <3>3, <3>4, <3>5, <3>6 DEF Serves
  <2>5. PICK n \in Nat : Asked' + (Sizing' - sized') = Asked + (Sizing - sized) - n
    BY <2>4
  <2>6. Allowed' = Allowed + n
    <3>1. PICK a \in {0, 1}, z \in {0, 1}, m \in Nat : Asked' = a /\ Sizing' = z /\ sized' = m
      BY <1>3
    <3>2. a + (z - m) = Asked + (Sizing - sized) - n
      BY <2>5, <3>1
    <3>3. Len(serial') = Len(serial)
      BY <2>1
    <3>4. Allowed' = (Len(serial) - a) + (m - z)
      BY <3>1, <3>3 DEF Allowed
    <3>5. QED BY <1>3, <3>2, <3>4 DEF Allowed
  <2>7. Bound' = Bound + n
    BY <1>3, <2>2, <2>6 DEF Bound
  <2>8. Taken' <= Bound'
    BY <1>1, <1>3, <1>4, <2>7
  <2>9. QED BY <2>8 DEF LossInv
<1>7. QED BY <1>1, <1>5, <1>6, MasterServes

LEMMA NextLoss ==
  ASSUME KEYBOARD \notin Stray, Outside, LossInv, ~raced, [Next]_vars
  PROVE  LossInv' /\ ~raced'
<1>1. WInv /\ Order /\ Types
  BY DEF LossInv, WInv
<1>2. Isr => ~Enqueuing /\ raced' = raced
  <2>1. Isr => at \notin IO!EnqueuePoint
    BY DEF Isr, IO!SpiIsr, IO!CanInterrupt, Outside, IO!EnqueuePoint
  <2>2. (Enqueuing <=> at \in IO!EnqueuePoint) /\ raced \in BOOLEAN
    BY <1>1 DEF Enqueuing, IO!EnqueuePoint, B!EnqueuePoint, Types, TypeOK, IO!TypeOK
  <2>3. QED BY <2>1, <2>2 DEF Isr, IO!SpiIsr
<1>3. Isr \/ raced' = raced
  BY KeptByHandler, MasterLeaves DEF Next, Boot, Wild, vars, iovars
<1>4. raced' = raced
  BY <1>2, <1>3
<1>5. WInv' /\ Order'
  BY <1>1, <1>4, NextOrder DEF OrderInv
<1>6. CASE Boot \/ Wild \/ UNCHANGED vars
  <2>1. UNCHANGED <<buffer, sizeSendFlag, SPDR, at, key, ktail, irq, pc, serial, sized, typed,
                    dropped>>
    BY <1>6 DEF Boot, Wild, vars, iovars, master, client, history
  <2>2. Waiting' = Waiting /\ (Enqueuing' <=> Enqueuing)
    BY <1>1, <1>5, <2>1, Untouched DEF WInv, Order
  <2>3. Taken' = Taken /\ Bound' = Bound
    BY <2>1, <2>2 DEF Taken, Bound, Kept, Allowed, InHand, InSPDR, Asked, Sizing, Answering, Delivered
  <2>4. QED BY <1>4, <1>5, <2>1, <2>3 DEF LossInv
<1>7. CASE TypeKey \/ HandlerStep
  BY <1>4, <1>5, <1>7, KeyboardLoss
<1>8. CASE Isr
  BY <1>2, <1>4, <1>5, <1>8, IsrLoss
<1>9. CASE Clavier \/ Call \/ Client
  BY <1>4, <1>5, <1>9, MasterLoss
<1>10. QED BY <1>6, <1>7, <1>8, <1>9 DEF Next

LEMMA InitLoss == Init => LossInv /\ ~raced
<1> SUFFICES ASSUME Init PROVE LossInv /\ ~raced
  OBVIOUS
<1>1. WInv /\ Order /\ Types /\ B!Held
  BY InitTypes, InitWritten, InitOrder DEF WInv, Order
<1>2. Waiting = <<>> /\ Delivered = <<>>
  BY <1>1, WaitingType, OnlyEmpty
  DEF Init, IO!Init, IO!EmptyBuffer, IO!isEmpty, Enqueuing, B!EnqueuePoint, Delivered
<1>3. Len(Waiting) = 0 /\ Len(Delivered) = 0 /\ Len(serial) = 0
  BY <1>2 DEF Init
<1>4. InHand = 0 /\ InSPDR = 0 /\ Asked = 0 /\ Sizing = 0
  BY DEF Init, IO!Init, InHand, Enqueuing, B!EnqueuePoint, InSPDR, Answering, Asked, Sizing,
         NoByte, IO!AskKey
<1>5. Taken = 0 /\ Bound = 0
  BY <1>3, <1>4 DEF Init, Taken, Bound, Kept, Allowed
<1>6. QED BY <1>1, <1>5 DEF Init, IO!Init, LossInv

(* A grab loses one key the buffer took at most, a call of bufferSize      *)
(* another, and grabKeys none: for every buffer, every typist, and any     *)
(* delay of SPI_STC_vect, which is not to fall inside enqueue.             *)
THEOREM GrabLosesOneAtMost ==
  ASSUME KEYBOARD \notin Stray, Outside
  PROVE  Spec => []OneLossPerGrab
<1>1. Init => LossInv /\ ~raced
  BY InitLoss
<1>2. LossInv /\ ~raced /\ [Next]_vars => (LossInv /\ ~raced)'
  BY NextLoss
<1>3. LossInv => OneLossPerGrab
  <2> SUFFICES ASSUME LossInv, AtRest
               PROVE  typed - dropped - Len(Delivered) <= Len(serial) + sized
    BY DEF OneLossPerGrab
  <2>1. Types /\ B!Held /\ Taken <= Bound
    BY DEF LossInv, WInv, Order
  <2>2. InHand = 0 /\ InSPDR = 0 /\ Asked = 0 /\ Sizing = 0
    BY DEF AtRest, InHand, Enqueuing, B!EnqueuePoint, InSPDR, Answering, Asked, Sizing,
           NoByte, IO!AskKey
  <2>3. Len(Waiting) = 0
    BY <2>1, WaitingType DEF AtRest, Enqueuing, B!EnqueuePoint
  <2>4. Len(Delivered) \in Nat /\ Len(serial) \in Nat /\ typed \in Nat /\ dropped \in Nat /\ sized \in Nat
    BY <2>1, Amounts
  <2>5. QED BY <2>1, <2>2, <2>3, <2>4 DEF Taken, Bound, Kept, Allowed
<1>4. QED BY <1>1, <1>2, <1>3, PTL DEF Spec

-----------------------------------------------------------------------------
(* A typist who waits for the link to come to rest: one key at most is on  *)
(* its way, and the places it goes through are these.                      *)

last == FirstKey + typed - 1

Exact(n) == Delivered = [i \in 1..n |-> FirstKey + i - 1]

Away == pc \notin {"grab1", "grab2"}

(* Its predecessors are delivered.  No grab begins before the line is up,  *)
(* and no byte that asks for a key is left over from the one before.       *)
Settled   == at = "idle" /\ Waiting = <<>> /\ ~INT /\ Away /\ Exact(typed)
Entering  == Enqueuing /\ key = last /\ Waiting = <<>> /\ ~INT /\ Away /\ irq # IO!AskKey
Raising   == at = "setInt" /\ Waiting = <<last>> /\ ~INT /\ Away /\ irq # IO!AskKey
Announced == at = "idle" /\ Waiting = <<last>> /\ (irq = IO!AskKey <=> pc = "grab2")
Fetched   == /\ at = "idle" /\ Waiting = <<>> /\ ~INT
             /\ pc = "grab2" /\ irq = NoByte /\ SPDR = last

OnItsWay == typed # 0 /\ Exact(typed - 1) /\ (Entering \/ Raising \/ Announced \/ Fetched)

Slow == pc \notin {"size1", "size2"} /\ B!Held /\ (Settled \/ OnItsWay)

SlowInv == WInv /\ (spaced /\ sized = 0 => Slow)

LEMMA ExactMore ==
  ASSUME NEW n \in Nat
  PROVE  Append([i \in 1..n |-> FirstKey + i - 1], FirstKey + n)
           = [i \in 1..(n + 1) |-> FirstKey + i - 1]
<1> DEFINE s == [i \in 1..n |-> FirstKey + i - 1]
<1>1. s \in Seq(Int) /\ Len(s) = n
  BY DEF FirstKey
<1>2. FirstKey + n \in Int /\ FirstKey + n = FirstKey + (n + 1) - 1
  BY DEF FirstKey
<1>3. QED BY <1>1, <1>2

LEMMA LastKey ==
  ASSUME Types, typed # 0
  PROVE  /\ typed - 1 \in Nat /\ last = FirstKey + (typed - 1) /\ (typed - 1) + 1 = typed
         /\ last \in Key /\ last \in 0..255
BY BoundAssumption DEF Types, TypeOK, last, FirstKey, Key

LEMMA InitSlow == Init => Slow
<1> SUFFICES ASSUME Init PROVE Slow
  OBVIOUS
<1>1. Types /\ B!Held
  BY InitTypes, InitOrder DEF Order
<1>2. at = "idle" /\ ~Enqueuing
  BY DEF Init, IO!Init, Enqueuing, B!EnqueuePoint
<1>3. Waiting = <<>>
  BY <1>1, <1>2, WaitingType DEF Init, IO!Init, IO!EmptyBuffer, IO!isEmpty
<1>4. Delivered = <<>>
  BY OnlyEmpty DEF Init, Delivered
<1>5. Exact(typed)
  BY <1>4 DEF Init, Exact
<1>6. QED BY <1>1, <1>2, <1>3, <1>5 DEF Init, IO!Init, Slow, Settled, Away

(* His steps: he types at rest, and no task calls bufferSize.              *)
LEMMA TypeKeySlow ==
  ASSUME Types, Types', Slow, TypeKey, AtRest
  PROVE  Slow'
<1>1. /\ pc = "poll" /\ irq = NoByte /\ at = "idle" /\ IO!isEmpty(buffer) /\ ~INT
      /\ UNCHANGED <<pc, irq, INT, serial>> /\ typed' = typed + 1 /\ typed \in Nat
  BY DEF AtRest, TypeKey, IO!KeyHandler, IO!shared, master, Types, TypeOK
<1>2. /\ B!Held /\ B!Held' /\ Waiting' = Waiting /\ key' = FirstKey + typed
      /\ at' \in {"writeTail", "setInt"} /\ (at' = "writeTail" <=> ~IO!isFull(buffer))
  BY TypeKeyQueue DEF Slow
<1>3. Waiting = <<>>
  BY <1>1, <1>2, WaitingType DEF Enqueuing, B!EnqueuePoint
<1>4. Exact(typed)
  <2>1. <<last>> # <<>>
    OBVIOUS
  <2>2. QED
    BY <1>1, <1>3, <2>1 DEF Slow, OnItsWay, Settled, Entering, Raising, Announced, Fetched,
                            Enqueuing, B!EnqueuePoint
<1>5. ~IO!isFull(buffer)
  <2>1. buffer.tail = -1
    BY <1>1, <1>2 DEF B!Held, B!Ends, B!Tail0, B!EnqueuePoint, IO!isEmpty
  <2>2. QED BY <1>1, <2>1, SlaveConstants DEF IO!isFull, IO!isEmpty
<1>6. Enqueuing' /\ key' = last' /\ irq # IO!AskKey
  BY <1>1, <1>2, <1>5 DEF Enqueuing, B!EnqueuePoint, last, FirstKey, NoByte, IO!AskKey
<1>7. typed' # 0 /\ typed' - 1 = typed /\ Delivered' = Delivered
  BY <1>1 DEF Delivered
<1>8. Exact(typed - 1)' /\ Entering'
  BY <1>1, <1>2, <1>3, <1>4, <1>6, <1>7 DEF Exact, Entering, Away
<1>9. QED BY <1>1, <1>2, <1>7, <1>8 DEF Slow, OnItsWay

LEMMA HandlerSlow ==
  ASSUME Types, Types', Slow, HandlerStep
  PROVE  Slow'
<1>1. UNCHANGED <<pc, irq, SPDR, serial, typed>>
  BY DEF HandlerStep, IO!HandlerStep, IO!WriteTail, IO!WriteData, IO!SetHead, IO!SetInt,
         master, history
<1>2. /\ Delivered' = Delivered /\ last' = last /\ (Away' <=> Away)
      /\ (Exact(typed - 1) => Exact(typed - 1)')
  BY <1>1 DEF Delivered, last, Away, Exact
<1>3. B!Held' /\ key' = key
  BY HandlerQueue DEF Slow
<1>4. at # "idle" /\ (Entering \/ Raising) /\ typed # 0 /\ Exact(typed - 1)
  BY HandlerQueue DEF Slow, Settled, OnItsWay, Announced, Fetched
<1>5. CASE /\ at \in {"writeTail", "writeData"} /\ at' \in {"writeData", "setHead"}
           /\ Waiting' = Waiting /\ INT' = INT
  BY <1>1, <1>2, <1>3, <1>4, <1>5
  DEF Slow, OnItsWay, Entering, Raising, Enqueuing, B!EnqueuePoint
<1>6. CASE /\ at = "setHead" /\ at' = "setInt"
           /\ Waiting' = Append(Waiting, key) /\ INT' = INT
  <2>1. Entering
    BY <1>4, <1>6 DEF Raising
  <2>2. Waiting' = <<last>>
    BY <1>6, <2>1 DEF Entering
  <2>3. Raising'
    BY <1>1, <1>2, <1>6, <2>1, <2>2 DEF Raising, Entering
  <2>4. QED BY <1>1, <1>2, <1>3, <1>4, <2>3 DEF Slow, OnItsWay
<1>7. CASE /\ at = "setInt" /\ at' = "idle"
           /\ Waiting' = Waiting /\ INT' = TRUE
  <2>1. Raising
    BY <1>4, <1>7 DEF Entering, Enqueuing, B!EnqueuePoint
  <2>2. Announced'
    BY <1>1, <1>2, <1>7, <2>1 DEF Raising, Announced, Away
  <2>3. QED BY <1>1, <1>2, <1>3, <1>4, <2>2 DEF Slow, OnItsWay
<1>8. QED BY <1>5, <1>6, <1>7, HandlerQueue DEF Slow

(* Inside enqueue the interrupt answers the type or the size, and leaves   *)
(* the buffer alone.                                                       *)
LEMMA IsrSlow ==
  ASSUME Types, Types', Slow, Isr
  PROVE  Slow'
<1>1. /\ UNCHANGED <<pc, serial, typed, at, key, ktail>> /\ irq # NoByte /\ irq' = NoByte
      /\ NoByte # IO!AskKey
  BY DEF Isr, IO!SpiIsr, IO!local, master, NoByte, IO!AskKey
<1>2. /\ Delivered' = Delivered /\ last' = last /\ (Away' <=> Away)
      /\ (Exact(typed - 1) => Exact(typed - 1)') /\ (Exact(typed) => Exact(typed)')
      /\ (Enqueuing' <=> Enqueuing)
  BY <1>1 DEF Delivered, last, Away, Exact, Enqueuing
<1>3. CASE irq # IO!AskKey
  <2>1. UNCHANGED <<buffer, sizeSendFlag, INT>>
    <3>1. irq \in {IO!AskType, IO!AskSize} /\ sizeSendFlag = 0
      BY <1>1, <1>3 DEF Slow, B!Held, Types, TypeOK, IO!Request
    <3>2. ~IO!IsrKey(irq)
      BY <3>1 DEF IO!IsrKey
    <3>3. QED BY <3>1, <3>2 DEF Isr, IO!SpiIsr, IO!IsrType, IO!IsrSize
  <2>2. B!Held' /\ Waiting' = Waiting
    BY <1>1, <2>1, Untouched DEF Slow
  <2>3. QED
    BY <1>1, <1>2, <1>3, <2>1, <2>2
    DEF Slow, Settled, OnItsWay, Entering, Raising, Announced, Fetched
<1>4. CASE irq = IO!AskKey
  <2>1. Settled \/ (typed # 0 /\ Exact(typed - 1) /\ Announced)
    BY <1>1, <1>4 DEF Slow, OnItsWay, Entering, Raising, Fetched
  <2>2. ~Enqueuing
    BY <2>1 DEF Settled, Announced, Enqueuing, B!EnqueuePoint
  <2>3. /\ B!Held'
        /\ SPDR' = IF Waiting = <<>> THEN 0 ELSE Head(Waiting)
        /\ Waiting' = IF Waiting = <<>> THEN <<>> ELSE Tail(Waiting)
        /\ INT' = (INT /\ Waiting' # <<>>)
    BY <1>4, <2>2, IsrQueue DEF Slow
  <2>4. CASE Settled
    <3>1. Waiting' = <<>> /\ ~INT'
      BY <2>3, <2>4 DEF Settled
    <3>2. Settled'
      BY <1>1, <1>2, <2>4, <3>1 DEF Settled
    <3>3. QED BY <1>1, <2>3, <3>2 DEF Slow
  <2>5. CASE typed # 0 /\ Exact(typed - 1) /\ Announced
    <3>1. Waiting = <<last>> /\ pc = "grab2" /\ at = "idle"
      BY <1>4, <2>5 DEF Announced
    <3>2. Waiting # <<>> /\ Head(Waiting) = last /\ Tail(Waiting) = <<>>
      BY <3>1
    <3>3. SPDR' = last /\ Waiting' = <<>> /\ ~INT'
      BY <2>3, <3>2
    <3>4. Fetched'
      BY <1>1, <1>2, <3>1, <3>3 DEF Fetched
    <3>5. QED BY <1>1, <1>2, <2>3, <2>5, <3>4 DEF Slow, OnItsWay
  <2>6. QED BY <2>1, <2>4, <2>5
<1>5. QED BY <1>3, <1>4

LEMMA MasterSlow ==
  ASSUME IsrInTime, WInv, Types', Slow, sized = 0, sized' = 0, Clavier \/ Call \/ Client
  PROVE  Slow'
<1>1. Types /\ UNCHANGED <<buffer, sizeSendFlag, INT, at, key, ktail, typed>>
  BY MasterLeaves DEF WInv
<1>2. B!Held' /\ Waiting' = Waiting /\ (Enqueuing' <=> Enqueuing) /\ last' = last
  BY <1>1, Untouched DEF Slow, last
<1>3. NoByte # IO!AskKey /\ IO!AskType # IO!AskKey
  BY DEF NoByte, IO!AskKey, IO!AskType
<1>4. CASE Writes
  <2>1. pc = "grab2" /\ irq = NoByte /\ pc' = "poll"
    BY <1>4 DEF Writes
  <2>2. Fetched /\ typed # 0 /\ Exact(typed - 1)
    BY <1>3, <2>1 DEF Slow, Settled, OnItsWay, Entering, Raising, Announced, Away
  <2>3. SPDR = last /\ last \in Key /\ last = FirstKey + (typed - 1) /\ typed - 1 \in Nat
        /\ (typed - 1) + 1 = typed
    BY <1>1, <2>2, LastKey DEF Fetched
  <2>4. Delivered' = Append(Delivered, last)
    BY <1>1, <1>4, <2>1, <2>3, Delivery DEF Answering
  <2>5. Delivered' = [i \in 1..typed |-> FirstKey + i - 1]
    BY <2>2, <2>3, <2>4, ExactMore DEF Exact
  <2>6. Settled'
    BY <1>1, <1>2, <2>1, <2>2, <2>5 DEF Settled, Fetched, Exact, Away
  <2>7. QED BY <1>2, <2>1, <2>6 DEF Slow
<1>5. CASE Serves
  <2>1. /\ Delivered' = Delivered /\ pc # "grab2" /\ pc \notin {"size1", "size2"}
        /\ (Exact(typed - 1) => Exact(typed - 1)') /\ (Exact(typed) => Exact(typed)')
    BY <1>1, <1>5 DEF Serves, Delivered, Exact, Slow
  <2>2. pc' \notin {"size1", "size2"}
    BY <1>5, <2>1 DEF Serves
  <2>3. /\ Away /\ ~INT => Away'
        /\ Away /\ ~INT /\ irq # IO!AskKey => irq' # IO!AskKey
    BY <1>3, <1>5, <2>1 DEF Serves, Away
  <2>4. (irq # IO!AskKey) => (irq' = IO!AskKey <=> pc' = "grab2")
    BY <1>3, <1>5, <2>1 DEF Serves
  <2>5. QED
    BY <1>1, <1>2, <2>1, <2>2, <2>3, <2>4
    DEF Slow, Settled, OnItsWay, Entering, Raising, Announced, Fetched
<1>6. QED BY <1>4, <1>5, MasterServes

LEMMA NextSlow ==
  ASSUME KEYBOARD \notin Stray, IsrInTime, SlowInv, [Next]_vars
  PROVE  SlowInv'
<1>1. WInv /\ Types /\ WInv' /\ Types'
  BY NextWritten, NextTypes DEF SlowInv, WInv
<1> SUFFICES ASSUME spaced', sized' = 0 PROVE Slow'
  BY <1>1 DEF SlowInv
<1>2. spaced /\ (TypeKey => AtRest)
  <2>1. TypeKey => (spaced' = TRUE => spaced = TRUE /\ AtRest)
    BY <1>1 DEF TypeKey, Types, TypeOK, AtRest
  <2>2. TypeKey \/ spaced' = spaced
    BY DEF Next, Boot, HandlerStep, Isr, Clavier, Probe1, Probe2, Poll, PollUnknown, Grab1,
           Grab2, Call, Client, Size1, Size2, Keys1, Keys2, Keys3, Wild, vars, history
  <2>3. spaced \in BOOLEAN /\ spaced' \in BOOLEAN
    BY <1>1 DEF Types, TypeOK
  <2>4. QED BY <2>1, <2>2, <2>3
<1>3. sized = 0
  <2>1. sized \in Nat
    BY <1>1, BoundAssumption DEF Types, TypeOK
  <2>2. sized' = sized \/ sized' = sized + 1
    BY DEF Next, Boot, TypeKey, HandlerStep, Isr, Clavier, Probe1, Probe2, Poll, PollUnknown,
           Grab1, Grab2, Call, Client, Size1, Size2, Keys1, Keys2, Keys3, Wild, vars, master,
           client
  <2>3. QED BY <2>1, <2>2
<1>4. Slow
  BY <1>2, <1>3 DEF SlowInv
<1>5. CASE Boot \/ Wild \/ UNCHANGED vars
  <2>1. UNCHANGED <<buffer, sizeSendFlag, INT, SPDR, at, key, ktail, irq, pc, serial, typed>>
    BY <1>5 DEF Boot, Wild, vars, iovars, master, client, history
  <2>2. B!Held' /\ Waiting' = Waiting /\ (Enqueuing' <=> Enqueuing)
    BY <1>1, <1>4, <2>1, Untouched DEF Slow
  <2>3. Delivered' = Delivered /\ last' = last
    BY <2>1 DEF Delivered, last
  <2>4. QED
    BY <1>4, <2>1, <2>2, <2>3
    DEF Slow, Settled, OnItsWay, Entering, Raising, Announced, Fetched, Exact, Away
<1>6. CASE TypeKey
  BY <1>1, <1>2, <1>4, <1>6, TypeKeySlow
<1>7. CASE HandlerStep
  BY <1>1, <1>4, <1>7, HandlerSlow
<1>8. CASE Isr
  BY <1>1, <1>4, <1>8, IsrSlow
<1>9. CASE Clavier \/ Call \/ Client
  BY <1>1, <1>3, <1>4, <1>9, MasterSlow
<1>10. QED BY <1>5, <1>6, <1>7, <1>8, <1>9 DEF Next

(* Every key of a slow typist is written, in order, once, when no task     *)
(* calls bufferSize: for every buffer and wherever SPI_STC_vect falls in   *)
(* keyHandler, as long as it comes within the wait of a transfer.  The     *)
(* interrupts that fall inside enqueue then all answer for the type.       *)
THEOREM SlowTypistIsServed ==
  ASSUME KEYBOARD \notin Stray, IsrInTime
  PROVE  Spec => []SlowTypistLosesNothing
<1>1. Init => SlowInv
  BY InitTypes, InitWritten, InitSlow DEF SlowInv, WInv
<1>2. SlowInv /\ [Next]_vars => SlowInv'
  BY NextSlow
<1>3. SlowInv => SlowTypistLosesNothing
  <2> SUFFICES ASSUME SlowInv, spaced, sized = 0, AtRest
               PROVE  Delivered = [n \in 1..typed |-> FirstKey + n - 1]
    BY DEF SlowTypistLosesNothing
  <2>1. Slow /\ Types
    BY DEF SlowInv, WInv
  <2>2. pc = "poll" /\ at = "idle" /\ Waiting = <<>>
    BY <2>1, WaitingType DEF AtRest, Slow, Enqueuing, B!EnqueuePoint
  <2>3. <<last>> # <<>>
    OBVIOUS
  <2>4. Settled
    BY <2>1, <2>2, <2>3
    DEF Slow, OnItsWay, Entering, Raising, Announced, Fetched, Enqueuing, B!EnqueuePoint
  <2>5. QED BY <2>4 DEF Settled, Exact
<1>4. QED BY <1>1, <1>2, <1>3, PTL DEF Spec

-----------------------------------------------------------------------------
(* The two boards as one channel. *)

LEMMA InFront ==
  ASSUME NEW T, NEW s \in Seq(T), NEW e \in T
  PROVE  LET u == <<e>> \o s
         IN  /\ u \in Seq(T) /\ u # <<>> /\ Len(u) = Len(s) + 1
             /\ Head(u) = e /\ Tail(u) = s
             /\ \A k \in T : <<e>> \o Append(s, k) = Append(u, k)
<1> DEFINE u == <<e>> \o s
<1>1. /\ <<e>> \in Seq(T) /\ Len(<<e>>) = 1 /\ <<e>>[1] = e /\ Len(s) \in Nat
  BY LenProperties
<1>2. /\ u \in Seq(T) /\ Len(u) = Len(s) + 1
      /\ \A i \in 1..(Len(s) + 1) : u[i] = IF i <= 1 THEN <<e>>[i] ELSE s[i - 1]
  BY <1>1, ConcatProperties
<1>3. u # <<>>
  BY <1>1, <1>2, EmptySeq
<1>4. Head(u) = e
  BY <1>1, <1>2
<1>5. Tail(u) = s
  <2>1. /\ Tail(u) \in Seq(T) /\ Len(Tail(u)) = Len(u) - 1
        /\ \A i \in 1..Len(Tail(u)) : Tail(u)[i] = u[i + 1]
    BY <1>2, <1>3, HeadTailProperties
  <2>2. Len(Tail(u)) = Len(s)
    BY <1>1, <1>2, <2>1
  <2>3. \A i \in 1..Len(s) : Tail(u)[i] = s[i]
    BY <1>1, <1>2, <2>1, <2>2
  <2>4. QED BY <2>1, <2>2, <2>3, SeqEqual
<1>6. \A k \in T : <<e>> \o Append(s, k) = Append(u, k)
  <2> SUFFICES ASSUME NEW k \in T PROVE <<e>> \o Append(s, k) = Append(u, k)
    OBVIOUS
  <2>1. Append(s, k) = s \o <<k>> /\ Append(u, k) = u \o <<k>> /\ <<k>> \in Seq(T)
    BY <1>2, AppendIsConcat
  <2>2. QED BY <1>1, <2>1, ConcatAssociative
<1>7. QED BY <1>2, <1>3, <1>4, <1>5, <1>6

LEMMA HeadInFront ==
  ASSUME NEW T, NEW s \in Seq(T), s # <<>>
  PROVE  <<Head(s)>> \o Tail(s) = s
<1>1. /\ Head(s) \in T /\ Tail(s) \in Seq(T) /\ Len(Tail(s)) = Len(s) - 1
      /\ \A i \in 1..Len(Tail(s)) : Tail(s)[i] = s[i + 1]
  BY HeadTailProperties
<1>2. Len(s) \in Nat /\ Len(s) # 0 /\ Head(s) = s[1]
  BY EmptySeq, LenProperties
<1>3. <<Head(s)>> \in Seq(T) /\ Len(<<Head(s)>>) = 1 /\ <<Head(s)>>[1] = s[1]
  BY <1>1, <1>2
<1> DEFINE h == <<Head(s)>>
           u == h \o Tail(s)
<1>4. /\ u \in Seq(T) /\ Len(u) = Len(s)
      /\ \A i \in 1..Len(s) : u[i] = IF i <= 1 THEN h[i] ELSE Tail(s)[i - 1]
  BY <1>1, <1>2, <1>3, ConcatProperties
<1> HIDE DEF u, h
<1>5. \A i \in 1..Len(s) : u[i] = s[i]
  BY <1>1, <1>2, <1>3, <1>4 DEF h
<1>6. u = s
  BY <1>4, <1>5, SeqEqual
<1>7. QED BY <1>6 DEF u, h

LEMMA SameContents == IO!Contents = Waiting
BY DEF Waiting, IO!Contents, B!Contents, IO!EnqueuePoint, B!EnqueuePoint, IO!sizeBuffer,
       B!sizeBuffer, IO!isEmpty, B!isEmpty, IO!cellAfter, B!cellAfter

LEMMA InKeyboardIs ==
  /\ Enqueuing  => InKeyboard = Append(Waiting, key)
  /\ ~Enqueuing => InKeyboard = Waiting
BY SameContents DEF InKeyboard, Enqueuing, IO!EnqueuePoint, B!EnqueuePoint

LEMMA InKeyboardIsNext ==
  (/\ Enqueuing  => InKeyboard = Append(Waiting, key)
   /\ ~Enqueuing => InKeyboard = Waiting)'
BY InKeyboardIs, PTL

(* The parts of the line are sequences of bytes. *)
LEMMA LineTypes ==
  ASSUME Types, B!Held
  PROVE  /\ Waiting \in Seq(0..255) /\ InKeyboard \in Seq(0..255) /\ OnTheWay \in Seq(0..255)
         /\ Len(Waiting) \in Nat /\ key \in 0..255 /\ SPDR \in 0..255
<1>1. Waiting \in Seq(0..255) /\ Len(Waiting) \in Nat
  BY WaitingType
<1>2. key \in 0..255 /\ SPDR \in 0..255
  BY DEF Types, TypeOK, IO!TypeOK, IO!Byte
<1>3. InKeyboard \in Seq(0..255)
  <2>1. Enqueuing \in BOOLEAN
    BY DEF Enqueuing
  <2>2. Append(Waiting, key) \in Seq(0..255)
    BY <1>1, <1>2, AppendProperties
  <2>3. QED BY <1>1, <2>1, <2>2, InKeyboardIs
<1>4. OnTheWay \in Seq(0..255)
  BY <1>2, <1>3, InFront DEF OnTheWay
<1>5. QED BY <1>1, <1>2, <1>3, <1>4

(* The four variables of the channel, as module KeyLink reads them. *)
Spare == irq = IO!AskKey /\ pc # "grab2"

LEMMA InitChannel == Init => Channel!Init
<1> SUFFICES ASSUME Init PROVE Channel!Init
  OBVIOUS
<1>1. Types /\ Order /\ ~Enqueuing /\ ~Answering /\ ~Spare
  BY InitTypes, InitOrder
  DEF Init, IO!Init, Enqueuing, B!EnqueuePoint, Answering, Spare, NoByte, IO!AskKey
<1>2. Waiting = <<>>
  BY <1>1, WaitingType DEF Order, Init, IO!Init, IO!EmptyBuffer, IO!isEmpty
<1>3. OnTheWay = <<>>
  BY <1>1, <1>2, InKeyboardIs DEF OnTheWay
<1>4. Delivered = <<>>
  BY OnlyEmpty DEF Init, Delivered
<1>5. QED BY <1>1, <1>3, <1>4 DEF Channel!Init, Init, Spare

(* processKeyDown: the key joins the line, or is dropped. *)
LEMMA TypeKeyChannel ==
  ASSUME Types, Types', B!Held, TypeKey
  PROVE  Channel!Take \/ Channel!Drop
<1>1. /\ B!Held' /\ Waiting' = Waiting
      /\ at = "idle" /\ at' \in {"writeTail", "setInt"}
      /\ at' = "writeTail" => Len(Waiting) < MaxData
      /\ at' = "setInt" => Len(Waiting) = MaxData
      /\ key' = FirstKey + typed
  BY TypeKeyQueue
<1>2. /\ UNCHANGED <<irq, pc, serial, SPDR>> /\ typed' = typed + 1
  BY DEF TypeKey, IO!KeyHandler, IO!shared, master
<1>3. /\ Delivered' = Delivered /\ (Spare' <=> Spare) /\ (Answering' <=> Answering)
  BY <1>2 DEF Delivered, Spare, Answering
<1>4. /\ Waiting \in Seq(0..255) /\ Len(Waiting) \in Nat
      /\ SPDR \in 0..255 /\ key' \in 0..255 /\ MaxData \in Nat
  <2>1. key' \in 0..255
    BY DEF Types, TypeOK, IO!TypeOK, IO!Byte
  <2>2. QED BY <2>1, LineTypes, SlaveConstants
<1>5. InKeyboard = Waiting
  BY <1>1, InKeyboardIs DEF Enqueuing, B!EnqueuePoint
<1>6. Len(OnTheWay) = Len(Waiting) \/ Len(OnTheWay) = Len(Waiting) + 1
  BY <1>4, <1>5, InFront DEF OnTheWay
<1>7. CASE at' = "writeTail"
  <2>1. InKeyboard' = Append(Waiting, key')
    BY <1>1, <1>7, InKeyboardIsNext DEF Enqueuing, B!EnqueuePoint
  <2>2. OnTheWay' = Append(OnTheWay, key')
    BY <1>2, <1>3, <1>4, <1>5, <2>1, InFront DEF OnTheWay
  <2>3. Len(OnTheWay) <= MaxData
    BY <1>1, <1>4, <1>6, <1>7
  <2>4. QED BY <1>1, <1>2, <1>3, <2>2, <2>3 DEF Channel!Take, Spare
<1>8. CASE at' = "setInt"
  <2>1. InKeyboard' = Waiting
    BY <1>1, <1>8, InKeyboardIsNext DEF Enqueuing, B!EnqueuePoint
  <2>2. OnTheWay' = OnTheWay
    BY <1>2, <1>3, <1>5, <2>1 DEF OnTheWay
  <2>3. Len(OnTheWay) >= MaxData
    BY <1>1, <1>4, <1>6, <1>8
  <2>4. QED BY <1>2, <1>3, <2>2, <2>3 DEF Channel!Drop, Spare
<1>9. QED BY <1>1, <1>7, <1>8

(* The key was in the line before enqueue put it in the buffer. *)
LEMMA HandlerChannel ==
  ASSUME Types, Types', B!Held, HandlerStep
  PROVE  UNCHANGED Channel!cvars
<1>1. /\ key' = key
      /\ \/ /\ at \in {"writeTail", "writeData"} /\ at' \in {"writeData", "setHead"}
            /\ Waiting' = Waiting
         \/ /\ at = "setHead" /\ at' = "setInt"
            /\ Waiting' = Append(Waiting, key)
         \/ /\ at = "setInt" /\ at' = "idle"
            /\ Waiting' = Waiting
  BY HandlerQueue
<1>2. UNCHANGED <<serial, pc, irq, SPDR, typed>>
  BY DEF HandlerStep, IO!HandlerStep, IO!WriteTail, IO!WriteData, IO!SetHead, IO!SetInt,
         master, history
<1>3. /\ Delivered' = Delivered /\ (Spare' <=> Spare) /\ (Answering' <=> Answering)
  BY <1>2 DEF Delivered, Spare, Answering
<1>4. InKeyboard' = InKeyboard
  BY <1>1, InKeyboardIs, InKeyboardIsNext DEF Enqueuing, B!EnqueuePoint
<1>5. OnTheWay' = OnTheWay
  BY <1>2, <1>3, <1>4 DEF OnTheWay
<1>6. QED BY <1>2, <1>3, <1>5 DEF Channel!cvars, Spare

(* SPI_STC_vect: the first key moves to SPDR, for the grab that asked to   *)
(* write it, or goes to a request left behind.                             *)
LEMMA IsrChannel ==
  ASSUME WInv, Types', Order, Order', Isr, ~Enqueuing
  PROVE  Channel!Lose \/ Channel!Spend \/ UNCHANGED Channel!cvars
<1>1. /\ Types /\ B!Held /\ B!Held'
      /\ \A s : Within(s, Newest) /\ s # <<>> /\ s \in Seq(0..255) => Head(s) \in Key
  <2>1. Types /\ B!Held /\ B!Held'
    BY DEF WInv, Order
  <2>2. FirstKey..Newest \subseteq Key
    BY <2>1, BoundAssumption DEF Types, TypeOK, Newest, Key, FirstKey
  <2>3. QED BY <2>1, <2>2, OneLess
<1>2. /\ UNCHANGED <<serial, at, key, pc, typed>>
      /\ irq # NoByte /\ irq' = NoByte /\ NoByte # IO!AskKey
  BY DEF Isr, IO!SpiIsr, IO!local, master, NoByte, IO!AskKey
<1>3. Delivered' = Delivered /\ ~Spare' /\ ~Answering
  BY <1>2 DEF Delivered, Spare, Answering
<1>4. InKeyboard = Waiting /\ InKeyboard' = Waiting' /\ OnTheWay = Waiting
  <2>1. ~Enqueuing'
    BY <1>2 DEF Enqueuing
  <2>2. QED BY <1>3, <2>1, InKeyboardIs, InKeyboardIsNext DEF OnTheWay
<1>5. Waiting \in Seq(0..255)
  BY <1>1, LineTypes
<1>6. irq = IO!AskKey =>
        /\ SPDR' = IF Waiting = <<>> THEN 0 ELSE Head(Waiting)
        /\ Waiting' = IF Waiting = <<>> THEN <<>> ELSE Tail(Waiting)
  BY <1>1, IsrQueue
<1>7. irq # IO!AskKey => Waiting' = Waiting
  BY <1>1, IsrQueue
<1>8. CASE pc = "grab2"
  <2>1. irq = IO!AskKey
    BY <1>2, <1>8 DEF WInv, Written, Answered, AnswerTo
  <2>2. ~Spare
    BY <1>8 DEF Spare
  <2>3. CASE Waiting = <<>>
    <3>1. ~Answering'
      BY <1>1, <1>6, <2>1, <2>3, KeyBounds DEF Answering
    <3>2. OnTheWay' = OnTheWay
      BY <1>4, <1>6, <2>1, <2>3, <3>1 DEF OnTheWay
    <3>3. QED BY <1>2, <1>3, <2>2, <3>2 DEF Channel!cvars, Spare
  <2>4. CASE Waiting # <<>>
    <3>1. Head(Waiting) \in Key
      BY <1>1, <1>5, <2>4 DEF Order
    <3>2. Answering'
      BY <1>2, <1>6, <1>8, <2>1, <2>4, <3>1 DEF Answering, Key
    <3>3. OnTheWay' = <<Head(Waiting)>> \o Tail(Waiting)
      BY <1>4, <1>6, <2>1, <2>4, <3>2 DEF OnTheWay
    <3>4. OnTheWay' = OnTheWay
      BY <1>4, <1>5, <2>4, <3>3, HeadInFront
    <3>5. QED BY <1>2, <1>3, <2>2, <3>4 DEF Channel!cvars, Spare
  <2>5. QED BY <2>3, <2>4
<1>9. CASE pc # "grab2"
  <2>1. ~Answering' /\ OnTheWay' = Waiting'
    BY <1>2, <1>4, <1>9 DEF Answering, OnTheWay
  <2>2. CASE irq = IO!AskKey /\ Waiting # <<>>
    BY <1>2, <1>3, <1>4, <1>6, <1>9, <2>1, <2>2 DEF Channel!Lose, Spare
  <2>3. CASE irq = IO!AskKey /\ Waiting = <<>>
    BY <1>2, <1>3, <1>4, <1>6, <1>9, <2>1, <2>3 DEF Channel!Spend, Spare
  <2>4. CASE irq # IO!AskKey
    <3>1. ~Spare
      BY <2>4 DEF Spare
    <3>2. QED BY <1>2, <1>3, <1>4, <1>7, <2>1, <2>4, <3>1 DEF Channel!cvars, Spare
  <2>5. QED BY <2>2, <2>3, <2>4
<1>10. QED BY <1>8, <1>9

(* The main board: the second transfer of a grab delivers, or finds        *)
(* nothing, and leaves a request behind, as bufferSize does; the next      *)
(* transfer takes the place of a request SPI_STC_vect was too late for.    *)
LEMMA MasterChannel ==
  ASSUME WInv, Types', Order, Clavier \/ Call \/ Client
  PROVE  \/ Channel!Deliver \/ Channel!LeaveRequest \/ Channel!Spend
         \/ UNCHANGED Channel!cvars
<1>1. Types /\ UNCHANGED <<buffer, sizeSendFlag, at, key, ktail, typed>>
  BY MasterLeaves DEF WInv
<1>2. InKeyboard' = InKeyboard
  <2>1. Waiting' = Waiting /\ (Enqueuing' <=> Enqueuing)
    BY <1>1, Untouched DEF Order
  <2>2. QED BY <1>1, <2>1, InKeyboardIs, InKeyboardIsNext
<1>3. InKeyboard \in Seq(0..255) /\ SPDR \in 0..255
  BY <1>1, LineTypes DEF Order
<1>4. CASE Writes
  <2>1. /\ Delivered' = IF Answering THEN Append(Delivered, SPDR) ELSE Delivered
        /\ ~Answering'
    BY <1>1, <1>4, Delivery
  <2>2. Spare' /\ OnTheWay' = InKeyboard
    BY <1>2, <1>4, <2>1 DEF Writes, Spare, OnTheWay
  <2>3. CASE Answering
    <3>1. OnTheWay # <<>> /\ Head(OnTheWay) = SPDR /\ Tail(OnTheWay) = InKeyboard
      BY <1>3, <2>3, InFront DEF OnTheWay
    <3>2. QED BY <1>1, <2>1, <2>2, <2>3, <3>1 DEF Channel!Deliver, Spare
  <2>4. CASE ~Answering
    BY <1>1, <2>1, <2>2, <2>4 DEF Channel!LeaveRequest, Spare, OnTheWay
  <2>5. QED BY <2>3, <2>4
<1>5. CASE Serves
  <2>1. Delivered' = Delivered
    BY <1>5 DEF Serves, Delivered
  <2>2. ~Answering /\ ~Answering'
    BY <1>1, <1>5, KeyBounds DEF Serves, Answering
  <2>3. OnTheWay' = OnTheWay
    BY <1>2, <2>2 DEF OnTheWay
  <2>4. Spare \in BOOLEAN /\ Spare' \in BOOLEAN
    BY DEF Spare
  <2>5. CASE Spare'
    BY <1>1, <2>1, <2>3, <2>5 DEF Channel!LeaveRequest, Spare
  <2>6. CASE ~Spare' /\ Spare
    BY <1>1, <2>1, <2>3, <2>6 DEF Channel!Spend, Spare
  <2>7. CASE ~Spare' /\ ~Spare
    BY <1>1, <2>1, <2>3, <2>7 DEF Channel!cvars, Spare
  <2>8. QED BY <2>4, <2>5, <2>6, <2>7
<1>6. QED BY <1>4, <1>5, MasterServes

LEMMA NextChannel ==
  ASSUME KEYBOARD \notin Stray, Outside, LossInv, ~raced, [Next]_vars
  PROVE  [Channel!Next]_Channel!cvars
<1>1. LossInv' /\ WInv /\ Types /\ Types' /\ Order /\ Order' /\ B!Held
  BY NextLoss DEF LossInv, WInv, Order
<1>2. CASE Boot \/ Wild \/ UNCHANGED vars
  <2>1. UNCHANGED <<buffer, sizeSendFlag, SPDR, at, key, ktail, irq, pc, serial, typed>>
    BY <1>2 DEF Boot, Wild, vars, iovars, master, history
  <2>2. Waiting' = Waiting /\ (Enqueuing' <=> Enqueuing)
    BY <1>1, <2>1, Untouched
  <2>3. InKeyboard' = InKeyboard
    BY <2>1, <2>2, InKeyboardIs, InKeyboardIsNext
  <2>4. QED BY <2>1, <2>3 DEF Channel!cvars, OnTheWay, Answering, Delivered
<1>3. CASE TypeKey
  BY <1>1, <1>3, TypeKeyChannel DEF Channel!Next
<1>4. CASE HandlerStep
  BY <1>1, <1>4, HandlerChannel
<1>5. CASE Isr
  <2>1. ~Enqueuing
    BY <1>5 DEF Isr, IO!SpiIsr, IO!CanInterrupt, Outside, Enqueuing, IO!EnqueuePoint, B!EnqueuePoint
  <2>2. QED BY <1>1, <1>5, <2>1, IsrChannel DEF Channel!Next
<1>6. CASE Clavier \/ Call \/ Client
  BY <1>1, <1>6, MasterChannel DEF Channel!Next
<1>7. QED BY <1>2, <1>3, <1>4, <1>5, <1>6 DEF Next

(* taskClavier, the SPI and the keyboard's firmware together are the lossy *)
(* FIFO of KeyChannel, for any number of connectors, any buffer, any delay *)
(* of SPI_STC_vect outside enqueue and any task that calls bufferSize or   *)
(* grabKeys: a key that was taken in comes out in its turn or is lost to   *)
(* the one request a grab leaves behind.                                   *)
THEOREM LinkIsChannel ==
  ASSUME KEYBOARD \notin Stray, Outside
  PROVE  Spec => ImplementsKeyChannel
<1>1. Init => LossInv /\ ~raced
  BY InitLoss
<1>2. LossInv /\ ~raced /\ [Next]_vars => (LossInv /\ ~raced)'
  BY NextLoss
<1>3. Init => Channel!Init
  BY InitChannel
<1>4. LossInv /\ ~raced /\ [Next]_vars => [Channel!Next]_Channel!cvars
  BY NextChannel
<1>5. QED BY <1>1, <1>2, <1>3, <1>4, PTL DEF Spec, ImplementsKeyChannel, Channel!Spec
=============================================================================
