------------------------------- MODULE KeyLink -------------------------------
(***************************************************************************)
(* The main board and the keyboard board together: taskClavier             *)
(* (ordonnanceur.c), which probes the connectors once and then polls the   *)
(* request line and grabs keys (device.c, keyboard.c), the SPI between the *)
(* boards, and the keyboard firmware of module InOut.                      *)
(*                                                                         *)
(* The SPI exchanges one byte for one byte.  The slave's byte is in SPDR,  *)
(* where the master's takes its place: until SPI_STC_vect has run and      *)
(* loaded an answer, the next transfer reads the master's own byte back,   *)
(* and two bytes received raise one interrupt.                             *)
(*                                                                         *)
(* wait(20) gives the keyboard 80 ms (module Ordonnanceur).  IsrInTime     *)
(* says that SPI_STC_vect always runs within it; USB_GEN_vect of the       *)
(* keyboard board prints with interrupts off, and may delay it further.    *)
(*                                                                         *)
(* The n-th key typed is the character FirstKey + n - 1: what reaches the  *)
(* serial line tells which key it was.                                     *)
(***************************************************************************)
EXTENDS Integers, Sequences, SeqFilter

CONSTANTS
  MaxData, IrqAt,   \* of InOut
  Stray,            \* what an undriven MISO, or SPDR at reset, may read as
  MAX_DEVICES,      \* connectors, 5 in the program
  Slot,             \* the one the keyboard is plugged in
  IsrInTime,
  Calls,            \* the functions of keyboard.c called besides grabKey
  MaxTyped,         \* bound: keys typed
  MaxCalls,         \* bound: these calls
  MaxKeys,          \* bound: keys a call of grabKeys asks for
  MaxSerial         \* bound: characters written

FirstKey == 65
Key == FirstKey..(FirstKey + MaxTyped - 1)

Connector == 0..(MAX_DEVICES - 1)

ASSUME LinkAssumption ==
  /\ MAX_DEVICES \in Nat /\ Slot \in Connector /\ IsrInTime \in BOOLEAN
  /\ Calls \subseteq {"bufferSize", "grabKeys"}
ASSUME BoundAssumption ==
  MaxTyped \in 1..100 /\ MaxSerial \in Nat /\ MaxCalls \in Nat /\ MaxKeys \in Nat

KEYBOARD == 1
NoByte   == -1

VARIABLES
  buffer, sizeSendFlag, INT, SPDR, at, key, ktail, raced,    \* InOut
  up,         \* the keyboard firmware has run initIO
  irq,        \* the byte SPI_STC_vect is to handle, or NoByte
  pc,         \* where taskClavier is
  conn,       \* connector being probed
  device,     \* connectorsList[i].device
  serial,     \* what taskClavier wrote after the probe
  data,       \* the global variable of keyboard.c: the last answer it kept
  left,       \* keys grabKeys is still to read
  calls,      \* calls of bufferSize and grabKeys so far
  sized,      \* history: of bufferSize alone
  typed,      \* keys typed so far
  early,      \* history: the keyboard was up when its connector was probed
  spaced,     \* history: every key was typed while the link was at rest
  dropped     \* history: keys typed on a full buffer

iovars  == <<buffer, sizeSendFlag, INT, SPDR, at, key, ktail, raced>>
client  == <<data, left, calls, sized>>
master  == <<pc, conn, device, serial, client>>
history == <<typed, early, spaced, dropped>>

IO == INSTANCE InOut

ASSUME SlaveAssumption ==     \* of InOut
  /\ MaxData \in 1..255
  /\ IrqAt \subseteq IO!Point
  /\ Stray \subseteq IO!Byte /\ Stray # {}

vars == <<iovars, up, irq, master, history>>

TypeOK ==
  /\ IO!TypeOK
  /\ up \in BOOLEAN
  /\ irq \in {NoByte} \cup IO!Request
  /\ pc \in {"probe1", "probe2", "poll", "grab1", "grab2", "wild",
             "size1", "size2", "keys1", "keys2", "keys3"}
  /\ conn \in Connector
  /\ device \in [Connector -> IO!Byte]
  /\ serial \in Seq(IO!Byte)
  /\ data \in IO!Byte /\ left \in 0..MaxKeys
  /\ calls \in 0..MaxCalls /\ sized \in 0..calls
  /\ typed \in 0..MaxTyped
  /\ early \in BOOLEAN /\ spaced \in BOOLEAN
  /\ dropped \in 0..typed

Init ==
  /\ IO!Init
  /\ up \in BOOLEAN
  /\ irq = NoByte
  /\ pc = "probe1" /\ conn = 0
  /\ device = [i \in Connector |-> 0]
  /\ serial = <<>>
  /\ data = 0 /\ left = 0 /\ calls = 0 /\ sized = 0
  /\ typed = 0 /\ early = FALSE /\ spaced = TRUE /\ dropped = 0

(* Nothing is under way and no character waits. *)
AtRest ==
  /\ pc = "poll" /\ irq = NoByte
  /\ at = "idle" /\ IO!isEmpty(buffer) /\ ~INT

-----------------------------------------------------------------------------
(* The keyboard board. *)

Boot ==
  /\ ~up
  /\ up' = TRUE
  /\ UNCHANGED <<iovars, irq, master, history>>

TypeKey ==
  /\ up
  /\ typed < MaxTyped
  /\ IO!KeyHandler(FirstKey + typed)
  /\ typed' = typed + 1
  /\ spaced' = (spaced /\ AtRest)
  /\ dropped' = IF IO!isFull(buffer) THEN dropped + 1 ELSE dropped
  /\ UNCHANGED <<up, irq, master, early>>

HandlerStep ==
  /\ IO!HandlerStep
  /\ UNCHANGED <<up, irq, master, history>>

Isr ==
  /\ irq # NoByte
  /\ IO!SpiIsr(irq)
  /\ irq' = NoByte
  /\ UNCHANGED <<up, master, typed, early, spaced, dropped>>

-----------------------------------------------------------------------------
(* The main board. *)

(* transferSPI(b) with connector i selected: what it may return, and what  *)
(* it does to the keyboard.                                                *)
Received(i) == IF i = Slot /\ up THEN {SPDR} ELSE Stray

transferSPI(i, b) ==
  /\ IF i = Slot /\ up THEN SPDR' = b /\ irq' = b
                       ELSE UNCHANGED <<SPDR, irq>>
  /\ UNCHANGED <<buffer, sizeSendFlag, INT, at, key, ktail, raced, up>>

(* Mutant: no wait between two transfers. *)
Waited_Never == TRUE

(* What a wait before a transfer has left time for. *)
Waited == IsrInTime => irq = NoByte

(* initConnectorsList: two transfers of 0 a connector, the second answer   *)
(* kept.                                                                   *)
Probe1 ==
  /\ pc = "probe1"
  /\ transferSPI(conn, IO!AskType)
  /\ pc' = "probe2"
  /\ early' = (early \/ (conn = Slot /\ up))
  /\ UNCHANGED <<conn, device, serial, client, typed, spaced, dropped>>

Probe2 ==
  /\ pc = "probe2"
  /\ Waited
  /\ \E answer \in Received(conn) : device' = [device EXCEPT ![conn] = answer]
  /\ transferSPI(conn, IO!AskType)
  /\ IF conn + 1 < MAX_DEVICES
     THEN pc' = "probe1" /\ conn' = conn + 1
     ELSE pc' = "poll" /\ conn' = conn
  /\ UNCHANGED <<serial, client, history>>

(* i is what indexDevice(KEYBOARD) returns; for no i when it returns -1.   *)
indexDevice(i) == /\ device[i] = KEYBOARD
                  /\ \A j \in Connector : j < i => device[j] # KEYBOARD

(* Mutant: one transfer a grab. *)
Poll_OneTransfer ==
  /\ pc = "poll"
  /\ \E i \in Connector :
       /\ indexDevice(i)
       /\ \E line \in (IF i = Slot /\ up THEN {INT} ELSE BOOLEAN) :
            pc' = IF line THEN "grab2" ELSE "poll"
  /\ UNCHANGED <<iovars, up, irq, conn, device, serial, client, history>>

(* checkInterrupt.  An unconnected input reads as anything. *)
Poll ==
  /\ pc = "poll"
  /\ \E i \in Connector :
       /\ indexDevice(i)
       /\ \E line \in (IF i = Slot /\ up THEN {INT} ELSE BOOLEAN) :
            pc' = IF line THEN "grab1" ELSE "poll"
  /\ UNCHANGED <<iovars, up, irq, conn, device, serial, client, history>>

(* With no keyboard found, checkInterrupt and transferDataTo work on       *)
(* connectorsList[-1]: what the board does then is not followed.           *)
PollUnknown ==
  /\ pc = "poll"
  /\ ~\E i \in Connector : indexDevice(i)
  /\ pc' = "wild"
  /\ UNCHANGED <<iovars, up, irq, conn, device, serial, client, history>>

Wild == pc = "wild" /\ UNCHANGED vars

(* grabKey, the first transfer: its answer is not used. *)
Grab1 ==
  /\ pc = "grab1"
  /\ \E i \in Connector : indexDevice(i) /\ transferSPI(i, IO!AskKey)
  /\ pc' = "grab2"
  /\ UNCHANGED <<conn, device, serial, client, history>>

(* Mutant: the digit that initConnectorsList writes. *)
Grab2_Digit ==
  /\ pc = "grab2"
  /\ Waited
  /\ Len(serial) < MaxSerial
  /\ \E i \in Connector :
       /\ indexDevice(i)
       /\ data' \in Received(i) /\ serial' = Append(serial, (data' + 48) % 256)
       /\ transferSPI(i, IO!AskKey)
  /\ pc' = "poll"
  /\ UNCHANGED <<conn, device, left, calls, sized, history>>

(* The second transfer: taskClavier writes its answer. *)
Grab2 ==
  /\ pc = "grab2"
  /\ Waited
  /\ Len(serial) < MaxSerial
  /\ \E i \in Connector :
       /\ indexDevice(i)
       /\ data' \in Received(i) /\ serial' = Append(serial, data')
       /\ transferSPI(i, IO!AskKey)
  /\ pc' = "poll"
  /\ UNCHANGED <<conn, device, left, calls, sized, history>>

-----------------------------------------------------------------------------
(* bufferSize and grabKeys, which no task calls: a task that would, and    *)
(* the keyboard it has found.                                              *)
Transfer(b) == \E i \in Connector : indexDevice(i) /\ transferSPI(i, b)

Call ==
  /\ pc = "poll" /\ calls < MaxCalls
  /\ \E i \in Connector : indexDevice(i)
  /\ calls' = calls + 1
  /\ \/ "bufferSize" \in Calls /\ pc' = "size1" /\ sized' = sized + 1 /\ UNCHANGED left
     \/ /\ "grabKeys" \in Calls /\ pc' = "keys1"
        /\ left' \in 1..MaxKeys /\ UNCHANGED sized
  /\ UNCHANGED <<iovars, up, irq, conn, device, serial, data, history>>

(* bufferSize: the size is asked for, and read with the byte that asks for *)
(* a key.                                                                  *)
Size1 ==
  /\ pc = "size1"
  /\ Transfer(IO!AskSize)
  /\ pc' = "size2"
  /\ UNCHANGED <<conn, device, serial, client, history>>

Size2 ==
  /\ pc = "size2"
  /\ Waited
  /\ Transfer(IO!AskKey)
  /\ pc' = "poll"
  /\ UNCHANGED <<conn, device, serial, client, history>>

(* Mutant: the byte that asks for a key. *)
Keys1_AskKey ==
  /\ pc = "keys1"
  /\ Transfer(IO!AskKey)
  /\ pc' = "keys2"
  /\ UNCHANGED <<conn, device, serial, client, history>>

(* grabKeys: one transfer, a wait, then one more than the keys wanted with *)
(* no wait between them; each is the byte that asks for the type.          *)
Keys1 ==
  /\ pc = "keys1"
  /\ Transfer(IO!AskType)
  /\ pc' = "keys2"
  /\ UNCHANGED <<conn, device, serial, client, history>>

Keys2 ==
  /\ pc = "keys2"
  /\ Waited
  /\ \E i \in Connector : indexDevice(i) /\ data' \in Received(i)
  /\ Transfer(IO!AskType)
  /\ pc' = "keys3"
  /\ UNCHANGED <<conn, device, serial, left, calls, sized, history>>

Keys3 ==
  /\ pc = "keys3"
  /\ \E i \in Connector : indexDevice(i) /\ data' \in Received(i)
  /\ Transfer(IO!AskType)
  /\ left' = left - 1
  /\ pc' = IF left' = 0 THEN "poll" ELSE "keys3"
  /\ UNCHANGED <<conn, device, serial, calls, sized, history>>

Client == Size1 \/ Size2 \/ Keys1 \/ Keys2 \/ Keys3

Clavier == Probe1 \/ Probe2 \/ Poll \/ PollUnknown \/ Grab1 \/ Grab2

-----------------------------------------------------------------------------
Next ==
  \/ Boot
  \/ TypeKey
  \/ HandlerStep
  \/ Isr
  \/ Clavier
  \/ Call
  \/ Client
  \/ Wild

Spec == Init /\ [][Next]_vars

(* Both processors run and interrupts are served; nobody has to type, or   *)
(* to call what no task calls.                                             *)
FairSpec ==
  Spec /\ WF_vars(Boot) /\ WF_vars(HandlerStep) /\ WF_vars(Isr)
       /\ WF_vars(Clavier \/ Client)

-----------------------------------------------------------------------------
(* The characters written, without the zeros a grab on an empty buffer     *)
(* answers.                                                                *)
Delivered == Only(serial, Key)

(* The keyboard is found, and nothing is taken for it, when its firmware   *)
(* was up in time: the answer to the first probe byte is read by the       *)
(* second transfer and the next connectors do not disturb it.              *)
ProbeFindsKeyboard ==
  early /\ pc \notin {"probe1", "probe2"} =>
    \A i \in Connector : device[i] = KEYBOARD <=> i = Slot

(* The keys written come in the order typed and none comes twice, though   *)
(* two bytes are exchanged for one key, the request line may be read       *)
(* before SPI_STC_vect lowers it, and SPI_STC_vect may come late.  Only    *)
(* inside enqueue must it not come.                                        *)
WrittenOnce ==
  ~raced =>
    \A i, j \in 1..Len(Delivered) : i < j => Delivered[i] < Delivered[j]

(* Whatever indices and contents an interrupt inside enqueue leaves        *)
(* behind, no character is written that was not typed, except zeros, and   *)
(* the byte that asked for it when SPI_STC_vect comes late.                *)
NothingInvented ==
  LET own == IF IsrInTime THEN {0} ELSE {0, IO!AskKey}
  IN  \A i \in 1..Len(serial) :
        serial[i] \in own \cup (FirstKey..(FirstKey + typed - 1))

(* A typist who lets the link come to rest between two keys loses none of  *)
(* them: the byte that grabKey's second transfer leaves in SPDR is then    *)
(* never a key.  A call of bufferSize would cost him one.                  *)
SlowTypistLosesNothing ==
  spaced /\ sized = 0 /\ AtRest => Delivered = [n \in 1..typed |-> FirstKey + n - 1]

(* However fast the typist, a grab loses one of the keys the buffer took   *)
(* at most; and so does a call of bufferSize, whose second transfer takes  *)
(* one that nobody reads.  grabKeys loses none.                            *)
OneLossPerGrab ==
  AtRest => typed - dropped - Len(Delivered) <= Len(serial) + sized

(* grabKeys returns no key: it asks for the type, and its list holds the   *)
(* answers to that and its own bytes read back.                            *)
GrabKeysReadsTypes == pc = "keys3" => data \in {KEYBOARD, IO!AskType}

(* Keys do not stay in the keyboard: when one is waiting, the buffer is    *)
(* emptied eventually, unless the main board never found the keyboard.     *)
BufferDrains == ~IO!isEmpty(buffer) ~> (IO!isEmpty(buffer) \/ pc = "wild")

(* The second transfer of a grab is to read a key. *)
Answering == pc = "grab2" /\ irq = NoByte /\ SPDR \in Key

(* The keys on their way, oldest first: the one in SPDR that a grab is to  *)
(* write, those waiting, and the one enqueue has in hand.                  *)
InKeyboard == IF at \in IO!EnqueuePoint THEN Append(IO!Contents, key) ELSE IO!Contents

OnTheWay == IF Answering THEN <<SPDR>> \o InKeyboard ELSE InKeyboard

Channel == INSTANCE KeyChannel
             WITH line <- OnTheWay, spare <- irq = IO!AskKey /\ pc # "grab2",
                  delivered <- Delivered, Capacity <- MaxData

(* Where no interrupt falls inside enqueue, the two boards together are a  *)
(* bounded FIFO that loses a key in two ways only: typed on a full buffer, *)
(* or taken by the one request a grab, or a call of bufferSize, leaves     *)
(* behind.                                                                 *)
ImplementsKeyChannel == Channel!Spec

(* What KeyboardHost.txt says of a pressed key: it is transmitted.         *)
EveryKeyTransmitted ==
  AtRest => \A n \in 1..typed : \E i \in 1..Len(serial) :
                                  serial[i] = FirstKey + n - 1
=============================================================================
