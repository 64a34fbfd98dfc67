------------------------- MODULE ControlRequestProofs -------------------------
(***************************************************************************)
(* Theorems about ControlRequest, for every set of requests, every size of *)
(* the control pipe, every time-out and any number of calls.               *)
(***************************************************************************)
EXTENDS ControlRequest, TLAPS

(* The types that the arithmetic rests on. *)
Types ==
  /\ pc \in Stage
  /\ call \in Nat /\ kind \in Kind /\ DataLen \in Nat /\ moved \in Nat
  /\ bank \in [call : Nat, bytes : Nat]
  /\ heard \in Nat

(* The pipe runs in the stages that wait for it, with the token of the     *)
(* stage, and in no other.                                                 *)
Token ==
  /\ ~frozen <=> pc \in Waits
  /\ waiting => pc \in Waits
  /\ pc = "setup" => token = "SETUP"
  /\ pc \in {"in", "statusIn"} => token = "IN"
  /\ pc \in {"outReady", "outDone", "out"} => token = "OUT"

(* A packet lies in the bank only while the program waits for it, and what *)
(* the device has heard by then is this call.                              *)
Own ==
  /\ bank # NoPacket => pc \in {"in", "statusIn"} /\ bank.call = call
  /\ pc = "setup" /\ sent => heard = call
  /\ pc \notin {"idle", "start", "setup"} => heard = call

(* No byte is counted twice, and none is left out unless an empty packet   *)
(* came; the status stage and success have no more to move.                *)
Moved ==
  /\ moved + DataLen <= kind.wLength
  /\ call > 0 /\ kind.buffer /\ ~empty => moved + DataLen = kind.wLength
  /\ pc # "idle" => call > 0
  /\ pc = "status" => ~kind.buffer
  /\ pc \in {"outReady", "outDone", "statusIn"} /\ kind.buffer => DataLen = 0
  /\ pc = "idle" /\ call > 0 /\ status = Success /\ kind.buffer => DataLen = 0
  /\ fault \in {"none", "stall", "error"}

Inv == Types /\ Token /\ Own /\ Moved

-----------------------------------------------------------------------------
LEMMA NoPacketType == NoPacket \in [call : Nat, bytes : Nat]
BY DEF NoPacket

LEMMA InitInv == Init => Inv
<1> SUFFICES ASSUME Init PROVE Inv
  OBVIOUS
<1>1. kind \in Kind /\ kind.wLength \in Nat
  BY RequestAssumption DEF Init, Kind
<1>2. QED
  BY <1>1, NoPacketType
  DEF Init, Inv, Types, Token, Own, Moved, Stage, Waits, Success

(* What the device and the pipe do keeps the invariant: they write to the  *)
(* bank in the stages that read it, and the device hears a SETUP packet in *)
(* the setup stage alone.                                                  *)
LEMMA HardwareInv ==
  ASSUME Inv, Acknowledge \/ Send \/ Refuse \/ Detach
  PROVE  Inv'
<1> USE DEF Inv
<1>1. CASE Acknowledge
  <2>1. Types'
    BY <1>1 DEF Acknowledge, Types, program, wait
  <2>2. Token'
    BY <1>1 DEF Acknowledge, Token, program, wait
  <2>3. Own'
    BY <1>1 DEF Acknowledge, Own, Token, Live, Waits, program, wait
  <2>4. Moved'
    BY <1>1 DEF Acknowledge, Moved, program, wait
  <2>5. QED BY <2>1, <2>2, <2>3, <2>4
<1>2. CASE Send
  <2>1. PICK n \in 0..PipeSize : bank' = [call |-> heard, bytes |-> n]
    BY <1>2 DEF Send
  <2>2. pc \in {"in", "statusIn"}
    BY <1>2 DEF Send, Live, Token, Waits
  <2>3. Types'
    BY <1>2, <2>1 DEF Send, Types, program, wait
  <2>4. Token'
    BY <1>2 DEF Send, Token, program, wait
  <2>5. Own'
    BY <1>2, <2>1, <2>2 DEF Send, Own, program, wait
  <2>6. Moved'
    BY <1>2 DEF Send, Moved, program, wait
  <2>7. QED BY <2>3, <2>4, <2>5, <2>6
<1>3. CASE Refuse
  BY <1>3 DEF Refuse, Types, Token, Own, Moved, program, wait
<1>4. CASE Detach
  BY <1>4 DEF Detach, Types, Token, Own, Moved, program, wait, pipe
<1>5. QED BY <1>1, <1>2, <1>3, <1>4

(* A call that ends leaves an empty bank; it succeeds only from a stage    *)
(* with nothing left to move.                                              *)
LEMMA ReturnInv ==
  ASSUME Inv, NEW code, Return(code),
         pc # "idle",
         code = Success => pc \in {"outDone", "statusIn"},
         UNCHANGED <<program, heard, empty>>
  PROVE  Inv'
<1> USE DEF Inv, program
<1>1. Types'
  BY NoPacketType DEF Return, Types, Stage
<1>2. Token'
  BY DEF Return, Token, Waits
<1>3. Own'
  BY DEF Return, Own
<1>4. Moved'
  BY DEF Return, Moved
<1>5. QED BY <1>1, <1>2, <1>3, <1>4

(* The waits. *)
LEMMA WaitInv ==
  ASSUME Inv, StartWait \/ WaitFails \/ EndWait
  PROVE  Inv'
<1> USE DEF Inv
<1>1. CASE StartWait
  BY <1>1 DEF StartWait, Types, Token, Own, Moved, program, pipe
<1>2. CASE WaitFails
  <2> DEFINE code == IF ~attached THEN "DeviceDisconnect" ELSE fault
  <2>1. Return(code) /\ UNCHANGED <<program, heard, empty>>
    BY <1>2 DEF WaitFails
  <2>2. pc # "idle"
    BY <1>2 DEF WaitFails, Token, Waits
  <2>3. code # Success
    BY DEF Moved, Success
  <2> HIDE DEF code
  <2>4. QED
    BY <2>1, <2>2, <2>3, ReturnInv
<1>3. CASE EndWait
  <2>1. CASE TimeoutCounter = 0
    <3>1. Return("SoftwareTimeOut") /\ UNCHANGED <<program, heard, empty>>
      BY <1>3, <2>1 DEF EndWait
    <3>2. pc # "idle"
      BY <1>3 DEF EndWait, Token, Waits
    <3>3. QED BY <3>1, <3>2, ReturnInv DEF Success
  <2>2. CASE TimeoutCounter # 0
    BY <1>3, <2>2 DEF EndWait, Types, Token, Own, Moved, program, pipe
  <2>3. QED BY <2>1, <2>2
<1>4. QED BY <1>1, <1>2, <1>3

(* The bytes that one packet carries. *)
LEMMA PacketMoves ==
  ASSUME NEW n \in Nat, NEW b \in Nat, NEW m \in Nat, NEW w \in Nat,
         NEW k, k = IF b < n THEN b ELSE n
  PROVE  /\ k \in Nat /\ n - k \in Nat
         /\ m + n <= w => (m + k) + (n - k) <= w /\ m + k <= w
         /\ m + n = w => (m + k) + (n - k) = w
OBVIOUS

(* The stages of a call. *)
LEMMA StageInv ==
  ASSUME Inv,
         \/ SendSetup \/ SetupSent \/ Settled \/ AskData \/ TakeData
         \/ StatusOut \/ OutReady \/ OutDone \/ PutData \/ StatusIn
  PROVE  Inv'
<1> USE DEF Inv, program, wait, Waits, Stage
<1>1. CASE SendSetup
  BY <1>1 DEF SendSetup, Goto, Types, Token, Own, Moved
<1>2. CASE SetupSent
  BY <1>2 DEF SetupSent, Come, Ready, Types, Token, Own, Moved
<1>3. CASE Settled
  BY <1>3 DEF Settled, Goto, Types, Token, Own, Moved
<1>4. CASE AskData
  BY <1>4 DEF AskData, Goto, Types, Token, Own, Moved
<1>5. CASE TakeData
  <2> DEFINE b == bank.bytes
             w == kind.wLength
             n == IF b < DataLen THEN b ELSE DataLen
  <2>1. /\ pc = "in" /\ ~waiting /\ bank # NoPacket
        /\ moved' = moved + n
        /\ DataLen' = IF b = 0 THEN 0 ELSE DataLen - n
        /\ empty \/ b = 0 => empty'
        /\ pc' = "data" /\ frozen' = TRUE /\ bank' = NoPacket
        /\ UNCHANGED <<call, kind, waiting, token, fault, heard, status>>
    BY <1>5 DEF TakeData, Come, Ready
  <2>2. DataLen \in Nat /\ b \in Nat /\ moved \in Nat /\ w \in Nat
    BY DEF Types, Kind
  <2>3. moved + DataLen <= w /\ (call > 0 /\ kind.buffer /\ ~empty => moved + DataLen = w)
    BY DEF Moved
  <2>4. w' = w
    BY <2>1
  <2> HIDE DEF b, w
  <2>5. /\ n \in Nat /\ DataLen - n \in Nat
        /\ (moved + n) + (DataLen - n) <= w /\ moved + n <= w
        /\ moved + DataLen = w => (moved + n) + (DataLen - n) = w
    BY <2>2, <2>3, PacketMoves
  <2> HIDE DEF n
  <2>6. /\ moved' \in Nat /\ DataLen' \in Nat
        /\ moved' + DataLen' <= w'
        /\ moved + DataLen = w /\ ~empty' => moved' + DataLen' = w'
    <3>1. CASE b = 0
      BY <3>1, <2>1, <2>2, <2>4, <2>5
    <3>2. CASE b # 0
      BY <3>2, <2>1, <2>2, <2>3, <2>4, <2>5
    <3>3. QED BY <3>1, <3>2
  <2>7. Types'
    BY <2>1, <2>6, NoPacketType DEF Types
  <2>8. Token'
    BY <2>1 DEF Token
  <2>9. Own'
    BY <2>1 DEF Own
  <2>10. Moved'
    BY <2>1, <2>3, <2>6 DEF Moved, w
  <2>11. QED BY <2>7, <2>8, <2>9, <2>10
<1>6. CASE StatusOut
  BY <1>6 DEF StatusOut, Goto, Types, Token, Own, Moved
<1>7. CASE OutReady
  BY <1>7 DEF OutReady, Come, Ready, Goto, Types, Token, Own, Moved
<1>8. CASE OutDone
  <2>1. CASE kind.in
    BY <1>8, <2>1, ReturnInv DEF OutDone, Come
  <2>2. CASE ~kind.in
    BY <1>8, <2>2 DEF OutDone, Come, Ready, Goto, Types, Token, Own, Moved
  <2>3. QED BY <2>1, <2>2
<1>9. CASE PutData
  <2> DEFINE n == IF PipeSize < DataLen THEN PipeSize ELSE DataLen
  <2>1. /\ pc = "out"
        /\ moved' = moved + n /\ DataLen' = DataLen - n
        /\ Goto(IF DataLen = n THEN "outDone" ELSE "out", "OUT")
        /\ sent' = FALSE
        /\ UNCHANGED <<call, kind, bank, fault, attached, heard, empty, status>>
    BY <1>9 DEF PutData, Come, Ready
  <2>2. DataLen \in Nat /\ PipeSize \in Nat /\ moved \in Nat /\ kind.wLength \in Nat
    BY RequestAssumption DEF Types, Kind
  <2>3. /\ n \in Nat /\ DataLen - n \in Nat
        /\ moved + DataLen <= kind.wLength => (moved + n) + (DataLen - n) <= kind.wLength
        /\ moved + DataLen = kind.wLength => (moved + n) + (DataLen - n) = kind.wLength
    BY <2>2, PacketMoves
  <2>4. DataLen = n => DataLen - n = 0
    BY <2>2
  <2> HIDE DEF n
  <2>5. Types'
    BY <2>1, <2>2, <2>3 DEF Types, Goto
  <2>6. Token'
    BY <2>1 DEF Token, Goto
  <2>7. Own'
    BY <2>1 DEF Own, Goto
  <2>8. Moved'
    BY <2>1, <2>2, <2>3, <2>4 DEF Moved, Goto
  <2>9. QED BY <2>5, <2>6, <2>7, <2>8
<1>10. CASE StatusIn
  BY <1>10, ReturnInv DEF StatusIn, Come
<1>11. QED
  BY <1>1, <1>2, <1>3, <1>4, <1>5, <1>6, <1>7, <1>8, <1>9, <1>10

LEMMA CallInv ==
  ASSUME Inv, Call
  PROVE  Inv'
<1>1. kind' \in Kind /\ kind'.wLength \in Nat
  BY RequestAssumption DEF Call, Kind
<1>2. QED
  BY <1>1 DEF Call, Inv, Types, Token, Own, Moved, wait, pipe, Waits, Stage

LEMMA NextInv == Inv /\ [Next]_vars => Inv'
<1> SUFFICES ASSUME Inv, [Next]_vars PROVE Inv'
  OBVIOUS
<1>1. CASE Idle \/ UNCHANGED vars
  BY <1>1 DEF Idle, vars, program, wait, pipe, Inv, Types, Token, Own, Moved
<1>2. QED
  BY <1>1, HardwareInv, WaitInv, StageInv, CallInv DEF Next, Progress

LEMMA Invariance == Spec => []Inv
BY InitInv, NextInv, PTL DEF Spec

-----------------------------------------------------------------------------
(* No byte is moved beyond the buffer, for every size of the pipe and of   *)
(* the packets: the copy is bounded by what is left to move, and that and  *)
(* what was moved never exceed wLength.                                    *)
THEOREM BufferKept == Spec => []WithinBuffer
<1>1. Inv => WithinBuffer
  BY DEF Inv, Moved, WithinBuffer
<1>2. QED BY <1>1, Invariance, PTL

(* A request that succeeds has filled its buffer or met an empty packet:   *)
(* the status stage is reached with nothing left to move.                  *)
THEOREM SuccessIsComplete == Spec => []SuccessMeansAll
<1>1. Inv => SuccessMeansAll
  BY DEF Inv, Types, Moved, Kind, SuccessMeansAll
<1>2. QED BY <1>1, Invariance, PTL

(* A late answer is never taken for another: the pipe runs only in the     *)
(* stages that wait for it, the packet of a call given up is thrown away   *)
(* by Pipe_ResetPipe, and the next one comes after the device has heard    *)
(* the new SETUP packet.                                                   *)
THEOREM NoLateAnswer == Spec => []AnswerIsOwn
<1>1. Inv => AnswerIsOwn
  BY DEF Inv, Own, AnswerIsOwn
<1>2. QED BY <1>1, Invariance, PTL

-----------------------------------------------------------------------------
(* What a stage has left: the loops of the data have bytes to move, and    *)
(* the time-out counts down.                                               *)
Counts ==
  /\ TimeoutCounter \in Nat
  /\ pc \in {"in", "out"} => DataLen > 0

CInv == Inv /\ Counts

LEMMA InitCounts == Init => Counts
BY DEF Init, Counts

LEMMA NextCounts ==
  ASSUME Inv, Counts, [Next]_vars
  PROVE  Counts'
<1> USE DEF Counts
<1>1. DataLen \in Nat /\ TimeoutMS \in Nat
  BY RequestAssumption DEF Inv, Types
<1>2. CASE Acknowledge \/ Send \/ Refuse \/ Detach \/ Idle \/ UNCHANGED vars
  BY <1>2 DEF Acknowledge, Send, Refuse, Detach, Idle, vars, program, wait
<1>3. CASE Call
  BY <1>3 DEF Call, wait
<1>4. CASE StartWait \/ EndWait \/ WaitFails
  BY <1>4 DEF StartWait, EndWait, WaitFails, Return, program
<1>5. CASE SendSetup \/ SetupSent \/ Settled
  BY <1>1, <1>5 DEF SendSetup, SetupSent, Settled, Goto, program, wait
<1>6. CASE AskData \/ TakeData \/ StatusOut \/ OutReady \/ StatusIn
  BY <1>1, <1>6 DEF AskData, TakeData, StatusOut, OutReady, StatusIn, Goto, Return, program, wait
<1>7. CASE OutDone
  BY <1>1, <1>7 DEF OutDone, Goto, Return, program
<1>8. CASE PutData
  BY <1>1, <1>8, RequestAssumption DEF PutData, Goto
<1>9. QED BY <1>2, <1>3, <1>4, <1>5, <1>6, <1>7, <1>8 DEF Next, Progress

LEMMA CountsInvariance == Spec => []CInv
<1>1. Init => CInv
  BY InitInv, InitCounts DEF CInv
<1>2. CInv /\ [Next]_vars => CInv'
  BY NextInv, NextCounts DEF CInv
<1>3. QED BY <1>1, <1>2, PTL DEF Spec

(* The next stage is nearer. *)
LEMMA NextStage ==
  ASSUME Inv, pc # "idle", pc' # "idle",
         SendSetup \/ SetupSent \/ Settled \/ AskData \/ StatusOut \/ OutReady \/ OutDone \/ StatusIn
  PROVE  DataLen' = DataLen /\ Less(StagesLeft', StagesLeft)
<1>1. DataLen' = DataLen
  BY DEF SendSetup, SetupSent, Settled, AskData, StatusOut, OutReady, OutDone, StatusIn, program
<1>2. \/ pc = "start" /\ pc' = "setup"
      \/ pc = "setup" /\ pc' = "settle"
      \/ pc = "settle" /\ pc' \in {"data", "status", "outDone", "out", "statusIn"}
      \/ pc = "data" /\ pc' = "in"
      \/ pc \in {"status", "data"} /\ pc' = "outReady"
      \/ pc = "outReady" /\ pc' = "outDone"
      \/ pc = "outDone" /\ pc' = "statusIn"
  BY DEF SendSetup, SetupSent, Settled, AskData, StatusOut, OutReady, OutDone, StatusIn,
         Come, Goto, Return
<1>3. QED BY <1>1, <1>2 DEF StagesLeft, Less

(* A request comes to its end, whatever the device does, for requests of   *)
(* any length, any packet size and time-out: DataLen, the stage and the    *)
(* time left go down in this order, each a natural number.                 *)
THEOREM RequestGetsNearer == Spec => EveryStepIsNearer
<1> DEFINE Step ==
      pc # "idle" =>
        \/ UNCHANGED <<pc, program, wait>>
        \/ pc' = "idle"
        \/ Less(DataLen', DataLen)
        \/ DataLen' = DataLen /\ Less(StagesLeft', StagesLeft)
        \/ UNCHANGED <<pc, DataLen>> /\ Less(HalvesLeft', HalvesLeft)
<1>1. ASSUME CInv, Next PROVE Step
  <2> SUFFICES ASSUME pc # "idle", pc' # "idle" PROVE Step
    OBVIOUS
  <2>1. /\ DataLen \in Nat /\ PipeSize \in Nat \ {0} /\ bank \in [call : Nat, bytes : Nat]
        /\ TimeoutCounter \in Nat
        /\ pc \in {"in", "out"} => DataLen > 0
    BY <1>1, RequestAssumption DEF CInv, Inv, Types, Counts
  <2>2. CASE Acknowledge \/ Send \/ Refuse \/ Detach
    BY <2>2 DEF Acknowledge, Send, Refuse, Detach
  <2>3. CASE Call \/ Idle
    BY <2>3 DEF Call, Idle
  <2>4. CASE SendSetup \/ SetupSent \/ Settled \/ AskData \/ StatusOut \/ OutReady \/ OutDone \/ StatusIn
    BY <1>1, <2>4, NextStage DEF CInv
  <2>5. CASE TakeData
    <3>1. bank # NoPacket /\ pc = "in"
      BY <2>5 DEF TakeData, Come, Ready
    <3>2. bank.bytes \in Nat /\ DataLen > 0
      BY <2>1, <3>1
    <3>3. Less(DataLen', DataLen)
      BY <2>1, <2>5, <3>2 DEF TakeData, Less
    <3>4. QED BY <3>3
  <2>6. CASE PutData
    <3>1. pc = "out"
      BY <2>6 DEF PutData, Come
    <3>2. Less(DataLen', DataLen)
      BY <2>1, <2>6, <3>1 DEF PutData, Less
    <3>3. QED BY <3>2
  <2>7. CASE StartWait
    BY <2>1, <2>7 DEF StartWait, program, HalvesLeft, Less
  <2>8. CASE EndWait
    BY <2>1, <2>8 DEF EndWait, Return, program, HalvesLeft, Less
  <2>9. CASE WaitFails
    BY <2>9 DEF WaitFails, Return
  <2>10. QED BY <1>1, <2>2, <2>3, <2>4, <2>5, <2>6, <2>7, <2>8, <2>9 DEF Next, Progress
<1>2. CInv /\ [Next]_vars => [Step]_vars
  BY <1>1
<1>3. QED BY <1>2, CountsInvariance, PTL DEF Spec, EveryStepIsNearer
=============================================================================
