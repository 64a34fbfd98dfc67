---------------------------- MODULE ControlRequest ----------------------------
(***************************************************************************)
(* USB_Host_SendControlRequest (LUFA, HostStandardReq.c), call after call: *)
(* the stages of a control transfer on the control pipe of the host, its   *)
(* waits and their time-outs, against a device that answers, stalls, sends *)
(* too little or too much, or is unplugged.                                *)
(*                                                                         *)
(* The pipe transfers while it is not frozen, and holds one packet: bank   *)
(* is the packet received, with the request that it answers.  UsbHost      *)
(* takes such a call as one step; here it is taken apart.                  *)
(***************************************************************************)
EXTENDS Naturals

CONSTANTS
  Kinds,         \* of requests, see Kind
  PipeSize,      \* USB_Host_ControlPipeSize
  TimeoutMS,     \* USB_HOST_TIMEOUT_MS
  MaxCalls       \* bound: calls

(* wLength, the direction, and whether there is a buffer. *)
Kind == [wLength : Nat, in : BOOLEAN, buffer : BOOLEAN]

ASSUME RequestAssumption ==
  /\ Kinds \subseteq Kind
  /\ PipeSize \in Nat \ {0} /\ TimeoutMS \in Nat
ASSUME BoundAssumption == MaxCalls \in Nat

VARIABLES
  pc,             \* "idle", or the stage
  call,           \* the number of this call
  kind,           \* what it asks
  DataLen,        \* bytes still to move
  moved,          \* bytes moved to or from the buffer
  TimeoutCounter,
  waiting,        \* in USB_Host_WaitMS, inside USB_Host_WaitForIOS
  token, frozen,  \* of the pipe
  bank,           \* the packet received, or NoPacket
  sent,           \* SETUP or OUT: the packet written is acknowledged
  fault,          \* the pipe reports "stall" or "error", or "none"
  attached,       \* USB_HostState is not Unattached
  heard,          \* the call whose SETUP packet the device has last had
  empty,          \* history: an empty packet came
  status          \* what was returned

program == <<call, kind, DataLen, moved>>
wait    == <<TimeoutCounter, waiting>>
pipe    == <<token, frozen, bank, sent, fault>>
vars    == <<pc, program, wait, pipe, attached, heard, empty, status>>

NoPacket == [call |-> 0, bytes |-> 0]
Success  == "Successful"
Waits    == {"setup", "in", "outReady", "outDone", "out", "statusIn"}
Stage    == {"idle", "start", "settle", "data", "status"} \cup Waits

Init ==
  /\ pc = "idle" /\ call = 0
  /\ kind \in Kinds
  /\ DataLen = 0 /\ moved = 0 /\ TimeoutCounter = 0 /\ waiting = FALSE
  /\ token = "SETUP" /\ frozen = TRUE /\ bank = NoPacket /\ sent = TRUE
  /\ fault = "none" /\ attached = TRUE /\ heard = 0
  /\ empty = FALSE /\ status = Success

-----------------------------------------------------------------------------
(* The device and the pipe. *)

Live == attached /\ ~frozen

Acknowledge ==
  /\ Live /\ ~sent
  /\ sent' = TRUE
  /\ heard' = IF token = "SETUP" THEN call ELSE heard
  /\ UNCHANGED <<pc, program, wait, token, frozen, bank, fault, attached, empty, status>>

Send ==
  /\ Live /\ token = "IN" /\ bank = NoPacket /\ heard # 0
  /\ \E n \in 0..PipeSize : bank' = [call |-> heard, bytes |-> n]
  /\ UNCHANGED <<pc, program, wait, token, frozen, sent, fault, attached, heard, empty, status>>

Refuse ==
  /\ Live /\ fault = "none"
  /\ fault' \in {"stall", "error"}
  /\ UNCHANGED <<pc, program, wait, token, frozen, bank, sent, attached, heard, empty, status>>

Detach ==
  /\ attached
  /\ attached' = FALSE
  /\ UNCHANGED <<pc, program, wait, pipe, heard, empty, status>>

-----------------------------------------------------------------------------
(* Mutant: the pipe is not reset. *)
Return_NoReset(code) ==
  /\ pc' = "idle" /\ status' = code
  /\ frozen' = TRUE /\ waiting' = FALSE
  /\ UNCHANGED <<token, bank, sent, fault>>

(* The end of USB_Host_SendControlRequest: Pipe_Freeze, Pipe_ResetPipe.    *)
Return(code) ==
  /\ pc' = "idle" /\ status' = code
  /\ frozen' = TRUE /\ waiting' = FALSE
  /\ bank' = NoPacket /\ sent' = TRUE /\ fault' = "none"
  /\ UNCHANGED token

(* What USB_Host_WaitForIOS waits for. *)
Ready == IF pc \in {"in", "statusIn"} THEN bank # NoPacket ELSE sent

(* It has not come: USB_Host_WaitMS(1) begins. *)
StartWait ==
  /\ pc \in Waits /\ ~waiting /\ ~Ready
  /\ waiting' = TRUE
  /\ UNCHANGED <<pc, program, TimeoutCounter, pipe, attached, heard, empty, status>>

(* USB_Host_WaitMS fails, here and around the SETUP stage. *)
Fails == ~attached \/ fault # "none"

WaitFails ==
  /\ waiting \/ pc \in {"start", "settle"}
  /\ Fails
  /\ Return(IF ~attached THEN "DeviceDisconnect" ELSE fault)
  /\ UNCHANGED <<program, TimeoutCounter, attached, heard, empty>>

(* Mutant: no time-out. *)
EndWait_Patient ==
  /\ waiting /\ ~Fails
  /\ waiting' = FALSE
  /\ UNCHANGED <<pc, TimeoutCounter, pipe, status>>
  /\ UNCHANGED <<program, attached, heard, empty>>

(* The millisecond is over. *)
EndWait ==
  /\ waiting /\ ~Fails
  /\ IF TimeoutCounter = 0
     THEN Return("SoftwareTimeOut") /\ UNCHANGED TimeoutCounter
     ELSE /\ TimeoutCounter' = TimeoutCounter - 1 /\ waiting' = FALSE
          /\ UNCHANGED <<pc, pipe, status>>
  /\ UNCHANGED <<program, attached, heard, empty>>

(* The wait of this stage is over. *)
Come(stage) == pc = stage /\ ~waiting /\ Ready

(* To a stage that waits, with its token and a new time-out, the pipe running. *)
Goto(stage, t) ==
  /\ pc' = stage /\ token' = t /\ frozen' = FALSE
  /\ TimeoutCounter' = TimeoutMS /\ waiting' = FALSE

(* Its caller has filled USB_ControlRequest in. *)
Call ==
  /\ pc = "idle" /\ call < MaxCalls
  /\ call' = call + 1
  /\ kind' \in Kinds /\ DataLen' = kind'.wLength /\ moved' = 0 /\ empty' = FALSE
  /\ pc' = "start"
  /\ UNCHANGED <<wait, pipe, attached, heard, status>>

(* The first wait is over: Pipe_ClearError, and the header is sent. *)
SendSetup ==
  /\ pc = "start" /\ ~Fails
  /\ Goto("setup", "SETUP")
  /\ sent' = FALSE
  /\ UNCHANGED <<program, bank, fault, attached, heard, empty, status>>

SetupSent ==
  /\ Come("setup")
  /\ pc' = "settle" /\ frozen' = TRUE
  /\ UNCHANGED <<program, wait, token, bank, sent, fault, attached, heard, empty, status>>

(* The second wait is over: the data stage, or the status stage. *)
Settled ==
  /\ pc = "settle" /\ ~Fails
  /\ IF kind.in
     THEN /\ pc' = IF kind.buffer THEN "data" ELSE "status"
          /\ token' = "IN" /\ UNCHANGED <<frozen, wait>>
     ELSE IF kind.buffer
     THEN Goto(IF DataLen = 0 THEN "outDone" ELSE "out", "OUT")
     ELSE Goto("statusIn", "IN")
  /\ UNCHANGED <<program, bank, sent, fault, attached, heard, empty, status>>

(* The loop of the IN data stage, and the status stage behind it. *)
AskData ==
  /\ pc = "data" /\ DataLen > 0
  /\ Goto("in", "IN")
  /\ UNCHANGED <<program, bank, sent, fault, attached, heard, empty, status>>

(* Mutant: the packet is read to its end. *)
TakeData_Whole ==
  /\ Come("in")
  /\ moved' = moved + bank.bytes
  /\ DataLen' = IF bank.bytes = 0 \/ bank.bytes > DataLen THEN 0 ELSE DataLen - bank.bytes
  /\ empty' = (empty \/ bank.bytes = 0)
  /\ pc' = "data" /\ frozen' = TRUE /\ bank' = NoPacket
  /\ UNCHANGED <<call, kind, wait, token, sent, fault, attached, heard, status>>

(* Mutant: a short packet ends the data. *)
TakeData_Short ==
  /\ Come("in")
  /\ LET n == IF bank.bytes < DataLen THEN bank.bytes ELSE DataLen
     IN  /\ moved' = moved + n
         /\ DataLen' = IF bank.bytes < PipeSize THEN 0 ELSE DataLen - n
  /\ empty' = (empty \/ bank.bytes = 0)
  /\ pc' = "data" /\ frozen' = TRUE /\ bank' = NoPacket
  /\ UNCHANGED <<call, kind, wait, token, sent, fault, attached, heard, status>>

(* Mutant: an empty packet does not end the data. *)
TakeData_EmptyGoesOn ==
  /\ Come("in")
  /\ LET n == IF bank.bytes < DataLen THEN bank.bytes ELSE DataLen
     IN  moved' = moved + n /\ DataLen' = DataLen - n
  /\ empty' = (empty \/ bank.bytes = 0)
  /\ pc' = "data" /\ frozen' = TRUE /\ bank' = NoPacket
  /\ UNCHANGED <<call, kind, wait, token, sent, fault, attached, heard, status>>

(* An empty packet ends the data; what is more than DataLen is dropped. *)
TakeData ==
  /\ Come("in")
  /\ LET n == IF bank.bytes < DataLen THEN bank.bytes ELSE DataLen
     IN  /\ moved' = moved + n
         /\ DataLen' = IF bank.bytes = 0 THEN 0 ELSE DataLen - n
  /\ empty' = (empty \/ bank.bytes = 0)
  /\ pc' = "data" /\ frozen' = TRUE /\ bank' = NoPacket
  /\ UNCHANGED <<call, kind, wait, token, sent, fault, attached, heard, status>>

StatusOut ==
  /\ pc = "status" \/ (pc = "data" /\ DataLen = 0)
  /\ Goto("outReady", "OUT")
  /\ UNCHANGED <<program, bank, sent, fault, attached, heard, empty, status>>

OutReady ==
  /\ Come("outReady")
  /\ Goto("outDone", "OUT")
  /\ sent' = FALSE
  /\ UNCHANGED <<program, bank, fault, attached, heard, empty, status>>

(* The end of an IN request; an OUT request goes on to its status stage. *)
OutDone ==
  /\ Come("outDone")
  /\ IF kind.in THEN Return(Success) /\ UNCHANGED TimeoutCounter
     ELSE Goto("statusIn", "IN") /\ UNCHANGED <<bank, sent, fault, status>>
  /\ UNCHANGED <<program, attached, heard, empty>>

PutData ==
  /\ Come("out")
  /\ LET n == IF PipeSize < DataLen THEN PipeSize ELSE DataLen
     IN  /\ moved' = moved + n /\ DataLen' = DataLen - n
         /\ Goto(IF DataLen = n THEN "outDone" ELSE "out", "OUT")
  /\ sent' = FALSE
  /\ UNCHANGED <<call, kind, bank, fault, attached, heard, empty, status>>

StatusIn ==
  /\ Come("statusIn")
  /\ Return(Success)
  /\ UNCHANGED <<program, TimeoutCounter, attached, heard, empty>>

Progress ==
  \/ SendSetup \/ SetupSent \/ Settled \/ AskData \/ TakeData \/ StatusOut
  \/ OutReady \/ OutDone \/ PutData \/ StatusIn
  \/ StartWait \/ EndWait \/ WaitFails

Idle == pc = "idle" /\ call = MaxCalls /\ UNCHANGED vars

Next == Acknowledge \/ Send \/ Refuse \/ Detach \/ Call \/ Progress \/ Idle

Spec == Init /\ [][Next]_vars

(* The processor runs, and a frame ends every turn of a wait while the     *)
(* host is attached: nothing is asked of the device.                       *)
FairSpec == Spec /\ WF_vars(Progress)

-----------------------------------------------------------------------------
(* Whatever the device sends, no byte is moved beyond the wLength bytes of *)
(* the buffer, in either direction.                                        *)
WithinBuffer == moved + DataLen <= kind.wLength

(* A request that succeeded with data has filled the buffer, unless the    *)
(* device ended the data with an empty packet.                             *)
SuccessMeansAll ==
  pc = "idle" /\ call > 0 /\ status = Success /\ kind.buffer /\ ~empty =>
    moved = kind.wLength

(* A late answer to a request given up is never taken for the answer to    *)
(* the next: the packet the program is about to take is its own.           *)
AnswerIsOwn == pc \in {"in", "statusIn"} /\ bank # NoPacket => bank.call = call

(* The stages in the order the program comes to them; data and in change   *)
(* places, with less to move each time.                                    *)
StagesLeft ==
  CASE pc = "start"    -> 9 [] pc = "setup"            -> 8 [] pc = "settle"  -> 7
    [] pc = "data"     -> 6 [] pc \in {"in", "status"} -> 5 [] pc = "out"     -> 4
    [] pc = "outReady" -> 3 [] pc = "outDone"          -> 2 [] pc = "statusIn" -> 1
    [] OTHER           -> 0

(* The milliseconds left, a turn of the wait counted in two halves.        *)
HalvesLeft == 2 * TimeoutCounter + IF waiting THEN 0 ELSE 1

Less(m, n) == m \in 0..(n - 1)

(* No step of the device, the pipe or the program sets a request back: the *)
(* program is left where it is, or returns, or has fewer bytes to move, or *)
(* as many and fewer stages, or is in the same stage with less time.       *)
EveryStepIsNearer ==
  [][pc # "idle" =>
       \/ UNCHANGED <<pc, program, wait>>
       \/ pc' = "idle"
       \/ Less(DataLen', DataLen)
       \/ DataLen' = DataLen /\ Less(StagesLeft', StagesLeft)
       \/ /\ UNCHANGED <<pc, DataLen>>
          /\ Less(HalvesLeft', HalvesLeft)]_vars

(* Every request returns, though the device may stop at any stage.         *)
EveryCallReturns == pc # "idle" ~> pc = "idle"
=============================================================================
