---------------------------- MODULE UsbHostProofs ----------------------------
(***************************************************************************)
(* Theorems about UsbHost, for every length of the waits, any number of    *)
(* keyboards plugged in and any number of failures.                        *)
(***************************************************************************)
EXTENDS UsbHost, TLAPS

(* WaitMSRemaining is not 0 in the wait that will decrement it. *)
Types == TypeOK /\ (pc \in {"waitms", "waited"} => WaitMSRemaining # 0)

(* The places between a read of USB_HostState and a write that rests on    *)
(* it, USB_Host_ResetDevice and the return from it included, and those     *)
(* where the main program is about to talk to the keyboard.                *)
Held   == {"Powered", "WaitForDeviceSettle", "connect", "DoReset", "look", "looked",
           "reset", "ConfigPipe", "PostAddressSet", "waited", "answered"}
Asking == {"WaitForConnect", "Default", "PostReset", "request", "answer", "refused"}

(* What StateAsTold needs of the times at which keyboards come and go.     *)
KeptOutside ==
  /\ UnplugAt \cap Held = {}
  /\ PlugAt \cap (Held \cup Asking) = {}

(* USB_HostState agrees with the last event, but behind a wait that        *)
(* failed; while a keyboard is said to be there, no other is listened for. *)
Agree ==
  /\ HostState = "Unattached" => told = "unattached"
  /\ pc \notin {"error", "abandon"} /\ told = "unattached" => HostState = "Unattached"
  /\ told = "attached" => "SRPI" \notin enabled
  /\ "VBERRI" \in enabled \/ halted => told = "attached"

(* Every wait has a state to go on with. *)
Post ==
  /\ HostState = "WaitForDevice" => PostWaitState # "Unattached"
  /\ pc \in {"WaitForDevice", "waitms", "waited", "waitfailed"} =>
       PostWaitState # "Unattached"

(* Where a state is held, the keyboard is still there, and no interrupt    *)
(* will say otherwise: a frame has been seen, and what looked like a       *)
(* removal forgotten, before the removal is listened for again.            *)
Steady ==
  /\ pc \in Held =>
       told = "attached" /\ plugged /\ ~Raised("DDISCI") /\ ~Raised("BCERRI")
  /\ pc \in {"look", "looked"} => "DDISCI" \notin enabled
  /\ pc = "look" /\ ~halted => sofen
  /\ pc = "looked" => "DDISCI" \notin flags

(* The removal of a keyboard is or will be noticed. *)
Noticed ==
  /\ "SRPI" \in flags \/ (told = "attached" /\ ~halted) => plugged \/ "DDISCI" \in flags
  /\ told = "attached" /\ ~halted => "DDISCI" \in enabled \/ pc \in {"look", "looked"}

(* Where the program talks to a keyboard it is the one it was told of, or  *)
(* none.                                                                   *)
Partner ==
  /\ pc \in Asking =>
       \/ told = "attached" /\ ~Raised("DDISCI") /\ ~Raised("BCERRI")
       \/ ~plugged
  /\ pc = "WaitForConnect" /\ told = "unattached" => "DCONNI" \notin flags

-----------------------------------------------------------------------------
(* Types. *)

LEMMA InitTypes == Init => Types
<1> SUFFICES ASSUME Init PROVE Types
  OBVIOUS
<1>1. plugs \in 0..MaxPlugs /\ faults \in 0..MaxFaults
  BY BoundAssumption DEF Init
<1>2. QED
  BY <1>1 DEF Init, Types, TypeOK, State, Case, Flag, Place, Request


LEMMA Members ==
  /\ \A f \in {"DCONNI", "DDISCI", "SRPI", "VBERRI", "BCERRI", "HSOFI"} : f \in Flag
  /\ Case \subseteq State /\ Case \subseteq Place
  /\ \A s \in {"Unattached", "Addressed", "Configured", "WaitForDevice", "Powered",
                "WaitForDeviceSettle", "WaitForConnect", "DoReset", "ConfigPipe",
                "Default", "PostReset", "PostAddressSet"} : s \in State
  /\ \A p \in {"keyboard", "pipe", "read", "unread", "usb", "waitms", "waited",
                "waitfailed", "connect", "look", "looked", "reset", "request", "answer",
                "answered", "refused", "error", "abandon"} : p \in Place
  /\ "waited" \notin Case /\ "waitms" \notin Case
BY DEF Flag, State, Case, Place

LEMMA HardwareTypes == Types /\ Hardware => Types'
<1> SUFFICES ASSUME Types, Hardware PROVE Types'
  OBVIOUS
<1> USE BoundAssumption, Members DEF Types, TypeOK, host, regs, bus
<1>1. CASE Plug
  BY <1>1 DEF Plug
<1>2. CASE Unplug
  BY <1>2 DEF Unplug
<1>3. CASE Frame
  BY <1>3 DEF Frame
<1>4. CASE \E f \in {"SRPI", "DCONNI"} : Sense(f)
  BY <1>4 DEF Sense
<1>5. CASE \E f \in {"VBERRI", "BCERRI"} : Misfire(f)
  BY <1>5 DEF Misfire, Fail
<1>6. QED BY <1>1, <1>2, <1>3, <1>4, <1>5 DEF Hardware

LEMMA InterruptTypes == Types /\ USB_GEN_vect => Types'
<1> SUFFICES ASSUME Types, USB_GEN_vect PROVE Types'
  OBVIOUS
<1> USE Members DEF Types, TypeOK, host, regs, bus
<1>1. CASE Disconnected
  BY <1>1 DEF Disconnected, USB_ResetInterface
<1>2. CASE VbusError
  BY <1>2 DEF VbusError
<1>3. CASE Attached
  BY <1>3 DEF Attached
<1>4. QED BY <1>1, <1>2, <1>3 DEF USB_GEN_vect

(* A pipe configured or refused. *)
LEMMA PipeTypes ==
  ASSUME Types, NEW p \in {"control", "data"}, PipeRefused(p) \/ PipeGranted(p)
  PROVE  pipes' \subseteq {"control", "data"} /\ faults' \in 0..MaxFaults
<1>1. CASE PipeRefused(p)
  BY <1>1, BoundAssumption DEF PipeRefused, Fail, Types, TypeOK
<1>2. CASE PipeGranted(p)
  BY <1>2 DEF PipeGranted, Types, TypeOK
<1>3. QED BY <1>1, <1>2

(* The steps of the main program. *)
LEMMA MainTypes == Types /\ Main => Types'
<1> SUFFICES ASSUME Types, Main PROVE Types'
  OBVIOUS
<1> USE WaitAssumption, BoundAssumption, Members
    DEF Types, TypeOK, Request, host, regs, bus, quiet,
        At, Goto, HOST_TASK_NONBLOCK_WAIT
<1>1. CASE KeyboardHost_Task
  BY <1>1 DEF KeyboardHost_Task
<1>2. CASE PollPipe
  BY <1>2 DEF PollPipe
<1>3. CASE ReadReport \/ ProcessUnread
  <2>1. CASE ReadReport
    BY <2>1 DEF ReadReport
  <2>2. CASE ProcessUnread
    BY <2>2 DEF ProcessUnread
  <2>3. QED BY <1>3, <2>1, <2>2
<1>4. CASE USB_USBTask
  BY <1>4 DEF USB_USBTask
<1>5. CASE WaitForDevice
  BY <1>5 DEF WaitForDevice
<1>6. CASE WaitLoop
  BY <1>6 DEF WaitLoop
<1>7. CASE Waited
  BY <1>7 DEF Waited
<1>8. CASE WaitFailed \/ Powered
  <2>1. CASE WaitFailed
    BY <2>1 DEF WaitFailed
  <2>2. CASE Powered
    BY <2>2 DEF Powered
  <2>3. QED BY <1>8, <2>1, <2>2
<1>9. CASE WaitForDeviceSettle
  BY <1>9 DEF WaitForDeviceSettle
<1>10. CASE WaitForConnect \/ Connect
  <2>1. CASE WaitForConnect
    BY <2>1 DEF WaitForConnect
  <2>2. CASE Connect
    BY <2>2 DEF Connect
  <2>3. QED BY <1>10, <2>1, <2>2
<1>11. CASE DoReset \/ DeviceSizeRead
  <2>1. CASE DoReset
    BY <2>1 DEF DoReset, ResetBus
  <2>2. CASE DeviceSizeRead
    BY <2>2 DEF DeviceSizeRead, ResetBus
  <2>3. QED BY <1>11, <2>1, <2>2
<1>12. CASE LookForFrame
  BY <1>12 DEF LookForFrame
<1>13. CASE Looked
  BY <1>13 DEF Looked
<1>13a. CASE AfterReset
  BY <1>13a DEF AfterReset
<1>14. CASE ConfigPipe
  BY <1>14, PipeTypes DEF ConfigPipe
<1>15. CASE Default
  BY <1>15 DEF Default, Ask
<1>16. CASE PostReset
  BY <1>16, PipeTypes DEF PostReset, Ask
<1>17. CASE PostAddressSet
  BY <1>17 DEF PostAddressSet, Ask
<1>18. CASE SendControlRequest \/ AddressTaken
  <2>1. CASE SendControlRequest
    BY <2>1 DEF SendControlRequest
  <2>2. CASE AddressTaken
    BY <2>2 DEF AddressTaken
  <2>3. QED BY <1>18, <2>1, <2>2
<1>19. CASE ConfigurationSet \/ ProtocolSet
  <2>1. CASE ConfigurationSet
    BY <2>1 DEF ConfigurationSet, Ask
  <2>2. CASE ProtocolSet
    BY <2>2 DEF ProtocolSet, Ask
  <2>3. QED BY <1>19, <2>1, <2>2
<1>20. CASE Answer
  <2>1. Becomes(req) \in {"none", "attached", "default", "addressed", "configured", "boot"}
    BY DEF Becomes
  <2>2. QED BY <1>20, <2>1 DEF Answer
<1>21. CASE NoAnswer
  <2>1. Becomes(req) \in {"none", "attached", "default", "addressed", "configured", "boot"}
    BY DEF Becomes
  <2>2. QED BY <1>21, <2>1 DEF NoAnswer, Fail
<1>22. CASE ConfigRead
  BY <1>22, PipeTypes DEF ConfigRead, Ask
<1>23. CASE Refused
  BY <1>23 DEF Refused, Ask
<1>24. CASE EnumerationError
  BY <1>24 DEF EnumerationError
<1>25. CASE Abandon
  BY <1>25 DEF Abandon, USB_ResetInterface
<1>26. QED
  BY <1>1, <1>2, <1>3, <1>4, <1>5, <1>6, <1>7, <1>8, <1>9, <1>10, <1>11, <1>12, <1>13, <1>13a,
     <1>14, <1>15, <1>16, <1>17, <1>18, <1>19, <1>20, <1>21, <1>22, <1>23, <1>24, <1>25 DEF Main

LEMMA NextTypes == Types /\ [Next]_vars => Types'
<1>1. Types /\ (Spin \/ UNCHANGED vars) => Types'
  BY DEF Spin, vars, host, regs, bus, Types, TypeOK
<1>2. QED
  BY <1>1, HardwareTypes, InterruptTypes, MainTypes DEF Next

(* Every variable keeps its type: the counter of the wait, which           *)
(* USB_Host_ProcessNextHostState decrements after it has slept, is never   *)
(* decremented from 0.                                                     *)
THEOREM TypeCorrect == Spec => []TypeOK
<1>1. Types => TypeOK
  BY DEF Types
<1>2. QED BY <1>1, InitTypes, NextTypes, PTL DEF Spec

-----------------------------------------------------------------------------
(* The board always listens: the removal is held back by                   *)
(* USB_Host_ResetDevice alone, and every reset of the controller enables   *)
(* the arrival again.                                                      *)
THEOREM NeverDeaf == Spec => []Listening
<1>1. Init => Listening
  BY DEF Init, Listening
<1>2. Listening /\ [Next]_vars => Listening'
  <2> SUFFICES ASSUME Listening, [Next]_vars PROVE Listening'
    OBVIOUS
  <2> USE DEF Listening, host, regs, bus, quiet, At, Goto
  <2>1. CASE Hardware
    BY <2>1 DEF Hardware, Plug, Unplug, Frame, Sense, Misfire
  <2>2. CASE USB_GEN_vect
    BY <2>2 DEF USB_GEN_vect, Disconnected, USB_ResetInterface, VbusError, Attached
  <2>3. CASE DoReset \/ DeviceSizeRead
    BY <2>3 DEF DoReset, DeviceSizeRead, ResetBus
  <2>4. CASE LookForFrame \/ Looked \/ AfterReset
    BY <2>4 DEF LookForFrame, Looked, AfterReset
  <2>5. CASE Abandon
    BY <2>5 DEF Abandon, USB_ResetInterface
  <2>6. CASE KeyboardHost_Task \/ PollPipe \/ ReadReport \/ ProcessUnread \/ USB_USBTask
    BY <2>6 DEF KeyboardHost_Task, PollPipe, ReadReport, ProcessUnread, USB_USBTask, Case
  <2>7. CASE WaitForDevice \/ WaitLoop \/ Waited \/ WaitFailed \/ Powered
    BY <2>7 DEF WaitForDevice, WaitLoop, Waited, WaitFailed, Powered
  <2>8. CASE WaitForDeviceSettle \/ WaitForConnect \/ Connect
    BY <2>8 DEF WaitForDeviceSettle, WaitForConnect, Connect
  <2>9. CASE ConfigPipe \/ Default \/ PostReset \/ PostAddressSet
    BY <2>9 DEF ConfigPipe, Default, PostReset, PostAddressSet, Ask
  <2>10. CASE SendControlRequest \/ Answer \/ NoAnswer \/ AddressTaken \/ ConfigRead
    BY <2>10 DEF SendControlRequest, Answer, NoAnswer, AddressTaken, ConfigRead, Ask
  <2>11. CASE ConfigurationSet \/ ProtocolSet \/ Refused \/ EnumerationError
    BY <2>11 DEF ConfigurationSet, ProtocolSet, Refused, EnumerationError, Ask
  <2>12. CASE Spin \/ UNCHANGED vars
    BY <2>12 DEF Spin, vars
  <2>13. QED
    BY <2>1, <2>2, <2>3, <2>4, <2>5, <2>6, <2>7, <2>8, <2>9, <2>10, <2>11, <2>12
    DEF Next, Main
<1>3. QED BY <1>1, <1>2, PTL DEF Spec

-----------------------------------------------------------------------------
(* USB_HostState and the events. *)

Told == Agree /\ Post /\ Steady /\ Noticed /\ Partner

LEMMA InitTold == Init => Told
BY DEF Init, Told, Agree, Post, Steady, Noticed, Partner, Held, Asking, Raised

(* Keyboards come and go outside the places where a state is held. *)
LEMMA HardwareTold ==
  ASSUME KeptOutside, Told, Hardware
  PROVE  Told'
<1> USE DEF Told, Agree, Post, Steady, Noticed, Partner, Raised, host, regs, bus
<1>1. CASE Plug
  BY <1>1 DEF Plug, KeptOutside
<1>2. CASE Unplug
  BY <1>2 DEF Unplug, KeptOutside, Held
<1>3. CASE Frame
  BY <1>3 DEF Frame
<1>4. CASE \E f \in {"SRPI", "DCONNI"} : Sense(f)
  BY <1>4 DEF Sense, Asking
<1>5. CASE \E f \in {"VBERRI", "BCERRI"} : Misfire(f)
  BY <1>5 DEF Misfire, KeptOutside
<1>6. QED BY <1>1, <1>2, <1>3, <1>4, <1>5 DEF Hardware

(* An interrupt says attached or unattached and sets USB_HostState to      *)
(* match; where a state is held none can be served.                        *)
LEMMA InterruptTold ==
  ASSUME TypeOK, Told, USB_GEN_vect
  PROVE  Told'
<1> USE DEF Told, Agree, Post, Steady, Noticed, Partner, Raised, host, regs, bus
<1>1. CASE Disconnected
  <2>1. /\ told' = "unattached" /\ HostState' = "Unattached" /\ flags' = {}
        /\ enabled' = {"SRPI", "BCERRI"}
        /\ UNCHANGED <<PostWaitState, plugged, pc, halted>>
        /\ ~halted /\ (Raised("DDISCI") \/ Raised("BCERRI"))
    BY <1>1 DEF Disconnected, USB_ResetInterface, USB_GEN_vect
  <2>2. Agree' /\ Post'
    BY <2>1
  <2>3. Steady' /\ Noticed' /\ Partner'
    BY <2>1 DEF Held
  <2>4. QED BY <2>2, <2>3
<1>2. CASE VbusError
  BY <1>2 DEF VbusError
<1>3. CASE Attached
  <2>1. /\ told = "unattached" /\ "SRPI" \in enabled
        /\ told' = "attached" /\ HostState' = "Powered"
        /\ enabled' = (enabled \ {"SRPI"}) \cup {"DDISCI"}
        /\ flags' = flags \ {"SRPI"}
        /\ UNCHANGED <<PostWaitState, plugged, pc, halted>>
    BY <1>3 DEF Attached, TypeOK
  <2>2. Agree' /\ Post'
    BY <2>1
  <2>3. Steady' /\ Noticed' /\ Partner'
    BY <1>3, <2>1 DEF Attached, Asking, Held
  <2>4. QED BY <2>2, <2>3
<1>4. QED BY <1>1, <1>2, <1>3 DEF USB_GEN_vect

(* At a step of the main program nothing is pending. *)
LEMMA NothingPending ==
  ASSUME NEW place, At(place)
  PROVE  pc = place /\ ~halted /\ ~Raised("DDISCI") /\ ~Raised("BCERRI")
BY Members DEF At, Pending

LEMMA MainTold ==
  ASSUME TypeOK, Told, Main
  PROVE  Told'
<1> USE NothingPending
    DEF TypeOK, Told, Agree, Post, Steady, Noticed, Partner, Held, Asking, Raised,
        host, regs, bus, quiet, Goto, HOST_TASK_NONBLOCK_WAIT
<1>1. CASE KeyboardHost_Task \/ PollPipe
  BY <1>1 DEF KeyboardHost_Task, PollPipe
<1>2. CASE ReadReport \/ ProcessUnread
  BY <1>2 DEF ReadReport, ProcessUnread
<1>3. CASE USB_USBTask
  <2>1. "Unattached" \notin Case
    BY DEF Case
  <2>2. CASE HostState \in Case
    <3>1. /\ told = "attached" /\ ~Raised("DDISCI") /\ ~Raised("BCERRI") /\ ~halted
          /\ pc' = HostState /\ UNCHANGED <<host, flags, enabled, plugged, told, halted>>
      BY <1>3, <2>1, <2>2 DEF USB_USBTask
    <3>2. HostState \notin {"look", "looked", "reset", "error", "abandon"}
      BY <2>2 DEF Case
    <3>3. HostState \in {"waitms", "waited", "waitfailed"} => FALSE
      BY <2>2 DEF Case
    <3>4. plugged
      BY <3>1
    <3>5. Agree' /\ Post'
      BY <3>1, <3>2, <3>3
    <3>6. Noticed'
      BY <1>3, <3>1, <3>4, Members DEF USB_USBTask, At, Pending
    <3>7. Steady' /\ Partner'
      BY <3>1, <3>2, <3>4
    <3>8. QED BY <3>5, <3>6, <3>7
  <2>3. CASE HostState \notin Case
    BY <1>3, <2>3 DEF USB_USBTask
  <2>4. QED BY <2>2, <2>3
<1>4. CASE WaitForDevice
  BY <1>4 DEF WaitForDevice
<1>5. CASE WaitLoop
  BY <1>5 DEF WaitLoop
<1>6. CASE Waited
  BY <1>6 DEF Waited
<1>7. CASE WaitFailed
  BY <1>7 DEF WaitFailed
<1>8. CASE Powered
  BY <1>8 DEF Powered
<1>9. CASE WaitForDeviceSettle
  BY <1>9 DEF WaitForDeviceSettle
<1>10. CASE WaitForConnect
  BY <1>10 DEF WaitForConnect
<1>11. CASE Connect
  BY <1>11 DEF Connect
<1>12. CASE DoReset
  BY <1>12 DEF DoReset, ResetBus
<1>13. CASE DeviceSizeRead
  BY <1>13 DEF DeviceSizeRead, ResetBus
<1>14. CASE LookForFrame
  BY <1>14 DEF LookForFrame
<1>15. CASE Looked
  BY <1>15 DEF Looked
<1>15a. CASE AfterReset
  BY <1>15a DEF AfterReset
<1>16. CASE ConfigPipe
  BY <1>16 DEF ConfigPipe
<1>17. CASE Default
  BY <1>17 DEF Default, Ask
<1>18. CASE PostReset
  BY <1>18 DEF PostReset, Ask
<1>19. CASE PostAddressSet
  BY <1>19 DEF PostAddressSet, Ask
<1>20. CASE SendControlRequest \/ AddressTaken
  BY <1>20 DEF SendControlRequest, AddressTaken
<1>21. CASE ConfigurationSet \/ ProtocolSet
  BY <1>21 DEF ConfigurationSet, ProtocolSet, Ask
<1>22. CASE Answer
  BY <1>22 DEF Answer, Reaches
<1>23. CASE NoAnswer
  BY <1>23 DEF NoAnswer
<1>24. CASE ConfigRead
  BY <1>24 DEF ConfigRead, Ask
<1>25. CASE Refused
  BY <1>25 DEF Refused, Ask
<1>26. CASE EnumerationError
  BY <1>26 DEF EnumerationError
<1>27. CASE Abandon
  BY <1>27 DEF Abandon, USB_ResetInterface
<1>28. QED
  BY <1>1, <1>2, <1>3, <1>4, <1>5, <1>6, <1>7, <1>8, <1>9, <1>10, <1>11, <1>12, <1>13, <1>14,
     <1>15, <1>15a, <1>16, <1>17, <1>18, <1>19, <1>20, <1>21, <1>22, <1>23, <1>24, <1>25, <1>26, <1>27 DEF Main

LEMMA AlwaysTold ==
  ASSUME KeptOutside
  PROVE  Spec => [](TypeOK /\ Told)
<1>1. TypeOK /\ Told /\ [Next]_vars => Told'
  <2>1. Told /\ (Spin \/ UNCHANGED vars) => Told'
    BY DEF Spin, vars, host, regs, bus, Told, Agree, Post, Steady, Noticed, Partner, Raised
  <2>2. QED
    BY <2>1, HardwareTold, InterruptTold, MainTold DEF Next
<1>2. QED
  BY <1>1, InitTold, TypeCorrect, PTL DEF Spec

(* USB_HostState is Unattached at the top of the main loop exactly when    *)
(* the last event said so, provided that no keyboard comes or goes between *)
(* a read of USB_HostState and the write that rests on it, or while the    *)
(* program talks to a keyboard.                                            *)
THEOREM EventsAgree ==
  ASSUME KeptOutside
  PROVE  Spec => []StateAsTold
<1>1. TypeOK /\ Told => StateAsTold
  BY DEF TypeOK, Told, Agree, StateAsTold
<1>2. QED BY <1>1, AlwaysTold, PTL

(* The controller is stopped for ever only while a keyboard is attached,   *)
(* under the same proviso.                                                 *)
THEOREM StopsOnlyAttached ==
  ASSUME KeptOutside
  PROVE  Spec => []HaltsOnlyAttached
<1>1. Told => HaltsOnlyAttached
  BY DEF Told, Agree, HaltsOnlyAttached
<1>2. QED BY <1>1, AlwaysTold, PTL

-----------------------------------------------------------------------------
(* RequestsInOrder of UsbHost: what the state machine, the request under   *)
(* way and UHADDR say of the keyboard is followed from the first reset of  *)
(* the bus to the boot protocol.                                           *)

(* Where the main program has a keyboard in hand, and no other may come.   *)
Quiet == Held \cup Asking \cup {"WaitForDevice", "waitms"}

(* What RequestsInOrder needs of the times at which keyboards come and go. *)
KeptInHand == UnplugAt \cap Held = {} /\ PlugAt \cap Quiet = {}

(* There, a removal is the only interrupt that may come.                   *)
Calm ==
  pc \in Quiet => /\ ~halted
                  /\ \A f \in {"VBERRI", "BCERRI", "SRPI"} : ~Raised(f)
                  /\ plugged => told = "attached" /\ ~Raised("DDISCI")

(* The keyboard that the last event was about is still there. *)
Here == /\ plugged /\ told = "attached" /\ ~halted
        /\ ~Raised("DDISCI") /\ ~Raised("BCERRI")

(* What a state of the host says of the keyboard, the state that a wait    *)
(* goes on with included.                                                  *)
Claim(s) ==
  /\ s \in {"ConfigPipe", "Default", "PostReset"} => dev = "default"
  /\ s = "PostAddressSet" => dev = "addressed"
  /\ s \in {"Default", "PostAddressSet"} => "control" \in pipes

Ahead == IF HostState = "WaitForDevice" THEN PostWaitState ELSE HostState

Top     == {"keyboard", "pipe", "read", "unread", "usb"}
Waiting == {"WaitForDevice", "waitms", "waited"}
Dialog  == {"request", "answer", "answered", "refused"}

Known ==
  Here =>
    /\ pc \in Top \cup Waiting => Claim(Ahead)
    /\ pc \in Waiting => HostState = "WaitForDevice"
    /\ pc \in Case => HostState = pc /\ Claim(pc)
    /\ pc \in {"look", "looked", "reset"} => dev = "default"

(* And what a request says of it: before, after its answer, and after the  *)
(* refusal of the boot protocol.                                           *)
Asked ==
  Here =>
    /\ pc \in {"request", "answer", "answered"} \/ (pc = "refused" /\ req = "setProtocol") =>
         "control" \in pipes /\ (req \notin {"device8", "address"} => address = 1)
    /\ pc \in Dialog /\ req \notin {"device8", "address"} => HostState \in {"Addressed", "Configured"}
    /\ pc \in {"request", "answer"} => dev \in Needs[req]
    /\ pc = "answer" => sofen
    /\ pc = "answered" =>
         /\ req \in {"address", "config", "configData"} => dev = "addressed"
         /\ req = "setConfig" => dev = "configured"
    /\ pc = "refused" /\ req = "setProtocol" => dev \in {"configured", "boot"}

(* UHADDR is 0 until the keyboard has taken its address, and again when    *)
(* another is enumerated.                                                  *)
AddressGiven ==
  address = 1 =>
    /\ pc \in Top \cup Dialog
    /\ HostState \in {"Addressed", "Configured"}
    /\ pc \in Dialog => req \notin {"device8", "address"}

InOrder == Calm /\ Known /\ Asked /\ AddressGiven

-----------------------------------------------------------------------------
LEMMA InHand == KeptInHand => KeptOutside
BY DEF KeptInHand, KeptOutside, Quiet

LEMMA InitInOrder == Init => InOrder
BY DEF Init, InOrder, Calm, Here, Known, Asked, AddressGiven, Claim, Ahead,
       Quiet, Held, Asking, Top, Waiting, Dialog, Case, Raised

(* A place is of one kind. *)
LEMMA Kinds ==
  /\ Case \cap (Top \cup Dialog) = {}
  /\ Held \subseteq Quiet /\ Asking \subseteq Quiet /\ {"WaitForDevice", "waitms"} \subseteq Quiet
  /\ (Top \cup {"waitfailed", "error", "abandon"}) \cap Quiet = {}
  /\ \A c \in Case : c \in Quiet /\ (c \in Waiting => c = "WaitForDevice")
  /\ {"look", "looked", "reset", "waitms", "waited", "waitfailed", "connect", "error", "abandon"} \cap (Case \cup Top \cup Dialog) = {}
  /\ Top \cap (Waiting \cup Dialog) = {} /\ Waiting \cap Dialog = {}
  /\ "WaitForDevice" \in Case /\ "Unattached" \notin Case
BY DEF Quiet, Held, Asking, Top, Waiting, Dialog, Case

(* Keyboards come and go, the supply fails, frames are sent. *)
LEMMA HardwareInOrder ==
  ASSUME KeptInHand, TypeOK, Told, InOrder, Hardware
  PROVE  InOrder'
<1> USE DEF InOrder, Raised, host, regs, bus
<1>1. CASE Plug
  <2>1. /\ ~plugged /\ plugged' /\ pc \notin Quiet
        /\ UNCHANGED <<host, regs, pc, req, halted, told>>
    BY <1>1 DEF Plug, KeptInHand
  <2>2. ~Here'
    BY <2>1, Kinds DEF Here, Told, Noticed, Quiet, Held
  <2>3. Calm' /\ AddressGiven'
    BY <2>1, Kinds DEF Calm, AddressGiven
  <2>4. QED BY <2>2, <2>3 DEF Known, Asked
<1>2. CASE Unplug
  <2>1. /\ ~plugged' /\ pc \notin Held /\ flags' = flags \cup {"DDISCI"}
        /\ UNCHANGED <<host, enabled, address, pc, req, halted, told>>
    BY <1>2 DEF Unplug, KeptInHand
  <2>2. Calm'
    BY <2>1 DEF Calm
  <2>3. AddressGiven' /\ ~Here'
    BY <2>1 DEF AddressGiven, Here
  <2>4. QED BY <2>2, <2>3 DEF Known, Asked
<1>3. CASE Frame
  <2>1. /\ flags' = flags \cup {"HSOFI"}
        /\ UNCHANGED <<host, enabled, sofen, address, pipes, bus, pc, req, halted, told>>
    BY <1>3 DEF Frame
  <2>2. Calm' /\ AddressGiven' /\ (Here' <=> Here)
    BY <2>1 DEF Calm, AddressGiven, Here
  <2>3. Known' /\ Asked'
    BY <2>1, <2>2 DEF Known, Asked, Claim, Ahead, Needs
  <2>4. QED BY <2>2, <2>3
<1>4. CASE \E f \in {"SRPI", "DCONNI"} : Sense(f)
  <2>1. PICK f \in {"SRPI", "DCONNI"} : Sense(f)
    BY <1>4
  <2>2. /\ flags' = flags \cup {f} /\ plugged
        /\ UNCHANGED <<host, enabled, sofen, address, pipes, plugged, dev, pc, req, halted, told>>
    BY <2>1 DEF Sense
  <2>3. Calm'
    BY <2>2 DEF Calm, Told, Agree
  <2>4. AddressGiven' /\ (Here' <=> Here)
    BY <2>2 DEF AddressGiven, Here
  <2>5. Known' /\ Asked'
    BY <2>2, <2>4 DEF Known, Asked, Claim, Ahead, Needs
  <2>6. QED BY <2>3, <2>4, <2>5
<1>5. CASE \E f \in {"VBERRI", "BCERRI"} : Misfire(f)
  <2>1. PICK f \in {"VBERRI", "BCERRI"} : Misfire(f)
    BY <1>5
  <2>2. /\ flags' = flags \cup {f} /\ pc \notin Quiet
        /\ UNCHANGED <<host, enabled, sofen, address, pipes, bus, pc, req, halted, told>>
    BY <2>1 DEF Misfire, KeptInHand
  <2>3. Calm' /\ AddressGiven' /\ (Here' => Here)
    BY <2>2, Kinds DEF Calm, AddressGiven, Here
  <2>4. Known' /\ Asked'
    BY <2>2, <2>3 DEF Known, Asked, Claim, Ahead, Needs
  <2>5. QED BY <2>3, <2>4
<1>6. QED BY <1>1, <1>2, <1>3, <1>4, <1>5 DEF Hardware

(* The only interrupt that finds a keyboard in hand is its removal. *)
LEMMA InterruptInOrder ==
  ASSUME TypeOK, Told, InOrder, USB_GEN_vect
  PROVE  InOrder'
<1> USE DEF InOrder, Raised, host, regs, bus
<1>1. CASE Disconnected
  <2>1. /\ told' = "unattached" /\ flags' = {} /\ address' = 0
        /\ UNCHANGED <<plugged, pc, halted>> /\ ~halted
        /\ Raised("DDISCI") \/ Raised("BCERRI")
    BY <1>1 DEF Disconnected, USB_ResetInterface, USB_GEN_vect
  <2>2. pc \in Quiet => ~plugged
    BY <2>1 DEF Calm
  <2>3. pc \notin Held
    BY <2>1, <2>2, Kinds DEF Told, Steady
  <2>4. Calm' /\ ~Here' /\ AddressGiven'
    BY <2>1, <2>2, <2>3 DEF Calm, Here, AddressGiven
  <2>5. QED BY <2>4 DEF Known, Asked
<1>2. CASE VbusError
  <2>1. /\ halted' /\ flags' = {} /\ address' = 0 /\ pc' = pc /\ pc \notin Quiet
    BY <1>2 DEF VbusError, Calm
  <2>2. Calm' /\ ~Here' /\ AddressGiven'
    BY <2>1, Kinds DEF Calm, Here, AddressGiven
  <2>3. QED BY <2>2 DEF Known, Asked
<1>3. CASE Attached
  <2>1. /\ told = "unattached" /\ told' = "attached" /\ HostState' = "Powered"
        /\ enabled' = (enabled \ {"SRPI"}) \cup {"DDISCI"} /\ flags' = flags \ {"SRPI"}
        /\ UNCHANGED <<address, plugged, pc, halted>> /\ pc \notin Quiet
    BY <1>3 DEF Attached, TypeOK, Told, Agree, Calm
  <2>2. address = 0
    <3>1. pc \notin Dialog /\ (pc \in Top => pc \notin {"error", "abandon"})
      BY <2>1 DEF Quiet, Held, Asking, Dialog, Top
    <3>2. pc \in Top => HostState = "Unattached"
      BY <2>1, <3>1 DEF Told, Agree
    <3>3. address # 1
      BY <3>1, <3>2 DEF AddressGiven
    <3>4. QED BY <3>3 DEF TypeOK
  <2>3. AddressGiven'
    BY <2>1, <2>2 DEF AddressGiven
  <2>4. Calm'
    BY <2>1, Kinds DEF Calm
  <2>5. pc' \notin Waiting \cup Case \cup {"look", "looked", "reset"} \cup Dialog /\ Claim(Ahead)'
    <3>1. Claim("Powered")'
      BY DEF Claim
    <3>2. Ahead' = "Powered"
      BY <2>1 DEF Ahead
    <3>3. pc' \notin Waiting \cup Case \cup {"look", "looked", "reset"} \cup Dialog
      BY <2>1, Kinds DEF Quiet, Held, Asking, Waiting, Dialog
    <3>4. QED BY <3>2, <3>3 DEF Claim
  <2>6. Known' /\ Asked'
    BY <2>5 DEF Known, Asked, Dialog
  <2>7. QED BY <2>3, <2>4, <2>6
<1>4. QED BY <1>1, <1>2, <1>3 DEF USB_GEN_vect

(* At a step of the main program nothing is pending: a keyboard it was     *)
(* told of is in place, and none that it was not told of is in hand.       *)
LEMMA AtStep ==
  ASSUME TypeOK, Told, InOrder, NEW place, At(place)
  PROVE  /\ pc = place /\ ~halted
         /\ \A f \in {"DDISCI", "VBERRI", "BCERRI", "SRPI"} : ~Raised(f)
         /\ place \notin {"look", "looked"} => (Here <=> told = "attached")
<1>1. pc = place /\ ~halted /\ \A f \in {"DDISCI", "VBERRI", "BCERRI", "SRPI"} : ~Raised(f)
  BY Members DEF At, Pending
<1>2. place \notin {"look", "looked"} => (Here <=> told = "attached")
  BY <1>1 DEF Here, Told, Noticed, Raised
<1>3. QED BY <1>1, <1>2

LEMMA MainCalm ==
  ASSUME TypeOK, Told, InOrder, Main
  PROVE  Calm'
<1> USE AtStep
    DEF InOrder, Raised, host, regs, bus, quiet, Goto, Calm, Noticed, Quiet, Held, Asking, Told, Agree, Steady, Partner
<1>1. CASE KeyboardHost_Task \/ PollPipe
  BY <1>1 DEF KeyboardHost_Task, PollPipe
<1>2. CASE ReadReport \/ ProcessUnread
  BY <1>2 DEF ReadReport, ProcessUnread
<1>3. CASE USB_USBTask
  <2>1. /\ pc = "usb" /\ ~halted /\ UNCHANGED <<host, regs, bus, halted, told>>
        /\ \A f \in {"DDISCI", "VBERRI", "BCERRI", "SRPI"} : ~Raised(f)
    BY <1>3 DEF USB_USBTask
  <2>2. CASE HostState \in Case
    <3>1. told = "attached"
      BY <2>1, <2>2, Kinds DEF TypeOK
    <3>2. plugged
      BY <2>1, <3>1
    <3>3. QED BY <2>1, <3>1, <3>2
  <2>3. CASE HostState \notin Case
    BY <1>3, <2>1, <2>3 DEF USB_USBTask
  <2>4. QED BY <2>2, <2>3
<1>4. CASE WaitForDevice
  BY <1>4 DEF WaitForDevice
<1>5. CASE WaitLoop
  <2>1. /\ pc = "waitms" /\ ~halted /\ flags' = flags \ {"HSOFI"}
        /\ UNCHANGED <<HostState, enabled, bus, halted, told>>
        /\ \A f \in {"DDISCI", "VBERRI", "BCERRI", "SRPI"} : ~Raised(f)
    BY <1>5 DEF WaitLoop
  <2>2. CASE pc' = "waitfailed"
    BY <2>1, <2>2
  <2>3. CASE pc' = "waited" /\ HostState # "Unattached"
    <3>1. told = "attached"
      BY <2>1, <2>3 DEF TypeOK
    <3>2. plugged
      BY <2>1, <3>1
    <3>3. QED BY <2>1, <2>3, <3>1, <3>2
  <2>4. QED BY <1>5, <2>2, <2>3 DEF WaitLoop
<1>6. CASE Waited
  BY <1>6 DEF Waited
<1>7. CASE WaitFailed
  BY <1>7 DEF WaitFailed
<1>8. CASE Powered
  BY <1>8 DEF Powered
<1>9. CASE WaitForDeviceSettle
  BY <1>9 DEF WaitForDeviceSettle
<1>10. CASE WaitForConnect
  <2>1. /\ pc = "WaitForConnect" /\ ~halted /\ UNCHANGED <<host, regs, bus, halted, told>>
        /\ \A f \in {"DDISCI", "VBERRI", "BCERRI", "SRPI"} : ~Raised(f)
    BY <1>10 DEF WaitForConnect
  <2>2. CASE "DCONNI" \in flags /\ pc' = "connect"
    <3>1. told = "attached"
      BY <2>1, <2>2 DEF TypeOK
    <3>2. plugged
      BY <2>1, <3>1
    <3>3. QED BY <2>1, <2>2, <3>1, <3>2
  <2>3. CASE pc' = "keyboard"
    BY <2>1, <2>3
  <2>4. QED BY <1>10, <2>2, <2>3 DEF WaitForConnect
<1>11. CASE Connect
  BY <1>11 DEF Connect, HOST_TASK_NONBLOCK_WAIT
<1>12. CASE DoReset
  BY <1>12 DEF DoReset, ResetBus
<1>13. CASE DeviceSizeRead
  BY <1>13 DEF DeviceSizeRead, ResetBus
<1>14. CASE LookForFrame
  BY <1>14 DEF LookForFrame
<1>15. CASE Looked
  BY <1>15 DEF Looked
<1>15a. CASE AfterReset
  BY <1>15a DEF AfterReset, HOST_TASK_NONBLOCK_WAIT
<1>16. CASE ConfigPipe
  BY <1>16 DEF ConfigPipe, PipeRefused, PipeGranted
<1>17. CASE Default
  BY <1>17 DEF Default, Ask
<1>18. CASE PostReset
  BY <1>18 DEF PostReset, PipeRefused, PipeGranted, Ask
<1>19. CASE PostAddressSet
  BY <1>19 DEF PostAddressSet, Ask
<1>20. CASE SendControlRequest
  BY <1>20 DEF SendControlRequest
<1>21. CASE AddressTaken
  BY <1>21 DEF AddressTaken, HOST_TASK_NONBLOCK_WAIT
<1>22. CASE ConfigurationSet
  BY <1>22 DEF ConfigurationSet, Ask
<1>23. CASE ProtocolSet
  BY <1>23 DEF ProtocolSet
<1>24. CASE Answer
  BY <1>24 DEF Answer, Reaches
<1>25. CASE NoAnswer
  BY <1>25 DEF NoAnswer
<1>26. CASE ConfigRead
  BY <1>26 DEF ConfigRead, PipeRefused, PipeGranted, Ask
<1>27. CASE Refused
  BY <1>27 DEF Refused, Ask
<1>28. CASE EnumerationError
  BY <1>28 DEF EnumerationError
<1>29. CASE Abandon
  BY <1>29 DEF Abandon, USB_ResetInterface
<1>30. QED
  BY <1>1, <1>2, <1>3, <1>4, <1>5, <1>6, <1>7, <1>8, <1>9, <1>10, <1>11, <1>12, <1>13, <1>14, <1>15, <1>15a, <1>16, <1>17, <1>18, <1>19, <1>20, <1>21, <1>22, <1>23, <1>24, <1>25, <1>26, <1>27, <1>28, <1>29 DEF Main

(* UHADDR is 0 until the address is taken. *)
LEMMA MainAddress ==
  ASSUME TypeOK, Told, InOrder, Main
  PROVE  AddressGiven'
<1> USE AtStep DEF InOrder, Raised, host, regs, bus, quiet, Goto, AddressGiven, Top, Dialog, Case
<1>1. CASE KeyboardHost_Task \/ PollPipe
  BY <1>1 DEF KeyboardHost_Task, PollPipe
<1>2. CASE ReadReport \/ ProcessUnread
  BY <1>2 DEF ReadReport, ProcessUnread
<1>3. CASE USB_USBTask
  BY <1>3 DEF USB_USBTask
<1>4. CASE WaitForDevice
  BY <1>4 DEF WaitForDevice
<1>5. CASE WaitLoop
  BY <1>5 DEF WaitLoop
<1>6. CASE Waited
  BY <1>6 DEF Waited
<1>7. CASE WaitFailed
  BY <1>7 DEF WaitFailed
<1>8. CASE Powered
  BY <1>8 DEF Powered
<1>9. CASE WaitForDeviceSettle
  BY <1>9 DEF WaitForDeviceSettle
<1>10. CASE WaitForConnect
  BY <1>10 DEF WaitForConnect
<1>11. CASE Connect
  BY <1>11 DEF Connect, HOST_TASK_NONBLOCK_WAIT
<1>12. CASE DoReset
  BY <1>12 DEF DoReset, ResetBus
<1>13. CASE DeviceSizeRead
  BY <1>13 DEF DeviceSizeRead, ResetBus
<1>14. CASE LookForFrame
  BY <1>14 DEF LookForFrame
<1>15. CASE Looked
  BY <1>15 DEF Looked
<1>15a. CASE AfterReset
  BY <1>15a DEF AfterReset, HOST_TASK_NONBLOCK_WAIT
<1>16. CASE ConfigPipe
  BY <1>16 DEF ConfigPipe, PipeRefused, PipeGranted
<1>17. CASE Default
  BY <1>17 DEF Default, Ask
<1>18. CASE PostReset
  BY <1>18 DEF PostReset, PipeRefused, PipeGranted, Ask
<1>19. CASE PostAddressSet
  BY <1>19 DEF PostAddressSet, Ask
<1>20. CASE SendControlRequest
  BY <1>20 DEF SendControlRequest
<1>21. CASE AddressTaken
  BY <1>21 DEF AddressTaken, HOST_TASK_NONBLOCK_WAIT
<1>22. CASE ConfigurationSet
  BY <1>22 DEF ConfigurationSet, Ask
<1>23. CASE ProtocolSet
  BY <1>23 DEF ProtocolSet
<1>24. CASE Answer
  BY <1>24 DEF Answer, Reaches
<1>25. CASE NoAnswer
  BY <1>25 DEF NoAnswer
<1>26. CASE ConfigRead
  BY <1>26 DEF ConfigRead, PipeRefused, PipeGranted, Ask
<1>27. CASE Refused
  BY <1>27 DEF Refused, Ask
<1>28. CASE EnumerationError
  BY <1>28 DEF EnumerationError
<1>29. CASE Abandon
  BY <1>29 DEF Abandon, USB_ResetInterface
<1>30. QED
  BY <1>1, <1>2, <1>3, <1>4, <1>5, <1>6, <1>7, <1>8, <1>9, <1>10, <1>11, <1>12, <1>13, <1>14, <1>15, <1>15a, <1>16, <1>17, <1>18, <1>19, <1>20, <1>21, <1>22, <1>23, <1>24, <1>25, <1>26, <1>27, <1>28, <1>29 DEF Main

(* What a state says of the keyboard, through the waits. *)
LEMMA MainKnown ==
  ASSUME TypeOK, Told, InOrder, Main
  PROVE  Known'
<1> USE AtStep
    DEF InOrder, Raised, host, regs, bus, quiet, Goto, Here, Known, Asked, Claim, Ahead, Top, Waiting, Dialog, Case, TypeOK, Told, Agree, Steady, Held
<1>1. CASE KeyboardHost_Task \/ PollPipe
  BY <1>1 DEF KeyboardHost_Task, PollPipe
<1>2. CASE ReadReport \/ ProcessUnread
  BY <1>2 DEF ReadReport, ProcessUnread
<1>3. CASE USB_USBTask
  BY <1>3 DEF USB_USBTask
<1>4. CASE WaitForDevice
  BY <1>4 DEF WaitForDevice
<1>5. CASE WaitLoop
  BY <1>5 DEF WaitLoop
<1>6. CASE Waited
  BY <1>6 DEF Waited
<1>7. CASE WaitFailed
  BY <1>7 DEF WaitFailed
<1>8. CASE Powered
  BY <1>8 DEF Powered
<1>9. CASE WaitForDeviceSettle
  BY <1>9 DEF WaitForDeviceSettle
<1>10. CASE WaitForConnect
  BY <1>10 DEF WaitForConnect
<1>11. CASE Connect
  BY <1>11 DEF Connect, HOST_TASK_NONBLOCK_WAIT
<1>12. CASE DoReset
  BY <1>12 DEF DoReset, ResetBus
<1>13. CASE DeviceSizeRead
  BY <1>13 DEF DeviceSizeRead, ResetBus
<1>14. CASE LookForFrame
  BY <1>14 DEF LookForFrame
<1>15. CASE Looked
  BY <1>15 DEF Looked
<1>15a. CASE AfterReset
  BY <1>15a DEF AfterReset, HOST_TASK_NONBLOCK_WAIT
<1>16. CASE ConfigPipe
  BY <1>16 DEF ConfigPipe, PipeRefused, PipeGranted
<1>17. CASE Default
  BY <1>17 DEF Default, Ask
<1>18. CASE PostReset
  BY <1>18 DEF PostReset, PipeRefused, PipeGranted, Ask
<1>19. CASE PostAddressSet
  BY <1>19 DEF PostAddressSet, Ask
<1>20. CASE SendControlRequest
  BY <1>20 DEF SendControlRequest
<1>21. CASE AddressTaken
  BY <1>21 DEF AddressTaken, HOST_TASK_NONBLOCK_WAIT
<1>22. CASE ConfigurationSet
  BY <1>22 DEF ConfigurationSet, Ask
<1>23. CASE ProtocolSet
  BY <1>23 DEF ProtocolSet
<1>24. CASE Answer
  BY <1>24 DEF Answer, Reaches
<1>25. CASE NoAnswer
  BY <1>25 DEF NoAnswer
<1>26. CASE ConfigRead
  BY <1>26 DEF ConfigRead, PipeRefused, PipeGranted, Ask
<1>27. CASE Refused
  BY <1>27 DEF Refused, Ask
<1>28. CASE EnumerationError
  BY <1>28 DEF EnumerationError
<1>29. CASE Abandon
  BY <1>29 DEF Abandon, USB_ResetInterface
<1>30. QED
  BY <1>1, <1>2, <1>3, <1>4, <1>5, <1>6, <1>7, <1>8, <1>9, <1>10, <1>11, <1>12, <1>13, <1>14, <1>15, <1>15a, <1>16, <1>17, <1>18, <1>19, <1>20, <1>21, <1>22, <1>23, <1>24, <1>25, <1>26, <1>27, <1>28, <1>29 DEF Main

(* What a request says of it. *)
LEMMA MainAsked ==
  ASSUME TypeOK, Told, InOrder, Main
  PROVE  Asked'
<1> USE AtStep
    DEF InOrder, Raised, host, regs, bus, quiet, Goto, Here, Known, Asked, Claim, Ahead, Dialog, Needs, Becomes, AddressGiven, Top, Case, Waiting, TypeOK, Request, Told, Post, Agree, Steady, Held, Reaches
<1>1. CASE KeyboardHost_Task \/ PollPipe
  BY <1>1 DEF KeyboardHost_Task, PollPipe
<1>2. CASE ReadReport \/ ProcessUnread
  BY <1>2 DEF ReadReport, ProcessUnread
<1>3. CASE USB_USBTask
  BY <1>3 DEF USB_USBTask
<1>4. CASE WaitForDevice
  BY <1>4 DEF WaitForDevice
<1>5. CASE WaitLoop
  BY <1>5 DEF WaitLoop
<1>6. CASE Waited
  BY <1>6 DEF Waited
<1>7. CASE WaitFailed
  BY <1>7 DEF WaitFailed
<1>8. CASE Powered
  BY <1>8 DEF Powered
<1>9. CASE WaitForDeviceSettle
  BY <1>9 DEF WaitForDeviceSettle
<1>10. CASE WaitForConnect
  BY <1>10 DEF WaitForConnect
<1>11. CASE Connect
  BY <1>11 DEF Connect, HOST_TASK_NONBLOCK_WAIT
<1>12. CASE DoReset
  BY <1>12 DEF DoReset, ResetBus
<1>13. CASE DeviceSizeRead
  BY <1>13 DEF DeviceSizeRead, ResetBus
<1>14. CASE LookForFrame
  BY <1>14 DEF LookForFrame
<1>15. CASE Looked
  BY <1>15 DEF Looked
<1>15a. CASE AfterReset
  BY <1>15a DEF AfterReset, HOST_TASK_NONBLOCK_WAIT
<1>16. CASE ConfigPipe
  BY <1>16 DEF ConfigPipe, PipeRefused, PipeGranted
<1>17. CASE Default
  BY <1>17 DEF Default, Ask
<1>18. CASE PostReset
  BY <1>18 DEF PostReset, PipeRefused, PipeGranted, Ask
<1>19. CASE PostAddressSet
  BY <1>19 DEF PostAddressSet, Ask
<1>20. CASE SendControlRequest
  BY <1>20 DEF SendControlRequest
<1>21. CASE AddressTaken
  BY <1>21 DEF AddressTaken, HOST_TASK_NONBLOCK_WAIT
<1>22. CASE ConfigurationSet
  BY <1>22 DEF ConfigurationSet, Ask
<1>23. CASE ProtocolSet
  BY <1>23 DEF ProtocolSet
<1>24. CASE Answer
  BY <1>24 DEF Answer, Reaches
<1>25. CASE NoAnswer
  BY <1>25 DEF NoAnswer
<1>26. CASE ConfigRead
  BY <1>26 DEF ConfigRead, PipeRefused, PipeGranted, Ask
<1>27. CASE Refused
  BY <1>27 DEF Refused, Ask
<1>28. CASE EnumerationError
  BY <1>28 DEF EnumerationError
<1>29. CASE Abandon
  BY <1>29 DEF Abandon, USB_ResetInterface
<1>30. QED
  BY <1>1, <1>2, <1>3, <1>4, <1>5, <1>6, <1>7, <1>8, <1>9, <1>10, <1>11, <1>12, <1>13, <1>14, <1>15, <1>15a, <1>16, <1>17, <1>18, <1>19, <1>20, <1>21, <1>22, <1>23, <1>24, <1>25, <1>26, <1>27, <1>28, <1>29 DEF Main

LEMMA AlwaysInOrder ==
  ASSUME KeptInHand
  PROVE  Spec => [](TypeOK /\ Told /\ InOrder)
<1>1. TypeOK /\ Told /\ InOrder /\ [Next]_vars => InOrder'
  <2>1. InOrder /\ (Spin \/ UNCHANGED vars) => InOrder'
    <3>1. InOrder /\ UNCHANGED vars => Calm' /\ AddressGiven'
      BY DEF InOrder, Calm, AddressGiven, Raised, vars, host, regs, bus
    <3>2. InOrder /\ UNCHANGED vars => Known' /\ Asked'
      BY DEF InOrder, Known, Asked, Here, Claim, Ahead, Needs, Raised, vars, host, regs, bus
    <3>3. QED BY <3>1, <3>2 DEF InOrder, Spin
  <2>2. TypeOK /\ Told /\ InOrder /\ Main => InOrder'
    BY MainCalm, MainAddress, MainKnown, MainAsked DEF InOrder
  <2>3. QED
    BY <2>1, <2>2, HardwareInOrder, InterruptInOrder DEF Next
<1>2. Spec => [](TypeOK /\ Told)
  BY AlwaysTold, InHand
<1>3. QED
  BY <1>1, <1>2, InitInOrder, PTL DEF Spec

(* At the answer a keyboard in place is the one asked. *)
LEMMA Reached ==
  ASSUME TypeOK, Told, InOrder, pc = "answer", plugged
  PROVE  Reaches(req)
<1>1. Here
  BY DEF InOrder, Calm, Quiet, Asking, Here, Raised
<1>2. dev \in Needs[req] /\ sofen /\ "control" \in pipes
  BY <1>1 DEF InOrder, Asked
<1>3. address = Addressee
  <2>1. CASE req \in {"device8", "address"}
    <3>1. dev = "default"
      BY <1>2, <2>1 DEF Needs
    <3>2. address # 1
      BY <2>1 DEF InOrder, AddressGiven, Dialog
    <3>3. QED BY <3>1, <3>2 DEF TypeOK, Addressee
  <2>2. CASE req \notin {"device8", "address"}
    <3>1. address = 1
      BY <1>1, <2>2 DEF InOrder, Asked
    <3>2. dev \in {"addressed", "configured", "boot"}
      BY <1>2, <2>2 DEF Needs, TypeOK, Request
    <3>3. QED BY <3>1, <3>2 DEF Addressee
  <2>3. QED BY <2>1, <2>2
<1>4. QED BY <1>2, <1>3 DEF Reaches

(* A request to a keyboard in place finds it in the state that it needs,   *)
(* at the address it listens to, provided that none is plugged in or taken *)
(* away between a read of USB_HostState and the write that rests on it,    *)
(* and none plugged in while the program waits for another or talks to it. *)
THEOREM RequestsKept ==
  ASSUME KeptInHand
  PROVE  Spec => []RequestsInOrder
<1>1. TypeOK /\ Told /\ InOrder => RequestsInOrder
  BY Reached DEF RequestsInOrder
<1>2. QED BY <1>1, AlwaysInOrder, PTL

-----------------------------------------------------------------------------
(* PolledIsReady.  A keyboard in place refuses a request only by a failure *)
(* (RequestsInOrder).  When that was its last one (Spent), the request     *)
(* that undoes the configuration is answered, and the state Configured     *)
(* lasts through the loop only behind the boot protocol.                   *)
OneFails == ("request" \notin MayFail \/ MaxFaults <= 1) /\ "pipe" \notin PlugAt

Spent == "request" \in MayFail /\ faults = MaxFaults

Ready ==
  Here =>
    /\ pc \in Top \cup Waiting /\ Ahead = "Configured" => dev = "boot"
    /\ pc = "refused" => Spent
    /\ pc \in Dialog /\ HostState = "Configured" =>
         req = "setProtocol" \/ (req = "unsetConfig" /\ pc # "refused" /\ Spent)
    /\ pc = "answered" /\ req = "setProtocol" => dev = "boot"

(* The keyboard found at the top of the loop is still the one polled. *)
Polling == pc = "pipe" /\ plugged => Here /\ HostState = "Configured" /\ ~Raised("VBERRI")

LEMMA InitReady == Init => Ready /\ Polling
BY DEF Init, Ready, Spent, Polling, Here, Ahead, Top, Waiting, Dialog, Raised

LEMMA HardwareReady ==
  ASSUME OneFails, TypeOK, Told, InOrder, Ready, Polling, KeptInHand, Hardware
  PROVE  Ready' /\ Polling'
<1> USE DEF InOrder, Ready, Spent, Polling, Here, Ahead, Raised, host, regs, bus
<1>1. CASE Plug
  <2>1. ~plugged /\ pc' = pc /\ pc # "pipe" /\ pc \notin Quiet /\ UNCHANGED <<host, regs, halted, told>>
    BY <1>1 DEF Plug, OneFails, KeptInHand
  <2>2. ~Here'
    BY <2>1 DEF Told, Noticed, Quiet, Held
  <2>3. QED BY <2>1, <2>2
<1>2. CASE Unplug
  BY <1>2 DEF Unplug
<1>3. CASE Frame
  BY <1>3 DEF Frame
<1>4. CASE \E f \in {"SRPI", "DCONNI"} : Sense(f)
  BY <1>4 DEF Sense
<1>5. CASE \E f \in {"VBERRI", "BCERRI"} : Misfire(f)
  BY <1>5 DEF Misfire, Fail, OneFails, TypeOK
<1>6. QED BY <1>1, <1>2, <1>3, <1>4, <1>5 DEF Hardware

LEMMA InterruptReady ==
  ASSUME TypeOK, Told, InOrder, Ready, Polling, USB_GEN_vect
  PROVE  Ready' /\ Polling'
<1> USE DEF InOrder, Ready, Spent, Polling, Here, Ahead, Raised, host, regs, bus
<1>1. CASE Disconnected
  BY <1>1 DEF Disconnected, USB_ResetInterface
<1>2. CASE VbusError
  BY <1>2 DEF VbusError
<1>3. CASE Attached
  <2>1. told = "unattached" /\ HostState' = "Powered" /\ pc' = pc /\ pc # "refused" /\ plugged' = plugged
    <3>1. told = "unattached"
      BY <1>3 DEF Attached, TypeOK, Told, Agree
    <3>2. pc \notin Quiet
      BY <1>3 DEF Attached, Calm
    <3>3. QED BY <1>3, <3>1, <3>2 DEF Attached, Quiet, Asking
  <2>2. pc \notin Dialog
    BY <1>3 DEF Attached, Calm, Quiet, Asking, Held, Dialog
  <2>3. QED BY <2>1, <2>2 DEF Dialog
<1>4. QED BY <1>1, <1>2, <1>3 DEF USB_GEN_vect


(* The steps of the main program. *)
LEMMA MainReady ==
  ASSUME OneFails, TypeOK, Told, InOrder, Ready, Polling, Main
  PROVE  Ready' /\ Polling'
<1> USE AtStep
    DEF InOrder, Raised, host, regs, bus, quiet, Goto, Ready, Spent, Polling, Here, Known, Ahead, Top, Waiting,
        Dialog, Case, TypeOK, Told, Post, Agree
<1>1. CASE KeyboardHost_Task \/ PollPipe
  BY <1>1 DEF KeyboardHost_Task, PollPipe
<1>2. CASE ReadReport \/ ProcessUnread
  BY <1>2 DEF ReadReport, ProcessUnread
<1>3. CASE USB_USBTask
  BY <1>3 DEF USB_USBTask
<1>4. CASE WaitForDevice
  BY <1>4 DEF WaitForDevice
<1>5. CASE WaitLoop
  BY <1>5 DEF WaitLoop
<1>6. CASE Waited
  BY <1>6 DEF Waited
<1>7. CASE WaitFailed
  BY <1>7 DEF WaitFailed
<1>8. CASE Powered
  BY <1>8 DEF Powered
<1>9. CASE WaitForDeviceSettle
  BY <1>9 DEF WaitForDeviceSettle
<1>10. CASE WaitForConnect
  BY <1>10 DEF WaitForConnect
<1>11. CASE Connect
  BY <1>11 DEF Connect, HOST_TASK_NONBLOCK_WAIT
<1>12. CASE DoReset
  BY <1>12 DEF DoReset, ResetBus
<1>13. CASE DeviceSizeRead
  BY <1>13 DEF DeviceSizeRead, ResetBus
<1>14. CASE LookForFrame
  BY <1>14 DEF LookForFrame
<1>15. CASE Looked
  BY <1>15 DEF Looked
<1>15a. CASE AfterReset
  BY <1>15a DEF AfterReset, HOST_TASK_NONBLOCK_WAIT
<1>16. CASE ConfigPipe
  BY <1>16 DEF ConfigPipe, PipeRefused, PipeGranted
<1>17. CASE Default
  BY <1>17 DEF Default, Ask
<1>18. CASE PostReset
  BY <1>18 DEF PostReset, PipeRefused, PipeGranted, Ask
<1>19. CASE PostAddressSet
  BY <1>19 DEF PostAddressSet, Ask
<1>20. CASE SendControlRequest
  BY <1>20 DEF SendControlRequest
<1>21. CASE AddressTaken
  BY <1>21 DEF AddressTaken, HOST_TASK_NONBLOCK_WAIT
<1>22. CASE ConfigurationSet
  BY <1>22 DEF ConfigurationSet, Ask
<1>23. CASE ProtocolSet
  BY <1>23 DEF ProtocolSet
<1>24. CASE Answer
  BY <1>24 DEF Answer, Becomes
<1>25. CASE NoAnswer
  <2>1. pc = "answer" /\ pc' = "refused" /\ Here' = Here /\ UNCHANGED <<HostState, req>>
    BY <1>25 DEF NoAnswer
  <2>2. Here => Fail("request")
    BY <1>25, Reached DEF NoAnswer
  <2>3. Fail("request") => ~Spent /\ Spent'
    BY BoundAssumption DEF Fail, OneFails
  <2>4. Here => (HostState = "Configured" => req = "setProtocol")
    BY <2>1, <2>2, <2>3
  <2>5. QED BY <2>1, <2>2, <2>3, <2>4
<1>26. CASE ConfigRead
  BY <1>26 DEF ConfigRead, PipeRefused, PipeGranted, Ask, Asked
<1>27. CASE Refused
  <2>1. pc = "refused" /\ Here' = Here /\ Spent' = Spent /\ HostState' = HostState
    BY <1>27 DEF Refused
  <2>2. CASE req \in {"device8", "address"}
    BY <1>27, <2>1, <2>2 DEF Refused
  <2>3. CASE req = "setProtocol"
    BY <1>27, <2>1, <2>3 DEF Refused, Ask
  <2>4. CASE req \notin {"device8", "address", "setProtocol"}
    <3>1. pc' = "keyboard"
      BY <1>27, <2>4 DEF Refused
    <3>2. Here => HostState = "Addressed"
      BY <2>1, <2>4 DEF Asked
    <3>3. QED BY <2>1, <3>1, <3>2
  <2>5. QED BY <2>2, <2>3, <2>4
<1>28. CASE EnumerationError
  BY <1>28 DEF EnumerationError
<1>29. CASE Abandon
  BY <1>29 DEF Abandon, USB_ResetInterface
<1>30. QED
  BY <1>1, <1>2, <1>3, <1>4, <1>5, <1>6, <1>7, <1>8, <1>9, <1>10, <1>11, <1>12, <1>13, <1>14, <1>15, <1>15a, <1>16, <1>17, <1>18, <1>19, <1>20, <1>21, <1>22, <1>23, <1>24, <1>25, <1>26, <1>27, <1>28, <1>29 DEF Main

LEMMA AlwaysReady ==
  ASSUME KeptInHand, OneFails
  PROVE  Spec => [](Ready /\ Polling)
<1>1. TypeOK /\ Told /\ InOrder /\ Ready /\ Polling /\ [Next]_vars => (Ready /\ Polling)'
  <2>1. Ready /\ Polling /\ (Spin \/ UNCHANGED vars) => Ready' /\ Polling'
    BY DEF Ready, Spent, Polling, Here, Ahead, Raised, Spin, vars, host, regs, bus
  <2>2. QED
    BY <2>1, HardwareReady, InterruptReady, MainReady DEF Next
<1>2. QED
  BY <1>1, AlwaysInOrder, InitReady, PTL DEF Spec

(* The keyboard polled has taken the boot protocol, whatever fails once,   *)
(* SetProtocol and the request that undoes its configuration included, or  *)
(* as often as it may if no request does: provided that keyboards come and *)
(* go where RequestsKept allows it, and none comes between the two tests   *)
(* of KeyboardHost_Task.                                                   *)
THEOREM PolledIsBoot ==
  ASSUME KeptInHand, OneFails
  PROVE  Spec => []PolledIsReady
<1>1. Ready /\ Polling => PolledIsReady
  BY DEF Ready, Polling, PolledIsReady, Ahead, Top
<1>2. QED BY <1>1, AlwaysReady, PTL
=============================================================================
