------------------------------- MODULE UsbHost -------------------------------
(***************************************************************************)
(* The life of a USB keyboard on the keyboard board: plugged in, found,    *)
(* enumerated, polled for reports, unplugged.  The main loop calls         *)
(* KeyboardHost_Task and USB_USBTask in turn (KeyboardHost.c); the second  *)
(* runs the host state machine of LUFA (USB_Host_ProcessNextHostState,     *)
(* Host_AVR8.c), while USB_GEN_vect (USBInterrupt_AVR8.c) writes the same  *)
(* USB_HostState and resets the controller under it.                       *)
(*                                                                         *)
(* pc says where the main program is.  Inside the switch it is the state   *)
(* that was read, so that the read of USB_HostState and what its case      *)
(* writes are two steps, and interrupts and plugs fall between them.       *)
(*                                                                         *)
(* Hardware: resetting the controller (USB_Controller_Reset) clears every  *)
(* register of it and makes it detect an attached keyboard again.  VBUS,   *)
(* the PLL and the pads are left out.  So are the bus suspended again at   *)
(* the end of a wait (every wait begins by resuming it), and the errors a  *)
(* pipe may report while it is not used.                                   *)
(***************************************************************************)
EXTENDS Naturals

CONSTANTS
  SettleMS,     \* HOST_DEVICE_SETTLE_DELAY_MS
  WaitMS,       \* the waits between two states, 100 and 200 ms
  UnplugAt,     \* places of the main program where a keyboard is unplugged
  PlugAt,       \* where one is plugged in, or the electrical supply misfires
  MayFail,      \* what may go wrong with a keyboard in place, see Faults
  MaxPlugs,     \* bound: keyboards plugged in
  MaxFaults     \* bound: things that go wrong

Faults == {"VBERRI", "BCERRI", "request", "control", "data"}

ASSUME WaitAssumption  == SettleMS \in Nat /\ WaitMS \in Nat \ {0}
ASSUME BoundAssumption == MayFail \subseteq Faults /\ MaxPlugs \in Nat /\ MaxFaults \in Nat

VARIABLES
  HostState,        \* USB_HostState
  WaitMSRemaining, PostWaitState,
  flags,            \* the interrupt flags raised
  enabled,          \* the interrupts enabled
  sofen,            \* the bus is resumed: frames are sent to a keyboard
  address,          \* UHADDR
  pipes,            \* pipes configured, of "control" and "data"
  plugged,          \* a keyboard is plugged in
  sensed,           \* how the controller has noticed it so far
  dev,              \* the keyboard's own state
  plugs, faults,    \* how many so far
  pc, req,          \* the main program; the request it makes
  halted,           \* USB_GEN_vect never returns
  told              \* the last event: "attached" or "unattached"

host == <<HostState, WaitMSRemaining, PostWaitState>>
regs == <<flags, enabled, sofen, address, pipes>>
bus  == <<plugged, sensed, dev, plugs>>
vars == <<host, regs, bus, faults, pc, req, halted, told>>

Case  == {"WaitForDevice", "Powered", "WaitForDeviceSettle", "WaitForConnect",
          "DoReset", "ConfigPipe", "Default", "PostReset", "PostAddressSet"}
State == Case \cup {"Unattached", "Addressed", "Configured"}
Request == {"device8", "address", "config", "configData",
            "setConfig", "setProtocol", "unsetConfig"}
Flag  == {"DCONNI", "DDISCI", "SRPI", "VBERRI", "BCERRI", "HSOFI"}
Place == Case \cup {"keyboard", "pipe", "read", "unread", "usb", "waitms",
                    "waited", "waitfailed", "connect", "look", "looked", "reset",
                    "request", "answer", "answered", "refused", "error", "abandon"}

TypeOK ==
  /\ HostState \in State /\ PostWaitState \in State
  /\ WaitMSRemaining \in Nat
  /\ flags \subseteq Flag /\ enabled \subseteq Flag
  /\ sofen \in BOOLEAN /\ address \in {0, 1}
  /\ pipes \subseteq {"control", "data"}
  /\ plugged \in BOOLEAN /\ sensed \subseteq {"SRPI", "DCONNI"}
  /\ dev \in {"none", "attached", "default", "addressed", "configured", "boot"}
  /\ plugs \in 0..MaxPlugs /\ faults \in 0..MaxFaults
  /\ pc \in Place /\ req \in Request
  /\ halted \in BOOLEAN /\ told \in {"attached", "unattached"}

(* After USB_Init, a keyboard plugged in or not. *)
Init ==
  /\ HostState = "Unattached"
  /\ WaitMSRemaining = 0 /\ PostWaitState = "Unattached"
  /\ flags = {} /\ enabled = {"SRPI", "BCERRI"}
  /\ sofen = FALSE /\ address = 0 /\ pipes = {}
  /\ plugged \in BOOLEAN /\ sensed = {}
  /\ dev = IF plugged THEN "attached" ELSE "none"
  /\ plugs = 0 /\ faults = 0
  /\ pc = "keyboard" /\ req = "device8"
  /\ halted = FALSE /\ told = "unattached"

-----------------------------------------------------------------------------
(* The keyboard and the controller. *)

Plug ==
  /\ ~plugged /\ plugs < MaxPlugs /\ pc \in PlugAt
  /\ plugged' = TRUE /\ plugs' = plugs + 1 /\ dev' = "attached"
  /\ UNCHANGED <<host, regs, sensed, faults, pc, req, halted, told>>

Unplug ==
  /\ plugged /\ pc \in UnplugAt
  /\ plugged' = FALSE /\ sensed' = {} /\ dev' = "none"
  /\ flags' = flags \cup {"DDISCI"}
  /\ UNCHANGED <<host, enabled, sofen, address, pipes, plugs, faults, pc, req, halted, told>>

(* A keyboard in place is noticed twice: a pulse, then a connection. *)
Sense(f) ==
  /\ plugged /\ f \notin sensed
  /\ sensed' = sensed \cup {f}
  /\ flags' = flags \cup {f}
  /\ UNCHANGED <<host, enabled, sofen, address, pipes, plugged, dev, plugs,
                 faults, pc, req, halted, told>>

Frame ==
  /\ plugged /\ sofen
  /\ flags' = flags \cup {"HSOFI"}
  /\ UNCHANGED <<host, enabled, sofen, address, pipes, bus, faults, pc, req, halted, told>>

Fail(f) == f \in MayFail /\ faults < MaxFaults /\ faults' = faults + 1

Misfire(f) ==
  /\ Fail(f) /\ pc \in PlugAt
  /\ flags' = flags \cup {f}
  /\ UNCHANGED <<host, enabled, sofen, address, pipes, bus, pc, req, halted, told>>

Hardware ==
  Plug \/ Unplug \/ Frame
  \/ (\E f \in {"SRPI", "DCONNI"} : Sense(f)) \/ (\E f \in {"VBERRI", "BCERRI"} : Misfire(f))

-----------------------------------------------------------------------------
(* Mutant: the interrupts are not enabled again. *)
USB_ResetInterface_Deaf ==
  /\ HostState' = "Unattached"
  /\ flags' = {} /\ enabled' = {}
  /\ sofen' = FALSE /\ address' = 0 /\ pipes' = {}
  /\ sensed' = {}
  /\ UNCHANGED <<WaitMSRemaining, PostWaitState, plugged, dev, plugs, faults, req, halted>>

(* Mutant: the controller is not reset, and UHIEN alone cleared. *)
USB_ResetInterface_Soft ==
  /\ HostState' = "Unattached"
  /\ flags' = {} /\ enabled' = (enabled \ {"DDISCI"}) \cup {"SRPI", "BCERRI"}
  /\ sofen' = FALSE /\ address' = 0 /\ pipes' = {}
  /\ sensed' = {}
  /\ UNCHANGED <<WaitMSRemaining, PostWaitState, plugged, dev, plugs, faults, req, halted>>

USB_ResetInterface ==
  /\ HostState' = "Unattached"
  /\ flags' = {} /\ enabled' = {"SRPI", "BCERRI"}
  /\ sofen' = FALSE /\ address' = 0 /\ pipes' = {}
  /\ sensed' = {}
  /\ UNCHANGED <<WaitMSRemaining, PostWaitState, plugged, dev, plugs, faults, req, halted>>

Raised(f) == f \in flags /\ f \in enabled

(* USB_GEN_vect, one disjunct for each flag it tests.  A flag may be       *)
(* raised after its test, so that they come in any order.                  *)
Disconnected ==     \* and, for BCERRI, EVENT_USB_Host_DeviceEnumerationFailed
  /\ Raised("DDISCI") \/ Raised("BCERRI")
  /\ told' = "unattached"
  /\ USB_ResetInterface
  /\ UNCHANGED pc

(* EVENT_USB_Host_HostError turns the controller off and loops for ever.   *)
VbusError ==
  /\ Raised("VBERRI")
  /\ halted' = TRUE
  /\ flags' = {} /\ enabled' = {} /\ sofen' = FALSE /\ address' = 0 /\ pipes' = {}
  /\ UNCHANGED <<host, bus, faults, pc, req, told>>

Attached ==
  /\ Raised("SRPI")
  /\ flags' = flags \ {"SRPI"}
  /\ enabled' = (enabled \ {"SRPI"}) \cup {"DDISCI"}
  /\ told' = "attached"
  /\ HostState' = "Powered"
  /\ UNCHANGED <<WaitMSRemaining, PostWaitState, sofen, address, pipes, bus, faults, pc, req, halted>>

USB_GEN_vect == ~halted /\ (Disconnected \/ VbusError \/ Attached)

-----------------------------------------------------------------------------
(* The main program runs while no interrupt is pending. *)
Pending   == \E f \in Flag : Raised(f)
At(place) == pc = place /\ ~halted /\ ~Pending
Goto(place) == pc' = place

quiet == <<bus, halted, told>>

KeyboardHost_Task ==
  /\ At("keyboard")
  /\ Goto(IF HostState = "Configured" THEN "pipe" ELSE "usb")
  /\ UNCHANGED <<host, regs, quiet, faults, req>>

(* Is there a report?  The data pipe may have been cleared meanwhile.      *)
PollPipe ==
  /\ At("pipe")
  /\ \/ "data" \in pipes /\ Goto("read")
     \/ Goto("usb")
  /\ UNCHANGED <<host, regs, quiet, faults, req>>

(* Pipe_Read_Stream_LE, whose error is ignored: when the pipe is gone the  *)
(* report is what its memory held.                                         *)
ReadReport ==
  /\ At("read")
  /\ Goto(IF "data" \in pipes THEN "usb" ELSE "unread")
  /\ UNCHANGED <<host, regs, quiet, faults, req>>

ProcessUnread ==
  /\ At("unread")
  /\ Goto("usb")
  /\ UNCHANGED <<host, regs, quiet, faults, req>>

(* The switch of USB_Host_ProcessNextHostState. *)
USB_USBTask ==
  /\ At("usb")
  /\ Goto(IF HostState \in Case THEN HostState ELSE "keyboard")
  /\ UNCHANGED <<host, regs, quiet, faults, req>>

HOST_TASK_NONBLOCK_WAIT(next) ==
  /\ HostState' = "WaitForDevice"
  /\ WaitMSRemaining' = WaitMS
  /\ PostWaitState' = next

(* USB_Host_WaitMS(1): its entry, and its loop, which a frame or the state *)
(* Unattached ends, and nothing else.                                      *)
WaitForDevice ==
  /\ At("WaitForDevice")
  /\ IF WaitMSRemaining = 0
     THEN Goto("keyboard") /\ UNCHANGED regs
     ELSE /\ flags' = flags \ {"HSOFI"} /\ sofen' = TRUE
          /\ Goto("waitms")
          /\ UNCHANGED <<enabled, address, pipes>>
  /\ UNCHANGED <<host, quiet, faults, req>>

WaitLoop ==
  /\ At("waitms")
  /\ \/ HostState = "Unattached" /\ Goto("waitfailed")
     \/ HostState # "Unattached" /\ "HSOFI" \in flags /\ Goto("waited")
  /\ flags' = flags \ {"HSOFI"}
  /\ UNCHANGED <<host, enabled, sofen, address, pipes, quiet, faults, req>>

Waited ==
  /\ At("waited")
  /\ WaitMSRemaining' = WaitMSRemaining - 1
  /\ HostState' = IF WaitMSRemaining' = 0 THEN PostWaitState ELSE HostState
  /\ Goto("keyboard")
  /\ UNCHANGED <<PostWaitState, regs, quiet, faults, req>>

(* Mutant: the disconnection is not taken for an error. *)
WaitFailed_Quiet ==
  /\ At("waitfailed")
  /\ HostState' = PostWaitState
  /\ Goto("keyboard")
  /\ UNCHANGED <<WaitMSRemaining, PostWaitState, regs, quiet, faults, req>>

(* The state Unattached that USB_GEN_vect has set is overwritten. *)
WaitFailed ==
  /\ At("waitfailed")
  /\ HostState' = PostWaitState
  /\ Goto("error")
  /\ UNCHANGED <<WaitMSRemaining, PostWaitState, regs, quiet, faults, req>>

Powered ==
  /\ At("Powered")
  /\ WaitMSRemaining' = SettleMS
  /\ HostState' = "WaitForDeviceSettle"
  /\ Goto("keyboard")
  /\ UNCHANGED <<PostWaitState, regs, quiet, faults, req>>

(* Mutant: the test for the end of the settle time is missing. *)
WaitForDeviceSettle_NoEnd ==
  /\ At("WaitForDeviceSettle")
  /\ WaitMSRemaining' = WaitMSRemaining - 1
  /\ Goto("keyboard")
  /\ UNCHANGED <<HostState, PostWaitState, regs, quiet, faults, req>>

(* WaitMSRemaining, 65535 after the last turn, is set before it is read.   *)
WaitForDeviceSettle ==
  /\ At("WaitForDeviceSettle")
  /\ IF WaitMSRemaining > 0
     THEN WaitMSRemaining' = WaitMSRemaining - 1 /\ UNCHANGED HostState
     ELSE HostState' = "WaitForConnect" /\ UNCHANGED WaitMSRemaining
  /\ Goto("keyboard")
  /\ UNCHANGED <<PostWaitState, regs, quiet, faults, req>>

WaitForConnect ==
  /\ At("WaitForConnect")
  /\ Goto(IF "DCONNI" \in flags THEN "connect" ELSE "keyboard")
  /\ UNCHANGED <<host, regs, quiet, faults, req>>

Connect ==
  /\ At("connect")
  /\ flags' = flags \ {"DCONNI", "DDISCI", "VBERRI"}
  /\ enabled' = enabled \cup {"VBERRI"}
  /\ sofen' = TRUE
  /\ pipes' = {}
  /\ HOST_TASK_NONBLOCK_WAIT("DoReset")
  /\ Goto("keyboard")
  /\ UNCHANGED <<address, quiet, faults, req>>

(* USB_Host_ResetDevice up to its loop.  The bus reset may look like a     *)
(* disconnection.                                                          *)
ResetBus ==
  /\ enabled' = enabled \ {"DDISCI"}
  /\ \E spurious \in SUBSET {"DDISCI"} : flags' = (flags \ {"HSOFI"}) \cup spurious
  /\ sofen' = TRUE
  /\ dev' = IF plugged THEN "default" ELSE dev
  /\ Goto("look")
  /\ UNCHANGED <<host, address, pipes, plugged, sensed, plugs, faults, halted, told>>

DoReset == At("DoReset") /\ ResetBus /\ req' = "device8"

(* Its loop: a frame within 10 ms, or none. *)
LookForFrame ==
  /\ At("look")
  /\ \/ "HSOFI" \in flags /\ flags' = flags \ {"HSOFI", "DDISCI"}
     \/ "HSOFI" \notin flags /\ ~(plugged /\ sofen) /\ UNCHANGED flags
  /\ Goto("looked")
  /\ UNCHANGED <<host, enabled, sofen, address, pipes, quiet, faults, req>>

(* Mutant: DDISCI stays disabled. *)
Looked_Deaf ==
  /\ At("looked")
  /\ Goto("reset")
  /\ UNCHANGED <<host, regs, quiet, faults, req>>

(* Its end.  A removal that was held back is served here, before the       *)
(* callers write USB_HostState.                                            *)
Looked ==
  /\ At("looked")
  /\ enabled' = enabled \cup {"DDISCI"}
  /\ Goto("reset")
  /\ UNCHANGED <<host, flags, sofen, address, pipes, quiet, faults, req>>

(* The wait that both callers of USB_Host_ResetDevice go on with. *)
AfterReset ==
  /\ At("reset")
  /\ HOST_TASK_NONBLOCK_WAIT(IF req = "device8" THEN "ConfigPipe" ELSE "PostReset")
  /\ Goto("keyboard")
  /\ UNCHANGED <<regs, quiet, faults, req>>

(* Pipe_ConfigurePipe. *)
PipeRefused(p) == Fail(p) /\ UNCHANGED pipes
PipeGranted(p) == pipes' = pipes \cup {p} /\ UNCHANGED faults

Ask(r) == req' = r /\ Goto("request")

ConfigPipe ==
  /\ At("ConfigPipe")
  /\ \/ PipeRefused("control") /\ Goto("error") /\ UNCHANGED HostState
     \/ PipeGranted("control") /\ Goto("keyboard") /\ HostState' = "Default"
  /\ UNCHANGED <<WaitMSRemaining, PostWaitState, flags, enabled, sofen, address, quiet, req>>

Default ==
  /\ At("Default")
  /\ Ask("device8")
  /\ UNCHANGED <<host, regs, quiet, faults>>

PostReset ==
  /\ At("PostReset")
  /\ \/ PipeRefused("control") /\ Goto("error") /\ UNCHANGED req
     \/ PipeGranted("control") /\ Ask("address")
  /\ UNCHANGED <<host, flags, enabled, sofen, address, quiet>>

(* Mutant: USB_Host_SetDeviceAddress is not called. *)
PostAddressSet_NoAddress ==
  /\ At("PostAddressSet")
  /\ HostState' = "Addressed"
  /\ Ask("config")
  /\ UNCHANGED <<WaitMSRemaining, PostWaitState, regs, quiet, faults>>

(* And EVENT_USB_Host_DeviceEnumerationComplete begins. *)
PostAddressSet ==
  /\ At("PostAddressSet")
  /\ address' = 1
  /\ HostState' = "Addressed"
  /\ Ask("config")
  /\ UNCHANGED <<WaitMSRemaining, PostWaitState, flags, enabled, sofen, pipes, quiet, faults>>

-----------------------------------------------------------------------------
(* USB_Host_SendControlRequest: its first wait, then an answer, an error   *)
(* or the detached state.                                                  *)
SendControlRequest ==
  /\ At("request")
  /\ flags' = flags \ {"HSOFI"} /\ sofen' = TRUE
  /\ Goto("answer")
  /\ UNCHANGED <<host, enabled, address, pipes, quiet, faults, req>>

(* What the keyboard must be for it to answer, and what it becomes. *)
Needs == [device8    |-> {"default"},   address     |-> {"default"},
          config     |-> {"addressed"}, configData  |-> {"addressed"},
          setConfig  |-> {"addressed"}, setProtocol |-> {"configured"},
          unsetConfig |-> {"configured", "boot"}]
Becomes(r) == CASE r \in {"address", "unsetConfig"} -> "addressed"
                [] r = "setConfig"                  -> "configured"
                [] r = "setProtocol"                -> "boot"
                [] OTHER                            -> dev
Addressee == IF dev \in {"none", "attached", "default"} THEN 0 ELSE 1
Reaches(r) == /\ plugged /\ sofen /\ "control" \in pipes
              /\ dev \in Needs[r] /\ address = Addressee

Answer ==
  /\ At("answer")
  /\ Reaches(req)
  /\ dev' = Becomes(req)
  /\ Goto("answered")
  /\ UNCHANGED <<host, regs, plugged, sensed, plugs, faults, req, halted, told>>

(* A stall, an error or a time-out; the keyboard may have obeyed. *)
NoAnswer ==
  /\ At("answer")
  /\ \/ HostState = "Unattached" /\ UNCHANGED <<dev, faults>>
     \/ plugged /\ sofen /\ ~Reaches(req) /\ UNCHANGED <<dev, faults>>
     \/ Reaches(req) /\ Fail("request") /\ dev' \in {dev, Becomes(req)}
  /\ Goto("refused")
  /\ UNCHANGED <<host, regs, plugged, sensed, plugs, req, halted, told>>

(* The case Default goes on with a second reset; req tells the two apart.  *)
DeviceSizeRead == At("answered") /\ req = "device8" /\ ResetBus /\ req' = "address"

AddressTaken ==
  /\ At("answered") /\ req = "address"
  /\ HOST_TASK_NONBLOCK_WAIT("PostAddressSet")
  /\ Goto("keyboard")
  /\ UNCHANGED <<regs, quiet, faults, req>>

(* ProcessConfigurationDescriptor: too long, invalid or without a keyboard *)
(* interface, and the keyboard is left addressed.  The result of           *)
(* Pipe_ConfigurePipe is not tested.                                       *)
ConfigRead ==
  /\ At("answered")
  /\ \/ req \in {"config", "configData"} /\ Goto("keyboard") /\ UNCHANGED <<pipes, faults, req>>
     \/ req = "config" /\ Ask("configData") /\ UNCHANGED <<pipes, faults>>
     \/ /\ req = "configData" /\ Ask("setConfig")
        /\ PipeGranted("data") \/ PipeRefused("data")
  /\ UNCHANGED <<host, flags, enabled, sofen, address, quiet>>

(* USB_Host_SetDeviceConfiguration writes the state; the first call goes   *)
(* on with SetProtocol.                                                    *)
ConfigurationSet ==
  /\ At("answered")
  /\ \/ req = "setConfig" /\ HostState' = "Configured" /\ Ask("setProtocol")
     \/ req = "unsetConfig" /\ HostState' = "Addressed" /\ Goto("keyboard") /\ UNCHANGED req
  /\ UNCHANGED <<WaitMSRemaining, PostWaitState, regs, quiet, faults>>

ProtocolSet ==
  /\ At("answered") /\ req = "setProtocol"
  /\ Goto("keyboard")
  /\ UNCHANGED <<host, regs, quiet, faults, req>>

(* Mutant: nothing is undone when the boot protocol is refused. *)
Refused_Kept ==
  /\ At("refused")
  /\ Goto(IF req \in {"device8", "address"} THEN "error" ELSE "keyboard")
  /\ UNCHANGED <<host, regs, quiet, faults, req>>

Refused ==
  /\ At("refused")
  /\ CASE req \in {"device8", "address"} -> Goto("error") /\ UNCHANGED req
       [] req = "setProtocol"            -> Ask("unsetConfig")
       [] OTHER                          -> Goto("keyboard") /\ UNCHANGED req
  /\ UNCHANGED <<host, regs, quiet, faults>>

(* The end of USB_Host_ProcessNextHostState when ErrorCode is set: the     *)
(* test and EVENT_USB_Host_DeviceEnumerationFailed, then the rest.         *)
EnumerationError ==
  /\ At("error")
  /\ Goto(IF HostState = "Unattached" THEN "keyboard" ELSE "abandon")
  /\ UNCHANGED <<host, regs, quiet, faults, req>>

Abandon ==
  /\ At("abandon")
  /\ told' = "unattached"
  /\ USB_ResetInterface
  /\ Goto("keyboard")

Main ==
  \/ KeyboardHost_Task \/ PollPipe \/ ReadReport \/ ProcessUnread
  \/ USB_USBTask \/ WaitForDevice \/ WaitLoop \/ Waited \/ WaitFailed
  \/ Powered \/ WaitForDeviceSettle \/ WaitForConnect \/ Connect
  \/ DoReset \/ LookForFrame \/ Looked \/ AfterReset
  \/ ConfigPipe \/ Default \/ PostReset \/ PostAddressSet
  \/ SendControlRequest \/ Answer \/ NoAnswer \/ DeviceSizeRead \/ AddressTaken
  \/ ConfigRead \/ ConfigurationSet \/ ProtocolSet \/ Refused
  \/ EnumerationError \/ Abandon

(* The loop of USB_Host_WaitMS turns while no frame comes and the state is *)
(* not Unattached, and that of EVENT_USB_Host_HostError for ever.          *)
Spin ==
  /\ halted \/ (pc \in {"waitms", "answer"} /\ ~(plugged /\ sofen))
  /\ UNCHANGED vars

Next == Hardware \/ USB_GEN_vect \/ Main \/ Spin

Spec == Init /\ [][Next]_vars

(* The processor runs and serves its interrupts; a keyboard in place is    *)
(* noticed, and frames are sent to it.  Nobody has to plug or unplug.      *)
FairSpec ==
  Spec /\ WF_vars(Main) /\ WF_vars(USB_GEN_vect) /\ WF_vars(Frame)
       /\ \A f \in {"SRPI", "DCONNI"} : WF_vars(Sense(f))

-----------------------------------------------------------------------------
(* The keyboard that KeyboardHost_Task polls has taken the boot protocol,  *)
(* whose reports it decodes: no failure leaves it polled half configured   *)
(* (EVENT_USB_Host_DeviceEnumerationComplete), nor does another keyboard   *)
(* plugged in instead.                                                     *)
PolledIsReady == pc = "pipe" /\ plugged => dev = "boot"

(* A request to a keyboard in place finds it in the state that the USB     *)
(* specification wants for it, at the address it listens to: the resets,   *)
(* waits and configurations of the enumeration come in the right order,    *)
(* after any failure too.                                                  *)
RequestsInOrder ==
  pc = "answer" /\ plugged => Reaches(req)

(* At the top of the main loop the library is stopped exactly when the     *)
(* last event said that the keyboard is gone, whichever of the interrupt   *)
(* and the error paths of the state machine wrote USB_HostState last:      *)
(* EVENT_USB_Host_DeviceUnattached "stops the library USB task management  *)
(* process" (KeyboardHost.c).                                              *)
StateAsTold ==
  pc = "keyboard" => (told = "unattached" <=> HostState = "Unattached")

(* The loop for ever of EVENT_USB_Host_HostError is entered only while a   *)
(* keyboard is attached: with none, a dip of the supply stops nothing.     *)
HaltsOnlyAttached == halted => told = "attached"

(* The board is never deaf: it listens for a keyboard or for its removal,  *)
(* except while USB_Host_ResetDevice holds the removal back.               *)
Listening ==
  {"SRPI", "DDISCI"} \cap enabled # {} \/ pc \in {"look", "looked"} \/ halted

(* A removal is acted on, wherever in the enumeration UnplugAt lets it     *)
(* fall: no wait goes on for ever with a keyboard that is not there.       *)
DetachNoticed == ~plugged ~> (HostState = "Unattached" \/ plugged \/ halted)

(* A keyboard that stays plugged in ends up configured or refused,         *)
(* whatever went wrong before: the failures lead to another attempt.       *)
EnumeratedOrRefused ==
  plugged ~> (HostState \in {"Addressed", "Configured"} \/ ~plugged \/ halted)
=============================================================================
