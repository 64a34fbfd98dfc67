# Picocomputer: TLA+ models, model checking and proofs

The picocomputer is made of two AVR boards. The **keyboard board** is the host
of a USB keyboard; it turns key codes into characters, keeps them in a ring
buffer, and answers a master over SPI. The **main board** runs a small
preemptive scheduler, one task of which looks for the keyboard board on its
connectors, grabs characters from it and writes them on a serial line.

This directory models both boards, checks the models with TLC, and proves
with TLAPS, for every value of the constants, every safety property the runs
check, the two refinements of an abstract specification among them.

Paths below are relative to the repository (`src/` is its source directory).

## 1. Inventory

| Component | Code | State | Operations |
|---|---|---|---|
| Keyboard exchange | `src/KeyboardHost/inout.c` | `buffer` (head, tail, 255 cells), `sizeSendFlag`, line `INT`, register `SPDR` | `keyHandler` (`enqueue`, raise `INT`), `SPI_STC_vect` (type, size, `dequeue`, lower `INT`), `initIO` |
| Key map | `src/KeyboardHost/KeyboardHost.c:189-397` | `upper`, `shiftKey` | `processKeyDown`, `lowerKey`, `processKeyUp` |
| Report handling | `KeyboardHost.c:399-443` | the report pipe | `KeyboardHost_Task` |
| USB application events | `KeyboardHost.c:83-183` | what the application was last told | `EVENT_USB_Host_DeviceAttached`, `DeviceUnattached`, `DeviceEnumerationComplete`, `DeviceEnumerationFailed`, `HostError` |
| LUFA host state machine | `LUFA/Drivers/USB/Core/AVR8/Host_AVR8.c`, `USBInterrupt_AVR8.c`, `USBController_AVR8.c` | `USB_HostState`, `WaitMSRemaining`, `PostWaitState`, interrupt flags and masks, pipes | `USB_Host_ProcessNextHostState`, `USB_Host_WaitMS`, `USB_Host_ResetDevice`, `USB_GEN_vect`, `USB_ResetInterface` |
| LUFA control requests | `LUFA/.../HostStandardReq.c` | the control pipe, bytes left, time-out counter | `USB_Host_SendControlRequest`, `USB_Host_WaitForIOS`, `USB_Host_SetDeviceConfiguration` |
| Configuration search | `ConfigDescriptor.c`, `LUFA/.../ConfigDescriptors.c` and `.h` | position in the descriptor, bytes left, interface and endpoint found | `ProcessConfigurationDescriptor`, `USB_GetNextDescriptorComp`, `USB_GetNextDescriptor` |
| Scheduler | `src/ordonnanceur/ordonnanceur.c` | `task[]` (state, time left, stack), `currentTask`, timer 1 | `TIMER1_COMPA_vect`, `scheduler`, `wait`, `setup` |
| Main board link | `src/ordonnanceur/libs/device.c`, `keyboard.c`, `taskClavier` | `connectorsList[]` | probe, `checkInterrupt`, `grabKey`, `transferDataTo` |
| Serial output | `src/ordonnanceur/libs/serial.c` | transmit register | `serialWrite`, `serialPrint` |

How they interact:

- The USB controller is shared in the same way: `USB_GEN_vect` writes
  `USB_HostState` and resets the controller while `USB_USBTask` is between its
  read of that state and its write of the next, and calls the application's
  events from the interrupt. The enumeration calls
  `USB_Host_SendControlRequest`, which waits with `USB_Host_WaitMS`, and, from
  `EVENT_USB_Host_DeviceEnumerationComplete`, the configuration search.
- On the keyboard board, `main` loops over `KeyboardHost_Task` and
  `USB_USBTask`. The first calls `processKeyDown`, which calls `keyHandler`.
  `SPI_STC_vect` interrupts all of this, and shares `buffer` and port B with
  `keyHandler`, which masks nothing. `USB_GEN_vect` prints on the board's own
  serial port with interrupts off, which delays `SPI_STC_vect`.
- Between the boards there are the SPI, byte for byte, and the line `INT`. The
  byte the slave gives in a transfer is the one its interrupt loaded after the
  transfer before; the master's byte takes its place in `SPDR`.
- On the main board, `taskClavier` calls `wait(20)` between two transfers, to
  let the slave's interrupt run. Nothing else synchronises the boards.

What is hard: the interrupt between two accesses of `enqueue`; the protocol
that is one answer behind; the request line read while the slave's interrupt is
still to come; `wait`, which clears the counter the scheduler measures time
with; the USB life cycle, which an interrupt changes under the main loop.

What makes each part correct:

- *exchange*: a bounded FIFO; no character waits behind a low line;
- *scheduler*: a wait is long enough and not too long, its time left does not
  wrap, no task starves;
- *link*: the keyboard is found, each key is written once at most and in order,
  nothing is invented, keys do not stay in the keyboard;
- *map and reports*: each key has a character of its own; typing one key at a
  time gives exactly what was typed;
- *USB host*: the state machine and the events agree on whether a keyboard is
  there; the requests of the enumeration find the keyboard ready for them;
  reports are polled only from a keyboard that was set up; a removal is noticed;
  every keyboard ends up polled or refused; the board is never deaf;
- *configuration search*: it takes an IN endpoint of a keyboard interface, passes
  over no interrupt IN endpoint, stays inside the descriptor, and ends;
- *control requests*: the buffer is not passed, success means all the data,
  an answer is never taken for another request's, every call returns.

`PROJECT.json` lists every hazard with its line and the properties that watch
over it.

## 2. The modules

| Module | Kind | What it models |
|---|---|---|
| `KeyBuffer` | operators | the ring buffer: `isEmpty`, `isFull`, `sizeBuffer`, `dequeue`, the arithmetic of `enqueue` |
| `KeyQueue` | abstract specification | what the keyboard board promises: a bounded FIFO, answers, a request line |
| `InOut` | state machine | `keyHandler` and `SPI_STC_vect`; refines `KeyQueue` |
| `Ordonnanceur` | state machine | timer 1, its handler, `scheduler`, `wait` |
| `KeyChannel` | abstract specification | what the two boards promise together: a bounded FIFO that may lose a key to each grab |
| `KeyLink` | composition | `taskClavier` and the SPI, with an instance of `InOut`; refines `KeyChannel` |
| `SeqFilter` | operator | `Only(s, S)`: the elements of a sequence that lie in a set |
| `KeyMap` | operators | `processKeyDown` and `lowerKey` |
| `KeyReport` | state machine | `KeyboardHost_Task` and the keyboard whose reports it reads |
| `UsbHost` | state machine | the host state machine, `USB_GEN_vect`, the application's events, and a keyboard that comes and goes |
| `ConfigSearch` | algorithm, a step a turn of its loops | `ProcessConfigurationDescriptor` |
| `ControlRequest` | state machine | `USB_Host_SendControlRequest`, call after call, and the pipe |
| `InOutProofs`, `OrdonnanceurProofs`, `KeyLinkProofs`, `KeyReportProofs`, `UsbHostProofs`, `ConfigSearchProofs`, `ControlRequestProofs`, `SeqFilterProofs` | proofs | theorems and lemmas on the module they are named after |
| `MC*` | TLC | values of the constants |

Definitions keep the names of the code. Definitions whose name has an
underscore and a capital after it (`isFull_Early`, `Wait_KeepsCounter`, ...)
are mutants: plausible mistakes in the definition named before the underscore,
which `PROJECT.json` pairs with the property that notices them. The
specifications do not use them.

### InOut

`buffer`, `sizeSendFlag`, `INT` and `SPDR` are the variables of the code.
`keyHandler` is split at its accesses to shared memory: `KeyHandler` (the test
`isFull` and the read of `tail`), `WriteTail`, `WriteData`, `SetHead`,
`SetInt`. `at` is the point reached, `ktail` the tail it has read. `SpiIsr` is
the whole interrupt, by the byte received (`IsrType`, `IsrSize`, `IsrKey`).
`IrqAt` says before which of the steps the interrupt can come. `raced` is a
history variable: whether it has come inside `enqueue`.

- `KeyHandler` reads `tail` once and `WriteTail` and `WriteData` use what it read.
  The source reads it again as the index of the store (`inout.c:72`); the buffer
  is not volatile, and with the project's `-Os` the value stays in its register.

- An `int` of the AVR is two bytes; an access to it is one step here. An
  interrupt between the two bytes is a hazard no property covers.
- The stores of `enqueue` are in the order of the source. The buffer is not
  volatile; a compiler that moved them would need another model.
- `SPI_STC_vect` handles a byte that arrived before it began, and no transfer
  ends while it runs: the master is far slower than the interrupt.
- Bytes sent are 0, 1 and 255; any other byte is treated like 255.
- The LEDs are left out.

### Ordonnanceur

A step of the clock is a step of the timer (1024 cycles, 64 us). The
tasks that do not wait do nothing the scheduler sees. `Count` is the timer,
`TimerInterrupt` the handler when the hardware calls it, `Wait(i)` is `wait`
from `cli` to `sei`, and `CallHandler` its call of the handler. `Switch` is the
handler: `scheduler`, and the exchange of contexts, of which only the place a
task is saved at matters (`where`). `slept` is a history variable.

- `wait`, the handler and `scheduler` together are shorter than a step of the
  timer, so one step at most falls in them. `Wait` lets the counter reach its
  end between `cli` and `TCNT1 = 0`: the interrupt is then pending at `sei`,
  and the task is switched out before it has called the handler.
- `scheduler` reads the counter once per sleeper and clears it after the first:
  `difftime_ms` charges what the counter says to the first sleeper and 20 to the
  others.
- `sleep.data` is a `uint16_t` and wraps. The other arithmetic stays below
  65536 as long as `OCR1A < 328`, which is an assumption (312 in the program).
- Every call of `wait` in the program passes 20, and only task 4 calls it.

### KeyLink

`pc` is where `taskClavier` is: `Probe1`/`Probe2` are the two transfers of
`initConnectorsList` for a connector, `Poll` is `checkInterrupt`,
`Grab1`/`Grab2` are the two transfers of `grabKey`, the second with the
`serialWrite` of its answer. `transferSPI` exchanges a byte with `SPDR` and
leaves `irq`, the interrupt to be served. With `IsrInTime`, `wait` lasts until
it has been (`Waited`); without, the interrupt may come at any time, and a
second byte then replaces the first.

- `up` is whether the keyboard's firmware has run `initIO`; until then, and on
  the connectors nothing is plugged in, MISO reads as a member of `Stray` and
  the request line as anything.
- With no keyboard found, `indexDevice` returns -1 and the code uses
  `connectorsList[-1]`: `PollUnknown` moves to `wild` and the model follows
  the board no further.
- The keys are typed as distinct characters, so that the serial output tells
  which key each came from. The output of the probe is left out of `serial`.
- `Channel` reads the state as one of `KeyChannel`. The keys on their way
  (`OnTheWay`) are the one in `SPDR` that the second transfer of a grab is about
  to read, those in the buffer, and the one `enqueue` has in hand, though it is
  in no buffer yet; the request left behind is the byte 0xff that the slave has
  not answered, outside a grab. `Delivered` leaves out of `serial` the zeros an
  empty buffer answers.
- No task calls `bufferSize` or `grabKeys`. `Call` is a task that would:
  `Size1`/`Size2` and `Keys1`/`Keys2`/`Keys3` are their transfers, `Keys3` the
  loop of `grabKeys`, which reads without waiting. `getDeviceList` is left out.

### KeyMap and KeyReport

`pressedKey(code, upper, shift)` is the character `processKeyDown` passes to
`keyHandler`. Both tables are written out in full, since the property is about
collisions between them. Characters are unsigned (`-funsigned-char`).

In `KeyReport`, `Press`, `Release` and `Shift` are the keyboard; a report lists
the keys held in an order the keyboard chooses (a new key comes first or last);
a change sets `changed`, and changes before the next report are merged. `Task`
is `KeyboardHost_Task` when it finds a report. `intended`, `capsLock`,
`pressed`, `paced` and `solo` are history variables.

### UsbHost

`pc` is where the main program is. `USB_USBTask` reads `USB_HostState` and goes
to the place named after it: the read of the state and what its case writes are
two steps, and `USB_GEN_vect`, plugs and failures fall between them. `flags` and
`enabled` are the interrupt flags and masks; `Raised(f)` is the test
`USB_GEN_vect` makes; the main program moves only while no interrupt is pending
(`At`). `USB_ResetInterface` clears them all, as the reset of the controller
does, and with them what the controller had noticed of a keyboard (`sensed`), so
that a keyboard left in place is noticed again.

- `HOST_TASK_NONBLOCK_WAIT` and `WaitForDevice`, `WaitLoop`, `Waited`,
  `WaitFailed` are the wait of the state machine; `ResetBus`, `LookForFrame` and
  `Looked` are `USB_Host_ResetDevice`, which both `DoReset` and the end of
  `Default` call, and `AfterReset` the wait its callers go on with. A removal held
  back during the reset is served between the last two (`Host_AVR8.c:292`),
  before the callers write `USB_HostState` (`:114`, `:149`).
- A control request is one step here: `SendControlRequest` resumes the bus,
  `Answer` or `NoAnswer` is its outcome. `Needs`, `Becomes` and `Reaches` are the
  device of the USB specification: the states in which it answers, and the
  address it listens to. `ControlRequest` takes the call apart.
- `ConfigRead` allows every outcome of `ProcessConfigurationDescriptor`, and the
  two of `Pipe_ConfigurePipe`, whose result the code does not test.
- `told` is the last event the application received. `halted` is the endless
  loop of `EVENT_USB_Host_HostError`, inside the interrupt.
- VBUS, PLL, pads, bus suspend and pipe errors outside a request are left out.

### ConfigSearch

A descriptor is a sequence of sub-descriptors with offset, stated size and kind.
`Advance` is `USB_GetNextDescriptor`, with the size bounded by the bytes left.
`NextKeyboardInterface` and `NextDataEndpoint` are a turn of
`USB_GetNextDescriptorComp` with each of the two comparators; the second gives up
at the next interface and puts the location back before it. `TestEndpoint` is
the test of the endpoint found. The comparators are also called just behind the
last sub-descriptor, on what the buffer, a local variable, held before: `beyond`.
Two definitions to compare with: `Taken(i, e)`, that `e` is an IN endpoint of the
keyboard interface `i`, which no sub-descriptor of size 0 hides; and `Match(i, e)`,
that it is an interrupt IN endpoint, which is what the comment of
`ProcessConfigurationDescriptor` asks for. The code tests the direction only.

### ControlRequest

The stages of `USB_Host_SendControlRequest_PRV` are the values of `pc`; the
values in `Waits` are those inside `USB_Host_WaitForIOS`, where `StartWait` and
`EndWait` are a turn of one millisecond and its count-down. `bank` is the packet
received, with the call it answers; `heard` is the call the device has had the
SETUP packet of, so that a device that has been given up may still answer. The
bytes themselves are not kept: `moved` counts them.

## 3. The runs

| Run | Expected | Shows |
|---|---|---|
| `exchange` | pass | with the interrupt anywhere, indices stay in the array and no character waits behind a low line (`NoStrandedKey`); until one falls inside `enqueue`, `InOut` implements `KeyQueue` (`ImplementsKeyQueue`) |
| `sched` | pass | a wait lasts a period at least (`SleptEnough`) and two rounds at most (`SleptNotTooLong`), the time left does not wrap, no task starves (`EveryTaskRuns`) |
| `link` | pass | the probe finds the keyboard, keys are written once at most and in order, nothing is invented, a slow typist loses nothing, a grab or a `bufferSize` costs one key at most, `grabKeys` returns no key (`GrabKeysReadsTypes`), all of it together is the channel of `KeyChannel` (`ImplementsKeyChannel`), the buffer drains |
| `link_lost` | violation | a key typed before the one ahead of it is written is never written |
| `link_late` | pass | even with the slave's interrupt delayed beyond `wait` and falling inside `enqueue`, nothing is written but typed keys, zeros and the byte that asks for a key; without the second, no key is written twice or out of order |
| `report` | pass | keys pressed one at a time give exactly the characters meant; no two keys share a character |
| `report_lost` | violation | a key pressed while another is held is never queued |
| `host` | pass | the board is never deaf (`Listening`), polls only a keyboard in boot protocol (`PolledIsReady`), makes its requests in order (`RequestsInOrder`), agrees with the events (`StateAsTold`), halts only with a keyboard there, notices a removal, and serves or refuses every keyboard (`EnumeratedOrRefused`) |
| `host_overwritten` | violation | a removal between the read of `USB_HostState` and the write of its case: `Unattached` is overwritten |
| `config` | pass | the search takes an IN endpoint of a keyboard interface and no interrupt IN endpoint comes before it (`FoundIsFirst`), a configuration that has one is not refused (`NothingMissed`), location and bytes left stay in step, every turn comes nearer to the end (`EveryTurnIsNearer`), the search ends |
| `config_bulk` | violation | a keyboard interface with a bulk IN endpoint and no interrupt IN endpoint is accepted |
| `control` | pass | the buffer is kept, success means all the data, an answer is its own call's, no step sets a request back (`EveryStepIsNearer`), every call returns |

### What the violations say

- `report_lost`: `KeyboardHost_Task` looks only at `KeyCode[0]`
  (`KeyboardHost.c:427`). A second key held with the first is listed after it
  and not seen; the first is queued again instead.
- `link_lost`: each of the two transfers of `grabKey` (`keyboard.c:14` and
  `:16`) sends 0xff, and each makes `SPI_STC_vect` take a character out. The
  character the second takes out is the answer to the first transfer of the
  next grab, which `grabKey` ignores.
- `host_overwritten`: the cases of `USB_Host_ProcessNextHostState` write
  `USB_HostState` with interrupts enabled (`Host_AVR8.c:57`, `:63`, `:70`,
  `:91` and `HOST_TASK_NONBLOCK_WAIT`). A keyboard that goes between the read at
  the `switch` and that write has its `Unattached` overwritten, after
  `EVENT_USB_Host_DeviceUnattached` was called, and the state machine goes on
  with a keyboard that is not there. A removal in `USB_Host_ResetDevice` ends the
  same way: it is served when `:292` enables the interrupt, and the wait of `:114`
  or `:149` is written over it.
- `config_bulk`: `ConfigDescriptor.c:44` says that the routine searches for an
  interface "containing at least one Interrupt type IN endpoint". The code tests
  the direction of the endpoint and not its type (`:96`), and configures the pipe
  as an interrupt pipe all the same (`:101`).

### What does not hold, and is not claimed

With `IrqAt` inside `enqueue`, `ImplementsKeyQueue`, `ImplementsKeyChannel`,
`BufferDrains` and, once it has happened, the order of the keys fail (which is
why `ImplementsKeyQueue` of `InOut` holds up to `raced` only): when the
interrupt empties the buffer between the read of `tail` and its write, `head`
restarts at 0 while `tail` goes on, and old characters are answered again; when
it empties the buffer between the write of `tail` and the test of `head`, `tail`
is -1 and `head` 0, and what is in the array is answered cell by cell, round and
round, until a key moves `tail`. The code states no guarantee these refute, so
no run is made of them; `exchange`, `link_late` and the theorems without an
assumption on `IrqAt` say what is left.

With a late interrupt (`link_late`), the master's own byte 0xff may be written:
`NothingInvented` allows it there.

A scheduler called with a zero counter takes 20 ms for passed
(`ordonnanceur.c:11-12`), and `wait` has just cleared it: the caller is awake
again at once, and only the round of the other tasks makes `wait` last.

In `UsbHost`:

- with two failures, `SetProtocol` and then `SetDeviceConfiguration(0)` may both
  be refused: the state stays `Configured` and a keyboard that did not take the
  boot protocol is polled. `PolledIsReady` holds for one failure (`MaxFaults`);
- a removal in the loop of `USB_Host_ResetDevice` may have its flag cleared with
  the spurious ones (`Host_AVR8.c:279`) and is then not noticed;
- a removal behind that loop, up to the callers' write of `USB_HostState`, is told
  to the application and then overwritten: the wait for a frame that follows has
  neither a frame nor `Unattached` to end it, and a keyboard plugged in while the
  main loop still turns is asked on as if it had been reset. `StateAsTold`,
  `DetachNoticed` and `RequestsInOrder` fail with such removals;
- a keyboard plugged in again while `USB_Host_WaitMS` waits for a frame hides the
  state that would end the wait, which has no time-out of its own;
- a sub-descriptor of size 0 holds the search for ever. `Terminates` excludes
  it; `FoundIsFirst`, `NothingMissed` and `InStep` do not.

### Bounds, and why they are enough

- `MaxData = 3`: the indices pass the end of the array, the buffer is empty,
  full, and in between with `tail` on either side of `head`. The theorems on
  `InOut` hold for all sizes up to 255.
- `MCKey`, two characters: enough to see one replaced by another; the
  refinement of `KeyQueue` compares whole queues.
- `MaxTyped = 5` keys in `link`, two more than the buffer holds: it is filled,
  drained and filled again, with keys dropped. One call of `bufferSize` or of
  `grabKeys` for up to two keys may fall anywhere between the grabs. `MaxSerial =
  20` is never reached there (deadlock is checked). In `link_late` characters may
  be written without end, and `MaxSerial = 5` stops them, with four keys typed:
  this run is made with `CHECK_DEADLOCK FALSE`, and checks no liveness.
- Three connectors, the keyboard on the middle one: one before it to be taken
  for it, one after it to disturb it. `Stray` has the two values of a floating
  or pulled line, neither of which is the keyboard's type.
- `NB_TASK`, `OCR1A` and `Waiters` have the values of the program. `slept` stops
  counting at `MaxSlept`, two rounds, where the properties no longer tell more.
- `host`: two keyboards after the first, one failure of any kind, waits of 2 and
  1 turns: a state machine with a failed enumeration and a keyboard in place of
  another comes through every state. `UnplugAt` (`MCOutside`) leaves out the
  places between a read of `USB_HostState` and a write resting on it, the whole
  of `USB_Host_ResetDevice` (`look`, `looked`) and the return from it (`reset`)
  included; `PlugAt` (`MCInLoop`) is the top of the main loop.
  `host_overwritten` shows why the first is needed, and the theorems on `UsbHost`
  assume no more than that.
- `config`: every configuration of up to five sub-descriptors, whole or cut by
  one byte; those of up to four also with the size 0 stated by every `other` but
  the last. The buffer of 14 bytes is shorter than the longest of them (15) and
  longer than the rest.
- `control`: three calls, so that a late answer may come in the next call and in
  the one after it; packets of two bytes for 0, 1 and 3 bytes of data; two turns
  of the time-out.
- `MaxEvents = 4`, `MaxHeld = 2`: two keys in full, or two keys and a Shift
  pressed and released; a letter, a digit and CapsLock are the three kinds of
  key. The typist may stop after the last event: `CHECK_DEADLOCK FALSE`.

### Fairness

- `Ordonnanceur!FairSpec`: the timer counts, a raised interrupt is served, a
  task in `wait` goes on to call the handler. Nobody has to call `wait`.
- `KeyLink!FairSpec`: the firmware starts, `keyHandler` and the interrupt go on,
  `taskClavier` goes on: it polls for ever, and `EveryTaskRuns` is why its task
  runs. Nobody has to type.

- `UsbHost!FairSpec`: the main program runs, interrupts are served, the
  controller notices a keyboard in place and sends frames to it. Nobody has to
  plug, unplug or fail.
- `ConfigSearch!FairSpec` and `ControlRequest!FairSpec`: the program runs, and
  the frame that ends a turn of the wait comes. Nothing is asked of the device.

No strong fairness is used.

## 4. The proofs

| Theorem | States | Assuming |
|---|---|---|
| `InOutProofs!TypeCorrect` | `[]TypeOK`: wherever the interrupt falls, `head` and `tail` stay in the array | |
| `InOutProofs!KeyNeverStranded` | `[]NoStrandedKey` | |
| `InOutProofs!BufferIsQueue` | `ImplementsKeyQueue`: every behaviour of `InOut` is one of `KeyQueue` up to the first interrupt inside `enqueue` | |
| `OrdonnanceurProofs!TypeCorrect` | `[]TypeOK` | |
| `OrdonnanceurProofs!WaitLasts` | `[]SleptEnough` | |
| `OrdonnanceurProofs!NeverWraps` | `[]TimeLeftNeverWraps` | |
| `OrdonnanceurProofs!WaitEnds` | `[]SleptNotTooLong` | |
| `KeyLinkProofs!KeyboardIsFound` | `[]ProbeFindsKeyboard` | `QuietBus`: a free line does not read as a keyboard, `SPI_STC_vect` comes within a wait |
| `KeyLinkProofs!TypeCorrect` | `[]TypeOK` | |
| `KeyLinkProofs!OnlyTypedIsWritten` | `[]NothingInvented` | a free line does not read as a keyboard |
| `KeyLinkProofs!GrabKeysIsUseless` | `[]GrabKeysReadsTypes` | a free line does not read as a keyboard |
| `KeyLinkProofs!KeysWrittenInOrder` | `[]WrittenOnce`, which speaks of behaviours in which no interrupt has fallen inside `enqueue` | a free line does not read as a keyboard |
| `KeyLinkProofs!GrabLosesOneAtMost` | `[]OneLossPerGrab` | that, and `Outside`: no interrupt inside `enqueue` |
| `KeyLinkProofs!LinkIsChannel` | `ImplementsKeyChannel`: every behaviour of `KeyLink` is one of `KeyChannel` | that, and `Outside` |
| `KeyLinkProofs!SlowTypistIsServed` | `[]SlowTypistLosesNothing` | a free line does not read as a keyboard, `SPI_STC_vect` comes within a wait |
| `KeyReportProofs!TypeCorrect` | `[]TypeOK` | |
| `KeyReportProofs!SoloTypistIsServed` | `[]SoloTypingIsExact` | |
| `KeyReportProofs!NoKeysMerged` | `KeysAreDistinct` | |
| `UsbHostProofs!TypeCorrect` | `[]TypeOK` | |
| `UsbHostProofs!NeverDeaf` | `[]Listening` | |
| `UsbHostProofs!EventsAgree` | `[]StateAsTold` | `KeptOutside`: no keyboard goes, or comes, where a state that was read is about to be acted on, `USB_Host_ResetDevice` and the return from it included; none comes while the program talks to one |
| `UsbHostProofs!StopsOnlyAttached` | `[]HaltsOnlyAttached` | `KeptOutside` |
| `UsbHostProofs!RequestsKept` | `[]RequestsInOrder` | `KeptInHand`: as `KeptOutside`, and no keyboard comes while the program waits |
| `UsbHostProofs!PolledIsBoot` | `[]PolledIsReady` | `KeptInHand`, and `OneFails`: one thing fails at most, or any number but no request; no keyboard comes between the two tests of `KeyboardHost_Task` |
| `ConfigSearchProofs!FirstIsFound` | `[]FoundIsFirst`: no interrupt IN endpoint of a keyboard interface comes before the endpoint taken | |
| `ConfigSearchProofs!MatchIsFound` | `[]NothingMissed` | |
| `ConfigSearchProofs!CountsAgree` | `[]InStep` | |
| `ConfigSearchProofs!SearchGetsNearer` | `EveryTurnIsNearer`, an action property | |
| `ControlRequestProofs!BufferKept` | `[]WithinBuffer` | |
| `ControlRequestProofs!SuccessIsComplete` | `[]SuccessMeansAll` | |
| `ControlRequestProofs!NoLateAnswer` | `[]AnswerIsOwn` | |
| `ControlRequestProofs!RequestGetsNearer` | `EveryStepIsNearer`, an action property | |

All are theorems of `Spec`, for every value of the constants that the `ASSUME`s
of the modules allow; no bound of a run is used. The right column is an
assumption of the theorem itself, a condition on when the environment acts.

**InOut**, for every `MaxData` from 1 to 255, every set of characters, and every
`IrqAt`. `NoStrandedKey` is inductive with `TypeOK`: `keyHandler` comes back to
idle only through `SetInt`, and an interrupt lowers the line only when
`sizeBuffer` is 0. What must be shown is that 0 means empty, for indices that
the race may have left in any combination and in a `uint8_t`: `SizeZeroIsEmpty`,
which fails for a buffer of 256 cells.

**Ordonnanceur**, for every number of tasks from 2, every set of waiting tasks
that leaves out task 0, and every `OCR1A` for which a step is less than a
millisecond and `TCNT1 * 200` fits 16 bits. The invariant `IInv` adds
to `TypeOK`:

- `ZeroRuns`: task 0 is awake and runs (so the search of `scheduler` ends);
- `CurrentNotAsleep`: the current task is not parked in `wait`;
- `CounterBehind`: a task in `wait` has slept at least as long as the counter
  says, since `wait` clears both;
- `TurnToCome`: a task parked in `wait` has slept a period, or the current
  task is above it, or task 0 runs and the period is not over;
- `RunHasSlept`: a task that is not in `wait` has slept a period.

`SleptEnough` alone is not inductive: it does not say why a task comes back
late. Task 0 calls no `wait`, so only the end of a period takes the processor
from it, and by `CounterBehind` whoever lay down before has then slept one.
`TurnPassesZero` shows that the round robin comes to a parked task from
above only through task 0.

`TimeLeftNeverWraps` needs two facts more. `CounterAtCall`: whenever
`scheduler` can run, the counter is 0, or 1 when a step of the timer fell into
`wait`. `AllOrNothing`: so a sleeper is charged all of its 20 ms or none
of them, since 200 / `OCR1A` steps are less than 10 tenths (`ChargeOfOneStep`),
and its time left is never in between.

`SleptNotTooLong` rests on `SleepersBehind`: a task marked asleep lies at or
below the current one, or task 0 runs. Task 0 is left only at the end of a
period, when the counter reads 0 and every sleeper is charged, so whoever was
charged nothing is awake when its turn comes, no turn is passed over
(`NextTurn`), and the turn moves on by one. `RoundsSlept` then bounds `slept` by the
turns since the task's own (`Since`) and what has passed of the present one
(`Elapsed`, a period at most, `wait` clearing the counter once in it): a round and
a step before the handler is called, when the timer comes first, and a round
parked in it.

**The refinement of `KeyQueue`.** `View` reads the queue of `KeyQueue` off the
array: `Count(head, tail)` cells from `head` on, around the end. `Joined`,
`WriteBehind` and the lemmas on `dequeue` say what each access does to it.
Between the writes of `enqueue` the array is neither the old queue nor the new
one; the invariant `Held` says there what `keyHandler` still has to write, and
the steps before the last one are stutters of the queue. `Held` lasts until an
interrupt falls there, which `raced` records (`QueueInv`, `RacedStays`).

**KeyLink**, for every number of connectors, every place of the keyboard and
every size of its buffer. `ProbeInv` says of the connectors probed so far what
the theorem says at the end; `AnswerComing` says that between the two transfers
to the keyboard its interrupt is still to load the type, or has. It is not
disturbed: a key typed meanwhile touches the buffer and the line, not `SPDR`.

`NothingInvented` holds for every `IrqAt`, `Calls` and `IsrInTime`. The race in
`enqueue` may leave any indices, so the invariant does not follow them:
`GenuineBuffer` says that no cell of the array, in use or not, holds anything but a
key typed or 0, whatever the indices point at. `Answered` says what
may come back between the two transfers of a call (the answer to its last byte,
or that byte), and `OnlyKeyboard` that the calls go to the keyboard.
`GrabKeysReadsTypes` follows from `Answered`.

The rest of `KeyLink` needs the buffer as a queue: as long as no interrupt has
fallen inside `enqueue`, the steps of the keyboard's board are steps of `InOut`
that the refinement of `KeyQueue` has mapped (`SameSteps`, `TypeKeyQueue`,
`HandlerQueue`, `IsrQueue`), so `Waiting`, the queue, is followed and the
array is not. `SeqFilterProofs` says what `Only` does to an empty sequence and
to one that grows, which is all that is needed of `Delivered`.

- `WrittenOnce` (`Order`): the keys delivered, the one in `SPDR` that a grab
  is about to write, those waiting and the one in hand follow one another, each
  part rising and the whole below the number of keys typed. The order of the
  keys delivered does not say where the next one comes from. What must hold
  at each transfer is that the byte read back is not a key read before: a
  transfer leaves the master's byte in `SPDR`, which is no key.
- `OneLossPerGrab` (`LossInv`) adds an account: the keys taken in are at most
  those in hand, waiting, in `SPDR` and delivered, plus one for each byte
  written and each call of `bufferSize`, less the ones whose request is still
  to be answered (`Asked`, `Sizing`). At rest these last are none.
- `ImplementsKeyChannel` takes the same invariant: a key typed is `Take` or
  `Drop`, a transfer that writes a key is `Deliver`, one that writes a 0 or its
  own byte is `LeaveRequest`, the interrupt that dequeues outside a grab is `Lose`.
  Inside a grab the interrupt only moves the key to `SPDR`: that, and every step of
  `keyHandler` behind the first, is a stutter.
- `SlowTypistLosesNothing` (`SlowInv`): with one key typed at a time, the link is
  `Settled` or the one key is in `enqueue` (`Entering`), in the buffer with the
  line still low (`Raising`), announced (`Announced`), or in `SPDR`
  (`Fetched`). `Announced` is where `wait` counts: the request left by the grab
  before is answered before the line rises. Interrupts inside `enqueue` are
  allowed: the byte they serve then asks for the type, and moves no index.

**KeyReport**, for every number of keys held and without bound on what is
typed. `SoloInv`: as long as keys are pressed one at a time and no faster than
the reports are taken, either what was queued is what was meant and no change
is unreported but a release, or one key is held, its report is ready, and the
character meant is the one the report will queue (`OneKeyReady`), with the
CapsLock of the moment of the press. A CapsLock queues a 0, which `Printed`
leaves out. `KeysAreDistinct` is proved from the tables, without enumerating
pairs of keys.

**UsbHost**, for any number of keyboards and failures. `StateAsTold` speaks of
the top of the main loop; to reach it, `Told` follows the program through every
place:

- `Agree`: the state and the last event agree, except behind a failed wait; while
  a keyboard is said to be there no other is listened for;
- `Post`: every wait has a state other than `Unattached` to go on with;
- `Steady`: where a state that was read is about to be written over, a keyboard
  is there and no interrupt will say otherwise. This is what `KeptOutside` gives,
  and what fails in `host_overwritten`. In `USB_Host_ResetDevice`, where the
  removal interrupt is off, it says that the frame of the keyboard in place is
  found and clears the flag, so that none is pending when it is enabled again;
- `Noticed`: the removal of a keyboard is or will be noticed;
- `Partner`: where the program talks to a keyboard, it is the one it was told of.

`NeverDeaf` needs none of it, nor any assumption.

`RequestsInOrder` follows the keyboard from the first reset of the bus to the
boot protocol (`InOrder`). `Calm`: where a keyboard is in hand, its removal is
the only interrupt to come; `Known`
and `Asked`: what the state read, the state a wait goes on with, and the
request under way say of the keyboard's own state; `AddressGiven`: `UHADDR` is
0 up to the end of the wait behind `SET_ADDRESS`. All of them speak only of a
keyboard that the last event was about (`Here`): another in its place is one that
has been reset, and the enumeration begins again. `PolledIsReady` adds
`Ready`: the state `Configured` lasts through the loop only behind an answered
`setProtocol`. A keyboard in place refuses that request only by a failure; if
that was the last one (`Spent`), the request that undoes the configuration is
answered. With a second failure it may not be, and the property is false.

**ConfigSearch**, for every descriptor. `AtInterface`, `AtEndpoint` and
`AtCandidate` say that every endpoint the code would take (`Taken`) lies ahead of
the location, in a form for each of the loops; at the end `TakenIsFirst` and
`NoneTaken` say so of the result, bulk endpoints included, and imply the two
properties, which ask for interrupt IN endpoints (`Match`); `SinceInterface`, that no interface was passed since the one
kept. `OneTurn` is what a turn does to location and bytes left, together: it
stays at a descriptor of size 0, and ends with none left behind the last, which
may be cut. Sizes of 0 are included. `EveryTurnIsNearer` gives termination its
variant, `TurnsLeft`: a failed comparison puts the location back, and what that
gives back is a stage of the loop and not a byte.

**ControlRequest**, for every set of requests, packet size and time-out. `Token`:
the pipe runs in the waiting stages only, with the token of the stage. `Own`: a
packet lies in the bank only there, and the device has by then heard this call,
since `Return` empties the pipe and the setup stage takes no packets. `Moved`:
bytes moved and bytes left make up `wLength`, unless an empty packet came.
`EveryStepIsNearer` is the variant of a request, in lexicographic order: the bytes
left to move, the stages, the halves of the turns of the time-out. The loop of
the data goes back a stage, with less to move (`Counts`).

Model-checked only:

- liveness (`EveryTaskRuns`, `BufferDrains`, `DetachNoticed`,
  `EnumeratedOrRefused`, `Terminates`, `EveryCallReturns`), which the provers do
  not reach: fairness needs `ENABLED`. Of the last two the variants are proved;
  what is left is that the program and the clock go on;
- the four properties expected to be violated.

The library's induction theorems take the property as an operator, which the
installed provers cannot instantiate. `SeqFilterProofs` does its one induction
with a set instead (`LeastNatural`, `Induction`); for it `Only` is written as a
recursive function rather than with `SelectSeq`, of which the provers know no facts.

## 5. Not modelled

- Most of LUFA by size: device mode, the class drivers and their demos, the
  XMEGA and UC3 architectures, the board drivers. They make up nearly all the
  lines of the repository and none of them is compiled into this program, which
  is an AVR8 host without class drivers; modelling them would say nothing of it.
- Of the parts of LUFA that are compiled: the standard requests this program
  never makes (strings, halts, interface settings), the descriptor searches it
  never calls, `Pipe_WriteStream` and the pipe table, the pads, the PLL and VBUS,
  and the device-mode branches of the shared files.
- A torn `int` (`inout.c:74`): an interrupt between its two bytes sends `head` or
  `tail` outside the array, and the rest of the memory is not in the model.
- What the main board does with `connectorsList[-1]`.
- A configuration descriptor shorter than the total it states: in
  `ConfigSearch` the total ends in the last sub-descriptor or with it, so within
  the total the search never meets what the buffer held before.
- What `KeyboardHost_Task` queues when the pipe is gone: the memory of the
  report (`UsbHost` has the step, not the characters).
- `getDeviceList`, which copies `connectorsList`; registers and stacks
  (`SAVE_REGISTER`, `initTask`), LEDs, baud rates, the text of the messages, the
  circuit board.

## 6. Plan

Written: all the modules above, and their proofs.

What could follow:

1. Liveness of `KeyLink` by variants, as was done for `ConfigSearch` and
   `ControlRequest`: what a grab leaves nearer to an empty buffer.
2. `EnumeratedOrRefused` likewise: the enumeration as a chain of stages, each
   of which is left in one direction only while the keyboard stays.
3. `UsbHost` with the pipe of `ControlRequest` in the place of its one step.
