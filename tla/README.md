# EMULV in TLA+

This directory holds TLA+ specifications of EMULV, a Qt front end for a RISC-V
emulator (`libriscv`) with a debugger and pluggable peripherals, together with
the TLC configurations that check them on small instances and proofs, checked
by TLAPS, for every instance. Paths below are relative to the repository.

The code has no locks except those in the event library. The GUI thread and the
backend thread, which executes the guest program, share the emulator unit, the
GPIO device and the UART device. Most of what is hard about the program is what
these two do to each other, so that is what the specifications are about.

## The system

| Component | State | Operations | Talks to |
|---|---|---|---|
| Emulator unit, `src/emulator/EmulatorUnit.cpp` | `state_`, `binary_`, `active_machine_`, `breakpoints_`, `page_peripherals_` | `Execute`, `Debug`, `DebugStep`, `DebugContinue`, `Terminate`, `LoadElfFile`, breakpoints, traps | libriscv; the event library, by `SetState_`; peripherals, by traps |
| GUI controller, `src/ui/UiController.cpp`, `EmulatorInterface.cpp` | `_backendThread`, the models | the slots Run, Debug, Step, Continue, Terminate, open file, open configuration; `EmulatorStateChanged` | starts and joins the backend thread; signals to the view |
| View, `src/ui/qml/views/Main.qml` | `programControls.state`, `isFileLoaded` | reactions to state signals; enables the buttons | calls the slots |
| Code area model, `src/ui/qml/models/CodeAreaModel.cpp` | rows, breakpoint marks, highlighted row | toggle, remove all, new listing, step to | signals add and remove breakpoints |
| Event library, `src/utils/events` | emitters, global emitter, listeners, a mutex for each emitter | register, remove, set global, `On`, `Emit` | calls listeners under the mutex |
| GPIO, `src/plugins/peripheralsLibs/gpio` | CTL0, CTL1, ISTAT, OCTL of three ports | guest reads and writes, clicks, reset | signals pin states to its panel |
| UART, `src/plugins/peripheralsLibs/uart` | STAT, DATA, CTL0 ..., receive buffer, display text | guest reads and writes, send, clear, display mode, line break, reset | signals its text to its panel |
| Memory traps, in `EmulatorUnit.cpp` | `page_peripherals_` | set up per machine, dispatch an access to a device | peripherals |
| Configuration, `src/utils/config`, `src/plugins/libLoader` | active peripherals, open libraries | `loadJSON`, `configureEmulator` | RAM settings, peripherals, panels |
| Memory panel, `MemoryTableModel.cpp` | page map pointer, cached page numbers, row count | refresh, new pointer, cell and row arithmetic | reads the machine's pages |
| Side bar, `Main.qml` | items with button and content, what each panel displays, floating windows | open, close, float, dock; replaced with the peripherals | signals of the controller |
| Registers panel, file explorer, logging, windows | values shown | display | |

How they interact:

- **Run, Debug and Continue** test the state, join the last `std::thread`, reset
  the peripherals (not Continue) and start a new thread that ends by itself.
- **Terminate**, and with it opening a file, opening a configuration and closing
  the window, sets the machine's instruction limit to 0, publishes
  `kTerminated` and joins. It is the only way to interrupt a guest program.
- **`SetState_`** compares, writes and emits. The controller's listener calls
  `EmulatorStateChanged` by `QMetaObject::invokeMethod`: at once, inside `Emit`,
  on the GUI thread; as a queued call on the backend thread. The call carries no
  state; the handler reads the state of the moment.
- **Peripherals** live in the GUI thread and are called on whichever thread
  executes the guest. Their signals to the panels are direct or queued in the
  same way, so a direct one can overtake queued ones.

What makes each component correct:

- *Unit and controller*: at most one session at a time; a program or a
  configuration changes only between sessions; terminating works; published
  states describe the session; what the view shows catches up with the state,
  and in a pause it is exact.
- *Code area*: marks and the emulator's breakpoints are two copies of one set.
- *GPIO*: the panel comes to show what the registers say.
- *UART*: a driver that polls the status register loses nothing and waits for
  nothing that never comes; the panel comes to show the text.
- *Traps and configuration*: an address reaches the device whose range it is in;
  a device's code outlives it, and pointers to it are not followed after it; a
  configuration that fails leaves a usable state.
- *Memory panel*: each cell shows the byte at its address.
- *Event library*: a name leads to its emitter, an event to its listeners (the code
  keeps only the last one of an event, see the findings), and nobody keeps a mutex.
- *Side bar*: no item's panel is ever lost or in two places.

`PROJECT.json` lists the hazards, each at its line, with the properties that
cover it.

## Modules

| Module | What it is |
|---|---|
| `Session` | the abstract specification: phases, one session at a time, programs replaced between sessions |
| `EmulatorUnit` | the unit's state and the backend thread, one step for each access the other thread can observe |
| `CodeAreaModel` | rows, marks and highlight as operators; no behaviour of its own |
| `UiController` | the GUI thread, the Qt queue and the view, composed with the two modules above; all properties of the core |
| `UiControllerInvariant` | the inductive invariant |
| `UiControllerProofs` | the proofs about the core |
| `Gpio` | ports, guest writes bit by bit, clicks, queued signals, panel |
| `Uart` | registers, buffer, text, slots and accesses as lists of small steps, queued updates, panel |
| `MemoryTraps` | a list of devices with their ranges, the setup of trap pages step by step, the choice of the device for an access; also the abstract specification of the unit that `Configuration` implements |
| `Configuration` | opening a configuration: the slot, `configureEmulator`, `loadJSON` entry by entry, the libraries; sessions as `Session` allows them, each of which sets up its traps with the steps of `MemoryTraps` |
| `SidePanels` | the items of the side bar, their panels and windows |
| `DevicePanels` | `Configuration` and `SidePanels` composed: the devices loaded get their items |
| `MemoryTable` | the page model, the table model and the table view of the memory panel, with the guest's pages |
| `Events` | the emitter store; `On` and `Emit` of several threads |
| `MemoryTrapsProofs`, `MemoryTableProofs`, `EventsProofs`, `GpioProofs`, `UartProofs` | the proofs about the module each is named after |
| `ConfigurationProofs` | the proofs about `SidePanels`, `Configuration` and their composition `DevicePanels` |
| `Numbers` | lemmas on `\div` and `%`, on least and greatest elements and on the position of a number in a finite set, for pages, rows, pins and queues |
| `MCUiController`, `MCGpio`, `MCUart`, `MCConfiguration`, `MCMemoryTable`, `MCEvents` | small values for TLC |

### The core: `EmulatorUnit`, `CodeAreaModel`, `UiController`

Variables have the names of the members they stand for. `bpc` says where the
backend thread is, `gpc` where the GUI thread is within `slot`; each has the
argument and return label of its one call to `SetState_` (`bset`, `bret`,
`gset`, `gret`).

| Code | Actions |
|---|---|
| `CreateNewMachine_` | `DeleteMachine`, `ConstructMachine` or `ConstructorThrows`, `ArmMachine` |
| `Execute`, `Debug`, `DebugContinue` | `DebugContinue` (the prologue), `LoopStep`, `CheckBreakpoint`, `LoopFaults`, `LoopEnds` |
| `SetState_` with `Emit` | `CompareState`, `WriteState`, `LockEmitter`, `PostStateChanged`; on the GUI thread `GuiCompareState`, `GuiWriteState`, `GuiLockEmitter`, `GuiNotify`, `GuiRefresh` |
| `EmulatorStateChanged` with the handlers in `Main.qml` | `EmulatorStateChanged` then `RefreshPanels`: `HandlePosted` and `Delivered` (queued), `GuiNotify` and `GuiRefresh` (direct) |
| `runProgram`, `debugProgram`, `debugContinue` | `ClickRun` or `ClickContinue`, `Join`, `StartBackend` |
| `debugStep` | `StepInstruction`, `StepFaults` or `StepOnStopped`, `Stepped` |
| `terminateProgram` | `ClickTerminate`, `CheckTerminated`, `Terminate`, `Join` |
| `openFile` | `OpenFile`, then as Terminate, then nothing (an empty path), `LoadFails`, or `LoadElfFile` and `Disassemble`, which may fail in its turn |
| `openConfigurationJson`, `~UiController` | `OpenConfigurationJson`, `Quit`, then as Terminate, `Configure` |
| code area clicks | `ToggleBreakpoint`, `RemoveAllBreakpoints` |

Abstractions. A guest instruction moves the pc anywhere and may stop the
machine (`exit`); registers and memory other than the pc are left out, `pages`
records which machine the memory panel points into. A file is a name with four
facts: whether `ValidateElf_` accepts it, whether the machine's constructor
does, whether the sweep of `Disassemble` over its code ends without throwing, and
the addresses of its listing. Freed memory keeps its contents until
the address is used again: reading `stopped()` or the pc through a dangling
pointer reads the old value, `stop()` through it stops nothing. Each operation
on `breakpoints_` is atomic. The C++ `EmulatorStateChanged` is two steps: it
reads the state and tells the view of it, and then reads the machine for the
panels; the backend thread may run in between.

### `Gpio`

A register is the set of its 1 bits, scaled to `Half` pins for each control
register (8 in the code). A guest write is `BeginWrite` and one `WriteBit` for
every bit its loop visits; a click is `TogglePinLevel` (reads the level),
`SetPinLevel` (tests the mode, loads ISTAT) and `StorePinLevel` (stores it,
signals). The upper half of BOP is modelled as it is written, with the level,
mode and number of bit `i`.

### `Uart`

`todo` holds, for each thread, the steps its call still has to make. Setting or
clearing a status flag is a load and a store of the register, because
`std::bitset` has no atomic update; the code's operations on the queue and on
the display text are one step each. `overlapped` and `statWritten` are history
variables that the properties read and no action does.

### `MemoryTraps`, `Configuration`

`devices` is the map `*peripheral_devices_` as the sequence of its objects in the
map's order. `SetupMemoryTraps_` is `BeginSetup`, one `MapPage` for each turn of
its loop, `NextDevice` and `FinishSetup`; `TRAP_PAGE` wraps around at `WordSize`
(2^64 in the code), and a trap's page number keeps only the bits of `GuestSize`
(2^32). `PageTrapHandler_` is an operator: device, method and offset of an access;
what the device then does belongs to `Gpio` and `Uart`. It shows that every read
is a `ReadDoubleword` and that writes of one or two bytes reach nobody.

| Code | Actions |
|---|---|
| `openConfigurationJson` up to the join | `OpenConfigurationJson` (terminates), then `ClearActivePeripherals` once the session is over |
| `loadJSON` | `ParseFails` or `Parse` (which unloads the old libraries), `LoadEntry` for each peripheral or `EntryFails` |
| `configureEmulator` | `ClearActivePeripherals`, then the above, then `RegisterLoaded` |
| the rest of the slot | `AddPanels`, or `Fail` with `failedToLoadConfig` |
| `CreateNewMachine_`, `debugContinue` | `BeginAnew`, `SetUpTraps`; `Continue` |

The session is that of the abstract module `Session`, which `UiController` is
shown to implement; what `terminateProgram` may leave behind (a late
`kDebugPaused`) is in it, and `latePause` is a history variable that records it.

### `SidePanels`, `DevicePanels`

`sidebarItemArray` maps the index of each item there is to its position. `content`
says where an item's content has its parent. `ReplacePeripherals(n)` is
`removeAllPeripherals` followed by `n` signals `newPanelAdded`, as one slot of the
controller emits them. The code never uses an index twice; the model gives an
index out again once neither an item nor a window has it. `DevicePanels` performs
it in the step in which `Configuration` leaves its slot, and lets the user click
between slots only.

### `MemoryTable`

The model and the view are separate copies: `_pageAddresses` is the cached set of
page numbers, `shown` the rows the view has read. Addresses, indices and rows are
the code's, with `PageSize` in place of 4096; the content of a page is one value,
and a byte is its address with the content of its page. The columns box offers
divisors of a page. Whatever the GUI thread reads of the page map while the
backend thread runs, or of a freed machine's, is `Undefined`, and the cache may
then become any set.

### `Events`

One call of a store function is one step: the store has no lock of its own, and the
program changes it in `main` only, before there is a second thread. `globalOn`
and `globalEmit` are `Call` (which looks the emitter up) and then `On`, or `Lock`,
`CallListener` and `Return`, of a thread. `attached`, `begun`, `heard` and `asked` are history variables.

## Runs

| Run | Checks | Shows |
|---|---|---|
| `sessions` | `TypeOK`, `MachineOwned`, `Exclusive`, `ViewConverges`, `PausedViewCurrent`, `BreakpointsSync`, `RunningStoppable`, `DisplayedProgram`, `ImplementsSession` | the core's safety and its refinement of `Session` |
| `progress` | `StopReturns`, `PauseShown`, `EndShown` | terminating a machine that can be stopped returns; pauses and ends are shown |
| `gpio` | `TypeOK`, `StaysInformed` | the panel goes wrong in four ways and no other |
| `uart` | `TypeOK`, `StatusWithoutOverlap`, `StaysShown` | polling works without overlap; the text goes wrong in one way and no other |
| `devices` | `TypeOK`, `DispatchCorrect`, `DevicesHaveCode`, `PanelsMatchDevices`, `StaleOnlyAfterLatePause`, `EveryPanelReachable`, `ImplementsTraps`, `SetupReturns` | accesses reach their devices; devices, their code and their panels stay in step through configurations that fail; `Configuration` implements `MemoryTraps` |
| `memory_panel` | `TypeOK`, `PausedPanelExact`, `NoDanglingInDebug`, `OnlyEndUndefined`, `RefreshShows` | in a pause the panel is an exact table of memory, and a refresh shows it |
| `events` | `TypeOK`, `StoreConsistent`, `ReachesLastListener`, `EntriesPersist`, `EmitterReleased` | the store stays consistent and never replaces an entry; an emission calls the listener attached last and no other |
| `terminate_returns` | `TerminateReturns` | violated: a lost `stop()` |
| `terminated_when_joined` | `TerminatedWhenJoined` | violated: `kDebugPaused` after `kTerminated` |
| `never_aborted` | `NeverAborted` | violated: an exception nobody catches |
| `reset_shown` | `ResetShown` | violated: an old signal replaces the reset picture |
| `status_truthful` | `StatusTruthful` | violated: a character waits with RBNE clear |

The violated properties state what a comment of the source says; `PROJECT.json`
quotes it under `findings`. Two more findings come from the run `events`, which
shows that the code does the contrary of a header. `On` replaces the listeners of an
event, so that of several attached listeners only the last is called
(`ReachesLastListener`), where `EventEmitter.h:25` promises the execution of each and
lines 33 and 41 speak of listeners. And an emitter registered or made global under a
name that is taken is never returned (`EntriesPersist`), where `Events.h:23` and `:37` say
that it can be retrieved. These properties describe the code, not what the
headers ask for. The program itself attaches one listener and has one emitter.

Some properties state an exception, because the code has it. `DispatchCorrect`
excludes an end address on a page boundary, for which the loop of
`SetupMemoryTraps_` sets no trap although `GetRealDevice_` would accept it.
`SetupReturns` excludes devices that end in the last page of the 64-bit space,
where `TRAP_PAGE` wraps around and the loop never ends. `PanelsMatchDevices`
allows panels without devices after a configuration that failed or names none.
`StaleOnlyAfterLatePause` allows the guest to reach devices that are gone only if
the backend thread published `kDebugPaused` after `terminateProgram`'s
`kTerminated`, the behaviour of run `terminated_when_joined`. `OnlyEndUndefined`
allows one row, the one that begins where memory ends, to read past the last
page. `DisplayedProgram` allows the program to be shown without any rows. The sweep of
`Disassemble` ends only where the pc meets the end of the segment exactly, and throws
when it steps over it (`EmulatorUnit.cpp:320-325`); by then `kReady` has enabled the
buttons, and the catch block of `openFile` empties the code area and reports "Could not
load file", although the file is loaded and can be run. `RunningStoppable` is about
loaded files: after a failed open a late pause of the old program can still be continued,
and a Step that faults before the session has published `kRunningDebug` leaves it
running without a Terminate button.

`RefreshShows` is about what the table shows of memory after a refresh. The
comment "Not working?" at `MemoryTableModel.cpp:107` stands before the same refresh in
`switchNumberSystem`. The number system is not modelled; of the refresh itself the run shows
that the view comes to show the model's rows.

### Bounds

`sessions` has two heap addresses (a machine is freed before the next one is
constructed, so that both a reused and a new address occur), two guest
addresses (one with a breakpoint and one without, in a listing or not), and
five files, one of each kind (listed, runnable and not listed, with a valid header only,
rejected) and a second listed one, so that the program on
display may differ from the one that ran, besides the empty path. `MaxPending = 1` makes clicks wait
while two or more state events are queued; the backend thread itself is never held
up and queues more. The heap addresses are symmetric. `progress` has one
address and one file, no symmetry, and `MaxPending = 0`.

`gpio` has one port of two pins, one for each control register, so that bits 0
and 1 are pins and bits 2 and 3 the upper half of BOP; one queued signal holds
the guest up, two are reached. `uart` has two characters, one of which is LF
and one CR, one message, two modes; the user waits while a character is in
the buffer, the guest while a character is shown or an update is queued, so that
one call more of each fits. The bounds are guards of the user's or the guest's
actions and remove only behaviours in which they hurry further ahead.

`devices` has pages of two addresses, a guest space of three pages in a 64-bit
space of four, two names and two heap addresses. Its eight configurations have
devices that share a page, overlap, cross pages, end on a page boundary, have no
page at all and lie outside the guest's space (so that page numbers lose their upper half and
`TRAP_PAGE` wraps), use a name twice, and fail at the file, at the first and at
the second entry. The side bar has the memory panel's item next to up to two of
peripherals, and one floating window. `memory_panel` has two pages
with gaps below and between, rows of one or two bytes, a view of one row, and two
heap addresses, so that a machine may get the address of the one before.
`events` has two threads, an emitter with the very name that the default one
gets, a name nobody has, and two calls of `On` (`MaxAttached`), each of which
any thread may make while the other emits.

### Fairness

`FairSpec` assumes that the operating system runs the backend thread
(`WF(BackendStep)`), that a slot runs to its end (`WF(SlotStep)`), and that the
Qt event loop, which takes events in order, in the end takes every queued call
(`SF(DeliverStep)`, strong because the loop is repeatedly busy with slots).
Nothing is assumed of the user or of the guest program, which may loop forever;
`StopReturns` holds all the same, as long as Qt queues the backend thread's call
instead of waiting for the GUI thread (`Queued`). The mutex needs no fairness of its own: its
holder waits for nothing before it releases it.

`PanelsSpec` assumes `WF(SetUpTraps)`: the backend thread runs, and the setup has no
step that waits. `FairSpec` of `MemoryTable` assumes `WF(Relayout)`: the Qt scene graph
draws a frame it was asked for; neither the queue nor the guest is assumed to
move. `FairSpec` of `Events` assumes that a thread inside an emission goes on
(`WF(CallListener)`, `WF(Return)`), and nothing of threads that wait.

## Proofs

Every invariant and every action property that a passing run checks is also a
theorem, for every value of the constants; so are the two refinements. The proofs
rest on the named assumptions of the modules and on nothing else.

### The core

`UiControllerProofs`, from `UnitAssumption` and `ControllerAssumption`, holds for any
heap, any guest address space, any set of files and any `MaxPending`:

- `Invariant`: `Spec => []IInv`, and from it `TypeCorrect`, `MachineIsOwned`,
  `SessionsAreExclusive`, `ViewIsConvergent`, `BreakpointsAreSynchronised`,
  `RunningIsStoppable`, `DisplayIsOfTheProgram` and `PausedViewIsCurrent`;
- `RefinesSession`: `Spec => ImplementsSession`.

None of the properties is inductive: `Exclusive` says nothing of how the GUI
thread comes to `load`. `IInv` adds what a control point implies.
`GuiFlow` and `BackendFlow` give the call frames of the two `SetState_` calls;
`NoBackendAfterJoin` extends `Exclusive` to the part of `openFile` that publishes
`kReady`; `MachineInv`, `ProgramInv` and `PublishedInv` say from which control
points on there is a machine and a program and which states the two threads can
have published; `ViewInv` says that a state the view has not seen is on its way
to it, by a thread inside `SetState_` or in the queue; `BreakpointInv` holds
inside slots too and needs that no address is on two rows.

`ProgramShownInv` follows the program through `openFile`, which replaces the
program, then publishes `kReady`, then replaces the listing. The hard case
is a file that is rejected: it leaves the old program without its
listing, and nothing may turn `isFileLoaded` on again before the next file
arrives. The invariant therefore says who may still announce `kReady`
(`MayAnnounce`), and that without a machine no event is queued. `PausedInv` says
that a pause whose panels are not current is about to refresh them, by an event
in the queue, a delivery, a step or a backend thread that has not ended.

Each part has one lemma for the backend thread, one for slots, one for clicks and
one for delivery, with a step for every action.

### Traps, configurations and the side bar

`MemoryTrapsProofs` proves `TrapsTypeCorrect` and `DispatchIsCorrect`, from
`TrapsAssumption` alone (a page size that divides both address spaces). The
inductive invariant (`TrapsInvariant`) says that, during the setup, the vector of
each page holds, in order, exactly the devices handled so far whose ranges touch the
page, the current device up to `TRAP_PAGE`; that a guest page has a trap iff one of
these touches it; and that the trap keeps the page itself. It does not hold for
devices beyond the guest's space, which is why it is conditional on `InGuest`, as is
the property. `Numbers` supplies the arithmetic: multiples of the page size are a
page apart, and an address is its page and its offset in one way only.

`ConfigurationProofs` proves `PanelsStayReachable` for the side bar alone, for any
number of items, windows and peripherals: `EveryPanelReachable` is inductive together
with the types, because an item that its panel does not display is in no panel, so
that clearing a panel takes nothing else with it.

Its other theorems are about `PanelsSpec`, the specification the run checks, and
for any names, libraries and configuration files. They add
`ConfigurationAssumption`: the names are keys, each once, and the files are
lists of entries. `SideBarLeavesConfiguration` says that the composition with the
side bar is a behaviour of `Configuration`; `ConfigurationInvariant` proves `ConfigInv`,
which consists of

- `SessionInv`: the phase, the session and the machine at each point of
  `openConfigurationJson`; from `parse` on there is no session, and a machine whose
  traps are stale is paused only by a late pause;
- `MapsInv`: an object has one name, the map of the `loadJSON` under way is
  empty at all other times, and the old devices are gone while it is filled, so
  that unloading the old libraries takes no code from a device that exists;
- `PanelInv`: which panels have lost their devices.

From it follow `ConfigurationTypeCorrect`, `DevicesKeepTheirCode`,
`PanelsBelongToDevices` and `StaleAfterLatePauseOnly`; and, step by step,
`ConfigurationImplementsTraps`, for which the objects of the map in order must be
a list without repetition (`InOrderIsRegistrable`). `DispatchWithConfigurations` and
`PanelsReachableWithConfigurations` carry the theorems about the two parts over to
the whole.

### The memory panel and the store of emitters

`MemoryTableProofs` proves `MemoryTypeCorrect`, `PausedPanelIsExact`,
`OnlyEndIsUndefined` and `NeverDanglingInDebug`, for any finite set of page numbers and
any columns that divide a page. `PanelInv` adds that once a pause has reached the panel
its cache is the set of mapped pages and its row count theirs; the rest is that counting
the pages below a page is a bijection between the mapped pages and the first
indices (`Numbers`). `TableAssumption` asks that `Undefined` be neither an address nor
a row of cells, without which no row could be told from one that is read past the end.

`EventsProofs` proves `EventsTypeCorrect`, `StoreIsConsistent`, `EntriesAreKept` and
`LastListenerReached`. `StoreInv` is inductive by itself; `EmissionInv` relates the
vectors to the history of `On` and says that a thread in an emission holds
the mutex, so that no `On` changes the vector it iterates.

### GPIO

`GpioProofs` proves `GpioTypeCorrect` and `PanelStaysInformed`, for any number of pins,
any words and any number of queued signals, from `GpioAssumption`. The types are inductive
with `OpInv`: a write in progress has a bit left, and one its loop visits, without
which the pin of a control write would be outside the register. `PinNumbers` shows that no
two pins share a row of the panel. What the panel comes to tell of a pin is the last
signal queued for it: `ToldAfterSignal` and `ToldAfterDelivery` say how a signal and its
delivery change that, and `SignalledStepInforms` that a step which changes one pin and
signals its new state, or changes none, keeps every picture correct unless it
overtakes. Each action is then an instance, and what remains are the four exceptions.

### UART

`UartProofs` proves `UartTypeCorrect`, `PanelStaysShown` and `StatusRightWithoutOverlap`, for
any characters and messages of any length, from `UartAssumption`. The inductive invariant
of the last is `StatusInv`: outside a running session the backend thread is inside no
call; without overlap at most one thread is; and what is left of that call
(`CallRight`) is the rest of a transmission, of a read, of a message or of a
store, each with what it needs of the status register and the buffer to leave the
status right at its end. `CallStepRight` shows it of each step of a call, and
`CallKeepsRight` of the calls that begin.

### Model-checked only

The liveness properties `StopReturns`, `PauseShown`, `EndShown`, `SetupReturns`,
`RefreshShows` and `EmitterReleased`: they rest on fairness and `ENABLED`, which are
outside the prover's reach. The properties of the five violated runs are false of the
code and stay with TLC. The inductive invariants that the proofs use were checked with TLC on the
instances of the runs before they were proved.

## Plan

1. Done: `Session`, `EmulatorUnit`, `CodeAreaModel`, `UiController`, their
   invariant and proofs; `Gpio`; `Uart`.
2. Done: `MemoryTraps`, `Configuration`, `SidePanels`, `DevicePanels`, `MemoryTable`,
   `Events`, with their proofs; the proofs about `Gpio` and `Uart`.
3. Open: the converse of the findings as theorems (what does hold in place of
   `ResetShown`, `TerminatedWhenJoined` and `StatusTruthful`); the safety half of the
   liveness properties, such as that a thread which waits for a mutex waits for
   one whose holder waits for nothing.

## Not modelled

- RAM size and start: `EmulatorUnit` stores them and hands them to whoever asks
  through `EmulvApi`; no machine is created with them.
- Values: the digits of the memory and registers panels in each number system,
  the text of the disassembly, `EventData`, what a device returns to a trap.
- Parsing and loading: JSON, ELF headers and `dlopen` are reduced to whether they
  succeed, and at which entry. A member missing from a JSON object is undefined
  behaviour of the JSON library's `operator[]` on a constant object and is left out.
- Races inside containers: each operation on `breakpoints_` is one step, and
  a read of the page map that races with the guest gives `Undefined`; that
  either may crash is outside the models.
- The core of `libriscv`, external and modelled by what the code uses of it:
  constructing a machine may fail, a step may fault, an instruction limit of 0
  stops the machine, a trap is called with the offset in its page.
- The side bar's error paths: the closing handler of a window whose item was
  removed fails on a null item (`Main.qml:982`), and nothing depends on it. QML
  layout and styles, the file explorer (a wrapper of `QFileSystemModel`), logging and
  `saveAsTxt` have no state that other parts read.
