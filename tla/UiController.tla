---------------------------- MODULE UiController ----------------------------
(***************************************************************************)
(* The GUI thread: the slots of UiController (src/ui/UiController.cpp), the *)
(* part of Main.qml that enables them, and the view they keep up to date,  *)
(* composed with the backend thread of EmulatorUnit.                       *)
(*                                                                         *)
(* A slot runs to its end before the Qt loop takes the next click or       *)
(* queued event, but the backend thread runs all the while, so a slot is   *)
(* unrolled into the labels of `gpc' at every access to shared state.  So  *)
(* is EmulatorStateChanged: it reads the state, and later the machine.     *)
(***************************************************************************)
EXTENDS EmulatorUnit, CodeAreaModel

CONSTANTS
  ListedFiles, \* files whose code Disassemble can read from entry to end
  Listing,     \* its row addresses of each of them
  MaxPending   \* bound: clicks wait while more events than this are queued

ASSUME ControllerAssumption ==
  /\ ListedFiles \subseteq LoadableFiles
  /\ Listing \in [ListedFiles -> Seq(Addresses)]
  \* Disassemble only ever moves its machine's pc forward
  /\ \A f \in ListedFiles : Injective(Listing[f])
  /\ MaxPending \in Nat

VARIABLES
  slot,          \* the slot being executed, "none" in the Qt loop
  gpc,           \* where the GUI thread is in it
  gset, gret,    \* argument and return label of its call to SetState_
  path,          \* argument of openFile; NoFile is the empty path
  seen,          \* the last emulator...State signal emitted to the view
  controls,      \* programControls.state in Main.qml
  isFileLoaded,  \* isFileLoaded in Main.qml
  registers,     \* pc row of the registers panel
  pages          \* the machine whose page map the memory panel points into

slotVars == <<slot, gpc, gset, gret, path>>
panels   == <<registers, pages>>
view     == <<seen, controls, isFileLoaded, panels, codeVars>>
vars     == <<unitVars, slotVars, view>>

StartingSlots == {"run", "debug", "continue"}
TerminatingSlots == {"terminate", "open", "config", "quit"}

GuiLabels ==
  {"idle", "check", "stop", "set", "write", "lock", "notify", "refresh", "deliver", "join", "start",
   "load", "loaded", "configure", "stepped", "gone"}

TypeOK ==
  /\ UnitTypeOK
  /\ CodeTypeOK(Addresses)
  /\ slot \in StartingSlots \cup TerminatingSlots \cup {"none", "step"}
  /\ gpc \in GuiLabels
  /\ gset \in EmulatorState
  /\ gret \in {"idle", "join", "loaded", "stepped"}
  /\ path \in Files \cup {NoFile}
  /\ seen \in EmulatorState
  /\ controls \in {"IDLE", "RUNNING", "DEBUGGING"}
  /\ isFileLoaded \in BOOLEAN
  /\ registers \in Addresses \cup {0}
  /\ pages \in Machines \cup {NoMachine}

Init ==
  /\ UnitInit
  /\ CodeInit
  /\ slot = "none" /\ gpc = "idle" /\ gset = "kDefault" /\ gret = "idle" /\ path = NoFile
  /\ seen = "kDefault" /\ controls = "IDLE" /\ isFileLoaded = FALSE
  /\ registers = 0 /\ pages = NoMachine

-----------------------------------------------------------------------------
(* Control flow of the GUI thread. *)

GuiGoto(l) ==
  /\ gpc' = l
  /\ slot' = IF l = "idle" THEN "none" ELSE slot
  /\ path' = IF l = "idle" THEN NoFile ELSE path
  /\ UNCHANGED <<gset, gret>>

\* SetState_(s), to return to label l.
GuiCallSetState(s, l) == gpc' = "set" /\ gset' = s /\ gret' = l /\ UNCHANGED path

\* A return to "idle" leaves the slot.
GuiReturn ==
  /\ gpc' = gret
  /\ slot' = IF gret = "idle" THEN "none" ELSE slot
  /\ path' = IF gret = "idle" THEN NoFile ELSE path
  /\ gset' = "kDefault" /\ gret' = "idle"

\* The Qt loop enters slot s at label l.
Enter(s, l) ==
  /\ gpc = "idle"
  /\ posted <= MaxPending
  /\ slot' = s /\ gpc' = l
  /\ UNCHANGED <<gset, gret>>

-----------------------------------------------------------------------------
(* The view's reaction to a state change: EmulatorStateChanged with the      *)
(* signal handlers of Main.qml and of the models.  It reads the state of     *)
(* now, which may be later than the change that caused the call, and the     *)
(* machine later still.                                                      *)

\* getRegisters(): zeros until there is a machine.
RegistersNow == IF active_machine = NoMachine THEN 0 ELSE pc

\* Mutant: stopProgram returns early while no file is loaded, as runProgram
\* and debugProgram do.
ControlsIfLoaded ==
  CASE state = "kTerminated" /\ isFileLoaded -> "IDLE"
    [] state = "kDebugPaused" -> "DEBUGGING"
    [] state = "kRunning" /\ isFileLoaded -> "RUNNING"
    [] state = "kRunningDebug" /\ isFileLoaded -> "DEBUGGING"
    [] OTHER -> controls

\* Mutant: nothing is connected to emulatorTerminatedState.
ControlsNeverIdle ==
  CASE state = "kDebugPaused" -> "DEBUGGING"
    [] state = "kRunning" /\ isFileLoaded -> "RUNNING"
    [] state = "kRunningDebug" /\ isFileLoaded -> "DEBUGGING"
    [] OTHER -> controls

\* Mutant: nothing is connected to emulatorRunningDebugState.
ControlsNotDebugging ==
  CASE state = "kTerminated" -> "IDLE"
    [] state = "kDebugPaused" -> "DEBUGGING"
    [] state = "kRunning" /\ isFileLoaded -> "RUNNING"
    [] OTHER -> controls

\* programControls.state after stopProgram, debugPauseProgram, runProgram or
\* debugProgram of Main.qml; programReady leaves it alone.
ControlsNow ==
  CASE state = "kTerminated" -> "IDLE"
    [] state = "kDebugPaused" -> "DEBUGGING"
    [] state = "kRunning" /\ isFileLoaded -> "RUNNING"
    [] state = "kRunningDebug" /\ isFileLoaded -> "DEBUGGING"
    [] OTHER -> controls

\* The first part reads the state and tells the view of it.
EmulatorStateChanged ==
  /\ seen' = state
  /\ isFileLoaded' = (isFileLoaded \/ state = "kReady")
  /\ controls' = ControlsNow
  /\ UNCHANGED <<panels, codeVars>>

\* Mutant: registers are not refreshed when a breakpoint is hit.
OnlyTerminated == {"kTerminated"}

\* The states whose announcement refreshes the registers panel.
RegisterStates == {"kDebugPaused", "kTerminated"}

\* The second part shows what the machine is like meanwhile.
RefreshPanels ==
  /\ registers' = IF seen \in RegisterStates THEN RegistersNow ELSE registers
  /\ pages' = IF seen \in {"kRunningDebug", "kDebugPaused"} THEN active_machine ELSE pages
  /\ highlightedLine' = CASE seen = "kDebugPaused" -> RowOf(pc)
                          [] seen = "kTerminated" -> 0
                          [] OTHER -> highlightedLine
  /\ UNCHANGED <<seen, controls, isFileLoaded, lineNumbers, breakpointIds>>

\* The Qt loop delivers a call the backend thread's listener queued.
HandlePosted ==
  /\ gpc = "idle" /\ posted > 0
  /\ posted' = posted - 1
  /\ EmulatorStateChanged
  /\ gpc' = "deliver" /\ UNCHANGED <<slot, gset, gret, path>>
  /\ UNCHANGED <<state, binary, machine, breakpoints, thread, emitter>>

Delivered ==
  /\ gpc = "deliver"
  /\ RefreshPanels
  /\ GuiGoto("idle")
  /\ UNCHANGED unitVars

\* SetState_ on the GUI thread.  The listener calls EmulatorStateChanged at
\* once, inside Emit, with the emitter's mutex held.
GuiCompareState ==
  /\ gpc = "set"
  /\ IF state = gset THEN GuiReturn ELSE GuiGoto("write")
  /\ UNCHANGED <<unitVars, view>>

GuiWriteState ==
  /\ gpc = "write"
  /\ state' = gset
  /\ GuiGoto("lock")
  /\ UNCHANGED <<binary, machine, breakpoints, thread, events, view>>

GuiLockEmitter ==
  /\ gpc = "lock" /\ emitter = "free"
  /\ emitter' = "gui"
  /\ GuiGoto("notify")
  /\ UNCHANGED <<state, binary, machine, breakpoints, thread, posted, view>>

GuiNotify ==
  /\ gpc = "notify"
  /\ EmulatorStateChanged
  /\ GuiGoto("refresh")
  /\ UNCHANGED unitVars

GuiRefresh ==
  /\ gpc = "refresh"
  /\ RefreshPanels
  /\ emitter' = "free"
  /\ GuiReturn
  /\ UNCHANGED <<state, binary, machine, breakpoints, thread, posted>>

-----------------------------------------------------------------------------
(* Run, Debug and Continue: check the state, join the last backend thread,   *)
(* start the next one.                                                       *)

ClickRun(kind) ==
  /\ kind \in {"run", "debug"}
  /\ controls = "IDLE" /\ isFileLoaded
  /\ state \in {"kReady", "kTerminated"}
  /\ Enter(kind, "join")
  /\ UNCHANGED <<path, unitVars, view>>

ClickContinue ==
  /\ controls = "DEBUGGING"
  /\ state = "kDebugPaused"
  /\ Enter("continue", "join")
  /\ UNCHANGED <<path, unitVars, view>>

\* Continue resets the highlighting (steppedTo(-1)) before its thread starts.
StartBackend ==
  /\ gpc = "start"
  /\ session' = IF slot = "run" THEN "run" ELSE "debug"
  /\ bpc' = IF slot = "continue" THEN "continue" ELSE "delete"
  /\ highlightedLine' = IF slot = "continue" THEN 0 ELSE highlightedLine
  /\ GuiGoto("idle")
  /\ UNCHANGED <<state, binary, machine, breakpoints, bset, bret, events,
                 seen, controls, isFileLoaded, panels, lineNumbers, breakpointIds>>

\* Mutant: the thread is detached instead of joined.
Detached == TRUE

\* _joinBackendThread returns once the backend thread has ended.
Joined == bpc = "none"

\* Where each slot goes on after it; openFile returns on an empty path.
Join ==
  /\ gpc = "join" /\ Joined
  /\ GuiGoto(CASE slot \in StartingSlots -> "start"
               [] slot = "terminate" -> "idle"
               [] slot = "open" -> IF path = NoFile THEN "idle" ELSE "load"
               [] slot = "config" -> "configure"
               [] slot = "quit" -> "gone")
  /\ UNCHANGED <<unitVars, view>>

-----------------------------------------------------------------------------
(* Step: one instruction on the GUI thread. *)

DebugStep ==
  /\ controls = "DEBUGGING"
  /\ state = "kDebugPaused"
  /\ gpc = "idle"
  /\ posted <= MaxPending
  /\ slot' = "step"
  /\ UNCHANGED <<path, state, binary, breakpoints, thread, events, view>>

StepInstruction ==
  /\ DebugStep /\ armed
  /\ StepOne
  /\ gpc' = "stepped"
  /\ UNCHANGED <<gset, gret>>

\* The exception goes on to debugStep, which returns without refreshing.
StepFaults ==
  /\ DebugStep /\ armed
  /\ GuiCallSetState("kTerminated", "idle")
  /\ UNCHANGED machine

\* The program has exited under the debugger's eyes.
StepOnStopped ==
  /\ DebugStep /\ ~armed
  /\ GuiCallSetState("kTerminated", "stepped")
  /\ UNCHANGED machine

\* refreshRegisters, refreshMemory, steppedTo(getPc()).
Stepped ==
  /\ gpc = "stepped"
  /\ registers' = RegistersNow /\ pages' = active_machine
  /\ highlightedLine' = RowOf(pc)
  /\ GuiGoto("idle")
  /\ UNCHANGED <<unitVars, seen, controls, isFileLoaded, lineNumbers, breakpointIds>>

-----------------------------------------------------------------------------
(* Terminate, and the three slots that begin with it: opening a file,        *)
(* opening a configuration and closing the window.                           *)

ClickTerminate ==
  /\ controls \in {"RUNNING", "DEBUGGING"}
  /\ Enter("terminate", "check")
  /\ UNCHANGED <<path, unitVars, view>>

OpenFile(f) ==
  /\ Enter("open", "check")
  /\ path' = f
  /\ isFileLoaded' = FALSE
  /\ UNCHANGED <<unitVars, seen, controls, panels, codeVars>>

OpenConfigurationJson ==
  /\ Enter("config", "check")
  /\ UNCHANGED <<path, unitVars, view>>

Quit ==
  /\ Enter("quit", "check")
  /\ UNCHANGED <<path, unitVars, view>>

\* terminateProgram reads the state once.
CheckTerminated ==
  /\ gpc = "check"
  /\ GuiGoto(IF state = "kTerminated" THEN "join" ELSE "stop")
  /\ UNCHANGED <<unitVars, view>>

\* active_machine_->stop().
Stopped == armed /\ active_machine \notin live

\* EmulatorUnit::Terminate.  stop() through a pointer whose machine has been
\* freed writes into freed memory and stops nothing.
Terminate ==
  /\ gpc = "stop"
  /\ IF active_machine = NoMachine
       THEN GuiGoto("join") /\ UNCHANGED armed
       ELSE /\ armed' = Stopped
            /\ GuiCallSetState("kTerminated", "join") /\ UNCHANGED slot
  /\ UNCHANGED <<state, binary, active_machine, live, pc, breakpoints, thread, events, view>>

\* loadFile throws before it changes anything: the code area is cleared.
LoadFails ==
  /\ gpc = "load" /\ path \notin ValidFiles
  /\ breakpoints' = AfterRemoveAll(breakpoints)
  /\ UpdateDisassembly(<<>>)
  /\ GuiGoto("idle")
  /\ UNCHANGED <<state, binary, machine, thread, events, seen, controls, isFileLoaded, panels>>

LoadElfFile ==
  /\ gpc = "load" /\ path \in ValidFiles
  /\ binary' = path
  /\ GuiCallSetState("kReady", "loaded") /\ UNCHANGED slot
  /\ UNCHANGED <<state, machine, breakpoints, thread, events, view>>

\* Mutant: the catch block does not clear the code area.
DisassembleKeepsRows ==
  /\ gpc = "loaded"
  /\ breakpoints' = {}
  /\ IF path \in ListedFiles
       THEN /\ UpdateDisassembly(Listing[path])
            /\ gpc' = "lock" /\ UNCHANGED <<slot, gset, gret, path>>
       ELSE UNCHANGED codeVars /\ GuiGoto("idle")
  /\ UNCHANGED <<state, binary, machine, thread, events, seen, controls, isFileLoaded, panels>>

\* ClearBreakpoints and Disassemble, on a machine of its own.  It throws when
\* that machine's constructor does, and when the sweep over the code, which
\* ends only where pc meets the segment's end exactly, reads an instruction
\* beyond it: the code area is cleared, but kReady has been published and
\* the program stays.  Otherwise globalEmit once more, whether or not the
\* state has changed.
Disassemble ==
  /\ gpc = "loaded"
  /\ breakpoints' = {}
  /\ IF path \in ListedFiles
       THEN /\ UpdateDisassembly(Listing[path])
            /\ gpc' = "lock" /\ UNCHANGED <<slot, gset, gret, path>>
       ELSE UpdateDisassembly(<<>>) /\ GuiGoto("idle")
  /\ UNCHANGED <<state, binary, machine, thread, events, seen, controls, isFileLoaded, panels>>

\* configureEmulator: its peripherals are not part of this module's state.
Configure ==
  /\ gpc = "configure"
  /\ GuiGoto("idle")
  /\ UNCHANGED <<unitVars, view>>

-----------------------------------------------------------------------------
(* Breakpoints, from the code area. *)

ToggleBreakpoint(row) ==
  /\ gpc = "idle"
  /\ ToggleMark(row)
  /\ breakpoints' = AfterToggle(row, breakpoints)
  /\ UNCHANGED <<state, binary, machine, thread, events, slotVars, seen, controls,
                 isFileLoaded, panels, lineNumbers, highlightedLine>>

RemoveAllBreakpoints ==
  /\ gpc = "idle"
  /\ breakpoints' = AfterRemoveAll(breakpoints)
  /\ breakpointIds' = {}
  /\ UNCHANGED <<state, binary, machine, thread, events, slotVars, seen, controls,
                 isFileLoaded, panels, lineNumbers, highlightedLine>>

-----------------------------------------------------------------------------
Clicks ==
  \/ \E kind \in {"run", "debug"} : ClickRun(kind)
  \/ ClickContinue \/ ClickTerminate
  \/ StepInstruction \/ StepFaults \/ StepOnStopped
  \/ \E f \in Files \cup {NoFile} : OpenFile(f)
  \/ OpenConfigurationJson \/ Quit
  \/ \E row \in Rows : ToggleBreakpoint(row)
  \/ RemoveAllBreakpoints

\* What the GUI thread does by itself once it is inside a slot.
SlotNext ==
  \/ GuiCompareState \/ GuiWriteState \/ GuiLockEmitter \/ GuiNotify \/ GuiRefresh
  \/ Delivered
  \/ CheckTerminated \/ Terminate \/ Join \/ StartBackend \/ Stepped
  \/ LoadFails \/ LoadElfFile \/ Disassemble \/ Configure

Aborted == bpc = "aborted"
Gone == gpc = "gone"

\* Mutant: the listener's call waits, under the emitter's mutex, until the
\* Qt loop has taken it.
BlockingQueued == bpc = "post" => gpc = "idle"

\* Qt queues the call of another thread, and that thread goes on at once.
Queued == TRUE

BackendStep == Queued /\ BackendNext /\ UNCHANGED <<slotVars, view>>
SlotStep == ~Aborted /\ SlotNext
DeliverStep == ~Aborted /\ HandlePosted
ClickStep == ~Aborted /\ Clicks

\* The process has ended, by the user's wish or by std::terminate.
Over == Aborted \/ Gone
Halted == Over /\ UNCHANGED vars

Next == BackendStep \/ SlotStep \/ DeliverStep \/ ClickStep \/ Halted

Spec == Init /\ [][Next]_vars

(***************************************************************************)
(* Fairness.  The operating system runs both threads, a slot runs to its   *)
(* end, and the Qt loop takes every queued call in the end, however often  *)
(* the user clicks in between (it is first in, first out): strong fairness *)
(* because the loop is busy whenever a slot runs.  Nothing is assumed of   *)
(* the user, nor of the guest program, which may loop forever.             *)
(***************************************************************************)
Fairness ==
  /\ WF_vars(BackendStep)
  /\ WF_vars(SlotStep)
  /\ SF_vars(DeliverStep)

FairSpec == Spec /\ Fairness

-----------------------------------------------------------------------------
(* Safety *)

\* A state that tells of a session (running, or paused under the debugger)
\* has a machine, and active_machine_ points to a live one except while the
\* backend thread is between delete and new in CreateNewMachine_.
MachineOwned ==
  /\ state \in {"kRunning", "kRunningDebug", "kDebugPaused"} => active_machine # NoMachine
  /\ bpc \notin {"create", "aborted"} /\ active_machine # NoMachine => live = {active_machine}
  /\ bpc \in {"create", "aborted"} => live = {}

\* Once terminateProgram has joined, and until the slot that called it or
\* the slot that starts a thread is done, no backend thread exists: no joinable
\* std::thread is overwritten, and no file or configuration changes under a
\* running program.
Exclusive ==
  gpc \in {"start", "load", "loaded", "configure", "gone"} => bpc = "none"

Quiescent == gpc = "idle" /\ bpc = "none" /\ posted = 0

\* When nothing is under way or queued, the view has been told of the state
\* the unit is in, although each event makes the view read the state of the
\* moment of delivery and no event says which change it stands for.
ViewConverges ==
  Quiescent =>
    /\ seen = state
    /\ state = "kTerminated" => controls = "IDLE"
    /\ state = "kDebugPaused" => controls = "DEBUGGING"

\* Paused and quiescent: registers, memory and highlighted line show the
\* machine as it is now, after any mix of steps, continues and late events.
PausedViewCurrent ==
  Quiescent /\ state = "kDebugPaused" =>
    /\ registers = pc
    /\ pages = active_machine
    /\ highlightedLine = RowOf(pc)

\* The emulator's breakpoint addresses are those of the marked rows whenever
\* the GUI thread is between slots: loading a file, failing to load one and
\* toggling marks under a running program never make the two halves differ.
BreakpointsSync == gpc = "idle" => breakpoints = MarkedAddresses

\* While a file is on display, a program whose running state has reached the
\* view can be stopped: a Terminate button is there.
RunningStoppable ==
  gpc = "idle" /\ isFileLoaded /\ seen = state /\ state \in {"kRunning", "kRunningDebug"} =>
    controls \in {"RUNNING", "DEBUGGING"}

\* The rows that belong to a file: none if its code cannot be listed.
RowsOf(f) == IF f \in ListedFiles THEN Listing[f] ELSE <<>>

\* While the buttons of a file are enabled, the unit's program is that file
\* and the rows shown are its own: its disassembly, or none at all when
\* Disassemble threw (openFile reports an error then, and yet the file can be
\* run).  Never are they another file's, whatever files were opened, or
\* failed to open, while earlier sessions were ending; and a session executes
\* a program that the constructor accepts.
DisplayedProgram ==
  gpc = "idle" /\ isFileLoaded =>
    /\ lineNumbers = RowsOf(binary)
    /\ state \in {"kRunning", "kRunningDebug", "kDebugPaused"} => binary \in LoadableFiles

\* The unit and its two threads implement the abstract session: see Session.
Abstract == INSTANCE Session WITH
  phase <- state, program <- binary, Programs <- ValidFiles, NoProgram <- NoFile

ImplementsSession == Abstract!Spec

-----------------------------------------------------------------------------
(* Liveness, under FairSpec *)

\* Terminating gives the GUI back, even when the guest program loops forever,
\* provided stop() finds a machine whose instruction limit has been set: the
\* backend thread notices, ends, and is joined.  So the two threads never wait
\* for each other, one in the join and the other inside an event, although
\* both emit with the emitter's mutex held.
StopReturns ==
  gpc = "stop" /\ bpc \notin {"delete", "create", "arm"} ~>
    gpc \in {"idle", "load", "configure", "gone"}

\* A breakpoint that has been hit is shown: the queued event arrives, unless
\* the unit has left the pause meanwhile.
PauseShown == state = "kDebugPaused" ~> (seen = "kDebugPaused" \/ state # "kDebugPaused" \/ Over)

\* The end of a program gives the user the Run and Debug buttons back.
EndShown ==
  state = "kTerminated" ~> (controls = "IDLE" \/ state # "kTerminated" \/ Over)

-----------------------------------------------------------------------------
(* What comments in the source promise, and the code does not keep. *)

\* EmulatorUnit.h says of Terminate: "Will stop the currently active machine
\* and terminate this emulator unit."  As terminateProgram relies on it, the
\* slot that terminates is never stuck in join.
TerminateReturns == slot \in TerminatingSlots ~> (slot \notin TerminatingSlots \/ Over)

\* The same comment, as openFile, openConfigurationJson and the destructor
\* rely on it: once they have joined, a unit that has a machine is terminated.
TerminatedWhenJoined ==
  gpc \in {"load", "configure", "gone"} /\ active_machine # NoMachine => state = "kTerminated"

\* main.cpp has a "Global exception handler - will print exception before
\* exiting program."  So no exception ends the process by std::terminate.
NeverAborted == ~Aborted
=============================================================================
