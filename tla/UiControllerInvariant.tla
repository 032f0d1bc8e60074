----------------------- MODULE UiControllerInvariant ------------------------
(***************************************************************************)
(* The inductive invariant behind the safety properties of UiController:   *)
(* what each thread's control point says about its call frames, about the  *)
(* other thread and about the unit.                                        *)
(***************************************************************************)
EXTENDS UiController

SetStateLabels == {"set", "write", "lock", "notify", "refresh"}

\* The GUI thread: which slot may be at which label, and what it calls
\* SetState_ with.  The last disjunct is openFile's own globalEmit.
GuiFlow ==
  /\ gpc \in {"idle", "deliver"} => slot = "none"
  /\ gpc \in {"check", "stop"} => slot \in TerminatingSlots
  /\ gpc = "join" => slot \in StartingSlots \cup TerminatingSlots
  /\ gpc = "start" => slot \in StartingSlots
  /\ gpc \in {"load", "loaded"} => slot = "open"
  /\ gpc = "stepped" => slot = "step"
  /\ gpc \in SetStateLabels =>
       \/ gset = "kTerminated" /\ gret = "join" /\ slot \in TerminatingSlots
       \/ gset = "kTerminated" /\ gret \in {"idle", "stepped"} /\ slot = "step"
       \/ gset = "kReady" /\ gret = "loaded" /\ slot = "open"
       \/ gset = "kDefault" /\ gret = "idle" /\ slot = "open" /\ gpc \in {"lock", "notify", "refresh"}
  /\ gpc \notin SetStateLabels => gset = "kDefault" /\ gret = "idle"

\* The backend thread: which session may be at which label, and what it
\* calls SetState_ with.
BackendFlow ==
  /\ bpc = "none" <=> session = "none"
  /\ bpc \in {"continue", "check"} => session = "debug"
  /\ bpc \in {"set", "write", "lock", "post"} =>
       \/ bset = "kTerminated" /\ bret = "none"
       \/ bset = "kDebugPaused" /\ bret = "none" /\ session = "debug"
       \/ bset = "kRunning" /\ bret = "loop" /\ session = "run"
       \/ bset = "kRunningDebug" /\ bret \in {"continue", "loop"} /\ session = "debug"

\* After the join of a slot that loads, configures, quits or starts a thread
\* there is no backend thread; openFile stays in that region while it
\* publishes kReady and while it repeats the event.
AfterJoin ==
  \/ gpc \in {"start", "load", "loaded", "configure", "gone"}
  \/ gpc \in SetStateLabels /\ slot = "open" /\ gret # "join"

NoBackendAfterJoin == AfterJoin => bpc = "none"

\* A machine exists from the first ConstructMachine on: the labels of the
\* backend thread behind it, and the slot that continues, need one.
MachineExists ==
  \/ state \in {"kRunning", "kRunningDebug", "kDebugPaused"}
  \/ bpc \in {"arm", "continue", "loop", "check", "set", "write", "lock", "post"}
  \/ gpc \in {"join", "start"} /\ slot = "continue"

MachineInv ==
  /\ MachineExists => active_machine # NoMachine
  /\ active_machine = NoMachine => live = {}
  /\ MachineOwned

\* There is a program as soon as anything is published or started.
ProgramExists ==
  \/ state # "kDefault"
  \/ active_machine # NoMachine
  \/ bpc # "none"
  \/ gpc \in {"set", "write"}
  \/ gpc \in {"join", "start"} /\ slot \in StartingSlots

ProgramInv == ProgramExists => binary # NoFile

\* What the published state may be at a control point of the backend thread:
\* the GUI thread interferes with kTerminated only.
PublishedInv ==
  /\ bpc = "none" => state \notin {"kRunning", "kRunningDebug"}
  /\ bpc \in {"lock", "post"} => state \in {bset, "kTerminated"}

\* A state the view has not been told of is on its way to it.
ViewInv ==
  /\ seen # state => posted > 0 \/ bpc \in {"lock", "post"} \/ gpc \in {"lock", "notify"}
  /\ seen = "kTerminated" => controls = "IDLE"
  /\ seen = "kDebugPaused" => controls = "DEBUGGING"
  /\ isFileLoaded /\ seen \in {"kRunning", "kRunningDebug"} => controls \in {"RUNNING", "DEBUGGING"}

\* The two halves of the breakpoints never differ, not even inside a slot.
BreakpointInv == Injective(lineNumbers) /\ breakpoints = MarkedAddresses

\* The part about control points, machines and the published state.
ControlInv ==
  /\ GuiFlow
  /\ BackendFlow
  /\ NoBackendAfterJoin
  /\ MachineInv
  /\ ProgramInv
  /\ PublishedInv

-----------------------------------------------------------------------------
(* The program of a session, and the program on display. *)

\* openFile has replaced the program and not yet its disassembly.
Opening == gpc = "loaded" \/ (gpc \in SetStateLabels /\ gret = "loaded")

\* openFile, up to the point where it replaces the program.
BeforeLoad ==
  /\ slot = "open"
  /\ gpc \in {"check", "stop", "join", "load"} \/ (gpc \in SetStateLabels /\ gret = "join")

\* openFile has written kReady, and no backend thread can replace it.
ReadyWritten ==
  \/ gpc = "loaded"
  \/ gpc \in {"lock", "notify", "refresh"} /\ gret \in {"loaded", "idle"} /\ slot = "open"

\* A session has come past the constructor, or has left its state behind:
\* until openFile overwrites that with kReady.
Executes ==
  \/ bpc \notin {"none", "delete", "create", "aborted"}
  \/ gpc \in {"join", "start"} /\ slot = "continue"
  \/ /\ state \in {"kRunning", "kRunningDebug", "kDebugPaused"}
     /\ ~(gpc \in {"set", "write"} /\ gret = "loaded")

\* The rows are those of the program.
ShowsProgram == lineNumbers = RowsOf(binary)

\* What may still turn isFileLoaded on: a session that exists or starts (its
\* events, delivered while the state is kReady), or openFile's last event.
MayAnnounce ==
  \/ active_machine # NoMachine \/ bpc # "none"
  \/ gpc \in {"join", "start"} /\ slot \in StartingSlots
  \/ ReadyWritten

ProgramShownInv ==
  /\ Executes => binary \in LoadableFiles
  /\ Opening => binary = path
  /\ ReadyWritten => state = "kReady"
  /\ BeforeLoad => ~isFileLoaded
  /\ isFileLoaded /\ ~Opening => ShowsProgram
  /\ state = "kReady" /\ MayAnnounce /\ ~Opening => ShowsProgram
  \* What a file that cannot be loaded leaves behind stays unannounced.
  /\ active_machine = NoMachine => posted = 0
  /\ state = "kReady" /\ BeforeLoad /\ gpc \in {"join", "load"} /\ bpc = "none" => active_machine = NoMachine
  \* Only openFile publishes kReady.
  /\ gpc \in {"lock", "notify", "refresh"} /\ gset = "kTerminated" => state # "kReady"

-----------------------------------------------------------------------------
(* What the panels show while the unit is paused. *)

PanelsCurrent ==
  /\ registers = pc
  /\ pages = active_machine
  /\ highlightedLine = RowOf(pc)

\* The panels will be refreshed: an event is queued or being delivered, a step
\* is about to show itself, or the backend thread still has to announce the
\* pause or to leave it.
RefreshPending ==
  \/ posted > 0
  \/ bpc # "none"
  \/ gpc \in {"deliver", "refresh"} /\ seen = "kDebugPaused"
  \/ gpc = "stepped"

PausedInv ==
  /\ bpc \in {"loop", "check"} => state # "kDebugPaused"
  /\ bpc \in {"set", "write"} /\ bret = "none" => state # "kDebugPaused"
  /\ state = "kDebugPaused" => RefreshPending \/ PanelsCurrent

IInv == TypeOK /\ ControlInv /\ ViewInv /\ BreakpointInv /\ ProgramShownInv /\ PausedInv
=============================================================================
