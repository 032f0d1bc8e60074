---------------------------- MODULE EmulatorUnit ----------------------------
(***************************************************************************)
(* The emulator unit (src/emulator/EmulatorUnit.cpp) together with the     *)
(* backend thread that runs its Execute, Debug and DebugContinue.          *)
(*                                                                         *)
(* The unit's fields are plain members that the backend thread and the GUI *)
(* thread both touch without a lock.  A step below is one access that the  *)
(* other thread can observe; calls are unrolled into the labels of `bpc'.  *)
(* The GUI thread's own calls into the unit are in UiController.           *)
(***************************************************************************)
EXTENDS Naturals

CONSTANTS
  Machines,       \* addresses the heap may give to a riscv::Machine
  NoMachine,      \* nullptr
  Addresses,      \* program counter values of the guest
  Entry,          \* program counter of a freshly constructed machine
  Files,          \* files the user can open
  NoFile,         \* binary_ before the first file is loaded, and the empty path
  ValidFiles,     \* files whose header ValidateElf_ accepts
  LoadableFiles   \* files whose segments riscv::Machine's constructor accepts

ASSUME UnitAssumption ==
  /\ NoMachine \notin Machines
  /\ Addresses \subseteq Nat \ {0}
  /\ Entry \in Addresses
  /\ NoFile \notin Files
  /\ ValidFiles \subseteq Files
  /\ LoadableFiles \subseteq ValidFiles

VARIABLES
  state,           \* state_
  binary,          \* binary_, as the file it was read from
  active_machine,  \* active_machine_
  live,            \* machines constructed and not yet deleted
  armed,           \* ~active_machine_->stopped(): its instruction limit is not 0
  pc,              \* active_machine_->cpu.pc()
  breakpoints,     \* breakpoints_
  session,         \* what the backend thread runs: "none", "run" or "debug"
  bpc,             \* where the backend thread is
  bset, bret,      \* argument and return label of its call to SetState_
  emitter,         \* holder of the global EventEmitter's emitterMutex_
  posted           \* EmulatorStateChanged calls queued for the GUI thread

machine == <<active_machine, live, armed, pc>>
thread  == <<session, bpc, bset, bret>>
events  == <<emitter, posted>>
unitVars == <<state, binary, machine, breakpoints, thread, events>>

EmulatorState ==
  {"kDefault", "kReady", "kRunning", "kRunningDebug", "kDebugPaused", "kTerminated"}

BackendLabels ==
  {"none", "delete", "create", "arm", "continue", "loop", "check",
   "set", "write", "lock", "post", "aborted"}

UnitTypeOK ==
  /\ state \in EmulatorState
  /\ binary \in ValidFiles \cup {NoFile}
  /\ active_machine \in Machines \cup {NoMachine}
  /\ live \in SUBSET Machines
  /\ armed \in BOOLEAN
  /\ pc \in Addresses
  /\ breakpoints \in SUBSET Addresses
  /\ session \in {"none", "run", "debug"}
  /\ bpc \in BackendLabels
  /\ bset \in EmulatorState
  /\ bret \in {"none", "continue", "loop"}
  /\ emitter \in {"free", "gui", "backend"}
  /\ posted \in Nat

UnitInit ==
  /\ state = "kDefault"
  /\ binary = NoFile
  /\ active_machine = NoMachine /\ live = {} /\ armed = FALSE /\ pc = Entry
  /\ breakpoints = {}
  /\ session = "none" /\ bpc = "none" /\ bset = "kDefault" /\ bret = "none"
  /\ emitter = "free" /\ posted = 0

-----------------------------------------------------------------------------
(* Calls and returns inside the backend thread. *)

\* SetState_(s), to return to label l; the thread function ends at "none".
CallSetState(s, l) ==
  /\ bpc' = "set" /\ bset' = s /\ bret' = l
  /\ UNCHANGED session

ReturnFromSetState ==
  /\ bpc' = bret
  /\ session' = IF bret = "none" THEN "none" ELSE session
  /\ bset' = "kDefault" /\ bret' = "none"

Goto(l) == bpc' = l /\ UNCHANGED <<session, bset, bret>>

\* One guest instruction: control goes anywhere, and an exit system call stops
\* the machine by setting its instruction limit to 0.
StepOne ==
  /\ pc' \in Addresses
  /\ armed' \in {armed, FALSE}
  /\ UNCHANGED <<active_machine, live>>

-----------------------------------------------------------------------------
(* CreateNewMachine_: between delete and new, active_machine_ still holds    *)
(* the address of the freed machine; between new and set_max_instructions    *)
(* the new machine's instruction limit is still 0.                           *)

\* Mutant: the old machine is never freed.
FreeNothing == live

\* The heap after `delete active_machine_'.
FreeActive == live \ {active_machine}

DeleteMachine ==
  /\ bpc = "delete"
  /\ live' = FreeActive
  /\ Goto("create")
  /\ UNCHANGED <<state, binary, active_machine, armed, pc, breakpoints, events>>

ConstructMachine ==
  /\ bpc = "create" /\ binary \in LoadableFiles
  /\ \E m \in Machines \ live : active_machine' = m /\ live' = live \cup {m}
  /\ armed' = FALSE /\ pc' = Entry
  /\ Goto("arm")
  /\ UNCHANGED <<state, binary, breakpoints, events>>

\* The constructor throws on an image it cannot load. Nothing on the thread's
\* stack catches the exception: std::terminate ends the process.
ConstructorThrows ==
  /\ bpc = "create" /\ binary \notin LoadableFiles
  /\ Goto("aborted")
  /\ UNCHANGED <<state, binary, machine, breakpoints, events>>

\* set_max_instructions, the memory traps, and the caller's SetState_.
ArmMachine ==
  /\ bpc = "arm"
  /\ armed' = TRUE
  /\ IF session = "run" THEN CallSetState("kRunning", "loop")
                        ELSE CallSetState("kRunningDebug", "continue")
  /\ UNCHANGED <<state, binary, active_machine, live, pc, breakpoints, events>>

-----------------------------------------------------------------------------
(* DebugContinue's prologue and the execution loops of Execute and           *)
(* DebugContinue.                                                            *)

DebugContinue ==
  /\ bpc = "continue"
  /\ IF state # "kDebugPaused" /\ pc \in breakpoints
       THEN CallSetState("kDebugPaused", "none")
       ELSE CallSetState("kRunningDebug", "loop")
  /\ UNCHANGED <<state, binary, machine, breakpoints, events>>

LoopStep ==
  /\ bpc = "loop" /\ armed
  /\ StepOne
  /\ Goto(IF session = "run" THEN "loop" ELSE "check")
  /\ UNCHANGED <<state, binary, breakpoints, events>>

\* Mutant: the catch block of the loops ends the thread and publishes nothing.
LoopFaultsSilently ==
  /\ bpc = "loop" /\ armed
  /\ bpc' = "none" /\ session' = "none" /\ UNCHANGED <<bset, bret>>
  /\ UNCHANGED <<state, binary, machine, breakpoints, events>>

\* step_one throws: caught by the loop's catch block.
LoopFaults ==
  /\ bpc = "loop" /\ armed
  /\ CallSetState("kTerminated", "none")
  /\ UNCHANGED <<state, binary, machine, breakpoints, events>>

\* The machine has stopped.
LoopEnds ==
  /\ bpc = "loop" /\ ~armed
  /\ CallSetState("kTerminated", "none")
  /\ UNCHANGED <<state, binary, machine, breakpoints, events>>

CheckBreakpoint ==
  /\ bpc = "check"
  /\ IF pc \in breakpoints THEN CallSetState("kDebugPaused", "none") ELSE Goto("loop")
  /\ UNCHANGED <<state, binary, machine, breakpoints, events>>

-----------------------------------------------------------------------------
(* SetState_ on the backend thread: compare, write, and globalEmit, whose    *)
(* listener posts EmulatorStateChanged to the GUI thread's event queue while *)
(* the emitter's mutex is held.                                              *)

CompareState ==
  /\ bpc = "set"
  /\ IF state = bset THEN ReturnFromSetState ELSE Goto("write")
  /\ UNCHANGED <<state, binary, machine, breakpoints, events>>

WriteState ==
  /\ bpc = "write"
  /\ state' = bset
  /\ Goto("lock")
  /\ UNCHANGED <<binary, machine, breakpoints, events>>

LockEmitter ==
  /\ bpc = "lock" /\ emitter = "free"
  /\ emitter' = "backend"
  /\ Goto("post")
  /\ UNCHANGED <<state, binary, machine, breakpoints, posted>>

\* Mutant: the listener is gone (a second On for the event dropped it).
PostNothing == posted

\* The listener's QMetaObject::invokeMethod, from the backend thread.
PostOne == posted + 1

PostStateChanged ==
  /\ bpc = "post"
  /\ posted' = PostOne
  /\ emitter' = "free"
  /\ ReturnFromSetState
  /\ UNCHANGED <<state, binary, machine, breakpoints>>

BackendNext ==
  \/ DeleteMachine \/ ConstructMachine \/ ConstructorThrows \/ ArmMachine
  \/ DebugContinue \/ LoopStep \/ LoopFaults \/ LoopEnds \/ CheckBreakpoint
  \/ CompareState \/ WriteState \/ LockEmitter \/ PostStateChanged
=============================================================================
