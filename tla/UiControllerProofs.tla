------------------------ MODULE UiControllerProofs -------------------------
(***************************************************************************)
(* The inductive invariant of UiController, part by part, and what follows *)
(* from it: type correctness, the safety properties that the runs check on *)
(* a small instance, and the refinement of Session.                        *)
(***************************************************************************)
EXTENDS UiControllerInvariant, TLAPS

-----------------------------------------------------------------------------
(* Types, one step at a time, for any heap, any guest address space and any  *)
(* set of files: TypeOK. *)

\* The row a pc is shown on is a row of the listing, or 0.
LEMMA RowOfType == \A a : RowOf(a) \in Rows \cup {0}
  BY DEF RowOf

\* The listing of a file is a sequence of distinct addresses.
LEMMA ListingType ==
  ASSUME NEW f \in ListedFiles
  PROVE  Listing[f] \in Seq(Addresses) /\ Injective(Listing[f])
  BY ControllerAssumption

\* The initial state is well typed.
LEMMA InitType == Init => TypeOK
<1> SUFFICES ASSUME Init PROVE TypeOK
  OBVIOUS
<1>1. UnitTypeOK
  BY UnitAssumption DEF Init, UnitInit, UnitTypeOK, EmulatorState, BackendLabels
<1>2. CodeTypeOK(Addresses)
  BY DEF Init, CodeInit, CodeTypeOK, Rows
<1>3. slot \in StartingSlots \cup TerminatingSlots \cup {"none", "step"} /\ gpc \in GuiLabels
      /\ gset \in EmulatorState /\ seen \in EmulatorState
  BY DEF Init, StartingSlots, TerminatingSlots, GuiLabels, EmulatorState
<1> QED BY <1>1, <1>2, <1>3 DEF Init, TypeOK

\* The backend thread keeps every type.
LEMMA BackendType == TypeOK /\ BackendStep => TypeOK'
<1> SUFFICES ASSUME TypeOK, BackendStep PROVE TypeOK'
  OBVIOUS
<1> USE UnitAssumption DEF TypeOK, UnitTypeOK, BackendStep, machine, thread, events, slotVars, view, panels, codeVars,
                      CodeTypeOK, Rows
<1>1. CASE DeleteMachine
  BY <1>1 DEF DeleteMachine, Goto, BackendLabels, FreeActive
<1>2. CASE ConstructMachine
  <2>1. PICK m \in Machines : active_machine' = m /\ live' = live \cup {m}
    BY <1>2 DEF ConstructMachine
  <2>2. active_machine' \in Machines \cup {NoMachine} /\ live' \in SUBSET Machines
    BY <2>1
  <2>3. armed' \in BOOLEAN /\ pc' \in Addresses /\ bpc' \in BackendLabels
    BY <1>2 DEF ConstructMachine, Goto, BackendLabels
  <2> QED BY <1>2, <2>2, <2>3 DEF ConstructMachine, Goto
<1>3. CASE ConstructorThrows
  BY <1>3 DEF ConstructorThrows, Goto, BackendLabels
<1>4. CASE ArmMachine
  <2>1. CASE session = "run"
    BY <1>4, <2>1 DEF ArmMachine, CallSetState, BackendLabels, EmulatorState
  <2>2. CASE session # "run"
    BY <1>4, <2>2 DEF ArmMachine, CallSetState, BackendLabels, EmulatorState
  <2> QED BY <2>1, <2>2
<1>5. CASE DebugContinue
  BY <1>5 DEF DebugContinue, CallSetState, BackendLabels, EmulatorState
<1>6. CASE LoopStep
  <2>1. armed' \in BOOLEAN
    BY <1>6 DEF LoopStep, StepOne
  <2>2. pc' \in Addresses /\ bpc' \in BackendLabels
    BY <1>6 DEF LoopStep, StepOne, Goto, BackendLabels
  <2> QED BY <1>6, <2>1, <2>2 DEF LoopStep, StepOne, Goto
<1>7. CASE LoopFaults
  BY <1>7 DEF LoopFaults, CallSetState, BackendLabels, EmulatorState
<1>8. CASE LoopEnds
  BY <1>8 DEF LoopEnds, CallSetState, BackendLabels, EmulatorState
<1>9. CASE CheckBreakpoint
  BY <1>9 DEF CheckBreakpoint, CallSetState, Goto, BackendLabels, EmulatorState
<1>10. CASE CompareState
  BY <1>10 DEF CompareState, ReturnFromSetState, Goto, BackendLabels, EmulatorState
<1>11. CASE WriteState
  BY <1>11 DEF WriteState, Goto, BackendLabels
<1>12. CASE LockEmitter
  BY <1>12 DEF LockEmitter, Goto, BackendLabels
<1>13. CASE PostStateChanged
  BY <1>13 DEF PostStateChanged, PostOne, ReturnFromSetState, BackendLabels, EmulatorState
<1> QED
  BY <1>1, <1>2, <1>3, <1>4, <1>5, <1>6, <1>7, <1>8, <1>9, <1>10, <1>11, <1>12, <1>13
     DEF BackendNext

-----------------------------------------------------------------------------
(* The view's variables, on their own. *)
ViewTypeOK ==
  /\ CodeTypeOK(Addresses)
  /\ seen \in EmulatorState
  /\ controls \in {"IDLE", "RUNNING", "DEBUGGING"}
  /\ isFileLoaded \in BOOLEAN
  /\ registers \in Addresses \cup {0}
  /\ pages \in Machines \cup {NoMachine}

\* Telling the view of a state keeps the view's types.
LEMMA EmulatorStateChangedType == TypeOK /\ EmulatorStateChanged => ViewTypeOK'
<1> SUFFICES ASSUME TypeOK, EmulatorStateChanged PROVE ViewTypeOK'
  OBVIOUS
<1> USE DEF TypeOK, UnitTypeOK
<1>1. CodeTypeOK(Addresses)' /\ registers' \in Addresses \cup {0} /\ pages' \in Machines \cup {NoMachine}
  BY DEF EmulatorStateChanged, panels, codeVars, CodeTypeOK, Rows
<1>2. controls' \in {"IDLE", "RUNNING", "DEBUGGING"}
  BY DEF EmulatorStateChanged, ControlsNow
<1>3. seen' \in EmulatorState /\ isFileLoaded' \in BOOLEAN
  BY DEF EmulatorStateChanged
<1> QED BY <1>1, <1>2, <1>3 DEF ViewTypeOK

\* So does refreshing the panels.
LEMMA RefreshPanelsType == TypeOK /\ RefreshPanels => ViewTypeOK'
<1> SUFFICES ASSUME TypeOK, RefreshPanels PROVE ViewTypeOK'
  OBVIOUS
<1> USE DEF TypeOK, UnitTypeOK, CodeTypeOK, Rows
<1>1. highlightedLine' \in Rows \cup {0}
  BY RowOfType DEF RefreshPanels
<1>2. CodeTypeOK(Addresses)'
  BY <1>1 DEF RefreshPanels
<1>3. registers' \in Addresses \cup {0} /\ pages' \in Machines \cup {NoMachine}
  BY DEF RefreshPanels, RegistersNow
<1> QED BY <1>2, <1>3 DEF RefreshPanels, ViewTypeOK

\* So does taking a queued event.
LEMMA DeliverType == TypeOK /\ HandlePosted => TypeOK'
<1> SUFFICES ASSUME TypeOK, HandlePosted PROVE TypeOK'
  OBVIOUS
<1>1. ViewTypeOK'
  BY EmulatorStateChangedType DEF HandlePosted
<1>2. posted' \in Nat /\ gpc' \in GuiLabels
  BY DEF HandlePosted, TypeOK, UnitTypeOK, GuiLabels
<1> QED
  BY <1>1, <1>2 DEF HandlePosted, ViewTypeOK, TypeOK, UnitTypeOK, machine, thread

\* A slot keeps every type; GuiFlow says where its SetState_ call may return to.
LEMMA SlotType == TypeOK /\ GuiFlow /\ SlotNext => TypeOK'
<1> SUFFICES ASSUME TypeOK, GuiFlow, SlotNext PROVE TypeOK'
  OBVIOUS
<1> USE DEF TypeOK, UnitTypeOK, unitVars, machine, thread, events, slotVars, view, panels,
            codeVars, CodeTypeOK, Rows, GuiLabels, StartingSlots, TerminatingSlots
<1>1. CASE GuiCompareState
  BY <1>1 DEF GuiCompareState, GuiReturn, GuiGoto, EmulatorState
<1>2. CASE GuiWriteState
  BY <1>2 DEF GuiWriteState, GuiGoto
<1>3. CASE GuiLockEmitter
  BY <1>3 DEF GuiLockEmitter, GuiGoto
<1>4. CASE GuiNotify
  <2>1. ViewTypeOK'
    BY <1>4, EmulatorStateChangedType DEF GuiNotify
  <2> QED BY <1>4, <2>1 DEF GuiNotify, ViewTypeOK, GuiGoto
<1>5. CASE CheckTerminated
  BY <1>5 DEF CheckTerminated, GuiGoto
<1>6. CASE Terminate
  <2>1. CASE active_machine = NoMachine
    BY <1>6, <2>1 DEF Terminate, GuiGoto
  <2>2. CASE active_machine # NoMachine
    <3>1. armed' \in BOOLEAN
      BY <1>6, <2>2 DEF Terminate, Stopped
    <3> QED BY <1>6, <2>2, <3>1 DEF Terminate, GuiCallSetState, EmulatorState
  <2> QED BY <2>1, <2>2
<1>7. CASE Join
  <2>1. gpc' \in GuiLabels
    BY <1>7 DEF Join, GuiGoto, GuiFlow
  <2>2. slot' \in {slot, "none"} /\ path' \in {path, NoFile} /\ UNCHANGED <<unitVars, gset, gret, view>>
    BY <1>7 DEF Join, GuiGoto
  <2> QED BY <2>1, <2>2
<1>8. CASE StartBackend
  BY <1>8 DEF StartBackend, GuiGoto, BackendLabels
<1>9. CASE Stepped
  <2>1. highlightedLine' \in Rows \cup {0}
    BY <1>9, RowOfType DEF Stepped
  <2>2. registers' \in Addresses \cup {0}
    BY <1>9 DEF Stepped, RegistersNow
  <2> QED BY <1>9, <2>1, <2>2 DEF Stepped, GuiGoto
<1>10. CASE LoadFails
  <2>1. breakpoints' \in SUBSET Addresses
    BY <1>10 DEF LoadFails, AfterRemoveAll
  <2>2. CodeTypeOK(Addresses)'
    BY <1>10 DEF LoadFails, UpdateDisassembly
  <2> QED BY <1>10, <2>1, <2>2 DEF LoadFails, GuiGoto
<1>11. CASE LoadElfFile
  BY <1>11 DEF LoadElfFile, GuiCallSetState, EmulatorState
<1>12. CASE Disassemble
  <2>1. CodeTypeOK(Addresses)'
    <3>1. CASE path \in ListedFiles
      <4>1. lineNumbers' = Listing[path]
        BY <1>12, <3>1 DEF Disassemble, UpdateDisassembly
      <4> QED BY <1>12, <4>1, ListingType, <3>1 DEF Disassemble, UpdateDisassembly
    <3>2. CASE path \notin ListedFiles
      <4>1. lineNumbers' = <<>>
        BY <1>12, <3>2 DEF Disassemble, UpdateDisassembly
      <4> QED BY <1>12, <4>1, <3>2 DEF Disassemble, UpdateDisassembly
    <3> QED BY <3>1, <3>2
  <2>2. slot' \in StartingSlots \cup TerminatingSlots \cup {"none", "step"} /\ gpc' \in GuiLabels
        /\ path' \in Files \cup {NoFile} /\ gset' \in EmulatorState
        /\ gret' \in {"idle", "join", "loaded", "stepped"}
    BY <1>12 DEF Disassemble, GuiGoto
  <2> QED BY <1>12, <2>1, <2>2 DEF Disassemble
<1>13. CASE Configure
  BY <1>13 DEF Configure, GuiGoto
<1>14. CASE GuiRefresh
  <2>1. ViewTypeOK'
    BY <1>14, RefreshPanelsType DEF GuiRefresh
  <2>2. gpc' \in GuiLabels /\ gset' \in EmulatorState /\ gret' \in {"idle", "join", "loaded", "stepped"}
        /\ slot' \in StartingSlots \cup TerminatingSlots \cup {"none", "step"}
        /\ path' \in Files \cup {NoFile}
    BY <1>14 DEF GuiRefresh, GuiReturn, EmulatorState
  <2> QED BY <1>14, <2>1, <2>2 DEF GuiRefresh, ViewTypeOK
<1>15. CASE Delivered
  <2>1. ViewTypeOK'
    BY <1>15, RefreshPanelsType DEF Delivered
  <2> QED BY <1>15, <2>1 DEF Delivered, ViewTypeOK, GuiGoto
<1> QED
  BY <1>1, <1>2, <1>3, <1>4, <1>5, <1>6, <1>7, <1>8, <1>9, <1>10, <1>11, <1>12, <1>13,
     <1>14, <1>15 DEF SlotNext

\* A click keeps every type.
LEMMA ClickType == TypeOK /\ Clicks => TypeOK'
<1> SUFFICES ASSUME TypeOK, Clicks PROVE TypeOK'
  OBVIOUS
<1> USE DEF TypeOK, UnitTypeOK, unitVars, machine, thread, events, slotVars, view, panels,
            codeVars, CodeTypeOK, Rows, GuiLabels, StartingSlots, TerminatingSlots
<1>1. ASSUME NEW kind \in {"run", "debug"}, ClickRun(kind) PROVE TypeOK'
  BY <1>1 DEF ClickRun, Enter
<1>2. CASE ClickContinue
  BY <1>2 DEF ClickContinue, Enter
<1>3. CASE ClickTerminate
  BY <1>3 DEF ClickTerminate, Enter
<1>4. CASE StepInstruction
  <2>1. armed' \in BOOLEAN /\ pc' \in Addresses
    BY <1>4 DEF StepInstruction, StepOne
  <2> QED BY <1>4, <2>1 DEF StepInstruction, StepOne, DebugStep
<1>5. CASE StepFaults
  BY <1>5 DEF StepFaults, DebugStep, GuiCallSetState, EmulatorState
<1>6. CASE StepOnStopped
  BY <1>6 DEF StepOnStopped, DebugStep, GuiCallSetState, EmulatorState
<1>7. ASSUME NEW f \in Files \cup {NoFile}, OpenFile(f) PROVE TypeOK'
  <2>1. isFileLoaded' \in BOOLEAN /\ path' \in Files \cup {NoFile} /\ gpc' \in GuiLabels
    BY <1>7 DEF OpenFile, Enter
  <2> QED BY <1>7, <2>1 DEF OpenFile, Enter
<1>8. CASE OpenConfigurationJson
  BY <1>8 DEF OpenConfigurationJson, Enter
<1>9. CASE Quit
  BY <1>9 DEF Quit, Enter
<1>10. ASSUME NEW row \in Rows, ToggleBreakpoint(row) PROVE TypeOK'
  <2>1. lineNumbers[row] \in Addresses
    OBVIOUS
  <2>2. breakpoints' \in SUBSET Addresses
    BY <1>10, <2>1 DEF ToggleBreakpoint, AfterToggle
  <2>3. breakpointIds' \in SUBSET Rows
    BY <1>10 DEF ToggleBreakpoint, ToggleMark
  <2> QED BY <1>10, <2>2, <2>3 DEF ToggleBreakpoint
<1>11. CASE RemoveAllBreakpoints
  BY <1>11 DEF RemoveAllBreakpoints, AfterRemoveAll
<1> QED
  BY <1>1, <1>2, <1>3, <1>4, <1>5, <1>6, <1>7, <1>8, <1>9, <1>10, <1>11 DEF Clicks

-----------------------------------------------------------------------------
(* Control points, the machine and the published state: ControlInv. *)

\* Nothing is under way in the initial state.
LEMMA InitControl == Init => ControlInv
  BY UnitAssumption
     DEF Init, UnitInit, CodeInit, ControlInv, GuiFlow, BackendFlow, NoBackendAfterJoin, AfterJoin, MachineInv,
         MachineOwned, MachineExists, ProgramInv, ProgramExists, PublishedInv, SetStateLabels

\* A step of the backend thread.
LEMMA BackendControl == TypeOK /\ ControlInv /\ BackendStep => ControlInv'
<1> SUFFICES ASSUME TypeOK, ControlInv, BackendStep PROVE ControlInv'
  OBVIOUS
<1> USE UnitAssumption
       DEF ControlInv, GuiFlow, BackendFlow, NoBackendAfterJoin, AfterJoin, MachineInv, MachineOwned, MachineExists,
           ProgramInv, ProgramExists, PublishedInv, SetStateLabels, StartingSlots, TerminatingSlots,
           unitVars, machine, thread, events, slotVars, view, panels, codeVars, BackendStep
<1>0. session \in {"none", "run", "debug"}
  BY DEF TypeOK, UnitTypeOK
<1>1. CASE DeleteMachine
  BY <1>1 DEF DeleteMachine, Goto, FreeActive
<1>2. CASE ConstructMachine
  BY <1>2 DEF ConstructMachine, Goto
<1>3. CASE ConstructorThrows
  BY <1>3 DEF ConstructorThrows, Goto
<1>4. CASE ArmMachine
  BY <1>4, <1>0 DEF ArmMachine, CallSetState
<1>5. CASE DebugContinue
  BY <1>5 DEF DebugContinue, CallSetState
<1>6. CASE LoopStep
  BY <1>6, <1>0 DEF LoopStep, StepOne, Goto
<1>7. CASE LoopFaults
  BY <1>7 DEF LoopFaults, CallSetState
<1>8. CASE LoopEnds
  BY <1>8 DEF LoopEnds, CallSetState
<1>9. CASE CheckBreakpoint
  BY <1>9 DEF CheckBreakpoint, CallSetState, Goto
<1>10. CASE CompareState
  BY <1>10 DEF CompareState, ReturnFromSetState, Goto
<1>11. CASE WriteState
  BY <1>11 DEF WriteState, Goto
<1>12. CASE LockEmitter
  BY <1>12 DEF LockEmitter, Goto
<1>13. CASE PostStateChanged
  BY <1>13 DEF PostStateChanged, PostOne, ReturnFromSetState
<1> QED
  BY <1>1, <1>2, <1>3, <1>4, <1>5, <1>6, <1>7, <1>8, <1>9, <1>10, <1>11, <1>12, <1>13
     DEF BackendStep, BackendNext

\* A step of a slot.
LEMMA SlotControl == TypeOK /\ ControlInv /\ SlotNext => ControlInv'
<1> SUFFICES ASSUME TypeOK, ControlInv, SlotNext PROVE ControlInv'
  OBVIOUS
<1> USE UnitAssumption
       DEF ControlInv, GuiFlow, BackendFlow, NoBackendAfterJoin, AfterJoin, MachineInv, MachineOwned, MachineExists,
           ProgramInv, ProgramExists, PublishedInv, SetStateLabels, StartingSlots, TerminatingSlots,
           unitVars, machine, thread, events, slotVars, view, panels, codeVars
<1>1. CASE GuiCompareState
  BY <1>1 DEF GuiCompareState, GuiReturn, GuiGoto
<1>2. CASE GuiWriteState
  BY <1>2 DEF GuiWriteState, GuiGoto
<1>3. CASE GuiLockEmitter
  BY <1>3 DEF GuiLockEmitter, GuiGoto
<1>4. CASE GuiNotify
  BY <1>4 DEF GuiNotify, GuiGoto
<1>5. CASE CheckTerminated
  BY <1>5 DEF CheckTerminated, GuiGoto
<1>6. CASE Terminate
  BY <1>6 DEF Terminate, GuiGoto, GuiCallSetState
<1>7. CASE Join
  BY <1>7 DEF Join, Joined, GuiGoto
<1>8. CASE StartBackend
  BY <1>8 DEF StartBackend, GuiGoto
<1>9. CASE Stepped
  BY <1>9 DEF Stepped, GuiGoto
<1>10. CASE LoadFails
  BY <1>10 DEF LoadFails, GuiGoto
<1>11. CASE LoadElfFile
  BY <1>11 DEF LoadElfFile, GuiCallSetState
<1>12. CASE Disassemble
  BY <1>12 DEF Disassemble, GuiGoto
<1>13. CASE Configure
  BY <1>13 DEF Configure, GuiGoto
<1>14. CASE GuiRefresh
  BY <1>14 DEF GuiRefresh, GuiReturn
<1>15. CASE Delivered
  BY <1>15 DEF Delivered, GuiGoto
<1> QED
  BY <1>1, <1>2, <1>3, <1>4, <1>5, <1>6, <1>7, <1>8, <1>9, <1>10, <1>11, <1>12, <1>13,
     <1>14, <1>15 DEF SlotNext

\* A click.
LEMMA ClickControl == TypeOK /\ ControlInv /\ Clicks => ControlInv'
<1> SUFFICES ASSUME TypeOK, ControlInv, Clicks PROVE ControlInv'
  OBVIOUS
<1> USE UnitAssumption
       DEF ControlInv, GuiFlow, BackendFlow, NoBackendAfterJoin, AfterJoin, MachineInv, MachineOwned, MachineExists,
           ProgramInv, ProgramExists, PublishedInv, SetStateLabels, StartingSlots, TerminatingSlots,
           unitVars, machine, thread, events, slotVars, view, panels, codeVars
<1>1. CASE \E kind \in {"run", "debug"} : ClickRun(kind)
  BY <1>1 DEF ClickRun, Enter
<1>2. CASE ClickContinue
  BY <1>2 DEF ClickContinue, Enter
<1>3. CASE ClickTerminate
  BY <1>3 DEF ClickTerminate, Enter
<1>4. CASE StepInstruction
  BY <1>4 DEF StepInstruction, DebugStep, StepOne
<1>5. CASE StepFaults
  BY <1>5 DEF StepFaults, DebugStep, GuiCallSetState
<1>6. CASE StepOnStopped
  BY <1>6 DEF StepOnStopped, DebugStep, GuiCallSetState
<1>7. CASE \E f \in Files \cup {NoFile} : OpenFile(f)
  BY <1>7 DEF OpenFile, Enter
<1>8. CASE OpenConfigurationJson
  BY <1>8 DEF OpenConfigurationJson, Enter
<1>9. CASE Quit
  BY <1>9 DEF Quit, Enter
<1>10. CASE \E row \in Rows : ToggleBreakpoint(row)
  BY <1>10 DEF ToggleBreakpoint
<1>11. CASE RemoveAllBreakpoints
  BY <1>11 DEF RemoveAllBreakpoints
<1> QED
  BY <1>1, <1>2, <1>3, <1>4, <1>5, <1>6, <1>7, <1>8, <1>9, <1>10, <1>11
     DEF Clicks

\* The delivery of a queued event.
LEMMA DeliverControl == ControlInv /\ HandlePosted => ControlInv'
  BY DEF ControlInv, GuiFlow, BackendFlow, NoBackendAfterJoin, AfterJoin, MachineInv, MachineOwned, MachineExists,
         ProgramInv, ProgramExists, PublishedInv, SetStateLabels, HandlePosted, machine, thread

-----------------------------------------------------------------------------
(* What the view has been told: ViewInv. *)

\* The view starts in the unit's initial state.
LEMMA InitView == Init => ViewInv
  BY DEF Init, UnitInit, ViewInv

\* Wherever EmulatorStateChanged runs, the view is up to date afterwards.
LEMMA ToldView ==
  ASSUME EmulatorStateChanged, UNCHANGED state, ViewInv
  PROVE  ViewInv'
  BY DEF EmulatorStateChanged, ControlsNow, ViewInv

\* The backend thread writes the state before it posts the event.
LEMMA BackendView == TypeOK /\ ViewInv /\ BackendStep => ViewInv'
<1> SUFFICES ASSUME TypeOK, ViewInv, BackendStep PROVE ViewInv'
  OBVIOUS
<1> USE DEF TypeOK, UnitTypeOK, ViewInv, unitVars, machine, thread, events, slotVars, view, panels, codeVars, BackendStep
<1>1. CASE DeleteMachine
  BY <1>1 DEF DeleteMachine, Goto, FreeActive
<1>2. CASE ConstructMachine
  BY <1>2 DEF ConstructMachine, Goto
<1>3. CASE ConstructorThrows
  BY <1>3 DEF ConstructorThrows, Goto
<1>4. CASE ArmMachine
  BY <1>4 DEF ArmMachine, CallSetState
<1>5. CASE DebugContinue
  BY <1>5 DEF DebugContinue, CallSetState
<1>6. CASE LoopStep
  BY <1>6 DEF LoopStep, StepOne, Goto
<1>7. CASE LoopFaults
  BY <1>7 DEF LoopFaults, CallSetState
<1>8. CASE LoopEnds
  BY <1>8 DEF LoopEnds, CallSetState
<1>9. CASE CheckBreakpoint
  BY <1>9 DEF CheckBreakpoint, CallSetState, Goto
<1>10. CASE CompareState
  BY <1>10 DEF CompareState, ReturnFromSetState, Goto
<1>11. CASE WriteState
  BY <1>11 DEF WriteState, Goto
<1>12. CASE LockEmitter
  BY <1>12 DEF LockEmitter, Goto
<1>13. CASE PostStateChanged
  BY <1>13 DEF PostStateChanged, PostOne, ReturnFromSetState
<1> QED
  BY <1>1, <1>2, <1>3, <1>4, <1>5, <1>6, <1>7, <1>8, <1>9, <1>10, <1>11, <1>12, <1>13
     DEF BackendStep, BackendNext

\* The GUI thread writes the state before it runs the listener.
LEMMA SlotView == TypeOK /\ ControlInv /\ ViewInv /\ SlotNext => ViewInv'
<1> SUFFICES ASSUME TypeOK, ControlInv, ViewInv, SlotNext PROVE ViewInv'
  OBVIOUS
<1> USE DEF TypeOK, UnitTypeOK, ViewInv, unitVars, machine, thread, events, slotVars, view, panels, codeVars
<1>1. CASE GuiCompareState
  BY <1>1 DEF GuiCompareState, GuiReturn, GuiGoto
<1>2. CASE GuiWriteState
  BY <1>2 DEF GuiWriteState, GuiGoto
<1>3. CASE GuiLockEmitter
  BY <1>3 DEF GuiLockEmitter, GuiGoto
<1>4. CASE GuiNotify
  BY <1>4, ToldView DEF GuiNotify
<1>5. CASE CheckTerminated
  BY <1>5 DEF CheckTerminated, GuiGoto
<1>6. CASE Terminate
  BY <1>6 DEF Terminate, GuiGoto, GuiCallSetState
<1>7. CASE Join
  BY <1>7 DEF Join, Joined, GuiGoto
<1>8. CASE StartBackend
  BY <1>8 DEF StartBackend, GuiGoto, ControlInv, NoBackendAfterJoin, AfterJoin
<1>9. CASE Stepped
  BY <1>9 DEF Stepped, GuiGoto
<1>10. CASE LoadFails
  BY <1>10 DEF LoadFails, GuiGoto
<1>11. CASE LoadElfFile
  BY <1>11 DEF LoadElfFile, GuiCallSetState
<1>12. CASE Disassemble
  BY <1>12 DEF Disassemble, GuiGoto
<1>13. CASE Configure
  BY <1>13 DEF Configure, GuiGoto
<1>14. CASE GuiRefresh
  BY <1>14 DEF GuiRefresh, RefreshPanels, GuiReturn
<1>15. CASE Delivered
  BY <1>15 DEF Delivered, RefreshPanels, GuiGoto
<1> QED
  BY <1>1, <1>2, <1>3, <1>4, <1>5, <1>6, <1>7, <1>8, <1>9, <1>10, <1>11, <1>12, <1>13,
     <1>14, <1>15 DEF SlotNext

\* Clicks do not publish.
LEMMA ClickView == TypeOK /\ ViewInv /\ Clicks => ViewInv'
<1> SUFFICES ASSUME TypeOK, ViewInv, Clicks PROVE ViewInv'
  OBVIOUS
<1> USE DEF TypeOK, UnitTypeOK, ViewInv, unitVars, machine, thread, events, slotVars, view, panels, codeVars
<1>1. CASE \E kind \in {"run", "debug"} : ClickRun(kind)
  BY <1>1 DEF ClickRun, Enter
<1>2. CASE ClickContinue
  BY <1>2 DEF ClickContinue, Enter
<1>3. CASE ClickTerminate
  BY <1>3 DEF ClickTerminate, Enter
<1>4. CASE StepInstruction
  BY <1>4 DEF StepInstruction, DebugStep, StepOne
<1>5. CASE StepFaults
  BY <1>5 DEF StepFaults, DebugStep, GuiCallSetState
<1>6. CASE StepOnStopped
  BY <1>6 DEF StepOnStopped, DebugStep, GuiCallSetState
<1>7. CASE \E f \in Files \cup {NoFile} : OpenFile(f)
  BY <1>7 DEF OpenFile, Enter
<1>8. CASE OpenConfigurationJson
  BY <1>8 DEF OpenConfigurationJson, Enter
<1>9. CASE Quit
  BY <1>9 DEF Quit, Enter
<1>10. CASE \E row \in Rows : ToggleBreakpoint(row)
  BY <1>10 DEF ToggleBreakpoint
<1>11. CASE RemoveAllBreakpoints
  BY <1>11 DEF RemoveAllBreakpoints
<1> QED
  BY <1>1, <1>2, <1>3, <1>4, <1>5, <1>6, <1>7, <1>8, <1>9, <1>10, <1>11
     DEF Clicks

\* A delivered event tells the view of the state of the moment.
LEMMA DeliverView == ViewInv /\ HandlePosted => ViewInv'
  BY ToldView DEF HandlePosted

-----------------------------------------------------------------------------
(* The two halves of the breakpoints: BreakpointInv. *)

\* There are no rows and no breakpoints at first.
LEMMA InitBreakpoints == Init => BreakpointInv
  BY DEF Init, UnitInit, CodeInit, BreakpointInv, Injective, MarkedAddresses

\* Removing every mark through the signals leaves no breakpoint.
LEMMA RemoveAllBreakpointsEmpty == BreakpointInv => AfterRemoveAll(breakpoints) = {}
  BY DEF BreakpointInv, AfterRemoveAll

\* A view without rows or marks goes with an empty set of breakpoints.
LEMMA NoMarks == breakpointIds = {} => MarkedAddresses = {}
  BY DEF MarkedAddresses

\* Nothing else touches the two halves.
LEMMA BreakpointsUntouched ==
  BreakpointInv /\ UNCHANGED <<lineNumbers, breakpointIds, breakpoints>> => BreakpointInv'
  BY DEF BreakpointInv, MarkedAddresses

\* The backend thread reads the breakpoints and does not write them.
LEMMA BackendBreakpoints == BreakpointInv /\ BackendStep => BreakpointInv'
  BY BreakpointsUntouched
     DEF BackendStep, BackendNext, view, codeVars, DeleteMachine, ConstructMachine, ConstructorThrows, ArmMachine,
         DebugContinue, LoopStep, LoopFaults, LoopEnds, CheckBreakpoint, CompareState, WriteState,
         LockEmitter, PostStateChanged

\* EmulatorStateChanged leaves rows and marks alone.
LEMMA DeliverBreakpoints == BreakpointInv /\ HandlePosted => BreakpointInv'
  BY BreakpointsUntouched DEF HandlePosted, EmulatorStateChanged, codeVars

\* A slot that opens a file removes both halves; the others touch neither.
LEMMA SlotBreakpoints == BreakpointInv /\ SlotNext => BreakpointInv'
<1> SUFFICES ASSUME BreakpointInv, SlotNext PROVE BreakpointInv'
  OBVIOUS
<1>1. CASE LoadFails
  <2>1. breakpoints' = {}
    BY <1>1, RemoveAllBreakpointsEmpty DEF LoadFails
  <2>2. lineNumbers' = <<>> /\ breakpointIds' = {}
    BY <1>1 DEF LoadFails, UpdateDisassembly
  <2> QED BY <2>1, <2>2 DEF BreakpointInv, MarkedAddresses, Injective
<1>2. CASE Disassemble
  <2>1. breakpoints' = {} /\ breakpointIds' = {}
    BY <1>2 DEF Disassemble, UpdateDisassembly
  <2>2. Injective(lineNumbers')
    <3>1. CASE path \in ListedFiles
      BY <1>2, <3>1, ListingType DEF Disassemble, UpdateDisassembly
    <3>2. CASE path \notin ListedFiles
      BY <1>2, <3>2 DEF Disassemble, UpdateDisassembly, Injective
    <3> QED BY <3>1, <3>2
  <2> QED BY <2>1, <2>2 DEF BreakpointInv, MarkedAddresses
<1>3. CASE GuiNotify \/ GuiRefresh \/ Delivered
  BY <1>3, BreakpointsUntouched
     DEF GuiNotify, GuiRefresh, Delivered, EmulatorStateChanged, RefreshPanels, unitVars, codeVars
<1>4. CASE ~(LoadFails \/ Disassemble \/ GuiNotify \/ GuiRefresh \/ Delivered)
  BY <1>4, BreakpointsUntouched
     DEF SlotNext, unitVars, view, codeVars, GuiCompareState, GuiWriteState, GuiLockEmitter, CheckTerminated,
         Terminate, Join, StartBackend, Stepped, LoadElfFile, Configure
<1> QED BY <1>1, <1>2, <1>3, <1>4

\* A toggle changes both halves at the same address, since no other row has it.
LEMMA ClickBreakpoints == BreakpointInv /\ TypeOK /\ Clicks => BreakpointInv'
<1> SUFFICES ASSUME BreakpointInv, TypeOK, Clicks PROVE BreakpointInv'
  OBVIOUS
<1>1. ASSUME NEW row \in Rows, ToggleBreakpoint(row) PROVE BreakpointInv'
  <2> USE DEF BreakpointInv, MarkedAddresses, ToggleBreakpoint, ToggleMark, AfterToggle, Rows, TypeOK, CodeTypeOK
  <2>1. lineNumbers' = lineNumbers /\ Injective(lineNumbers')
    BY <1>1
  <2>2. CASE row \in breakpointIds
    <3>1. breakpointIds' = breakpointIds \ {row} /\ breakpoints' = breakpoints \ {lineNumbers[row]}
      BY <1>1, <2>2
    <3>2. \A other \in breakpointIds : lineNumbers[other] = lineNumbers[row] => other = row
      BY DEF Injective
    <3> QED BY <2>1, <3>1, <3>2
  <2>3. CASE row \notin breakpointIds
    <3>1. breakpointIds' = breakpointIds \cup {row} /\ breakpoints' = breakpoints \cup {lineNumbers[row]}
      BY <1>1, <2>3
    <3> QED BY <2>1, <3>1
  <2> QED BY <2>2, <2>3
<1>2. CASE RemoveAllBreakpoints
  <2>1. breakpoints' = {} /\ breakpointIds' = {} /\ lineNumbers' = lineNumbers
    BY <1>2, RemoveAllBreakpointsEmpty DEF RemoveAllBreakpoints
  <2> QED BY <2>1 DEF BreakpointInv, MarkedAddresses
<1>3. CASE ~(RemoveAllBreakpoints \/ \E row \in Rows : ToggleBreakpoint(row))
  BY <1>3, BreakpointsUntouched
     DEF Clicks, unitVars, view, codeVars, ClickRun, ClickContinue, ClickTerminate, DebugStep, StepInstruction,
         StepFaults, StepOnStopped, OpenFile, OpenConfigurationJson, Quit
<1> QED BY <1>1, <1>2, <1>3

-----------------------------------------------------------------------------
(* The program of a session and the program on display: ProgramShownInv. *)

\* Nothing is loaded, shown or announced at first.
LEMMA InitProgramShown == Init => ProgramShownInv
  BY DEF Init, UnitInit, ProgramShownInv, Executes, Opening, BeforeLoad, ReadyWritten, MayAnnounce, SetStateLabels

\* A step of the backend thread: the constructor lets only a loadable program
\* pass, and what the thread publishes is never kReady.
LEMMA BackendProgramShown == TypeOK /\ ControlInv /\ ProgramShownInv /\ BackendStep => ProgramShownInv'
<1> SUFFICES ASSUME TypeOK, ControlInv, ProgramShownInv, BackendStep PROVE ProgramShownInv'
  OBVIOUS
<1> USE UnitAssumption
       DEF ProgramShownInv, Executes, Opening, BeforeLoad, ReadyWritten, MayAnnounce, ShowsProgram, SetStateLabels,
           StartingSlots, TypeOK, UnitTypeOK, ControlInv, BackendFlow, NoBackendAfterJoin, AfterJoin, MachineInv,
           MachineExists, PublishedInv,
           unitVars, machine, thread, events, slotVars, view, panels, codeVars, BackendStep
<1>1. CASE DeleteMachine
  BY <1>1 DEF DeleteMachine, Goto, FreeActive
<1>2. CASE ConstructMachine
  BY <1>2 DEF ConstructMachine, Goto
<1>3. CASE ConstructorThrows
  BY <1>3 DEF ConstructorThrows, Goto
<1>4. CASE ArmMachine
  BY <1>4 DEF ArmMachine, CallSetState
<1>5. CASE DebugContinue
  BY <1>5 DEF DebugContinue, CallSetState
<1>6. CASE LoopStep
  BY <1>6 DEF LoopStep, StepOne, Goto
<1>7. CASE LoopFaults
  BY <1>7 DEF LoopFaults, CallSetState
<1>8. CASE LoopEnds
  BY <1>8 DEF LoopEnds, CallSetState
<1>9. CASE CheckBreakpoint
  BY <1>9 DEF CheckBreakpoint, CallSetState, Goto
<1>10. CASE CompareState
  BY <1>10 DEF CompareState, ReturnFromSetState, Goto
<1>11. CASE WriteState
  BY <1>11 DEF WriteState, Goto
<1>12. CASE LockEmitter
  BY <1>12 DEF LockEmitter, Goto
<1>13. CASE PostStateChanged
  BY <1>13 DEF PostStateChanged, PostOne, ReturnFromSetState
<1> QED
  BY <1>1, <1>2, <1>3, <1>4, <1>5, <1>6, <1>7, <1>8, <1>9, <1>10, <1>11, <1>12, <1>13
     DEF BackendStep, BackendNext

\* A step of a slot: openFile replaces the program and its rows while
\* nothing of it is announced.
LEMMA SlotProgramShown == TypeOK /\ ControlInv /\ ProgramShownInv /\ SlotNext => ProgramShownInv'
<1> SUFFICES ASSUME TypeOK, ControlInv, ProgramShownInv, SlotNext PROVE ProgramShownInv'
  OBVIOUS
<1> USE DEF ProgramShownInv, Executes, Opening, BeforeLoad, ReadyWritten, MayAnnounce, ShowsProgram, SetStateLabels,
            StartingSlots, TerminatingSlots, ControlInv, GuiFlow, BackendFlow, NoBackendAfterJoin, AfterJoin,
            PublishedInv, unitVars, machine, thread, events, slotVars, view, panels, codeVars
<1>1. CASE GuiCompareState
  BY <1>1 DEF GuiCompareState, GuiReturn, GuiGoto
<1>2. CASE GuiWriteState
  BY <1>2 DEF GuiWriteState, GuiGoto
<1>3. CASE GuiLockEmitter
  BY <1>3 DEF GuiLockEmitter, GuiGoto
<1>4. CASE GuiNotify
  BY <1>4 DEF GuiNotify, GuiGoto, EmulatorStateChanged
<1>5. CASE CheckTerminated
  BY <1>5 DEF CheckTerminated, GuiGoto
<1>6. CASE Terminate
  BY <1>6 DEF Terminate, GuiGoto, GuiCallSetState
<1>7. CASE Join
  BY <1>7 DEF Join, Joined, GuiGoto
<1>8. CASE StartBackend
  BY <1>8 DEF StartBackend, GuiGoto
<1>9. CASE Stepped
  BY <1>9 DEF Stepped, GuiGoto
<1>10. CASE LoadFails
  BY <1>10 DEF LoadFails, GuiGoto, UpdateDisassembly
<1>11. CASE LoadElfFile
  BY <1>11 DEF LoadElfFile, GuiCallSetState
<1>12. CASE Disassemble
  BY <1>12 DEF Disassemble, GuiGoto, UpdateDisassembly, RowsOf
<1>13. CASE Configure
  BY <1>13 DEF Configure, GuiGoto
<1>14. CASE GuiRefresh
  BY <1>14 DEF GuiRefresh, RefreshPanels, GuiReturn
<1>15. CASE Delivered
  BY <1>15 DEF Delivered, RefreshPanels, GuiGoto
<1> QED
  BY <1>1, <1>2, <1>3, <1>4, <1>5, <1>6, <1>7, <1>8, <1>9, <1>10, <1>11, <1>12, <1>13,
     <1>14, <1>15 DEF SlotNext

\* A click: a session starts only while a program is on display, or paused.
LEMMA ClickProgramShown == TypeOK /\ ControlInv /\ ProgramShownInv /\ Clicks => ProgramShownInv'
<1> SUFFICES ASSUME TypeOK, ControlInv, ProgramShownInv, Clicks PROVE ProgramShownInv'
  OBVIOUS
<1> USE DEF ProgramShownInv, Executes, Opening, BeforeLoad, ReadyWritten, MayAnnounce, ShowsProgram, SetStateLabels,
            StartingSlots, TerminatingSlots, ControlInv, GuiFlow, MachineInv, MachineExists,
            unitVars, machine, thread, events, slotVars, view, panels, codeVars
<1>1. CASE \E kind \in {"run", "debug"} : ClickRun(kind)
  BY <1>1 DEF ClickRun, Enter
<1>2. CASE ClickContinue
  BY <1>2 DEF ClickContinue, Enter
<1>3. CASE ClickTerminate
  BY <1>3 DEF ClickTerminate, Enter
<1>4. CASE StepInstruction
  BY <1>4 DEF StepInstruction, DebugStep, StepOne
<1>5. CASE StepFaults
  BY <1>5 DEF StepFaults, DebugStep, GuiCallSetState
<1>6. CASE StepOnStopped
  BY <1>6 DEF StepOnStopped, DebugStep, GuiCallSetState
<1>7. CASE \E f \in Files \cup {NoFile} : OpenFile(f)
  BY <1>7 DEF OpenFile, Enter
<1>8. CASE OpenConfigurationJson
  BY <1>8 DEF OpenConfigurationJson, Enter
<1>9. CASE Quit
  BY <1>9 DEF Quit, Enter
<1>10. CASE \E row \in Rows : ToggleBreakpoint(row)
  BY <1>10 DEF ToggleBreakpoint
<1>11. CASE RemoveAllBreakpoints
  BY <1>11 DEF RemoveAllBreakpoints
<1> QED
  BY <1>1, <1>2, <1>3, <1>4, <1>5, <1>6, <1>7, <1>8, <1>9, <1>10, <1>11
     DEF Clicks

\* The delivery of a queued event: there is a machine, so a kReady it
\* announces is that of the program on display.
LEMMA DeliverProgramShown == TypeOK /\ ControlInv /\ ProgramShownInv /\ HandlePosted => ProgramShownInv'
<1> SUFFICES ASSUME TypeOK, ControlInv, ProgramShownInv, HandlePosted PROVE ProgramShownInv'
  OBVIOUS
<1>1. slot = "none" /\ active_machine # NoMachine /\ posted' \in Nat
  BY DEF TypeOK, UnitTypeOK, ControlInv, GuiFlow, ProgramShownInv, HandlePosted
<1> QED
  BY <1>1 DEF HandlePosted, EmulatorStateChanged, ProgramShownInv, Executes, Opening, BeforeLoad, ReadyWritten,
              MayAnnounce, ShowsProgram, SetStateLabels, machine, thread, codeVars

-----------------------------------------------------------------------------
(* The panels of a paused unit: PausedInv. *)

\* Nothing is paused at first.
LEMMA InitPaused == Init => PausedInv
  BY DEF Init, UnitInit, PausedInv

\* Panels stay current while neither they nor what they show change.
LEMMA PanelsUntouched ==
  ASSUME PanelsCurrent, UNCHANGED <<panels, codeVars, pc, active_machine>>
  PROVE  PanelsCurrent'
  BY DEF PanelsCurrent, RowOf, Rows, panels, codeVars

\* The backend thread announces a pause before it ends.
LEMMA BackendPaused == TypeOK /\ ControlInv /\ PausedInv /\ BackendStep => PausedInv'
<1> SUFFICES ASSUME TypeOK, ControlInv, PausedInv, BackendStep PROVE PausedInv'
  OBVIOUS
<1> USE DEF PausedInv, RefreshPending, TypeOK, UnitTypeOK, ControlInv, BackendFlow, PublishedInv,
            unitVars, machine, thread, events, slotVars, view, BackendStep
<1>1. CASE DeleteMachine
  BY <1>1 DEF DeleteMachine, Goto
<1>2. CASE ConstructMachine
  BY <1>2 DEF ConstructMachine, Goto
<1>3. CASE ConstructorThrows
  BY <1>3 DEF ConstructorThrows, Goto
<1>4. CASE ArmMachine
  BY <1>4 DEF ArmMachine, CallSetState
<1>5. CASE DebugContinue
  BY <1>5 DEF DebugContinue, CallSetState
<1>6. CASE LoopStep
  BY <1>6 DEF LoopStep, Goto
<1>7. CASE LoopFaults
  BY <1>7 DEF LoopFaults, CallSetState
<1>8. CASE LoopEnds
  BY <1>8 DEF LoopEnds, CallSetState
<1>9. CASE CheckBreakpoint
  BY <1>9 DEF CheckBreakpoint, CallSetState, Goto
<1>10. CASE CompareState
  BY <1>10 DEF CompareState, ReturnFromSetState, Goto
<1>11. CASE WriteState
  BY <1>11 DEF WriteState, Goto
<1>12. CASE LockEmitter
  BY <1>12 DEF LockEmitter, Goto
<1>13. CASE PostStateChanged
  BY <1>13 DEF PostStateChanged, PostOne, ReturnFromSetState
<1> QED
  BY <1>1, <1>2, <1>3, <1>4, <1>5, <1>6, <1>7, <1>8, <1>9, <1>10, <1>11, <1>12, <1>13
     DEF BackendStep, BackendNext

\* A refresh for the pause itself makes the panels current.
LEMMA RefreshedPanels ==
  ASSUME ControlInv, state = "kDebugPaused", seen = "kDebugPaused", RefreshPanels,
         UNCHANGED <<pc, active_machine>>
  PROVE  PanelsCurrent'
<1>1. active_machine # NoMachine
  BY DEF ControlInv, MachineInv, MachineExists
<1> QED
  BY <1>1 DEF RefreshPanels, RegisterStates, RegistersNow, PanelsCurrent, RowOf, Rows

\* A slot that touches the panels shows the machine of now, or the code area
\* without a row for its pc; a refresh for an older state has a later event
\* behind it.
LEMMA SlotPaused ==
  TypeOK /\ ControlInv /\ ViewInv /\ ProgramShownInv /\ PausedInv /\ SlotNext => PausedInv'
<1> SUFFICES ASSUME TypeOK, ControlInv, ViewInv, ProgramShownInv, PausedInv, SlotNext PROVE PausedInv'
  OBVIOUS
<1> USE PanelsUntouched DEF PausedInv, RefreshPending, unitVars, machine, thread, events, slotVars, view
<1>1. CASE GuiCompareState
  BY <1>1 DEF GuiCompareState, GuiReturn, GuiGoto
<1>2. CASE GuiWriteState
  BY <1>2 DEF GuiWriteState, GuiGoto, ControlInv, GuiFlow, SetStateLabels
<1>3. CASE GuiLockEmitter
  BY <1>3 DEF GuiLockEmitter, GuiGoto
<1>4. CASE GuiNotify
  BY <1>4 DEF GuiNotify, GuiGoto, EmulatorStateChanged
<1>5. CASE CheckTerminated
  BY <1>5 DEF CheckTerminated, GuiGoto
<1>6. CASE Terminate
  BY <1>6 DEF Terminate, GuiGoto, GuiCallSetState
<1>7. CASE Join
  BY <1>7 DEF Join, Joined, GuiGoto
<1>8. CASE StartBackend
  BY <1>8 DEF StartBackend, GuiGoto
<1>9. CASE Stepped
  <2>1. state = "kDebugPaused" => PanelsCurrent'
    BY <1>9 DEF Stepped, ControlInv, MachineInv, MachineExists, RegistersNow, PanelsCurrent, RowOf, Rows
  <2> QED BY <1>9, <2>1 DEF Stepped
<1>10. CASE LoadFails
  <2>1. PanelsCurrent => PanelsCurrent'
    BY <1>10 DEF LoadFails, UpdateDisassembly, PanelsCurrent, RowOf, Rows, panels
  <2> QED BY <1>10, <2>1 DEF LoadFails, GuiGoto
<1>11. CASE LoadElfFile
  BY <1>11 DEF LoadElfFile, GuiCallSetState
<1>12. CASE Disassemble
  BY <1>12 DEF Disassemble, ProgramShownInv, ReadyWritten
<1>13. CASE Configure
  BY <1>13 DEF Configure, GuiGoto
<1>14. CASE GuiRefresh
  <2>1. state = "kDebugPaused" /\ seen = "kDebugPaused" => PanelsCurrent'
    BY <1>14, RefreshedPanels DEF GuiRefresh
  <2> QED BY <1>14, <2>1 DEF GuiRefresh, GuiReturn, ViewInv
<1>15. CASE Delivered
  <2>1. state = "kDebugPaused" /\ seen = "kDebugPaused" => PanelsCurrent'
    BY <1>15, RefreshedPanels DEF Delivered
  <2> QED BY <1>15, <2>1 DEF Delivered, GuiGoto, ViewInv
<1> QED
  BY <1>1, <1>2, <1>3, <1>4, <1>5, <1>6, <1>7, <1>8, <1>9, <1>10, <1>11, <1>12, <1>13,
     <1>14, <1>15 DEF SlotNext

\* Of the clicks only Step moves the machine, and it shows where to.
LEMMA ClickPaused == ControlInv /\ PausedInv /\ Clicks => PausedInv'
<1> SUFFICES ASSUME ControlInv, PausedInv, Clicks PROVE PausedInv'
  OBVIOUS
<1>0. gpc = "idle"
  BY DEF Clicks, ClickRun, ClickContinue, ClickTerminate, DebugStep, StepInstruction, StepFaults, StepOnStopped,
         OpenFile, OpenConfigurationJson, Quit, ToggleBreakpoint, RemoveAllBreakpoints, Enter
<1> USE <1>0, PanelsUntouched DEF PausedInv, RefreshPending, unitVars, machine, thread, events, slotVars, view
<1>1. CASE StepInstruction
  BY <1>1 DEF StepInstruction, DebugStep
<1>2. CASE \E row \in Rows : ToggleBreakpoint(row)
  <2>1. PanelsCurrent => PanelsCurrent'
    BY <1>2 DEF ToggleBreakpoint, PanelsCurrent, RowOf, Rows, panels
  <2> QED BY <1>2, <2>1 DEF ToggleBreakpoint
<1>3. CASE RemoveAllBreakpoints
  <2>1. PanelsCurrent => PanelsCurrent'
    BY <1>3 DEF RemoveAllBreakpoints, PanelsCurrent, RowOf, Rows, panels
  <2> QED BY <1>3, <2>1 DEF RemoveAllBreakpoints
<1>4. CASE ~(StepInstruction \/ (\E row \in Rows : ToggleBreakpoint(row)) \/ RemoveAllBreakpoints)
  BY <1>4 DEF Clicks, ClickRun, ClickContinue, ClickTerminate, DebugStep, StepFaults, StepOnStopped,
              OpenFile, OpenConfigurationJson, Quit
<1> QED BY <1>1, <1>2, <1>3, <1>4

\* A delivered event that meets the pause will refresh the panels.
LEMMA DeliverPaused == PausedInv /\ HandlePosted => PausedInv'
  BY DEF PausedInv, RefreshPending, HandlePosted, EmulatorStateChanged, thread

-----------------------------------------------------------------------------
(* The invariant is inductive. *)

\* The invariant holds initially.
LEMMA InitInvariant == Init => IInv
  BY InitType, InitControl, InitView, InitBreakpoints, InitProgramShown, InitPaused DEF IInv

\* Every step keeps it.
LEMMA NextInvariant == IInv /\ [Next]_vars => IInv'
<1> SUFFICES ASSUME IInv, [Next]_vars PROVE IInv'
  OBVIOUS
<1>1. TypeOK /\ ControlInv /\ ViewInv /\ BreakpointInv /\ ProgramShownInv /\ PausedInv /\ GuiFlow
  BY DEF IInv, ControlInv
<1>2. CASE BackendStep
  BY <1>1, <1>2, BackendType, BackendControl, BackendView, BackendBreakpoints,
     BackendProgramShown, BackendPaused DEF IInv
<1>3. CASE SlotStep
  BY <1>1, <1>3, SlotType, SlotControl, SlotView, SlotBreakpoints,
     SlotProgramShown, SlotPaused DEF IInv, SlotStep
<1>4. CASE DeliverStep
  BY <1>1, <1>4, DeliverType, DeliverControl, DeliverView, DeliverBreakpoints,
     DeliverProgramShown, DeliverPaused DEF IInv, DeliverStep
<1>5. CASE ClickStep
  BY <1>1, <1>5, ClickType, ClickControl, ClickView, ClickBreakpoints,
     ClickProgramShown, ClickPaused DEF IInv, ClickStep
<1>6. CASE UNCHANGED vars
  <2>1. TypeOK'
    BY <1>1, <1>6 DEF TypeOK, UnitTypeOK, CodeTypeOK, Rows, vars, unitVars, machine, thread, events, slotVars,
                      view, panels, codeVars
  <2>2. ControlInv'
    BY <1>1, <1>6 DEF ControlInv, GuiFlow, BackendFlow, NoBackendAfterJoin, AfterJoin, MachineInv, MachineOwned,
                      MachineExists, ProgramInv, ProgramExists, PublishedInv, vars, unitVars, machine, thread,
                      events, slotVars
  <2>3. ViewInv'
    BY <1>1, <1>6 DEF ViewInv, vars, unitVars, thread, events, slotVars, view
  <2>4. BreakpointInv'
    BY <1>1, <1>6, BreakpointsUntouched DEF vars, unitVars, view, codeVars
  <2>5. ProgramShownInv'
    BY <1>1, <1>6 DEF ProgramShownInv, Executes, Opening, BeforeLoad, ReadyWritten, MayAnnounce, ShowsProgram,
                      vars, unitVars, machine, thread, events, slotVars, view, codeVars
  <2>6. PausedInv'
    BY <1>1, <1>6, PanelsUntouched
       DEF PausedInv, RefreshPending, vars, unitVars, machine, thread, events, slotVars, view
  <2> QED BY <2>1, <2>2, <2>3, <2>4, <2>5, <2>6 DEF IInv
<1> QED BY <1>2, <1>3, <1>4, <1>5, <1>6 DEF Next, Halted

\* In every behaviour of the two threads the invariant holds.
THEOREM Invariant == Spec => []IInv
<1> QED BY InitInvariant, NextInvariant, PTL DEF Spec

-----------------------------------------------------------------------------
(* What follows from the invariant. *)

\* Every variable keeps its type: no SetState_ call returns to a label or
\* with a state the code does not have.
THEOREM TypeCorrect == Spec => []TypeOK
<1>1. IInv => TypeOK
  BY DEF IInv
<1> QED BY <1>1, Invariant, PTL

\* A published session has a machine, and active_machine_ dangles only while
\* the backend thread is inside CreateNewMachine_.
THEOREM MachineIsOwned == Spec => []MachineOwned
<1>1. IInv => MachineOwned
  BY DEF IInv, ControlInv, MachineInv
<1> QED BY <1>1, Invariant, PTL

\* No slot starts a thread, loads a file or configures peripherals while a
\* backend thread is there, whatever the two threads did before.
THEOREM SessionsAreExclusive == Spec => []Exclusive
<1>1. IInv => Exclusive
  BY DEF IInv, ControlInv, NoBackendAfterJoin, AfterJoin, Exclusive
<1> QED BY <1>1, Invariant, PTL

\* Once nothing is under way or queued the view shows the unit's state,
\* although events carry no state of their own.
THEOREM ViewIsConvergent == Spec => []ViewConverges
<1>1. IInv => ViewConverges
  BY DEF IInv, ViewInv, ViewConverges, Quiescent
<1> QED BY <1>1, Invariant, PTL

\* The emulator's breakpoints are those of the marked rows, for listings of
\* any length, whenever the GUI thread is between slots.
THEOREM BreakpointsAreSynchronised == Spec => []BreakpointsSync
<1>1. IInv => BreakpointsSync
  BY DEF IInv, BreakpointInv, BreakpointsSync
<1> QED BY <1>1, Invariant, PTL

\* While a file is on display, a running program the view knows of has its
\* Terminate button, whichever late events changed the view before.
THEOREM RunningIsStoppable == Spec => []RunningStoppable
<1>1. IInv => RunningStoppable
  BY DEF IInv, ViewInv, RunningStoppable
<1> QED BY <1>1, Invariant, PTL

\* While the buttons of a file are enabled, the rows are that file's own, or
\* none if its code cannot be listed, and a session executes it: for files of
\* every kind opened in any order, Disassemble failing where the machine's
\* constructor does or behind it.
THEOREM DisplayIsOfTheProgram == Spec => []DisplayedProgram
<1>1. IInv => DisplayedProgram
  BY DEF IInv, ProgramShownInv, Executes, Opening, ShowsProgram, RowsOf, SetStateLabels, DisplayedProgram
<1> QED BY <1>1, Invariant, PTL

\* Paused and at rest, registers, memory and highlighted row show the machine
\* as it is, after any mix of steps, continues and late events.
THEOREM PausedViewIsCurrent == Spec => []PausedViewCurrent
<1>1. IInv => PausedViewCurrent
  BY DEF IInv, PausedInv, RefreshPending, PanelsCurrent, PausedViewCurrent, Quiescent
<1> QED BY <1>1, Invariant, PTL

-----------------------------------------------------------------------------
(* The refinement of Session. *)

\* The initial states are initial states of the abstract session.
LEMMA InitSession == Init => Abstract!Init
  BY DEF Init, UnitInit, Abstract!Init

\* A step of the backend thread publishes, ends its session or is invisible.
LEMMA BackendSession ==
  ASSUME TypeOK, ControlInv, BackendStep
  PROVE  [Abstract!Next]_(Abstract!vars)
<1> USE DEF BackendStep, ControlInv, BackendFlow, Abstract!vars
<1>1. CASE WriteState
  <2>1. session # "none" /\ bset \in Abstract!Reports[session]
    BY <1>1 DEF WriteState, Abstract!Reports, TypeOK, UnitTypeOK
  <2>2. Abstract!Report
    BY <1>1, <2>1 DEF WriteState, Goto, Abstract!Report
  <2> QED BY <2>2 DEF Abstract!Next
<1>2. CASE CompareState
  <2>1. CASE state = bset /\ bret = "none"
    <3>1. session # "none" /\ state \in Abstract!Settled[session]
      BY <1>2, <2>1 DEF CompareState, Abstract!Settled, TypeOK, UnitTypeOK
    <3>2. Abstract!End
      BY <1>2, <2>1, <3>1 DEF CompareState, ReturnFromSetState, Abstract!End
    <3> QED BY <3>2 DEF Abstract!Next
  <2>2. CASE ~(state = bset /\ bret = "none")
    BY <1>2, <2>2 DEF CompareState, ReturnFromSetState, Goto
  <2> QED BY <2>1, <2>2
<1>3. CASE PostStateChanged
  <2>1. CASE bret = "none"
    <3>1. session # "none" /\ state \in Abstract!Settled[session]
      BY <1>3, <2>1 DEF PostStateChanged, PublishedInv, Abstract!Settled, TypeOK, UnitTypeOK
    <3>2. Abstract!End
      BY <1>3, <2>1, <3>1 DEF PostStateChanged, ReturnFromSetState, Abstract!End
    <3> QED BY <3>2 DEF Abstract!Next
  <2>2. CASE bret # "none"
    BY <1>3, <2>2 DEF PostStateChanged, ReturnFromSetState
  <2> QED BY <2>1, <2>2
<1>4. CASE ~(WriteState \/ CompareState \/ PostStateChanged)
  BY <1>4 DEF BackendNext, DeleteMachine, ConstructMachine, ConstructorThrows, ArmMachine, DebugContinue, LoopStep,
              LoopFaults, LoopEnds, CheckBreakpoint, LockEmitter, CallSetState, Goto
<1> QED BY <1>1, <1>2, <1>3, <1>4

\* A step of a slot terminates, loads, announces, begins or is invisible.
LEMMA SlotSession ==
  ASSUME TypeOK, ControlInv, SlotNext
  PROVE  [Abstract!Next]_(Abstract!vars)
<1> USE DEF ControlInv, Abstract!vars
<1>1. CASE GuiWriteState
  <2>1. binary # NoFile
    BY <1>1 DEF GuiWriteState, ProgramInv, ProgramExists
  <2>2. CASE gset = "kTerminated"
    <3>1. Abstract!Terminate
      BY <1>1, <2>1, <2>2 DEF GuiWriteState, thread, Abstract!Terminate
    <3> QED BY <3>1 DEF Abstract!Next
  <2>3. CASE gset = "kReady"
    <3>1. session = "none"
      BY <1>1, <2>3 DEF GuiWriteState, GuiFlow, SetStateLabels, NoBackendAfterJoin, AfterJoin, BackendFlow
    <3>2. Abstract!Ready
      BY <1>1, <2>1, <2>3, <3>1 DEF GuiWriteState, thread, Abstract!Ready
    <3> QED BY <3>2 DEF Abstract!Next
  <2> QED BY <1>1, <2>2, <2>3 DEF GuiWriteState, GuiFlow, SetStateLabels
<1>2. CASE StartBackend
  <2>1. bpc = "none" /\ session = "none"
    BY <1>2 DEF StartBackend, NoBackendAfterJoin, AfterJoin, BackendFlow
  <2>2. binary # NoFile
    BY <1>2 DEF StartBackend, ProgramInv, ProgramExists, GuiFlow
  <2>3. Abstract!Begin
    BY <1>2, <2>1, <2>2 DEF StartBackend, PublishedInv, Abstract!Begin, Abstract!Executing
  <2> QED BY <2>3 DEF Abstract!Next
<1>3. CASE LoadElfFile
  <2>1. session = "none"
    BY <1>3 DEF LoadElfFile, NoBackendAfterJoin, AfterJoin, BackendFlow
  <2>2. Abstract!Load
    BY <1>3, <2>1 DEF LoadElfFile, thread, Abstract!Load
  <2> QED BY <2>2 DEF Abstract!Next
<1>4. CASE ~(GuiWriteState \/ StartBackend \/ LoadElfFile)
  BY <1>4 DEF SlotNext, unitVars, thread, GuiCompareState, GuiLockEmitter, GuiNotify, GuiRefresh, Delivered,
              CheckTerminated, Terminate, Join, Stepped, LoadFails, Disassemble, Configure
<1> QED BY <1>1, <1>2, <1>3, <1>4

\* Neither clicks nor delivered events are visible to the abstract session.
LEMMA ClickSession == Clicks \/ HandlePosted => UNCHANGED Abstract!vars
  BY DEF Abstract!vars, Clicks, HandlePosted, unitVars, thread, ClickRun, ClickContinue, ClickTerminate, DebugStep,
         StepInstruction, StepFaults, StepOnStopped, OpenFile, OpenConfigurationJson, Quit, ToggleBreakpoint,
         RemoveAllBreakpoints

\* The unit and its two threads, with clicks at any moment, implement the
\* abstract session: one at a time, on a program that stays in place.
THEOREM RefinesSession == Spec => ImplementsSession
<1>1. IInv /\ [Next]_vars => [Abstract!Next]_(Abstract!vars)
  <2> SUFFICES ASSUME IInv, [Next]_vars PROVE [Abstract!Next]_(Abstract!vars)
    OBVIOUS
  <2>1. TypeOK /\ ControlInv
    BY DEF IInv
  <2>2. CASE BackendStep
    BY <2>1, <2>2, BackendSession
  <2>3. CASE SlotStep
    BY <2>1, <2>3, SlotSession DEF SlotStep
  <2>4. CASE DeliverStep \/ ClickStep
    BY <2>4, ClickSession DEF DeliverStep, ClickStep
  <2>5. CASE UNCHANGED vars
    BY <2>5 DEF vars, unitVars, thread, Abstract!vars
  <2> QED BY <2>2, <2>3, <2>4, <2>5 DEF Next, Halted
<1> QED BY <1>1, InitSession, Invariant, PTL DEF Spec, ImplementsSession, Abstract!Spec

=============================================================================
