------------------------------ MODULE UartProofs ------------------------------
(***************************************************************************)
(* The UART peripheral, for any characters, messages and display modes:    *)
(* the types, the text that the panel comes to show, and the status        *)
(* register that the guest polls.                                          *)
(***************************************************************************)
EXTENDS Uart, TLAPS

-----------------------------------------------------------------------------
(* What is left of a call.                                                   *)

\* The constructors of steps.
LEMMA StepTypes ==
  /\ \A flag \in Flags : Step("set", flag) \in Steps /\ Step("clear", flag) \in Steps
  /\ \A flags \in SUBSET Flags : Step("store", flags) \in Steps
  /\ \A b \in Bytes : Step("push", b) \in Steps /\ Step("show", b) \in Steps
  /\ Step("check", "RBNE") \in Steps
BY DEF Step, Steps

\* What a step is applied to.
LEMMA StepArguments ==
  ASSUME NEW step \in Steps
  PROVE  /\ step.do \in {"set", "clear"} => step.arg \in Flags
         /\ step.do = "store" => step.arg \in SUBSET Flags
         /\ step.do \in {"push", "show"} => step.arg \in Bytes
         /\ step.do = "check" => step.arg = "RBNE"
BY DEF Steps

\* The first step of a call is replaced by another.
LEMMA ReplaceFirst ==
  ASSUME NEW S, NEW q \in Seq(S), q # <<>>, NEW x \in S
  PROVE  /\ <<x>> \o Tail(q) \in Seq(S) /\ Len(<<x>> \o Tail(q)) = Len(q)
         /\ (<<x>> \o Tail(q))[1] = x
         /\ \A k \in 2..Len(q) : (<<x>> \o Tail(q))[k] = q[k]
<1>1. <<x>> \in Seq(S) /\ Len(<<x>>) = 1 /\ <<x>>[1] = x
  OBVIOUS
<1>2. Tail(q) \in Seq(S) /\ Len(Tail(q)) = Len(q) - 1
  OBVIOUS
<1>3. \A k \in 2..Len(q) : Tail(q)[k - 1] = q[k]
  OBVIOUS
<1> QED
  BY <1>1, <1>2, <1>3

\* The characters of a line break.
LEMMA LineBreaks == lineBreak \in {"NONE", "LF", "CRLF"} => LineBreakChars[lineBreak] \in Seq(Bytes)
<1>1. <<>> \in Seq(Bytes) /\ <<LF>> \in Seq(Bytes) /\ <<CR, LF>> \in Seq(Bytes)
  BY UartAssumption
<1>2. /\ LineBreakChars["NONE"] = <<>> /\ LineBreakChars["LF"] = <<LF>>
      /\ LineBreakChars["CRLF"] = <<CR, LF>>
  BY DEF LineBreakChars
<1> QED
  BY <1>1, <1>2

\* A transmission of the user's.
LEMMA PushAllType ==
  ASSUME NEW chars \in Seq(Bytes)
  PROVE  /\ PushAll(chars) \in Seq(Steps)
         /\ Len(PushAll(chars)) = Len(chars) + 1
         /\ PushAll(chars)[Len(chars) + 1] = Step("set", "RBNE")
         /\ \A k \in 1..Len(chars) : PushAll(chars)[k].do = "push"
<1> DEFINE pushes == [k \in DOMAIN chars |-> Step("push", chars[k])]
<1>1. DOMAIN chars = 1..Len(chars) /\ Len(chars) \in Nat /\ \A k \in 1..Len(chars) : chars[k] \in Bytes
  OBVIOUS
<1>2. \A k \in 1..Len(chars) : Step("push", chars[k]) \in Steps
  BY <1>1, StepTypes
<1>3. \A k \in 1..Len(chars) : pushes[k].do = "push"
  BY <1>1 DEF Step
<1>4. Step("set", "RBNE") \in Steps
  BY StepTypes DEF Flags
<1>5. pushes \in Seq(Steps) /\ Len(pushes) = Len(chars)
  BY <1>1, <1>2
<1>6. PushAll(chars) = Append(pushes, Step("set", "RBNE"))
  BY DEF PushAll
<1> HIDE DEF pushes
<1> QED
  BY <1>1, <1>3, <1>4, <1>5, <1>6

\* What writing to the data register starts.
LEMMA HandleDataWriteCases ==
  ASSUME NEW b
  PROVE  /\ "TEN" \in ctl0 =>
              HandleDataWrite(b) = <<Step("clear", "TBE"), Step("show", b),
                                     Step("set", "TC"), Step("set", "TBE")>>
         /\ "TEN" \notin ctl0 /\ "REN" \in ctl0 => HandleDataWrite(b) = <<Step("set", "RBNE")>>
         /\ "TEN" \notin ctl0 /\ "REN" \notin ctl0 => HandleDataWrite(b) = <<>>
<1>1. "TEN" \in ctl0 =>
        HandleDataWrite(b) = <<Step("clear", "TBE"), Step("show", b),
                               Step("set", "TC"), Step("set", "TBE")>>
  BY DEF HandleDataWrite
<1>2. "TEN" \notin ctl0 /\ "REN" \in ctl0 => HandleDataWrite(b) = <<Step("set", "RBNE")>>
  BY DEF HandleDataWrite
<1>3. "TEN" \notin ctl0 /\ "REN" \notin ctl0 => HandleDataWrite(b) = <<>>
  BY DEF HandleDataWrite
<1> QED
  BY <1>1, <1>2, <1>3

\* It is made of steps.
LEMMA HandleDataWriteType ==
  ASSUME NEW b \in Bytes
  PROVE  HandleDataWrite(b) \in Seq(Steps)
<1>1. /\ Step("clear", "TBE") \in Steps /\ Step("show", b) \in Steps
      /\ Step("set", "TC") \in Steps /\ Step("set", "TBE") \in Steps /\ Step("set", "RBNE") \in Steps
  BY StepTypes DEF Flags
<1>2. <<Step("clear", "TBE"), Step("show", b), Step("set", "TC"), Step("set", "TBE")>> \in Seq(Steps)
  BY <1>1
<1>3. <<Step("set", "RBNE")>> \in Seq(Steps)
  BY <1>1
<1>4. <<>> \in Seq(Steps)
  OBVIOUS
<1> QED
  BY <1>2, <1>3, <1>4, HandleDataWriteCases
-----------------------------------------------------------------------------
(* The types.                                                                *)

\* An update is shown or queued.
LEMMA UpdateType ==
  ASSUME TypeOK, NEW t, NEW mode \in DisplayModes, NEW chars \in Seq(Bytes),
         SendDisplayTextUpdate(t, mode, chars)
  PROVE  shown' \in Texts /\ updates' \in Seq(Texts)
<1> DEFINE update == <<mode, chars>>
<1>1. shown \in Texts /\ updates \in Seq(Texts)
  BY DEF TypeOK
<1>2. update \in Texts
  BY DEF Texts
<1>3. \/ shown' = update /\ UNCHANGED updates
      \/ updates' = Append(updates, update) /\ UNCHANGED shown
  BY DEF SendDisplayTextUpdate
<1> HIDE DEF update
<1> QED
  BY <1>1, <1>2, <1>3

\* A thread's call starts.
LEMMA CallType ==
  ASSUME TypeOK, NEW t \in Threads, NEW steps \in Seq(Steps), Call(t, steps)
  PROVE  /\ todo' \in [Threads -> Seq(Steps)]
         /\ todo'[t] = steps /\ \A other \in Threads \ {t} : todo'[other] = todo[other]
BY DEF Call, TypeOK

\* What is left of a call is made of steps.
LEMMA TodoType ==
  ASSUME TypeOK, NEW t \in Threads, todo[t] # <<>>
  PROVE  Head(todo[t]) \in Steps /\ Tail(todo[t]) \in Seq(Steps)
<1>1. todo[t] \in Seq(Steps)
  BY DEF TypeOK
<1> QED
  BY <1>1

\* A step of a call leaves a call.
LEMMA LeftType ==
  ASSUME TypeOK, NEW t \in Threads, todo[t] # <<>>
  PROVE  /\ Done(t) =>
              /\ todo' \in [Threads -> Seq(Steps)]
              /\ todo'[t] = Tail(todo[t])
              /\ \A other \in Threads \ {t} : todo'[other] = todo[other]
         /\ \A step \in Steps : Replace(t, step) =>
              /\ todo' \in [Threads -> Seq(Steps)]
              /\ todo'[t] = <<step>> \o Tail(todo[t])
              /\ \A other \in Threads \ {t} : todo'[other] = todo[other]
<1>1. todo \in [Threads -> Seq(Steps)] /\ todo[t] \in Seq(Steps)
  BY DEF TypeOK
<1>2. Tail(todo[t]) \in Seq(Steps)
  BY TodoType
<1>3. \A step \in Steps : <<step>> \o Tail(todo[t]) \in Seq(Steps)
  BY <1>1, ReplaceFirst
<1> QED
  BY <1>1, <1>2, <1>3 DEF Done, Replace

\* What a step of a call does to the thread's list.
LEMMA StepOrDone ==
  ASSUME TypeOK, NEW t \in Threads, CallStep(t)
  PROVE  \E step \in Steps : Done(t) \/ Replace(t, step)
<1>1. /\ Step("clear", "RBNE") \in Steps
      /\ \A flags \in SUBSET Flags : Step("store", flags) \in Steps
  BY StepTypes DEF Flags
<1>2. CASE LoadFlag(t)
  <2>1. Head(todo[t]) \in Steps
    BY <1>2, TodoType DEF LoadFlag, Now
  <2>2. Head(todo[t]).arg \in Flags
    BY <1>2, <2>1, StepArguments DEF LoadFlag, Now
  <2>3. \A flag \in Flags : stat \cup {flag} \in SUBSET Flags /\ stat \ {flag} \in SUBSET Flags
    BY DEF TypeOK
  <2> QED
    BY <1>1, <1>2, <2>2, <2>3 DEF LoadFlag
<1>3. CASE Done(t)
  BY <1>1, <1>3
<1>4. CASE CheckEmpty(t) /\ ~Done(t)
  BY <1>1, <1>4 DEF CheckEmpty
<1> QED
  BY <1>2, <1>3, <1>4 DEF CallStep, StoreFlag, PushChar, ShowChar

\* The thread that runs the guest.
LEMMA GuestThreadType == GuestThread \in Threads
BY DEF GuestThread, Threads

\* An access of the guest keeps the types.
LEMMA GuestType ==
  ASSUME TypeOK, Guest, overlapped' \in BOOLEAN
  PROVE  TypeOK'
<1> USE GuestThreadType
<1>1. ASSUME NEW flags \in SUBSET Flags, WriteSTAT(flags)
      PROVE  TypeOK'
  BY <1>1 DEF WriteSTAT, TypeOK, text
<1>2. ASSUME NEW b \in Bytes, WriteDATA(b)
      PROVE  TypeOK'
  <2>1. todo' \in [Threads -> Seq(Steps)]
    BY <1>2, CallType, HandleDataWriteType DEF WriteDATA
  <2> QED
    BY <1>2, <2>1 DEF WriteDATA, TypeOK, text
<1>3. ASSUME NEW bits \in SUBSET {"REN", "TEN"}, WriteCTL0(bits)
      PROVE  TypeOK'
  BY <1>3 DEF WriteCTL0, TypeOK, text
<1>4. writeBuffer # <<>> => Head(writeBuffer) \in Bytes /\ Tail(writeBuffer) \in Seq(Bytes)
  BY DEF TypeOK
<1>5. CASE ReadDATA
  <2>1. <<Step("check", "RBNE")>> \in Seq(Steps)
    BY StepTypes
  <2>2. todo' \in [Threads -> Seq(Steps)]
    BY <1>5, <2>1, CallType DEF ReadDATA
  <2>3. data' \in Bytes \cup {0} /\ writeBuffer' \in Seq(Bytes)
    BY <1>4, <1>5 DEF ReadDATA, TypeOK
  <2> QED
    BY <1>5, <2>2, <2>3 DEF ReadDATA, TypeOK, text
<1>6. CASE ReadCTL0
  <2>1. todo' \in [Threads -> Seq(Steps)]
    BY <1>4, <1>6, CallType, HandleDataWriteType DEF ReadCTL0
  <2> QED
    BY <1>4, <1>6, <2>1 DEF ReadCTL0, TypeOK, text
<1> QED
  BY <1>1, <1>2, <1>3, <1>5, <1>6 DEF Guest

\* A slot of the user's keeps the types.
LEMMA UserType ==
  ASSUME TypeOK, User, overlapped' \in BOOLEAN
  PROVE  TypeOK'
<1>1. ASSUME NEW message \in Messages, TransmitToDevice(message)
      PROVE  TypeOK'
  <2>1. message \o LineBreakChars[lineBreak] \in Seq(Bytes)
    <3>1. message \in Seq(Bytes) /\ LineBreakChars[lineBreak] \in Seq(Bytes)
      BY UartAssumption, LineBreaks DEF TypeOK
    <3> QED
      BY <3>1
  <2>2. todo' \in [Threads -> Seq(Steps)]
    BY <1>1, <2>1, CallType, PushAllType DEF TransmitToDevice, Threads
  <2> QED
    BY <1>1, <2>2 DEF TransmitToDevice, TypeOK, text, registers
<1>2. ASSUME NEW mode \in DisplayModes, ChangeDisplayMode(mode)
      PROVE  TypeOK'
  <2>1. shown' \in Texts /\ updates' \in Seq(Texts)
    BY <1>2, UpdateType DEF ChangeDisplayMode, TypeOK
  <2> QED
    BY <1>2, <2>1 DEF ChangeDisplayMode, TypeOK, registers
<1>3. ASSUME NEW mode \in {"NONE", "LF", "CRLF"}, ChangeLineBreak(mode)
      PROVE  TypeOK'
  BY <1>3 DEF ChangeLineBreak, TypeOK, registers, text
<1>4. CASE ClearDisplayText
  <2>1. <<>> \in Seq(Bytes) /\ displayMode \in DisplayModes
    BY DEF TypeOK
  <2>2. shown' \in Texts /\ updates' \in Seq(Texts)
    BY <1>4, <2>1, UpdateType DEF ClearDisplayText, ClearUpdate
  <2> QED
    BY <1>4, <2>1, <2>2 DEF ClearDisplayText, TypeOK, registers
<1> QED
  BY <1>1, <1>2, <1>3, <1>4 DEF User

\* A step of a call keeps the types.
LEMMA CallStepType ==
  ASSUME TypeOK, NEW t \in Threads, CallStep(t), overlapped' \in BOOLEAN
  PROVE  TypeOK'
<1> DEFINE step == Head(todo[t])
<1>1. todo[t] # <<>>
  BY DEF CallStep, LoadFlag, StoreFlag, CheckEmpty, PushChar, ShowChar, Now
<1>2. step \in Steps
  BY <1>1, TodoType
<1>3. CASE LoadFlag(t)
  <2>1. step.arg \in Flags
    BY <1>2, <1>3, StepArguments DEF LoadFlag, Now
  <2>2. PICK flags \in SUBSET Flags : Replace(t, Step("store", flags))
    <3>1. stat \cup {step.arg} \in SUBSET Flags /\ stat \ {step.arg} \in SUBSET Flags
      BY <2>1 DEF TypeOK
    <3> QED
      BY <1>3, <3>1 DEF LoadFlag
  <2>3. todo' \in [Threads -> Seq(Steps)]
    BY <1>1, <2>2, LeftType, StepTypes
  <2> QED
    BY <1>3, <2>3 DEF CallStep, LoadFlag, TypeOK, registers, text
<1>4. CASE StoreFlag(t)
  <2>1. step.arg \in SUBSET Flags
    BY <1>2, <1>4, StepArguments DEF StoreFlag, Now
  <2>2. todo' \in [Threads -> Seq(Steps)]
    BY <1>1, <1>4, LeftType DEF StoreFlag
  <2> QED
    BY <1>4, <2>1, <2>2 DEF CallStep, StoreFlag, TypeOK, text
<1>5. CASE CheckEmpty(t)
  <2>1. Step("clear", "RBNE") \in Steps
    BY StepTypes DEF Flags
  <2>2. todo' \in [Threads -> Seq(Steps)]
    BY <1>1, <1>5, <2>1, LeftType DEF CheckEmpty
  <2> QED
    BY <1>5, <2>2 DEF CallStep, CheckEmpty, TypeOK, registers, text
<1>6. CASE PushChar(t)
  <2>1. step.arg \in Bytes
    BY <1>2, <1>6, StepArguments DEF PushChar, Now
  <2>2. writeBuffer' \in Seq(Bytes)
    BY <1>6, <2>1 DEF PushChar, TypeOK
  <2>3. todo' \in [Threads -> Seq(Steps)]
    BY <1>1, <1>6, LeftType DEF PushChar
  <2> QED
    BY <1>6, <2>2, <2>3 DEF CallStep, PushChar, TypeOK, registers, text
<1>7. CASE ShowChar(t)
  <2>1. step.arg \in Bytes
    BY <1>2, <1>7, StepArguments DEF ShowChar, Now
  <2>2. displayText' \in Seq(Bytes) /\ displayMode \in DisplayModes
    BY <1>7, <2>1 DEF ShowChar, TypeOK
  <2>3. shown' \in Texts /\ updates' \in Seq(Texts)
    BY <1>7, <2>2, UpdateType DEF ShowChar
  <2>4. todo' \in [Threads -> Seq(Steps)]
    BY <1>1, <1>7, LeftType DEF ShowChar
  <2> QED
    BY <1>7, <2>2, <2>3, <2>4 DEF CallStep, ShowChar, TypeOK, registers
<1> QED
  BY <1>3, <1>4, <1>5, <1>6, <1>7 DEF CallStep

\* The reset at the start of a session keeps the types.
LEMMA StartSessionType ==
  ASSUME TypeOK, StartSession
  PROVE  TypeOK'
<1>1. <<>> \in Seq(Bytes) /\ displayMode \in DisplayModes
  BY DEF TypeOK
<1>2. shown' \in Texts /\ updates' \in Seq(Texts)
  BY <1>1, UpdateType DEF StartSession
<1> QED
  BY <1>1, <1>2 DEF StartSession, TypeOK, ResetStat, Flags

\* Every step keeps the types.
LEMMA UartTypesKept ==
  ASSUME TypeOK, [Next]_vars
  PROVE  TypeOK'
<1>1. ASSUME overlapped' \in BOOLEAN, DeliverUpdate
      PROVE  TypeOK'
  <2>1. Head(updates) \in Texts /\ Tail(updates) \in Seq(Texts)
    BY <1>1 DEF DeliverUpdate, TypeOK
  <2> QED
    BY <1>1, <2>1 DEF DeliverUpdate, TypeOK, registers
<1>2. ASSUME overlapped' \in BOOLEAN, ChangeSession
      PROVE  TypeOK'
  BY <1>2 DEF ChangeSession, TypeOK, registers, text
<1>3. CASE StartSession
  BY <1>3, StartSessionType
<1>4. CASE UNCHANGED vars
  BY <1>4 DEF vars, TypeOK, registers, text
<1>5. ASSUME overlapped' = (overlapped \/ Overlap')
      PROVE  overlapped' \in BOOLEAN
  BY <1>5 DEF Overlap, TypeOK
<1> QED
  BY <1>1, <1>2, <1>3, <1>4, <1>5, GuestType, UserType, CallStepType DEF Next

\* The initial values have their types.
LEMMA UartTypesInitially == Init => TypeOK
<1>1. <<>> \in Seq(Bytes) /\ <<>> \in Seq(Texts) /\ <<>> \in Seq(Steps)
  OBVIOUS
<1>2. <<"ASCII", <<>>>> \in Texts
  BY <1>1, UartAssumption DEF Texts
<1> QED
  BY <1>1, <1>2, UartAssumption DEF Init, TypeOK, ResetStat, Flags

\* Every variable keeps its type; in particular Reg_DATA holds characters that
\* were written or sent, and the steps of a call are ones the code takes
\* (uart.cpp).
THEOREM UartTypeCorrect == Spec => []TypeOK
<1>1. TypeOK /\ [Next]_vars => TypeOK'
  BY UartTypesKept
<1> QED
  BY <1>1, UartTypesInitially, PTL DEF Spec
-----------------------------------------------------------------------------
(* The text the panel comes to show.                                         *)

\* An update is what the panel comes to show, unless it overtakes one.
LEMMA ToldAfterUpdate ==
  ASSUME TypeOK, NEW t, NEW mode, NEW chars, SendDisplayTextUpdate(t, mode, chars),
         ~(updates # <<>> /\ updates' = updates)
  PROVE  Told' = <<mode, chars>>
<1> DEFINE update == <<mode, chars>>
<1>1. updates \in Seq(Texts)
  BY DEF TypeOK
<1>2. \/ shown' = update /\ UNCHANGED updates
      \/ updates' = Append(updates, update) /\ UNCHANGED shown
  BY DEF SendDisplayTextUpdate
<1> HIDE DEF update
<1>3. updates' = Append(updates, update) => updates' # <<>> /\ Last(updates') = update
  BY <1>1 DEF Last
<1> QED
  BY <1>2, <1>3 DEF Told, update

\* Delivery changes nothing of what the panel comes to show.
LEMMA ToldAfterDelivery ==
  ASSUME TypeOK, DeliverUpdate
  PROVE  Told' = Told
<1>1. /\ updates \in Seq(Texts) /\ updates # <<>>
      /\ shown' = Head(updates) /\ updates' = Tail(updates)
  BY DEF DeliverUpdate, TypeOK
<1>2. CASE Len(updates) = 1
  BY <1>1, <1>2 DEF Told, Last
<1>3. CASE Len(updates) # 1
  <2>1. Len(updates) \in Nat /\ Len(updates) > 1 /\ Len(updates') = Len(updates) - 1
    <3>1. Len(updates) \in Nat /\ Len(updates) # 0
      BY <1>1
    <3>2. Len(updates') = Len(updates) - 1
      BY <1>1, <3>1
    <3> QED
      BY <1>3, <3>1, <3>2
  <2>2. updates' # <<>> /\ updates'[Len(updates')] = updates[Len(updates)]
    BY <1>1, <2>1
  <2> QED
    BY <1>1, <2>2 DEF Told, Last
<1> QED
  BY <1>2, <1>3

\* A step makes what the panel comes to show wrong only by overtaking.
LEMMA StepKeepsText ==
  ASSUME TypeOK, [Next]_vars, Told = <<displayMode, displayText>>,
         ~(updates # <<>> /\ updates' = updates)
  PROVE  Told' = <<displayMode, displayText>>'
<1>1. ASSUME UNCHANGED text
      PROVE  Told' = <<displayMode, displayText>>'
  BY <1>1 DEF text, Told
<1>2. ASSUME Guest
      PROVE  UNCHANGED text
  BY <1>2 DEF Guest, WriteSTAT, WriteDATA, WriteCTL0, ReadDATA, ReadCTL0
<1>3. CASE User
  <2>1. ASSUME NEW message \in Messages, TransmitToDevice(message)
        PROVE  UNCHANGED text
    BY <2>1 DEF TransmitToDevice
  <2>2. ASSUME NEW mode \in DisplayModes, ChangeDisplayMode(mode)
        PROVE  Told' = <<displayMode, displayText>>'
    BY <2>2, ToldAfterUpdate DEF ChangeDisplayMode
  <2>3. ASSUME NEW mode \in {"NONE", "LF", "CRLF"}, ChangeLineBreak(mode)
        PROVE  UNCHANGED text
    BY <2>3 DEF ChangeLineBreak
  <2>4. CASE ClearDisplayText
    BY <2>4, ToldAfterUpdate DEF ClearDisplayText, ClearUpdate
  <2> QED
    BY <1>1, <1>3, <2>1, <2>2, <2>3, <2>4 DEF User
<1>4. ASSUME NEW t \in Threads, CallStep(t)
      PROVE  Told' = <<displayMode, displayText>>'
  <2>1. LoadFlag(t) \/ StoreFlag(t) \/ CheckEmpty(t) \/ PushChar(t) => UNCHANGED text
    BY DEF LoadFlag, StoreFlag, CheckEmpty, PushChar
  <2>2. ASSUME ShowChar(t)
        PROVE  Told' = <<displayMode, displayText>>'
    <3>1. SendDisplayTextUpdate(t, displayMode, displayText') /\ displayMode' = displayMode
      BY <2>2 DEF ShowChar
    <3> QED
      BY <3>1, ToldAfterUpdate
  <2> QED
    BY <1>1, <1>4, <2>1, <2>2 DEF CallStep
<1>5. CASE DeliverUpdate
  BY <1>5, ToldAfterDelivery DEF DeliverUpdate
<1>6. CASE ChangeSession
  BY <1>1, <1>6 DEF ChangeSession
<1>7. CASE StartSession
  BY <1>7, ToldAfterUpdate DEF StartSession
<1>8. CASE UNCHANGED vars
  BY <1>1, <1>8 DEF vars
<1> QED
  BY <1>1, <1>2, <1>3, <1>4, <1>5, <1>6, <1>7, <1>8 DEF Next

\* The panel comes to show the text in the chosen mode, however the guest's
\* characters, the user's mode changes and clears, and resets interleave with
\* the delivery of updates, unless an update from the GUI thread overtakes one
\* that is queued (uart.cpp, _sendDisplayTextUpate).
THEOREM PanelStaysShown == Spec => StaysShown
<1>1. TypeOK /\ [Next]_vars => TypeOK'
  BY UartTypesKept
<1>2. TypeOK /\ [Next]_vars =>
        [Told = <<displayMode, displayText>> /\ Told' # <<displayMode, displayText>>' =>
           updates # <<>> /\ updates' = updates]_vars
  BY StepKeepsText
<1> QED
  BY <1>1, <1>2, UartTypesInitially, PTL DEF Spec, StaysShown
-----------------------------------------------------------------------------
(* The status register.                                                      *)

\* What is right at rest, of a status and a buffer.
RightFor(flags, chars) ==
  /\ chars # <<>> => "RBNE" \in flags
  /\ {"TC", "TBE"} \subseteq flags

\* What is left of the transmission of a character: TBE is cleared, the
\* character shown, TC set and TBE set.
Sending(q, flags, chars) ==
  \/ /\ Len(q) = 4 /\ q[2].do = "show"
     /\ q[3] = Step("set", "TC") /\ q[4] = Step("set", "TBE")
     /\ \/ q[1] = Step("clear", "TBE") /\ RightFor(flags, chars)
        \/ q[1].do = "store" /\ RightFor(q[1].arg \cup {"TBE"}, chars)
  \/ /\ Len(q) = 3 /\ q[1].do = "show"
     /\ q[2] = Step("set", "TC") /\ q[3] = Step("set", "TBE")
     /\ RightFor(flags \cup {"TBE"}, chars)
  \/ /\ Len(q) = 2 /\ q[2] = Step("set", "TBE")
     /\ \/ q[1] = Step("set", "TC") /\ RightFor(flags \cup {"TC", "TBE"}, chars)
        \/ q[1].do = "store" /\ RightFor(q[1].arg \cup {"TBE"}, chars)
  \/ /\ Len(q) = 1 /\ q[1] = Step("set", "TBE")
     /\ RightFor(flags \cup {"TBE"}, chars)

\* What is left of a read: RBNE is cleared when the buffer is empty.
Reading(q, flags, chars) ==
  /\ Len(q) = 1 /\ RightFor(flags, chars)
  /\ \/ q[1] = Step("check", "RBNE")
     \/ q[1] = Step("clear", "RBNE") /\ chars = <<>>

\* Characters are pushed and, whatever RBNE is by then, RBNE is set.
Filling(q, flags) ==
  /\ Len(q) > 0 /\ q[Len(q)] = Step("set", "RBNE")
  /\ \A k \in 1..Len(q) - 1 : q[k].do = "push"
  /\ {"TC", "TBE"} \subseteq flags

\* The last store of a call.
Storing(q, chars) ==
  Len(q) = 1 /\ q[1].do = "store" /\ RightFor(q[1].arg, chars)

\* A call that finds or leaves the status right when nothing comes between.
CallRight(q, flags, chars) ==
  \/ Len(q) = 0 /\ RightFor(flags, chars)
  \/ Sending(q, flags, chars) \/ Reading(q, flags, chars)
  \/ Filling(q, flags) \/ Storing(q, chars)

Other(t) == IF t = "gui" THEN "backend" ELSE "gui"

StatusInv ==
  /\ session # "running" => todo["backend"] = <<>>
  /\ ~overlapped => \E t \in Threads : todo[t] = <<>>
  /\ ~overlapped /\ ~statWritten =>
       \A t \in Threads : todo[Other(t)] = <<>> => CallRight(todo[t], stat, writeBuffer)

\* The parts of a step.
LEMMA StepFields == \A do, arg : Step(do, arg).do = do /\ Step(do, arg).arg = arg
BY DEF Step

\* Only the call that does nothing has no steps.
LEMMA NoSteps ==
  ASSUME NEW q \in Seq(Steps)
  PROVE  Len(q) \in Nat /\ (q = <<>> <=> Len(q) = 0)
OBVIOUS

\* A flag is loaded.
LEMMA LoadRight ==
  ASSUME NEW p \in Seq(Steps), NEW q \in Seq(Steps), NEW flags, NEW chars, NEW loaded,
         Len(p) > 0, CallRight(p, flags, chars),
         \/ p[1].do = "set" /\ loaded = flags \cup {p[1].arg}
         \/ p[1].do = "clear" /\ loaded = flags \ {p[1].arg},
         Len(q) = Len(p), q[1] = Step("store", loaded), \A k \in 2..Len(p) : q[k] = p[k]
  PROVE  CallRight(q, flags, chars)
<1>1. Len(p) \in Nat /\ q[1].do = "store" /\ q[1].arg = loaded
  BY StepFields, NoSteps
<1>2. CASE Sending(p, flags, chars)
  BY <1>1, <1>2, StepFields DEF Sending, Storing, CallRight, RightFor
<1>3. CASE Reading(p, flags, chars)
  BY <1>1, <1>3, StepFields DEF Reading, Storing, CallRight, RightFor
<1>4. CASE Filling(p, flags)
  <2>1. p[1].do # "push"
    OBVIOUS
  <2>2. Len(p) = 1 /\ p[1] = Step("set", "RBNE")
    BY <1>1, <1>4, <2>1 DEF Filling
  <2> QED
    BY <1>1, <1>4, <2>2, StepFields DEF Filling, Storing, CallRight, RightFor
<1>5. CASE Storing(p, chars)
  BY <1>5 DEF Storing
<1> QED
  BY <1>1, <1>2, <1>3, <1>4, <1>5 DEF CallRight

\* A step is done: a store, a look at the buffer, a push or a character shown.
LEMMA DoneRight ==
  ASSUME NEW p \in Seq(Steps), NEW q \in Seq(Steps), NEW flags, NEW chars,
         NEW flags1, NEW chars1, Len(p) > 0, CallRight(p, flags, chars),
         \/ p[1].do = "store" /\ flags1 = p[1].arg /\ chars1 = chars
         \/ p[1].do = "check" /\ flags1 = flags /\ chars1 = chars
         \/ p[1].do = "show" /\ flags1 = flags /\ chars1 = chars
         \/ p[1].do = "push" /\ flags1 = flags,
         Len(q) = Len(p) - 1, \A k \in 1..Len(q) : q[k] = p[k + 1]
  PROVE  CallRight(q, flags1, chars1)
<1>1. Len(p) \in Nat /\ Len(q) \in Nat
  BY NoSteps
<1>2. CASE Sending(p, flags, chars)
  BY <1>1, <1>2, StepFields DEF Sending, CallRight, RightFor
<1>3. CASE Reading(p, flags, chars)
  BY <1>1, <1>3, StepFields DEF Reading, CallRight, RightFor
<1>4. CASE Filling(p, flags)
  <2>1. p[Len(p)].do = "set"
    BY <1>4, StepFields DEF Filling
  <2>2. Len(p) # 1
    BY <2>1
  <2>3. p[1].do = "push" /\ flags1 = flags
    BY <1>1, <1>4, <2>2 DEF Filling
  <2>4. Len(q) > 0 /\ q[Len(q)] = p[Len(p)]
    BY <1>1, <2>2
  <2>5. \A k \in 1..Len(q) - 1 : q[k].do = "push"
    BY <1>1, <1>4 DEF Filling
  <2> QED
    BY <1>4, <2>3, <2>4, <2>5 DEF Filling, CallRight
<1>5. CASE Storing(p, chars)
  BY <1>1, <1>5 DEF Storing, CallRight
<1> QED
  BY <1>1, <1>2, <1>3, <1>4, <1>5 DEF CallRight

\* Step by step, a call that nothing comes between makes the status right.
LEMMA CallStepRight ==
  ASSUME TypeOK, NEW t \in Threads, CallStep(t), CallRight(todo[t], stat, writeBuffer)
  PROVE  CallRight(todo'[t], stat', writeBuffer')
<1>1. todo[t] \in Seq(Steps) /\ todo[t] # <<>> /\ Len(todo[t]) > 0 /\ Len(todo[t]) \in Nat
  <2>1. todo[t] \in Seq(Steps) /\ todo[t] # <<>>
    BY DEF TypeOK, CallStep, LoadFlag, StoreFlag, CheckEmpty, PushChar, ShowChar, Now
  <2> QED
    BY <2>1, NoSteps
<1>2. Head(todo[t]) = todo[t][1] /\ todo[t][1] \in Steps
  BY <1>1
<1>3. ASSUME Done(t)
      PROVE  /\ todo'[t] \in Seq(Steps) /\ Len(todo'[t]) = Len(todo[t]) - 1
             /\ \A k \in 1..Len(todo'[t]) : todo'[t][k] = todo[t][k + 1]
  <2>1. todo'[t] = Tail(todo[t])
    BY <1>1, <1>3, LeftType
  <2> QED
    BY <1>1, <2>1
<1>4. ASSUME NEW step \in Steps, Replace(t, step)
      PROVE  /\ todo'[t] \in Seq(Steps) /\ Len(todo'[t]) = Len(todo[t])
             /\ todo'[t][1] = step
             /\ \A k \in 2..Len(todo[t]) : todo'[t][k] = todo[t][k]
  <2>1. todo'[t] = <<step>> \o Tail(todo[t])
    BY <1>1, <1>4, LeftType
  <2> QED
    BY <1>1, <2>1, ReplaceFirst
<1>5. CASE LoadFlag(t)
  <2>1. stat' = stat /\ writeBuffer' = writeBuffer
    BY <1>5 DEF LoadFlag, registers
  <2>2. PICK loaded \in SUBSET Flags :
          /\ \/ todo[t][1].do = "set" /\ loaded = stat \cup {todo[t][1].arg}
             \/ todo[t][1].do = "clear" /\ loaded = stat \ {todo[t][1].arg}
          /\ Replace(t, Step("store", loaded))
    <3>1. todo[t][1].do \in {"set", "clear"} => todo[t][1].arg \in Flags
      BY <1>2, StepArguments
    <3>2. stat \in SUBSET Flags
      BY DEF TypeOK
    <3> QED
      BY <1>2, <1>5, <3>1, <3>2 DEF LoadFlag, Now
  <2>3. Step("store", loaded) \in Steps
    BY StepTypes
  <2> QED
    BY <1>1, <1>4, <2>1, <2>2, <2>3, LoadRight
<1>6. CASE StoreFlag(t)
  <2>1. /\ todo[t][1].do = "store" /\ stat' = todo[t][1].arg
        /\ writeBuffer' = writeBuffer /\ Done(t)
    BY <1>2, <1>6 DEF StoreFlag, Now
  <2> QED
    BY <1>1, <1>3, <2>1, DoneRight
<1>7. CASE CheckEmpty(t)
  <2>1. todo[t][1].do = "check" /\ stat' = stat /\ writeBuffer' = writeBuffer
    BY <1>2, <1>7 DEF CheckEmpty, Now, registers
  <2>2. CASE writeBuffer = <<>>
    <3>1. Replace(t, Step("clear", "RBNE")) /\ Step("clear", "RBNE") \in Steps
      BY <1>7, <2>2, StepTypes DEF CheckEmpty, Flags
    <3>2. Len(todo'[t]) = Len(todo[t]) /\ todo'[t][1] = Step("clear", "RBNE")
      BY <1>4, <3>1
    <3>3. Reading(todo[t], stat, writeBuffer)
      BY <1>1, <2>1, StepFields DEF CallRight, Sending, Filling, Storing
    <3> QED
      BY <2>1, <2>2, <3>2, <3>3 DEF Reading, CallRight
  <2>3. CASE writeBuffer # <<>>
    <3>1. Done(t)
      BY <1>7, <2>3 DEF CheckEmpty
    <3> QED
      BY <1>1, <1>3, <2>1, <3>1, DoneRight
  <2> QED
    BY <2>2, <2>3
<1>8. CASE PushChar(t)
  <2>1. todo[t][1].do = "push" /\ stat' = stat /\ Done(t)
    BY <1>2, <1>8 DEF PushChar, Now, registers
  <2> QED
    BY <1>1, <1>3, <2>1, DoneRight
<1>9. CASE ShowChar(t)
  <2>1. todo[t][1].do = "show" /\ stat' = stat /\ writeBuffer' = writeBuffer /\ Done(t)
    BY <1>2, <1>9 DEF ShowChar, Now, registers
  <2> QED
    BY <1>1, <1>3, <2>1, DoneRight
<1> QED
  BY <1>5, <1>6, <1>7, <1>8, <1>9 DEF CallStep
\* The two threads.
LEMMA TwoThreads ==
  ASSUME NEW t \in Threads
  PROVE  /\ Other(t) \in Threads /\ Other(t) # t /\ Other(Other(t)) = t
         /\ \A u \in Threads : u = t \/ u = Other(t)
BY DEF Threads, Other

\* With no steps left, and with none to take, the status is right.
LEMMA RightAtRest ==
  ASSUME NEW flags, NEW chars
  PROVE  CallRight(<<>>, flags, chars) <=> RightFor(flags, chars)
<1>1. Len(<<>>) = 0
  OBVIOUS
<1> QED
  BY <1>1 DEF CallRight, Sending, Reading, Filling, Storing

\* The calls begin rightly, once a character is popped or none is.
LEMMA HandleDataWriteRight ==
  ASSUME NEW b \in Bytes, NEW flags, NEW chars, RightFor(flags, chars)
  PROVE  CallRight(HandleDataWrite(b), flags, chars)
<1>1. CASE "TEN" \in ctl0
  <2> DEFINE q == <<Step("clear", "TBE"), Step("show", b), Step("set", "TC"), Step("set", "TBE")>>
  <2>1. HandleDataWrite(b) = q
    BY <1>1, HandleDataWriteCases
  <2>2. /\ Len(q) = 4 /\ q[1] = Step("clear", "TBE") /\ q[2] = Step("show", b)
        /\ q[3] = Step("set", "TC") /\ q[4] = Step("set", "TBE")
    OBVIOUS
  <2> HIDE DEF q
  <2>3. Sending(q, flags, chars)
    BY <2>2, StepFields DEF Sending
  <2> QED
    BY <2>1, <2>3 DEF CallRight
<1>2. CASE "TEN" \notin ctl0 /\ "REN" \in ctl0
  <2> DEFINE q == <<Step("set", "RBNE")>>
  <2>1. HandleDataWrite(b) = q
    BY <1>2, HandleDataWriteCases
  <2>2. Len(q) = 1 /\ q[1] = Step("set", "RBNE")
    OBVIOUS
  <2> HIDE DEF q
  <2>3. Filling(q, flags)
    BY <2>2 DEF Filling, RightFor
  <2> QED
    BY <2>1, <2>3 DEF CallRight
<1>3. CASE "TEN" \notin ctl0 /\ "REN" \notin ctl0
  BY <1>3, HandleDataWriteCases, RightAtRest
<1> QED
  BY <1>1, <1>2, <1>3

\* A call that starts, of a thread at rest, keeps the status right as long as
\* the other thread is at rest or the call has no steps.
LEMMA CallKeepsRight ==
  ASSUME TypeOK, StatusInv, ~overlapped, ~statWritten, ~Overlap',
         NEW t \in Threads, todo[t] = <<>>,
         NEW steps \in Seq(Steps), Call(t, steps), stat' = stat,
         RightFor(stat, writeBuffer) => CallRight(steps, stat, writeBuffer'),
         steps # <<>> \/ writeBuffer' = writeBuffer,
         NEW u \in Threads, todo'[Other(u)] = <<>>
  PROVE  CallRight(todo'[u], stat', writeBuffer')
<1>1. todo'[t] = steps /\ todo'[Other(t)] = todo[Other(t)]
  BY CallType, TwoThreads
<1>2. CASE todo[Other(t)] = <<>>
  <2>1. CallRight(todo[t], stat, writeBuffer)
    BY <1>2 DEF StatusInv
  <2>2. RightFor(stat, writeBuffer)
    BY <2>1, RightAtRest
  <2>3. CallRight(steps, stat', writeBuffer')
    BY <2>2
  <2>4. CASE u = t
    BY <1>1, <2>3, <2>4
  <2>5. CASE u = Other(t)
    <3>1. steps = <<>>
      BY <1>1, <2>5, TwoThreads
    <3> QED
      BY <1>1, <1>2, <2>3, <2>5, <3>1
  <2> QED
    BY <2>4, <2>5, TwoThreads
<1>3. CASE todo[Other(t)] # <<>>
  <2>1. u = Other(t)
    BY <1>1, <1>3, TwoThreads
  <2>2. CallRight(todo[u], stat, writeBuffer)
    BY <2>1, TwoThreads DEF StatusInv
  <2>3. steps = <<>>
    BY <1>1, <2>1, TwoThreads
  <2> QED
    BY <1>1, <2>1, <2>2, <2>3
<1> QED
  BY <1>2, <1>3

\* An access of the guest keeps the status right.
LEMMA GuestKeepsRight ==
  ASSUME TypeOK, StatusInv, Guest, ~overlapped, ~statWritten', ~Overlap',
         NEW u \in Threads, todo'[Other(u)] = <<>>
  PROVE  CallRight(todo'[u], stat', writeBuffer')
<1>1. GuestThread \in Threads /\ todo[GuestThread] = <<>>
  BY GuestThreadType
     DEF Guest, WriteSTAT, WriteDATA, WriteCTL0, ReadDATA, ReadCTL0, GuestMayAccess
<1>2. CASE \E flags \in SUBSET Flags : WriteSTAT(flags)
  BY <1>2 DEF WriteSTAT
<1>3. ASSUME NEW b \in Bytes, WriteDATA(b)
      PROVE  CallRight(todo'[u], stat', writeBuffer')
  <2>1. PICK steps \in Seq(Steps) : steps = HandleDataWrite(b)
    BY HandleDataWriteType
  <2>2. /\ Call(GuestThread, steps) /\ stat' = stat /\ writeBuffer' = writeBuffer /\ ~statWritten
    BY <1>3, <2>1 DEF WriteDATA
  <2>3. RightFor(stat, writeBuffer) => CallRight(steps, stat, writeBuffer')
    BY <2>1, <2>2, HandleDataWriteRight
  <2> QED
    BY <1>1, <2>2, <2>3, CallKeepsRight
<1>4. CASE \E bits \in SUBSET {"REN", "TEN"} : WriteCTL0(bits)
  <2>1. UNCHANGED <<todo, stat, writeBuffer, statWritten>>
    BY <1>4 DEF WriteCTL0
  <2> QED
    BY <2>1 DEF StatusInv
<1>5. CASE ReadDATA
  <2>1. PICK steps \in Seq(Steps) : steps = <<Step("check", "RBNE")>>
    <3>1. <<Step("check", "RBNE")>> \in Seq(Steps)
      BY StepTypes
    <3> QED
      BY <3>1
  <2>2. Len(steps) = 1 /\ steps[1] = Step("check", "RBNE") /\ steps # <<>>
    BY <2>1
  <2>3. Call(GuestThread, steps) /\ stat' = stat /\ ~statWritten
    BY <1>5, <2>1 DEF ReadDATA
  <2>4. writeBuffer' # <<>> => writeBuffer # <<>>
    BY <1>5 DEF ReadDATA
  <2>5. RightFor(stat, writeBuffer) => CallRight(steps, stat, writeBuffer')
    BY <2>2, <2>4 DEF RightFor, Reading, CallRight
  <2> QED
    BY <1>1, <2>2, <2>3, <2>5, CallKeepsRight
<1>6. CASE ReadCTL0
  <2>1. writeBuffer # <<>> /\ Head(writeBuffer) \in Bytes /\ "REN" \in ctl0
    BY <1>6 DEF ReadCTL0, TypeOK
  <2>2. PICK steps \in Seq(Steps) : steps = HandleDataWrite(Head(writeBuffer))
    BY <2>1, HandleDataWriteType
  <2>3. Call(GuestThread, steps) /\ stat' = stat /\ ~statWritten
    BY <1>6, <2>2 DEF ReadCTL0
  <2>4. steps # <<>>
    <3>1. /\ <<Step("clear", "TBE"), Step("show", Head(writeBuffer)),
               Step("set", "TC"), Step("set", "TBE")>> # <<>>
          /\ <<Step("set", "RBNE")>> # <<>>
      OBVIOUS
    <3> QED
      BY <2>1, <2>2, <3>1, HandleDataWriteCases
  <2>5. RightFor(stat, writeBuffer) => CallRight(steps, stat, writeBuffer')
    <3>1. RightFor(stat, writeBuffer) => RightFor(stat, writeBuffer')
      BY <2>1 DEF RightFor
    <3> QED
      BY <2>1, <2>2, <3>1, HandleDataWriteRight
  <2> QED
    BY <1>1, <2>3, <2>4, <2>5, CallKeepsRight
<1> QED
  BY <1>2, <1>3, <1>4, <1>5, <1>6 DEF Guest

\* A slot of the user's keeps the status right.
LEMMA UserKeepsRight ==
  ASSUME TypeOK, StatusInv, User, ~overlapped, ~statWritten', ~Overlap',
         NEW u \in Threads, todo'[Other(u)] = <<>>
  PROVE  CallRight(todo'[u], stat', writeBuffer')
<1>1. ASSUME UNCHANGED <<todo, stat, writeBuffer, statWritten>>
      PROVE  CallRight(todo'[u], stat', writeBuffer')
  BY <1>1 DEF StatusInv
<1>2. ASSUME NEW message \in Messages, TransmitToDevice(message)
      PROVE  CallRight(todo'[u], stat', writeBuffer')
  <2>1. PICK chars \in Seq(Bytes) : chars = message \o LineBreakChars[lineBreak]
    <3>1. message \in Seq(Bytes) /\ LineBreakChars[lineBreak] \in Seq(Bytes)
      BY UartAssumption, LineBreaks DEF TypeOK
    <3>2. message \o LineBreakChars[lineBreak] \in Seq(Bytes)
      BY <3>1
    <3> QED
      BY <3>2
  <2>2. PICK steps \in Seq(Steps) : steps = PushAll(chars)
    BY PushAllType
  <2>3. /\ Call("gui", steps) /\ todo["gui"] = <<>> /\ "gui" \in Threads
        /\ UNCHANGED <<stat, writeBuffer, statWritten>>
    BY <1>2, <2>1, <2>2 DEF TransmitToDevice, GuiIdle, registers, Threads
  <2>4. /\ Len(steps) > 0 /\ steps[Len(steps)] = Step("set", "RBNE")
        /\ \A k \in 1..Len(steps) - 1 : steps[k].do = "push"
    BY <2>2, PushAllType
  <2>5. RightFor(stat, writeBuffer) => CallRight(steps, stat, writeBuffer')
    BY <2>4 DEF RightFor, Filling, CallRight
  <2> QED
    BY <2>3, <2>5, CallKeepsRight
<1>3. ASSUME NEW mode \in DisplayModes, ChangeDisplayMode(mode)
      PROVE  UNCHANGED <<todo, stat, writeBuffer, statWritten>>
  BY <1>3 DEF ChangeDisplayMode, registers
<1>4. ASSUME NEW mode \in {"NONE", "LF", "CRLF"}, ChangeLineBreak(mode)
      PROVE  UNCHANGED <<todo, stat, writeBuffer, statWritten>>
  BY <1>4 DEF ChangeLineBreak, registers
<1>5. ASSUME ClearDisplayText
      PROVE  UNCHANGED <<todo, stat, writeBuffer, statWritten>>
  BY <1>5 DEF ClearDisplayText, registers
<1> QED
  BY <1>1, <1>2, <1>3, <1>4, <1>5 DEF User

\* A step of a call keeps the status right.
LEMMA StepKeepsRight ==
  ASSUME TypeOK, StatusInv, NEW t \in Threads, CallStep(t), ~overlapped, ~statWritten',
         NEW u \in Threads, todo'[Other(u)] = <<>>
  PROVE  CallRight(todo'[u], stat', writeBuffer')
<1>1. todo[t] # <<>> /\ ~statWritten
  BY DEF CallStep, LoadFlag, StoreFlag, CheckEmpty, PushChar, ShowChar, Now
<1>2. todo[Other(t)] = <<>>
  <2>1. PICK v \in Threads : todo[v] = <<>>
    BY DEF StatusInv
  <2> QED
    BY <1>1, <2>1, TwoThreads
<1>3. CallRight(todo'[t], stat', writeBuffer')
  BY <1>1, <1>2, CallStepRight DEF StatusInv
<1>4. todo'[Other(t)] = <<>>
  <2>1. PICK step \in Steps : Done(t) \/ Replace(t, step)
    BY StepOrDone
  <2> QED
    BY <1>1, <1>2, <2>1, LeftType, TwoThreads
<1>5. CASE u = t
  BY <1>3, <1>5
<1>6. CASE u = Other(t)
  BY <1>3, <1>4, <1>6, TwoThreads
<1> QED
  BY <1>5, <1>6, TwoThreads

\* The backend thread is inside a call only while the session runs on it.
LEMMA BackendAtRest ==
  ASSUME TypeOK, StatusInv, [Next]_vars, session' # "running"
  PROVE  todo'["backend"] = <<>>
<1>1. \A t, steps : Call(t, steps) /\ t \in Threads /\ t # "backend" /\ steps \in Seq(Steps)
        => todo'["backend"] = todo["backend"]
  BY CallType DEF Threads
<1>2. ASSUME Guest \/ User \/ DeliverUpdate \/ \E t \in Threads : CallStep(t)
      PROVE  session' = session
  BY <1>2 DEF Guest, WriteSTAT, WriteDATA, WriteCTL0, ReadDATA, ReadCTL0,
       User, TransmitToDevice, ChangeDisplayMode, ChangeLineBreak, ClearDisplayText,
       DeliverUpdate, CallStep
<1>3. ASSUME session' = session
      PROVE  todo["backend"] = <<>>
  BY <1>3 DEF StatusInv
<1>4. CASE Guest
  <2>1. session # "none" /\ session # "running"
    BY <1>2, <1>4
       DEF Guest, WriteSTAT, WriteDATA, WriteCTL0, ReadDATA, ReadCTL0, GuestMayAccess
  <2>2. GuestThread = "gui"
    BY <2>1 DEF TypeOK, GuestThread
  <2>3. todo' = todo \/ \E steps : Call(GuestThread, steps)
    BY <1>4 DEF Guest, WriteSTAT, WriteDATA, WriteCTL0, ReadDATA, ReadCTL0
  <2> QED
    BY <1>2, <1>3, <1>4, <2>2, <2>3 DEF Call, TypeOK, Threads
<1>5. CASE User
  <2>1. todo' = todo \/ \E steps : Call("gui", steps)
    BY <1>5 DEF User, TransmitToDevice, ChangeDisplayMode, ChangeLineBreak, ClearDisplayText
  <2> QED
    BY <1>2, <1>3, <1>5, <2>1 DEF Call, TypeOK, Threads
<1>6. CASE DeliverUpdate
  BY <1>2, <1>3, <1>6 DEF DeliverUpdate
<1>7. CASE ChangeSession
  <2>1. todo["gui"] = <<>> /\ todo[GuestThread] = <<>> /\ todo' = todo
    BY <1>7 DEF ChangeSession, GuiIdle
  <2> QED
    BY <2>1 DEF GuestThread, StatusInv
<1>8. ASSUME NEW t \in Threads, CallStep(t)
      PROVE  todo'["backend"] = <<>>
  <2>1. todo["backend"] = <<>>
    BY <1>2, <1>3, <1>8
  <2>2. todo[t] # <<>>
    BY <1>8 DEF CallStep, LoadFlag, StoreFlag, CheckEmpty, PushChar, ShowChar, Now
  <2>3. PICK step \in Steps : Done(t) \/ Replace(t, step)
    BY <1>8, StepOrDone
  <2> QED
    BY <2>1, <2>2, <2>3, LeftType DEF Threads
<1>9. CASE StartSession
  BY <1>9 DEF StartSession
<1>10. CASE UNCHANGED vars
  BY <1>3, <1>10 DEF vars
<1> QED
  BY <1>4, <1>5, <1>6, <1>7, <1>8, <1>9, <1>10 DEF Next

\* Every step keeps the status right.
LEMMA StatusKept ==
  ASSUME TypeOK, StatusInv, [Next]_vars
  PROVE  StatusInv'
<1>1. session' # "running" => todo'["backend"] = <<>>
  BY BackendAtRest
<1>2. CASE StartSession
  <2>1. todo["backend"] = <<>> /\ todo["gui"] = <<>> /\ todo' = todo
    BY <1>2 DEF StartSession, StatusInv, GuiIdle
  <2>2. RightFor(stat', writeBuffer')
    BY <1>2 DEF StartSession, ResetStat, RightFor
  <2>3. \A t \in Threads : todo'[t] = <<>>
    BY <2>1 DEF Threads
  <2>4. \A t \in Threads : CallRight(todo'[t], stat', writeBuffer')
    BY <2>2, <2>3, RightAtRest
  <2>5. \E t \in Threads : todo'[t] = <<>>
    BY <2>3 DEF Threads
  <2> QED
    BY <1>1, <2>4, <2>5 DEF StatusInv
<1>3. CASE UNCHANGED vars
  BY <1>3 DEF vars, registers, StatusInv
<1>4. ASSUME Guest \/ User \/ DeliverUpdate \/ ChangeSession \/ \E t \in Threads : CallStep(t),
             overlapped' = (overlapped \/ Overlap')
      PROVE  StatusInv'
  <2>1. ~overlapped' => ~overlapped /\ ~Overlap'
    BY <1>4
  <2>2. ~overlapped' => \E t \in Threads : todo'[t] = <<>>
    BY <2>1 DEF Overlap
  <2>3. ASSUME ~overlapped', ~statWritten', NEW u \in Threads, todo'[Other(u)] = <<>>
        PROVE  CallRight(todo'[u], stat', writeBuffer')
    <3>1. CASE DeliverUpdate \/ ChangeSession
      <4>1. UNCHANGED <<todo, stat, writeBuffer, statWritten>>
        BY <3>1 DEF DeliverUpdate, ChangeSession, registers
      <4> QED
        BY <2>1, <2>3, <4>1 DEF StatusInv
    <3> QED
      BY <1>4, <2>1, <2>3, <3>1, GuestKeepsRight, UserKeepsRight, StepKeepsRight
  <2> QED
    BY <1>1, <2>2, <2>3 DEF StatusInv
<1> QED
  BY <1>2, <1>3, <1>4 DEF Next

\* As long as no call of the user has overlapped an access of the guest, and
\* the guest has not overwritten the status register, polling it works: with
\* neither thread inside a call RBNE announces the characters that wait and
\* the transmitter is ready (uart.cpp, the calls of setFlag and clearFlag).
THEOREM StatusRightWithoutOverlap == Spec => []StatusWithoutOverlap
<1>1. Init => StatusInv
  <2>1. RightFor(ResetStat, <<>>)
    BY DEF RightFor, ResetStat
  <2>2. CallRight(<<>>, ResetStat, <<>>)
    BY <2>1, RightAtRest
  <2> QED
    BY <2>2 DEF Init, StatusInv, Threads, Other
<1>2. TypeOK /\ StatusInv /\ [Next]_vars => TypeOK' /\ StatusInv'
  BY UartTypesKept, StatusKept
<1>3. StatusInv => StatusWithoutOverlap
  <2> SUFFICES ASSUME StatusInv, AtRest, ~overlapped, ~statWritten
               PROVE  StatusRight
    BY DEF StatusWithoutOverlap
  <2>1. todo["gui"] = <<>> /\ todo["backend"] = <<>>
    BY DEF AtRest, Threads
  <2>2. CallRight(<<>>, stat, writeBuffer)
    BY <2>1 DEF StatusInv, Threads, Other
  <2> QED
    BY <2>2, RightAtRest DEF RightFor, StatusRight
<1> QED
  BY <1>1, <1>2, <1>3, UartTypesInitially, PTL DEF Spec
===============================================================================
