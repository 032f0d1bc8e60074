-------------------------------- MODULE Uart --------------------------------
(***************************************************************************)
(* The UART peripheral (src/plugins/peripheralsLibs/uart): the registers   *)
(* the guest program reads and writes, the buffer of characters the user   *)
(* has sent to it, and the text panel that shows what it has sent back.    *)
(*                                                                         *)
(* The user's slots run on the GUI thread, the guest's accesses on the     *)
(* backend thread, or on the GUI thread when the user steps through a      *)
(* paused session.  Neither takes a lock.  What a call still has to do is  *)
(* its thread's list in `todo'; an update of one flag of the status        *)
(* register is a load and a store, and the other thread may come between.  *)
(* An operation on the queue or on the text is one step.                   *)
(***************************************************************************)
EXTENDS Naturals, Sequences, SequencesExt

CONSTANTS
  Bytes,         \* characters
  LF, CR,        \* line feed and carriage return, as characters
  Messages,      \* messages the user enters
  DisplayModes,  \* display modes the user chooses from, "ASCII" among them
  MaxBuffer,     \* bound: the user waits while the buffer is longer
  MaxText,       \* bound: the guest waits while the text is longer
  MaxUpdates     \* bound: the guest waits while more updates are queued

ASSUME UartAssumption ==
  /\ {LF, CR} \subseteq Bytes /\ 0 \notin Bytes
  /\ Messages \subseteq Seq(Bytes)
  /\ DisplayModes \subseteq {"ASCII", "HEX", "DEC", "BIN"} /\ "ASCII" \in DisplayModes
  /\ MaxBuffer \in Nat /\ MaxText \in Nat /\ MaxUpdates \in Nat

VARIABLES
  stat,         \* Reg_STAT
  data,         \* Reg_DATA
  ctl0,         \* Reg_CTL0, its two enable bits
  writeBuffer,  \* _writeBuffer
  displayText,  \* _displayText
  displayMode,  \* _displayMode
  lineBreak,    \* _lineBreak
  shown,        \* the text in the panel, with the mode that formatted it
  updates,      \* displayTextUpdated signals queued for the GUI thread
  todo,         \* what is left of each thread's call
  session,      \* "none", "running" on the backend thread, or "paused"
  overlapped,   \* calls of both threads have overlapped since the last reset
  statWritten   \* the guest has written Reg_STAT since the last reset

registers == <<stat, data, ctl0>>
text      == <<displayText, displayMode, shown, updates>>
vars == <<registers, writeBuffer, text, lineBreak, todo, session, overlapped, statWritten>>

Threads == {"gui", "backend"}
Flags == {"RBNE", "TC", "TBE"}
Texts == DisplayModes \X Seq(Bytes)

\* The steps calls are made of.
Steps ==
  [do : {"set", "clear"}, arg : Flags] \cup [do : {"store"}, arg : SUBSET Flags] \cup
  [do : {"push", "show"}, arg : Bytes] \cup [do : {"check"}, arg : {"RBNE"}]

TypeOK ==
  /\ stat \in SUBSET Flags
  /\ data \in Bytes \cup {0}
  /\ ctl0 \in SUBSET {"REN", "TEN"}
  /\ writeBuffer \in Seq(Bytes)
  /\ displayText \in Seq(Bytes)
  /\ displayMode \in DisplayModes
  /\ lineBreak \in {"NONE", "LF", "CRLF"}
  /\ shown \in Texts
  /\ updates \in Seq(Texts)
  /\ todo \in [Threads -> Seq(Steps)]
  /\ session \in {"none", "running", "paused"}
  /\ overlapped \in BOOLEAN /\ statWritten \in BOOLEAN

ResetStat == {"TC", "TBE"}    \* kReset_Value_STAT

Init ==
  /\ stat = ResetStat /\ data = 0 /\ ctl0 = {}
  /\ writeBuffer = <<>>
  /\ displayText = <<>> /\ displayMode = "ASCII" /\ lineBreak = "LF"
  /\ shown = <<"ASCII", <<>>>> /\ updates = <<>>
  /\ todo = [t \in Threads |-> <<>>]
  /\ session = "none" /\ overlapped = FALSE /\ statWritten = FALSE

-----------------------------------------------------------------------------
(* The text panel. *)

\* _sendDisplayTextUpate on thread t: at once on the GUI thread, else queued.
SendDisplayTextUpdate(t, mode, chars) ==
  IF t = "gui" THEN shown' = <<mode, chars>> /\ UNCHANGED updates
               ELSE updates' = Append(updates, <<mode, chars>>) /\ UNCHANGED shown

DeliverUpdate ==
  /\ todo["gui"] = <<>> /\ updates # <<>>
  /\ shown' = Head(updates) /\ updates' = Tail(updates)
  /\ UNCHANGED <<registers, writeBuffer, displayText, displayMode, lineBreak, todo, session, statWritten>>

-----------------------------------------------------------------------------
(* Accesses by the guest. *)

GuestThread == IF session = "paused" THEN "gui" ELSE "backend"

GuestMayAccess ==
  /\ session # "none" /\ todo[GuestThread] = <<>>
  /\ Len(displayText) <= MaxText /\ Len(updates) <= MaxUpdates

Call(t, steps) == todo' = [todo EXCEPT ![t] = steps]

Step(do, arg) == [do |-> do, arg |-> arg]

\* Mutant: the transmitter stays busy.
DataWriteStaysBusy(b) ==
  CASE "TEN" \in ctl0 -> <<Step("clear", "TBE"), Step("show", b), Step("set", "TC")>>
    [] "TEN" \notin ctl0 /\ "REN" \in ctl0 -> <<Step("set", "RBNE")>>
    [] OTHER -> <<>>

\* _handleDataWrite, once b is in Reg_DATA.
HandleDataWrite(b) ==
  CASE "TEN" \in ctl0 ->
         <<Step("clear", "TBE"), Step("show", b), Step("set", "TC"), Step("set", "TBE")>>
    [] "TEN" \notin ctl0 /\ "REN" \in ctl0 -> <<Step("set", "RBNE")>>
    [] OTHER -> <<>>

WriteSTAT(flags) ==
  /\ GuestMayAccess
  /\ stat' = flags /\ statWritten' = TRUE
  /\ UNCHANGED <<data, ctl0, writeBuffer, text, lineBreak, todo, session>>

WriteDATA(b) ==
  /\ GuestMayAccess
  /\ data' = b
  /\ Call(GuestThread, HandleDataWrite(b))
  /\ UNCHANGED <<stat, ctl0, writeBuffer, text, lineBreak, session, statWritten>>

WriteCTL0(bits) ==
  /\ GuestMayAccess
  /\ ctl0' = bits
  /\ UNCHANGED <<stat, data, writeBuffer, text, lineBreak, todo, session, statWritten>>

\* _handleDataRead: the next character, and then a look whether it was the last.
ReadDATA ==
  /\ GuestMayAccess
  /\ "REN" \in ctl0
  /\ IF writeBuffer # <<>>
       THEN data' = Head(writeBuffer) /\ writeBuffer' = Tail(writeBuffer)
       ELSE UNCHANGED <<data, writeBuffer>>
  /\ Call(GuestThread, <<Step("check", "RBNE")>>)
  /\ UNCHANGED <<stat, ctl0, text, lineBreak, session, statWritten>>

\* Reading CTL0 as a receiver moves a character to Reg_DATA, by a data write.
\* The code pops it at the end of the call; until then the user's slots only
\* append to the queue, so that nobody can tell.
ReadCTL0 ==
  /\ GuestMayAccess
  /\ "REN" \in ctl0 /\ writeBuffer # <<>>
  /\ data' = Head(writeBuffer) /\ writeBuffer' = Tail(writeBuffer)
  /\ Call(GuestThread, HandleDataWrite(Head(writeBuffer)))
  /\ UNCHANGED <<stat, ctl0, text, lineBreak, session, statWritten>>

-----------------------------------------------------------------------------
(* The user's slots, between two calls of the GUI thread. *)

GuiIdle == todo["gui"] = <<>>

\* Mutant: the guest is not told that there is something to read.
PushOnly(chars) == [k \in DOMAIN chars |-> Step("push", chars[k])]

\* The characters go into the buffer one by one, then RBNE is set.
PushAll(chars) == Append([k \in DOMAIN chars |-> Step("push", chars[k])], Step("set", "RBNE"))

\* Mutant: the line break is sent with the NUL that ends its C string.
NulTerminated == [NONE |-> <<>>, LF |-> <<LF, 0>>, CRLF |-> <<CR, LF, 0>>]

LineBreakChars == [NONE |-> <<>>, LF |-> <<LF>>, CRLF |-> <<CR, LF>>]

TransmitToDevice(message) ==
  /\ GuiIdle /\ Len(writeBuffer) <= MaxBuffer
  /\ Call("gui", PushAll(message \o LineBreakChars[lineBreak]))
  /\ UNCHANGED <<registers, writeBuffer, text, lineBreak, session, statWritten>>

ChangeDisplayMode(mode) ==
  /\ GuiIdle
  /\ displayMode' = mode
  /\ SendDisplayTextUpdate("gui", mode, displayText)
  /\ UNCHANGED <<registers, writeBuffer, displayText, lineBreak, todo, session, statWritten>>

ChangeLineBreak(mode) ==
  /\ GuiIdle
  /\ lineBreak' = mode
  /\ UNCHANGED <<registers, writeBuffer, text, todo, session, statWritten>>

\* Mutant: the panel keeps the text that has been cleared.
ClearWithoutUpdate == UNCHANGED <<shown, updates>>

\* The update that clears the panel.
ClearUpdate == SendDisplayTextUpdate("gui", displayMode, <<>>)

ClearDisplayText ==
  /\ GuiIdle
  /\ displayText' = <<>>
  /\ ClearUpdate
  /\ UNCHANGED <<registers, writeBuffer, displayMode, lineBreak, todo, session, statWritten>>

-----------------------------------------------------------------------------
(* One step of a call of thread t. *)

Done(t) == todo' = [todo EXCEPT ![t] = Tail(@)]
Now(t, step) == todo[t] # <<>> /\ Head(todo[t]).do = step
Replace(t, step) == todo' = [todo EXCEPT ![t] = <<step>> \o Tail(@)]

LoadFlag(t) ==
  LET flag == Head(todo[t]).arg
  IN /\ \/ Now(t, "set") /\ Replace(t, Step("store", stat \cup {flag}))
        \/ Now(t, "clear") /\ Replace(t, Step("store", stat \ {flag}))
     /\ UNCHANGED <<registers, writeBuffer, text>>

StoreFlag(t) ==
  /\ Now(t, "store")
  /\ stat' = Head(todo[t]).arg
  /\ Done(t)
  /\ UNCHANGED <<data, ctl0, writeBuffer, text>>

CheckEmpty(t) ==
  /\ Now(t, "check")
  /\ IF writeBuffer = <<>> THEN Replace(t, Step("clear", "RBNE")) ELSE Done(t)
  /\ UNCHANGED <<registers, writeBuffer, text>>

PushChar(t) ==
  /\ Now(t, "push")
  /\ writeBuffer' = Append(writeBuffer, Head(todo[t]).arg)
  /\ Done(t)
  /\ UNCHANGED <<registers, text>>

\* _deviceReceivedFrame.
ShowChar(t) ==
  /\ Now(t, "show")
  /\ displayText' = Append(displayText, Head(todo[t]).arg)
  /\ SendDisplayTextUpdate(t, displayMode, displayText')
  /\ Done(t)
  /\ UNCHANGED <<registers, writeBuffer, displayMode>>

CallStep(t) ==
  /\ LoadFlag(t) \/ StoreFlag(t) \/ CheckEmpty(t) \/ PushChar(t) \/ ShowChar(t)
  /\ UNCHANGED <<lineBreak, session, statWritten>>

-----------------------------------------------------------------------------
\* Reset, by resetPeripherals: the last backend thread has been joined.
StartSession ==
  /\ session = "none" /\ GuiIdle
  /\ stat' = ResetStat /\ data' = 0 /\ ctl0' = {}
  /\ writeBuffer' = <<>>
  /\ displayText' = <<>>
  /\ SendDisplayTextUpdate("gui", displayMode, <<>>)
  /\ session' = "running" /\ statWritten' = FALSE /\ overlapped' = FALSE
  /\ UNCHANGED <<displayMode, lineBreak, todo>>

\* The session is paused, continued or ended between two accesses.
ChangeSession ==
  /\ session # "none" /\ todo[GuestThread] = <<>> /\ GuiIdle
  /\ session' \in {"none", "running", "paused"} \ {session}
  /\ UNCHANGED <<registers, writeBuffer, text, lineBreak, todo, statWritten>>

Guest ==
  \/ \E flags \in SUBSET Flags : WriteSTAT(flags)
  \/ \E b \in Bytes : WriteDATA(b)
  \/ \E bits \in SUBSET {"REN", "TEN"} : WriteCTL0(bits)
  \/ ReadDATA \/ ReadCTL0

User ==
  \/ \E message \in Messages : TransmitToDevice(message)
  \/ \E mode \in DisplayModes : ChangeDisplayMode(mode)
  \/ \E mode \in {"NONE", "LF", "CRLF"} : ChangeLineBreak(mode)
  \/ ClearDisplayText

Overlap == \A t \in Threads : todo[t] # <<>>

Next ==
  \/ /\ Guest \/ User \/ DeliverUpdate \/ ChangeSession \/ \E t \in Threads : CallStep(t)
     /\ overlapped' = (overlapped \/ Overlap')
  \/ StartSession

Spec == Init /\ [][Next]_vars

-----------------------------------------------------------------------------
(* Properties *)

\* The text the panel comes to show: the last queued update, or what it shows.
Told == IF updates = <<>> THEN shown ELSE Last(updates)

\* However the guest's characters, the user's mode changes and clears, and
\* resets interleave with the delivery of updates, the panel comes to show the
\* text in the chosen mode; a step spoils that only when an update from the GUI
\* thread is shown before one that the backend thread queued earlier.
StaysShown ==
  [][Told = <<displayMode, displayText>> /\ Told' # <<displayMode, displayText>>' =>
       updates # <<>> /\ updates' = updates]_vars

AtRest == \A t \in Threads : todo[t] = <<>>

\* With neither thread inside a call: a character that waits is announced by
\* RBNE, and the transmitter is ready.
StatusRight ==
  /\ writeBuffer # <<>> => "RBNE" \in stat
  /\ {"TC", "TBE"} \subseteq stat

\* As long as no call of the user has overlapped an access of the guest, and
\* the guest has not overwritten the status register, polling it works: no
\* message waits unnoticed, and no transmitter waits for itself.
StatusWithoutOverlap == AtRest /\ ~overlapped /\ ~statWritten => StatusRight

\* uart.cpp says of the flag that transmitToDevice sets, "Read data buffer not
\* empty", and of the one _handleDataRead clears, "read buffer IS empty".
\* So the flag tells the truth at rest, whatever overlapped before.
StatusTruthful == AtRest /\ ~statWritten => StatusRight
=============================================================================
