-------------------------------- MODULE Gpio --------------------------------
(***************************************************************************)
(* The GPIO peripheral (src/plugins/peripheralsLibs/gpio): the ports'      *)
(* registers, written by the guest program and by the user who clicks on   *)
(* pins, and the panel that shows each pin's level and mode.               *)
(*                                                                         *)
(* GpioController lives in the GUI thread.  A pinStateChanged signal that  *)
(* the guest causes on the backend thread is queued for the GUI thread;    *)
(* one that is caused on the GUI thread (a click, a reset, a guest         *)
(* instruction executed by Step) reaches the panel at once.                *)
(*                                                                         *)
(* A register is the set of its bits that are 1; of a pin's four control   *)
(* bits only whether MD is 00 is kept.  A register write is one step for   *)
(* each bit of its loop, and a click is three steps: the pin's level is    *)
(* read, the input register is loaded, and it is stored with one bit       *)
(* changed.  A register's update and its signal are one step: a step of    *)
(* the other thread between the two has the effect of one after both.      *)
(***************************************************************************)
EXTENDS Naturals, Sequences, FiniteSetsExt

CONSTANTS
  Ports,     \* ports the guest uses, out of 0..2
  Half,      \* kReg_CTL_Pin_Count, pins that one control register controls
  Words,     \* words the guest writes, as sets of bits
  MaxEvents  \* bound: the guest pauses while this many signals are queued

ASSUME GpioAssumption ==
  /\ Ports \subseteq 0..2 /\ Half \in Nat \ {0} /\ MaxEvents \in Nat
  /\ Words \subseteq SUBSET (0..4 * Half - 1)

VARIABLES
  ctl,      \* _reg_CTL0 and _reg_CTL1: the mode of each pin
  istat,    \* _reg_ISTAT
  octl,     \* _reg_OCTL
  panel,    \* level and mode the panel shows for each pin of the three rows
  signals,  \* pinStateChanged signals queued for the GUI thread
  op,       \* the register write in progress, NoOp between instructions
  click,    \* the click the GUI thread is handling, NoClick in the Qt loop
  session,  \* "none", "running" on the backend thread, or "paused"
  fresh     \* no write and no click since the last reset

vars == <<ctl, istat, octl, panel, signals, op, click, session, fresh>>

PinCount == 2 * Half    \* kPin_Count
RegSize == 4 * Half     \* kReg_Size
Bits == 0..RegSize - 1
Modes == {"INPUT", "OUTPUT"}

\* Mutant: pins that count from 1.
PinFromOne(port, n) == port * PinCount + n - 1

\* The panel's number of a port's pin.
Pin(port, n) == port * PinCount + n

PanelPins == 0..3 * PinCount - 1

NoOp == [reg |-> "none"]
WriteOps == [reg : {"CTL0", "CTL1", "OCTL", "BOP", "BC"}, port : Ports, word : SUBSET Bits,
             rest : SUBSET Bits, thread : {"backend", "gui"}]

NoClick == [at |-> "none"]
ClickRecords == [at : {"read", "loaded"}, port : Ports, pin : 0..PinCount - 1,
                 high : BOOLEAN, word : SUBSET Bits]

PinState == [level : BOOLEAN, mode : Modes]
LowInput == [level |-> FALSE, mode |-> "INPUT"]

TypeOK ==
  /\ ctl \in [Ports -> [0..PinCount - 1 -> Modes]]
  /\ istat \in [Ports -> SUBSET Bits]
  /\ octl \in [Ports -> SUBSET (0..PinCount - 1)]
  /\ panel \in [PanelPins -> PinState]
  /\ signals \in Seq([pin : Nat, state : PinState])
  /\ op \in WriteOps \cup {NoOp}
  /\ click \in ClickRecords \cup {NoClick}
  /\ session \in {"none", "running", "paused"}
  /\ fresh \in BOOLEAN

ResetRegisters ==
  /\ ctl' = [port \in Ports |-> [n \in 0..PinCount - 1 |-> "INPUT"]]
  /\ istat' = [port \in Ports |-> {}]
  /\ octl' = [port \in Ports |-> {}]

Init ==
  /\ ctl = [port \in Ports |-> [n \in 0..PinCount - 1 |-> "INPUT"]]
  /\ istat = [port \in Ports |-> {}]
  /\ octl = [port \in Ports |-> {}]
  /\ panel = [p \in PanelPins |-> LowInput]
  /\ signals = <<>> /\ op = NoOp /\ click = NoClick /\ session = "none" /\ fresh = TRUE

-----------------------------------------------------------------------------
(* Pins as the registers describe them.  n may be any bit number: above      *)
(* Half, the mode comes from CTL1, whatever pin n is meant to be.            *)

getPinMode(c, n) == c[IF n < Half THEN n ELSE Half + (n % Half)]

\* c, i and o are a port's control, input and output registers.
getPinLevel(c, i, o, n) == IF getPinMode(c, n) = "INPUT" THEN n \in i ELSE n \in o

PinStateOf(c, i, o, n) == [level |-> getPinLevel(c, i, o, n), mode |-> getPinMode(c, n)]

-----------------------------------------------------------------------------
(* changePinState: what becomes of a signal, by the thread that emits it.    *)

\* The panel ignores the pins it has no row for.
Show(p, state) == IF p \in PanelPins THEN [panel EXCEPT ![p] = state] ELSE panel

ChangePinState(thread, p, state) ==
  IF thread = "gui"
    THEN panel' = Show(p, state) /\ UNCHANGED signals
    ELSE signals' = Append(signals, [pin |-> p, state |-> state]) /\ UNCHANGED panel

\* The GUI thread is neither inside a Step nor inside a click.
GuiIdle == click = NoClick /\ (op # NoOp => op.thread = "backend")

DeliverSignal ==
  /\ signals # <<>> /\ GuiIdle
  /\ panel' = Show(Head(signals).pin, Head(signals).state)
  /\ signals' = Tail(signals)
  /\ UNCHANGED <<ctl, istat, octl, op, click, session, fresh>>

-----------------------------------------------------------------------------
(* Register writes by the guest: on the backend thread while a session runs, *)
(* on the GUI thread when the user steps through a paused one.               *)

GuestThread == IF session = "paused" THEN "gui" ELSE "backend"

GuestMayWrite ==
  /\ session # "none" /\ op = NoOp
  /\ GuestThread = "gui" => GuiIdle
  /\ Len(signals) < MaxEvents

WriteISTAT(port, word) ==
  /\ GuestMayWrite
  /\ istat' = [istat EXCEPT ![port] = word]
  /\ fresh' = FALSE
  /\ UNCHANGED <<ctl, octl, panel, signals, op, click, session>>

\* The bits a write's loop visits: all of a plain register, those that are 1
\* of a bit operation.
LoopBits(reg, word) ==
  CASE reg \in {"CTL0", "CTL1"} -> 0..Half - 1
    [] reg = "OCTL" -> 0..PinCount - 1
    [] reg = "BOP" -> word
    [] reg = "BC" -> word \cap 0..PinCount - 1

BeginWrite(port, reg, word) ==
  /\ GuestMayWrite
  /\ LoopBits(reg, word) # {}
  /\ op' = [reg |-> reg, port |-> port, word |-> word, rest |-> LoopBits(reg, word),
            thread |-> GuestThread]
  /\ fresh' = FALSE
  /\ UNCHANGED <<ctl, istat, octl, panel, signals, click, session>>

\* The loop goes on to the next bit, and the write ends after the last one.
Advance(n) ==
  op' = IF op.rest = {n} THEN NoOp ELSE [op EXCEPT !.rest = @ \ {n}]

\* Mutant: the signal is sent when the new level is high, changed or not.
SignalIfHigh(before, after) == after.level

\* A signal is due when the level differs.
SignalDue(before, after) == before.level # after.level

\* Mutant: the mode change itself is not signalled.
ModeSignalIfLevel(before, after) == before.level # after.level

\* A control write signals a change of the mode.
ModeSignalDue(before, after) == before.mode # after.mode

\* Bit n of CTL0 or CTL1 stands for the control bits of one pin; they are 00,
\* an input, when it is not in the word.
WriteCtlBit(n) ==
  LET pin == IF op.reg = "CTL0" THEN n ELSE Half + n
      c == ctl[op.port]  i == istat[op.port]  o == octl[op.port]
      new == [c EXCEPT ![pin] = IF n \in op.word THEN "OUTPUT" ELSE "INPUT"]
  IN /\ op.reg \in {"CTL0", "CTL1"}
     /\ ctl' = [ctl EXCEPT ![op.port] = new]
     /\ IF ModeSignalDue(PinStateOf(c, i, o, pin), PinStateOf(new, i, o, pin))
          THEN ChangePinState(op.thread, Pin(op.port, pin), PinStateOf(new, i, o, pin))
          ELSE UNCHANGED <<panel, signals>>
     /\ UNCHANGED octl

\* OCTL, BC and the lower half of BOP: bit n is pin n.
WriteOutputBit(n) ==
  LET c == ctl[op.port]  i == istat[op.port]  o == octl[op.port]
      high == CASE op.reg = "OCTL" -> n \in op.word
                [] op.reg = "BOP" -> TRUE
                [] op.reg = "BC" -> FALSE
      new == IF high THEN o \cup {n} ELSE o \ {n}
  IN /\ op.reg \in {"OCTL", "BOP", "BC"} /\ n < PinCount
     /\ octl' = [octl EXCEPT ![op.port] = new]
     /\ IF SignalDue(PinStateOf(c, i, o, n), PinStateOf(c, i, new, n))
          THEN ChangePinState(op.thread, Pin(op.port, n), PinStateOf(c, i, new, n))
          ELSE UNCHANGED <<panel, signals>>
     /\ UNCHANGED ctl

\* The upper half of BOP clears pin n - PinCount, but the level before and
\* the signal are those of bit n.
ClearByBop(n) ==
  LET c == ctl[op.port]  i == istat[op.port]  o == octl[op.port]
      pin == n - PinCount
      new == o \ {pin}
      after == [level |-> getPinLevel(c, i, new, pin), mode |-> getPinMode(c, n)]
  IN /\ op.reg = "BOP" /\ n >= PinCount
     /\ octl' = [octl EXCEPT ![op.port] = new]
     /\ IF SignalDue(PinStateOf(c, i, o, n), after)
          THEN ChangePinState(op.thread, Pin(op.port, n), after)
          ELSE UNCHANGED <<panel, signals>>
     /\ UNCHANGED ctl

WriteBit ==
  /\ op # NoOp
  /\ LET n == Min(op.rest)
     IN /\ WriteCtlBit(n) \/ WriteOutputBit(n) \/ ClearByBop(n)
        /\ Advance(n)
  /\ UNCHANGED <<istat, click, session, fresh>>

-----------------------------------------------------------------------------
(* The GUI thread. *)

\* togglePinLevel, by a click on the pin, reads the level, whatever the mode.
TogglePinLevel(port, n) ==
  /\ GuiIdle
  /\ click' = [at |-> "read", port |-> port, pin |-> n, word |-> {},
               high |-> ~getPinLevel(ctl[port], istat[port], octl[port], n)]
  /\ fresh' = FALSE
  /\ UNCHANGED <<ctl, istat, octl, panel, signals, op, session>>

\* setPinLevel: an output cannot be set from here, an input register is
\* loaded as a whole.
SetPinLevel ==
  /\ click.at = "read"
  /\ click' = IF getPinMode(ctl[click.port], click.pin) = "OUTPUT"
                THEN NoClick
                ELSE [click EXCEPT !.at = "loaded", !.word = istat[click.port]]
  /\ UNCHANGED <<ctl, istat, octl, panel, signals, op, session, fresh>>

\* Mutant: the panel is told of the level the click has found.
ClickedLevel == ~click.high

\* The level the panel is told of.
NewLevel == click.high

\* The register goes back with the pin's bit set or reset.  The mode is read
\* again for the signal.
StorePinLevel ==
  /\ click.at = "loaded"
  /\ istat' = [istat EXCEPT ![click.port] =
                 IF click.high THEN click.word \cup {click.pin} ELSE click.word \ {click.pin}]
  /\ ChangePinState("gui", Pin(click.port, click.pin),
                    [level |-> NewLevel, mode |-> getPinMode(ctl[click.port], click.pin)])
  /\ click' = NoClick
  /\ UNCHANGED <<ctl, octl, op, session, fresh>>

\* resetPeripherals, when the last backend thread has been joined and before
\* the next one starts.
StartSession ==
  /\ session = "none" /\ GuiIdle
  /\ ResetRegisters
  /\ panel' = [p \in PanelPins |-> LowInput]
  /\ fresh' = TRUE
  /\ session' = "running"
  /\ UNCHANGED <<signals, op, click>>

\* The session is paused, continued or ended between two instructions; it is
\* the GUI thread that continues or ends a paused one.
ChangeSession ==
  /\ session # "none" /\ op = NoOp
  /\ session = "paused" => GuiIdle
  /\ session' \in {"none", "running", "paused"} \ {session}
  /\ UNCHANGED <<ctl, istat, octl, panel, signals, op, click, fresh>>

Next ==
  \/ DeliverSignal
  \/ \E port \in Ports, word \in Words : WriteISTAT(port, word)
  \/ \E port \in Ports, word \in Words, reg \in {"CTL0", "CTL1", "OCTL", "BOP", "BC"} :
       BeginWrite(port, reg, word)
  \/ WriteBit
  \/ \E port \in Ports, n \in 0..PinCount - 1 : TogglePinLevel(port, n)
  \/ SetPinLevel \/ StorePinLevel
  \/ StartSession \/ ChangeSession

Spec == Init /\ [][Next]_vars

-----------------------------------------------------------------------------
(* What the panel tells of a pin: the last queued signal, or else what is    *)
(* shown.                                                                    *)

Pending(p) == {k \in DOMAIN signals : signals[k].pin = p}

Told(p) == IF Pending(p) = {} THEN panel[p] ELSE signals[Max(Pending(p))].state

Informed(port, n) ==
  Told(Pin(port, n)) = PinStateOf(ctl[port], istat[port], octl[port], n)

\* The four ways in which a pin's picture goes stale: the guest writes the
\* input register, which signals nothing; the upper half of BOP signals by
\* the wrong pin; a signal emitted on the GUI thread is shown before one that
\* the backend thread queued earlier, which then replaces it; a click stores a
\* register the guest has written since, or to a pin the guest has made an output.
SilentWrite(port) == \E word \in Words : WriteISTAT(port, word)
WrongSignal == op # NoOp /\ op.reg = "BOP" /\ Min(op.rest) >= PinCount
Overtaking(p) == Pending(p) # {} /\ signals' = signals
StaleClick ==
  /\ click.at = "loaded"
  /\ \/ click.word # istat[click.port]
     \/ getPinMode(ctl[click.port], click.pin) = "OUTPUT"

\* Whatever the guest and the user do to the pins, in any interleaving with
\* the delivery of signals, the panel comes to show each pin's level and
\* mode: a step makes a correct picture (the one that the queued signals lead
\* to) incorrect only in the four ways above.
StaysInformed ==
  [][\A port \in Ports, n \in 0..PinCount - 1 :
       Informed(port, n) /\ ~Informed(port, n)' =>
         SilentWrite(port) \/ WrongSignal \/ Overtaking(Pin(port, n)) \/ StaleClick]_vars

\* GpioPort::reset has the comment "Reset all pins in GUI": while neither the
\* guest nor the user has touched a pin since, and no signal is queued, every
\* pin is shown as a low input.
ResetShown ==
  fresh /\ signals = <<>> => \A p \in PanelPins : panel[p] = LowInput
=============================================================================
