------------------------------ MODULE GpioProofs ------------------------------
(***************************************************************************)
(* The GPIO peripheral, for any number of pins, any words the guest writes *)
(* and any number of queued signals: the types, and the ways in which the  *)
(* panel's picture of a pin can go wrong.                                  *)
(***************************************************************************)
EXTENDS Gpio, Numbers

-----------------------------------------------------------------------------
(* Pins.                                                                     *)

\* A write in progress has a bit to go on with, one that its loop visits.
OpInv ==
  op # NoOp =>
    /\ op.rest # {} /\ op.rest \subseteq Bits
    /\ op.reg \in {"CTL0", "CTL1"} => op.rest \subseteq 0..Half - 1
    /\ op.reg \in {"OCTL", "BC"} => op.rest \subseteq 0..PinCount - 1

\* Numbers of pins and bits.
LEMMA Counts ==
  /\ Half \in Nat \ {0} /\ PinCount \in Nat \ {0} /\ PinCount = Half + Half
  /\ RegSize = PinCount + PinCount
  /\ \A port \in Ports : port \in 0..2
BY GpioAssumption DEF PinCount, RegSize

\* A pin's control bits are its own, in CTL0 or in CTL1.
LEMMA ModeOfPin ==
  ASSUME NEW c, NEW n \in 0..PinCount - 1
  PROVE  getPinMode(c, n) = c[n]
<1>1. n < Half => getPinMode(c, n) = c[n]
  BY DEF getPinMode
<1>2. ASSUME ~(n < Half)
      PROVE  Half + (n % Half) = n
  <2>1. n - Half \in 0..Half - 1
    BY <1>2, Counts
  <2>2. (Half * 1 + (n - Half)) % Half = n - Half
    BY <2>1, Counts, UniqueDivision
  <2>3. Half * 1 + (n - Half) = n
    BY Counts
  <2> QED
    BY <2>2, <2>3, Counts
<1> QED
  BY <1>1, <1>2 DEF getPinMode

\* The mode of any bit number is one of the modes.
LEMMA ModeType ==
  ASSUME NEW c \in [0..PinCount - 1 -> Modes], NEW n \in Nat
  PROVE  getPinMode(c, n) \in Modes
<1>1. n % Half \in 0..Half - 1
  BY Counts, Divides
<1>2. Half + (n % Half) \in 0..PinCount - 1 /\ (n < Half => n \in 0..PinCount - 1)
  BY <1>1, Counts
<1> QED
  BY <1>2 DEF getPinMode

\* The panel has a row for each pin of a port, and no two pins share it.
LEMMA PinNumbers ==
  ASSUME NEW port \in Ports, NEW n \in 0..PinCount - 1
  PROVE  /\ Pin(port, n) \in PanelPins
         /\ \A other \in Ports, m \in 0..PinCount - 1 :
              Pin(other, m) = Pin(port, n) => other = port /\ m = n
<1>1. port \in 0..2 /\ PinCount \in Nat \ {0} /\ n \in 0..PinCount - 1
  BY Counts
<1>2. Pin(port, n) \in PanelPins
  <2>1. port = 0 \/ port = 1 \/ port = 2
    BY <1>1
  <2> QED
    BY <1>1, <2>1 DEF Pin, PanelPins
<1>3. ASSUME NEW other \in Ports, NEW m \in 0..PinCount - 1, Pin(other, m) = Pin(port, n)
      PROVE  other = port /\ m = n
  <2>1. other \in Nat /\ port \in Nat
    BY Counts
  <2>2. Pin(port, n) = PinCount * port + n /\ Pin(other, m) = PinCount * other + m
    BY <1>1, <2>1 DEF Pin
  <2>3. /\ (PinCount * port + n) % PinCount = n /\ (PinCount * port + n) \div PinCount = port
        /\ (PinCount * other + m) % PinCount = m /\ (PinCount * other + m) \div PinCount = other
    BY <1>1, <2>1, UniqueDivision
  <2> QED
    BY <1>3, <2>2, <2>3
<1> QED
  BY <1>2, <1>3

\* What the registers say of a bit is a pin's state.
LEMMA StateType ==
  ASSUME NEW c \in [0..PinCount - 1 -> Modes], NEW i, NEW o, NEW n \in Nat
  PROVE  PinStateOf(c, i, o, n) \in PinState
<1>1. getPinLevel(c, i, o, n) \in BOOLEAN
  <2>1. (n \in i) \in BOOLEAN /\ (n \in o) \in BOOLEAN
    OBVIOUS
  <2>2. getPinLevel(c, i, o, n) = (n \in i) \/ getPinLevel(c, i, o, n) = (n \in o)
    BY DEF getPinLevel
  <2> QED
    BY <2>1, <2>2
<1> QED
  BY <1>1, ModeType DEF PinStateOf, PinState

\* The loop's next bit is one that is left.
LEMMA NextBit ==
  ASSUME OpInv, op # NoOp
  PROVE  Min(op.rest) \in op.rest /\ Min(op.rest) \in Bits /\ Min(op.rest) \in Nat
<1>1. op.rest # {} /\ op.rest \subseteq Bits /\ Bits \subseteq Nat
  BY DEF OpInv, Bits
<1>2. \E x \in op.rest : \A y \in op.rest : x <= y
  BY <1>1, LeastElement
<1> QED
  BY <1>1, <1>2 DEF Min

\* The bits a loop visits are bits of the register it writes.
LEMMA LoopBitsType ==
  ASSUME NEW reg \in {"CTL0", "CTL1", "OCTL", "BOP", "BC"}, NEW word \in SUBSET Bits
  PROVE  /\ LoopBits(reg, word) \subseteq Bits
         /\ reg \in {"CTL0", "CTL1"} => LoopBits(reg, word) \subseteq 0..Half - 1
         /\ reg \in {"OCTL", "BC"} => LoopBits(reg, word) \subseteq 0..PinCount - 1
<1>1. reg = "CTL0" \/ reg = "CTL1" => LoopBits(reg, word) = 0..Half - 1
  BY DEF LoopBits
<1>2. reg = "OCTL" => LoopBits(reg, word) = 0..PinCount - 1
  BY DEF LoopBits
<1>3. reg = "BOP" => LoopBits(reg, word) = word
  BY DEF LoopBits
<1>4. reg = "BC" => LoopBits(reg, word) = word \cap 0..PinCount - 1
  BY DEF LoopBits
<1>5. 0..Half - 1 \subseteq Bits /\ 0..PinCount - 1 \subseteq Bits
  BY Counts DEF Bits
<1> QED
  BY <1>1, <1>2, <1>3, <1>4, <1>5

-----------------------------------------------------------------------------
(* The types.                                                                *)

GpioInv == TypeOK /\ OpInv

\* A signal is shown in a row of the panel, or queued.
LEMMA SignalType ==
  ASSUME TypeOK, NEW thread, NEW p \in Nat, NEW state \in PinState,
         ChangePinState(thread, p, state)
  PROVE  panel' \in [PanelPins -> PinState] /\ signals' \in Seq([pin : Nat, state : PinState])
<1>1. panel \in [PanelPins -> PinState] /\ signals \in Seq([pin : Nat, state : PinState])
  BY DEF TypeOK
<1>2. Show(p, state) \in [PanelPins -> PinState]
  BY <1>1 DEF Show
<1> DEFINE Queued == [pin : Nat, state : PinState]
           signal == [pin |-> p, state |-> state]
<1>3. signal \in Queued
  OBVIOUS
<1>4. \/ panel' = Show(p, state) /\ UNCHANGED signals
      \/ signals' = Append(signals, signal) /\ UNCHANGED panel
  BY DEF ChangePinState
<1> HIDE DEF Queued, signal
<1>5. signals \in Seq(Queued)
  BY <1>1 DEF Queued
<1>6. signals' \in Seq(Queued)
  BY <1>3, <1>4, <1>5
<1> QED
  BY <1>1, <1>2, <1>4, <1>6 DEF Queued

\* The write goes on with the bits that are left, or ends.
LEMMA AdvanceType ==
  ASSUME GpioInv, op # NoOp, Advance(Min(op.rest))
  PROVE  op' \in WriteOps \cup {NoOp} /\ OpInv'
<1> DEFINE n == Min(op.rest)
<1>1. op \in WriteOps /\ n \in op.rest
  BY NextBit DEF GpioInv, TypeOK
<1> HIDE DEF n
<1>2. CASE op.rest = {n}
  <2>1. op' = NoOp
    BY <1>2 DEF Advance, n
  <2> QED
    BY <2>1 DEF OpInv
<1>3. CASE op.rest # {n}
  <2>1. op' = [op EXCEPT !.rest = op.rest \ {n}]
    BY <1>3 DEF Advance, n
  <2>2. /\ op'.rest = op.rest \ {n} /\ op'.rest # {}
        /\ op'.reg = op.reg /\ op' \in WriteOps
    BY <1>1, <1>3, <2>1 DEF WriteOps
  <2> QED
    BY <2>2 DEF GpioInv, OpInv
<1> QED
  BY <1>2, <1>3

\* A bit of a register write.
LEMMA WriteBitType ==
  ASSUME GpioInv, WriteBit
  PROVE  GpioInv'
<1> DEFINE n == Min(op.rest)
           c == ctl[op.port]
           i == istat[op.port]
           o == octl[op.port]
<1>1. /\ TypeOK /\ op # NoOp /\ op \in WriteOps /\ op.port \in Ports
      /\ n \in Nat /\ n \in op.rest /\ n \in Bits
      /\ c \in [0..PinCount - 1 -> Modes] /\ i \in SUBSET Bits /\ o \in SUBSET (0..PinCount - 1)
  BY NextBit DEF WriteBit, GpioInv, TypeOK, WriteOps
<1>2. op' \in WriteOps \cup {NoOp} /\ OpInv'
  BY <1>1, AdvanceType DEF WriteBit
<1>3. \A m \in Nat : Pin(op.port, m) \in Nat
  BY <1>1, Counts DEF Pin
<1> HIDE DEF n
<1>4. CASE WriteCtlBit(n)
  <2> DEFINE pin == IF op.reg = "CTL0" THEN n ELSE Half + n
             new == [c EXCEPT ![pin] = IF n \in op.word THEN "OUTPUT" ELSE "INPUT"]
  <2>1. /\ op.reg \in {"CTL0", "CTL1"} /\ ctl' = [ctl EXCEPT ![op.port] = new] /\ UNCHANGED octl
        /\ \/ ChangePinState(op.thread, Pin(op.port, pin), PinStateOf(new, i, o, pin))
           \/ UNCHANGED <<panel, signals>>
    BY <1>4 DEF WriteCtlBit
  <2>2. n \in 0..Half - 1
    BY <1>1, <2>1 DEF GpioInv, OpInv
  <2>3. pin \in 0..PinCount - 1
    BY <2>2, Counts
  <2>4. new \in [0..PinCount - 1 -> Modes]
    BY <1>1, <2>3 DEF Modes
  <2> HIDE DEF pin, new
  <2>5. pin \in Nat /\ PinStateOf(new, i, o, pin) \in PinState
    BY <2>3, <2>4, StateType, Counts
  <2>6. panel' \in [PanelPins -> PinState] /\ signals' \in Seq([pin : Nat, state : PinState])
    BY <1>1, <1>3, <2>1, <2>5, SignalType DEF TypeOK
  <2>7. ctl' \in [Ports -> [0..PinCount - 1 -> Modes]]
    BY <1>1, <2>1, <2>4 DEF TypeOK
  <2> QED
    BY <1>1, <1>2, <2>1, <2>6, <2>7 DEF WriteBit, GpioInv, TypeOK
<1>5. ASSUME octl' \in [Ports -> SUBSET (0..PinCount - 1)], UNCHANGED ctl,
             NEW state \in PinState,
             \/ ChangePinState(op.thread, Pin(op.port, n), state)
             \/ UNCHANGED <<panel, signals>>
      PROVE  GpioInv'
  <2>1. panel' \in [PanelPins -> PinState] /\ signals' \in Seq([pin : Nat, state : PinState])
    BY <1>1, <1>3, <1>5, SignalType DEF TypeOK
  <2> QED
    BY <1>1, <1>2, <1>5, <2>1 DEF WriteBit, GpioInv, TypeOK
<1>6. CASE WriteOutputBit(n)
  <2>1. PICK new \in {o \cup {n}, o \ {n}} :
          /\ octl' = [octl EXCEPT ![op.port] = new] /\ UNCHANGED ctl
          /\ \/ ChangePinState(op.thread, Pin(op.port, n), PinStateOf(c, i, new, n))
             \/ UNCHANGED <<panel, signals>>
    BY <1>6 DEF WriteOutputBit
  <2>2. n \in 0..PinCount - 1
    BY <1>1, <1>6, Counts DEF WriteOutputBit
  <2>3. octl' \in [Ports -> SUBSET (0..PinCount - 1)]
    BY <1>1, <2>1, <2>2 DEF TypeOK
  <2>4. PinStateOf(c, i, new, n) \in PinState
    BY <1>1, StateType
  <2> QED
    BY <1>5, <2>1, <2>3, <2>4
<1>7. CASE ClearByBop(n)
  <2> DEFINE pin == n - PinCount
             new == o \ {pin}
             after == [level |-> getPinLevel(c, i, new, pin), mode |-> getPinMode(c, n)]
  <2>1. /\ n >= PinCount /\ octl' = [octl EXCEPT ![op.port] = new] /\ UNCHANGED ctl
        /\ \/ ChangePinState(op.thread, Pin(op.port, n), after)
           \/ UNCHANGED <<panel, signals>>
    BY <1>7 DEF ClearByBop
  <2>2. pin \in Nat
    BY <1>1, <2>1, Counts
  <2>3. octl' \in [Ports -> SUBSET (0..PinCount - 1)]
    BY <1>1, <2>1 DEF TypeOK
  <2>4. after \in PinState
    <3>1. PinStateOf(c, i, new, pin) \in PinState
      BY <1>1, <2>2, StateType
    <3>2. getPinLevel(c, i, new, pin) \in BOOLEAN
      BY <3>1 DEF PinStateOf, PinState
    <3>3. getPinMode(c, n) \in Modes
      BY <1>1, ModeType
    <3> QED
      BY <3>2, <3>3 DEF PinState
  <2> QED
    BY <1>5, <2>1, <2>3, <2>4
<1> QED
  BY <1>4, <1>6, <1>7 DEF WriteBit, n

\* The types, with a bit to write whenever a write is in progress, are kept.
LEMMA GpioKept ==
  ASSUME GpioInv, [Next]_vars
  PROVE  GpioInv'
<1>1. TypeOK /\ OpInv
  BY DEF GpioInv
<1>2. CASE DeliverSignal
  <2> DEFINE Queued == [pin : Nat, state : PinState]
  <2>1. Head(signals) \in Queued /\ Tail(signals) \in Seq(Queued)
    <3>1. signals \in Seq(Queued) /\ signals # <<>>
      BY <1>1, <1>2 DEF DeliverSignal, TypeOK
    <3> HIDE DEF Queued
    <3> QED
      BY <3>1
  <2>2. panel' \in [PanelPins -> PinState]
    BY <1>1, <1>2, <2>1 DEF DeliverSignal, Show, TypeOK
  <2> QED
    BY <1>1, <1>2, <2>1, <2>2 DEF DeliverSignal, GpioInv, TypeOK, OpInv
<1>3. ASSUME NEW port \in Ports, NEW word \in Words, WriteISTAT(port, word)
      PROVE  GpioInv'
  <2>1. word \in SUBSET Bits
    BY GpioAssumption DEF Bits, RegSize
  <2> QED
    BY <1>1, <1>3, <2>1 DEF WriteISTAT, GpioInv, TypeOK, OpInv
<1>4. ASSUME NEW port \in Ports, NEW word \in Words,
             NEW reg \in {"CTL0", "CTL1", "OCTL", "BOP", "BC"}, BeginWrite(port, reg, word)
      PROVE  GpioInv'
  <2>1. word \in SUBSET Bits
    BY GpioAssumption DEF Bits, RegSize
  <2>2. GuestThread \in {"backend", "gui"}
    BY DEF GuestThread
  <2>3. op' = [reg |-> reg, port |-> port, word |-> word, rest |-> LoopBits(reg, word),
               thread |-> GuestThread]
    BY <1>4 DEF BeginWrite
  <2>4. op' \in WriteOps
    BY <2>1, <2>2, <2>3, LoopBitsType DEF WriteOps
  <2>5. OpInv'
    BY <1>4, <2>1, <2>3, LoopBitsType DEF BeginWrite, OpInv
  <2> QED
    BY <1>1, <1>4, <2>4, <2>5 DEF BeginWrite, GpioInv, TypeOK
<1>5. CASE WriteBit
  BY <1>5, WriteBitType
<1>6. ASSUME NEW port \in Ports, NEW n \in 0..PinCount - 1, TogglePinLevel(port, n)
      PROVE  GpioInv'
  <2>1. PinStateOf(ctl[port], istat[port], octl[port], n) \in PinState
    BY <1>1, Counts, StateType DEF TypeOK
  <2>2. getPinLevel(ctl[port], istat[port], octl[port], n) \in BOOLEAN
    BY <2>1 DEF PinStateOf, PinState
  <2>3. click' \in ClickRecords
    BY <1>6, <2>2 DEF TogglePinLevel, ClickRecords
  <2> QED
    BY <1>1, <1>6, <2>3 DEF TogglePinLevel, GpioInv, TypeOK, OpInv
<1>7. CASE SetPinLevel
  <2>1. click \in ClickRecords
    BY <1>1, <1>7 DEF SetPinLevel, TypeOK, NoClick
  <2>2. istat[click.port] \in SUBSET Bits
    BY <1>1, <2>1 DEF TypeOK, ClickRecords
  <2>3. click' \in ClickRecords \cup {NoClick}
    BY <1>7, <2>1, <2>2 DEF SetPinLevel, ClickRecords
  <2> QED
    BY <1>1, <1>7, <2>3 DEF SetPinLevel, GpioInv, TypeOK, OpInv
<1>8. CASE StorePinLevel
  <2>1. click \in ClickRecords
    BY <1>1, <1>8 DEF StorePinLevel, TypeOK, NoClick
  <2>2. /\ click.port \in Ports /\ click.pin \in 0..PinCount - 1 /\ click.pin \in Nat
        /\ click.pin \in Bits /\ click.word \in SUBSET Bits /\ click.high \in BOOLEAN
    BY <2>1, Counts DEF ClickRecords, Bits
  <2>3. istat' \in [Ports -> SUBSET Bits]
    BY <1>1, <1>8, <2>2 DEF StorePinLevel, TypeOK
  <2>4. getPinMode(ctl[click.port], click.pin) \in Modes
    BY <1>1, <2>2, ModeType DEF TypeOK
  <2>5. Pin(click.port, click.pin) \in Nat
    BY <2>2, Counts DEF Pin
  <2> DEFINE state == [level |-> click.high, mode |-> getPinMode(ctl[click.port], click.pin)]
  <2>6. state \in PinState
    BY <2>2, <2>4 DEF PinState
  <2>7. ChangePinState("gui", Pin(click.port, click.pin), state)
    BY <1>8 DEF StorePinLevel, NewLevel
  <2>8. panel' \in [PanelPins -> PinState] /\ signals' \in Seq([pin : Nat, state : PinState])
    <3> HIDE DEF state
    <3> QED
      BY <1>1, <2>5, <2>6, <2>7, SignalType
  <2> QED
    BY <1>1, <1>8, <2>3, <2>8 DEF StorePinLevel, GpioInv, TypeOK, OpInv
<1>9. CASE StartSession
  BY <1>1, <1>9 DEF StartSession, ResetRegisters, GpioInv, TypeOK, OpInv, Modes, LowInput, PinState
<1>10. CASE ChangeSession
  BY <1>1, <1>10 DEF ChangeSession, GpioInv, TypeOK, OpInv
<1>11. CASE UNCHANGED vars
  BY <1>1, <1>11 DEF vars, GpioInv, TypeOK, OpInv
<1> QED
  BY <1>2, <1>3, <1>4, <1>5, <1>6, <1>7, <1>8, <1>9, <1>10, <1>11 DEF Next

\* Every variable keeps its type; in particular every bit that a register write
\* still has to visit is one of the register (gpioPort.cpp, the loops over bits).
THEOREM GpioTypeCorrect == Spec => []TypeOK
<1>1. Init => GpioInv
  BY DEF Init, GpioInv, TypeOK, OpInv, Modes, LowInput, PinState
<1>2. GpioInv /\ [Next]_vars => GpioInv'
  BY GpioKept
<1>3. GpioInv => TypeOK
  BY DEF GpioInv
<1> QED
  BY <1>1, <1>2, <1>3, PTL DEF Spec

-----------------------------------------------------------------------------
(* What the panel tells of a pin, or will when the queue is empty.           *)

\* A set has one greatest element.
LEMMA GreatestIs ==
  ASSUME NEW A \in SUBSET Nat, NEW k \in A, \A j \in A : j <= k
  PROVE  Max(A) = k
<1>1. \A x \in A : (\A j \in A : x >= j) => x = k
  OBVIOUS
<1>2. \E x \in A : \A j \in A : x >= j
  OBVIOUS
<1> QED
  BY <1>1, <1>2 DEF Max

\* The signals queued for a pin are numbered, and one of them is the last.
LEMMA LastPending ==
  ASSUME TypeOK, NEW p
  PROVE  /\ Pending(p) \in SUBSET (1..Len(signals))
         /\ Pending(p) # {} =>
              /\ Max(Pending(p)) \in Pending(p)
              /\ \A j \in Pending(p) : j <= Max(Pending(p))
<1> DEFINE Queued == [pin : Nat, state : PinState]
<1>1. signals \in Seq(Queued)
  BY DEF TypeOK
<1> HIDE DEF Queued
<1>2. Len(signals) \in Nat /\ DOMAIN signals = 1..Len(signals)
  BY <1>1
<1>3. Pending(p) \in SUBSET (1..Len(signals))
  BY <1>2 DEF Pending
<1>4. ASSUME Pending(p) # {}
      PROVE  /\ Max(Pending(p)) \in Pending(p)
             /\ \A j \in Pending(p) : j <= Max(Pending(p))
  <2>1. Pending(p) \in SUBSET (0..Len(signals)) /\ Pending(p) \in SUBSET Nat
    BY <1>2, <1>3
  <2>2. PICK k \in Pending(p) : \A j \in Pending(p) : k >= j
    BY <1>2, <1>4, <2>1, GreatestElement
  <2>3. \A j \in Pending(p) : j <= k
    BY <2>1, <2>2
  <2>4. Max(Pending(p)) = k
    BY <2>1, <2>3, GreatestIs
  <2> QED
    BY <2>3, <2>4
<1> QED
  BY <1>3, <1>4

\* A signal changes what is told of its pin, at once or as the last in the
\* queue, and of no other.
LEMMA ToldAfterSignal ==
  ASSUME TypeOK, NEW thread, NEW p \in PanelPins, NEW state,
         ChangePinState(thread, p, state)
  PROVE  /\ \A q \in PanelPins : q # p => Told(q)' = Told(q)
         /\ ~Overtaking(p) => Told(p)' = state
<1> DEFINE Queued == [pin : Nat, state : PinState]
           last == Len(signals) + 1
           signal == [pin |-> p, state |-> state]
<1>1. /\ signals \in Seq(Queued) /\ panel \in [PanelPins -> PinState]
      /\ Len(signals) \in Nat /\ DOMAIN signals = 1..Len(signals)
  BY DEF TypeOK
<1>2. CASE thread = "gui"
  <2>1. panel' = [panel EXCEPT ![p] = state] /\ signals' = signals
    BY <1>2 DEF ChangePinState, Show
  <2>2. \A q : Pending(q)' = Pending(q)
    BY <2>1 DEF Pending
  <2> QED
    BY <1>1, <2>1, <2>2 DEF Told, Overtaking
<1>3. CASE thread # "gui"
  <2>1. signals' = Append(signals, signal) /\ panel' = panel
    BY <1>3 DEF ChangePinState
  <2>2. signal.pin = p /\ signal.state = state
    OBVIOUS
  <2> HIDE DEF signal, Queued
  <2>3. /\ DOMAIN signals' = 1..last /\ signals'[last] = signal
        /\ \A k \in 1..Len(signals) : signals'[k] = signals[k]
    BY <1>1, <2>1
  <2>4. ASSUME NEW q \in PanelPins, q # p
        PROVE  Told(q)' = Told(q)
    <3>1. Pending(q)' = Pending(q)
      BY <1>1, <2>2, <2>3, <2>4 DEF Pending
    <3>2. Pending(q) # {} => Max(Pending(q)) \in 1..Len(signals)
      BY LastPending
    <3>3. Pending(q) # {} => signals'[Max(Pending(q))] = signals[Max(Pending(q))]
      BY <2>3, <3>2
    <3> QED
      BY <2>1, <3>1, <3>3 DEF Told
  <2>5. Told(p)' = state
    <3>1. last \in Pending(p)'
      BY <1>1, <2>2, <2>3 DEF Pending
    <3>2. Pending(p)' \in SUBSET Nat /\ \A j \in Pending(p)' : j <= last
      BY <1>1, <2>3 DEF Pending
    <3>3. Max(Pending(p)') = last
      BY <3>1, <3>2, GreatestIs
    <3>4. Pending(p)' # {} /\ Max(Pending(p))' = last
      BY <3>1, <3>3
    <3> QED
      BY <2>2, <2>3, <3>4 DEF Told
  <2> QED
    BY <2>4, <2>5
<1> QED
  BY <1>2, <1>3

\* Delivery of a signal changes nothing of what is told.
LEMMA ToldAfterDelivery ==
  ASSUME TypeOK, DeliverSignal, NEW p \in PanelPins
  PROVE  Told(p)' = Told(p)
<1> DEFINE Queued == [pin : Nat, state : PinState]
           rest == Pending(p)'
<1>1. signals \in Seq(Queued) /\ signals # <<>> /\ panel \in [PanelPins -> PinState]
  BY DEF DeliverSignal, TypeOK
<1>2. panel' = Show(signals[1].pin, signals[1].state) /\ signals' = Tail(signals)
  BY <1>1 DEF DeliverSignal
<1> HIDE DEF Queued
<1>3. /\ Len(signals) \in Nat \ {0} /\ DOMAIN signals = 1..Len(signals)
      /\ DOMAIN signals' = 1..Len(signals) - 1
      /\ \A k \in 1..Len(signals) - 1 : signals'[k] = signals[k + 1]
  BY <1>1, <1>2
<1>4. rest = {k \in 1..Len(signals) - 1 : signals[k + 1].pin = p}
  BY <1>3 DEF Pending
<1>5. Pending(p) = {k \in 1..Len(signals) : signals[k].pin = p}
  BY <1>3 DEF Pending
<1>6. panel'[p] = IF signals[1].pin = p THEN signals[1].state ELSE panel[p]
  BY <1>1, <1>2 DEF Show
<1>7. \A k \in Pending(p) : k = 1 \/ k - 1 \in rest
  BY <1>3, <1>4, <1>5
<1>8. CASE rest = {}
  <2>1. Told(p)' = panel'[p]
    BY <1>8 DEF Told
  <2>2. CASE signals[1].pin = p
    <3>1. 1 \in Pending(p) /\ Pending(p) \in SUBSET Nat /\ \A j \in Pending(p) : j <= 1
      BY <1>3, <1>5, <1>7, <1>8, <2>2
    <3>2. Max(Pending(p)) = 1
      BY <3>1, GreatestIs
    <3> QED
      BY <1>6, <2>1, <2>2, <3>1, <3>2 DEF Told
  <2>3. CASE signals[1].pin # p
    <3>1. Pending(p) = {}
      BY <1>5, <1>7, <1>8, <2>3
    <3> QED
      BY <1>6, <2>1, <2>3, <3>1 DEF Told
  <2> QED
    BY <2>2, <2>3
<1>9. CASE rest # {}
  <2> HIDE DEF rest
  <2>1. rest \in SUBSET (0..Len(signals)) /\ rest \in SUBSET Nat
    BY <1>3, <1>4
  <2>2. PICK k \in rest : \A j \in rest : k >= j
    BY <1>3, <1>9, <2>1, GreatestElement
  <2>3. \A j \in rest : j <= k
    BY <2>1, <2>2
  <2>4. Max(rest) = k
    BY <2>1, <2>3, GreatestIs
  <2>5. k + 1 \in Pending(p) /\ Pending(p) \in SUBSET Nat
    BY <1>3, <1>4, <1>5
  <2>6. \A j \in Pending(p) : j <= k + 1
    BY <1>7, <2>1, <2>3, <2>5
  <2>7. Max(Pending(p)) = k + 1
    BY <2>5, <2>6, GreatestIs
  <2>8. Told(p) = signals[k + 1].state
    BY <2>5, <2>7 DEF Told
  <2>9. Told(p)' = signals'[k].state
    BY <1>9, <2>4 DEF Told, rest
  <2> QED
    BY <1>3, <1>4, <2>8, <2>9
<1> QED
  BY <1>8, <1>9
-----------------------------------------------------------------------------
(* What keeps the panel's picture of a pin correct.                          *)

\* What the registers say of a port's pin.
Actual(port, n) == PinStateOf(ctl[port], istat[port], octl[port], n)

\* A step that changes one pin and signals the pin's new state, or leaves the
\* pin as it was, keeps every pin's picture correct, unless it overtakes.
LEMMA SignalledStepInforms ==
  ASSUME TypeOK, NEW thread, NEW state,
         NEW changed \in Ports, NEW m \in 0..PinCount - 1,
         \/ ChangePinState(thread, Pin(changed, m), state)
         \/ UNCHANGED <<panel, signals>> /\ state = Actual(changed, m),
         PinStateOf(ctl'[changed], istat'[changed], octl'[changed], m) = state,
         NEW port \in Ports, NEW n \in 0..PinCount - 1,
         port # changed \/ n # m => Actual(port, n)' = Actual(port, n),
         Informed(port, n), ~Overtaking(Pin(port, n))
  PROVE  Informed(port, n)'
<1>1. Told(Pin(port, n)) = Actual(port, n)
  BY DEF Informed, Actual
<1>2. Pin(port, n) \in PanelPins /\ Pin(changed, m) \in PanelPins
  BY PinNumbers
<1>3. CASE ChangePinState(thread, Pin(changed, m), state)
  <2>1. CASE port = changed /\ n = m
    BY <1>2, <1>3, <2>1, ToldAfterSignal DEF Informed, Actual
  <2>2. CASE port # changed \/ n # m
    <3>1. Pin(port, n) # Pin(changed, m)
      BY <2>2, PinNumbers
    <3> QED
      BY <1>1, <1>2, <1>3, <2>2, <3>1, ToldAfterSignal DEF Informed, Actual
  <2> QED
    BY <2>1, <2>2
<1>4. CASE UNCHANGED <<panel, signals>> /\ state = Actual(changed, m)
  <2>1. Told(Pin(port, n))' = Told(Pin(port, n))
    BY <1>4 DEF Told, Pending
  <2>2. Actual(port, n)' = Actual(port, n)
    <3>1. port = changed /\ n = m => Actual(port, n)' = state
      BY DEF Actual
    <3> QED
      BY <1>4, <3>1
  <2> QED
    BY <1>1, <2>1, <2>2 DEF Informed, Actual
<1> QED
  BY <1>3, <1>4

\* A bit of a register write, unless it is one of BOP's upper half.
LEMMA WriteBitInforms ==
  ASSUME GpioInv, WriteBit, ~WrongSignal,
         NEW port \in Ports, NEW n \in 0..PinCount - 1,
         Informed(port, n), ~Overtaking(Pin(port, n))
  PROVE  Informed(port, n)'
<1> DEFINE b == Min(op.rest)
           c == ctl[op.port]
           i == istat[op.port]
           o == octl[op.port]
<1>1. /\ TypeOK /\ op # NoOp /\ op \in WriteOps /\ op.port \in Ports
      /\ b \in Nat /\ b \in op.rest
      /\ c \in [0..PinCount - 1 -> Modes] /\ o \in SUBSET (0..PinCount - 1)
      /\ istat' = istat
  BY NextBit DEF WriteBit, GpioInv, TypeOK, WriteOps
<1>2. ~ClearByBop(b)
  BY <1>1 DEF ClearByBop, WrongSignal
<1>3. WriteCtlBit(b) \/ WriteOutputBit(b)
  BY <1>2 DEF WriteBit
<1> HIDE DEF b
<1>4. CASE WriteCtlBit(b)
  <2> DEFINE pin == IF op.reg = "CTL0" THEN b ELSE Half + b
             new == [c EXCEPT ![pin] = IF b \in op.word THEN "OUTPUT" ELSE "INPUT"]
             state == PinStateOf(new, i, o, pin)
  <2>1. /\ op.reg \in {"CTL0", "CTL1"} /\ ctl' = [ctl EXCEPT ![op.port] = new] /\ UNCHANGED octl
        /\ IF ModeSignalDue(PinStateOf(c, i, o, pin), state)
             THEN ChangePinState(op.thread, Pin(op.port, pin), state)
             ELSE UNCHANGED <<panel, signals>>
    BY <1>4 DEF WriteCtlBit
  <2>2. b \in 0..Half - 1
    BY <1>1, <2>1 DEF GpioInv, OpInv
  <2>3. pin \in 0..PinCount - 1
    BY <2>2, Counts
  <2>4. \A q \in 0..PinCount - 1 : q # pin => new[q] = c[q]
    BY <1>1
  <2>5. ctl'[op.port] = new /\ \A q \in Ports : q # op.port => ctl'[q] = ctl[q]
    BY <1>1, <2>1 DEF TypeOK
  <2> HIDE DEF pin, new
  <2>6. PinStateOf(ctl'[op.port], istat'[op.port], octl'[op.port], pin) = state
    BY <1>1, <2>1, <2>5
  <2>7. port # op.port \/ n # pin => Actual(port, n)' = Actual(port, n)
    <3>1. CASE port # op.port
      BY <1>1, <2>1, <2>5, <3>1 DEF Actual
    <3>2. CASE port = op.port /\ n # pin
      <4>1. getPinMode(new, n) = getPinMode(c, n)
        BY <2>4, <3>2, ModeOfPin
      <4>2. PinStateOf(new, i, o, n) = PinStateOf(c, i, o, n)
        BY <4>1 DEF PinStateOf, getPinLevel
      <4> QED
        BY <1>1, <2>1, <2>5, <3>2, <4>2 DEF Actual
    <3> QED
      BY <3>1, <3>2
  <2>8. \/ ChangePinState(op.thread, Pin(op.port, pin), state)
        \/ UNCHANGED <<panel, signals>> /\ state = Actual(op.port, pin)
    <3>1. CASE ModeSignalDue(PinStateOf(c, i, o, pin), state)
      BY <2>1, <3>1
    <3>2. CASE ~ModeSignalDue(PinStateOf(c, i, o, pin), state)
      <4>1. getPinMode(c, pin) = getPinMode(new, pin)
        BY <3>2 DEF ModeSignalDue, PinStateOf
      <4>2. state = PinStateOf(c, i, o, pin)
        BY <4>1 DEF PinStateOf, getPinLevel
      <4> QED
        BY <2>1, <3>2, <4>2 DEF Actual
    <3> QED
      BY <3>1, <3>2
  <2> HIDE DEF state
  <2> QED
    BY <1>1, <2>3, <2>6, <2>7, <2>8, SignalledStepInforms
<1>5. CASE WriteOutputBit(b)
  <2>1. PICK new \in {o \cup {b}, o \ {b}} :
          /\ octl' = [octl EXCEPT ![op.port] = new] /\ UNCHANGED ctl
          /\ IF SignalDue(PinStateOf(c, i, o, b), PinStateOf(c, i, new, b))
               THEN ChangePinState(op.thread, Pin(op.port, b), PinStateOf(c, i, new, b))
               ELSE UNCHANGED <<panel, signals>>
    BY <1>5 DEF WriteOutputBit
  <2> DEFINE state == PinStateOf(c, i, new, b)
  <2>2. b \in 0..PinCount - 1
    BY <1>1, <1>5, Counts DEF WriteOutputBit
  <2>3. octl'[op.port] = new /\ \A q \in Ports : q # op.port => octl'[q] = octl[q]
    BY <1>1, <2>1 DEF TypeOK
  <2>4. PinStateOf(ctl'[op.port], istat'[op.port], octl'[op.port], b) = state
    BY <1>1, <2>1, <2>3
  <2>5. port # op.port \/ n # b => Actual(port, n)' = Actual(port, n)
    <3>1. CASE port # op.port
      BY <1>1, <2>1, <2>3, <3>1 DEF Actual
    <3>2. CASE port = op.port /\ n # b
      <4>1. (n \in new) = (n \in o)
        BY <2>1, <3>2
      <4>2. PinStateOf(c, i, new, n) = PinStateOf(c, i, o, n)
        BY <4>1 DEF PinStateOf, getPinLevel
      <4> QED
        BY <1>1, <2>1, <2>3, <3>2, <4>2 DEF Actual
    <3> QED
      BY <3>1, <3>2
  <2>6. \/ ChangePinState(op.thread, Pin(op.port, b), state)
        \/ UNCHANGED <<panel, signals>> /\ state = Actual(op.port, b)
    <3>1. CASE SignalDue(PinStateOf(c, i, o, b), state)
      BY <2>1, <3>1
    <3>2. CASE ~SignalDue(PinStateOf(c, i, o, b), state)
      <4>1. state = PinStateOf(c, i, o, b)
        BY <3>2 DEF SignalDue, PinStateOf
      <4> QED
        BY <2>1, <3>2, <4>1 DEF Actual
    <3> QED
      BY <3>1, <3>2
  <2> HIDE DEF state
  <2> QED
    BY <1>1, <2>2, <2>4, <2>5, <2>6, SignalledStepInforms
<1> QED
  BY <1>3, <1>4, <1>5

\* A click that stores what it loaded, in an input pin.
LEMMA ClickInforms ==
  ASSUME TypeOK, StorePinLevel, ~StaleClick,
         NEW port \in Ports, NEW n \in 0..PinCount - 1,
         Informed(port, n), ~Overtaking(Pin(port, n))
  PROVE  Informed(port, n)'
<1> DEFINE m == click.pin
           q == click.port
           state == [level |-> click.high, mode |-> getPinMode(ctl[q], m)]
<1>1. click \in ClickRecords
  BY DEF StorePinLevel, TypeOK, NoClick
<1>2. q \in Ports /\ m \in 0..PinCount - 1 /\ m \in Nat /\ click.high \in BOOLEAN
  BY <1>1, Counts DEF ClickRecords
<1>3. click.word = istat[q] /\ getPinMode(ctl[q], m) = "INPUT"
  <2>1. click.word = istat[q] /\ getPinMode(ctl[q], m) # "OUTPUT"
    BY DEF StorePinLevel, StaleClick
  <2>2. getPinMode(ctl[q], m) \in Modes
    BY <1>2, ModeType DEF TypeOK
  <2> QED
    BY <2>1, <2>2 DEF Modes
<1>4. ChangePinState("gui", Pin(q, m), state) /\ UNCHANGED <<ctl, octl>>
  BY DEF StorePinLevel, NewLevel
<1>5. /\ istat'[q] = IF click.high THEN istat[q] \cup {m} ELSE istat[q] \ {m}
      /\ \A other \in Ports : other # q => istat'[other] = istat[other]
  BY <1>2, <1>3 DEF StorePinLevel, TypeOK
<1>6. PinStateOf(ctl'[q], istat'[q], octl'[q], m) = state
  <2>1. getPinLevel(ctl[q], istat'[q], octl[q], m) = (m \in istat'[q])
    BY <1>3 DEF getPinLevel
  <2>2. (m \in istat'[q]) = click.high
    BY <1>2, <1>5
  <2> QED
    BY <1>4, <2>1, <2>2 DEF PinStateOf
<1>7. port # q \/ n # m => Actual(port, n)' = Actual(port, n)
  <2>1. CASE port # q
    BY <1>4, <1>5, <2>1 DEF Actual
  <2>2. CASE port = q /\ n # m
    <3>1. (n \in istat'[q]) = (n \in istat[q])
      BY <1>5, <2>2
    <3>2. PinStateOf(ctl[q], istat'[q], octl[q], n) = PinStateOf(ctl[q], istat[q], octl[q], n)
      BY <3>1 DEF PinStateOf, getPinLevel
    <3> QED
      BY <1>4, <2>2, <3>2 DEF Actual
  <2> QED
    BY <2>1, <2>2
<1> HIDE DEF state, m, q
<1> QED
  BY <1>2, <1>4, <1>6, <1>7, SignalledStepInforms

\* Only a silent write, a wrong signal, an overtaking signal or a stale click
\* makes a pin's picture incorrect.
LEMMA StepInforms ==
  ASSUME GpioInv, [Next]_vars,
         NEW port \in Ports, NEW n \in 0..PinCount - 1, Informed(port, n),
         ~SilentWrite(port), ~WrongSignal, ~Overtaking(Pin(port, n)), ~StaleClick
  PROVE  Informed(port, n)'
<1>1. TypeOK /\ Told(Pin(port, n)) = Actual(port, n) /\ Pin(port, n) \in PanelPins
  BY PinNumbers DEF GpioInv, Informed, Actual
<1>2. ASSUME Told(Pin(port, n))' = Told(Pin(port, n)), Actual(port, n)' = Actual(port, n)
      PROVE  Informed(port, n)'
  BY <1>1, <1>2 DEF Informed, Actual
<1>3. ASSUME UNCHANGED <<ctl, istat, octl, panel, signals>>
      PROVE  Informed(port, n)'
  <2>1. Told(Pin(port, n))' = Told(Pin(port, n)) /\ Actual(port, n)' = Actual(port, n)
    BY <1>3 DEF Told, Pending, Actual
  <2> QED
    BY <1>2, <2>1
<1>4. CASE DeliverSignal
  <2>1. Told(Pin(port, n))' = Told(Pin(port, n)) /\ Actual(port, n)' = Actual(port, n)
    BY <1>1, <1>4, ToldAfterDelivery DEF DeliverSignal, Actual
  <2> QED
    BY <1>2, <2>1
<1>5. ASSUME NEW other \in Ports, NEW word \in Words, WriteISTAT(other, word)
      PROVE  Informed(port, n)'
  <2>1. other # port
    BY <1>5 DEF SilentWrite
  <2>2. istat'[port] = istat[port] /\ UNCHANGED <<ctl, octl, panel, signals>>
    BY <1>1, <1>5, <2>1 DEF WriteISTAT, TypeOK
  <2>3. Told(Pin(port, n))' = Told(Pin(port, n)) /\ Actual(port, n)' = Actual(port, n)
    BY <2>2 DEF Told, Pending, Actual
  <2> QED
    BY <1>2, <2>3
<1>6. ASSUME NEW other \in Ports, NEW word \in Words,
             NEW reg \in {"CTL0", "CTL1", "OCTL", "BOP", "BC"}, BeginWrite(other, reg, word)
      PROVE  Informed(port, n)'
  BY <1>3, <1>6 DEF BeginWrite
<1>7. CASE WriteBit
  BY <1>7, WriteBitInforms
<1>8. ASSUME NEW other \in Ports, NEW m \in 0..PinCount - 1, TogglePinLevel(other, m)
      PROVE  Informed(port, n)'
  BY <1>3, <1>8 DEF TogglePinLevel
<1>9. CASE SetPinLevel
  BY <1>3, <1>9 DEF SetPinLevel
<1>10. CASE StorePinLevel
  BY <1>1, <1>10, ClickInforms
<1>11. CASE StartSession
  <2>1. signals' = signals /\ Pending(Pin(port, n)) = {}
    BY <1>11 DEF StartSession, Overtaking
  <2>2. Told(Pin(port, n))' = LowInput
    BY <1>1, <1>11, <2>1 DEF StartSession, Told, Pending
  <2>3. /\ ctl'[port] = [m \in 0..PinCount - 1 |-> "INPUT"]
        /\ istat'[port] = {} /\ octl'[port] = {}
    BY <1>11 DEF StartSession, ResetRegisters
  <2>4. getPinMode(ctl'[port], n) = "INPUT"
    BY <2>3, ModeOfPin
  <2>5. getPinLevel(ctl'[port], istat'[port], octl'[port], n) = FALSE
    BY <2>3, <2>4 DEF getPinLevel
  <2> QED
    BY <2>2, <2>4, <2>5 DEF Informed, PinStateOf, LowInput
<1>12. CASE ChangeSession
  BY <1>3, <1>12 DEF ChangeSession
<1>13. CASE UNCHANGED vars
  BY <1>3, <1>13 DEF vars
<1> QED
  BY <1>4, <1>5, <1>6, <1>7, <1>8, <1>9, <1>10, <1>11, <1>12, <1>13 DEF Next

\* The panel comes to show each pin's level and mode, whatever the guest and
\* the user do and whenever signals are delivered, but for the guest's writes
\* to the input register, the upper half of BOP, a signal of the GUI thread
\* that overtakes a queued one, and a click that stores a stale register or
\* into an output (gpioPort.cpp, gpioController.cpp).
THEOREM PanelStaysInformed == Spec => StaysInformed
<1>1. Init => GpioInv
  BY DEF Init, GpioInv, TypeOK, OpInv, Modes, LowInput, PinState
<1>2. GpioInv /\ [Next]_vars => GpioInv'
  BY GpioKept
<1>3. GpioInv /\ [Next]_vars =>
        [\A port \in Ports, n \in 0..PinCount - 1 :
           Informed(port, n) /\ ~Informed(port, n)' =>
             SilentWrite(port) \/ WrongSignal \/ Overtaking(Pin(port, n)) \/ StaleClick]_vars
  BY StepInforms
<1> QED
  BY <1>1, <1>2, <1>3, PTL DEF Spec, StaysInformed
===============================================================================
