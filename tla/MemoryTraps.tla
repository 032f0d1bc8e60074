----------------------------- MODULE MemoryTraps -----------------------------
(***************************************************************************)
(* How a guest access reaches a peripheral: SetupMemoryTraps_ of           *)
(* src/emulator/EmulatorUnit.cpp puts a trap on the pages of each          *)
(* registered device, and PageTrapHandler_ finds the device again.         *)
(*                                                                         *)
(* Device ranges are 64 bits wide, the guest's address space is 32: a page *)
(* number loses the upper half of a trap's address, the callback keeps it. *)
(***************************************************************************)
EXTENDS Integers, Sequences

CONSTANTS
  PageSize,    \* RISCV_PAGE_SIZE, the period of GetPageStart_'s mask
  GuestSize,   \* 2^32, the size of the guest's address space
  WordSize,    \* 2^64, where uint64_t wraps around
  Slots,       \* addresses the heap may give to a device object
  NoDevice,    \* nullptr
  Untrapped    \* a page without a trap

ASSUME TrapsAssumption ==
  /\ PageSize \in Nat \ {0}
  /\ GuestSize \in Nat /\ GuestSize % PageSize = 0
  /\ WordSize \in Nat /\ WordSize % PageSize = 0 /\ GuestSize < WordSize
  /\ NoDevice \notin Slots
  /\ Untrapped \notin Nat

VARIABLES
  range,        \* Start_Address and End_Address of each device object
  devices,      \* the objects in *peripheral_devices_, in the map's order
  page_peripherals,  \* page_peripherals_, << >> where it has no entry
  traps,        \* the TRAP_PAGE that the callback on a guest page captured
  trapping,     \* "setup" inside SetupMemoryTraps_; "set" after it, until
                \* other devices are registered: then "stale"
  at,           \* position in devices of SetupMemoryTraps_'s pDevice
  TRAP_PAGE

setup == <<page_peripherals, traps, trapping, at, TRAP_PAGE>>
trapVars == <<range, devices, setup>>

Words == 0 .. WordSize - 1
GuestAddresses == 0 .. GuestSize - 1
GetPageStart_(address) == address - (address % PageSize)
Pages == {p \in Words : p % PageSize = 0}
GuestPages == {p \in GuestAddresses : p % PageSize = 0}
Ranges == [start : Words, end : Words]

\* Each name of the map has an object of its own.
Registrable ==
  {ds \in Seq(Slots) : \A i, j \in DOMAIN ds : ds[i] = ds[j] => i = j}

TrapsTypeOK ==
  /\ range \in [Slots -> Ranges]
  /\ devices \in Registrable
  /\ page_peripherals \in [Pages -> Seq(Slots)]
  /\ traps \in [GuestPages -> Pages \cup {Untrapped}]
  /\ trapping \in {"setup", "set", "stale"}
  /\ at \in Nat \ {0}
  /\ TRAP_PAGE \in Pages

NoPeripherals == [p \in Pages |-> << >>]
NoTraps == [p \in GuestPages |-> Untrapped]

TrapsInit ==
  /\ range \in [Slots -> {[start |-> 0, end |-> 0]}]
  /\ devices = << >>
  /\ page_peripherals = NoPeripherals /\ traps = NoTraps
  /\ trapping = "set" /\ at = 1 /\ TRAP_PAGE = 0

-----------------------------------------------------------------------------
(* RegisterPeripherals, and SetupMemoryTraps_ for a new machine.             *)

\* The controller registers devices while no machine is being created.
RegisterPeripherals ==
  /\ trapping # "setup"
  /\ devices' \in Registrable /\ range' \in [Slots -> Ranges]
  /\ trapping' = "stale"
  /\ UNCHANGED <<page_peripherals, traps, at, TRAP_PAGE>>

\* Mutant: the first page starts at the device, not at a page boundary.
FirstPageUnaligned(i) == IF i \in DOMAIN devices THEN range[devices[i]].start ELSE 0

FirstPage(i) ==
  IF i \in DOMAIN devices THEN GetPageStart_(range[devices[i]].start) ELSE 0

BeginSetup ==
  /\ trapping # "setup"
  /\ trapping' = "setup"
  /\ page_peripherals' = NoPeripherals /\ traps' = NoTraps
  /\ at' = 1 /\ TRAP_PAGE' = FirstPage(1)
  /\ UNCHANGED <<range, devices>>

\* push_back; that a device whose loop wraps around is pushed again and again
\* makes no difference to GetRealDevice_.
Pushed(vector, d) ==
  IF vector # << >> /\ vector[Len(vector)] = d THEN vector ELSE Append(vector, d)

\* Mutant: the page's vector is replaced instead of extended.
MapDeviceToPageAlone(d, p) == [page_peripherals EXCEPT ![p] = <<d>>]

MapDeviceToPage_(d, p) == [page_peripherals EXCEPT ![p] = Pushed(@, d)]

\* Mutant: the end address is compared with <=.
MorePagesInclusive == at \in DOMAIN devices /\ TRAP_PAGE <= range[devices[at]].end

MorePages == at \in DOMAIN devices /\ TRAP_PAGE < range[devices[at]].end

MapPage ==
  /\ trapping = "setup" /\ MorePages
  /\ page_peripherals' = MapDeviceToPage_(devices[at], TRAP_PAGE)
  /\ traps' = [traps EXCEPT ![TRAP_PAGE % GuestSize] = TRAP_PAGE]
  /\ TRAP_PAGE' = (TRAP_PAGE + PageSize) % WordSize
  /\ UNCHANGED <<range, devices, trapping, at>>

NextDevice ==
  /\ trapping = "setup" /\ at \in DOMAIN devices /\ ~MorePages
  /\ at' = at + 1 /\ TRAP_PAGE' = FirstPage(at + 1)
  /\ UNCHANGED <<range, devices, page_peripherals, traps, trapping>>

FinishSetup ==
  /\ trapping = "setup" /\ at \notin DOMAIN devices
  /\ trapping' = "set"
  /\ UNCHANGED <<range, devices, page_peripherals, traps, at, TRAP_PAGE>>

SetupStep == MapPage \/ NextDevice \/ FinishSetup
TrapsNext == RegisterPeripherals \/ BeginSetup \/ SetupStep
TrapsSpec == TrapsInit /\ [][TrapsNext]_trapVars

-----------------------------------------------------------------------------
(* PageTrapHandler_.                                                         *)

Claims(d, address) == range[d].start <= address /\ address <= range[d].end

\* The first device of a sequence that is one of S.
FirstIn(ds, S) ==
  LET hits == {i \in DOMAIN ds : ds[i] \in S}
  IN  IF hits = {} THEN NoDevice
      ELSE ds[CHOOSE i \in hits : \A j \in hits : i <= j]

\* operator[] gives a page without an entry an empty one, which is no change here.
GetRealDevice_(address) ==
  FirstIn(page_peripherals[GetPageStart_(address)], {d \in Slots : Claims(d, address)})

\* real_address of the handler called for an access to guest address a.
RealAddress(a) == traps[GetPageStart_(a)] + (a % PageSize)

Reached(a) ==
  IF traps[GetPageStart_(a)] = Untrapped THEN NoDevice
  ELSE GetRealDevice_(RealAddress(a))

NoCall == [device |-> NoDevice, call |-> "none", offset |-> 0]

\* What a device is asked to do for an access of `size' bytes: every read is a
\* ReadDoubleword, and writes of one or two bytes are dropped.
PageTrapHandler_(a, mode, size) ==
  LET d == Reached(a)
      CallTo(name) == [device |-> d, call |-> name, offset |-> RealAddress(a) - range[d].start]
  IN  IF d = NoDevice THEN NoCall
      ELSE IF mode = "read" THEN CallTo("ReadDoubleword")
      ELSE IF size = 8 THEN CallTo("WriteDoubleword")
      ELSE IF size = 4 THEN CallTo("WriteWord")
      ELSE NoCall

-----------------------------------------------------------------------------
(* What the traps are for.                                                   *)

InGuest == \A i \in DOMAIN devices : range[devices[i]].end < GuestSize

\* A device owns the addresses of its range, except an end address on a page
\* boundary, for which SetupMemoryTraps_ sets no trap. Where ranges overlap,
\* the device that is first by name owns them.
Owns(d, a) == Claims(d, a) /\ ~(a = range[d].end /\ a % PageSize = 0)
Owner(a) == FirstIn(devices, {d \in Slots : Owns(d, a)})

\* Once the traps are set for devices in the guest's address space, an access
\* reaches the owner of its address and nobody else, at the offset of the
\* address in the owner's range, however many devices share a page; a narrow
\* write reaches nobody.
DispatchCorrect ==
  trapping = "set" /\ InGuest =>
    \A a \in GuestAddresses, mode \in {"read", "write"}, size \in {1, 2, 4, 8} :
      PageTrapHandler_(a, mode, size) =
        LET d == Owner(a)
        IN  IF d = NoDevice \/ (mode = "write" /\ size \in {1, 2}) THEN NoCall
            ELSE [device |-> d, offset |-> a - range[d].start,
                  call |-> IF mode = "read" THEN "ReadDoubleword"
                           ELSE IF size = 8 THEN "WriteDoubleword" ELSE "WriteWord"]

\* The traps are set up in the end, for every list of devices none of which
\* ends in the last page of the 64-bit space: there TRAP_PAGE wraps around and
\* SetupMemoryTraps_ never returns.
SetupReturns ==
  (\A i \in DOMAIN devices : range[devices[i]].end <= WordSize - PageSize) /\ trapping = "setup"
    ~> trapping = "set"
=============================================================================
