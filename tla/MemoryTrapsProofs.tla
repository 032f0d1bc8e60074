-------------------------- MODULE MemoryTrapsProofs --------------------------
(***************************************************************************)
(* Memory dispatch is correct for every page size, every list of devices   *)
(* and all their ranges: MemoryTraps' DispatchCorrect, by induction over   *)
(* the steps of SetupMemoryTraps_.                                         *)
(***************************************************************************)
EXTENDS MemoryTraps, Numbers

-----------------------------------------------------------------------------
(* Pages of the two address spaces.                                          *)

\* GetPageStart_ gives the page that holds the address.
LEMMA PageStart ==
  ASSUME NEW a \in Nat
  PROVE  /\ GetPageStart_(a) \in Nat
         /\ GetPageStart_(a) <= a
         /\ GetPageStart_(a) % PageSize = 0
         /\ GetPageStart_(a) + (a % PageSize) = a
         /\ a % PageSize \in Nat
         /\ a % PageSize = 0 <=> GetPageStart_(a) = a
<1> DEFINE q == a \div PageSize
           m == a % PageSize
<1>1. PageSize \in Nat \ {0}
  BY TrapsAssumption
<1>2. m \in 0 .. PageSize - 1 /\ q \in Nat /\ a = PageSize * q + m
  BY <1>1, Divides
<1>3. GetPageStart_(a) = PageSize * q
  BY <1>1, <1>2 DEF GetPageStart_
<1>4. (PageSize * q) % PageSize = 0
  BY <1>1, <1>2, Multiple
<1>5. GetPageStart_(a) = a - m
  BY DEF GetPageStart_
<1> HIDE DEF m, q
<1>6. GetPageStart_(a) \in Nat /\ GetPageStart_(a) <= a
  BY <1>1, <1>2, <1>3, <1>5
<1>7. GetPageStart_(a) % PageSize = 0
  BY <1>3, <1>4
<1> QED
  BY <1>1, <1>2, <1>5, <1>6, <1>7 DEF m

\* It is monotonic.
LEMMA PageStartMonotonic ==
  ASSUME NEW a \in Nat, NEW b \in Nat, a <= b
  PROVE  GetPageStart_(a) <= GetPageStart_(b)
<1>1. PageSize \in Nat \ {0}
  BY TrapsAssumption
<1>2. /\ GetPageStart_(a) \in Nat /\ GetPageStart_(a) % PageSize = 0 /\ GetPageStart_(a) <= a
      /\ GetPageStart_(b) \in Nat /\ GetPageStart_(b) % PageSize = 0
      /\ GetPageStart_(b) + (b % PageSize) = b
  BY PageStart
<1>3. b % PageSize < PageSize
  BY <1>1, Divides
<1>4. CASE GetPageStart_(b) < GetPageStart_(a)
  <2>1. GetPageStart_(b) + PageSize <= GetPageStart_(a)
    BY <1>1, <1>2, <1>4, Gap
  <2> QED
    BY <1>1, <1>2, <1>3, <2>1
<1> QED
  BY <1>2, <1>4

\* Sizes and pages of the two address spaces.
LEMMA Spaces ==
  /\ PageSize \in Nat \ {0}
  /\ GuestSize \in Nat /\ WordSize \in Nat /\ GuestSize < WordSize
  /\ 0 \in Pages
  /\ GuestPages \subseteq Pages
  /\ Pages \subseteq Nat
  /\ \A a \in Words : GetPageStart_(a) \in Pages
  /\ \A a \in GuestAddresses : GetPageStart_(a) \in GuestPages
  /\ \A p \in Pages : p < GuestSize => p \in GuestPages
<1>1. PageSize \in Nat \ {0}
  BY TrapsAssumption
<1>2. (PageSize * 0) % PageSize = 0
  BY <1>1, Multiple
<1>3. 0 % PageSize = 0
  BY <1>1, <1>2
<1>4. \A a \in Nat : /\ GetPageStart_(a) \in Nat /\ GetPageStart_(a) <= a
                     /\ GetPageStart_(a) % PageSize = 0
  BY PageStart
<1> QED
  BY <1>1, <1>3, <1>4, TrapsAssumption DEF Pages, GuestPages, Words, GuestAddresses
\* TRAP_PAGE's next value: a page, or 0 after the last page of the 64-bit space.
LEMMA PageAfter ==
  ASSUME NEW p \in Pages
  PROVE  /\ (p + PageSize) % WordSize \in Pages
         /\ p < GuestSize => (p + PageSize) % WordSize = p + PageSize
         /\ \A q \in Pages : q < p + PageSize <=> q <= p
<1> DEFINE next == p + PageSize
<1>1. /\ p \in Nat /\ p % PageSize = 0 /\ p < WordSize
      /\ PageSize \in Nat \ {0} /\ WordSize \in Nat \ {0} /\ WordSize % PageSize = 0
      /\ GuestSize \in Nat /\ GuestSize % PageSize = 0 /\ GuestSize < WordSize
  BY Spaces, TrapsAssumption DEF Pages, Words
<1>2. next % PageSize = 0
  BY <1>1, NextPage
<1>3. next \in Nat /\ p < next
  BY <1>1
<1>4. next <= WordSize
  BY <1>1, Gap
<1>5. p < GuestSize => next <= GuestSize
  BY <1>1, Gap
<1>6. ASSUME NEW q \in Pages
      PROVE  q < next <=> q <= p
  <2>1. q \in Nat /\ q % PageSize = 0
    BY Spaces DEF Pages
  <2>2. p < q => next <= q
    BY <1>1, <2>1, Gap
  <2> HIDE DEF next
  <2> QED
    BY <1>1, <1>3, <2>1, <2>2
<1>7. next < WordSize => next % WordSize = next
  <2> HIDE DEF next
  <2> QED
    BY <1>1, <1>3
<1>8. next = WordSize => next % WordSize = 0
  <2>1. (WordSize * 1) % WordSize = 0 /\ WordSize * 1 = WordSize
    BY <1>1, Multiple
  <2> QED
    BY <2>1
<1> HIDE DEF next
<1>9. next < WordSize => next \in Pages
  BY <1>1, <1>2, <1>3 DEF Pages, Words
<1>10. next % WordSize \in Pages
  BY <1>1, <1>3, <1>4, <1>7, <1>8, <1>9, Spaces
<1>11. p < GuestSize => next % WordSize = next
  BY <1>1, <1>3, <1>5, <1>7
<1> QED
  BY <1>6, <1>10, <1>11 DEF next

-----------------------------------------------------------------------------
(* The first device of a sequence.                                           *)

\* FirstIn returns the element at the first index that counts.
LEMMA FirstInIs ==
  ASSUME NEW ds \in Seq(Slots), NEW S, NEW k \in DOMAIN ds, ds[k] \in S,
         \A j \in DOMAIN ds : ds[j] \in S => k <= j
  PROVE  FirstIn(ds, S) = ds[k]
<1> DEFINE hits == {i \in DOMAIN ds : ds[i] \in S}
           least == CHOOSE i \in hits : \A j \in hits : i <= j
<1>1. hits \subseteq Nat /\ k \in hits /\ \A j \in hits : k <= j
  OBVIOUS
<1>2. least \in hits /\ \A j \in hits : least <= j
  BY <1>1
<1>3. least = k
  BY <1>1, <1>2
<1>4. FirstIn(ds, S) = ds[least]
  BY <1>1 DEF FirstIn
<1> QED
  BY <1>3, <1>4

\* If the sequences v and ds agree on which of their elements count, and v has
\* them in the order of ds, then the first of v is the first of ds.
LEMMA SameFirst ==
  ASSUME NEW v \in Seq(Slots), NEW ds \in Registrable,
         NEW V, NEW D,
         \A i \in DOMAIN v : v[i] \in V =>
           \E k \in DOMAIN ds : ds[k] = v[i] /\ ds[k] \in D,
         \A k \in DOMAIN ds : ds[k] \in D =>
           \E i \in DOMAIN v : v[i] = ds[k] /\ v[i] \in V,
         \A i, j \in DOMAIN v, k, l \in DOMAIN ds :
           i < j /\ v[i] = ds[k] /\ v[j] = ds[l] => k < l
  PROVE  FirstIn(v, V) = FirstIn(ds, D)
<1> DEFINE vs == {i \in DOMAIN v : v[i] \in V}
<1>1. ds \in Seq(Slots) /\ \A i, j \in DOMAIN ds : ds[i] = ds[j] => i = j
  BY DEF Registrable
<1>2. CASE vs = {}
  <2>1. {k \in DOMAIN ds : ds[k] \in D} = {}
    BY <1>2
  <2> QED
    BY <1>2, <2>1 DEF FirstIn
<1>3. CASE vs # {}
  <2>1. vs \subseteq Nat
    OBVIOUS
  <2>2. PICK i \in vs : \A j \in vs : i <= j
    BY <1>3, <2>1, LeastElement
  <2>3. PICK k \in DOMAIN ds : ds[k] = v[i] /\ ds[k] \in D
    BY <2>2
  <2>4. ASSUME NEW l \in DOMAIN ds, ds[l] \in D
        PROVE  k <= l
    <3>1. PICK j \in DOMAIN v : v[j] = ds[l] /\ v[j] \in V
      BY <2>4
    <3>2. i \in Nat /\ j \in Nat /\ k \in Nat /\ l \in Nat /\ i <= j
      BY <1>1, <2>1, <2>2, <3>1
    <3>3. CASE i = j
      BY <1>1, <2>3, <3>1, <3>2, <3>3
    <3>4. CASE i < j
      BY <2>3, <3>1, <3>2, <3>4
    <3> QED
      BY <3>2, <3>3, <3>4
  <2>5. FirstIn(ds, D) = ds[k]
    BY <1>1, <2>3, <2>4, FirstInIs
  <2>6. FirstIn(v, V) = v[i]
    BY <2>2, FirstInIs
  <2> QED
    BY <2>3, <2>5, <2>6
<1> QED
  BY <1>2, <1>3

-----------------------------------------------------------------------------
(* The inductive invariant.                                                  *)

\* SetupMemoryTraps_ has mapped the k-th device to page p.
Covered(k, p) ==
  /\ k < at \/ (k = at /\ p < TRAP_PAGE)
  /\ GetPageStart_(range[devices[k]].start) <= p
  /\ p < range[devices[k]].end

\* The vector of a page holds exactly the devices mapped to it, in the order of
\* the registered devices; the pages that have one are those with a trap.
Placed ==
  /\ \A p \in Pages : \A i \in DOMAIN page_peripherals[p] :
       \E k \in DOMAIN devices : Covered(k, p) /\ devices[k] = page_peripherals[p][i]
  /\ \A p \in Pages : \A k \in DOMAIN devices :
       Covered(k, p) => \E i \in DOMAIN page_peripherals[p] : page_peripherals[p][i] = devices[k]
  /\ \A p \in Pages : \A i, j \in DOMAIN page_peripherals[p] : \A k, l \in DOMAIN devices :
       i < j /\ page_peripherals[p][i] = devices[k] /\ page_peripherals[p][j] = devices[l]
         => k < l
  /\ \A p \in GuestPages :
       traps[p] = IF page_peripherals[p] = << >> THEN Untrapped ELSE p
  /\ at \in DOMAIN devices => FirstPage(at) <= TRAP_PAGE

TrapsInv ==
  /\ trapping \in {"setup", "set"} /\ InGuest => Placed
  /\ trapping = "set" => at \notin DOMAIN devices

\* A device's setup begins at a page boundary.
LEMMA FirstPageType ==
  ASSUME TrapsTypeOK, NEW i \in Nat
  PROVE  FirstPage(i) \in Pages
<1>1. CASE i \in DOMAIN devices
  <2>1. range[devices[i]].start \in Words
    BY <1>1 DEF TrapsTypeOK, Registrable, Ranges
  <2> QED
    BY <1>1, <2>1, Spaces DEF FirstPage
<1>2. CASE i \notin DOMAIN devices
  BY <1>2, Spaces DEF FirstPage
<1> QED
  BY <1>1, <1>2

\* At the start nothing is mapped.
LEMMA TrapsTypesInitially == TrapsInit => TrapsTypeOK
<1> SUFFICES ASSUME TrapsInit PROVE TrapsTypeOK
  OBVIOUS
<1>1. [start |-> 0, end |-> 0] \in Ranges
  BY Spaces DEF Ranges, Words
<1>2. << >> \in Registrable /\ << >> \in Seq(Slots)
  BY DEF Registrable
<1> QED
  BY <1>1, <1>2, Spaces DEF TrapsInit, TrapsTypeOK, NoPeripherals, NoTraps

\* Every step keeps the types of the page tables and traps.
LEMMA TrapsTypeKept ==
  ASSUME TrapsTypeOK, [TrapsNext]_trapVars
  PROVE  TrapsTypeOK'
<1> USE DEF TrapsTypeOK
<1>1. CASE RegisterPeripherals
  BY <1>1 DEF RegisterPeripherals
<1>2. CASE BeginSetup
  <2>1. FirstPage(1) \in Pages
    BY FirstPageType
  <2> QED
    BY <1>2, <2>1, Spaces DEF BeginSetup, NoPeripherals, NoTraps
<1>3. CASE MapPage
  <2>1. devices[at] \in Slots
    BY <1>3 DEF MapPage, MorePages, Registrable
  <2>2. MapDeviceToPage_(devices[at], TRAP_PAGE) \in [Pages -> Seq(Slots)]
    BY <2>1 DEF MapDeviceToPage_, Pushed
  <2>3. (TRAP_PAGE + PageSize) % WordSize \in Pages
    BY PageAfter
  <2> QED
    BY <1>3, <2>2, <2>3 DEF MapPage
<1>4. CASE NextDevice
  <2>1. at + 1 \in Nat \ {0} /\ FirstPage(at + 1) \in Pages
    BY FirstPageType
  <2> QED
    BY <1>4, <2>1 DEF NextDevice
<1>5. CASE FinishSetup
  BY <1>5 DEF FinishSetup
<1>6. CASE UNCHANGED trapVars
  BY <1>6 DEF trapVars, setup
<1> QED
  BY <1>1, <1>2, <1>3, <1>4, <1>5, <1>6 DEF TrapsNext, SetupStep

\* Every variable keeps its type; in particular TRAP_PAGE stays on page
\* boundaries when it wraps around.
THEOREM TrapsTypeCorrect == TrapsSpec => []TrapsTypeOK
<1>1. TrapsTypeOK /\ [TrapsNext]_trapVars => TrapsTypeOK'
  BY TrapsTypeKept
<1> QED
  BY <1>1, TrapsTypesInitially, PTL DEF TrapsSpec

-----------------------------------------------------------------------------
(* The steps of SetupMemoryTraps_ keep the invariant.                        *)

\* A turn of the while loop maps the next page of the device, and keeps the
\* pages of those before it in place.
LEMMA MapPageKeeps ==
  ASSUME TrapsTypeOK, TrapsInv, InGuest, MapPage
  PROVE  Placed'
<1> USE DEF TrapsTypeOK
<1> DEFINE d == devices[at]
           p == TRAP_PAGE
           v == page_peripherals[p]
<1>1. /\ Placed /\ devices \in Registrable /\ devices \in Seq(Slots)
      /\ at \in DOMAIN devices /\ d \in Slots
      /\ p \in Pages /\ p \in Nat /\ p < range[d].end /\ range[d].end < GuestSize
      /\ GuestSize \in Nat /\ range[d].end \in Nat
  BY Spaces DEF TrapsInv, MapPage, MorePages, InGuest, Registrable, Ranges, Words
<1>2. UNCHANGED <<range, devices, at>>
  BY DEF MapPage
<1>3. v \in Seq(Slots) /\ page_peripherals' = [page_peripherals EXCEPT ![p] = Append(v, d)]
  <2>1. v # << >> => v[Len(v)] # d
    <3> SUFFICES ASSUME v # << >>, v[Len(v)] = d PROVE FALSE
      OBVIOUS
    <3>1. v \in Seq(Slots) /\ Len(v) \in DOMAIN v
      BY <1>1
    <3>2. PICK k \in DOMAIN devices : Covered(k, p) /\ devices[k] = v[Len(v)]
      BY <1>1, <3>1 DEF Placed
    <3>3. k = at
      BY <1>1, <3>2 DEF Registrable
    <3> QED
      BY <1>1, <3>2, <3>3 DEF Covered
  <2> QED
    BY <1>1, <2>1 DEF MapPage, MapDeviceToPage_, Pushed
<1>4. TRAP_PAGE' = p + PageSize /\ \A q \in Pages : q < p + PageSize <=> q <= p
  <2>1. p < GuestSize
    BY <1>1
  <2> QED
    BY <1>1, <2>1, PageAfter DEF MapPage
<1>5. ASSUME NEW k \in DOMAIN devices, NEW q \in Pages
      PROVE  Covered(k, q)' <=> Covered(k, q) \/ (k = at /\ q = p)
  <2>1. q \in Nat /\ k \in Nat /\ at \in Nat
    BY Spaces, <1>1
  <2>2. FirstPage(at) = GetPageStart_(range[d].start) /\ FirstPage(at) <= p
    BY <1>1 DEF Placed, FirstPage
  <2>3. Covered(k, q)' <=> /\ k < at \/ (k = at /\ q < TRAP_PAGE')
                           /\ GetPageStart_(range[devices[k]].start) <= q
                           /\ q < range[devices[k]].end
    BY <1>2 DEF Covered, GetPageStart_
  <2>4. q < TRAP_PAGE' <=> q < p \/ q = p
    BY <1>1, <1>4, <2>1
  <2> QED
    BY <1>1, <2>1, <2>2, <2>3, <2>4 DEF Covered
<1>6. \A q \in Pages : q # p => page_peripherals'[q] = page_peripherals[q]
  BY <1>3
<1>7. /\ page_peripherals'[p] = Append(v, d)
      /\ DOMAIN Append(v, d) = 1 .. Len(v) + 1 /\ DOMAIN v = 1 .. Len(v) /\ Len(v) \in Nat
      /\ \A i \in 1 .. Len(v) : Append(v, d)[i] = v[i]
      /\ Append(v, d)[Len(v) + 1] = d
      /\ Append(v, d) # << >>
  BY <1>1, <1>3
<1> DEFINE pp == page_peripherals'
<1>13. ASSUME NEW q \in Pages, NEW i \in DOMAIN pp[q], ~(q = p /\ i = Len(v) + 1)
       PROVE  i \in DOMAIN page_peripherals[q] /\ pp[q][i] = page_peripherals[q][i]
  <2>1. CASE q = p
    <3>1. i \in 1 .. Len(v) + 1 /\ i # Len(v) + 1
      BY <1>7, <1>13, <2>1
    <3>2. i \in 1 .. Len(v)
      BY <1>7, <3>1
    <3> QED
      BY <1>7, <2>1, <3>2
  <2>2. CASE q # p
    BY <1>6, <1>13, <2>2
  <2> QED
    BY <2>1, <2>2
<1>8. \A q \in Pages : \A i \in DOMAIN pp[q] :
        \E k \in DOMAIN devices : Covered(k, q)' /\ devices[k] = pp[q][i]
  <2> SUFFICES ASSUME NEW q \in Pages, NEW i \in DOMAIN pp[q]
               PROVE  \E k \in DOMAIN devices : Covered(k, q)' /\ devices[k] = pp[q][i]
    OBVIOUS
  <2>1. CASE q = p /\ i = Len(v) + 1
    BY <1>1, <1>5, <1>7, <2>1
  <2>2. CASE ~(q = p /\ i = Len(v) + 1)
    <3>1. i \in DOMAIN page_peripherals[q] /\ pp[q][i] = page_peripherals[q][i]
      BY <1>13, <2>2
    <3> QED
      BY <1>1, <1>5, <3>1 DEF Placed
  <2> QED
    BY <2>1, <2>2
<1>9. \A q \in Pages : \A k \in DOMAIN devices :
        Covered(k, q)' => \E i \in DOMAIN pp[q] : pp[q][i] = devices[k]
  <2> SUFFICES ASSUME NEW q \in Pages, NEW k \in DOMAIN devices, Covered(k, q)'
               PROVE  \E i \in DOMAIN pp[q] : pp[q][i] = devices[k]
    OBVIOUS
  <2>1. CASE k = at /\ q = p
    BY <1>7, <2>1
  <2>2. CASE Covered(k, q)
    <3>1. PICK i \in DOMAIN page_peripherals[q] : page_peripherals[q][i] = devices[k]
      BY <1>1, <2>2 DEF Placed
    <3>2. i \in DOMAIN pp[q] /\ pp[q][i] = page_peripherals[q][i]
      BY <1>6, <1>7, <3>1
    <3> QED
      BY <3>1, <3>2
  <2> QED
    BY <1>5, <2>1, <2>2
<1>10. \A q \in Pages : \A i, j \in DOMAIN pp[q] : \A k, l \in DOMAIN devices :
         i < j /\ pp[q][i] = devices[k] /\ pp[q][j] = devices[l] => k < l
  <2> SUFFICES ASSUME NEW q \in Pages, NEW i \in DOMAIN pp[q], NEW j \in DOMAIN pp[q],
                      NEW k \in DOMAIN devices, NEW l \in DOMAIN devices,
                      i < j, pp[q][i] = devices[k], pp[q][j] = devices[l]
               PROVE  k < l
    OBVIOUS
  <2>1. CASE q = p /\ j = Len(v) + 1
    <3>1. i \in DOMAIN v /\ v[i] = devices[k] /\ devices[l] = d
      BY <1>7, <2>1
    <3>2. PICK m \in DOMAIN devices : Covered(m, p) /\ devices[m] = v[i]
      BY <1>1, <3>1 DEF Placed
    <3>3. m = k /\ l = at
      BY <1>1, <3>1, <3>2 DEF Registrable
    <3> QED
      BY <1>1, <3>2, <3>3 DEF Covered
  <2>2. CASE ~(q = p /\ j = Len(v) + 1)
    <3>1. ~(q = p /\ i = Len(v) + 1)
      <4>1. q = p => DOMAIN pp[q] = 1 .. Len(v) + 1
        BY <1>7
      <4> QED
        BY <1>7, <2>2, <4>1
    <3>2. /\ i \in DOMAIN page_peripherals[q] /\ j \in DOMAIN page_peripherals[q]
          /\ page_peripherals[q][i] = devices[k] /\ page_peripherals[q][j] = devices[l]
      BY <1>13, <2>2, <3>1
    <3> QED
      BY <1>1, <3>2 DEF Placed
  <2> QED
    BY <2>1, <2>2
<1>11. \A q \in GuestPages : traps'[q] = IF pp[q] = << >> THEN Untrapped ELSE q
  <2>1. p % GuestSize = p
    BY <1>1, SmallRemainder
  <2>2. p \in GuestPages
    BY <1>1, Spaces
  <2>3. traps' = [traps EXCEPT ![p] = p]
    BY <2>1 DEF MapPage
  <2> SUFFICES ASSUME NEW q \in GuestPages
               PROVE  traps'[q] = IF pp[q] = << >> THEN Untrapped ELSE q
    OBVIOUS
  <2>4. CASE q = p
    BY <1>7, <2>2, <2>3, <2>4
  <2>5. CASE q # p
    BY <1>1, <1>6, <2>3, <2>5, Spaces DEF Placed
  <2> QED
    BY <2>4, <2>5
<1>12. FirstPage(at)' <= TRAP_PAGE'
  <2>1. FirstPage(at)' = FirstPage(at)
    BY <1>2 DEF FirstPage, GetPageStart_
  <2>2. FirstPage(at) \in Nat /\ FirstPage(at) <= p
    BY <1>1, FirstPageType, Spaces DEF Placed
  <2> QED
    BY <1>1, <1>4, <2>1, <2>2, Spaces
<1> QED
  BY <1>2, <1>8, <1>9, <1>10, <1>11, <1>12 DEF Placed

\* A setup begins with nothing mapped.
LEMMA BeginSetupPlaces ==
  ASSUME TrapsTypeOK, BeginSetup
  PROVE  Placed'
<1>1. /\ UNCHANGED <<range, devices>> /\ at' = 1 /\ TRAP_PAGE' = FirstPage(1)
      /\ page_peripherals' = NoPeripherals /\ traps' = NoTraps
      /\ FirstPage(1) \in Nat
  BY FirstPageType, Spaces DEF BeginSetup
<1>2. FirstPage(at)' = FirstPage(1)
  BY <1>1 DEF FirstPage, GetPageStart_
<1>3. ASSUME NEW p \in Pages, NEW k \in DOMAIN devices, Covered(k, p)'
      PROVE  FALSE
  <2>1. p \in Nat /\ k \in Nat /\ k >= 1
    BY Spaces DEF TrapsTypeOK, Registrable
  <2>2. /\ k < 1 \/ (k = 1 /\ p < FirstPage(1))
        /\ GetPageStart_(range[devices[k]].start) <= p
    BY <1>1, <1>3 DEF Covered, GetPageStart_
  <2> QED
    BY <1>1, <2>1, <2>2 DEF FirstPage
<1>4. \A p \in Pages : page_peripherals'[p] = << >> /\ DOMAIN page_peripherals'[p] = {}
  BY <1>1 DEF NoPeripherals
<1>5. \A p \in GuestPages : traps'[p] = Untrapped /\ page_peripherals'[p] = << >>
  BY <1>1, <1>4, Spaces DEF NoTraps
<1> QED
  BY <1>1, <1>2, <1>3, <1>4, <1>5 DEF Placed

\* When the loop is through with a device, all of its pages are mapped.
LEMMA NextDeviceKeeps ==
  ASSUME TrapsTypeOK, TrapsInv, InGuest, NextDevice
  PROVE  Placed'
<1>1. /\ Placed /\ at \in DOMAIN devices /\ at \in Nat /\ TRAP_PAGE \in Nat
      /\ range[devices[at]].end <= TRAP_PAGE
      /\ UNCHANGED <<range, devices, page_peripherals, traps>>
      /\ at' = at + 1 /\ TRAP_PAGE' = FirstPage(at + 1) /\ FirstPage(at + 1) \in Nat
  <2>1. at \in DOMAIN devices /\ ~(TRAP_PAGE < range[devices[at]].end)
    BY DEF NextDevice, MorePages
  <2>2. range[devices[at]].end \in Nat
    BY <2>1, Spaces DEF TrapsTypeOK, Registrable, Ranges, Words
  <2>3. at \in Nat /\ TRAP_PAGE \in Nat
    BY Spaces DEF TrapsTypeOK
  <2>4. at + 1 \in Nat
    BY <2>3
  <2>5. FirstPage(at + 1) \in Nat
    BY <2>4, FirstPageType, Spaces
  <2> QED
    BY <2>1, <2>2, <2>3, <2>5 DEF NextDevice, TrapsInv
<1>2. ASSUME NEW k \in DOMAIN devices, NEW p \in Pages
      PROVE  Covered(k, p)' <=> Covered(k, p)
  <2>1. p \in Nat /\ k \in Nat /\ range[devices[k]].end \in Nat
    BY Spaces DEF TrapsTypeOK, Registrable, Ranges, Words
  <2>2. Covered(k, p)' <=> /\ k < at + 1 \/ (k = at + 1 /\ p < FirstPage(at + 1))
                           /\ GetPageStart_(range[devices[k]].start) <= p
                           /\ p < range[devices[k]].end
    BY <1>1 DEF Covered, GetPageStart_
  <2>3. k = at + 1 => FirstPage(at + 1) = GetPageStart_(range[devices[k]].start)
    BY DEF FirstPage
  <2>4. CASE k = at + 1
    BY <1>1, <2>1, <2>2, <2>3, <2>4 DEF Covered
  <2>5. CASE k = at
    BY <1>1, <2>1, <2>2, <2>5 DEF Covered
  <2>6. CASE k # at /\ k # at + 1
    BY <1>1, <2>1, <2>2, <2>6 DEF Covered
  <2> QED
    BY <2>4, <2>5, <2>6
<1>3. FirstPage(at)' = TRAP_PAGE'
  BY <1>1 DEF FirstPage, GetPageStart_
<1> QED
  BY <1>1, <1>2, <1>3 DEF Placed

\* At every step of SetupMemoryTraps_ (EmulatorUnit.cpp 184-207) the pages hold
\* the devices dealt with so far, in the map's order, and nothing else.
THEOREM TrapsInvariant == TrapsSpec => []TrapsInv
<1>1. TrapsInit => TrapsInv
  <2> SUFFICES ASSUME TrapsInit PROVE TrapsInv
    OBVIOUS
  <2>1. /\ devices = << >> /\ DOMAIN devices = {} /\ trapping = "set"
        /\ page_peripherals = NoPeripherals /\ traps = NoTraps
    BY DEF TrapsInit
  <2>2. \A p \in Pages : page_peripherals[p] = << >> /\ DOMAIN page_peripherals[p] = {}
    BY <2>1 DEF NoPeripherals
  <2>3. \A p \in GuestPages : traps[p] = Untrapped /\ page_peripherals[p] = << >>
    BY <2>1, <2>2, Spaces DEF NoTraps
  <2>4. Placed
    BY <2>1, <2>2, <2>3 DEF Placed
  <2> QED
    BY <2>1, <2>4 DEF TrapsInv
<1>2. TrapsTypeOK /\ TrapsInv /\ [TrapsNext]_trapVars => TrapsInv'
  <2> SUFFICES ASSUME TrapsTypeOK, TrapsInv, [TrapsNext]_trapVars PROVE TrapsInv'
    OBVIOUS
  <2>1. CASE RegisterPeripherals
    BY <2>1 DEF RegisterPeripherals, TrapsInv
  <2>2. CASE BeginSetup
    <3>1. Placed' /\ trapping' = "setup"
      BY <2>2, BeginSetupPlaces DEF BeginSetup
    <3> QED
      BY <3>1 DEF TrapsInv
  <2>3. CASE MapPage
    <3>1. trapping' = "setup" /\ UNCHANGED <<range, devices>>
      BY <2>3 DEF MapPage
    <3>2. InGuest' => InGuest
      BY <3>1 DEF InGuest
    <3> QED
      BY <2>3, <3>1, <3>2, MapPageKeeps DEF TrapsInv
  <2>4. CASE NextDevice
    <3>1. trapping' = "setup" /\ UNCHANGED <<range, devices>>
      BY <2>4 DEF NextDevice
    <3>2. InGuest' => InGuest
      BY <3>1 DEF InGuest
    <3> QED
      BY <2>4, <3>1, <3>2, NextDeviceKeeps DEF TrapsInv
  <2>5. CASE FinishSetup
    <3>1. /\ trapping = "setup" /\ trapping' = "set" /\ at \notin DOMAIN devices
          /\ UNCHANGED <<range, devices, page_peripherals, traps, at, TRAP_PAGE>>
      BY <2>5 DEF FinishSetup
    <3>2. InGuest' <=> InGuest
      BY <3>1 DEF InGuest
    <3>3. Placed => Placed'
      BY <3>1 DEF Placed, Covered, FirstPage, GetPageStart_
    <3> QED
      BY <3>1, <3>2, <3>3 DEF TrapsInv
  <2>6. CASE UNCHANGED trapVars
    <3>1. UNCHANGED <<range, devices, page_peripherals, traps, trapping, at, TRAP_PAGE>>
      BY <2>6 DEF trapVars, setup
    <3>2. Placed => Placed'
      BY <3>1 DEF Placed, Covered, FirstPage, GetPageStart_
    <3>3. InGuest' => InGuest
      BY <3>1 DEF InGuest
    <3> QED
      BY <3>1, <3>2, <3>3 DEF TrapsInv
  <2> QED
    BY <2>1, <2>2, <2>3, <2>4, <2>5, <2>6 DEF TrapsNext, SetupStep
<1> QED
  BY <1>1, <1>2, TrapsTypeCorrect, PTL DEF TrapsSpec

-----------------------------------------------------------------------------
(* Dispatch.                                                                 *)

\* On the page of an address, the devices that claim it are those that own it.
LEMMA ReachedIsOwner ==
  ASSUME TrapsTypeOK, TrapsInv, trapping = "set", InGuest, NEW a \in GuestAddresses
  PROVE  /\ Reached(a) = Owner(a)
         /\ Reached(a) # NoDevice => RealAddress(a) = a
<1> DEFINE p == GetPageStart_(a)
           v == page_peripherals[p]
<1>1. /\ a \in Nat /\ p \in GuestPages /\ p \in Pages /\ p \in Nat
      /\ p <= a /\ p + (a % PageSize) = a /\ (a % PageSize = 0 <=> p = a)
  <2>1. a \in Nat
    BY Spaces DEF GuestAddresses
  <2>2. p \in GuestPages
    BY Spaces
  <2> QED
    BY <2>1, <2>2, Spaces, PageStart
<1>2. /\ Placed /\ at \notin DOMAIN devices /\ devices \in Registrable /\ devices \in Seq(Slots)
      /\ v \in Seq(Slots) /\ at \in Nat \ {0}
  BY <1>1 DEF TrapsInv, TrapsTypeOK, Registrable
<1>3. ASSUME NEW k \in DOMAIN devices
      PROVE  /\ k < at
             /\ Owns(devices[k], a) <=> Covered(k, p) /\ Claims(devices[k], a)
  <2> DEFINE r == range[devices[k]]
  <2>1. r.start \in Nat /\ r.end \in Nat
    BY Spaces, <1>2 DEF TrapsTypeOK, Ranges, Words
  <2>2. k < at
    BY <1>2
  <2>3. r.start <= a => GetPageStart_(r.start) <= p
    BY <1>1, <2>1, PageStartMonotonic
  <2>4. Covered(k, p) <=> GetPageStart_(r.start) <= p /\ p < r.end
    BY <2>2 DEF Covered
  <2> HIDE DEF p
  <2>5. Owns(devices[k], a) <=> r.start <= a /\ a <= r.end /\ ~(a = r.end /\ p = a)
    BY <1>1 DEF Owns, Claims
  <2>6. Claims(devices[k], a) <=> r.start <= a /\ a <= r.end
    BY DEF Claims
  <2> HIDE DEF r
  <2> QED
    BY <1>1, <2>1, <2>2, <2>3, <2>4, <2>5, <2>6
<1> DEFINE V == {d \in Slots : Claims(d, a)}
           D == {d \in Slots : Owns(d, a)}
<1>4. FirstIn(v, V) = FirstIn(devices, D)
  <2> HIDE DEF p
  <2>1. \A i \in DOMAIN v : v[i] \in V =>
          \E k \in DOMAIN devices : devices[k] = v[i] /\ devices[k] \in D
    BY <1>1, <1>2, <1>3 DEF Placed
  <2>2. \A k \in DOMAIN devices : devices[k] \in D =>
          \E i \in DOMAIN v : v[i] = devices[k] /\ v[i] \in V
    BY <1>1, <1>2, <1>3 DEF Placed
  <2>3. \A i, j \in DOMAIN v, k, l \in DOMAIN devices :
          i < j /\ v[i] = devices[k] /\ v[j] = devices[l] => k < l
    BY <1>1, <1>2 DEF Placed
  <2> HIDE DEF v, V, D
  <2> QED
    BY <1>2, <2>1, <2>2, <2>3, SameFirst
<1>5. traps[p] = IF v = << >> THEN Untrapped ELSE p
  BY <1>1, <1>2 DEF Placed
<1>6. CASE v = << >>
  <2>1. FirstIn(v, V) = NoDevice
    BY <1>6 DEF FirstIn
  <2>2. Reached(a) = NoDevice
    BY <1>5, <1>6 DEF Reached
  <2> QED
    BY <1>4, <2>1, <2>2 DEF Owner
<1>7. CASE v # << >>
  <2>1. traps[p] = p /\ traps[p] # Untrapped
    BY <1>1, <1>5, <1>7, TrapsAssumption
  <2>2. RealAddress(a) = a
    BY <1>1, <2>1 DEF RealAddress
  <2>3. Reached(a) = FirstIn(v, V)
    BY <2>1, <2>2 DEF Reached, GetRealDevice_
  <2> QED
    BY <1>4, <2>2, <2>3 DEF Owner
<1> QED
  BY <1>6, <1>7

\* DispatchCorrect of every run of the memory traps: an access reaches the
\* device that owns its address, at its offset, and nobody else.
THEOREM DispatchIsCorrect == TrapsSpec => []DispatchCorrect
<1>1. TrapsTypeOK /\ TrapsInv => DispatchCorrect
  <2> SUFFICES ASSUME TrapsTypeOK, TrapsInv, trapping = "set", InGuest,
                      NEW a \in GuestAddresses, NEW mode \in {"read", "write"},
                      NEW size \in {1, 2, 4, 8}
               PROVE  PageTrapHandler_(a, mode, size) =
                        LET d == Owner(a)
                        IN  IF d = NoDevice \/ (mode = "write" /\ size \in {1, 2}) THEN NoCall
                            ELSE [device |-> d, offset |-> a - range[d].start,
                                  call |-> IF mode = "read" THEN "ReadDoubleword"
                                           ELSE IF size = 8 THEN "WriteDoubleword" ELSE "WriteWord"]
    BY DEF DispatchCorrect
  <2>1. Reached(a) = Owner(a) /\ (Reached(a) # NoDevice => RealAddress(a) = a)
    BY ReachedIsOwner
  <2>2. CASE Owner(a) = NoDevice
    BY <2>1, <2>2 DEF PageTrapHandler_
  <2>3. CASE Owner(a) # NoDevice
    BY <2>1, <2>3 DEF PageTrapHandler_
  <2> QED
    BY <2>2, <2>3
<1> QED
  BY <1>1, TrapsTypeCorrect, TrapsInvariant, PTL
=============================================================================
