------------------------- MODULE ConfigurationProofs -------------------------
(***************************************************************************)
(* Configurations, for any names, libraries, configuration files and items *)
(* of the side bar: what a configuration registers implements MemoryTraps, *)
(* and the devices, their code and their panels belong together; and the   *)
(* side bar by itself, for any number of items, positions and windows.     *)
(***************************************************************************)
EXTENDS DevicePanels, MemoryTrapsProofs

-----------------------------------------------------------------------------
(* The side bar by itself.                                                   *)

\* EveryPanelReachable is inductive with the types: an item that no panel
\* displays is in no panel, so that clearing a panel clears its item only.
PanelsInv == SideTypeOK /\ EveryPanelReachable

\* The content that is in a panel is that of the item the panel displays.
LEMMA OnlyDisplayedInPanel ==
  ASSUME PanelsInv, NEW p \in Positions, NEW j \in InPanel(p)
  PROVE  /\ j \in Items /\ displayedItem[p] = j
         /\ sidebarItemArray[j] = p /\ content[j] = "panel"
BY DEF PanelsInv, EveryPanelReachable, InPanel, InBar, InWindow

\* What a position displays is an item of that position, shown by its panel.
LEMMA DisplayedIsShown ==
  ASSUME PanelsInv, NEW p \in Positions, displayedItem[p] # Nobody
  PROVE  /\ p \in visible /\ displayedItem[p] \in Items
         /\ sidebarItemArray[displayedItem[p]] = p
         /\ InItsPanel(displayedItem[p])
         /\ InPanel(p) = {displayedItem[p]}
<1>1. /\ p \in visible /\ displayedItem[p] \in Items
      /\ sidebarItemArray[displayedItem[p]] = p
  BY DEF PanelsInv, EveryPanelReachable
<1>2. InItsPanel(displayedItem[p])
  BY <1>1 DEF PanelsInv, EveryPanelReachable
<1>3. displayedItem[p] \in InPanel(p)
  BY <1>1, <1>2 DEF InPanel, InItsPanel
<1> QED
  BY <1>1, <1>2, <1>3, OnlyDisplayedInPanel

\* sidebarButtonClicked shows one item and sends the one before back to the bar.
LEMMA DisplayKeeps ==
  ASSUME PanelsInv, NEW i \in Indexes, Display(i)
  PROVE  PanelsInv'
<1> DEFINE p == sidebarItemArray[i]
<1>1. i \in Items /\ i \notin hidden /\ p \in Positions /\ displayedItem[p] # i
  BY DEF Display, PanelsInv, SideTypeOK
<1>2. InBar(i)
  BY <1>1 DEF PanelsInv, EveryPanelReachable, InWindow
<1>3. Nobody \notin Items
  BY SideAssumption DEF PanelsInv, SideTypeOK
<1>4. SideTypeOK'
  <2>1. content' \in [Items -> {"none", "panel", "window"}]
    BY DEF Display, PanelsInv, SideTypeOK
  <2>2. visible' \subseteq Positions /\ opened' \subseteq Items
    BY <1>1 DEF Display, PanelsInv, SideTypeOK
  <2>3. displayedItem' \in [Positions -> Indexes \cup {Nobody}]
    BY <1>1 DEF Display, PanelsInv, SideTypeOK
  <2> QED
    BY <2>1, <2>2, <2>3 DEF Display, PanelsInv, SideTypeOK, Items
<1>5. ASSUME NEW j \in Items, displayedItem'[sidebarItemArray[j]] = j
      PROVE  InItsPanel(j)'
  <2>1. CASE j = i
    BY <2>1, <1>1, <1>2 DEF Display, InItsPanel, InBar, Items
  <2>2. CASE j # i
    <3>1. sidebarItemArray[j] # p /\ displayedItem[sidebarItemArray[j]] = j
      BY <2>2, <1>1, <1>5 DEF Display, PanelsInv, SideTypeOK
    <3>2. InItsPanel(j)
      BY <3>1 DEF PanelsInv, EveryPanelReachable
    <3>3. j \notin InPanel(p) /\ j # displayedItem[p]
      <4>1. j \notin InPanel(p)
        BY <3>1 DEF InPanel
      <4>2. j # displayedItem[p]
        BY <3>1, <1>1, DisplayedIsShown, <1>3
      <4> QED
        BY <4>1, <4>2
    <3> QED
      BY <2>2, <3>2, <3>3 DEF Display, InItsPanel, Items
  <2> QED
    BY <2>1, <2>2
<1>6. ASSUME NEW j \in Items, displayedItem'[sidebarItemArray[j]] # j
      PROVE  (InBar(j) \/ InWindow(j))'
  <2>1. j # i
    BY <1>1, <1>6 DEF Display, PanelsInv, SideTypeOK
  <2>2. CASE displayedItem[p] = j
    <3>1. InItsPanel(j) /\ j \in InPanel(p)
      BY <2>2, <1>1, <1>3, DisplayedIsShown
    <3> QED
      BY <2>1, <2>2, <3>1 DEF Display, InItsPanel, InBar, Items
  <2>3. CASE displayedItem[p] # j
    <3>1. displayedItem[sidebarItemArray[j]] # j
      BY <2>3, <1>1, <1>6 DEF Display, PanelsInv, SideTypeOK
    <3>2. InBar(j) \/ InWindow(j)
      BY <3>1 DEF PanelsInv, EveryPanelReachable
    <3>3. j \notin InPanel(p)
      BY <2>3, <1>1, OnlyDisplayedInPanel
    <3> QED
      BY <2>1, <2>3, <3>2, <3>3 DEF Display, InBar, InWindow, Items
  <2> QED
    BY <2>2, <2>3
<1>7. ASSUME NEW q \in Positions
      PROVE  IF q \in visible'
             THEN displayedItem'[q] \in Items /\ sidebarItemArray[displayedItem'[q]] = q
             ELSE displayedItem'[q] = Nobody
  BY <1>1 DEF Display, PanelsInv, EveryPanelReachable, SideTypeOK
<1> QED
  BY <1>4, <1>5, <1>6, <1>7
  DEF PanelsInv, EveryPanelReachable, Display, Items

\* closeSidePanel and createSidebarFloatingWindow: the displayed item leaves its
\* panel, for the bar or for a window.
LEMMA LeavingKeeps ==
  ASSUME PanelsInv, NEW p \in Positions, Close(p) \/ CreateSidebarFloatingWindow(p)
  PROVE  PanelsInv'
<1> DEFINE i == displayedItem[p]
<1>1. i # Nobody
  BY DEF Close, CreateSidebarFloatingWindow
<1>2. /\ p \in visible /\ i \in Items /\ sidebarItemArray[i] = p
      /\ InItsPanel(i) /\ InPanel(p) = {i}
  BY <1>1, DisplayedIsShown
<1>3. /\ displayedItem' = [displayedItem EXCEPT ![p] = Nobody]
      /\ visible' = visible \ {p} /\ opened' = opened \ {i}
      /\ UNCHANGED <<sidebarItemArray, activePeripheralsPanels>>
  BY DEF Close, CreateSidebarFloatingWindow, CloseSidePanel
<1>4. \/ /\ content' = [j \in Items |-> IF j = i THEN "none" ELSE content[j]]
         /\ UNCHANGED <<hidden, windows>>
      \/ /\ content' = [j \in Items |-> IF j = i THEN "window" ELSE content[j]]
         /\ hidden' = hidden \cup {i} /\ windows' = windows \cup {i}
  <2>1. CASE Close(p)
    BY <2>1, <1>2 DEF Close
  <2>2. CASE CreateSidebarFloatingWindow(p)
    BY <2>2, <1>2 DEF CreateSidebarFloatingWindow, ButtonHidden
  <2> QED
    BY <2>1, <2>2
<1>5. SideTypeOK'
  <2>1. content' \in [Items -> {"none", "panel", "window"}]
    BY <1>4 DEF PanelsInv, SideTypeOK
  <2>2. hidden' \subseteq Items /\ windows' \subseteq Indexes /\ opened' \subseteq Items
    BY <1>2, <1>3, <1>4 DEF PanelsInv, SideTypeOK
  <2> QED
    BY <1>3, <2>1, <2>2 DEF PanelsInv, SideTypeOK, Items
<1>6. Nobody \notin Items
  BY SideAssumption DEF PanelsInv, SideTypeOK
<1>7. ASSUME NEW j \in Items
      PROVE  (IF displayedItem[sidebarItemArray[j]] = j
              THEN InItsPanel(j) ELSE InBar(j) \/ InWindow(j))'
  <2>1. CASE j = i
    <3>1. displayedItem'[sidebarItemArray'[j]] # j
      BY <2>1, <1>2, <1>3, <1>6 DEF PanelsInv, SideTypeOK
    <3>2. (InBar(j) \/ InWindow(j))'
      BY <2>1, <1>2, <1>3, <1>4 DEF InItsPanel, InBar, InWindow, Items
    <3> QED
      BY <3>1, <3>2
  <2>2. CASE j # i
    <3>1. sidebarItemArray[j] = p => displayedItem[sidebarItemArray[j]] # j
      BY <2>2
    <3>2. displayedItem'[sidebarItemArray'[j]] = j <=> displayedItem[sidebarItemArray[j]] = j
      BY <2>2, <1>3, <1>6, <3>1 DEF PanelsInv, SideTypeOK
    <3>3. IF displayedItem[sidebarItemArray[j]] = j
          THEN InItsPanel(j) ELSE InBar(j) \/ InWindow(j)
      BY DEF PanelsInv, EveryPanelReachable
    <3> QED
      BY <2>2, <3>1, <3>2, <3>3, <1>3, <1>4 DEF InItsPanel, InBar, InWindow, Items
  <2> QED
    BY <2>1, <2>2
<1>8. ASSUME NEW q \in Positions
      PROVE  (IF q \in visible
              THEN displayedItem[q] \in Items /\ sidebarItemArray[displayedItem[q]] = q
              ELSE displayedItem[q] = Nobody)'
  BY <1>3 DEF PanelsInv, EveryPanelReachable, SideTypeOK, Items
<1> QED
  BY <1>3, <1>5, <1>7, <1>8 DEF PanelsInv, EveryPanelReachable, Items

\* closingSidebarFloatingWindow, of an item's window or of one whose item is gone.
LEMMA ClosingKeeps ==
  ASSUME PanelsInv, NEW i \in Indexes, ClosingSidebarFloatingWindow(i)
  PROVE  PanelsInv'
<1>1. i \in Items => InWindow(i) /\ displayedItem[sidebarItemArray[i]] # i
  BY DEF ClosingSidebarFloatingWindow, PanelsInv, EveryPanelReachable, InItsPanel, InBar
<1>2. SideTypeOK'
  <2>1. content' \in [Items -> {"none", "panel", "window"}]
    BY DEF ClosingSidebarFloatingWindow, PanelsInv, SideTypeOK
  <2> QED
    BY <2>1 DEF ClosingSidebarFloatingWindow, PanelsInv, SideTypeOK, Items
<1>3. ASSUME NEW j \in Items
      PROVE  (IF displayedItem[sidebarItemArray[j]] = j
              THEN InItsPanel(j) ELSE InBar(j) \/ InWindow(j))'
  <2>1. CASE j = i
    BY <2>1, <1>1
    DEF ClosingSidebarFloatingWindow, InWindow, InBar, Items
  <2>2. CASE j # i
    <3>1. IF displayedItem[sidebarItemArray[j]] = j
          THEN InItsPanel(j) ELSE InBar(j) \/ InWindow(j)
      BY DEF PanelsInv, EveryPanelReachable
    <3> QED
      BY <2>2, <3>1 DEF ClosingSidebarFloatingWindow, InItsPanel, InWindow, InBar, Items
  <2> QED
    BY <2>1, <2>2
<1> QED
  BY <1>2, <1>3
  DEF ClosingSidebarFloatingWindow, PanelsInv, EveryPanelReachable, Items

\* A configuration replaces the peripherals' items, wherever they are, and
\* touches no other item.
LEMMA ReplacingKeeps ==
  ASSUME PanelsInv, NEW n \in Nat, ReplacePeripherals(n)
  PROVE  PanelsInv'
<1> DEFINE old == {activePeripheralsPanels[k] : k \in DOMAIN activePeripheralsPanels}
           kept == Items \ old
           closed == {p \in Positions : displayedItem[p] \in old}
           free == Indexes \ (kept \cup windows)
<1>1. PICK new \in [1 .. n -> free] :
        /\ activePeripheralsPanels' = new
        /\ LET added == {new[k] : k \in 1 .. n}
               cleared == added \cup UNION {InPanel(p) : p \in closed}
           IN  /\ sidebarItemArray' = [i \in kept \cup added |->
                                         IF i \in added THEN PERIPHERALS ELSE sidebarItemArray[i]]
               /\ content' = [i \in kept \cup added |->
                                IF i \in cleared THEN "none" ELSE content[i]]
        /\ displayedItem' = [p \in Positions |-> IF p \in closed THEN Nobody ELSE displayedItem[p]]
        /\ visible' = visible \ closed
        /\ opened' = opened \ old /\ hidden' = hidden \ old
        /\ UNCHANGED windows
  BY DEF ReplacePeripherals
<1> DEFINE added == {new[k] : k \in 1 .. n}
<1>2. added \subseteq free
  BY <1>1
<1> HIDE DEF added
<1>3. /\ Items' = kept \cup added
      /\ \A i \in added : sidebarItemArray'[i] = PERIPHERALS
      /\ \A i \in kept : i \notin added /\ sidebarItemArray'[i] = sidebarItemArray[i]
  BY <1>1, <1>2 DEF Items, added
<1>4. \A j \in kept, p \in closed : j \notin InPanel(p)
  BY OnlyDisplayedInPanel
<1>5. /\ content' \in [kept \cup added -> {"none", "panel", "window"}]
      /\ \A i \in added : content'[i] = "none"
      /\ \A i \in kept : content'[i] = content[i]
  <2> DEFINE cleared == added \cup UNION {InPanel(p) : p \in closed}
  <2>1. content' = [i \in kept \cup added |-> IF i \in cleared THEN "none" ELSE content[i]]
    BY <1>1 DEF added
  <2>2. \A i \in kept : i \notin cleared
    BY <1>3, <1>4
  <2>3. \A i \in kept : content[i] \in {"none", "panel", "window"}
    BY DEF PanelsInv, SideTypeOK
  <2> QED
    BY <2>1, <2>2, <2>3
<1>6. SideTypeOK'
  <2>1. sidebarItemArray' \in [kept \cup added -> Positions]
    BY <1>1, SideAssumption DEF added, PanelsInv, SideTypeOK
  <2>2. kept \cup added \subseteq Indexes
    BY <1>2 DEF PanelsInv, SideTypeOK
  <2>3. displayedItem' \in [Positions -> Indexes \cup {Nobody}]
    BY <1>1 DEF PanelsInv, SideTypeOK
  <2>4. opened' \subseteq kept /\ hidden' \subseteq kept
    BY <1>1 DEF PanelsInv, SideTypeOK
  <2>5. activePeripheralsPanels' \in Seq(Indexes)
    BY <1>1
  <2> QED
    BY <1>1, <1>3, <1>5, <2>1, <2>2, <2>3, <2>4, <2>5 DEF PanelsInv, SideTypeOK
<1>7. ASSUME NEW j \in kept \cup added
      PROVE  (IF displayedItem[sidebarItemArray[j]] = j
              THEN InItsPanel(j) ELSE InBar(j) \/ InWindow(j))'
  <2>1. CASE j \in added
    <3>1. j \notin windows' /\ j \notin opened' /\ j \notin hidden'
      BY <2>1, <1>1, <1>2 DEF PanelsInv, SideTypeOK
    <3>2. displayedItem'[PERIPHERALS] # j
      <4>1. CASE displayedItem[PERIPHERALS] = Nobody
        BY <4>1, <1>1, <1>2, <2>1, SideAssumption
      <4>2. CASE displayedItem[PERIPHERALS] # Nobody
        <5>1. displayedItem[PERIPHERALS] \in Items
          BY <4>2, SideAssumption, DisplayedIsShown
        <5> QED
          BY <5>1, <1>1, <1>2, <2>1, SideAssumption
      <4> QED
        BY <4>1, <4>2
    <3> QED
      BY <2>1, <3>1, <3>2, <1>3, <1>5 DEF InBar
  <2>2. CASE j \in kept
    <3> DEFINE p == sidebarItemArray[j]
    <3>1. p \in Positions /\ sidebarItemArray'[j] = p /\ content'[j] = content[j]
      BY <2>2, <1>3, <1>5 DEF PanelsInv, SideTypeOK
    <3>2. Nobody # j
      BY <2>2, SideAssumption DEF PanelsInv, SideTypeOK
    <3>3. displayedItem'[p] = j <=> displayedItem[p] = j
      BY <2>2, <3>1, <3>2, <1>1
    <3>4. displayedItem[p] = j => p \notin closed
      BY <2>2
    <3>5. IF displayedItem[p] = j THEN InItsPanel(j) ELSE InBar(j) \/ InWindow(j)
      BY <2>2 DEF PanelsInv, EveryPanelReachable
    <3> QED
      BY <2>2, <3>1, <3>3, <3>4, <3>5, <1>1 DEF InItsPanel, InBar, InWindow
  <2> QED
    BY <2>1, <2>2
<1>8. ASSUME NEW q \in Positions
      PROVE  (IF q \in visible
              THEN displayedItem[q] \in Items /\ sidebarItemArray[displayedItem[q]] = q
              ELSE displayedItem[q] = Nobody)'
  <2>1. CASE q \in closed
    BY <2>1, <1>1
  <2>2. CASE q \notin closed
    BY <2>2, <1>1, <1>3 DEF PanelsInv, EveryPanelReachable
  <2> QED
    BY <2>1, <2>2
<1>9. \A k \in DOMAIN activePeripheralsPanels' : activePeripheralsPanels'[k] \in Items'
  BY <1>1, <1>3 DEF added
<1> QED
  BY <1>3, <1>6, <1>7, <1>8, <1>9 DEF PanelsInv, EveryPanelReachable

\* The side bar as it is at the start.
LEMMA PanelsInitially == SideInit => PanelsInv
BY SideAssumption
DEF SideInit, PanelsInv, SideTypeOK, EveryPanelReachable, InBar, Items

\* Every panel of every item stays reachable and in one place, whatever the user
\* opens, floats and closes and however many peripherals come and go: the
\* functions on side bar items of Main.qml never lose one.
THEOREM PanelsStayReachable == SideSpec => [](SideTypeOK /\ EveryPanelReachable)
<1>1. ASSUME PanelsInv, SideNext
      PROVE  PanelsInv'
  <2>1. CASE UserClicks
    <3>1. \A i \in Indexes : Display(i) => PanelsInv'
      BY <1>1, DisplayKeeps
    <3>2. \A i \in Indexes : ClosingSidebarFloatingWindow(i) => PanelsInv'
      BY <1>1, ClosingKeeps
    <3>3. \A p \in Positions : Close(p) \/ CreateSidebarFloatingWindow(p) => PanelsInv'
      BY <1>1, LeavingKeeps
    <3> QED
      BY <2>1, <3>1, <3>2, <3>3 DEF UserClicks
  <2>2. CASE \E n \in Nat : ReplacePeripherals(n)
    BY <1>1, <2>2, ReplacingKeeps
  <2> QED
    BY <1>1, <2>1, <2>2 DEF SideNext
<1>2. ASSUME PanelsInv, UNCHANGED sideVars
      PROVE  PanelsInv'
  BY <1>2 DEF PanelsInv, SideTypeOK, EveryPanelReachable, InBar, InWindow, InItsPanel,
              Items, sideVars
<1> QED
  BY <1>1, <1>2, PanelsInitially, PTL DEF SideSpec, PanelsInv

-----------------------------------------------------------------------------
(* The inductive invariant.                                                  *)

\* The phase, the session and the machine at each point of openConfigurationJson
\* and of SetupMemoryTraps_. Devices are registered only once the backend thread
\* is joined, and a machine whose traps are not those of the registered devices
\* is paused only by a late pause.
SessionInv ==
  /\ trapping = "setup" => session # "none" /\ machine /\ phase \in {"kReady", "kTerminated"}
  /\ step \in {"parse", "load", "panels"} => trapping = "stale" /\ session = "none"
  /\ ~machine => session = "none" /\ phase # "kDebugPaused"
  /\ step # "idle" /\ phase = "kDebugPaused" => latePause
  /\ trapping = "stale" /\ machine /\ ~latePause => session = "none" /\ phase # "kDebugPaused"

\* A device object has one name.
Injective(map) == \A m, n \in NameSet : map[m] = map[n] => m = n \/ map[m] = NoDevice

\* loadJSON's map is empty but for the time it takes, and the old devices are
\* gone by then.
MapsInv ==
  /\ Injective(activePeripherals) /\ Injective(data)
  /\ step # "load" => data = NoDevices
  /\ step \in {"parse", "load"} => activePeripherals = NoDevices
  /\ devices = InOrder(activePeripherals)

AllPanelsDead == \A i \in DOMAIN panels : panels[i] = NoDevice

\* Until the new panels are there, all panels have lost their devices.
PanelInv ==
  IF step \in {"idle", "terminate"}
  THEN panels = devices \/ (devices = << >> /\ AllPanelsDead)
  ELSE AllPanelsDead

ConfigInv == TypeOK /\ SessionInv /\ MapsInv /\ PanelInv /\ DevicesHaveCode

-----------------------------------------------------------------------------
(* The devices of a map.                                                     *)

\* The null pointer is the device of no name.
LEMMA NoDevicesType ==
  /\ NoDevices \in [NameSet -> Slots \cup {NoDevice}]
  /\ Injective(NoDevices) /\ Objects(NoDevices) = {}
BY DEF NoDevices, Injective, Objects

\* The devices of a map in order are a list that can be registered: the map's
\* objects, each once.
LEMMA InOrderIsRegistrable ==
  ASSUME NEW map \in [NameSet -> Slots \cup {NoDevice}], Injective(map)
  PROVE  /\ InOrder(map) \in Registrable
         /\ \A i \in DOMAIN InOrder(map) : InOrder(map)[i] \in Objects(map)
<1> DEFINE used == {k \in DOMAIN Names : map[Names[k]] # NoDevice}
           n == Cardinality(used)
           at_(i) == AtPosition(used, i - 1)
<1>1. used \in SUBSET Nat /\ IsFiniteSet(used) /\ n \in Nat
  <2>1. DOMAIN Names = 1 .. Len(Names) /\ Len(Names) \in Nat
    BY ConfigurationAssumption
  <2>2. IsFiniteSet(1 .. Len(Names))
    BY <2>1, FS_Interval
  <2>3. used \in SUBSET (1 .. Len(Names))
    BY <2>1
  <2> QED
    BY <2>1, <2>2, <2>3, FS_Subset, FS_CardinalityType
<1>2. InOrder(map) = [i \in 1 .. n |-> map[Names[at_(i)]]]
  BY DEF InOrder, AtPosition, Position
<1> HIDE DEF used
<1>3. ASSUME NEW i \in 1 .. n
      PROVE  at_(i) \in used /\ Position(used, at_(i)) = i - 1
  <2>1. i - 1 \in Nat /\ i - 1 < n
    BY <1>1
  <2> QED
    BY <1>1, <2>1, AtPositionType
<1>4. ASSUME NEW i \in 1 .. n
      PROVE  map[Names[at_(i)]] \in Slots /\ map[Names[at_(i)]] \in Objects(map)
  BY <1>3, ConfigurationAssumption DEF used, Objects, NameSet
<1>5. ASSUME NEW i \in 1 .. n, NEW j \in 1 .. n, map[Names[at_(i)]] = map[Names[at_(j)]]
      PROVE  i = j
  <2>1. /\ at_(i) \in DOMAIN Names /\ at_(j) \in DOMAIN Names
        /\ Names[at_(i)] \in NameSet /\ Names[at_(j)] \in NameSet
        /\ map[Names[at_(i)]] # NoDevice
    BY <1>3 DEF used, NameSet
  <2>2. Names[at_(i)] = Names[at_(j)]
    BY <1>5, <2>1 DEF Injective
  <2>3. at_(i) = at_(j)
    BY <2>1, <2>2, ConfigurationAssumption
  <2>4. i - 1 = j - 1
    BY <1>3, <2>3
  <2> QED
    BY <1>1, <2>4
<1> HIDE DEF at_, n
<1>6. InOrder(map) \in Seq(Slots) /\ DOMAIN InOrder(map) = 1 .. n
  BY <1>1, <1>2, <1>4 DEF n
<1> QED
  BY <1>2, <1>4, <1>5, <1>6 DEF Registrable

\* Without devices nothing is registered.
LEMMA NoneInOrder == InOrder(NoDevices) = << >>
<1> DEFINE used == {k \in DOMAIN Names : NoDevices[Names[k]] # NoDevice}
<1>1. used = {}
  BY DEF NoDevices, NameSet
<1>2. Cardinality(used) = 0
  BY <1>1, FS_EmptySet
<1> HIDE DEF used
<1>3. 1 .. Cardinality(used) = {}
  BY <1>2
<1> QED
  BY <1>3 DEF InOrder, used

\* What loadJSON has still to load is the rest of a configuration.
LEMMA EntriesWellFormed ==
  ASSUME TypeOK, todo # << >>
  PROVE  /\ Head(todo) \in Entries
         /\ \E f \in Configs : \E i \in 0 .. Len(f.peripherals) :
              Tail(todo) = SubSeq(f.peripherals, i + 1, Len(f.peripherals))
<1>1. PICK f \in Configs : \E i \in 0 .. Len(f.peripherals) :
        todo = SubSeq(f.peripherals, i + 1, Len(f.peripherals))
  BY DEF TypeOK
<1> DEFINE items == f.peripherals
           n == Len(items)
<1>2. items \in Seq(Entries) /\ n \in Nat
  BY ConfigurationAssumption
<1>3. PICK i \in 0 .. n : todo = SubSeq(items, i + 1, n)
  BY <1>1
<1> HIDE DEF items
<1>4. i < n
  BY <1>2, <1>3
<1>5. Head(todo) = items[i + 1] /\ Tail(todo) = SubSeq(items, (i + 1) + 1, n)
  BY <1>2, <1>3, <1>4
<1>6. i + 1 \in 0 .. n /\ i + 1 \in DOMAIN items
  BY <1>2, <1>4
<1>7. /\ i + 1 \in 0 .. Len(f.peripherals)
      /\ Tail(todo) = SubSeq(f.peripherals, (i + 1) + 1, Len(f.peripherals))
  BY <1>5, <1>6 DEF items
<1>8. Head(todo) \in Entries
  BY <1>2, <1>5, <1>6
<1> QED
  BY <1>7, <1>8

\* At the end of a configuration nothing is left to load.
LEMMA NothingLeft ==
  \E f \in Configs : \E i \in 0 .. Len(f.peripherals) :
    << >> = SubSeq(f.peripherals, i + 1, Len(f.peripherals))
<1>1. PICK f \in Configs : f.peripherals \in Seq(Entries)
  BY ConfigurationAssumption
<1>2. Len(f.peripherals) \in 0 .. Len(f.peripherals)
  BY <1>1
<1>3. << >> = SubSeq(f.peripherals, Len(f.peripherals) + 1, Len(f.peripherals))
  <2> DEFINE rest == SubSeq(f.peripherals, Len(f.peripherals) + 1, Len(f.peripherals))
  <2>1. rest \in Seq(Entries) /\ Len(rest) = 0
    BY <1>1
  <2> HIDE DEF rest
  <2>2. rest = << >>
    BY <2>1
  <2> QED
    BY <2>2 DEF rest
<1> QED
  BY <1>2, <1>3

\* A file that was parsed is all left to load.
LEMMA AllLeft ==
  ASSUME NEW file \in Configs
  PROVE  \E f \in Configs : \E i \in 0 .. Len(f.peripherals) :
           file.peripherals = SubSeq(f.peripherals, i + 1, Len(f.peripherals))
<1>1. file.peripherals \in Seq(Entries)
  BY ConfigurationAssumption
<1>2. 0 \in 0 .. Len(file.peripherals)
  BY <1>1
<1>3. file.peripherals = SubSeq(file.peripherals, 0 + 1, Len(file.peripherals))
  BY <1>1
<1> QED
  BY <1>2, <1>3

-----------------------------------------------------------------------------
(* Configuration implements MemoryTraps.                                     *)

\* clear() on the active peripherals registers no device, loadJSON's result the
\* devices it built, and every new device object has a range of its own: steps
\* of RegisterPeripherals. Only a new machine begins a setup.
LEMMA TrapsStep ==
  ASSUME ConfigInv, [Next]_vars
  PROVE  [TrapsNext]_trapVars
<1>1. /\ devices \in Registrable /\ range \in [Slots -> Ranges]
      /\ data \in [NameSet -> Slots \cup {NoDevice}] /\ Injective(data)
  BY DEF ConfigInv, TypeOK, TrapsTypeOK, MapsInv
<1>2. CASE BeginAnew
  BY <1>2 DEF BeginAnew, TrapsNext
<1>3. CASE SetUpTraps
  BY <1>3 DEF SetUpTraps, TrapsNext
<1>4. CASE ClearActivePeripherals
  <2>1. trapping # "setup"
    BY <1>4 DEF ClearActivePeripherals, Joined, ConfigInv, SessionInv
  <2>2. InOrder(Cleared) \in Registrable
    BY NoDevicesType, InOrderIsRegistrable DEF Cleared
  <2> QED
    BY <1>1, <1>4, <2>1, <2>2 DEF ClearActivePeripherals, TrapsNext, RegisterPeripherals
<1>5. CASE LoadEntry
  <2>1. trapping = "stale"
    BY <1>5 DEF LoadEntry, ConfigInv, SessionInv
  <2>2. Head(todo).range \in Ranges
    BY <1>5, EntriesWellFormed DEF LoadEntry, ConfigInv, Entries
  <2>3. range' \in [Slots -> Ranges]
    BY <1>1, <1>5, <2>2 DEF LoadEntry
  <2> QED
    BY <1>1, <1>5, <2>1, <2>3 DEF LoadEntry, TrapsNext, RegisterPeripherals, setup
<1>6. CASE RegisterLoaded
  <2>1. trapping = "stale"
    BY <1>6 DEF RegisterLoaded, ConfigInv, SessionInv
  <2>2. InOrder(data) \in Registrable
    BY <1>1, InOrderIsRegistrable
  <2> QED
    BY <1>1, <1>6, <2>1, <2>2 DEF RegisterLoaded, TrapsNext, RegisterPeripherals
<1>7. CASE \/ Continue \/ Proceed \/ UserActs \/ OpenConfigurationJson \/ ParseFails
           \/ Parse \/ EntryFails \/ AddPanels \/ UNCHANGED vars
  BY <1>7 DEF Continue, Proceed, UserActs, OpenConfigurationJson, ParseFails, Parse,
              EntryFails, AddPanels, Fail, vars
<1> QED
  BY <1>2, <1>3, <1>4, <1>5, <1>6, <1>7 DEF Next

-----------------------------------------------------------------------------
(* The steps keep the invariant.                                             *)

\* The types.
LEMMA TypeKept ==
  ASSUME ConfigInv, Next
  PROVE  TypeOK'
<1>1. TrapsTypeOK'
  <2>1. [TrapsNext]_trapVars
    BY TrapsStep
  <2> QED
    BY <2>1, TrapsTypeKept DEF ConfigInv, TypeOK
<1>2. TypeOK
  BY DEF ConfigInv
<1>3. CASE BeginAnew \/ Continue \/ UserActs \/ Proceed
  <2>1. /\ phase' \in S!Executing \cup {"kDefault", "kReady", "kDebugPaused", "kTerminated"}
        /\ session' \in {"none", "run", "debug"} /\ program' \in Programs \cup {NoProgram}
    BY <1>2, <1>3
    DEF TypeOK, BeginAnew, Continue, UserActs, Proceed, S!Begin, S!Load, S!Ready, S!Terminate,
        S!Report, S!End, S!Reports, S!Executing
  <2>2. UNCHANGED config /\ machine' \in BOOLEAN /\ latePause' \in BOOLEAN
    BY <1>2, <1>3 DEF TypeOK, BeginAnew, Continue, UserActs, Proceed
  <2> QED
    BY <1>1, <1>2, <2>1, <2>2 DEF TypeOK, config
<1>4. CASE SetUpTraps
  BY <1>1, <1>2, <1>4 DEF SetUpTraps, TypeOK, config, sessionVars
<1>5. CASE OpenConfigurationJson
  BY <1>1, <1>2, <1>5 DEF OpenConfigurationJson, PhasesTerminated, TypeOK
<1>6. \A destroyed : CodeWithout(destroyed) \in [Slots -> Dlls \cup {NoDll}]
  BY <1>2 DEF CodeWithout, TypeOK
<1>7. \E f \in Configs : \E i \in 0 .. Len(f.peripherals) :
        << >> = SubSeq(f.peripherals, i + 1, Len(f.peripherals))
  BY NothingLeft
<1>8. CASE ClearActivePeripherals
  <2>1. panels' \in Seq(Slots \cup {NoDevice})
    BY <1>2, <1>8 DEF ClearActivePeripherals, PanelsWithout, TypeOK
  <2> QED
    BY <1>1, <1>2, <1>6, <1>8, <2>1, NoDevicesType
    DEF ClearActivePeripherals, TypeOK, sessionVars, Cleared
<1>9. CASE ParseFails \/ EntryFails
  BY <1>1, <1>2, <1>6, <1>7, <1>9, NoDevicesType
  DEF ParseFails, EntryFails, Fail, TypeOK, sessionVars
<1>10. CASE Parse
  <2>1. \E f \in Configs : \E i \in 0 .. Len(f.peripherals) :
          todo' = SubSeq(f.peripherals, i + 1, Len(f.peripherals))
    BY <1>10, AllLeft DEF Parse
  <2> QED
    BY <1>1, <1>2, <1>10, <2>1 DEF Parse, TypeOK, sessionVars
<1>11. CASE LoadEntry
  <2>1. /\ Head(todo).name \in NameSet /\ Head(todo).dll \in Dlls
        /\ \E f \in Configs : \E i \in 0 .. Len(f.peripherals) :
             todo' = SubSeq(f.peripherals, i + 1, Len(f.peripherals))
    BY <1>2, <1>11, EntriesWellFormed DEF LoadEntry, Entries
  <2>2. data' \in [NameSet -> Slots \cup {NoDevice}] /\ code' \in [Slots -> Dlls \cup {NoDll}]
    <3> DEFINE item == Head(todo)
               left == CodeWithout({data[item.name]})
    <3>1. PICK d \in Slots : /\ code' = [left EXCEPT ![d] = item.dll]
                             /\ data' = [data EXCEPT ![item.name] = d]
      BY <1>11 DEF LoadEntry
    <3>2. data \in [NameSet -> Slots \cup {NoDevice}] /\ left \in [Slots -> Dlls \cup {NoDll}]
      BY <1>2, <1>6 DEF TypeOK
    <3>3. item.name \in NameSet /\ item.dll \in Dlls
      BY <2>1
    <3> HIDE DEF item, left
    <3> QED
      BY <3>1, <3>2, <3>3
  <2> QED
    BY <1>1, <1>2, <1>11, <2>1, <2>2 DEF LoadEntry, TypeOK, sessionVars
<1>12. CASE RegisterLoaded
  BY <1>1, <1>2, <1>12, NoDevicesType DEF RegisterLoaded, TypeOK, sessionVars
<1>13. CASE AddPanels
  <2>1. devices \in Seq(Slots \cup {NoDevice})
    BY <1>2 DEF TypeOK, TrapsTypeOK, Registrable
  <2> QED
    BY <1>1, <1>2, <1>13, <2>1 DEF AddPanels, PanelsShown, TypeOK, sessionVars
<1> QED
  BY <1>3, <1>4, <1>5, <1>8, <1>9, <1>10, <1>11, <1>12, <1>13 DEF Next

\* The session, the phase and the setup of the traps.
LEMMA SessionKept ==
  ASSUME ConfigInv, Next
  PROVE  SessionInv'
<1>1. SessionInv /\ trapping \in {"setup", "set", "stale"}
      /\ session \in {"none", "run", "debug"} /\ machine \in BOOLEAN /\ latePause \in BOOLEAN
      /\ step \in {"idle", "terminate", "parse", "load", "panels"}
  BY DEF ConfigInv, TypeOK, TrapsTypeOK
<1> USE DEF SessionInv
<1>2. CASE BeginAnew
  BY <1>1, <1>2 DEF BeginAnew, BeginSetup, S!Begin, config
<1>3. CASE Continue
  BY <1>1, <1>3 DEF Continue, S!Begin, trapVars, setup, config
<1>4. CASE SetUpTraps
  BY <1>1, <1>4
  DEF SetUpTraps, SetupStep, MapPage, NextDevice, FinishSetup, sessionVars, config
<1>5. CASE Proceed
  BY <1>1, <1>5 DEF Proceed, S!Report, S!End, S!Reports, trapVars, setup, config
<1>6. CASE UserActs
  BY <1>1, <1>6 DEF UserActs, S!Load, S!Ready, S!Terminate, trapVars, setup, config
<1>7. CASE OpenConfigurationJson
  BY <1>1, <1>7 DEF OpenConfigurationJson, PhasesTerminated, trapVars, setup
<1>8. CASE ClearActivePeripherals
  BY <1>1, <1>8 DEF ClearActivePeripherals, Joined, sessionVars
<1>9. CASE ParseFails \/ Parse \/ EntryFails \/ AddPanels
  BY <1>1, <1>9 DEF ParseFails, Parse, EntryFails, AddPanels, Fail, trapVars, setup, sessionVars
<1>10. CASE LoadEntry \/ RegisterLoaded
  BY <1>1, <1>10 DEF LoadEntry, RegisterLoaded, setup, sessionVars
<1> QED
  BY <1>2, <1>3, <1>4, <1>5, <1>6, <1>7, <1>8, <1>9, <1>10 DEF Next

\* A device object that loadJSON builds is not one that exists.
LEMMA EntryLoaded ==
  ASSUME ConfigInv, LoadEntry
  PROVE  /\ Injective(data')
         /\ Objects(activePeripherals') = {}
         /\ \A x \in Objects(data') : code'[x] \in libLoaders'
<1> DEFINE item == Head(todo)
<1>1. /\ data \in [NameSet -> Slots \cup {NoDevice}] /\ code \in [Slots -> Dlls \cup {NoDll}]
      /\ Injective(data) /\ DevicesHaveCode /\ NoDevice \notin Slots
      /\ activePeripherals = NoDevices
  BY TrapsAssumption DEF ConfigInv, TypeOK, MapsInv, LoadEntry
<1>2. item.name \in NameSet
  BY EntriesWellFormed DEF LoadEntry, Entries, ConfigInv
<1>3. PICK d \in Slots \ LiveDevices :
        /\ code' = [CodeWithout({data[item.name]}) EXCEPT ![d] = item.dll]
        /\ data' = [data EXCEPT ![item.name] = d]
  BY DEF LoadEntry
<1>4. libLoaders' = libLoaders \cup {item.dll} /\ activePeripherals' = activePeripherals
  BY DEF LoadEntry
<1> HIDE DEF item
<1>5. \A n \in NameSet : data[n] # d
  BY <1>1, <1>3 DEF LiveDevices, Objects
<1>6. Injective(data')
  BY <1>1, <1>2, <1>3, <1>5 DEF Injective
<1>7. ASSUME NEW x \in Objects(data')
      PROVE  code'[x] \in libLoaders'
  <2>1. PICK n \in NameSet : x = data'[n] /\ x # NoDevice
    BY DEF Objects
  <2>2. CASE n = item.name
    <3>1. x = d
      BY <1>1, <1>2, <1>3, <2>1, <2>2
    <3> QED
      BY <1>1, <1>3, <1>4, <3>1 DEF CodeWithout
  <2>3. CASE n # item.name
    <3>1. x = data[n] /\ x \in Slots
      BY <1>1, <1>2, <1>3, <2>1, <2>3
    <3>2. x # d /\ x # data[item.name] /\ x \in LiveDevices
      BY <1>1, <1>2, <1>5, <2>1, <2>3, <3>1 DEF Injective, LiveDevices, Objects
    <3>3. code'[x] = code[x]
      BY <1>3, <3>1, <3>2 DEF CodeWithout
    <3> QED
      BY <1>1, <1>4, <3>2, <3>3 DEF DevicesHaveCode
  <2> QED
    BY <2>2, <2>3
<1>8. Objects(activePeripherals') = {}
  BY <1>1, <1>4, NoDevicesType
<1> QED
  BY <1>6, <1>7, <1>8

\* The maps of devices.
LEMMA MapsKept ==
  ASSUME ConfigInv, Next
  PROVE  MapsInv'
<1>1. MapsInv
  BY DEF ConfigInv
<1> USE DEF MapsInv
<1>2. CASE BeginAnew \/ Continue \/ SetUpTraps \/ Proceed \/ UserActs
  <2>1. UNCHANGED <<activePeripherals, data, step, devices>>
    BY <1>2
    DEF BeginAnew, BeginSetup, Continue, SetUpTraps, SetupStep, MapPage, NextDevice, FinishSetup,
        Proceed, UserActs, config, trapVars
  <2> QED
    BY <1>1, <2>1 DEF InOrder, Injective
<1>3. CASE OpenConfigurationJson
  BY <1>1, <1>3 DEF OpenConfigurationJson, trapVars, InOrder, Injective
<1>4. CASE ClearActivePeripherals
  BY <1>1, <1>4, NoDevicesType DEF ClearActivePeripherals, Cleared, InOrder, Injective
<1>5. CASE ParseFails \/ EntryFails
  <2>1. UNCHANGED <<activePeripherals, devices>> /\ data' = NoDevices /\ step' = "idle"
    BY <1>5 DEF ParseFails, EntryFails, Fail, trapVars
  <2>2. Injective(data')
    BY <2>1, NoDevicesType
  <2> QED
    BY <1>1, <2>1, <2>2 DEF InOrder, Injective
<1>6. CASE Parse
  BY <1>1, <1>6 DEF Parse, trapVars, InOrder, Injective
<1>7. CASE LoadEntry
  <2>1. UNCHANGED <<activePeripherals, devices, step>> /\ step = "load"
    BY <1>7 DEF LoadEntry
  <2>2. Injective(data')
    BY <1>7, EntryLoaded
  <2>3. Injective(activePeripherals') /\ devices' = InOrder(activePeripherals')
    BY <1>1, <2>1
  <2> QED
    BY <1>1, <2>1, <2>2, <2>3
<1>8. CASE RegisterLoaded
  BY <1>1, <1>8, NoDevicesType DEF RegisterLoaded, InOrder, Injective
<1>9. CASE AddPanels
  BY <1>1, <1>9 DEF AddPanels, trapVars, InOrder, Injective
<1> QED
  BY <1>2, <1>3, <1>4, <1>5, <1>6, <1>7, <1>8, <1>9 DEF Next

\* The panels: only clear() destroys devices that have panels, and it destroys
\* all of them.
LEMMA PanelsKept ==
  ASSUME ConfigInv, Next
  PROVE  PanelInv'
<1>1. /\ PanelInv /\ panels \in Seq(Slots \cup {NoDevice}) /\ devices \in Seq(Slots)
      /\ step \in {"idle", "terminate", "parse", "load", "panels"}
  BY DEF ConfigInv, TypeOK, TrapsTypeOK, Registrable
<1> USE DEF PanelInv, AllPanelsDead
<1>2. CASE BeginAnew \/ Continue \/ SetUpTraps \/ Proceed \/ UserActs
  <2>1. UNCHANGED <<panels, step, devices>>
    BY <1>2
    DEF BeginAnew, BeginSetup, Continue, SetUpTraps, SetupStep, MapPage, NextDevice, FinishSetup,
        Proceed, UserActs, config, trapVars
  <2> QED
    BY <1>1, <2>1
<1>3. CASE OpenConfigurationJson
  BY <1>1, <1>3 DEF OpenConfigurationJson, trapVars
<1>4. CASE ClearActivePeripherals
  <2>1. Objects(Cleared) = {}
    BY NoDevicesType DEF Cleared
  <2>2. \A i \in DOMAIN panels : panels[i] \in LiveDevices \/ panels[i] = NoDevice
    <3>1. CASE panels = devices
      BY <3>1, InOrderIsRegistrable DEF ConfigInv, TypeOK, MapsInv, LiveDevices
    <3>2. CASE AllPanelsDead
      BY <3>2
    <3> QED
      BY <1>1, <1>4, <3>1, <3>2 DEF ClearActivePeripherals
  <2>3. panels' = [i \in DOMAIN panels |-> NoDevice]
    BY <1>4, <2>1, <2>2 DEF ClearActivePeripherals, PanelsWithout
  <2> QED
    BY <1>4, <2>3 DEF ClearActivePeripherals
<1>5. CASE ParseFails \/ EntryFails
  <2>1. devices = << >>
    BY <1>5, NoneInOrder DEF ParseFails, EntryFails, ConfigInv, MapsInv
  <2> QED
    BY <1>1, <1>5, <2>1 DEF ParseFails, EntryFails, Fail, trapVars
<1>6. CASE Parse \/ LoadEntry \/ RegisterLoaded
  BY <1>1, <1>6 DEF Parse, LoadEntry, RegisterLoaded
<1>7. CASE AddPanels
  BY <1>1, <1>7 DEF AddPanels, PanelsShown, trapVars
<1> QED
  BY <1>2, <1>3, <1>4, <1>5, <1>6, <1>7 DEF Next

\* The libraries: loadJSON closes them when no device is left.
LEMMA CodeKept ==
  ASSUME ConfigInv, Next
  PROVE  DevicesHaveCode'
<1>1. DevicesHaveCode /\ MapsInv
  BY DEF ConfigInv
<1>2. CASE BeginAnew \/ Continue \/ SetUpTraps \/ Proceed \/ UserActs
           \/ OpenConfigurationJson \/ AddPanels
  <2>1. UNCHANGED <<activePeripherals, data, code, libLoaders>>
    BY <1>2 DEF BeginAnew, Continue, SetUpTraps, Proceed, UserActs, OpenConfigurationJson,
                AddPanels, config
  <2> QED
    BY <1>1, <2>1 DEF DevicesHaveCode, LiveDevices, Objects
<1>3. CASE ClearActivePeripherals \/ ParseFails \/ EntryFails \/ Parse
  <2>1. activePeripherals' = NoDevices /\ data' = NoDevices
    BY <1>1, <1>3
    DEF ClearActivePeripherals, Cleared, ParseFails, EntryFails, Fail, Parse, MapsInv
  <2>2. LiveDevices' = {}
    BY <2>1, NoDevicesType DEF LiveDevices, Objects
  <2> QED
    BY <2>2 DEF DevicesHaveCode
<1>4. CASE LoadEntry
  <2>1. LiveDevices' = Objects(data')
    BY <1>4, EntryLoaded DEF LiveDevices, Objects
  <2> QED
    BY <1>4, <2>1, EntryLoaded DEF DevicesHaveCode
<1>5. CASE RegisterLoaded
  <2>1. LiveDevices' = Objects(data)
    BY <1>5, NoDevicesType DEF RegisterLoaded, LiveDevices, Objects
  <2> QED
    BY <1>1, <1>5, <2>1 DEF RegisterLoaded, DevicesHaveCode, LiveDevices
<1> QED
  BY <1>2, <1>3, <1>4, <1>5 DEF Next

-----------------------------------------------------------------------------
(* The theorems.                                                             *)

\* The invariant at the start.
LEMMA ConfigInitially == Init => ConfigInv
<1> SUFFICES ASSUME Init PROVE ConfigInv
  OBVIOUS
<1>1. TrapsTypeOK
  BY TrapsTypesInitially DEF Init
<1>2. /\ panels = << >> /\ devices = << >> /\ todo = << >> /\ step = "idle"
      /\ activePeripherals = NoDevices /\ data = NoDevices /\ libLoaders = {}
      /\ trapping = "set" /\ machine = FALSE /\ latePause = FALSE
      /\ phase = "kDefault" /\ session = "none" /\ program = NoProgram
      /\ code = [d \in Slots |-> NoDll]
  BY DEF Init, TrapsInit, S!Init
<1>3. TypeOK
  <2>1. \E f \in Configs : \E i \in 0 .. Len(f.peripherals) :
          todo = SubSeq(f.peripherals, i + 1, Len(f.peripherals))
    BY <1>2, NothingLeft
  <2>2. panels \in Seq(Slots \cup {NoDevice}) /\ code \in [Slots -> Dlls \cup {NoDll}]
    BY <1>2
  <2>3. {activePeripherals, data} \subseteq [NameSet -> Slots \cup {NoDevice}]
    BY <1>2, NoDevicesType
  <2> QED
    BY <1>1, <1>2, <2>1, <2>2, <2>3 DEF TypeOK
<1>4. MapsInv
  BY <1>2, NoDevicesType, NoneInOrder DEF MapsInv
<1>5. DevicesHaveCode
  BY <1>2, NoDevicesType DEF DevicesHaveCode, LiveDevices
<1> QED
  BY <1>2, <1>3, <1>4, <1>5 DEF ConfigInv, SessionInv, PanelInv

\* The invariant at every step.
LEMMA ConfigKept ==
  ASSUME ConfigInv, [Next]_vars
  PROVE  ConfigInv'
<1>1. CASE Next
  BY <1>1, TypeKept, SessionKept, MapsKept, PanelsKept, CodeKept DEF ConfigInv
<1>2. CASE UNCHANGED vars
  <2>1. TypeOK'
    BY <1>2, TrapsStep, TrapsTypeKept
    DEF ConfigInv, TypeOK, vars, sessionVars, config
  <2>2. UNCHANGED <<devices, trapping, phase, session, machine, activePeripherals, code, data,
                    libLoaders, panels, step, latePause>>
    BY <1>2 DEF vars, trapVars, setup, sessionVars, config
  <2>3. SessionInv' /\ PanelInv'
    BY <2>2 DEF ConfigInv, SessionInv, PanelInv, AllPanelsDead
  <2>4. MapsInv'
    BY <2>2 DEF ConfigInv, MapsInv, InOrder, Injective
  <2>5. DevicesHaveCode'
    BY <2>2 DEF ConfigInv, DevicesHaveCode, LiveDevices, Objects
  <2> QED
    BY <2>1, <2>3, <2>4, <2>5 DEF ConfigInv
<1> QED
  BY <1>1, <1>2

\* The user who arranges the side bar changes nothing of the configuration: the
\* composition with the side bar is one with configurations and sessions.
THEOREM SideBarLeavesConfiguration == PanelsSpec => Spec
<1>1. [PanelsNext]_<<vars, sideVars>> => [Next]_vars
  BY DEF PanelsNext, ConfigurationStep, Arrange
<1> QED
  BY <1>1, PTL DEF PanelsSpec, PanelsInit, Spec

\* The inductive invariant of openConfigurationJson, loadJSON and the sessions.
THEOREM ConfigurationInvariant == PanelsSpec => []ConfigInv
<1>1. ConfigInv /\ [Next]_vars => ConfigInv'
  BY ConfigKept
<1>2. Spec => []ConfigInv
  BY <1>1, ConfigInitially, PTL DEF Spec
<1> QED
  BY <1>2, SideBarLeavesConfiguration, PTL

\* The types of the run's variables.
THEOREM ConfigurationTypeCorrect == PanelsSpec => []TypeOK
<1>1. ConfigInv => TypeOK
  BY DEF ConfigInv
<1> QED
  BY <1>1, ConfigurationInvariant, PTL

\* No device outlives the library its code is in, whatever entries fail and
\* whatever names a file uses twice (loadJSON, ConfigLoader.cpp).
THEOREM DevicesKeepTheirCode == PanelsSpec => []DevicesHaveCode
<1>1. ConfigInv => DevicesHaveCode
  BY DEF ConfigInv
<1> QED
  BY <1>1, ConfigurationInvariant, PTL

\* Between configurations the panels are those of the registered devices, or
\* their devices are gone (openConfigurationJson, UiController.cpp).
THEOREM PanelsBelongToDevices == PanelsSpec => []PanelsMatchDevices
<1>1. ConfigInv => PanelsMatchDevices
  BY DEF ConfigInv, PanelInv, AllPanelsDead, PanelsMatchDevices
<1> QED
  BY <1>1, ConfigurationInvariant, PTL

\* The only way to execute with the traps of devices that are gone is a late
\* kDebugPaused (terminateProgram before ClearActivePeripherals).
THEOREM StaleAfterLatePauseOnly == PanelsSpec => []StaleOnlyAfterLatePause
<1>1. ConfigInv => StaleOnlyAfterLatePause
  BY DEF ConfigInv, SessionInv, StaleOnlyAfterLatePause, MayExecute
<1> QED
  BY <1>1, ConfigurationInvariant, PTL

\* Configurations and sessions do to the memory traps only what MemoryTraps
\* allows.
THEOREM ConfigurationImplementsTraps == PanelsSpec => ImplementsTraps
<1>1. ConfigInv /\ [Next]_vars => [TrapsNext]_trapVars
  BY TrapsStep
<1>2. Init => TrapsInit
  BY DEF Init
<1> QED
  BY <1>1, <1>2, ConfigurationInvariant, SideBarLeavesConfiguration, PTL
  DEF Spec, ImplementsTraps, TrapsSpec

\* So every access reaches the device that owns its address, with the devices
\* of any sequence of configurations and machines.
THEOREM DispatchWithConfigurations == PanelsSpec => []DispatchCorrect
BY ConfigurationImplementsTraps, DispatchIsCorrect, PTL DEF ImplementsTraps

\* The side bar only sees configurations replace the peripherals' items, so every
\* panel stays reachable (addPeripherals of Main.qml with the panels of
\* openConfigurationJson).
THEOREM PanelsReachableWithConfigurations == PanelsSpec => []EveryPanelReachable
<1>1. ConfigInv /\ [PanelsNext]_<<vars, sideVars>> => [SideNext]_sideVars
  <2> SUFFICES ASSUME ConfigInv, [PanelsNext]_<<vars, sideVars>>
               PROVE  [SideNext]_sideVars
    OBVIOUS
  <2>1. Len(devices) \in Nat
    BY DEF ConfigInv, TypeOK, TrapsTypeOK, Registrable
  <2>2. CASE ConfigurationStep
    BY <2>1, <2>2 DEF ConfigurationStep, ItemsForDevices, SideNext
  <2>3. CASE Arrange
    BY <2>3 DEF Arrange, SideNext
  <2> QED
    BY <2>2, <2>3 DEF PanelsNext
<1>2. PanelsSpec => SideSpec
  BY <1>1, ConfigurationInvariant, PTL DEF PanelsSpec, PanelsInit, SideSpec
<1> QED
  BY <1>2, PanelsStayReachable, PTL

===============================================================================
