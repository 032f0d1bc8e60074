------------------------------ MODULE SidePanels ------------------------------
(***************************************************************************)
(* The side bar of src/ui/qml/views/Main.qml: items with a button and a    *)
(* content, which is shown in the side panel of the item's position or in  *)
(* a floating window, and the items of peripherals, which come and go with *)
(* configurations.                                                         *)
(*                                                                         *)
(* An item's index in sidebarItemArray only identifies it. Here an index   *)
(* is given again once its item is removed and has no window.              *)
(***************************************************************************)
EXTENDS Integers, Sequences, FiniteSets

CONSTANTS
  Indexes,          \* of sidebarItemArray
  Positions,        \* SidePanelPositions
  FixedItems,       \* positions of the items made at the start
  PERIPHERALS,      \* the position of the peripherals' items: BOTTOM
  MaxWindows,       \* bound: floating windows beyond which the user opens none
  Nobody            \* -1

ASSUME SideAssumption ==
  /\ Indexes \subseteq Int /\ Nobody \notin Indexes
  /\ PERIPHERALS \in Positions
  /\ DOMAIN FixedItems \subseteq Indexes
  /\ FixedItems \in [DOMAIN FixedItems -> Positions]

VARIABLES
  sidebarItemArray,  \* the position of each item there is
  displayedItem,     \* leftDisplayedItem, rightDisplayedItem, bottomDisplayedItem
  content,           \* where the content of each item is to be seen
  visible,           \* positions whose side panel is visible
  opened,            \* items whose button has the state "OPENED"
  hidden,            \* items whose button is invisible
  windows,           \* items that the open floating windows were made for
  activePeripheralsPanels

sideVars == <<sidebarItemArray, displayedItem, content, visible, opened, hidden,
              windows, activePeripheralsPanels>>

Items == DOMAIN sidebarItemArray

SideTypeOK ==
  /\ Items \subseteq Indexes /\ sidebarItemArray \in [Items -> Positions]
  /\ displayedItem \in [Positions -> Indexes \cup {Nobody}]
  /\ content \in [Items -> {"none", "panel", "window"}]
  /\ visible \subseteq Positions
  /\ opened \subseteq Items /\ hidden \subseteq Items
  /\ windows \subseteq Indexes
  /\ activePeripheralsPanels \in Seq(Indexes)

SideInit ==
  /\ sidebarItemArray = FixedItems
  /\ displayedItem = [p \in Positions |-> Nobody]
  /\ content = [i \in DOMAIN FixedItems |-> "none"]
  /\ visible = {} /\ opened = {} /\ hidden = {} /\ windows = {}
  /\ activePeripheralsPanels = << >>

\* children of a position's panel.
InPanel(p) == {i \in Items : sidebarItemArray[i] = p /\ content[i] = "panel"}

-----------------------------------------------------------------------------
(* The user.                                                                 *)

\* sidebarButtonClicked for an item that is not displayed: clearSidePanel, and
\* the item's content becomes the only child of the panel.
Display(i) ==
  LET p == sidebarItemArray[i]
  IN  /\ i \in Items \ hidden /\ displayedItem[p] # i
      /\ displayedItem' = [displayedItem EXCEPT ![p] = i]
      /\ content' = [j \in Items |-> IF j = i THEN "panel"
                                     ELSE IF j \in InPanel(p) THEN "none" ELSE content[j]]
      /\ visible' = visible \cup {p}
      /\ opened' = (opened \ {displayedItem[p]}) \cup {i}
      /\ UNCHANGED <<sidebarItemArray, hidden, windows, activePeripheralsPanels>>

\* closeSidePanel, of a panel that displays an item.
CloseSidePanel(p) ==
  /\ displayedItem' = [displayedItem EXCEPT ![p] = Nobody]
  /\ visible' = visible \ {p}
  /\ opened' = opened \ {displayedItem[p]}

\* sidebarButtonClicked for the displayed item, or the panel's close button.
Close(p) ==
  /\ p \in visible /\ displayedItem[p] # Nobody
  /\ CloseSidePanel(p)
  /\ content' = [j \in Items |-> IF j \in InPanel(p) THEN "none" ELSE content[j]]
  /\ UNCHANGED <<sidebarItemArray, hidden, windows, activePeripheralsPanels>>

\* Mutant: the button stays.
ButtonKept(i) == hidden

ButtonHidden(i) == hidden \cup {i}

CreateSidebarFloatingWindow(p) ==
  LET i == displayedItem[p]
  IN  /\ p \in visible /\ i # Nobody
      /\ Cardinality(windows) < MaxWindows
      /\ CloseSidePanel(p)
      /\ content' = [j \in Items |-> IF j = i THEN "window"
                                     ELSE IF j \in InPanel(p) THEN "none" ELSE content[j]]
      /\ windows' = windows \cup {i} /\ hidden' = ButtonHidden(i)
      /\ UNCHANGED <<sidebarItemArray, activePeripheralsPanels>>

\* The window of an item that was removed meanwhile closes all the same, with an
\* error in the handler.
ClosingSidebarFloatingWindow(i) ==
  /\ i \in windows
  /\ windows' = windows \ {i} /\ hidden' = hidden \ {i}
  /\ content' = [j \in Items |-> IF j = i THEN "none" ELSE content[j]]
  /\ UNCHANGED <<sidebarItemArray, displayedItem, visible, opened, activePeripheralsPanels>>

UserClicks ==
  \/ \E i \in Indexes : Display(i) \/ ClosingSidebarFloatingWindow(i)
  \/ \E p \in Positions : Close(p) \/ CreateSidebarFloatingWindow(p)

-----------------------------------------------------------------------------
(* Signals of the controller.                                                *)

\* removeAllPeripherals (removeSideBarItem of each of the peripherals' items),
\* and newPanelAdded for the panels of n devices.
ReplacePeripherals(n) ==
  LET old == {activePeripheralsPanels[k] : k \in DOMAIN activePeripheralsPanels}
      kept == Items \ old
      closed == {p \in Positions : displayedItem[p] \in old}
      free == Indexes \ (kept \cup windows)
  IN  \E new \in [1 .. n -> free] :
        /\ \A k \in 1 .. n : Cardinality({i \in free : i < new[k]}) = k - 1
        /\ activePeripheralsPanels' = new
        /\ LET added == {new[k] : k \in 1 .. n}
               cleared == added \cup UNION {InPanel(p) : p \in closed}
           IN  /\ sidebarItemArray' = [i \in kept \cup added |->
                                         IF i \in added THEN PERIPHERALS ELSE sidebarItemArray[i]]
               /\ content' = [i \in kept \cup added |->
                                IF i \in cleared THEN "none" ELSE content[i]]
        /\ displayedItem' = [p \in Positions |-> IF p \in closed THEN Nobody ELSE displayedItem[p]]
        /\ visible' = visible \ closed
        /\ opened' = opened \ old /\ hidden' = hidden \ old
        /\ UNCHANGED windows

SideNext == UserClicks \/ \E n \in Nat : ReplacePeripherals(n)
SideSpec == SideInit /\ [][SideNext]_sideVars

-----------------------------------------------------------------------------
(* Properties.                                                               *)

\* The three ways an item can be in: its button in the bar opens it, the panel
\* of its position shows it, or a window of its own does.
InBar(i) ==
  i \notin opened \cup hidden \cup windows /\ content[i] = "none"
InItsPanel(i) ==
  /\ content[i] = "panel" /\ sidebarItemArray[i] \in visible
  /\ i \in opened \ (hidden \cup windows)
InWindow(i) ==
  content[i] = "window" /\ i \in windows \cap hidden /\ i \notin opened

\* The user can always get at every item's content, in one place, whatever has
\* been opened, floated and closed and however often the peripherals have been
\* replaced in between; a side panel is visible only while it shows an item, so
\* that its controls find one.
EveryPanelReachable ==
  /\ \A i \in Items :
       IF displayedItem[sidebarItemArray[i]] = i THEN InItsPanel(i) ELSE InBar(i) \/ InWindow(i)
  /\ \A p \in Positions :
       IF p \in visible
       THEN displayedItem[p] \in Items /\ sidebarItemArray[displayedItem[p]] = p
       ELSE displayedItem[p] = Nobody
  /\ \A k \in DOMAIN activePeripheralsPanels : activePeripheralsPanels[k] \in Items
===============================================================================
