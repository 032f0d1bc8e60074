--------------------------- MODULE MCConfiguration ---------------------------
(* Pages of two addresses, a guest space of three pages and words of four.   *)
(* Two names; configurations with one and two devices, with ranges that      *)
(* share a page, cross pages, end on a page boundary, are empty or leave the *)
(* guest's space, with a name used twice, and failing at every step. The side *)
(* bar has the memory panel's item, and room for three more.                 *)
EXTENDS DevicePanels

CONSTANTS d1, d2, dllA, dllB, prog

MCNames == <<"gpio", "uart">>

Item(name, first, last, dll, outcome) ==
  [name |-> name, range |-> [start |-> first, end |-> last], dll |-> dll, outcome |-> outcome]
Json(items) == [json |-> TRUE, peripherals |-> items]

MCConfigs ==
  {[json |-> FALSE, peripherals |-> << >>], Json(<< >>),
   Json(<<Item("uart", 4, 4, dllB, "ok"), Item("gpio", 0, 2, dllA, "ok")>>),
   Json(<<Item("gpio", 1, 3, dllA, "ok"), Item("uart", 3, 5, dllB, "ok")>>),
   Json(<<Item("gpio", 7, 7, dllA, "ok"), Item("uart", 6, 7, dllB, "ok")>>),
   Json(<<Item("gpio", 0, 1, dllA, "ok"), Item("uart", 2, 3, dllB, "no symbols")>>),
   Json(<<Item("gpio", 0, 1, dllA, "ok"), Item("gpio", 4, 6, dllB, "ok")>>),
   Json(<<Item("gpio", 0, 1, dllB, "mistyped")>>)}

MCIndexes == 0 .. 3
MCPositions == {"LEFT", "BOTTOM"}
MCFixedItems == [i \in {0} |-> "BOTTOM"]
MCNobody == -1
=============================================================================
