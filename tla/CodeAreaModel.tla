--------------------------- MODULE CodeAreaModel ----------------------------
(***************************************************************************)
(* The model behind the disassembly view (src/ui/qml/models/CodeAreaModel): *)
(* one row per instruction, the rows that carry a breakpoint mark, and the *)
(* highlighted row.  Rows count from 1; 0 stands for the code's -1.        *)
(*                                                                         *)
(* A mark is only the view's half of a breakpoint.  The other half is the  *)
(* emulator's address set, which the model's addBreakpoint and             *)
(* removeBreakpoint signals update through direct connections; an operator *)
(* below takes that set and returns what the signals make of it.           *)
(***************************************************************************)
EXTENDS Naturals, Sequences

VARIABLES lineNumbers,     \* _lineNumbers, the address of each row
          breakpointIds,   \* rows with a breakpoint mark
          highlightedLine  \* _highlightedLine

codeVars == <<lineNumbers, breakpointIds, highlightedLine>>

Rows == DOMAIN lineNumbers

MarkedAddresses == {lineNumbers[row] : row \in breakpointIds}

CodeTypeOK(A) ==
  /\ lineNumbers \in Seq(A)
  /\ breakpointIds \in SUBSET Rows
  /\ highlightedLine \in Rows \cup {0}

CodeInit == lineNumbers = <<>> /\ breakpointIds = {} /\ highlightedLine = 0

\* No address is on two rows.
Injective(rows) == \A i, j \in DOMAIN rows : rows[i] = rows[j] => i = j

\* Mutant: the row is one too far, as when rows that count from 0 and rows
\* that count from 1 are mixed up.
RowAfter(a) ==
  IF \E row \in Rows : lineNumbers[row] = a
    THEN 1 + (CHOOSE row \in Rows : lineNumbers[row] = a)
    ELSE 0

\* stepTo(a): the row that shows address a, 0 when there is none.
RowOf(a) ==
  IF \E row \in Rows : lineNumbers[row] = a
    THEN CHOOSE row \in Rows : lineNumbers[row] = a
    ELSE 0

\* Mutant: the marks are cleared and no signal is emitted.
AfterSilentRemoveAll(addresses) == addresses

\* removeAllBreakpoints: removeBreakpoint is emitted for every mark.
AfterRemoveAll(addresses) == addresses \ MarkedAddresses

\* toggleBreakpoint(row) emits one of the two signals.
AfterToggle(row, addresses) ==
  IF row \in breakpointIds THEN addresses \ {lineNumbers[row]}
                           ELSE addresses \cup {lineNumbers[row]}

ToggleMark(row) ==
  breakpointIds' = IF row \in breakpointIds THEN breakpointIds \ {row}
                                            ELSE breakpointIds \cup {row}

\* updateDisassembly: the marks go (by the old rows' addresses), then the rows.
UpdateDisassembly(listing) ==
  /\ breakpointIds' = {}
  /\ lineNumbers' = listing
  /\ highlightedLine' = 0
=============================================================================
