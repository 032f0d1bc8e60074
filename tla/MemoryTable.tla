----------------------------- MODULE MemoryTable -----------------------------
(***************************************************************************)
(* The memory panel: MemoryTableModel and MemoryPageModel of               *)
(* src/ui/qml/models/MemoryTableModel.cpp, refreshMemory of                *)
(* UiController.cpp and the controls of MemoryAreaPanel.qml, while guest   *)
(* programs map, write and unmap pages and machines come and go.           *)
(*                                                                         *)
(* The model knows the page map by its address only, and caches the page   *)
(* numbers in order; the table view keeps what it has read from the model. *)
(* The guest runs on the backend thread: what the GUI thread reads of the  *)
(* map meanwhile, or of the map of a deleted machine, is Undefined.        *)
(***************************************************************************)
EXTENDS Integers, FiniteSets

CONSTANTS
  PageSize,     \* RISCV_PAGE_SIZE
  PageNumbers,  \* page numbers of the guest
  Contents,     \* contents a page may have
  Columns,      \* choices of the "Columns" box
  Machines,     \* addresses the heap may give to a machine and its page map
  Height,       \* rows the table view has room for
  Null,         \* nullptr
  Undefined     \* what reading freed memory or past the last page gives

\* An empty cell.
Blank == "blank"

ASSUME TableAssumption ==
  /\ PageSize \in Nat \ {0}
  /\ PageNumbers \subseteq Nat /\ IsFiniteSet(PageNumbers)
  /\ Columns \subseteq Nat \ {0} /\ \A c \in Columns : PageSize % c = 0
  /\ Height \in Nat \ {0}
  /\ Null \notin Machines
  \* Undefined is neither an address nor a row of defined cells.
  /\ Undefined \notin Nat
  /\ \A c \in Columns :
       Undefined \notin [label : Nat \cup {Undefined},
                        cells : [0 .. c - 1 -> {Blank} \cup [address : Nat, content : Contents]]]

VARIABLES
  phase,              \* of the unit: "idle", "create", "run", "debug", "paused"
  worker,             \* the session the backend thread is at work on: "run",
                      \* "debug", or "none"
  machine,            \* the machine that exists, or Null
  pages,              \* content of each page it has mapped
  posted,             \* an EmulatorStateChanged call is queued
  _memoryPages,       \* the machine whose map the panel points to
  _pageAddresses,     \* cached page numbers
  _rowCount,
  _memoryCellColumns,
  viewRows,           \* rows of the table view, counted when it was laid out
  top,                \* its first visible row
  shown,              \* its visible rows, as read from the model
  relayout            \* it counts and reads anew at its next frame

unit == <<phase, worker, machine, pages>>
model == <<_memoryPages, _pageAddresses, _rowCount, _memoryCellColumns>>
view == <<viewRows, top, shown, relayout>>
vars == <<unit, posted, model, view>>

-----------------------------------------------------------------------------
(* MemoryPageModel.                                                          *)

\* std::distance from begin() of the ordered page numbers, and std::advance.
PageIndex(S, p) == Cardinality({q \in S : q < p})
PageAt(S, i) == CHOOSE p \in S : PageIndex(S, p) = i

PagesInMap == DOMAIN pages

\* A byte of the guest: its address stands for its place in the page.
ByteAt(address) == [address |-> address, content |-> pages[address \div PageSize]]

working == worker # "none"

\* The map that _memoryPages points to was deleted with its machine, or the
\* guest changes it at this moment.
Unsafe == _memoryPages # Null /\ (working \/ _memoryPages # machine)

getMemorySizeBytes(map) == IF map = Null THEN 0 ELSE Cardinality(PagesInMap) * PageSize

\* The automatic refresh of a read.
AutoRefreshed(cache) ==
  IF Cardinality(PagesInMap) # Cardinality(cache) THEN PagesInMap ELSE cache

\* Mutant: the guard is missing.
NeverBehind(index) == FALSE

BehindEnd(index) == index > getMemorySizeBytes(_memoryPages)

getAddressAtIndex(index) ==
  LET cache == AutoRefreshed(_pageAddresses)
      pageIndex == index \div PageSize
  IN  IF _memoryPages = Null \/ BehindEnd(index) THEN 0
      ELSE IF pageIndex >= Cardinality(cache) THEN Undefined
      ELSE PageAt(cache, pageIndex) * PageSize + (index % PageSize)

\* Called for indices below the memory size only.
getByteAtIndex(index) ==
  LET cache == AutoRefreshed(_pageAddresses)
      pageNo == PageAt(cache, index \div PageSize)
  IN  IF pageNo \notin PagesInMap THEN Undefined
      ELSE ByteAt(pageNo * PageSize + (index % PageSize))

\* Mutant: the distance to the page behind.
OffsetOfNextPage(address) ==
  PageIndex(_pageAddresses, (address \div PageSize) + 1) * PageSize + (address % PageSize)

getOffsetFromStart(address) ==
  LET pageAddress == address \div PageSize
  IN  IF pageAddress \notin _pageAddresses THEN 0
      ELSE PageIndex(_pageAddresses, pageAddress) * PageSize + (address % PageSize)

-----------------------------------------------------------------------------
(* MemoryTableModel.                                                         *)

data(row, column) ==
  LET memoryCell == column + row * _memoryCellColumns
  IN  IF memoryCell >= getMemorySizeBytes(_memoryPages) THEN Blank
      ELSE getByteAtIndex(memoryCell)

headerData(row) == getAddressAtIndex(row * _memoryCellColumns)

getRowFromAddress(address) == getOffsetFromStart(address) \div _memoryCellColumns

\* std::ceil of the size of so many pages by the number of columns.
RowsOf(number, columns) == (number * PageSize + columns - 1) \div columns

\* A row of the table with its vertical header, read now.
Row(r) ==
  IF Unsafe THEN Undefined
  ELSE [label |-> headerData(r), cells |-> [c \in 0 .. _memoryCellColumns - 1 |-> data(r, c)]]

\* The cache after such a read, which refreshes it unless its guards return.
ReadsRow(r) ==
  IF Unsafe THEN _pageAddresses' \in SUBSET PageNumbers
  ELSE _pageAddresses' = IF _memoryPages = Null \/ BehindEnd(r * _memoryCellColumns)
                         THEN _pageAddresses ELSE AutoRefreshed(_pageAddresses)

\* The visible rows of a view of n rows from row t on.
Visible(t, n) == {r \in t .. t + Height - 1 : r < n}

TypeOK ==
  /\ phase \in {"idle", "create", "run", "debug", "paused"}
  /\ worker \in {"none", "run", "debug"}
  /\ phase = "create" => worker # "none"
  /\ posted \in BOOLEAN
  /\ machine \in Machines \cup {Null}
  /\ PagesInMap \subseteq PageNumbers /\ pages \in [PagesInMap -> Contents]
  /\ _memoryPages \in Machines \cup {Null}
  /\ _pageAddresses \in SUBSET PageNumbers
  /\ _rowCount \in Nat
  /\ _memoryCellColumns \in Columns
  /\ viewRows \in Nat /\ top \in Nat
  /\ DOMAIN shown = Visible(top, viewRows)
  /\ relayout \in BOOLEAN

NoPages == [p \in {} |-> Null]

Init ==
  /\ phase = "idle" /\ worker = "none"
  /\ machine = Null /\ pages = NoPages
  /\ posted = FALSE
  /\ _memoryPages = Null /\ _pageAddresses = {} /\ _rowCount = 0
  /\ _memoryCellColumns \in Columns
  /\ viewRows = 0 /\ top = 0 /\ shown = [r \in {} |-> Null] /\ relayout = FALSE

-----------------------------------------------------------------------------
(* The unit, as far as it concerns the panel.                                *)

\* runProgram and debugProgram join the thread of the session before, and
\* CreateNewMachine_ deletes its machine.
Start ==
  /\ phase = "idle" /\ ~working
  /\ phase' = "create" /\ worker' \in {"run", "debug"}
  /\ machine' = Null /\ pages' = NoPages
  /\ UNCHANGED <<posted, model, view>>

Create ==
  /\ phase = "create"
  /\ phase' = worker /\ posted' = TRUE
  /\ machine' \in Machines
  /\ \E mapped \in SUBSET PageNumbers \ {{}} : pages' \in [mapped -> Contents]
  /\ UNCHANGED <<worker, model, view>>

\* The guest writes to a page, mapping it if need be, or unmaps one.
GuestSteps ==
  \/ \E p \in PageNumbers, b \in Contents :
       pages' = [q \in PagesInMap \cup {p} |-> IF q = p THEN b ELSE pages[q]]
  \/ \E p \in PagesInMap : pages' = [q \in PagesInMap \ {p} |-> pages[q]]

Execute ==
  /\ working /\ phase # "create"
  /\ GuestSteps
  /\ UNCHANGED <<phase, worker, machine, posted, model, view>>

\* A breakpoint, which may be reached after the user has opened a file or has
\* asked to terminate.
Pause ==
  /\ worker = "debug" /\ phase # "create"
  /\ phase' = "paused" /\ worker' = "none" /\ posted' = TRUE
  /\ UNCHANGED <<machine, pages, model, view>>

Continue ==
  /\ phase = "paused"
  /\ phase' = "debug" /\ worker' = "debug" /\ posted' = TRUE
  /\ UNCHANGED <<machine, pages, model, view>>

\* The program ends, or the user terminates it or opens a file (after which
\* the guest may go on for a while).
End ==
  /\ phase # "create" /\ (working \/ phase = "paused")
  /\ phase' = "idle" /\ worker' \in {worker, "none"} /\ posted' = TRUE
  /\ UNCHANGED <<machine, pages, model, view>>

-----------------------------------------------------------------------------
(* The GUI thread.                                                           *)

\* Mutant: the pages' addresses, not their numbers.
PageStarts(now) == {p * PageSize : p \in now}

\* Mutant: the automatic refresh of the reads is relied upon.
CacheKept(now) == _pageAddresses

\* MemoryPageModel::refresh.
Refreshed(now) == now

\* Mutant: the pointers are never compared.
SameMap == TRUE

PointerCurrent == _memoryPages = machine

\* refreshMemory, while the pages `now' are mapped: memoryRefreshed, or
\* memoryPointerChanged, which alone resets the view.
RefreshMemory(now) ==
  /\ _memoryPages' = IF PointerCurrent THEN _memoryPages ELSE machine
  /\ IF working THEN _pageAddresses' \in SUBSET PageNumbers
                ELSE _pageAddresses' = Refreshed(now)
  /\ _rowCount' = RowsOf(Cardinality(now), _memoryCellColumns)
  /\ relayout' = (relayout \/ ~PointerCurrent)
  /\ UNCHANGED <<_memoryCellColumns, viewRows, top, shown>>

\* EmulatorStateChanged reads the state of the moment: memory is refreshed on
\* debug run and debug pause.
EmulatorStateChanged ==
  /\ posted /\ posted' = FALSE
  /\ IF phase \in {"debug", "paused"} THEN RefreshMemory(PagesInMap)
     ELSE UNCHANGED <<model, view>>
  /\ UNCHANGED unit

\* debugStep: one instruction of the guest, or the discovery that the machine
\* has stopped, and refreshMemory.
DebugStep ==
  /\ phase = "paused"
  /\ \/ GuestSteps /\ UNCHANGED <<phase, posted>>
     \/ phase' = "idle" /\ posted' = TRUE /\ UNCHANGED pages
  /\ RefreshMemory(DOMAIN pages')
  /\ UNCHANGED <<worker, machine>>

\* The Refresh button and the "Mode" box: layoutChanged.
RefreshView ==
  /\ relayout' = TRUE
  /\ UNCHANGED <<unit, posted, model, viewRows, top, shown>>

\* The "Columns" box: setMemoryCellColumns, which reads the size of the map,
\* and refreshView.
SetMemoryCellColumns ==
  /\ _memoryCellColumns' \in Columns \ {_memoryCellColumns}
  /\ IF _memoryPages \in {Null, machine}
     THEN _rowCount' = RowsOf(getMemorySizeBytes(_memoryPages) \div PageSize, _memoryCellColumns')
     ELSE _rowCount' \in {RowsOf(n, _memoryCellColumns') : n \in 0 .. Cardinality(PageNumbers)}
  /\ relayout' = TRUE
  /\ UNCHANGED <<unit, posted, _memoryPages, _pageAddresses, viewRows, top, shown>>

\* The view reads its rows from row t on.
Reads(t, n) ==
  /\ top' = t
  /\ shown' = [r \in Visible(t, n) |-> Row(r)]
  /\ IF Visible(t, n) = {} THEN UNCHANGED _pageAddresses ELSE ReadsRow(t)

\* The view's next frame.
Relayout ==
  /\ relayout /\ relayout' = FALSE
  /\ viewRows' = _rowCount
  /\ Reads(IF top < _rowCount THEN top ELSE 0, _rowCount)
  /\ UNCHANGED <<unit, posted, _memoryPages, _rowCount, _memoryCellColumns>>

\* The View button: positionViewAtRow, for a row that the view has.
ViewAddress(address) ==
  /\ ~relayout
  /\ getRowFromAddress(address) < viewRows
  /\ Reads(getRowFromAddress(address), viewRows)
  /\ UNCHANGED <<unit, posted, _memoryPages, _rowCount, _memoryCellColumns, viewRows, relayout>>

\* The scroll bar.
Scroll ==
  /\ ~relayout
  /\ \E t \in 0 .. viewRows - 1 : Reads(t, viewRows)
  /\ UNCHANGED <<unit, posted, _memoryPages, _rowCount, _memoryCellColumns, viewRows, relayout>>

Next ==
  \/ Start \/ Create \/ Execute \/ Pause \/ Continue \/ End
  \/ EmulatorStateChanged \/ DebugStep \/ RefreshView \/ SetMemoryCellColumns
  \/ Relayout \/ Scroll
  \/ \E p \in PageNumbers, offset \in 0 .. PageSize - 1 : ViewAddress(p * PageSize + offset)

Spec == Init /\ [][Next]_vars

\* The Qt event loop draws frames.
FairSpec == Spec /\ WF_vars(Relayout)

-----------------------------------------------------------------------------
(* Properties.                                                               *)

\* The unit is paused and its state has reached the panel.
Settled == phase = "paused" /\ ~posted

\* The addresses of mapped bytes.
Mapped == {p * PageSize + offset : p \in PagesInMap, offset \in 0 .. PageSize - 1}

\* Every mapped byte is in the table, at the row that its address leads to and
\* in the column of its distance from the row's address.
ByteInTable(address) ==
  LET row == getRowFromAddress(address)
      column == address - headerData(row)
  IN  /\ row < _rowCount
      /\ column \in 0 .. _memoryCellColumns - 1
      /\ data(row, column) = ByteAt(address)

\* In a pause the model is an exact table of the guest's memory: it has a cell
\* for every byte and no other, each byte is where getRowFromAddress and the
\* row's label say, and higher addresses are never in earlier rows.
PausedPanelExact ==
  Settled =>
    /\ _rowCount * _memoryCellColumns = Cardinality(PagesInMap) * PageSize
    /\ \A a \in Mapped : ByteInTable(a)
    /\ \A a, b \in Mapped : a <= b => getRowFromAddress(a) <= getRowFromAddress(b)

\* While a debug session runs or pauses, the panel points to the page map of
\* the machine that exists once the change of state has reached it, even when
\* the heap gave that machine the address of an older one.
NoDanglingInDebug == phase \in {"debug", "paused"} /\ ~posted => _memoryPages = machine

\* A view laid out for more rows than memory now has reads past the last page
\* in one row only, the one that begins where memory ends: the bound of
\* getAddressAtIndex lets that index pass.
OnlyEndUndefined ==
  Settled => \A r \in 0 .. viewRows - 1 :
    Row(r) # Undefined /\ (Row(r).label = Undefined => r = _rowCount)

\* The visible rows are those of the guest's memory.
ViewCurrent ==
  /\ viewRows = _rowCount
  /\ \A r \in DOMAIN shown :
       \E a \in {a \in Mapped : a % _memoryCellColumns = 0} :
         shown[r] = [label |-> a, cells |-> [c \in 0 .. _memoryCellColumns - 1 |-> ByteAt(a + c)]]

\* Once a frame is requested in a pause (by the Refresh button, for one), the
\* view comes to show the guest's memory as it is, or the pause ends.
RefreshShows == relayout /\ Settled ~> ViewCurrent \/ ~Settled
=============================================================================
