-------------------------- MODULE MemoryTableProofs --------------------------
(***************************************************************************)
(* In every pause the memory panel's model is an exact table of the        *)
(* guest's memory: MemoryTable's PausedPanelExact for all page sizes, all  *)
(* finite sets of pages and all numbers of columns that divide a page.     *)
(***************************************************************************)
EXTENDS MemoryTable, Numbers

-----------------------------------------------------------------------------
(* The position of a page among the ordered pages.                           *)

\* Positions are below the number of pages.
LEMMA PageIndexRange ==
  ASSUME NEW S \in SUBSET Nat, IsFiniteSet(S), NEW p \in S
  PROVE  PageIndex(S, p) \in 0 .. Cardinality(S) - 1 /\ Cardinality(S) \in Nat
BY PositionRange DEF PageIndex, Position

\* A higher page has a higher position.
LEMMA PageIndexMonotonic ==
  ASSUME NEW S \in SUBSET Nat, IsFiniteSet(S), NEW p \in S, NEW q \in S, p < q
  PROVE  PageIndex(S, p) < PageIndex(S, q)
BY PositionMonotonic DEF PageIndex, Position

\* std::advance to the position that std::distance gave arrives at the page.
LEMMA PageAtIndex ==
  ASSUME NEW S \in SUBSET Nat, IsFiniteSet(S), NEW p \in S
  PROVE  PageAt(S, PageIndex(S, p)) = p
BY AtPositionOf DEF PageAt, PageIndex, AtPosition, Position

\* Every position below the number of pages is that of a page.
LEMMA PageAtType ==
  ASSUME NEW S \in SUBSET Nat, IsFiniteSet(S), NEW i \in Nat, i < Cardinality(S)
  PROVE  PageAt(S, i) \in S
BY AtPositionType DEF PageAt, PageIndex, AtPosition, Position

-----------------------------------------------------------------------------
(* Rows and columns.                                                         *)

\* The columns of the box divide a page.
LEMMA ColumnsDivide ==
  ASSUME NEW c \in Columns
  PROVE  /\ PageSize \in Nat \ {0} /\ c \in Nat \ {0}
         /\ \E k \in Nat \ {0} : PageSize = c * k
<1>1. PageSize \in Nat \ {0} /\ c \in Nat \ {0} /\ PageSize % c = 0
  BY TableAssumption
<1> DEFINE k == PageSize \div c
           m == PageSize % c
<1>2. k \in Nat /\ PageSize = c * k + m
  BY <1>1, Divides
<1>3. m = 0
  BY <1>1
<1> HIDE DEF k, m
<1>4. c * k \in Nat
  BY <1>1, <1>2
<1>5. PageSize = c * k
  BY <1>2, <1>3, <1>4
<1>6. k # 0
  BY <1>1, <1>5
<1> QED
  BY <1>1, <1>2, <1>5, <1>6

\* The table has whole rows only.
LEMMA RowsExact ==
  ASSUME NEW n \in Nat, NEW c \in Columns
  PROVE  RowsOf(n, c) \in Nat /\ RowsOf(n, c) * c = n * PageSize
<1>1. PICK k \in Nat \ {0} : PageSize = c * k
  BY ColumnsDivide
<1>2. c \in Nat \ {0} /\ c - 1 \in 0 .. c - 1 /\ n * k \in Nat
  BY ColumnsDivide
<1>3. n * PageSize = c * (n * k)
  BY <1>1, <1>2
<1>4. (c * (n * k) + (c - 1)) \div c = n * k
  BY <1>2, UniqueDivision
<1>5. c * (n * k) \in Nat
  BY <1>2
<1> DEFINE bytes == n * PageSize
<1>6. bytes + c - 1 = c * (n * k) + (c - 1)
  BY <1>2, <1>3, <1>5
<1>7. RowsOf(n, c) = n * k
  BY <1>4, <1>6 DEF RowsOf
<1> QED
  BY <1>2, <1>3, <1>7

\* Where the row of the byte at an offset into the page of position x begins.
LEMMA RowBegins ==
  ASSUME NEW c \in Columns, NEW x \in Nat, NEW o \in 0 .. PageSize - 1
  PROVE  LET i == x * PageSize + o
             row == i \div c
         IN  /\ i \in Nat /\ row \in Nat
             /\ i \div PageSize = x /\ i % PageSize = o
             /\ o % c \in 0 .. c - 1 /\ o - (o % c) \in 0 .. PageSize - 1
             /\ row * c = x * PageSize + (o - (o % c))
             /\ (row * c) \div PageSize = x
             /\ (row * c) % PageSize = o - (o % c)
             /\ (o % c) + row * c = i
<1>1. PICK k \in Nat \ {0} : PageSize = c * k
  BY ColumnsDivide
<1>2. PageSize \in Nat \ {0} /\ c \in Nat \ {0}
  BY ColumnsDivide
<1> DEFINE i == x * PageSize + o
           m == o % c
           w == o \div c
           start == o - m
           base == x * PageSize
<1>3. o \in Nat /\ m \in 0 .. c - 1 /\ w \in Nat /\ o = c * w + m
  <2>1. o \in Nat
    BY <1>2
  <2> QED
    BY <1>2, <2>1, Divides
<1>4. base \in Nat /\ base = PageSize * x /\ base = c * (k * x) /\ k * x \in Nat
  BY <1>1, <1>2
<1>5. c * w \in Nat
  BY <1>2, <1>3
<1> HIDE DEF m, w
<1>6. start = c * w /\ start \in 0 .. PageSize - 1
  BY <1>2, <1>3, <1>5
<1>7. c * (k * x + w) = base + c * w
  BY <1>2, <1>3, <1>4
<1>8. k * x + w \in Nat
  BY <1>3, <1>4
<1> HIDE DEF base
<1>9. i = c * (k * x + w) + m
  BY <1>2, <1>3, <1>4, <1>5, <1>7 DEF base
<1>10. i \div c = k * x + w
  <2>1. (c * (k * x + w) + m) \div c = k * x + w
    BY <1>2, <1>3, <1>8, UniqueDivision
  <2> QED
    BY <1>9, <2>1
<1>11. (i \div c) * c = base + start
  <2>1. (i \div c) * c = c * (k * x + w)
    BY <1>2, <1>8, <1>10
  <2> QED
    BY <2>1, <1>6, <1>7
<1>12. i = PageSize * x + o /\ base + start = PageSize * x + start
  BY <1>4 DEF base
<1>13. i \div PageSize = x /\ i % PageSize = o
  BY <1>2, <1>12, UniqueDivision
<1>14. ((i \div c) * c) \div PageSize = x /\ ((i \div c) * c) % PageSize = start
  <2>1. (PageSize * x + start) \div PageSize = x /\ (PageSize * x + start) % PageSize = start
    BY <1>2, <1>6, UniqueDivision
  <2>2. (i \div c) * c = PageSize * x + start
    BY <1>11, <1>12
  <2> QED
    BY <2>1, <2>2
<1>15. i = base + o /\ i \in Nat
  BY <1>3, <1>4 DEF base
<1>16. m + (i \div c) * c = i
  BY <1>2, <1>3, <1>4, <1>6, <1>11, <1>15
<1> QED
  BY <1>3, <1>6, <1>8, <1>10, <1>11, <1>13, <1>14, <1>15, <1>16 DEF m, base

-----------------------------------------------------------------------------
(* The type invariant.                                                       *)

\* The map has finitely many pages, so its size is a number.
LEMMA FinitePages ==
  ASSUME NEW S \in SUBSET PageNumbers
  PROVE  S \in SUBSET Nat /\ IsFiniteSet(S) /\ Cardinality(S) \in Nat
<1>1. S \in SUBSET Nat /\ IsFiniteSet(S)
  BY TableAssumption, FS_Subset
<1> QED
  BY <1>1, FS_CardinalityType

\* Every address leads to a row.
LEMMA RowNumber ==
  ASSUME TypeOK, NEW address \in Nat
  PROVE  getRowFromAddress(address) \in Nat
<1> DEFINE p == address \div PageSize
           o == address % PageSize
           x == PageIndex(_pageAddresses, p)
<1>1. PageSize \in Nat \ {0} /\ _memoryCellColumns \in Nat \ {0}
  BY TableAssumption DEF TypeOK
<1>2. o \in 0 .. PageSize - 1
  BY <1>1, Divides
<1>3. p \in _pageAddresses => x \in Nat
  <2>1. _pageAddresses \in SUBSET Nat /\ IsFiniteSet(_pageAddresses)
    BY FinitePages DEF TypeOK
  <2>2. ASSUME p \in _pageAddresses
        PROVE  x \in Nat
    <3>1. x \in 0 .. Cardinality(_pageAddresses) - 1 /\ Cardinality(_pageAddresses) \in Nat
      BY <2>1, <2>2, PageIndexRange
    <3> QED
      BY <3>1
  <2> QED
    BY <2>2
<1> HIDE DEF p, o, x
<1>4. p \in _pageAddresses => x * PageSize + o \in Nat
  BY <1>1, <1>2, <1>3
<1>5. getOffsetFromStart(address) = IF p \notin _pageAddresses THEN 0 ELSE x * PageSize + o
  BY DEF getOffsetFromStart, p, o, x
<1>6. getOffsetFromStart(address) \in Nat
  BY <1>4, <1>5
<1> QED
  BY <1>1, <1>6, Divides DEF getRowFromAddress

\* The cache holds page numbers of the guest after every read.
LEMMA ReadsKeepType ==
  ASSUME TypeOK, NEW t \in Nat, NEW n \in Nat, Reads(t, n)
  PROVE  /\ top' \in Nat
         /\ _pageAddresses' \in SUBSET PageNumbers
         /\ DOMAIN shown' = Visible(top', n)
BY DEF TypeOK, Reads, ReadsRow, AutoRefreshed, PagesInMap

\* So it does after refreshMemory, which counts the rows anew.
LEMMA RefreshKeepsType ==
  ASSUME TypeOK, NEW now \in SUBSET PageNumbers, RefreshMemory(now)
  PROVE  /\ _memoryPages' \in Machines \cup {Null}
         /\ _pageAddresses' \in SUBSET PageNumbers
         /\ _rowCount' \in Nat
         /\ relayout' \in BOOLEAN
         /\ UNCHANGED <<_memoryCellColumns, viewRows, top, shown>>
<1>1. RowsOf(Cardinality(now), _memoryCellColumns) \in Nat
  BY FinitePages, RowsExact DEF TypeOK
<1> QED
  BY <1>1 DEF TypeOK, RefreshMemory, Refreshed, PointerCurrent

\* A step of the guest leaves a map of guest pages.
LEMMA GuestKeepsType ==
  ASSUME TypeOK, GuestSteps
  PROVE  /\ DOMAIN pages' \in SUBSET PageNumbers
         /\ pages' \in [DOMAIN pages' -> Contents]
<1>1. CASE \E p \in PageNumbers, b \in Contents :
             pages' = [q \in PagesInMap \cup {p} |-> IF q = p THEN b ELSE pages[q]]
  BY <1>1 DEF TypeOK, PagesInMap
<1>2. CASE \E p \in PagesInMap : pages' = [q \in PagesInMap \ {p} |-> pages[q]]
  BY <1>2 DEF TypeOK, PagesInMap
<1> QED
  BY <1>1, <1>2 DEF GuestSteps

\* The initial values have their types.
LEMMA MemoryTypeInit == Init => TypeOK
<1> SUFFICES ASSUME Init PROVE TypeOK
  OBVIOUS
<1>1. Visible(0, 0) = {}
  BY TableAssumption DEF Visible
<1>2. PagesInMap = {} /\ pages \in [{} -> Contents] /\ DOMAIN shown = {}
  BY DEF Init, NoPages, PagesInMap
<1> QED
  BY <1>1, <1>2 DEF Init, TypeOK

\* Every step keeps the types.
LEMMA MemoryTypeStep == TypeOK /\ [Next]_vars => TypeOK'
<1> SUFFICES ASSUME TypeOK, [Next]_vars PROVE TypeOK'
  OBVIOUS
<1> USE DEF TypeOK, PagesInMap
<1>1. CASE Start
  <2>1. pages' \in [{} -> Contents] /\ DOMAIN pages' = {}
    BY <1>1 DEF Start, NoPages
  <2> QED
    BY <1>1, <2>1 DEF Start, model, view
<1>2. CASE Create
  <2>1. PICK mapped \in SUBSET PageNumbers : pages' \in [mapped -> Contents]
    BY <1>2 DEF Create
  <2>2. DOMAIN pages' = mapped
    BY <2>1
  <2> QED
    BY <1>2, <2>1, <2>2 DEF Create, model, view
<1>3. CASE Execute
  <2>1. DOMAIN pages' \in SUBSET PageNumbers /\ pages' \in [DOMAIN pages' -> Contents]
    BY <1>3, GuestKeepsType DEF Execute
  <2> QED
    BY <1>3, <2>1 DEF Execute, model, view
<1>4. CASE Pause
  BY <1>4 DEF Pause, model, view
<1>5. CASE Continue
  BY <1>5 DEF Continue, model, view
<1>6. CASE End
  BY <1>6 DEF End, model, view
<1>7. CASE EmulatorStateChanged
  <2>1. CASE RefreshMemory(PagesInMap)
    <3>1. /\ _memoryPages' \in Machines \cup {Null}
          /\ _pageAddresses' \in SUBSET PageNumbers
          /\ _rowCount' \in Nat
          /\ relayout' \in BOOLEAN
          /\ UNCHANGED <<_memoryCellColumns, viewRows, top, shown>>
      BY <2>1, RefreshKeepsType
    <3> QED
      BY <1>7, <3>1 DEF EmulatorStateChanged, unit
  <2>2. CASE UNCHANGED <<model, view>>
    BY <1>7, <2>2 DEF EmulatorStateChanged, unit, model, view, Visible
  <2> QED
    BY <1>7, <2>1, <2>2 DEF EmulatorStateChanged
<1>8. CASE DebugStep
  <2>1. DOMAIN pages' \in SUBSET PageNumbers /\ pages' \in [DOMAIN pages' -> Contents]
    BY <1>8, GuestKeepsType DEF DebugStep
  <2>2. RefreshMemory(DOMAIN pages')
    BY <1>8 DEF DebugStep
  <2>3. /\ _memoryPages' \in Machines \cup {Null}
        /\ _pageAddresses' \in SUBSET PageNumbers
        /\ _rowCount' \in Nat
        /\ relayout' \in BOOLEAN
        /\ UNCHANGED <<_memoryCellColumns, viewRows, top, shown>>
    BY <2>1, <2>2, RefreshKeepsType
  <2>4. phase' \in {"idle", "paused"} /\ posted' \in BOOLEAN /\ UNCHANGED <<worker, machine>>
    BY <1>8 DEF DebugStep
  <2> QED
    BY <2>1, <2>3, <2>4
<1>9. CASE RefreshView
  BY <1>9 DEF RefreshView, unit, model
<1>10. CASE SetMemoryCellColumns
  <2>1. _memoryCellColumns' \in Columns
    BY <1>10 DEF SetMemoryCellColumns
  <2>2. /\ PageSize \in Nat \ {0}
        /\ Cardinality(PageNumbers) \in Nat /\ Cardinality(PagesInMap) \in Nat
    BY TableAssumption, FinitePages
  <2>3. getMemorySizeBytes(_memoryPages) \div PageSize \in Nat
    <3>1. getMemorySizeBytes(_memoryPages) \in Nat
      BY <2>2 DEF getMemorySizeBytes
    <3> QED
      BY <2>2, <3>1, Divides
  <2>4. \A n \in Nat : RowsOf(n, _memoryCellColumns') \in Nat
    BY <2>1, RowsExact
  <2>5. _rowCount' \in Nat
    BY <1>10, <2>2, <2>3, <2>4 DEF SetMemoryCellColumns
  <2> QED
    BY <1>10, <2>1, <2>5 DEF SetMemoryCellColumns, unit
<1>11. CASE Relayout
  <2>1. (IF top < _rowCount THEN top ELSE 0) \in Nat
    OBVIOUS
  <2>2. /\ top' \in Nat
        /\ _pageAddresses' \in SUBSET PageNumbers
        /\ DOMAIN shown' = Visible(top', _rowCount)
    BY <1>11, <2>1, ReadsKeepType DEF Relayout
  <2> QED
    BY <1>11, <2>2 DEF Relayout, unit, Visible
<1>12. CASE Scroll
  <2>1. PICK t \in 0 .. viewRows - 1 : Reads(t, viewRows)
    BY <1>12 DEF Scroll
  <2>2. /\ top' \in Nat
        /\ _pageAddresses' \in SUBSET PageNumbers
        /\ DOMAIN shown' = Visible(top', viewRows)
    BY <2>1, ReadsKeepType
  <2> QED
    BY <1>12, <2>2 DEF Scroll, unit, Visible
<1>13. ASSUME NEW p \in PageNumbers, NEW o \in 0 .. PageSize - 1,
              ViewAddress(p * PageSize + o)
       PROVE  TypeOK'
  <2>1. p * PageSize + o \in Nat
    BY TableAssumption
  <2>2. getRowFromAddress(p * PageSize + o) \in Nat
    BY <2>1, RowNumber
  <2>3. /\ top' \in Nat
        /\ _pageAddresses' \in SUBSET PageNumbers
        /\ DOMAIN shown' = Visible(top', viewRows)
    BY <1>13, <2>2, ReadsKeepType DEF ViewAddress
  <2> QED
    BY <1>13, <2>3 DEF ViewAddress, unit, Visible
<1>14. CASE UNCHANGED vars
  BY <1>14 DEF vars, unit, model, view, Visible
<1> QED
  BY <1>1, <1>2, <1>3, <1>4, <1>5, <1>6, <1>7, <1>8, <1>9, <1>10, <1>11, <1>12,
     <1>13, <1>14 DEF Next

\* The variables keep their types.
THEOREM MemoryTypeCorrect == Spec => []TypeOK
BY MemoryTypeInit, MemoryTypeStep, PTL DEF Spec

-----------------------------------------------------------------------------
(* The table of a machine at rest.                                           *)

\* The panel points to the map of the machine, has cached its pages and has
\* counted its rows.
Exact ==
  /\ _memoryPages # Null
  /\ PagesInMap \in SUBSET PageNumbers
  /\ _memoryCellColumns \in Columns
  /\ _pageAddresses = PagesInMap
  /\ _rowCount = RowsOf(Cardinality(PagesInMap), _memoryCellColumns)

\* The byte at an offset into a mapped page: the place of its address among
\* the bytes of all pages, and its row and column in the table.
LEMMA ByteFound ==
  ASSUME Exact, NEW p \in PagesInMap, NEW o \in 0 .. PageSize - 1
  PROVE  LET a == p * PageSize + o
         IN  /\ getOffsetFromStart(a) = PageIndex(PagesInMap, p) * PageSize + o
             /\ ByteInTable(a)
<1> DEFINE a == p * PageSize + o
           c == _memoryCellColumns
           n == Cardinality(PagesInMap)
           x == PageIndex(PagesInMap, p)
           i == x * PageSize + o
           row == i \div c
           m == o % c
<1>1. /\ PageSize \in Nat \ {0} /\ c \in Columns /\ c \in Nat \ {0}
      /\ PagesInMap \in SUBSET Nat /\ IsFiniteSet(PagesInMap) /\ n \in Nat /\ p \in Nat
  BY TableAssumption, FinitePages DEF Exact
<1>2. x \in 0 .. n - 1 /\ x \in Nat /\ x < n
  <2>1. x \in 0 .. n - 1
    BY <1>1, PageIndexRange
  <2> QED
    BY <1>1, <2>1
<1>3. PageAt(PagesInMap, x) = p
  BY <1>1, PageAtIndex
<1>4. a \div PageSize = p /\ a % PageSize = o /\ a \in Nat
  <2>1. (PageSize * p + o) \div PageSize = p /\ (PageSize * p + o) % PageSize = o
    BY <1>1, UniqueDivision
  <2>2. a = PageSize * p + o /\ a \in Nat
    BY <1>1
  <2> QED
    BY <2>1, <2>2
<1>5. /\ i \in Nat /\ row \in Nat
      /\ i \div PageSize = x /\ i % PageSize = o
      /\ m \in 0 .. c - 1 /\ o - m \in 0 .. PageSize - 1
      /\ row * c = x * PageSize + (o - m)
      /\ (row * c) \div PageSize = x
      /\ (row * c) % PageSize = o - m
      /\ m + row * c = i
  BY <1>1, <1>2, RowBegins
<1>6. getOffsetFromStart(a) = i
  BY <1>4 DEF getOffsetFromStart, Exact
<1>7. getRowFromAddress(a) = row
  BY <1>6 DEF getRowFromAddress
<1>8. getMemorySizeBytes(_memoryPages) = n * PageSize
  BY DEF getMemorySizeBytes, Exact
<1>9. i < n * PageSize /\ row * c <= i /\ n * PageSize \in Nat
  <2>1. n - x \in Nat \ {0}
    BY <1>1, <1>2
  <2>2. PageSize * (n - x) >= PageSize
    BY <1>1, <2>1, AtLeastOnce
  <2>3. PageSize * (n - x) = PageSize * n - PageSize * x
    BY <1>1, <1>2, Distributes
  <2>4. PageSize * n = n * PageSize /\ PageSize * x = x * PageSize
    BY <1>1, <1>2
  <2>5. x * PageSize \in Nat /\ n * PageSize \in Nat
    BY <1>1, <1>2
  <2>6. i < n * PageSize
    BY <1>1, <2>2, <2>3, <2>4, <2>5
  <2>7. row * c <= i
    <3> HIDE DEF row, i, m
    <3>1. row * c \in Nat
      BY <1>1, <1>5
    <3> QED
      BY <1>1, <1>5, <3>1
  <2> QED
    BY <2>5, <2>6, <2>7
<1>10. AutoRefreshed(_pageAddresses) = PagesInMap
  BY DEF AutoRefreshed, Exact
<1> HIDE DEF i, row, m, n, x
<1>11. headerData(row) = p * PageSize + (o - m)
  <2>1. ~BehindEnd(row * c)
    <3>1. row * c \in Nat
      BY <1>1, <1>5
    <3> QED
      BY <1>5, <1>8, <1>9, <3>1 DEF BehindEnd
  <2>2. ~(x >= n)
    BY <1>1, <1>2
  <2> QED
    BY <1>3, <1>5, <1>10, <2>1, <2>2 DEF headerData, getAddressAtIndex, Exact, n
<1>12. p * PageSize \in Nat
  BY <1>1
<1>13. a - headerData(row) = m
  BY <1>1, <1>5, <1>11, <1>12
<1>14. data(row, m) = ByteAt(a)
  <2>1. ~(m + row * c >= getMemorySizeBytes(_memoryPages))
    BY <1>5, <1>8, <1>9
  <2>2. data(row, m) = getByteAtIndex(i)
    BY <1>5, <2>1 DEF data
  <2> QED
    BY <1>3, <1>5, <1>10, <2>2 DEF getByteAtIndex
<1>15. row < _rowCount
  <2>1. _rowCount \in Nat /\ _rowCount * c = n * PageSize
    BY <1>1, RowsExact DEF Exact, n
  <2>2. row * c < _rowCount * c
    <3>1. row * c \in Nat
      BY <1>1, <1>5
    <3> QED
      BY <1>5, <1>9, <2>1, <3>1
  <2>3. CASE row >= _rowCount
    <3>1. row - _rowCount \in Nat
      BY <1>5, <2>1, <2>3
    <3>2. c * (row - _rowCount) \in Nat
      BY <1>1, <3>1
    <3>3. c * (row - _rowCount) = c * row - c * _rowCount
      BY <1>1, <1>5, <2>1, Distributes
    <3>4. c * row = row * c /\ c * _rowCount = _rowCount * c /\ c * row \in Nat /\ c * _rowCount \in Nat
      BY <1>1, <1>5, <2>1
    <3> QED
      BY <2>2, <3>2, <3>3, <3>4
  <2> QED
    BY <1>5, <2>1, <2>3
<1>16. ByteInTable(a)
  BY <1>5, <1>7, <1>13, <1>14, <1>15 DEF ByteInTable
<1> QED
  BY <1>6, <1>16 DEF i, x

\* Places of bytes are ordered like their addresses.
LEMMA PlacesOrdered ==
  ASSUME Exact, NEW p \in PagesInMap, NEW q \in PagesInMap,
         NEW o \in 0 .. PageSize - 1, NEW w \in 0 .. PageSize - 1,
         p * PageSize + o <= q * PageSize + w
  PROVE  PageIndex(PagesInMap, p) * PageSize + o <= PageIndex(PagesInMap, q) * PageSize + w
<1> DEFINE x == PageIndex(PagesInMap, p)
           y == PageIndex(PagesInMap, q)
<1>1. /\ PageSize \in Nat \ {0} /\ p \in Nat /\ q \in Nat
      /\ PagesInMap \in SUBSET Nat /\ IsFiniteSet(PagesInMap)
  BY TableAssumption, FinitePages DEF Exact
<1>2. x \in Nat /\ y \in Nat
  <2>1. \A r \in PagesInMap : PageIndex(PagesInMap, r) \in 0 .. Cardinality(PagesInMap) - 1
    BY <1>1, PageIndexRange
  <2>2. Cardinality(PagesInMap) \in Nat
    BY <1>1, FS_CardinalityType
  <2> QED
    BY <2>1, <2>2
<1>3. ~(q < p)
  <2> SUFFICES ASSUME q < p PROVE FALSE
    OBVIOUS
  <2>1. PageSize * (p - q) >= PageSize
    <3>1. p - q \in Nat \ {0}
      BY <1>1
    <3> QED
      BY <1>1, <3>1, AtLeastOnce
  <2>2. PageSize * (p - q) = PageSize * p - PageSize * q
    BY <1>1, Distributes
  <2>3. /\ PageSize * p = p * PageSize /\ PageSize * q = q * PageSize
        /\ p * PageSize \in Nat /\ q * PageSize \in Nat
    BY <1>1
  <2> QED
    BY <1>1, <2>1, <2>2, <2>3
<1>4. CASE p = q
  <2>1. p * PageSize \in Nat /\ x * PageSize \in Nat
    BY <1>1, <1>2
  <2> HIDE DEF x
  <2> QED
    BY <1>1, <1>4, <2>1 DEF x
<1>5. CASE p < q
  <2>1. x < y
    BY <1>1, <1>5, PageIndexMonotonic
  <2> HIDE DEF x, y
  <2>2. y - x \in Nat \ {0}
    BY <1>2, <2>1
  <2>3. PageSize * (y - x) >= PageSize
    BY <1>1, <2>2, AtLeastOnce
  <2>4. PageSize * (y - x) = PageSize * y - PageSize * x
    BY <1>1, <1>2, Distributes
  <2>5. /\ PageSize * x = x * PageSize /\ PageSize * y = y * PageSize
        /\ x * PageSize \in Nat /\ y * PageSize \in Nat
    BY <1>1, <1>2
  <2>6. x * PageSize + o <= y * PageSize + w
    BY <1>1, <2>3, <2>4, <2>5
  <2> QED
    BY <2>6 DEF x, y
<1> QED
  BY <1>1, <1>3, <1>4, <1>5

\* PausedPanelExact's conclusion.
LEMMA TableOfMemory ==
  ASSUME Exact
  PROVE  /\ _rowCount * _memoryCellColumns = Cardinality(PagesInMap) * PageSize
         /\ \A a \in Mapped : ByteInTable(a)
         /\ \A a, b \in Mapped : a <= b => getRowFromAddress(a) <= getRowFromAddress(b)
<1>1. Cardinality(PagesInMap) \in Nat /\ _memoryCellColumns \in Nat \ {0}
  BY FinitePages, TableAssumption DEF Exact
<1>2. _rowCount * _memoryCellColumns = Cardinality(PagesInMap) * PageSize
  BY <1>1, RowsExact DEF Exact
<1>3. \A a \in Mapped : ByteInTable(a)
  BY ByteFound DEF Mapped
<1>4. ASSUME NEW a \in Mapped, NEW b \in Mapped, a <= b
      PROVE  getRowFromAddress(a) <= getRowFromAddress(b)
  <2>1. PICK p \in PagesInMap, o \in 0 .. PageSize - 1 : a = p * PageSize + o
    BY DEF Mapped
  <2>2. PICK q \in PagesInMap, w \in 0 .. PageSize - 1 : b = q * PageSize + w
    BY DEF Mapped
  <2> DEFINE i == PageIndex(PagesInMap, p) * PageSize + o
             j == PageIndex(PagesInMap, q) * PageSize + w
  <2>3. getOffsetFromStart(a) = i /\ getOffsetFromStart(b) = j
    BY <2>1, <2>2, ByteFound
  <2>4. i <= j
    BY <1>4, <2>1, <2>2, PlacesOrdered
  <2>5. i \in Nat /\ j \in Nat
    <3>1. /\ PagesInMap \in SUBSET Nat /\ IsFiniteSet(PagesInMap)
          /\ PageSize \in Nat \ {0}
      BY TableAssumption, FinitePages DEF Exact
    <3>2. /\ PageIndex(PagesInMap, p) \in 0 .. Cardinality(PagesInMap) - 1
          /\ PageIndex(PagesInMap, q) \in 0 .. Cardinality(PagesInMap) - 1
      BY <3>1, PageIndexRange
    <3> QED
      BY <1>1, <3>1, <3>2
  <2> HIDE DEF i, j
  <2>6. i \div _memoryCellColumns <= j \div _memoryCellColumns
    BY <1>1, <2>4, <2>5, DivisionMonotonic
  <2> QED
    BY <2>3, <2>6 DEF getRowFromAddress
<1> QED
  BY <1>2, <1>3, <1>4

-----------------------------------------------------------------------------
(* What the view may read of such a table, be it laid out for fewer rows or  *)
(* for more.                                                                 *)

\* The numbers the table is made of.
LEMMA TableSize ==
  ASSUME Exact
  PROVE  /\ PageSize \in Nat \ {0} /\ _memoryCellColumns \in Nat \ {0}
         /\ PagesInMap \in SUBSET Nat /\ IsFiniteSet(PagesInMap) /\ Cardinality(PagesInMap) \in Nat
         /\ _rowCount \in Nat
         /\ _memoryCellColumns * _rowCount = PageSize * Cardinality(PagesInMap)
         /\ getMemorySizeBytes(_memoryPages) = PageSize * Cardinality(PagesInMap)
         /\ AutoRefreshed(_pageAddresses) = PagesInMap
<1>1. /\ PageSize \in Nat \ {0} /\ _memoryCellColumns \in Nat \ {0}
      /\ PagesInMap \in SUBSET Nat /\ IsFiniteSet(PagesInMap) /\ Cardinality(PagesInMap) \in Nat
  BY TableAssumption, FinitePages DEF Exact
<1>2. _rowCount \in Nat /\ _rowCount * _memoryCellColumns = Cardinality(PagesInMap) * PageSize
  BY <1>1, RowsExact DEF Exact
<1>3. _memoryCellColumns * _rowCount = PageSize * Cardinality(PagesInMap)
  BY <1>1, <1>2
<1>4. getMemorySizeBytes(_memoryPages) = Cardinality(PagesInMap) * PageSize
  BY DEF getMemorySizeBytes, Exact
<1>5. getMemorySizeBytes(_memoryPages) = PageSize * Cardinality(PagesInMap)
  BY <1>1, <1>4
<1> QED
  BY <1>1, <1>2, <1>3, <1>5 DEF AutoRefreshed, Exact

\* A row below the end has the address of a mapped byte for a label, and one
\* behind the end has 0.
LEMMA LabelDefined ==
  ASSUME Exact, NEW r \in Nat
  PROVE  /\ headerData(r) \in Nat \cup {Undefined}
         /\ r # _rowCount => headerData(r) \in Nat
<1> DEFINE c == _memoryCellColumns
           n == Cardinality(PagesInMap)
           index == r * c
<1>1. index \in Nat /\ index = c * r
  BY TableSize
<1>2. index \div PageSize \in Nat /\ index % PageSize \in Nat
  <2> HIDE DEF index
  <2>1. index \div PageSize \in Nat /\ index % PageSize \in 0 .. PageSize - 1
    BY <1>1, TableSize, Divides
  <2> QED BY <2>1, TableSize
<1>3. ASSUME index \div PageSize < n
      PROVE  getAddressAtIndex(index) \in Nat
  <2> DEFINE x == index \div PageSize
  <2>1. x \in Nat /\ PageAt(PagesInMap, x) \in Nat
    BY <1>2, <1>3, TableSize, PageAtType
  <2>2. PageAt(PagesInMap, x) * PageSize + (index % PageSize) \in Nat
    BY <1>2, <2>1, TableSize
  <2>3. ~(x >= n)
    BY <1>2, <1>3, TableSize
  <2> QED BY <2>2, <2>3, TableSize DEF getAddressAtIndex, Exact
<1>4. CASE r < _rowCount
  <2>1. c * r < c * _rowCount
    BY <1>4, TableSize, MultiplesOrdered
  <2>2. index < PageSize * n
    BY <1>1, <2>1, TableSize
  <2>3. index \div PageSize < n
    BY <1>1, <2>2, TableSize, DivisionBelow
  <2> QED BY <1>3, <2>3 DEF headerData
<1>5. CASE r > _rowCount
  <2>1. _rowCount < r
    BY <1>5, TableSize
  <2>2. c * _rowCount \in Nat /\ c * _rowCount < c * r
    BY <2>1, TableSize, MultiplesOrdered
  <2>3. BehindEnd(index)
    BY <1>1, <2>2, TableSize DEF BehindEnd
  <2> QED BY <2>3 DEF headerData, getAddressAtIndex
<1>6. headerData(r) \in Nat \cup {Undefined}
  <2>1. CASE index \div PageSize >= n
    BY <2>1, TableSize DEF headerData, getAddressAtIndex, Exact
  <2>2. CASE index \div PageSize < n
    BY <1>3, <2>2 DEF headerData
  <2> QED BY <1>2, <2>1, <2>2, TableSize
<1> QED BY <1>4, <1>5, <1>6, TableSize

\* A cell is blank or shows a mapped byte, in whichever row.
LEMMA CellDefined ==
  ASSUME Exact, pages \in [PagesInMap -> Contents], NEW r \in Nat, NEW column \in Nat
  PROVE  data(r, column) \in {Blank} \cup [address : Nat, content : Contents]
<1> DEFINE index == column + r * _memoryCellColumns
           n == Cardinality(PagesInMap)
           x == index \div PageSize
           p == PageAt(PagesInMap, x)
           o == index % PageSize
           a == p * PageSize + o
<1>1. index \in Nat
  BY TableSize
<1>2. CASE index >= getMemorySizeBytes(_memoryPages)
  BY <1>2 DEF data
<1>3. CASE ~(index >= getMemorySizeBytes(_memoryPages))
  <2>1. index < PageSize * n
    <3>1. PageSize * n \in Nat
      BY TableSize
    <3> QED BY <1>1, <1>3, <3>1, TableSize
  <2>2. x \in Nat /\ x < n /\ o \in 0 .. PageSize - 1
    BY <1>1, <2>1, TableSize, Divides, DivisionBelow
  <2>3. p \in PagesInMap /\ p \in Nat
    BY <2>2, TableSize, PageAtType
  <2>4. data(r, column) = ByteAt(a)
    BY <1>3, <2>3, TableSize DEF data, getByteAtIndex
  <2> HIDE DEF p, o
  <2>5. a \in Nat /\ a = PageSize * p + o
    BY <2>2, <2>3, TableSize
  <2>6. a \div PageSize = p
    BY <2>2, <2>3, <2>5, TableSize, UniqueDivision
  <2>7. pages[a \div PageSize] \in Contents
    BY <2>3, <2>6
  <2> QED BY <2>4, <2>5, <2>7 DEF ByteAt
<1> QED BY <1>2, <1>3

-----------------------------------------------------------------------------
(* The invariant behind it.                                                  *)

\* The backend thread is at rest in a pause; while it executes, and in a pause,
\* there is a machine, to which the panel points once a debug session's change
\* of state has reached it; in a pause the panel's cache and count are then
\* exact as well.
PanelInv ==
  /\ TypeOK
  /\ phase = "paused" => worker = "none"
  /\ (working \/ phase = "paused") /\ phase # "create" => machine \in Machines
  /\ NoDanglingInDebug
  /\ Settled => /\ _pageAddresses = PagesInMap
                /\ _rowCount = RowsOf(Cardinality(PagesInMap), _memoryCellColumns)

\* Reads of the panel in a pause leave the cache exact.
LEMMA ReadsKeepCache ==
  ASSUME PanelInv, Settled, NEW t, NEW n, Reads(t, n)
  PROVE  _pageAddresses' = PagesInMap
<1>1. ~Unsafe
  BY DEF PanelInv, Settled, NoDanglingInDebug, Unsafe, working
<1>2. _pageAddresses = PagesInMap /\ AutoRefreshed(_pageAddresses) = PagesInMap
  BY DEF PanelInv, AutoRefreshed
<1> QED
  BY <1>1, <1>2 DEF Reads, ReadsRow

\* refreshMemory in a pause makes pointer, cache and count exact.
LEMMA RefreshExact ==
  ASSUME NEW now, RefreshMemory(now), worker = "none"
  PROVE  /\ _memoryPages' = machine
         /\ _pageAddresses' = now
         /\ _rowCount' = RowsOf(Cardinality(now), _memoryCellColumns)
         /\ UNCHANGED _memoryCellColumns
BY DEF RefreshMemory, Refreshed, PointerCurrent, working

\* The invariant holds from the start and is kept by every step.
LEMMA PanelInvariant == Spec => []PanelInv
<1>1. Init => PanelInv
  <2> SUFFICES ASSUME Init, TypeOK PROVE PanelInv
    BY MemoryTypeInit
  <2> QED
    BY DEF Init, PanelInv, NoDanglingInDebug, Settled, working
<1>2. PanelInv /\ [Next]_vars => PanelInv'
  <2> SUFFICES ASSUME PanelInv, [Next]_vars PROVE PanelInv'
    OBVIOUS
  <2>1. TypeOK /\ TypeOK'
    BY MemoryTypeStep DEF PanelInv
  <2> DEFINE Rest == /\ phase = "paused" => worker = "none"
                     /\ (working \/ phase = "paused") /\ phase # "create" => machine \in Machines
                     /\ NoDanglingInDebug
                     /\ Settled => /\ _pageAddresses = PagesInMap
                                   /\ _rowCount = RowsOf(Cardinality(PagesInMap), _memoryCellColumns)
  <2>2. Rest
    BY DEF PanelInv
  <2> SUFFICES Rest'
    BY <2>1 DEF PanelInv
  <2> USE DEF PagesInMap, NoDanglingInDebug, Settled, working
  <2>3. CASE Start
    BY <2>2, <2>3 DEF Start, model, view
  <2>4. CASE Create
    <3>1. worker \in {"run", "debug"}
      BY <2>1, <2>4 DEF Create, TypeOK
    <3> QED
      BY <2>2, <2>4, <3>1 DEF Create, model, view
  <2>5. CASE Execute
    BY <2>2, <2>5 DEF Execute, model, view
  <2>6. CASE Pause
    BY <2>2, <2>6 DEF Pause, model, view
  <2>7. CASE Continue
    BY <2>2, <2>7 DEF Continue, model, view
  <2>8. CASE End
    BY <2>2, <2>8 DEF End, model, view
  <2>9. CASE EmulatorStateChanged
    <3>1. CASE phase = "paused"
      <4>1. RefreshMemory(PagesInMap)
        BY <2>9, <3>1 DEF EmulatorStateChanged
      <4>2. /\ _memoryPages' = machine
            /\ _pageAddresses' = PagesInMap
            /\ _rowCount' = RowsOf(Cardinality(PagesInMap), _memoryCellColumns)
            /\ UNCHANGED _memoryCellColumns
        BY <2>2, <3>1, <4>1, RefreshExact
      <4> QED
        BY <2>2, <2>9, <3>1, <4>2 DEF EmulatorStateChanged, unit
    <3>2. CASE phase = "debug"
      <4>1. _memoryPages' = machine
        BY <2>9, <3>2 DEF EmulatorStateChanged, RefreshMemory, PointerCurrent
      <4> QED
        BY <2>2, <2>9, <3>2, <4>1 DEF EmulatorStateChanged, unit
    <3>3. CASE phase \notin {"debug", "paused"}
      BY <2>2, <2>9, <3>3 DEF EmulatorStateChanged, unit
    <3> QED
      BY <3>1, <3>2, <3>3
  <2>10. CASE DebugStep
    <3>1. phase = "paused" /\ worker = "none" /\ RefreshMemory(DOMAIN pages')
      BY <2>2, <2>10 DEF DebugStep
    <3>2. /\ _memoryPages' = machine
          /\ _pageAddresses' = DOMAIN pages'
          /\ _rowCount' = RowsOf(Cardinality(DOMAIN pages'), _memoryCellColumns)
          /\ UNCHANGED _memoryCellColumns
      BY <3>1, RefreshExact
    <3> QED
      BY <2>2, <2>10, <3>1, <3>2 DEF DebugStep
  <2>11. CASE RefreshView
    BY <2>2, <2>11 DEF RefreshView, unit, model
  <2>12. CASE SetMemoryCellColumns
    <3>1. ASSUME Settled
          PROVE  _rowCount' = RowsOf(Cardinality(PagesInMap), _memoryCellColumns')
      <4>1. _memoryPages = machine /\ machine # Null
        BY <2>2, <3>1, TableAssumption
      <4>2. getMemorySizeBytes(_memoryPages) = Cardinality(PagesInMap) * PageSize
        BY <4>1 DEF getMemorySizeBytes
      <4>3. Cardinality(PagesInMap) \in Nat /\ PageSize \in Nat \ {0}
        BY <2>1, FinitePages, TableAssumption DEF TypeOK
      <4>4. (PageSize * Cardinality(PagesInMap)) \div PageSize = Cardinality(PagesInMap)
        BY <4>3, Multiple
      <4>5. Cardinality(PagesInMap) * PageSize = PageSize * Cardinality(PagesInMap)
        BY <4>3
      <4>6. getMemorySizeBytes(_memoryPages) \div PageSize = Cardinality(PagesInMap)
        BY <4>2, <4>4, <4>5
      <4> QED
        BY <2>12, <4>1, <4>6 DEF SetMemoryCellColumns
    <3> QED
      BY <2>2, <2>12, <3>1 DEF SetMemoryCellColumns, unit
  <2>13. ASSUME NEW t, NEW n, Reads(t, n),
                UNCHANGED <<unit, posted, _memoryPages, _rowCount, _memoryCellColumns>>
         PROVE  Rest'
    <3>1. Settled => _pageAddresses' = PagesInMap
      BY <2>13, ReadsKeepCache
    <3> QED
      BY <2>2, <2>13, <3>1 DEF unit
  <2>14. CASE Relayout
    BY <2>13, <2>14 DEF Relayout
  <2>15. CASE Scroll
    <3>1. PICK t \in 0 .. viewRows - 1 : Reads(t, viewRows)
      BY <2>15 DEF Scroll
    <3> QED
      BY <2>13, <2>15, <3>1 DEF Scroll
  <2>16. ASSUME NEW a, ViewAddress(a)
         PROVE  Rest'
    BY <2>13, <2>16 DEF ViewAddress
  <2>17. CASE UNCHANGED vars
    BY <2>2, <2>17 DEF vars, unit, model, view
  <2> QED
    BY <2>3, <2>4, <2>5, <2>6, <2>7, <2>8, <2>9, <2>10, <2>11, <2>12, <2>14, <2>15,
       <2>16, <2>17 DEF Next
<1> QED
  BY <1>1, <1>2, PTL DEF Spec

\* In a pause the panel has the machine's map, its pages and its rows.
LEMMA SettledExact == PanelInv /\ Settled => Exact
<1> SUFFICES ASSUME PanelInv, Settled PROVE Exact
  OBVIOUS
<1>1. _memoryPages = machine /\ machine \in Machines
  BY DEF PanelInv, Settled, NoDanglingInDebug
<1> QED
  BY <1>1, TableAssumption DEF PanelInv, TypeOK, Exact

\* In every pause the model is an exact table of the guest's memory.
THEOREM PausedPanelIsExact == Spec => []PausedPanelExact
<1>1. PanelInv => PausedPanelExact
  BY SettledExact, TableOfMemory DEF PausedPanelExact
<1> QED
  BY <1>1, PanelInvariant, PTL

\* In every pause, a view of any number of rows reads undefined data in one
\* row at most, and there in the label only.
THEOREM OnlyEndIsUndefined == Spec => []OnlyEndUndefined
<1>1. PanelInv => OnlyEndUndefined
  <2> SUFFICES ASSUME PanelInv, Settled, NEW r \in 0 .. viewRows - 1
               PROVE  Row(r) # Undefined /\ (Row(r).label = Undefined => r = _rowCount)
    BY DEF OnlyEndUndefined
  <2> DEFINE c == _memoryCellColumns
             label == headerData(r)
             cells == [column \in 0 .. c - 1 |-> data(r, column)]
  <2>1. Exact /\ pages \in [PagesInMap -> Contents] /\ c \in Columns /\ viewRows \in Nat
    BY SettledExact DEF PanelInv, TypeOK
  <2>2. r \in Nat /\ c \in Nat
    BY <2>1, TableSize
  <2>3. ~Unsafe
    BY DEF PanelInv, Settled, NoDanglingInDebug, Unsafe, working
  <2>4. Row(r) = [label |-> label, cells |-> cells]
    BY <2>3 DEF Row
  <2>5. label \in Nat \cup {Undefined} /\ (r # _rowCount => label \in Nat)
    BY <2>1, <2>2, LabelDefined
  <2>6. cells \in [0 .. c - 1 -> {Blank} \cup [address : Nat, content : Contents]]
    <3>1. \A column \in 0 .. c - 1 : column \in Nat
      BY <2>2
    <3> QED BY <2>1, <2>2, <3>1, CellDefined
  <2> HIDE DEF label, cells
  <2>7. Row(r) \in [label : Nat \cup {Undefined},
                   cells : [0 .. c - 1 -> {Blank} \cup [address : Nat, content : Contents]]]
    BY <2>4, <2>5, <2>6
  <2>8. Row(r) # Undefined
    BY <2>1, <2>7, TableAssumption
  <2>9. Row(r).label = label
    BY <2>4
  <2> QED BY <2>5, <2>8, <2>9, TableAssumption
<1> QED
  BY <1>1, PanelInvariant, PTL

\* The panel never keeps the map of a deleted machine into a debug session.
THEOREM NeverDanglingInDebug == Spec => []NoDanglingInDebug
<1>1. PanelInv => NoDanglingInDebug
  BY DEF PanelInv
<1> QED
  BY <1>1, PanelInvariant, PTL
=============================================================================
