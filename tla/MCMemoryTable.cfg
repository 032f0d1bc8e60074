SPECIFICATION FairSpec
CONSTANTS
  m1 = m1
  m2 = m2
  b1 = b1
  b2 = b2
  Null = Null
  Undefined = Undefined
  PageSize = 2
  Height = 1
  PageNumbers <- MCPageNumbers
  Columns <- MCColumns
  Contents <- MCContents
  Machines <- MCMachines
INVARIANTS
  TypeOK
  PausedPanelExact
  NoDanglingInDebug
  OnlyEndUndefined
PROPERTY
  RefreshShows
