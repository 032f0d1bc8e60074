SPECIFICATION Spec
CONSTANTS
  m1 = m1
  m2 = m2
  good = good
  other = other
  odd = odd
  broken = broken
  bad = bad
  NoMachine = NoMachine
  NoFile = NoFile
  Machines <- MCMachines
  Addresses <- MCAddresses
  Entry = 1
  Files <- MCFiles
  ValidFiles <- MCValidFiles
  LoadableFiles <- MCLoadableFiles
  ListedFiles <- MCListedFiles
  Listing <- MCListing
  MaxPending = 1
SYMMETRY MachineSymmetry
INVARIANTS
  TypeOK
  MachineOwned
  Exclusive
  ViewConverges
  PausedViewCurrent
  BreakpointsSync
  RunningStoppable
  DisplayedProgram
PROPERTIES
  ImplementsSession
