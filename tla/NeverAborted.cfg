SPECIFICATION Spec
CONSTANTS
  m1 = m1
  m2 = m2
  good = good
  other = other
  odd = odd
  broken = broken
  bad = bad
  NoMachine = NoMachine
  NoFile = NoFile
  Machines <- LiveMachines
  Addresses <- MCAddresses
  Entry = 1
  Files <- BrokenFiles
  ValidFiles <- BrokenFiles
  LoadableFiles <- LiveFiles
  ListedFiles <- LiveFiles
  Listing <- LiveListing
  MaxPending = 0
INVARIANTS
  NeverAborted
