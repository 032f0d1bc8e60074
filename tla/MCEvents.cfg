SPECIFICATION FairSpec
CONSTANTS
  gui = gui
  backend = backend
  custom = custom
  default = default
  global = global
  other = other
  changed = changed
  l1 = l1
  l2 = l2
  NoName = NoName
  Null = Null
  DefaultName = global
  MaxAttached = 2
  Emitters <- MCEmitters
  Defaults <- MCDefaults
  Names <- MCNames
  NameOf <- MCNameOf
  EventNames <- MCEventNames
  Listeners <- MCListeners
  Threads <- MCThreads
INVARIANTS
  TypeOK
  StoreConsistent
  ReachesLastListener
PROPERTIES
  EntriesPersist
  EmitterReleased
