SPECIFICATION PanelsSpec
CONSTANTS
  PageSize = 2
  GuestSize = 6
  WordSize = 8
  d1 = d1
  d2 = d2
  dllA = dllA
  dllB = dllB
  prog = prog
  Slots = {d1, d2}
  NoDevice = NoDevice
  Untrapped = Untrapped
  Programs = {prog}
  NoProgram = NoProgram
  Names <- MCNames
  Dlls = {dllA, dllB}
  NoDll = NoDll
  Configs <- MCConfigs
  Indexes <- MCIndexes
  Positions <- MCPositions
  FixedItems <- MCFixedItems
  PERIPHERALS = "BOTTOM"
  MaxWindows = 1
  Nobody <- MCNobody
INVARIANTS
  TypeOK
  DispatchCorrect
  DevicesHaveCode
  PanelsMatchDevices
  StaleOnlyAfterLatePause
  EveryPanelReachable
PROPERTIES
  ImplementsTraps
  SetupReturns
