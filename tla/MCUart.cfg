SPECIFICATION Spec
CONSTANTS
  Bytes <- MCBytes
  LF = 2
  CR = 1
  Messages <- MCMessages
  DisplayModes <- MCDisplayModes
  MaxBuffer = 0
  MaxText = 0
  MaxUpdates = 0
INVARIANTS
  TypeOK
  StatusWithoutOverlap
PROPERTIES
  StaysShown
