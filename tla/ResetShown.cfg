SPECIFICATION Spec
CONSTANTS
  Ports <- MCPorts
  Half = 1
  Words <- MCWords
  MaxEvents = 1
INVARIANTS
  ResetShown
