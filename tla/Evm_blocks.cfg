SPECIFICATION Spec
CONSTANTS
  WordSize = 2
  AddressSize = 1
  StackLimit = 8
  MaxBuffer = 20
  CallDepth = 3
  CalcHash <- MCCalcHash
  Codes <- MCCodes
  Messages <- MCMessages
  Revisions = {0, 7}
  Hosts <- MCHosts
  Pieces <- MCPieces
  MaxPieces = 4
  Probed <- MCProbed
  Arguments = {0, 1, 3, 65535}
  GasGiven = {45, 2310, 60000}
INVARIANTS ResultAgrees NoFault StaticStays
PROPERTIES StepKeepsAccounts Terminates
CHECK_DEADLOCK FALSE
