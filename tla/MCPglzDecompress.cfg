SPECIFICATION RTSpec
CONSTANTS
  Nibble = 2
  CtrlBits = 2
  Slack = 3
  Mark = 2
  MaxSrc = 5
  MaxExcess = 1
  MaxRaw = 6
  MaxItems = 4
  Inputs <- MCInputs
  ItemLists <- MCItemLists
  Excess = {0, 1, 3}
INVARIANTS
  TypeOK
  SlackUntouched
  ZeroTail
  OverreadBounded
  RoundTrip
  NoOverreadOfValidStream
PROPERTIES
  OutputStable
  Termination
  DecodesToEnd
