SPECIFICATION Spec
CONSTANTS
  Nibble = 2
  HistLists = 3
  Mix <- MCMix
  MaxInt = 2147483647
  MaxLen = 11
  PairLen = 4
  Calls <- MCCalls
INVARIANTS
  HistoryIsWindow
  WritesItsSource
  StaysInBuffer
PROPERTIES
  CompressTerminates
