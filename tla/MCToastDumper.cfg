SPECIFICATION Spec
CONSTANTS
  Calls <- MCCalls
  MaxUnsigned = 15
  ChunkPos = 2
  ShownBytes = 3
INVARIANTS
  OnlyAskedFor
  ShowsItsBytes
