SPECIFICATION FetchSpec
CONSTANTS
  PageSize = 112
  PageHeaderSize = 4
  ItemIdSize = 2
  WordMod = 512
  Nibble = 4
  CtrlBits = 4
  Slack = 2
  Mark = 2
  Files <- MCFiles
  Pointers <- MCPointers
  Store <- MCStore
INVARIANTS
  FetchTypeOK
  EntriesAreChunks
  ChunksAreEntered
  UsableMapIsTrue
  IntactValueFetched
  LeftoversInOrder
PROPERTIES
  OnlyDamageFailsStream
  ChunkBytesArrive
  LookupEnds
  ImplementsLookup
