SPECIFICATION Spec
CONSTANTS
  PageSize = 200
  PageHeaderSize = 24
  ItemIdSize = 4
  WordMod = 65536
  Columns <- MCColumns
  Required <- MCRequired
  ByteBits = 4
  ToastSize = 6
  Tuples <- MCTuples
INVARIANT WalkEndsWithTuple
