SPECIFICATION FetchSpec
CONSTANTS
  PageSize = 112
  PageHeaderSize = 4
  ItemIdSize = 2
  WordMod = 512
  Nibble = 4
  CtrlBits = 4
  Slack = 2
  Mark = 2
  Files <- IntactFiles
  Pointers <- MCPointers
  Store <- MCStore
INVARIANT IntactValueNeverRefused
