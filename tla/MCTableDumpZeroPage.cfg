SPECIFICATION Spec
CONSTANTS
  PageSize = 34
  PageHeaderSize = 4
  ItemIdSize = 4
  WordMod = 256
  Batch = 2
  Mixed <- MCMixed
  Calls <- MCCalls
INVARIANT StaysOnPage
