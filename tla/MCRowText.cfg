SPECIFICATION RowSpec
CONSTANTS
  PageSize = 200
  PageHeaderSize = 24
  ItemIdSize = 4
  WordMod = 65536
  Columns <- MCColumns
  Required <- MCRequired
  ByteBits = 4
  ToastSize = 6
  Tuples <- MCRowTuples
  Quote = 9
  Backslash = 12
  Separator = 5
  Letters <- MCLetters
  Unescape <- MCUnescape
  NullText <- MCNullText
  Placeholder <- MCPlaceholder
  Fetched <- MCFetched
INVARIANTS
  LayoutTypeOK
  ColumnsReadInPlace
  PrintedRowIsStored
  LiteralIsText
  RowReadsBack
