SPECIFICATION InputSpec
CONSTANTS
  Cols = 3
  Rows = 3
  Char = {"a", "b"}
  Starts <- MCAnywhere
  Sizes <- MCSizes
  Limit = 6
  BufferSize = 6
  BufSize = 3
  FifoSize = 1
  Key = {"a"}
  Mute = {"f1"}
  Shift = {"shift"}
  MaxEvents = 4
INVARIANTS
  CursorFollowsText
  TextShown
  OneCursor
  StaysOnScreen
  InputLimited
  TypedAsMeant
  NothingStaysBehind
  ShiftRecovers
PROPERTIES
  RestKept
