SPECIFICATION EditSpec
CONSTANTS
  Cols = 3
  Rows = 3
  Char = {"a", "b"}
  Starts <- MCAnywhere
  Sizes = {0, 3}
  Limit = 3
  BufferSize = 6
  BufSize = 3
  FifoSize = 1
  Key = {"a"}
  Mute = {"f1"}
  Shift = {"shift"}
  MaxEvents = 4
INVARIANT InputFits
