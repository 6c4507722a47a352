SPECIFICATION Spec
CONSTANTS
  MemSize = 144
  VIDEO_ADDR = 24
  CHARS_WIDTH = 4
  CHARS_HEIGHT = 3
  CharLines = 2
  TabStop = 2
  Base = 12
  Chunk = 5
  InputLimit = 3
  BufferSize = 4
  Space = 4
  Font <- MCFont
  text_err_ok <- Ok
  text_err_prg <- Err
  text_err_sys <- Sys
  Data <- MCData
  Stores <- MCStores
  Pushes <- MCPushes
  Blocks <- MCBlocks
  Key = {8, 9}
  Random = {5}
  MaxCalls = 3
  MaxText = 15
CHECK_DEADLOCK FALSE
INVARIANT ShowsPrinted
PROPERTIES DrawingKeepsMemory TextMoved
