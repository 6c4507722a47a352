SPECIFICATION MCSpec
CONSTANTS
  PROG_START = 6656
  ListLines = 6
  PeekBytes = 48
  Pixels = 0
  CommandLines <- MCCommandLines
  AsLines <- MCAsLines
  PokeLines <- MCPokeLines
  Blocks <- MCBlocks
  ProgramWrites <- MCProgramWrites
  MaxCommands = 4
CHECK_DEADLOCK FALSE
INVARIANTS ListingWalksSource ProgramRunsSource SavesWhatWasTyped
PROPERTY FailedCommandKeeps
