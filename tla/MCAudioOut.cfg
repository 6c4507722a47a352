SPECIFICATION Spec
CONSTANTS
  BufSize = 4
  Header = 6
  PerByte = 5
  Trailer = 4
  Divider = 5
  MaxLen = 3
INVARIANTS
  PlaysInOrder
  SavedMeansPlayed
PROPERTIES
  RingIsFifo
  SaveEndsOrUnderruns
