SPECIFICATION BusSpec
CONSTANTS
  LinesPerFrame = 312
  DBegin = 68
  DEnd = 260
  VsyncLine = 310
  VsyncLead = 6
  AdjLine = 6
  MaxBurst = 64
  StepsPerLine = 12
  Sizes <- MCSizes
INVARIANTS
  NoStrayWrite
  BurstIntact
PROPERTIES
  PictureIntact
  RequestServed
