SPECIFICATION Spec
CONSTANTS
  LocalSize = 3
  MemSize = 6
  Byte = {0, 1}
  MaxAccess = 2
PROPERTIES
  IsLinear
