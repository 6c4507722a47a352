SPECIFICATION Spec
CONSTANTS
  Addresses = {0, 6656, 65280}
  Numbers = {0, 6529, 6600, 18, 255, 256, 4660, 6700, 65535, 65541}
  Operand = {0, 1, 127, 128, 255}
  TypedLines <- MCLines
  BytesThere <- MCBytes
  Afters <- MCAfters
CHECK_DEADLOCK FALSE
INVARIANTS
  CarryMakesExact
  OverflowIsSigned
  CompareIsSubtract
  AssembledIsRun
  ListingInStep
  ListingReassembles
  ListedTargetIsTyped
