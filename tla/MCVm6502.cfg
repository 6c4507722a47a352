SPECIFICATION Spec
CONSTANTS
  Memories <- AllPrograms
  Answers = {1}
  Texts <- Lines
  MaxSteps = 32
CHECK_DEADLOCK FALSE
INVARIANTS
  StackIsLifo
  ProgramsCompute
PROPERTIES
  FramesResume
