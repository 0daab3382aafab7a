SPECIFICATION Spec
CONSTANTS
  Sources <- MCRecvSources
  OS_MAX_PARAM = 128
  Device = {0, 1}
  Input = {0, 1}
  Letter = {5}
  Fill = {0}
INVARIANT AtInstruction
CHECK_DEADLOCK FALSE
