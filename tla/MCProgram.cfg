SPECIFICATION Spec
CONSTANTS
  Sources <- MCSources
  OS_MAX_PARAM = 128
  Device = {0, 1}
  Input = {0, 1}
  Letter = {5}
  Fill = {0, 255}
INVARIANTS
  TypeOK
  AtInstruction
  StaysInFrame
  NamesResolve
  ShippedCode
PROPERTY IsLanguage
CHECK_DEADLOCK FALSE
