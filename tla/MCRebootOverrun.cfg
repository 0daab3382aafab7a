SPECIFICATION Spec
CONSTANTS
  A = A
  B = B
  NONE = NONE
  Name = {A}
  OS_MAX_TASK = 2
  Task <- MCTask
  OS_MAX_MEM = 10
  HDR = 1
  CTX = 1
  Traced = {}
  SLACK = 1
  OS_MAX_PARAM = 2
  MainSize = {1}
  SubSize = {2}
  Width = {1, 2}
  Letter = {A, B}
  Schedule <- MCTwins
PROPERTY RebootStaysInItsFrame
