SPECIFICATION FairSpec
CONSTANTS
  A = A
  B = B
  NONE = NONE
  Name = {A, B}
  OS_MAX_TASK = 2
  Task <- MCTask
  OS_MAX_MEM = 10
  HDR = 1
  CTX = 1
  Traced = {}
  SLACK = 1
  OS_MAX_PARAM = 3
  MainSize = {1}
  SubSize = {2}
  Width = {2}
  Letter = {A}
  Schedule <- MCSchedule
INVARIANTS
  TypeOK
  HeapConsistent
PROPERTIES
  CommandsSpareTheOthers
  EndsByItselfOrKill
  KillLeavesNone
  RebootAllFollowsSchedule
  MailIsKept
  EverySlotGetsItsTurn
