SPECIFICATION Spec
CONSTANTS
  A = A
  B = B
  C = C
  ABSENT = ABSENT
  NONE = NONE
  Name = {A, B, C}
  Cell = {1, 2}
  FILE_MAX = 2
  Var <- MCVar
  Want = {0, 1, 2}
  PG = 1
  FCB_CNT = 2
  BMP = 3
INVARIANTS
  TypeOK
  SnapshotIsFile
PROPERTIES
  ReadsTheFile
  WritesInPlace
