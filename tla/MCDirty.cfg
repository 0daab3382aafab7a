SPECIFICATION Spec
CONSTANTS
  A = A
  B = B
  C = C
  e = e
  s = s
  l = l
  NONE = NONE
  ERASED = ERASED
  FREE_OR_DEL = 254
  EOF_PG = 255
  Name = {A, B}
  SizeOf <- MCSizeOf
  PG = 2
  SECTOR = 2
  Data = {s, l}
  FCB_CNT = 2
  BMP = 3
  Torn = {}
INVARIANTS
  NoDirtyChain
