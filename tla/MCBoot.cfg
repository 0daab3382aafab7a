SPECIFICATION BootSpec
CONSTANTS
  S = S
  D1 = D1
  U = U
  f = f
  d = d
  u = u
  NONE = NONE
  ERASED = ERASED
  FREE_OR_DEL = 254
  EOF_PG = 255
  Name = {S, D1, U}
  SCHEDULE = S
  Demo <- MCDemo
  Factory <- MCFactory
  Uploads = {u}
  SizeOf <- MCSizeOf
  PG = 1
  SECTOR = 2
  Data = {f, d, u}
  FCB_CNT = 3
  BMP = 3
  Torn = {"data", "meta"}
INVARIANTS
  FlashSound
  OthersSurvive
  SelfHeals
  DemosBeforeSchedule
