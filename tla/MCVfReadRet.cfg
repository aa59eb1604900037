CONSTANTS
  Frames = {"fa"}
  ShadowFrames = {"s1"}
  Offsets = {1, 2}
  Funcs = {"sys_read", "sys_write"}
  FrameOf <- MCFrameOf
  OffsetOf <- MCOffsetOf
  VCPUS = {v1, v2}
  THREADS = {t1, t2}
  Failable = {"readret"}
  MaxCurMem = 1
  MaxOpen = 2
  PatchSites = {}
  NoReturn = {}
  MemPages = 2
  NONE = NONE
SPECIFICATION VfSpec
CONSTRAINT GuestTraceBound
CHECK_DEADLOCK FALSE
PROPERTY HijackOnlyCanonical
