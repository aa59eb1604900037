CONSTANTS
  Frames = {"fa"}
  ShadowFrames = {"s1"}
  Offsets = {1, 2}
  Funcs = {"sys_read", "sys_exit"}
  FrameOf <- MCFrameOf
  OffsetOf <- MCOffsetOf
  VCPUS = {v1, v2}
  THREADS = {t1, t2}
  Failable = {"trampwrite", "switchview", "setup", "listen"}
  MaxCurMem = 1
  MaxOpen = 2
  PatchSites = {}
  NoReturn = {"sys_exit"}
  MemPages = 2
  NONE = NONE
SPECIFICATION ExitSpec
CONSTRAINT GuestTraceBound
PROPERTY RestoreOnlyHijacked
CHECK_DEADLOCK FALSE
