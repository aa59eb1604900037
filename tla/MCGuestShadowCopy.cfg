CONSTANTS
  Frames = {"fa"}
  ShadowFrames = {"s1"}
  Offsets = {1, 2}
  Funcs = {"sys_read", "sys_write"}
  FrameOf <- MCFrameOf
  OffsetOf <- MCOffsetOf
  VCPUS = {v1, v2}
  THREADS = {t1, t2}
  Failable = {"copy"}
  MaxCurMem = 1
  MaxOpen = 2
  PatchSites <- MCPatchSites
  NoReturn = {}
  MemPages = 2
  NONE = NONE
SPECIFICATION FairSpec
CONSTRAINT GuestTraceBound
INVARIANT ShadowViewFaithful
CHECK_DEADLOCK FALSE
