CONSTANTS
  Frames = {"fa", "fb"}
  ShadowFrames = {"s1", "s2"}
  Offsets = {1, 2}
  Funcs = {"sys_read", "sys_write", "sys_close"}
  FrameOf <- MCFrameOf
  OffsetOf <- MCOffsetOf
  Failable = {"symbol", "translate", "maxmem", "reserve", "populate", "changegfn", "copy", "int3write"}
  MaxCurMem = 3
  MemPages = 2
  NONE = NONE
SPECIFICATION TableSpec
CONSTRAINT CurMemBound
INVARIANT TableTypeOK NoDoubleAllocation
CHECK_DEADLOCK FALSE
