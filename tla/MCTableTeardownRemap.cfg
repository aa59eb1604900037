CONSTANTS
  Frames = {"fa", "fb"}
  ShadowFrames = {"s1", "s2"}
  Offsets = {1, 2}
  Funcs = {"sys_read", "sys_write", "sys_close"}
  FrameOf <- MCFrameOf
  OffsetOf <- MCOffsetOf
  Failable = {}
  MaxCurMem = 3
  MemPages = 2
  NONE = NONE
SPECIFICATION TableSpec
CONSTRAINT CurMemBound
INVARIANT NoDanglingRemap
CHECK_DEADLOCK FALSE
