CONSTANTS
  Frames = {"fa"}
  ShadowFrames = {"s1"}
  Offsets = {1, 2}
  Funcs = {"sys_read", "sys_write"}
  FrameOf <- MCFrameOf
  OffsetOf <- MCOffsetOf
  VCPUS = {v1, v2}
  THREADS = {t1, t2}
  Failable = {"vmiinit", "ostype", "xcopen", "libxl", "domid", "memsize", "altp2m", "createview", "switchview", "setup", "listen"}
  MaxCurMem = 1
  MaxOpen = 2
  PatchSites <- MCPatchSites
  NoReturn = {}
  MemPages = 2
  NONE = NONE
SPECIFICATION FairSpec
CONSTRAINT GuestTraceBound
INVARIANT TypeOK Pairing HijackedIffTracked ViewDiscipline StealthWhileTracing NoCrashWhileTracing WritesReachOriginal RecordsArmed
PROPERTY CallTracerRefined EventsHandled
CHECK_DEADLOCK FALSE
