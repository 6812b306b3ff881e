\* One thread: data stored in a fixed mapping above the break, then brk
\* grows the heap over it.
CONSTANTS
  PG = 2
  NPages = 3
  Threads = {t1}
  NoThread = NoThread
  Ops = {"brk", "mmap", "store"}
  Addrs <- MC_Addrs
  Lens <- MC_Lens
  Prots <- MC_RW
  MapFixedChoices = {TRUE}
  MremapFlags = {0}
  BrkVals <- MC_Brk
  BrkMin = 2
  MaxCalls = 2
  Advices = {0}
  MappedOnlyRanges = TRUE
  AllowShrink = FALSE
  HeapLeftToBrk = FALSE
  MmapFails = {FALSE}
SPECIFICATION Spec
PROPERTY BrkNoClobber
