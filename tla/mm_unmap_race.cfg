\* Two threads: munmap of one against mmap of the other.
CONSTANTS
  PG = 2
  NPages = 3
  Threads = {t1, t2}
  NoThread = NoThread
  Ops = {"mmap", "munmap"}
  Addrs <- MC_Addrs
  Lens <- MC_Lens
  Prots <- MC_RW
  MapFixedChoices = {FALSE, TRUE}
  MremapFlags = {0}
  BrkVals <- MC_Brk
  BrkMin = 2
  MaxCalls = 2
  Advices = {0}
  MappedOnlyRanges = TRUE
  AllowShrink = FALSE
  HeapLeftToBrk = FALSE
  MmapFails = {FALSE}
SPECIFICATION Spec
INVARIANT ShadowMirror
