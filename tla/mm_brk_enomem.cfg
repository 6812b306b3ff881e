\* One thread moving the break, with a kernel that may refuse a mmap with
\* ENOMEM (RLIMIT_DATA): user_brk stores the new break all the same.
CONSTANTS
  PG = 2
  NPages = 3
  Threads = {t1}
  NoThread = NoThread
  Ops = {"brk", "mmap"}
  Addrs <- MC_Addrs
  Lens <- MC_Lens
  Prots <- MC_RW
  MapFixedChoices = {FALSE, TRUE}
  MremapFlags = {0}
  BrkVals <- MC_BrkUneven
  BrkMin = 1
  MaxCalls = 4
  Advices = {0}
  MappedOnlyRanges = TRUE
  AllowShrink = FALSE
  HeapLeftToBrk = FALSE
  MmapFails = {FALSE, TRUE}
SPECIFICATION Spec
INVARIANT BrkHeapMapped
