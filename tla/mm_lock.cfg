\* Two threads: user_mmap against shadow_mremap growing in place, the race
\* map_lock is there to prevent.
CONSTANTS
  PG = 2
  NPages = 3
  Threads = {t1, t2}
  NoThread = NoThread
  Ops = {"mmap", "mremap"}
  Addrs <- MC_Addrs
  Lens <- MC_Lens
  Prots <- MC_RW
  MapFixedChoices = {FALSE}
  MremapFlags = {0}
  BrkVals <- MC_Brk
  BrkMin = 2
  MaxCalls = 2
  Advices = {0}
  MappedOnlyRanges = TRUE
  AllowShrink = FALSE
  HeapLeftToBrk = FALSE
  MmapFails = {FALSE, TRUE}
SPECIFICATION Spec
INVARIANT NoUserInShadow
INVARIANT MapLockExclusive
PROPERTY CallsReturn
