\* Two threads calling brk: user_brk reads brk_cur and writes it back
\* without a lock, so a shrink and a concurrent no-op leave the break
\* above an unmapped heap.
CONSTANTS
  PG = 2
  NPages = 3
  Threads = {t1, t2}
  NoThread = NoThread
  Ops = {"brk"}
  Addrs <- MC_Addrs
  Lens <- MC_Lens
  Prots <- MC_RW
  MapFixedChoices = {FALSE}
  MremapFlags = {0}
  BrkVals <- MC_Brk
  BrkMin = 2
  MaxCalls = 2
  Advices = {0}
  MappedOnlyRanges = TRUE
  AllowShrink = FALSE
  HeapLeftToBrk = FALSE
  MmapFails = {FALSE}
SPECIFICATION Spec
INVARIANT BrkHeapMapped
