\* One thread, every memory call, well-behaved arguments; breaks that are
\* not page multiples, and the program leaves the heap to brk.
CONSTANTS
  PG = 2
  NPages = 3
  Threads = {t1}
  NoThread = NoThread
  Ops = {"mmap", "munmap", "mprotect", "mremap", "brk", "madvise", "store"}
  Addrs <- MC_Addrs
  Lens <- MC_Lens
  Prots <- MC_Prots
  MapFixedChoices = {FALSE, TRUE}
  MremapFlags <- MC_Flags
  BrkVals <- MC_BrkUneven
  BrkMin = 1
  MaxCalls = 3
  Advices = {0, 4}
  MappedOnlyRanges = TRUE
  AllowShrink = TRUE
  HeapLeftToBrk = TRUE
  MmapFails = {FALSE}
SPECIFICATION Spec
INVARIANT TypeOK
INVARIANT ShadowMirror
INVARIANT CodeMapExact
INVARIANT NoDie
INVARIANT ShadowTaintMirror
INVARIANT BrkHeapMapped
