\* The fragment re-translation of every jit op shape jit_code.c emits,
\* interrupted at every instruction boundary but the first.
CONSTANTS
  Slices <- MC_Slices
  MinemuCode <- MC_Minemu
  CacheRes = {2000}
  RelocDelta = 500
  TaintLens = {6, 7}
  RepCounts = {0, 1, 2, 3}
  FragCap = 80
  Garbage = Garbage
SPECIFICATION Spec
INVARIANT TypeOK
INVARIANT FragmentReplaysSlice
INVARIANT OpsTranslated
