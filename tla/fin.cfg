\* A signal at every item boundary of rep movs (ECX 0 to 3), cmov (either
\* condition) and cmpxchg; the runtime regions are not reached from them.
CONSTANTS
  Ops <- MC_Ops
  Flags = {FALSE, TRUE}
  RepCounts = {0, 1, 2, 3}
  TaintLens = {6}
  Slices = {}
  MinemuCode = {1000}
  CacheRes = {2000}
  RelocDelta = 500
  Critical = {3000, 3001}
  CritStart = 3000
  FragCap = 80
  Garbage = Garbage
SPECIFICATION Spec
INVARIANT FinishCompletes
PROPERTY FinishReturns
