\* translate_control on every control action, with targets in the map, at
\* its edges and outside it, under every call strategy and taint setting.
CONSTANTS
  MapLo = 4096
  MapHi = 4352
  Instrs <- MC_Instrs
  Strategies = {"preseed", "prefetch", "none"}
  TaintFlags = {FALSE, TRUE}
  TaintPushLen = 9
  TaintIjmpLen = 14
SPECIFICATION Spec
INVARIANT TypeOK
INVARIANT ControlTranslated
INVARIANT CallFrame
INVARIANT GenCodeFaithful
