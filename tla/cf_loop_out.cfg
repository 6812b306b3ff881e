\* A loop whose target lies outside the map: translate_control still skips
\* 5 bytes (EB 05) over the jump, which is a 27-byte trampoline here.
CONSTANTS
  MapLo = 4096
  MapHi = 4352
  Instrs <- MC_LoopOut
  Strategies = {"none"}
  TaintFlags = {FALSE}
  TaintPushLen = 9
  TaintIjmpLen = 14
SPECIFICATION Spec
INVARIANT ControlTranslated
