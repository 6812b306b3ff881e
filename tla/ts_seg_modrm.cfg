\* Segment-prefixed loads into a ModRM register: the erase goes to the register in the opcode's low bits.
CONSTANTS
  Instrs <- MC_SegModrm
  TaintFlags = {TRUE}
SPECIFICATION Spec
INVARIANT TaintSound
