\* Every modelled taint-propagating opcode, 32- and 16-bit, with and without
\* taint on, and the segment-prefixed forms the substitution table handles.
CONSTANTS
  Instrs <- MC_Instrs
  TaintFlags = {TRUE, FALSE}
SPECIFICATION Spec
INVARIANT TaintPropagates
