--------------------------- MODULE MC_ControlFlow ---------------------------
(***************************************************************************)
(* Control instructions for ControlFlow, in the map [4096, 4352) and with  *)
(* targets inside it, at its edges and outside it.                         *)
(***************************************************************************)
EXTENDS ControlFlow

I(act, addr, len, ilen, rel) ==
  [act |-> act, addr |-> addr, len |-> len, ilen |-> ilen, rel |-> rel,
   mrm |-> 1, seg |-> FALSE]

Addr == 4200
\* displacements reaching: in the map, its first byte, one past its end, outside
Rels8  == {-100, 4096 - 4202, 4352 - 4202, 120}
Rels32 == {-100, 4096 - 4205, 4352 - 4205, 50000}

MC_Instrs ==
  {I("JR", Addr, 2, 1, r) : r \in Rels8} \cup {I("JR", Addr, 5, 4, r) : r \in Rels32}
  \cup {I("JC", Addr, 2, 1, r) : r \in Rels8} \cup {I("JC", Addr, 6, 4, r - 1) : r \in Rels32}
  \cup {I("CR", Addr, 5, 4, r) : r \in Rels32}
  \cup {I("JF", Addr, 7, 6, t) : t \in {4100, 9000}}
  \cup {I("L", Addr, 2, 1, r) : r \in {-100, 4096 - 4202}}
  \cup {[I("JI", Addr, 2, 0, 0) EXCEPT !.seg = s] : s \in BOOLEAN}
  \cup {[I("CI", Addr, 3, 0, 0) EXCEPT !.mrm = 2] }
  \cup {I("R", Addr, 1, 0, 0), I("RC", Addr, 3, 2, 8), I("JOIN", Addr, 1, 0, 0)}

\* loop, loopz, loopnz, jecxz whose target lies outside the map
MC_LoopOut == {I("L", Addr, 2, 1, r) : r \in {120, -127}}

\* 16-bit operand size: 66 E9 rel16 and 66 0F 8x rel16
MC_Jump16 == {I("JR", Addr, 4, 2, r) : r \in {-100, 100}}
=============================================================================
