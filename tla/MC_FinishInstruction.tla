------------------------ MODULE MC_FinishInstruction ------------------------
(***************************************************************************)
(* The ops of JitOps a signal interrupts: rep movs as taint_rep emits it,  *)
(* with and without taint code and the 66 prefix, cmov, and cmpxchg.      *)
(***************************************************************************)
EXTENDS FinishInstruction

MC_Ops ==
  {RepOp(g) : g \in [taint : BOOLEAN, p3 : BOOLEAN, p2 : {FALSE}, tl : {6}]}
  \cup {CmovOp([taint |-> TRUE, p3 |-> FALSE, p2 |-> FALSE, tl |-> 6]),
        taint_cmpxchg(Instr(3, FALSE, FALSE, FALSE), 7, 7)}
=============================================================================
