--------------------------- MODULE MC_JitFragment ---------------------------
(***************************************************************************)
(* Slices for JitFragment: the shapes of the jit code that jit_code.c      *)
(* emits for one instruction, with the lengths its templates produce.      *)
(* A target is an offset from the start of the op.  The ops with a loop   *)
(* or a skip around the instruction come from the generators of JitOps.    *)
(***************************************************************************)
EXTENDS JitFragment, JitOps

C(n)          == Copy(n, "code")
Ctl(k, n, t)  == Item(k, n, t, "branch")
Total(s)      == SliceLen(s)

RuntimeIjmp == 1000      \* runtime_ijmp and the other runtime entry points
OtherJit    == -300      \* jit code of another op (call target in the map)

\* generate_jcc out of the map (849-867): j!cc over a cross-map trampoline
JccCrossMap == <<Ctl("jcc", 2, 29), C(6), C(6), C(5), C(5), Ctl("jmp", 5, RuntimeIjmp)>>

\* generate_call with PRESEED_ON_CALL (652-712), callee in the map
CallPreseed == <<C(5), C(11), C(11), Ctl("jmp", 5, OtherJit)>>

\* translate_control LOOP in the map (1063-1075): loop +2; jmp +5; jmp target
LoopInMap == <<Ctl("loop", 2, 4), Ctl("jmp", 2, 9), Ctl("jmp", 5, OtherJit)>>

\* generate_ijump (624-650) and generate_int80 (584-600): code, then runtime
Ijump   == <<C(6), C(6), C(3), C(6), Ctl("jmp", 5, RuntimeIjmp)>>
Int80   == <<C(4), C(11), Ctl("jmp", 5, RuntimeIjmp)>>

\* taint_cmpxchg: pre fix-up, the instruction, post fix-up
Cmpxchg == taint_cmpxchg(Instr(3, FALSE, FALSE, FALSE), 7, 7)

\* every rep movs and cmov that taint_rep and generate_cmov emit for GenInputs
Generated == {RepOp(g) : g \in GenInputs} \cup {CmovOp(g) : g \in GenInputs}

MC_Slices ==
  Generated \cup {JccCrossMap, CallPreseed, LoopInMap, Ijump, Int80, Cmpxchg}

(***************************************************************************)
(* The op being re-translated, when taint_rep or generate_cmov emitted it, *)
(* does what the original instruction does: a rep string op runs its taint *)
(* code and element step ECX times and ends with ECX = 0, a cmov runs its  *)
(* taint code and mov exactly when its condition holds.  This is the rel8  *)
(* arithmetic of both generators (jit_code.c:893, 983-984).                *)
(***************************************************************************)
OpsTranslated ==
  \A g \in GenInputs : /\ slice = RepOp(g) => RepRuns(g)
                       /\ slice = CmovOp(g) => CmovRuns(g)

MC_Minemu == {RuntimeIjmp}
=============================================================================
