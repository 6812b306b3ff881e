------------------------- MODULE FinishInstruction -------------------------
(***************************************************************************)
(* finish_instruction (jit_fragment.c:207-265) composed with the fragment *)
(* re-translator and the ops of jit_code.c.  A thread runs the jit code of *)
(* one emulated instruction (an op of JitOps) item by item; a signal may   *)
(* arrive at any item boundary.  The handler then calls                    *)
(* finish_instruction, which loops up to three times:                     *)
(*   - at the start of a jit op, it returns that op's original address;   *)
(*   - inside one, it re-translates the op (JitFragment, two passes) with  *)
(*     the interrupted pc as entry and runs the fragment, which leaves     *)
(*     through jit_fragment_exit with jit_rip the jit address to go on at; *)
(*   - in the syscall critical section or the cache resolution code, it   *)
(*     moves the pc to the restart point or the relocated copy and runs.   *)
(* The jit code of the op is at offsets 0 .. OpLen(op): offset 0 is its   *)
(* start, OpLen(op) the start of the next instruction's jit code.         *)
(* jit_fragment_run and the runtime are assembly outside the repository:  *)
(* the fragment is run here by the CPU semantics of its instructions.     *)
(***************************************************************************)
EXTENDS JitOps

CONSTANTS
  Ops,          \* the jit ops a signal may interrupt
  Flags,        \* condition flag values (the cmov condition)
  Slices, MinemuCode, CacheRes, RelocDelta, FragCap, Garbage,
  Critical,     \* pcs between syscall_intr_critical_start and _end
  CritStart     \* syscall_intr_critical_start

VARIABLES
  slice, entry, pass, s_off, d_off, mapping, frag, jit_entry, dead,
  op,          \* the jit code of the instruction the thread runs
  flag,        \* its condition flag
  ecx0,        \* ECX when the instruction started
  rip,         \* [in |-> "op", off |-> offset into op] or [in |-> "frag", off |-> d]
  ecx,         \* ECX now
  did,         \* the copy items of op executed so far, by tag
  phase,       \* "cpu", "finish", "jit", "run", "returned"
  i,           \* the iteration of finish_instruction's loop
  restartsys,  \* local_ctx->jit_fragment_restartsys
  result       \* the original address returned: the start of this or of the next
               \* instruction (at), and whether 2 was taken off it (back2)

F == INSTANCE JitFragment

fvars == <<slice, entry, pass, s_off, d_off, mapping, frag, jit_entry>>
vars  == <<fvars, dead, op, flag, ecx0, rip, ecx, did, phase, i, restartsys, result>>

\* Mutant: one pass, no second look after the fragment ran.
Passes_one == 1

\* the number of passes of finish_instruction's loop (jit_fragment.c:215)
Passes == 3

OpPc(o) == [in |-> "op", off |-> o]

(***************************************************************************)
(* The CPU running the fragment from offset pc (jit_fragment_run).  An     *)
(* emitted instruction keeps the opcode of the op item it was made from   *)
(* (src): a copied item, the jcc or loop opcode with a new displacement.  *)
(* Returns where control leaves the fragment: jit_rip, or "bad" where no  *)
(* instruction starts; and ECX and the copy items run on the way.  tag    *)
(* maps the offsets of the slice's items to their opcodes.                 *)
(***************************************************************************)
RECURSIVE FragExec(_, _, _, _, _, _, _)
FragExec(f, tag, pc, jrip, e, out, fuel) ==
  IF fuel = 0 \/ pc \notin DOMAIN f \/ f[pc].k = "none"
  THEN [to |-> [in |-> "bad", off |-> 0], ecx |-> e, out |-> out]
  ELSE
    LET it  == f[pc]
        t   == tag[it.src]
        nx  == pc + it.n
        go(x) == FragExec(f, tag, x, jrip, e, out, fuel - 1)
    IN  CASE it.k = "copy"    -> FragExec(f, tag, nx, jrip, e, out \o <<t>>, fuel - 1)
          [] it.k = "jcc"     -> go(IF Taken(t, e, flag) THEN nx + it.rel ELSE nx)
          [] it.k = "jccinv"  -> go(IF Taken(t, e, flag) THEN nx ELSE nx + it.rel)
          [] it.k = "loop"    -> FragExec(f, tag, IF Taken(t, e, flag) THEN nx + it.rel ELSE nx,
                                          jrip, DecEcx(t, e), out, fuel - 1)
          [] it.k \in {"jmp", "jmp8"} -> go(nx + it.rel)
          [] it.k = "setrip"  -> FragExec(f, tag, nx, it.addr, e, out, fuel - 1)
          [] it.k = "jmpexit" -> [to |-> OpPc(jrip), ecx |-> e, out |-> out]
          [] it.k = "jmpabs"  -> [to |-> [in |-> "abs", off |-> it.addr], ecx |-> e, out |-> out]

\* the opcode of the item of op s at each item offset, for each op
Tags(s) == [o \in {ItemOff(s, k) : k \in 1 .. Len(s)} |->
              s[CHOOSE k \in 1 .. Len(s) : ItemOff(s, k) = o].tag]
OpTags == [s \in Ops |-> Tags(s)]

Init ==
  /\ op \in Ops /\ flag \in Flags /\ ecx0 \in RepCounts
  /\ ecx = ecx0 /\ rip = OpPc(0) /\ did = <<>>
  /\ phase = "cpu" /\ i = 0 /\ restartsys = FALSE
  /\ result = [at |-> "none", back2 |-> FALSE]
  /\ slice = op /\ entry = 0 /\ pass = "done" /\ s_off = 0 /\ d_off = 0
  /\ mapping = [o \in 0 .. OpLen(op) |-> Garbage]
  /\ frag = [d \in 0 .. FragCap |-> F!NoIns]
  /\ jit_entry = F!Null /\ dead = FALSE

(* The thread executes one item of its op.                                *)
CpuStep ==
  /\ phase = "cpu" /\ rip.off < OpLen(op)
  /\ LET st == OpStep(op, rip.off, ecx, flag)
     IN  rip' = OpPc(st.pc) /\ ecx' = st.ecx /\ did' = did \o st.did
  /\ UNCHANGED <<fvars, dead, op, flag, ecx0, phase, i, restartsys, result>>

(* A signal arrives; the handler calls finish_instruction (211-213).      *)
Signal ==
  /\ phase = "cpu"
  /\ phase' = "finish" /\ i' = 0 /\ restartsys' = FALSE
  /\ UNCHANGED <<fvars, dead, op, flag, ecx0, rip, ecx, did, result>>

(***************************************************************************)
(* One pass of the loop (215-242): the reverse lookup of the pc, the      *)
(* return at an op start, or the choice of where to run from: the         *)
(* fragment of the op (jit_fragment, two passes of JitFragment), the      *)
(* restart point of an interrupted syscall, or the relocated cache         *)
(* resolution code.  After the last pass it dies (263).                   *)
(***************************************************************************)
\* Mutant: the pc is accepted as an instruction boundary anywhere in an op.
FinishPass_any_offset ==
  /\ phase = "finish" /\ ~dead
  /\ IF i = Passes THEN dead' = TRUE /\ UNCHANGED <<fvars, phase, rip, result>>
     ELSE IF rip.in = "op"
     THEN /\ phase' = "returned"
          /\ result' = [at |-> IF rip.off = OpLen(op) THEN "next" ELSE "this", back2 |-> restartsys]
          /\ UNCHANGED <<fvars, dead, rip>>
     ELSE /\ rip' = rip /\ phase' = "run" /\ UNCHANGED <<fvars, dead, result>>
  /\ UNCHANGED <<op, flag, ecx0, ecx, did, i, restartsys>>

FinishPass ==
  /\ phase = "finish" /\ ~dead
  /\ IF i = Passes THEN dead' = TRUE /\ UNCHANGED <<fvars, phase, rip, result>>
     ELSE IF rip.in = "op" /\ rip.off \in {0, OpLen(op)}
     THEN /\ phase' = "returned"
          /\ result' = [at |-> IF rip.off = OpLen(op) THEN "next" ELSE "this", back2 |-> restartsys]
          /\ UNCHANGED <<fvars, dead, rip>>
     ELSE IF rip.in = "op"
     THEN /\ slice' = op /\ entry' = rip.off /\ pass' = "first"
          /\ s_off' = 0 /\ d_off' = 0 /\ jit_entry' = F!Null
          /\ mapping' = [o \in 0 .. OpLen(op) |-> Garbage]
          /\ phase' = "jit"
          /\ UNCHANGED <<frag, dead, rip, result>>
     \* outside the jit code: runtime code at an absolute address
     ELSE /\ rip' = CASE rip.off \in Critical -> [rip EXCEPT !.off = CritStart]
                      [] rip.off \in CacheRes -> [rip EXCEPT !.off = @ + RelocDelta]
                      [] OTHER                -> rip
          /\ phase' = "run"
          /\ UNCHANGED <<fvars, dead, result>>
  /\ UNCHANGED <<op, flag, ecx0, ecx, did, i, restartsys>>

(* jit_fragment's two calls of jit_fragment_translate, as JitFragment      *)
(* models them; context->rip becomes the returned entry.                   *)
Jit ==
  /\ phase = "jit" /\ ~dead
  /\ \/ (F!TranslateInstr \/ F!TranslateEnd) /\ UNCHANGED phase
     \/ pass = "done" /\ phase' = "run" /\ UNCHANGED <<fvars, dead>>
  /\ rip' = IF pass = "done" THEN [in |-> "frag", off |-> jit_entry] ELSE rip
  /\ UNCHANGED <<op, flag, ecx0, ecx, did, i, restartsys, result>>

(* jit_fragment_run (243-257): the CPU runs the fragment until it leaves; *)
(* then the next pass of the loop.                                        *)
Run ==
  /\ phase = "run" /\ ~dead
  /\ LET r == IF rip.in = "frag" THEN FragExec(frag, OpTags[slice], rip.off, 0, ecx, <<>>, 40)
               ELSE [to |-> rip, ecx |-> ecx, out |-> <<>>]
     IN  rip' = r.to /\ ecx' = r.ecx /\ did' = did \o r.out
  /\ phase' = "finish" /\ i' = i + 1
  /\ UNCHANGED <<fvars, dead, op, flag, ecx0, restartsys, result>>

\* The thread has finished the op without a signal, or the handler returned.
Stop ==
  /\ \/ phase = "cpu" /\ rip.off = OpLen(op)
     \/ phase = "returned" \/ dead
  /\ UNCHANGED vars

Next == CpuStep \/ Signal \/ FinishPass \/ Jit \/ Run \/ Stop

(* The handler runs finish_instruction to its end: the thread executes    *)
(* nothing else meanwhile and signals are blocked in the handler, so each  *)
(* of its steps is weakly fair.  WF_vars(Jit) and WF_vars(Run) are written *)
(* out with their enabling conditions as state predicates, which spares   *)
(* TLC a search through the translator and the fragment for ENABLED: in   *)
(* phase "jit" a live thread always has a Jit step (a translation step, or *)
(* the jump to the fragment once both passes are done), and in phase "run" *)
(* a Run step (FragExec is total).                                         *)
JitCanStep == phase = "jit" /\ ~dead
RunCanStep == phase = "run" /\ ~dead
Spec ==
  /\ Init /\ [][Next]_vars
  /\ WF_vars(FinishPass)
  /\ ([]<>~JitCanStep \/ []<><<Jit>>_vars)
  /\ ([]<>~RunCanStep \/ []<><<Run>>_vars)
TypeOK ==
  /\ phase \in {"cpu", "finish", "jit", "run", "returned"}
  /\ i \in 0 .. Passes
  /\ rip.in \in {"op", "frag", "abs", "bad"}
  /\ rip.in = "op" => rip.off \in 0 .. OpLen(op)
  /\ ecx \in 0 .. ecx0

(* An interrupted instruction is completed exactly once: no step of its  *)
(* jit op is applied twice or lost (spec section 4.6, the reason for the  *)
(* fragment).  Where finish_instruction returns, the thread               *)
(* resumes: at the next instruction, or at this one, which runs its jit   *)
(* op again from the start with the registers as they are (a rep op      *)
(* keeps its progress in ECX).  The items run before the signal, in the   *)
(* fragment and after the resumption are those of one uninterrupted run   *)
(* of the op, and ECX ends the same.                                      *)
FinishCompletes ==
  phase = "returned" =>
    LET full   == Exec(op, ecx0, flag)
        resume == IF result.at = "next" THEN [out |-> <<>>, ecx |-> ecx]
                  ELSE Exec(op, ecx, flag)
    IN  did \o resume.out = full.out /\ resume.ecx = full.ecx

(* finish_instruction returns: from wherever the signal interrupts the    *)
(* op, the pc reaches an instruction boundary within the passes of its    *)
(* loop, instead of the die() at line 263.                                *)
FinishReturns == phase = "finish" ~> phase = "returned"
=============================================================================
