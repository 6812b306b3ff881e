----------------------------- MODULE TaintSelect -----------------------------
(***************************************************************************)
(* The taint instrumentation selector of src/src/jit_code.c: the action    *)
(* an opcode is classified as (jit_action), the downgrade of that action   *)
(* under a segment-override prefix (segment_prefix_mapping), the choice of *)
(* the 32- or 16-bit taint primitive (taint_ops) and the arguments         *)
(* taint_instr passes it.                                                  *)
(*                                                                         *)
(* Taint is tracked symbolically: every tracked byte starts out holding    *)
(* its own name, so after the emitted taint code has run, taint[l] is the  *)
(* set of bytes whose taint flowed into l.  The tracked bytes are the four *)
(* bytes of each general register, of the memory operand ("m") and of the *)
(* stack slot pushed or popped ("s").                                      *)
(*                                                                         *)
(* The taint primitives (taint_copy_mem32_to_reg32 and the others) are     *)
(* generated by taint_code.c, which is not part of src/; each is modelled  *)
(* by what its name says it does.                                          *)
(***************************************************************************)
EXTENDS Integers, Sequences, SequencesExt

CONSTANTS
  Instrs,       \* decoded instructions the translator is given
  TaintFlags    \* values of taint_flag (TRUE = TAINT_ON)

VARIABLES
  ins,          \* the decoded instruction
  taint_flag,   \* taint_flag == TAINT_ON
  code,         \* the emitted taint code: a sequence of byte-level effects
  taint,        \* location -> set of origins
  pc            \* "translate", "run" (emitted code executes), "done"

vars == <<ins, taint_flag, code, taint, pc>>

RegName == <<"eax", "ecx", "edx", "ebx", "esp", "ebp", "esi", "edi">>
R(i, b) == <<RegName[i + 1], b>>
Loc == {<<n, b>> : n \in {RegName[i] : i \in 1 .. 8} \cup {"m", "s"}, b \in 0 .. 3}
Origin == [l \in Loc |-> {l}]

(* An 8-bit register operand: AL, CL, DL, BL, then AH, CH, DH, BH.         *)
Loc8(i) == IF i < 4 THEN R(i, 0) ELSE R(i - 4, 1)

(***************************************************************************)
(* Actions (jit_code.c:55-126) and their argument classes.  The C enum     *)
(* places each class in its own numeric range, which TAINT_MRM_OP and the  *)
(* other macros (jit_code.c:46-53) test; here each class is a set.         *)
(***************************************************************************)
MrmActs == {"OR_MEM_TO_REG", "OR_REG_TO_MEM", "COPY_MEM_TO_REG", "COPY_REG_TO_MEM",
            "BYTE_OR_MEM_TO_REG", "BYTE_OR_REG_TO_MEM", "BYTE_COPY_MEM_TO_REG",
            "BYTE_COPY_REG_TO_MEM", "COPY_ZX_MEM_TO_REG", "BYTE_COPY_ZX_MEM_TO_REG",
            "SWAP_REG_MEM", "BYTE_SWAP_REG_MEM", "COPY_MEM_TO_PUSH",
            "COPY_POP_TO_MEM", "ERASE_MEM", "BYTE_ERASE_MEM"}
RegOffActs == {"COPY_REG_TO_PUSH", "COPY_POP_TO_REG"}
RegActs == {"SWAP_AX_REG", "ERASE_REG", "BYTE_ERASE_REG"}
OffActs == {"ERASE_PUSH", "COPY_AX_TO_STR", "COPY_STR_TO_AX",
            "BYTE_COPY_AL_TO_STR", "BYTE_COPY_STR_TO_AL"}
ImplActs == {"ERASE_AX", "ERASE_AX_DX", "BYTE_ERASE_AL"}
AddrActs == {"COPY_AX_TO_OFFSET", "COPY_OFFSET_TO_AX",
             "BYTE_COPY_AL_TO_OFFSET", "BYTE_COPY_OFFSET_TO_AL"}

(***************************************************************************)
(* jit_action (jit_code.c:314-398), the entries of the taint-propagating   *)
(* opcodes modelled: the primary table, the 0F escape table and the FF     *)
(* group (indexed by the ModRM reg field).                                 *)
(***************************************************************************)
MainAction ==
  [b \in {\h01, \h03, \h86, \h87, \h88, \h89, \h8A, \h8B, \h8F,
          \hA0, \hA1, \hA2, \hA3, \hAA, \hAB, \hAC, \hAD, \hC6, \hC7,
          \h6A} \cup (\h50 .. \h5F) \cup (\h91 .. \h97) \cup (\hB0 .. \hBF) |->
     CASE b \in \h50 .. \h57 -> "COPY_REG_TO_PUSH"
       [] b \in \h58 .. \h5F -> "COPY_POP_TO_REG"
       [] b \in \h91 .. \h97 -> "SWAP_AX_REG"
       [] b \in \hB0 .. \hB7 -> "BYTE_ERASE_REG"
       [] b \in \hB8 .. \hBF -> "ERASE_REG"
       [] b = \h01 -> "OR_REG_TO_MEM"          [] b = \h03 -> "OR_MEM_TO_REG"
       [] b = \h86 -> "BYTE_SWAP_REG_MEM"      [] b = \h87 -> "SWAP_REG_MEM"
       [] b = \h88 -> "BYTE_COPY_REG_TO_MEM"   [] b = \h89 -> "COPY_REG_TO_MEM"
       [] b = \h8A -> "BYTE_COPY_MEM_TO_REG"   [] b = \h8B -> "COPY_MEM_TO_REG"
       [] b = \h8F -> "COPY_POP_TO_MEM"        [] b = \h6A -> "ERASE_PUSH"
       [] b = \hA0 -> "BYTE_COPY_OFFSET_TO_AL" [] b = \hA1 -> "COPY_OFFSET_TO_AX"
       [] b = \hA2 -> "BYTE_COPY_AL_TO_OFFSET" [] b = \hA3 -> "COPY_AX_TO_OFFSET"
       [] b = \hAA -> "BYTE_COPY_AL_TO_STR"    [] b = \hAB -> "COPY_AX_TO_STR"
       [] b = \hAC -> "BYTE_COPY_STR_TO_AL"    [] b = \hAD -> "COPY_STR_TO_AX"
       [] b = \hC6 -> "BYTE_ERASE_MEM"         [] b = \hC7 -> "ERASE_MEM"]
EscAction == (\h31 :> "ERASE_AX_DX") @@ (\hB6 :> "BYTE_COPY_ZX_MEM_TO_REG")
             @@ (\hB7 :> "COPY_ZX_MEM_TO_REG")
GffAction == 6 :> "COPY_MEM_TO_PUSH"

jit_action(i) ==
  CASE i.tbl = "main" -> MainAction[i.idx]
    [] i.tbl = "esc"  -> EscAction[i.idx]
    [] i.tbl = "gff"  -> GffAction[i.idx]

(***************************************************************************)
(* segment_prefix_mapping (jit_code.c:128-148): the erasing substitute of  *)
(* an action under a segment override; the actions it does not list read   *)
(* as 0, which taint_instr takes as "copy the instruction only".           *)
(***************************************************************************)
SPM ==
  [a \in {"COPY_MEM_TO_REG", "COPY_ZX_MEM_TO_REG", "BYTE_COPY_ZX_MEM_TO_REG",
          "SWAP_REG_MEM", "SWAP_AX_REG", "ERASE_REG"} |-> "ERASE_REG"]
  @@ [a \in {"BYTE_COPY_MEM_TO_REG", "BYTE_SWAP_REG_MEM", "BYTE_ERASE_REG"} |-> "BYTE_ERASE_REG"]
  @@ [a \in {"COPY_STR_TO_AX", "ERASE_AX"} |-> "ERASE_AX"]
  @@ [a \in {"BYTE_COPY_STR_TO_AL", "BYTE_ERASE_AL", "COPY_OFFSET_TO_AX",
             "BYTE_COPY_OFFSET_TO_AL"} |-> "BYTE_ERASE_AL"]
  @@ ("ERASE_AX_DX" :> "ERASE_AX_DX")
segment_prefix_mapping(a) == IF a \in DOMAIN SPM THEN SPM[a] ELSE "0"

(***************************************************************************)
(* Byte-level effects.  An effect maps each location it writes to the      *)
(* locations whose taint it receives, and whether it keeps its own.        *)
(***************************************************************************)
Upd(keep, from) == [keep |-> keep, from |-> from]

Apply(E, T) ==
  [l \in DOMAIN T |-> IF l \in DOMAIN E
                      THEN (IF E[l].keep THEN T[l] ELSE {}) \cup UNION {T[x] : x \in E[l].from}
                      ELSE T[l]]

(* The bytes of an operand: memory operand, stack slot, register argument  *)
(* (32/16-bit or 8-bit), EAX/AX, AL, or EDX:EAX.                           *)
Opnd(kind, reg, w) ==
  CASE kind = "mem"  -> [b \in 0 .. w - 1 |-> <<"m", b>>]
    [] kind = "stk"  -> [b \in 0 .. w - 1 |-> <<"s", b>>]
    [] kind = "r"    -> [b \in 0 .. w - 1 |-> R(reg, b)]
    [] kind = "r8"   -> [b \in {0} |-> Loc8(reg)]
    [] kind = "ax"   -> [b \in 0 .. w - 1 |-> R(0, b)]
    [] kind = "al"   -> [b \in {0} |-> R(0, 0)]
    [] kind = "axdx" -> [b \in 0 .. 2 * w - 1 |-> IF b < w THEN R(0, b) ELSE R(2, b - w)]
    [] kind = "none" -> <<>>

(* A taint primitive: kind of update, source and destination operands and  *)
(* their widths in bytes.                                                  *)
P(k, src, sw, dst, dw) == [k |-> k, src |-> src, sw |-> sw, dst |-> dst, dw |-> dw]
NoF16 == P("none", "none", 0, "none", 0)

(* What a primitive does to taint, given its register argument.  A copy    *)
(* wider than its source (the zero-extending forms) erases the rest.       *)
Eff(p, reg) ==
  LET s == Opnd(p.src, reg, p.sw)
      d == Opnd(p.dst, reg, p.dw)
      Dst == {d[b] : b \in DOMAIN d}
      Src == {s[b] : b \in DOMAIN s}
      Ix(f, l) == CHOOSE b \in DOMAIN f : f[b] = l
  IN  CASE p.k = "copy"  -> [l \in Dst |-> Upd(FALSE, IF Ix(d, l) \in DOMAIN s
                                                     THEN {s[Ix(d, l)]} ELSE {})]
        [] p.k = "or"    -> [l \in Dst |-> Upd(TRUE, {s[Ix(d, l)]})]
        [] p.k = "erase" -> [l \in Dst |-> Upd(FALSE, {})]
        [] p.k = "swap"  -> [l \in Dst \cup Src |->
                               IF l \in Dst THEN Upd(FALSE, {s[Ix(d, l)]})
                               ELSE Upd(FALSE, {d[Ix(s, l)]})]

(***************************************************************************)
(* taint_ops (jit_code.c:150-228): per action, the 32-bit primitive f and  *)
(* the 16-bit primitive f16 (null where the table gives none).             *)
(***************************************************************************)
Ops(f, f16) == [f |-> f, f16 |-> f16]
taint_ops ==
     ("OR_MEM_TO_REG"    :> Ops(P("or", "mem", 4, "r", 4),     P("or", "mem", 2, "r", 2)))
  @@ ("OR_REG_TO_MEM"    :> Ops(P("or", "r", 4, "mem", 4),     P("or", "r", 2, "mem", 2)))
  @@ ("COPY_MEM_TO_REG"  :> Ops(P("copy", "mem", 4, "r", 4),   P("copy", "mem", 2, "r", 2)))
  @@ ("COPY_REG_TO_MEM"  :> Ops(P("copy", "r", 4, "mem", 4),   P("copy", "r", 2, "mem", 2)))
  @@ ("BYTE_OR_MEM_TO_REG"   :> Ops(P("or", "mem", 1, "r8", 1),   NoF16))
  @@ ("BYTE_OR_REG_TO_MEM"   :> Ops(P("or", "r8", 1, "mem", 1),   NoF16))
  @@ ("BYTE_COPY_MEM_TO_REG" :> Ops(P("copy", "mem", 1, "r8", 1), NoF16))
  @@ ("BYTE_COPY_REG_TO_MEM" :> Ops(P("copy", "r8", 1, "mem", 1), NoF16))
  \* taint_copy_mem16_to_reg32 / taint_or_mem16_to_reg16
  @@ ("COPY_ZX_MEM_TO_REG"      :> Ops(P("copy", "mem", 2, "r", 4), P("or", "mem", 2, "r", 2)))
  \* taint_copy_mem8_to_reg32 / taint_copy_mem8_to_reg16
  @@ ("BYTE_COPY_ZX_MEM_TO_REG" :> Ops(P("copy", "mem", 1, "r", 4), P("copy", "mem", 1, "r", 2)))
  @@ ("SWAP_REG_MEM"      :> Ops(P("swap", "r", 4, "mem", 4),    P("swap", "r", 2, "mem", 2)))
  @@ ("BYTE_SWAP_REG_MEM" :> Ops(P("swap", "r8", 1, "mem", 1),   NoF16))
  @@ ("COPY_MEM_TO_PUSH"  :> Ops(P("copy", "mem", 4, "stk", 4),  P("copy", "mem", 2, "stk", 2)))
  @@ ("COPY_POP_TO_MEM"   :> Ops(P("copy", "stk", 4, "mem", 4),  P("copy", "stk", 2, "mem", 2)))
  @@ ("ERASE_MEM"         :> Ops(P("erase", "none", 0, "mem", 4), P("erase", "none", 0, "mem", 2)))
  @@ ("BYTE_ERASE_MEM"    :> Ops(P("erase", "none", 0, "mem", 1), NoF16))
  @@ ("COPY_REG_TO_PUSH"  :> Ops(P("copy", "r", 4, "stk", 4),    P("copy", "r", 2, "stk", 2)))
  @@ ("COPY_POP_TO_REG"   :> Ops(P("copy", "stk", 4, "r", 4),    P("copy", "stk", 2, "r", 2)))
  @@ ("SWAP_AX_REG"       :> Ops(P("swap", "ax", 4, "r", 4),     P("swap", "ax", 2, "r", 2)))
  @@ ("ERASE_REG"         :> Ops(P("erase", "none", 0, "r", 4),  P("erase", "none", 0, "r", 2)))
  @@ ("BYTE_ERASE_REG"    :> Ops(P("erase", "none", 0, "r8", 1), NoF16))
  @@ ("COPY_AX_TO_STR"    :> Ops(P("copy", "ax", 4, "mem", 4),   P("copy", "ax", 2, "mem", 2)))
  @@ ("COPY_STR_TO_AX"    :> Ops(P("copy", "mem", 4, "ax", 4),   P("copy", "mem", 2, "ax", 2)))
  @@ ("BYTE_COPY_AL_TO_STR" :> Ops(P("copy", "al", 1, "mem", 1), NoF16))
  @@ ("BYTE_COPY_STR_TO_AL" :> Ops(P("copy", "mem", 1, "al", 1), NoF16))
  @@ ("ERASE_PUSH"        :> Ops(P("erase", "none", 0, "stk", 4),  P("erase", "none", 0, "stk", 2)))
  @@ ("ERASE_AX"          :> Ops(P("erase", "none", 0, "ax", 4),   P("erase", "none", 0, "ax", 2)))
  @@ ("ERASE_AX_DX"       :> Ops(P("erase", "none", 0, "axdx", 4), P("erase", "none", 0, "axdx", 2)))
  @@ ("BYTE_ERASE_AL"     :> Ops(P("erase", "none", 0, "al", 1),   NoF16))
  @@ ("COPY_AX_TO_OFFSET" :> Ops(P("copy", "ax", 4, "mem", 4),   P("copy", "ax", 2, "mem", 2)))
  @@ ("COPY_OFFSET_TO_AX" :> Ops(P("copy", "mem", 4, "ax", 4),   P("copy", "mem", 2, "ax", 2)))
  @@ ("BYTE_COPY_AL_TO_OFFSET" :> Ops(P("copy", "al", 1, "mem", 1), NoF16))
  @@ ("BYTE_COPY_OFFSET_TO_AL" :> Ops(P("copy", "mem", 1, "al", 1), NoF16))

(***************************************************************************)
(* taint_instr (jit_code.c:989-1030).  Under a segment override the action *)
(* is replaced by its substitute, and an action without one only copies    *)
(* the instruction.  With taint on, the primitive of the action's class is *)
(* called: the 16-bit one when the operand-size prefix 66 is present and   *)
(* the table has one.  Primitives of the ModRM class find their register   *)
(* in the ModRM byte; those of the register classes are passed             *)
(* instr->addr[instr->mrm-1] & 7, the low bits of the last opcode byte.    *)
(***************************************************************************)
RegArg(act, i) == IF act \in MrmActs THEN i.reg ELSE i.byte % 8

(* Mutant: the 16-bit primitive is never chosen.                          *)
Select_no_f16(act, i) == taint_ops[act].f

Select(act, i) ==
  IF i.op16 /\ taint_ops[act].f16 # NoF16 THEN taint_ops[act].f16 ELSE taint_ops[act].f

TaintAct(i) == IF i.seg THEN segment_prefix_mapping(jit_action(i)) ELSE jit_action(i)

TaintCode(i, flag) ==
  LET act == TaintAct(i)
  IN  IF act = "0" \/ ~flag THEN <<>> ELSE << Eff(Select(act, i), RegArg(act, i)) >>

(***************************************************************************)
(* Reference: the data flow of each modelled opcode, from the instruction  *)
(* set (not from the translator's tables).  With a segment override the    *)
(* memory operand lies outside the shadow: what is read from it carries no *)
(* taint, and what is written to it is not tracked.                        *)
(***************************************************************************)
X86(i) ==
  LET w == IF i.op16 THEN 2 ELSE 4
      r == i.reg
      o == i.byte % 8
      b == i.idx
  IN  CASE i.tbl = "esc" /\ b = \h31 -> Eff(P("erase", "none", 0, "axdx", 4), 0)  \* rdtsc
        [] i.tbl = "esc" /\ b = \hB6 -> Eff(P("copy", "mem", 1, "r", w), r)      \* movzx r, m8
        [] i.tbl = "esc" /\ b = \hB7 -> Eff(P("copy", "mem", 2, "r", w), r)      \* movzx r, m16
        [] i.tbl = "gff"              -> Eff(P("copy", "mem", w, "stk", w), 0)    \* push m
        [] b = \h01 -> Eff(P("or", "r", w, "mem", w), r)                         \* add m, r
        [] b = \h03 -> Eff(P("or", "mem", w, "r", w), r)                         \* add r, m
        [] b = \h86 -> Eff(P("swap", "r8", 1, "mem", 1), r)                      \* xchg m8, r8
        [] b = \h87 -> Eff(P("swap", "r", w, "mem", w), r)                       \* xchg m, r
        [] b = \h88 -> Eff(P("copy", "r8", 1, "mem", 1), r)                      \* mov m8, r8
        [] b = \h89 -> Eff(P("copy", "r", w, "mem", w), r)                       \* mov m, r
        [] b = \h8A -> Eff(P("copy", "mem", 1, "r8", 1), r)                      \* mov r8, m8
        [] b = \h8B -> Eff(P("copy", "mem", w, "r", w), r)                       \* mov r, m
        [] b = \h8F -> Eff(P("copy", "stk", w, "mem", w), 0)                     \* pop m
        [] b = \h6A -> Eff(P("erase", "none", 0, "stk", w), 0)                   \* push imm8
        [] b \in {\hA0, \hAC} -> Eff(P("copy", "mem", 1, "al", 1), 0)           \* mov al, moffs; lodsb
        [] b \in {\hA1, \hAD} -> Eff(P("copy", "mem", w, "ax", w), 0)           \* mov eax, moffs; lods
        [] b \in {\hA2, \hAA} -> Eff(P("copy", "al", 1, "mem", 1), 0)           \* mov moffs, al; stosb
        [] b \in {\hA3, \hAB} -> Eff(P("copy", "ax", w, "mem", w), 0)           \* mov moffs, eax; stos
        [] b = \hC6 -> Eff(P("erase", "none", 0, "mem", 1), 0)                   \* mov m8, imm
        [] b = \hC7 -> Eff(P("erase", "none", 0, "mem", w), 0)                   \* mov m, imm
        [] b \in \h50 .. \h57 -> Eff(P("copy", "r", w, "stk", w), o)            \* push r
        [] b \in \h58 .. \h5F -> Eff(P("copy", "stk", w, "r", w), o)            \* pop r
        [] b \in \h91 .. \h97 -> Eff(P("swap", "ax", w, "r", w), o)             \* xchg eax, r
        [] b \in \hB0 .. \hB7 -> Eff(P("erase", "none", 0, "r8", 1), o)         \* mov r8, imm
        [] b \in \hB8 .. \hBF -> Eff(P("erase", "none", 0, "r", w), o)          \* mov r, imm

IsMem(l) == l[1] = "m"
SegView(E) ==
  [l \in {x \in DOMAIN E : ~IsMem(x)} |->
     Upd(E[l].keep, {x \in E[l].from : ~IsMem(x)})]

Expected(i, flag) ==
  IF ~flag THEN Origin
  ELSE Apply(IF i.seg THEN SegView(X86(i)) ELSE X86(i), Origin)

(***************************************************************************)
(* The translator: translate_op hands a taint-propagating instruction to   *)
(* taint_instr (jit_code.c:1104-1110), which emits the taint code; the     *)
(* translated code then runs, applying it to the shadow.                   *)
(***************************************************************************)
Init ==
  /\ ins \in Instrs
  /\ taint_flag \in TaintFlags
  /\ code = <<>>
  /\ taint = Origin
  /\ pc = "translate"

taint_instr ==
  /\ pc = "translate"
  /\ code' = TaintCode(ins, taint_flag)
  /\ pc' = "run"
  /\ UNCHANGED <<ins, taint_flag, taint>>

Execute ==
  /\ pc = "run"
  /\ taint' = FoldLeft(LAMBDA T, E : Apply(E, T), taint, code)
  /\ pc' = "done"
  /\ UNCHANGED <<ins, taint_flag, code>>

Done == pc = "done" /\ UNCHANGED vars

Next == taint_instr \/ Execute \/ Done

Spec == Init /\ [][Next]_vars

(***************************************************************************)
(* Properties.                                                             *)
(***************************************************************************)
TypeOK ==
  /\ ins \in Instrs
  /\ taint \in [Loc -> SUBSET Loc]
  /\ pc \in {"translate", "run", "done"}
  /\ Len(code) <= 1

(* After the translated instruction has run, the shadow holds exactly the  *)
(* taint the instruction's data flow gives every register byte, the stack  *)
(* slot and the memory operand: no byte keeps taint it was overwritten     *)
(* over, none loses taint it received.  This is what jit_action,           *)
(* segment_prefix_mapping, the taint_ops entry and the register argument   *)
(* of taint_instr must get right together.                                 *)
TaintPropagates == pc = "done" => taint = Expected(ins, taint_flag)

(* No taint is lost: every byte holds at least the taint the instruction's *)
(* data flow gives it.  Losing taint is how a tainted value reaches a jump *)
(* target unnoticed; extra taint only gives false alarms.                  *)
TaintSound == pc = "done" => \A l \in Loc : Expected(ins, taint_flag)[l] \subseteq taint[l]

=============================================================================
