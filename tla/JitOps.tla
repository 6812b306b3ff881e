------------------------------- MODULE JitOps -------------------------------
(***************************************************************************)
(* The generators of jit_code.c that lay out a small loop or a skip around *)
(* the copied instruction: taint_rep for rep-prefixed string ops,          *)
(* generate_cmov for cmov, and the taint_cmpxchg family.  An op is a       *)
(* sequence of items [op, len, tgt, tag]: op is "copy", "loop" (jecxz and  *)
(* loop, both LOOP in jit_action) or "jcc"; tgt is the offset in the op    *)
(* that a branch item jumps to, computed from the rel8 the code writes;    *)
(* tag names what a copy item is (taint code, the string op, the mov...).  *)
(*                                                                         *)
(* Exec runs an op with a count register and a condition flag and returns  *)
(* the copy items it executed; OpsTranslated compares that run with what   *)
(* the original x86 instruction does.                                      *)
(***************************************************************************)
EXTENDS Integers, Sequences

CONSTANTS
  TaintLens,    \* lengths of the taint code taint_code.c emits for an op
  RepCounts     \* initial ECX values of a rep-prefixed string op

Item(op, n, t, tag) == [op |-> op, len |-> n, tgt |-> t, tag |-> tag]
Copy(n, tag)        == Item("copy", n, 0, tag)

\* the byte stored by a char assignment, read back as a signed rel8
S8(x) == ((x + 128) % 256) - 128

OpLen(s) == LET RECURSIVE L(_) L(i) == IF i = 0 THEN 0 ELSE L(i - 1) + s[i].len
            IN  L(Len(s))
ItemOff(s, i) == OpLen(SubSeq(s, 1, i - 1))

(* An instruction as the decoder hands it over: its length, whether it has *)
(* an operand-size (p[3]), address-size (p[4]) or segment (p[2]) prefix,   *)
(* and whether taint tracking is on (taint_flag).                          *)
Instr(len, p3, p4, p2) == [len |-> len, p3 |-> p3, p4 |-> p4, p2 |-> p2]

\* copy_instr (jit_code.c:898-903): the instruction unchanged
copy_instr(ins) == <<Copy(ins.len, "ins")>>

\* taint_rep with the jecxz displacement one short, a mutant for OpsTranslated
taint_rep_jecxz_short(ins, taint, tl) ==
  IF ins.p2 THEN copy_instr(ins)
  ELSE LET t   == IF taint THEN tl ELSE 0
           opn == (IF ins.p3 THEN 1 ELSE 0) + (IF ins.p4 THEN 1 ELSE 0) + 1
           len == 2 + t + opn + 2
       IN  <<Item("loop", 2, 2 + S8(len - 3), "jecxz")>>
           \o (IF t > 0 THEN <<Copy(t, "taint")>> ELSE <<>>)
           \o <<Copy(opn, "op"), Item("loop", 2, len + S8(-len), "loop")>>

(* taint_rep (953-987): with a segment prefix the instruction is copied;   *)
(* else jecxz over the loop, taint code, [66] [67] op, loop back; the two  *)
(* rel8 are dest[1] = len-2 and dest[len-1] = -len.                       *)
taint_rep(ins, taint, tl) ==
  IF ins.p2 THEN copy_instr(ins)
  ELSE LET t   == IF taint THEN tl ELSE 0
           opn == (IF ins.p3 THEN 1 ELSE 0) + (IF ins.p4 THEN 1 ELSE 0) + 1
           len == 2 + t + opn + 2
       IN  <<Item("loop", 2, 2 + S8(len - 2), "jecxz")>>
           \o (IF t > 0 THEN <<Copy(t, "taint")>> ELSE <<>>)
           \o <<Copy(opn, "op"), Item("loop", 2, len + S8(-len), "loop")>>

(* generate_cmov (877-896): j!cc with rel8 taint_len+len-1, taint code     *)
(* (none with a segment prefix), and the cmov rewritten as a mov, one byte *)
(* shorter.                                                                *)
generate_cmov(ins, taint, tl) ==
  LET t == IF ~ins.p2 /\ taint THEN tl ELSE 0
  IN  <<Item("jcc", 2, 2 + S8(t + ins.len - 1), "notcc")>>
      \o (IF t > 0 THEN <<Copy(t, "taint")>> ELSE <<>>)
      \o <<Copy(ins.len - 1, "mov")>>

(* taint_cmpxchg8, taint_cmpxchg, taint_cmpxchg8b (905-951): pre fix-up,   *)
(* the instruction, post fix-up; no fix-ups with a segment prefix.         *)
taint_cmpxchg(ins, pre, post) ==
  IF ins.p2 THEN copy_instr(ins)
  ELSE <<Copy(pre, "pre")>> \o copy_instr(ins) \o <<Copy(post, "post")>>

(* Whether the branch of item tag jumps, with count register ecx and     *)
(* condition flag b: jecxz when ecx = 0; loop decrements ecx and jumps    *)
(* when it is not 0; the inverted jcc when b is false.                    *)
Taken(tag, ecx, b) == CASE tag = "jecxz" -> ecx = 0
                        [] tag = "loop"  -> ecx - 1 # 0
                        [] tag = "notcc" -> ~b
                        [] OTHER         -> FALSE
DecEcx(tag, ecx) == IF tag = "loop" THEN ecx - 1 ELSE ecx

(* One item of op s executed at offset pc: the next pc and ecx, and the  *)
(* tag of the copy item run (if it is one).                               *)
OpStep(s, pc, ecx, b) ==
  LET it == s[CHOOSE j \in 1 .. Len(s) : ItemOff(s, j) = pc]
  IN  [pc  |-> IF Taken(it.tag, ecx, b) THEN it.tgt ELSE pc + it.len,
       ecx |-> DecEcx(it.tag, ecx),
       did |-> IF it.op = "copy" THEN <<it.tag>> ELSE <<>>]

IsItemStart(s, pc) == \E i \in 1 .. Len(s) : ItemOff(s, i) = pc

(* The run of an op from offset 0 with count register ecx and condition    *)
(* flag b.  Ends at the op's end (ok) or anywhere that is not an item      *)
(* start (fuel runs out likewise).                                         *)
Exec(s, ecx0, b) ==
  LET RECURSIVE R(_, _, _, _)
      R(pc, ecx, out, fuel) ==
        IF pc = OpLen(s) THEN [ok |-> TRUE, out |-> out, ecx |-> ecx]
        ELSE IF fuel = 0 \/ ~IsItemStart(s, pc)
          THEN [ok |-> FALSE, out |-> out, ecx |-> ecx]
        ELSE LET st == OpStep(s, pc, ecx, b)
             IN  R(st.pc, st.ecx, out \o st.did, fuel - 1)
  IN  R(0, ecx0, <<>>, 4 * Len(s) * (ecx0 + 1) + 4)

Rep(sq, k) == LET RECURSIVE F(_) F(j) == IF j = 0 THEN <<>> ELSE F(j - 1) \o sq
              IN  F(k)

(* The inputs a generator is checked on: taint on or off, with and        *)
(* without a 66 prefix and a segment prefix, and the taint code lengths.   *)
GenInputs == [taint : BOOLEAN, p3 : BOOLEAN, p2 : BOOLEAN, tl : TaintLens]

B2N(b) == IF b THEN 1 ELSE 0

\* rep movs (F3 [66] A5) and cmov (0F 4x /r, [66]) as taint_rep and generate_cmov emit them
RepOp(g)  == taint_rep(Instr(2 + B2N(g.p3), g.p3, FALSE, g.p2), g.taint, g.tl)
CmovOp(g) == generate_cmov(Instr(3 + B2N(g.p3), g.p3, FALSE, g.p2), g.taint, g.tl)

\* what the original instruction executes, as a sequence of tags
Taint(g) == IF g.taint /\ ~g.p2 THEN <<"taint">> ELSE <<>>

RepRuns(g) ==
  \A k \in RepCounts :
    Exec(RepOp(g), k, TRUE)
      = IF g.p2 THEN [ok |-> TRUE, out |-> <<"ins">>, ecx |-> k]
        ELSE [ok |-> TRUE, out |-> Rep(Taint(g) \o <<"op">>, k), ecx |-> 0]

CmovRuns(g) ==
  \A b \in BOOLEAN :
    LET r == Exec(CmovOp(g), 0, b)
    IN  r.ok /\ r.out = IF b THEN Taint(g) \o <<"mov">> ELSE <<>>
=============================================================================
