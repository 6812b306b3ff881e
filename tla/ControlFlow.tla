---------------------------- MODULE ControlFlow ----------------------------
(***************************************************************************)
(* The control-flow translator of jit_code.c: translate_control and the    *)
(* generators it calls turn one original control transfer into jit code    *)
(* plus a translation result trans = [jmp_addr, imm, len]: when imm # 0    *)
(* the caller later writes the rel32 at dest[imm] so that it reaches the   *)
(* translation of jmp_addr.  The 32-bit build is modelled (long is 32      *)
(* bits).  Emitted code is a sequence of instructions with their byte      *)
(* lengths; relative jumps carry the displacement the code writes.         *)
(***************************************************************************)
EXTENDS Integers, Sequences, SequencesExt, GenCode

CONSTANTS
  MapLo, MapHi,   \* the map being translated: [MapLo, MapHi)
  Instrs,         \* original control instructions to translate
  Strategies,     \* call_strategy values
  TaintFlags,     \* taint_flag values (TRUE = TAINT_ON)
  TaintPushLen,   \* bytes of taint_erase_push32 (taint code generator)
  TaintIjmpLen    \* bytes of taint_ijmp / taint_icall

VARIABLES
  instr,          \* the decoded instruction (instr_t)
  strategy,       \* call_strategy
  taint,          \* taint_flag = TAINT_ON
  code,           \* the emitted jit code, or <<>> before translation
  trans           \* the translation result, or NoTrans before

vars == <<instr, strategy, taint, code, trans>>

Ins(k, n, v) == [k |-> k, n |-> n, v |-> v, tpl |-> <<>>, args |-> <<>>]
(* One line of a gen_code template: its bytes are what gen_code writes.  *)
Gen(k, tpl, args, v) ==
  [k |-> k, n |-> GenLen(tpl, args), v |-> v, tpl |-> tpl, args |-> args]
Trans(j, i, l) == [jmp_addr |-> j, imm |-> i, len |-> l]
NoTrans == Trans(0, 0, 0)
(* eax after loading a computed or popped target: not an address.        *)
Indirect == -1
Popped   == -2

CodeLen(c) == FoldLeft(LAMBDA a, i : a + i.n, 0, c)

(* contains(map, map_len, addr)                                           *)
contains(a) == MapLo <= a /\ a < MapHi

(* imm_at (404-412): a one-byte immediate is sign-extended; the others    *)
(* are copied into a zeroed long, so a 16-bit one is unsigned.            *)
imm_at(rel, size) == IF size = 2 THEN rel % 65536 ELSE rel

(* jump_to (523-528): jmp rel32 into runtime code.                        *)
jump_to(entry) == <<Ins("jmprt", 5, entry)>>

(* Template lines shared by several generators.                          *)
PINSRD_ECX == <<"66", "0F", "3A", "22", "E1", "00">>   \* pinsrd $0, %ecx, %xmm4
PINSRD_EAX == <<"66", "0F", "3A", "22", "D8", "00">>   \* pinsrd $0, %eax, %xmm3
PEXTRD_ECX == <<"66", "0F", "3A", "16", "E9", "00">>   \* pextrd $0, %xmm5, %ecx
PXOR_XMM5  == <<"66", "0f", "ef", "ed">>               \* pxor %xmm5, %xmm5

(* The original bytes an argument of "$" points at; their values do not   *)
(* matter to control, their number does.                                  *)
Bytes(n) == [k \in 1 .. n |-> 0]

(* generate_cross_map_jump (820-834): save eax/ecx, eax = target, ecx = 0,*)
(* then the runtime_ijmp tail.                                            *)
generate_cross_map_jump(t) ==
  <<Gen("copy", PINSRD_ECX, <<>>, 0), Gen("copy", PINSRD_EAX, <<>>, 0),
    Gen("movtgt", <<"B8", "L">>, <<t>>, t), Gen("copy", <<"B9", "00", "00", "00", "00">>, <<>>, 0)>>
    \o jump_to("ijmp")

(* Code reached only through the runtime resolver: nothing to patch, and  *)
(* trans->len the code's length (847, 649, 817).                          *)
Unpatched(c) == << c, Trans(0, 0, CodeLen(c)) >>

(* generate_jump (836-847) as <<code, trans>>.                            *)
generate_jump(t) ==
  IF contains(t) THEN << <<Ins("jmpd", 5, 0)>>, Trans(t, 1, 5) >>
  ELSE Unpatched(generate_cross_map_jump(t))

(* The j!cc rel8 of generate_jcc over a trampoline stub; skip is its rel8. *)
JccOver(stub, skip) ==
  << <<Ins("jccinv8", 2, skip)>> \o stub, Trans(0, 0, CodeLen(stub) + 2) >>

(* Mutant: the rel8 skips the j!cc itself as well as the trampoline.     *)
generate_jcc_skip_long(t) ==
  IF contains(t) THEN << <<Ins("jccd", 6, 0)>>, Trans(t, 2, 6) >>
  ELSE JccOver(generate_cross_map_jump(t), CodeLen(generate_cross_map_jump(t)) + 2)

(* generate_jcc (849-867): jcc rel32, or j!cc rel8 over a trampoline.     *)
generate_jcc(t) ==
  IF contains(t) THEN << <<Ins("jccd", 6, 0)>>, Trans(t, 2, 6) >>
  ELSE JccOver(generate_cross_map_jump(t), CodeLen(generate_cross_map_jump(t)))

(* The trans of jump j once off bytes are emitted in front of it: the     *)
(* rel32 to patch and trans->len move by off (681-690, 1077-1081).        *)
Shifted(j, off, lenoff) ==
  Trans(j[2].jmp_addr, IF j[2].imm # 0 THEN j[2].imm + off ELSE 0, j[2].len + lenoff)

(* "$  02" "EB 05" (1069-1075): the loop without its rel8, then 02; a    *)
(* short jmp over the jump to the target.                                 *)
LoopHead(ins) ==
  <<Gen("loop8", <<"$", "02">>, <<Bytes(ins.len), ins.len - 1>>, 2),
    Gen("jmp8", <<"EB", "05">>, <<>>, 5)>>

LoopThen(head, j, off) == << head \o j[1], Shifted(j, off, off) >>

(* Mutant: trans->len not advanced past the loop head.                   *)
TranslateLoop_len_unadjusted(ins, t) ==
  << LoopHead(ins) \o generate_jump(t)[1],
     Shifted(generate_jump(t), CodeLen(LoopHead(ins)), 0) >>

(* translate_control LOOP (1063-1075): "$ 02" the loop with rel8 2, then  *)
(* "EB 05", then generate_jump.                                           *)
TranslateLoop(ins, t) ==
  LoopThen(LoopHead(ins), generate_jump(t), CodeLen(LoopHead(ins)))

(* The push of the return address and the cache preseed or prefetch of    *)
(* generate_call (652-712) and generate_icall (714-790).  jit is where    *)
(* imm_to stores dest+len into the preseeded cache entry.                 *)
(* The cache slot (HASH_INDEX) and CACHE_MANGLE are not in the           *)
(* repository; their values do not change a byte count.                   *)
CallSeq(ret, jit) ==
  <<Gen("push", <<"68", "L">>, <<ret>>, ret)>> \o
  CASE strategy = "preseed"  ->
         <<Gen("seed", <<"64", "C7", "05", "L", "L", "64", "C7", "05", "L", "&", "DE", "AD", "BE", "EF">>,
               <<0, ret, 4, 0>>, [ret |-> ret, jit |-> jit])>>
    [] strategy = "prefetch" -> <<Gen("copy", <<"64", "0F", "18", "0D", "L">>, <<0>>, 0)>>
    [] OTHER                 -> <<>>

\* the taint code generate_call emits before the push (664-666)
CallTaint == IF taint THEN <<Ins("copy", TaintPushLen, 0)>> ELSE <<>>

(* The code of generate_call: taint code, push, preseed with the jit     *)
(* address seed, then jump j; tr is the call's trans.                     *)
CallCode(ret, j, tr, seed) == << CallTaint \o CallSeq(ret, seed) \o j[1], tr >>

CallWith(ret, j, len) == CallCode(ret, j, Shifted(j, len, len), j[2].len + len)

(* Mutant: the preseeded jit address stored before trans->len += len.    *)
generate_call_seed_early(ins, t) ==
  LET ret == ins.addr + ins.len
      len == CodeLen(CallTaint \o CallSeq(ret, 0))
  IN  CallCode(ret, generate_jump(t), Shifted(generate_jump(t), len, len), generate_jump(t)[2].len)

(* generate_call (652-712).                                               *)
generate_call(ins, t) ==
  CallWith(ins.addr + ins.len, generate_jump(t),
           CodeLen(CallTaint \o CallSeq(ins.addr + ins.len, 0)))

(* The taint code and "mov ... -> %eax" of an indirect transfer, shared   *)
(* by generate_ijump (619-650) and generate_icall (714-790).              *)
(* "? 8B &$" copies the segment prefix (if any) and the ModRM operand of  *)
(* the original, mrm bytes, behind a mov opcode.                          *)
IndirectLoad(ins) ==
  <<IF taint THEN Ins("copy", TaintIjmpLen, 0) ELSE Gen("copy", PXOR_XMM5, <<>>, 0),
    Gen("copy", PINSRD_ECX, <<>>, 0), Gen("copy", PINSRD_EAX, <<>>, 0),
    Gen("movtgt", <<"?", "8B", "&", "$">>,
        <<IF ins.seg THEN 100 ELSE 0, 0, Bytes(ins.mrm), ins.mrm>>, Indirect),
    Gen("copy", PEXTRD_ECX, <<>>, 0)>>

generate_ijump(ins) == Unpatched(IndirectLoad(ins) \o jump_to("ijmp"))

(* generate_icall after the load: push and preseed with the jit address  *)
(* len, the length of the whole code, then the runtime_ijmp tail.         *)
ICallWith(ret, pre, len) == << pre \o CallSeq(ret, len) \o jump_to("ijmp"), Trans(0, 0, len) >>

generate_icall(ins) ==
  ICallWith(ins.addr + ins.len, IndirectLoad(ins),
            CodeLen(IndirectLoad(ins) \o CallSeq(ins.addr + ins.len, 0) \o jump_to("ijmp")))

(* generate_ret (792-797) and generate_ret_cleanup (799-818).             *)
generate_ret == << jump_to("ret"), Trans(0, 0, 5) >>
(* The lea takes the ret's imm16 (addr[1] + (addr[2]<<8)); TAINT_OFFSET   *)
(* is given as 0, its value is not in the repository.                     *)
generate_ret_cleanup(ins) ==
  Unpatched(<<Gen("copy", PINSRD_ECX, <<>>, 0), Gen("copy", PINSRD_EAX, <<>>, 0),
             Gen("copy", <<"8b", "8C", "24", "L">>, <<0>>, 0), Gen("movtgt", <<"58">>, <<>>, Popped),
             Gen("copy", <<"8D", "A4", "24", "S", "00", "00">>, <<ins.rel>>, 0)>> \o jump_to("ijmp"))

(* generate_ill (869-875): ud2.                                           *)
generate_ill == << <<Ins("ud2", 2, 0)>>, Trans(0, 0, 2) >>

(***************************************************************************)
(* translate_control (1032-1095).                                          *)
(***************************************************************************)
(* With a 16-bit immediate the target to patch is cut to 16 bits        *)
(* (1093-1094).                                                           *)
Imm16(r, imm_len) ==
  << r[1], IF imm_len = 2 THEN [r[2] EXCEPT !.jmp_addr = @ % 65536] ELSE r[2] >>

translate_control(ins) ==
  LET imm_len == IF ins.act = "JF" THEN ins.ilen - 2 ELSE ins.ilen
      imm     == imm_at(ins.rel, imm_len)
      pc      == ins.addr + ins.len
      r == CASE ins.act = "JC"   -> generate_jcc(pc + imm)
             [] ins.act = "JR"   -> generate_jump(pc + imm)
             [] ins.act = "JF"   -> generate_jump(imm)
             [] ins.act = "JI"   -> generate_ijump(ins)
             [] ins.act = "CI"   -> generate_icall(ins)
             [] ins.act = "R"    -> generate_ret
             [] ins.act = "RC"   -> generate_ret_cleanup(ins)
             [] ins.act = "L"    -> TranslateLoop(ins, pc + imm)
             [] ins.act = "CR"   -> generate_call(ins, pc + imm)
             [] ins.act = "JOIN" -> generate_ill
  IN  Imm16(r, imm_len)

(***************************************************************************)
(* What the CPU does with the emitted code c, once the caller has patched  *)
(* the rel32 at tr.imm: run from offset 0 with branch outcome b and eax.   *)
(* Control ends in the translation of an original address (a patched      *)
(* direct jump), in runtime code (with eax the target to resolve), in a   *)
(* trap, at the end of the code (the next instruction), or where no       *)
(* instruction starts.                                                     *)
(***************************************************************************)
Res(k, v) == [k |-> k, v |-> v]
Bad == Res("bad", 0)

RECURSIVE Offsets(_, _)
Offsets(c, d) == IF c = <<>> THEN <<>> ELSE <<d>> \o Offsets(Tail(c), d + Head(c).n)

RECURSIVE Run(_, _, _, _, _, _)
Run(c, tr, pc, b, eax, fuel) ==
  LET offs == Offsets(c, 0)
      ks   == {k \in 1 .. Len(c) : offs[k] = pc}
  IN
  IF pc = CodeLen(c) THEN Res("next", 0)
  ELSE IF fuel = 0 \/ ks = {} THEN Bad
  ELSE
    LET i == c[CHOOSE k \in ks : TRUE]
        e == pc + i.n
        \* a direct jump reaches jmp_addr only if its rel32 was patched
        direct(at) == IF tr.imm = at THEN Res("direct", tr.jmp_addr) ELSE Bad
    IN CASE i.k = "jmpd"    -> direct(pc + 1)
         [] i.k = "jccd"    -> IF b THEN direct(pc + 2) ELSE Run(c, tr, e, b, eax, fuel - 1)
         [] i.k = "jccinv8" -> Run(c, tr, IF b THEN e ELSE e + i.v, b, eax, fuel - 1)
         [] i.k = "loop8"   -> Run(c, tr, IF b THEN e + i.v ELSE e, b, eax, fuel - 1)
         [] i.k = "jmp8"    -> Run(c, tr, e + i.v, b, eax, fuel - 1)
         [] i.k = "movtgt"  -> Run(c, tr, e, b, i.v, fuel - 1)
         [] i.k = "jmprt"   -> Res(i.v, IF i.v = "ret" THEN 0 ELSE eax)
         [] i.k = "ud2"     -> Res("trap", 0)
         [] OTHER           -> Run(c, tr, e, b, eax, fuel - 1)

(* Where the original instruction sends control, as the CPU computes it:  *)
(* a 16-bit operand size truncates the new eip to 16 bits.                *)
CpuTarget(ins) ==
  IF ins.act = "JF" THEN ins.rel
  ELSE IF ins.ilen = 2 THEN (ins.addr + ins.len + ins.rel) % 65536
  ELSE ins.addr + ins.len + ins.rel

(* Section 4.4 of the design: a target in the map is reached by a direct  *)
(* jump, any other through the indirect-jump resolver.                    *)
Go(t) == IF contains(t) THEN Res("direct", t) ELSE Res("ijmp", t)

Expected(ins, b) ==
  CASE ins.act \in {"JR", "JF", "CR"} -> Go(CpuTarget(ins))
    [] ins.act \in {"JC", "L"} -> IF b THEN Go(CpuTarget(ins)) ELSE Res("next", 0)
    [] ins.act \in {"JI", "CI"} -> Res("ijmp", Indirect)
    [] ins.act = "RC"   -> Res("ijmp", Popped)
    [] ins.act = "R"    -> Res("ret", 0)
    [] ins.act = "JOIN" -> Res("trap", 0)

(***************************************************************************)
(* The translator's step: translate_op dispatching a CONTROL action to     *)
(* translate_control (1097-1102).                                          *)
(***************************************************************************)
Init ==
  /\ instr \in Instrs
  /\ strategy \in Strategies
  /\ taint \in TaintFlags
  /\ code = <<>>
  /\ trans = NoTrans

Emitted(r) == code' = r[1] /\ trans' = r[2]

Translate ==
  /\ code = <<>>
  /\ Emitted(translate_control(instr))
  /\ UNCHANGED <<instr, strategy, taint>>

Translated == code # <<>> /\ UNCHANGED vars

Next == Translate \/ Translated

Spec == Init /\ [][Next]_vars

TypeOK ==
  /\ trans.imm \in 0 .. CodeLen(code)
  /\ trans.len = CodeLen(code)

(* The jit code of a control transfer does what the instruction does: for *)
(* either branch outcome it reaches the translation of the CPU's target   *)
(* by a patched direct jump when that target is in the map, the runtime   *)
(* resolver with eax = the target otherwise, or falls through to the next *)
(* instruction's code when a conditional is not taken.                    *)
ControlTranslated ==
  code # <<>> =>
    \A b \in BOOLEAN : Run(code, trans, 0, b, 0, 8) = Expected(instr, b)

(* A call pushes the original return address, and with PRESEED_ON_CALL   *)
(* seeds the jump cache with it and the jit address right after the       *)
(* call's code, where the next instruction's translation begins.          *)
CallFrame ==
  code # <<>> /\ instr.act \in {"CR", "CI"} =>
    /\ \E k \in 1 .. Len(code) : code[k].k = "push" /\ code[k].v = instr.addr + instr.len
    /\ \A k \in 1 .. Len(code) :
         code[k].k = "seed" => code[k].v = [ret |-> instr.addr + instr.len, jit |-> CodeLen(code)]

(* Every block the translator emitted through gen_code holds the bytes,   *)
(* and reports "&" at the offsets, that its template's tokens denote by   *)
(* gen_code's usage comment (421-443): the character loop, which collects *)
(* hex digits of either case in outc and emits past 0xff, and its L, S,   *)
(* ?, & and $ directives agree with the templates translate_control uses. *)
GenCodeFaithful ==
  \A k \in 1 .. Len(code) :
    code[k].tpl # <<>> =>
      GenCode(Chars(code[k].tpl), code[k].args) = RefEncode(code[k].tpl, code[k].args)

=============================================================================
