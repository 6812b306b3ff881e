---------------------------- MODULE JitFragment ----------------------------
(***************************************************************************)
(* The fragment re-translator of jit_fragment.c.  When a signal interrupts *)
(* the jit code of one emulated instruction part-way, finish_instruction   *)
(* re-translates that jit code (the "slice") into a fragment that runs the *)
(* rest of it and then leaves through jit_fragment_exit.                   *)
(*                                                                         *)
(* A slice is a sequence of jit instructions: plain ones copied verbatim   *)
(* and the control transfers jit_fragment_control rewrites (jcc, loop/     *)
(* jecxz, jmp rel).  A target is a byte offset from the slice start.       *)
(* The fragment is modelled byte-exactly as far as control goes: every     *)
(* emitted instruction sits at its byte offset with its length, and        *)
(* relative jumps carry the displacement the code computes, so a wrong     *)
(* skip lands where the CPU would land.                                    *)
(***************************************************************************)
EXTENDS Integers, Sequences, SequencesExt, GenCode

CONSTANTS
  Slices,      \* the jit code of single ops that may be interrupted
  MinemuCode,  \* targets inside minemu's runtime code (runtime_ijmp, ...)
  CacheRes,    \* targets inside runtime_cache_resolution
  RelocDelta,  \* reloc_runtime_cache_resolution_start - ..._start
  FragCap,     \* bytes of the fragment page used by the model
  Garbage      \* the value of a mapping entry never written

VARIABLES
  slice,      \* the jit code being re-translated (jit_op_start, jit_op_len)
  entry,      \* the interrupted pc, an offset into the slice
  pass,       \* "first", "second" (the two calls of jit_fragment_translate), "done"
  s_off, d_off,
  mapping,    \* char *mapping[len+1]: slice offset -> fragment offset
  frag,       \* fragment offset -> emitted instruction or NoIns
  jit_entry,  \* fragment offset of the entry, or Null
  dead

vars == <<slice, entry, pass, s_off, d_off, mapping, frag, jit_entry, dead>>

(* Byte offsets of the instructions of a slice, and its length.           *)
SliceLen(s) == FoldLeft(LAMBDA a, i : a + i.len, 0, s)
Off(s, k)   == SliceLen(SubSeq(s, 1, k - 1))
Starts(s)   == {Off(s, k) : k \in 1 .. Len(s)}
InstrAt(s, o) == s[CHOOSE k \in 1 .. Len(s) : Off(s, k) = o]

(***************************************************************************)
(* Emitted instructions.  n is the length in bytes; rel a displacement     *)
(* from the end of the instruction; addr an absolute target or the value   *)
(* stored into jit_rip; src the slice offset the code was emitted for.     *)
(***************************************************************************)
Ins(k, n, rel, addr, src) == [k |-> k, n |-> n, rel |-> rel, addr |-> addr, src |-> src]
NoIns == Ins("none", 0, 0, 0, -1)
Null  == -1      \* jit_entry = NULL: fragment offsets are >= 0

RelTo(target, from) == IF target = Garbage THEN Garbage ELSE target - from

(* The templates of jit_fragment.c, as gen_code lays them out.            *)
JCC_REL32  == <<"0F", "80", "+", "L">>
JCC_OVER   == <<"70", "+", "09">>
SET_JITRIP == <<"64", "C7", "05", "L", "L">>

(* jit_fragment_jcc (39-49): "0F 80+ L", the rel32 taken from &dest[6].  *)
jit_fragment_jcc(d, target, src) ==
  <<Ins("jcc", GenLen(JCC_REL32, <<0, 0>>), RelTo(target, d + 6), 0, src)>>

(* jit_fragment_jump_exit (70-80): movl $addr, jit_rip; jmp exit.         *)
jit_fragment_jump_exit(addr, src) ==
  <<Ins("setrip", GenLen(SET_JITRIP, <<0, addr>>), 0, addr, src), Ins("jmpexit", 5, 0, 0, src)>>

(* jit_fragment_jcc_exit (51-63): "70+ 09" inverted jcc, its rel8 the     *)
(* template's last byte, then the exit.                                   *)
jit_fragment_jcc_exit(addr, src) ==
  <<Ins("jccinv", GenLen(JCC_OVER, <<1>>), GenCode(Chars(JCC_OVER), <<1>>).out[2], 0, src)>>
    \o jit_fragment_jump_exit(addr, src)

(* jit_fragment_jump (65-68): jump_to, a rel32 jmp.                       *)
jit_fragment_jump(d, target, src) == <<Ins("jmp", 5, RelTo(target, d + 5), 0, src)>>
JumpAbs(addr, src) == <<Ins("jmpabs", 5, 0, addr, src)>>

CodeLen(items) == FoldLeft(LAMBDA a, i : a + i.n, 0, items)

(* contains(addr, len+1, jump_addr): the slice and its end.               *)
InSlice(s, t) == 0 <= t /\ t <= SliceLen(s)

(***************************************************************************)
(* jit_fragment_control (82-140): the code emitted at d for the control    *)
(* instruction ins at slice offset o, reading mapping[] for targets.       *)
(***************************************************************************)
jit_fragment_control(s, ins, o, d, map) ==
  LET t == ins.tgt IN
  CASE ins.op = "jcc" ->
         IF InSlice(s, t) THEN jit_fragment_jcc(d, map[t], o)
                          ELSE jit_fragment_jcc_exit(t, o)
    [] ins.op = "loop" ->
         \* "$ 02 EB FF": the loop opcode with rel8 2, then jmp rel8 over
         \* the jump emitted after it (dest[off-1] = code_len-off).
         LET off  == GenLen(<<"$", "02", "EB", "FF">>, <<[k \in 1 .. ins.len |-> 0], ins.len - 1>>)
             jump == IF InSlice(s, t) THEN jit_fragment_jump(d + off, map[t], o)
                                      ELSE jit_fragment_jump_exit(t, o)
         IN  <<Ins("loop", ins.len, 2, 0, o), Ins("jmp8", 2, CodeLen(jump), 0, o)>> \o jump
    [] ins.op = "jmp" ->
         CASE InSlice(s, t)   -> jit_fragment_jump(d, map[t], o)
           [] t \in CacheRes   -> JumpAbs(t + RelocDelta, o)
           [] t \in MinemuCode -> JumpAbs(t, o)
           [] OTHER            -> jit_fragment_jump_exit(t, o)

(* The code for one slice instruction: control rewritten, rest copied.    *)
Translate(s, ins, o, d, map) ==
  IF ins.op = "copy" THEN <<Ins("copy", ins.len, 0, 0, o)>>
                     ELSE jit_fragment_control(s, ins, o, d, map)

RECURSIVE Place(_, _, _)
Place(f, d, items) ==
  IF items = <<>> THEN f
  ELSE Place([f EXCEPT ![d] = Head(items)], d + Head(items).n, Tail(items))

(***************************************************************************)
(* What the CPU does with the fragment: run from pc with the branch        *)
(* outcome b (the one conditional in the code of a slice instruction) and *)
(* jit_rip = rip, until control reaches the code of a slice instruction,   *)
(* or leaves the fragment (jit_fragment_exit, runtime code), or lands      *)
(* where no instruction starts.                                            *)
(***************************************************************************)
At(d)       == [k |-> "at", v |-> d]
Exit(a)     == [k |-> "exit", v |-> a]
Bad         == [k |-> "bad", v |-> 0]
Jump(pc, rel) == IF rel = Garbage THEN Bad ELSE At(pc + rel)

RECURSIVE FragRun(_, _, _, _, _, _)
FragRun(f, heads, pc, b, rip, fuel) ==
  IF fuel = 0 \/ pc \notin DOMAIN f \/ f[pc] = NoIns THEN Bad
  ELSE
    LET i    == f[pc]
        e    == pc + i.n
        step == CASE i.k = "copy"    -> At(e)
                  [] i.k = "jcc"     -> IF b THEN Jump(e, i.rel) ELSE At(e)
                  [] i.k = "jccinv"  -> IF b THEN At(e) ELSE Jump(e, i.rel)
                  [] i.k = "loop"    -> IF b THEN Jump(e, i.rel) ELSE At(e)
                  [] i.k \in {"jmp", "jmp8"} -> Jump(e, i.rel)
                  [] i.k = "setrip"  -> At(e)
                  [] i.k = "jmpexit" -> Exit(rip)
                  [] i.k = "jmpabs"  -> Exit(i.addr)
        rip2 == IF i.k = "setrip" THEN i.addr ELSE rip
    IN  IF step.k # "at" \/ step.v \in heads THEN step
        ELSE FragRun(f, heads, step.v, b, rip2, fuel - 1)

(* Where the code emitted for slice offset o begins.                      *)
FragStart(o) == Min({d \in DOMAIN frag : frag[d] # NoIns /\ frag[d].src = o})
FragHeads    == {FragStart(o) : o \in Starts(slice)}

(* What the slice instruction at o does with outcome b in the jit code    *)
(* itself: where control goes next, as the fragment should reproduce it.  *)
SliceStep(s, o, b) ==
  LET ins == InstrAt(s, o)
      t   == IF ins.op = "copy" \/ (ins.op \in {"jcc", "loop"} /\ ~b)
             THEN o + ins.len ELSE ins.tgt
  IN  CASE t \in Starts(s) -> At(FragStart(t))
        [] t \in CacheRes  -> Exit(t + RelocDelta)
        [] OTHER           -> Exit(t)

TypeOK ==
  /\ pass \in {"first", "second", "done"}
  /\ s_off \in 0 .. SliceLen(slice)
  /\ d_off \in 0 .. FragCap
  /\ jit_entry \in {Null} \cup 0 .. FragCap
  /\ dead \in BOOLEAN

(* The fragment replays the slice: for every instruction of the           *)
(* interrupted jit code and either branch outcome, the code               *)
(* jit_fragment_translate emitted for it on its second pass transfers     *)
(* control to the code of the same successor, or leaves the fragment      *)
(* with jit_rip (or the runtime target) the jit code itself would have    *)
(* jumped to.                                                             *)
FragmentReplaysSlice ==
  pass = "done" =>
    \A o \in Starts(slice), b \in BOOLEAN :
      FragRun(frag, FragHeads, FragStart(o), b, 0, 6) = SliceStep(slice, o, b)

(***************************************************************************)
(* jit_fragment (186-199): two passes of jit_fragment_translate over the   *)
(* same uninitialised mapping[] and the same fragment page.                *)
(***************************************************************************)
Init ==
  /\ slice \in Slices
  /\ entry \in Starts(slice) \ {0}
  /\ pass = "first"
  /\ s_off = 0 /\ d_off = 0
  /\ mapping = [o \in 0 .. SliceLen(slice) |-> Garbage]
  /\ frag = [d \in 0 .. FragCap |-> NoIns]
  /\ jit_entry = Null
  /\ dead = FALSE

(* One iteration of the loop of jit_fragment_translate (150-178) that     *)
(* translates an instruction.                                             *)
TranslateInstr ==
  /\ pass \in {"first", "second"} /\ ~dead
  /\ s_off < SliceLen(slice)
  /\ LET ins   == InstrAt(slice, s_off)
         map   == [mapping EXCEPT ![s_off] = d_off]
         items == Translate(slice, ins, s_off, d_off, map)
     IN  /\ mapping' = map
         /\ jit_entry' = IF s_off = entry THEN d_off ELSE jit_entry
         /\ frag' = Place(frag, d_off, items)
         /\ d_off' = d_off + CodeLen(items)
         /\ s_off' = s_off + ins.len
  /\ UNCHANGED <<slice, entry, pass, dead>>

(* Mutant: one translation pass, forward targets read from mapping[]     *)
(* before they are written.                                               *)
TranslateEnd_one_pass ==
  /\ pass \in {"first", "second"} /\ ~dead
  /\ s_off = SliceLen(slice)
  /\ mapping' = [mapping EXCEPT ![s_off] = d_off]
  /\ frag' = Place(frag, d_off, jit_fragment_jump_exit(s_off, s_off))
  /\ IF jit_entry = Null
     THEN /\ dead' = TRUE /\ UNCHANGED <<pass, s_off, d_off, jit_entry>>
     ELSE /\ pass' = "done" /\ s_off' = 0 /\ d_off' = 0
          /\ UNCHANGED <<dead, jit_entry>>
  /\ UNCHANGED <<slice, entry>>

(* Mutant: the second pass writes after the first pass's code.            *)
TranslateEnd_no_reset ==
  /\ pass \in {"first", "second"} /\ ~dead
  /\ s_off = SliceLen(slice)
  /\ mapping' = [mapping EXCEPT ![s_off] = d_off]
  /\ frag' = Place(frag, d_off, jit_fragment_jump_exit(s_off, s_off))
  /\ IF jit_entry = Null
     THEN /\ dead' = TRUE /\ UNCHANGED <<pass, s_off, d_off, jit_entry>>
     ELSE /\ pass' = IF pass = "first" THEN "second" ELSE "done"
          /\ s_off' = 0
          /\ d_off' = d_off + CodeLen(jit_fragment_jump_exit(s_off, s_off))
          /\ jit_entry' = IF pass = "first" THEN Null ELSE jit_entry
          /\ UNCHANGED dead
  /\ UNCHANGED <<slice, entry>>

(* The last iteration (152-161): the fallthrough exit at the slice end,   *)
(* then the entry check (180-181) and the return to jit_fragment.         *)
TranslateEnd ==
  /\ pass \in {"first", "second"} /\ ~dead
  /\ s_off = SliceLen(slice)
  /\ mapping' = [mapping EXCEPT ![s_off] = d_off]
  /\ frag' = Place(frag, d_off, jit_fragment_jump_exit(s_off, s_off))
  /\ IF jit_entry = Null
     THEN /\ dead' = TRUE /\ UNCHANGED <<pass, s_off, d_off, jit_entry>>
     ELSE /\ pass' = IF pass = "first" THEN "second" ELSE "done"
          /\ s_off' = 0 /\ d_off' = 0
          /\ jit_entry' = IF pass = "first" THEN Null ELSE jit_entry
          /\ UNCHANGED dead
  /\ UNCHANGED <<slice, entry>>

Done == (pass = "done" \/ dead) /\ UNCHANGED vars

Next == TranslateInstr \/ TranslateEnd \/ Done

Spec == Init /\ [][Next]_vars
=============================================================================
