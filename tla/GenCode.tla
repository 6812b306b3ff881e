------------------------------ MODULE GenCode ------------------------------
(***************************************************************************)
(* gen_code (jit_code.c:419-521), the format-string assembler every code   *)
(* generator of jit_code.c and jit_fragment.c uses.  A format is a         *)
(* sequence of characters, each a one-character string; the arguments are  *)
(* a sequence (numbers, a byte sequence for "$", any value for "&").  The *)
(* result is the bytes written and the offsets "&" reported.  The 32-bit  *)
(* build is modelled: imm_to writes a 4-byte long.                         *)
(*                                                                         *)
(* Templates are written as tokens (two hex digits, or one directive) and  *)
(* spelt out into characters by Chars; the blanks between tokens, which    *)
(* gen_code skips, are left out.  RefEncode is what the usage comment at   *)
(* 421-443 says a template of tokens means.                                *)
(***************************************************************************)
EXTENDS Integers, Sequences, TLC

HexChars == {"0", "1", "2", "3", "4", "5", "6", "7", "8", "9",
             "A", "B", "C", "D", "E", "F", "a", "b", "c", "d", "e", "f"}
Digit == ("0" :> 0 @@ "1" :> 1 @@ "2" :> 2 @@ "3" :> 3 @@ "4" :> 4 @@
          "5" :> 5 @@ "6" :> 6 @@ "7" :> 7 @@ "8" :> 8 @@ "9" :> 9 @@
          "A" :> 10 @@ "B" :> 11 @@ "C" :> 12 @@ "D" :> 13 @@ "E" :> 14 @@
          "F" :> 15 @@ "a" :> 10 @@ "b" :> 11 @@ "c" :> 12 @@ "d" :> 13 @@
          "e" :> 14 @@ "f" :> 15)

(* The two characters of each hex token.                                  *)
Spelling == LET P == {<<a, b>> : a, b \in HexChars}
            IN  [t \in {p[1] \o p[2] : p \in P} |-> CHOOSE p \in P : p[1] \o p[2] = t]

Chars(tpl) ==
  LET RECURSIVE C(_)
      C(i) == IF i = 0 THEN <<>>
              ELSE C(i - 1) \o (IF tpl[i] \in DOMAIN Spelling THEN Spelling[tpl[i]]
                                ELSE <<tpl[i]>>)
  IN  C(Len(tpl))

(* imm_to (414-417): the little-endian bytes of a long; floor division    *)
(* gives a negative value its two's-complement bytes.                     *)
imm_to(v, n) == [k \in 1 .. n |-> (v \div 256^(k - 1)) % 256]

(* Mutant: only upper-case hex digits are recognised.                      *)
HexValue_no_lower(c) ==
  IF c \in HexChars \ {"a", "b", "c", "d", "e", "f"} THEN Digit[c] ELSE -1

(* 449-454: the value of a hex digit, or -1 for any other character.       *)
HexValue(c) == IF c \in HexChars THEN Digit[c] ELSE -1

(***************************************************************************)
(* The loop of gen_code (446-519), one character of the format per step.  *)
(* st is [ai, oc, out, marks]: the next argument, outc, the bytes written  *)
(* and the "&" offsets.  outc starts at 1 and collects hex digits; once it *)
(* exceeds 0xff its low byte is written and it restarts at 1.  Each        *)
(* directive consumes its arguments in order.                              *)
(***************************************************************************)
Arg(args, st, d) == IF st.ai + d <= Len(args) THEN args[st.ai + d] ELSE 0

Directive(c, args, st) ==
  CASE HexValue(c) >= 0 -> [st EXCEPT !.oc = @ * 16 + HexValue(c)]
    [] c \in {"L", "l"} -> [st EXCEPT !.ai = @ + 1, !.out = @ \o imm_to(Arg(args, st, 0), 4)]
    [] c \in {"S", "s"} -> [st EXCEPT !.ai = @ + 1, !.out = @ \o imm_to(Arg(args, st, 0), 2)]
    [] c = "&" -> [st EXCEPT !.ai = @ + 1, !.marks = Append(@, Len(st.out))]
    [] c = "$" -> [st EXCEPT !.ai = @ + 2, !.out = @ \o SubSeq(Arg(args, st, 0), 1, Arg(args, st, 1))]
    [] c = "+" -> [st EXCEPT !.ai = @ + 1, !.out[Len(st.out)] = (@ + Arg(args, st, 0)) % 256]
    [] c = "." -> [st EXCEPT !.ai = @ + 1, !.out = Append(@, Arg(args, st, 0) % 256)]
    [] c = "?" -> [st EXCEPT !.ai = @ + 1, !.out = IF Arg(args, st, 0) % 256 # 0
                                                   THEN Append(@, Arg(args, st, 0) % 256) ELSE @]
    [] OTHER -> st

EmitOutc(st) == IF st.oc > 255 THEN [st EXCEPT !.oc = 1, !.out = Append(@, st.oc % 256)] ELSE st

RECURSIVE GenFrom(_, _, _)
GenFrom(fmt, args, st) ==
  IF fmt = <<>> THEN st ELSE GenFrom(Tail(fmt), args, EmitOutc(Directive(Head(fmt), args, st)))

GenCode(fmt, args) ==
  LET st == GenFrom(fmt, args, [ai |-> 1, oc |-> 1, out |-> <<>>, marks |-> <<>>])
  IN  [out |-> st.out, marks |-> st.marks]

GenLen(tpl, args) == Len(GenCode(Chars(tpl), args).out)

(* What a template of tokens stands for, token by token (421-443).         *)
RefEncode(tpl, args) ==
  LET Uses(t) == CASE t = "$" -> 2 [] t \in DOMAIN Spelling -> 0 [] OTHER -> 1
      RECURSIVE R(_, _, _, _)
      R(i, ai, out, marks) ==
        IF i > Len(tpl) THEN [out |-> out, marks |-> marks]
        ELSE LET t == tpl[i]
                 x == args[ai]
                 o == CASE t \in DOMAIN Spelling ->
                             Append(out, 16 * Digit[Spelling[t][1]] + Digit[Spelling[t][2]])
                        [] t = "L" -> out \o imm_to(x, 4)
                        [] t = "S" -> out \o imm_to(x, 2)
                        [] t = "$" -> out \o SubSeq(x, 1, args[ai + 1])
                        [] t = "." -> Append(out, x % 256)
                        [] t = "?" -> IF x % 256 = 0 THEN out ELSE Append(out, x % 256)
                        [] t = "+" -> [out EXCEPT ![Len(out)] = (@ + x) % 256]
                        [] OTHER -> out
             IN  R(i + 1, ai + Uses(t), o, IF t = "&" THEN Append(marks, Len(out)) ELSE marks)
  IN  R(1, 1, <<>>, <<>>)
=============================================================================
