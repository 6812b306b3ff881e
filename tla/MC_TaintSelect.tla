--------------------------- MODULE MC_TaintSelect ---------------------------
(***************************************************************************)
(* Decoded instructions for TaintSelect.  A record gives the opcode table  *)
(* and index, the last opcode byte (instr->addr[instr->mrm-1]), the ModRM  *)
(* reg field, and the segment-override and operand-size prefixes.  Memory  *)
(* operands are memory forms (ModRM mod # 3).                              *)
(***************************************************************************)
EXTENDS TaintSelect

Mrm(b, r, seg, o16) == [tbl |-> "main", idx |-> b, byte |-> b, reg |-> r, seg |-> seg, op16 |-> o16]
Esc(b, r, seg, o16) == [tbl |-> "esc", idx |-> b, byte |-> b, reg |-> r, seg |-> seg, op16 |-> o16]
PushM(seg, o16)     == [tbl |-> "gff", idx |-> 6, byte |-> \hFF, reg |-> 6, seg |-> seg, op16 |-> o16]

\* ModRM reg fields 1 and 5: ECX / CL and EBP / CH.
RegFields  == {1, 5}
ModrmBytes == {\h01, \h03, \h86, \h87, \h88, \h89, \h8A, \h8B, \hC6, \hC7, \h8F}
\* Register in the opcode: push/pop/xchg ECX and EBX, mov CL/CH/ECX/EBP, imm.
OpRegBytes == {\h50, \h53, \h58, \h5B, \h91, \h93, \hB1, \hB5, \hB9, \hBD}
OtherBytes == {\h6A, \hA0, \hA1, \hA2, \hA3, \hAA, \hAB, \hAC, \hAD}

Plain ==
  {Mrm(b, r, FALSE, o) : b \in ModrmBytes, r \in RegFields, o \in BOOLEAN}
  \cup {Mrm(b, 0, FALSE, o) : b \in OpRegBytes \cup OtherBytes, o \in BOOLEAN}
  \cup {Esc(\hB6, r, FALSE, o) : r \in RegFields, o \in BOOLEAN}
  \cup {Esc(\hB7, r, FALSE, FALSE) : r \in RegFields}
  \cup {Esc(\h31, 0, FALSE, FALSE)}
  \cup {PushM(FALSE, o) : o \in BOOLEAN}

\* Segment-prefixed forms whose memory operand is only read into nothing
\* tracked, only written, or whose substitute erases the right bytes.
Segmented ==
  {Mrm(b, r, TRUE, o) : b \in {\h01, \h03, \h88, \h89, \hC6, \hC7, \h8F},
                        r \in RegFields, o \in BOOLEAN}
  \cup {Mrm(b, 0, TRUE, o) : b \in {\hB1, \hB5, \hB9, \hBD, \hA0, \hA2, \hA3,
                                     \hAA, \hAB, \hAC, \hAD}, o \in BOOLEAN}
  \cup {Esc(\h31, 0, TRUE, FALSE)}

MC_Instrs == Plain \cup Segmented

\* mov ecx, fs:[m]; movzx ebp, byte gs:[m]; xchg fs:[m], cl.
MC_SegModrm == {Mrm(\h8B, 1, TRUE, FALSE), Esc(\hB6, 5, TRUE, FALSE), Mrm(\h86, 1, TRUE, FALSE)}
\* mov eax, gs:[moffs] and mov ax, gs:[moffs].
MC_SegMoffs == {Mrm(\hA1, 0, TRUE, o) : o \in BOOLEAN}
\* movzx cx, word [m].
MC_Movzx16  == {Esc(\hB7, 1, FALSE, TRUE)}
\* push dword fs:[m].
MC_SegPush  == {PushM(TRUE, FALSE)}

=============================================================================
