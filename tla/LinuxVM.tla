------------------------------ MODULE LinuxVM ------------------------------
(***************************************************************************)
(* The Linux address-space calls minemu's memory manager (src/src/mm.c)    *)
(* issues: mmap, munmap, mprotect and mremap, at page granularity.  This   *)
(* is the environment the memory manager runs in, not code of minemu, so   *)
(* it is written from the kernel's documented behaviour:                   *)
(*   - an address is a number of units, PG units to a page; lengths are    *)
(*     rounded up to whole pages, addresses must be page aligned;          *)
(*   - a page is free or holds one mapping record [prot, by, x, z]: prot  *)
(*     is the protection the kernel enforces, by is who created the        *)
(*     mapping ("app" for the emulated program, "minemu" for shadow        *)
(*     memory), x is a history field, the PROT_EXEC bit the program asked  *)
(*     for, and z says the page still reads as zeros (anonymous memory is  *)
(*     zero-filled when mapped, and again after MADV_DONTNEED);            *)
(*   - mprotect walks the range in order and stops at the first unmapped   *)
(*     page with ENOMEM, keeping the change on the pages before it;        *)
(*   - mremap needs the old range to be one mapping (here: one record up  *)
(*     to contents); it moves the contents with the pages;                 *)
(*   - madvise walks the whole range, applies the advice to every mapped   *)
(*     page and returns ENOMEM if it met an unmapped one.                  *)
(* Pages outside 0..NSpace-1 lie outside the modelled space: a call on     *)
(* them acts on the modelled part only.                                    *)
(***************************************************************************)
EXTENDS Integers, FiniteSets

CONSTANTS PG,       \* units per page
          NSpace    \* pages of the modelled address space

Pages == 0 .. NSpace - 1

EINVAL == -22
ENOMEM == -12
EFAULT == -14

IsErr(r) == r < 0

Free == [prot |-> {}, by |-> "none", x |-> FALSE, z |-> TRUE]
Mapped(rec) == rec.by # "none"

\* Two pages belong to the same mapping whatever their contents.
SameMapping(r1, r2) == r1.prot = r2.prot /\ r1.by = r2.by /\ r1.x = r2.x

\* A fresh, zero-filled page of the mapping rec belongs to.
Zeroed(rec) == [rec EXCEPT !.z = TRUE]

\* A negative value is an -errno (-1 .. -4095), which as an unsigned address
\* is never page aligned.
PageAligned(a) == a >= 0 /\ a % PG = 0
PAGE_NEXT(l) == ((l + PG - 1) \div PG) * PG

\* The pages the range [a, a + l) touches.
Rng(a, l) == (a \div PG) .. ((a + l + PG - 1) \div PG - 1)

\* Page bases where n consecutive free pages start.
FreeBases(m, n) == {b \in Pages : b + n - 1 \in Pages
                                   /\ \A p \in b .. b + n - 1 : ~Mapped(m[p])}

Fill(m, S, rec) == [p \in Pages |-> IF p \in S THEN rec ELSE m[p]]

(* mmap with MAP_FIXED: replaces whatever is mapped in the range.          *)
MmapFixedOk(a, l) == PageAligned(a) /\ l > 0
MmapFixed(m, a, l, rec) == Fill(m, Rng(a, l), rec)

(* munmap.                                                                 *)
MunmapOk(a, l) == PageAligned(a) /\ l > 0
Munmap(m, a, l) == Fill(m, Rng(a, l), Free)

(* mprotect: pages before the first unmapped page of the range change.     *)
FirstHole(m, a, l) ==
  LET holes == {p \in Rng(a, l) \cap Pages : ~Mapped(m[p])}
  IN  IF holes = {} THEN (a + l + PG - 1) \div PG
      ELSE CHOOSE h \in holes : \A q \in holes : h <= q
Mprotect(m, a, l, prot, x) ==
  [p \in Pages |-> IF p \in Rng(a, l) /\ p < FirstHole(m, a, l)
                   THEN [m[p] EXCEPT !.prot = prot, !.x = x] ELSE m[p]]
MprotectRet(m, a, l) ==
  IF ~PageAligned(a) THEN EINVAL
  ELSE IF FirstHole(m, a, l) < (a + l + PG - 1) \div PG THEN ENOMEM ELSE 0

(* mremap.  MREMAP_MAYMOVE = 1, MREMAP_FIXED = 2.                          *)
MREMAP_MAYMOVE == 1
MREMAP_FIXED == 2
HasFlag(flags, f) == (flags \div f) % 2 = 1

\* The old range is one mapping inside the space.
OneMapping(m, a, l) ==
  /\ PageAligned(a) /\ l > 0 /\ Rng(a, l) \subseteq Pages
  /\ Mapped(m[a \div PG])
  /\ \A p \in Rng(a, l) : SameMapping(m[p], m[a \div PG])

\* Move the mapping of old range [oa, oa+ol) to the nl units at na: page i
\* of the new range gets the contents of page i of the old one, pages past
\* the old size are zero-filled.
Move(m, oa, ol, nl, na) ==
  LET ob == oa \div PG
      nb == na \div PG
      oPg == PAGE_NEXT(ol) \div PG
  IN  [p \in Pages |-> IF p \in Rng(na, nl)
                       THEN IF p - nb < oPg THEN m[ob + p - nb] ELSE Zeroed(m[ob])
                       ELSE IF p \in Rng(oa, ol) THEN Free ELSE m[p]]

\* The addresses mremap(oa, ol, nl, flags, na) may return, and the memory
\* after it; an error comes with the memory unchanged.
MremapResults(m, oa, ol, nl, flags, na) ==
  LET nPg    == PAGE_NEXT(nl) \div PG
      oPg    == PAGE_NEXT(ol) \div PG
      base   == oa \div PG
      growIn == Rng(oa + oPg * PG, (nPg - oPg) * PG)
  IN
  IF ~OneMapping(m, oa, ol) \/ nl = 0 THEN {<<EFAULT, m>>}
  ELSE IF HasFlag(flags, MREMAP_FIXED)
  THEN IF ~HasFlag(flags, MREMAP_MAYMOVE) \/ ~PageAligned(na)
          \/ Rng(na, nl) \cap Rng(oa, ol) # {}
       THEN {<<EINVAL, m>>}
       ELSE {<<na, Move(Munmap(m, na, nl), oa, ol, nl, na)>>}
  ELSE IF nPg <= oPg
  THEN {<<oa, Fill(m, base + nPg .. base + oPg - 1, Free)>>}
  ELSE IF growIn \subseteq Pages /\ \A p \in growIn : ~Mapped(m[p])
  THEN {<<oa, Fill(m, growIn, Zeroed(m[base]))>>}
  ELSE IF HasFlag(flags, MREMAP_MAYMOVE) /\ FreeBases(m, nPg) # {}
  THEN {<<b * PG, Move(m, oa, ol, nl, b * PG)>> : b \in FreeBases(m, nPg)}
  ELSE {<<ENOMEM, m>>}

(* madvise.  MADV_DONTNEED = 4 drops the pages, which read as zeros again; *)
(* the other advice values leave the contents alone.                       *)
MADV_DONTNEED == 4
Madvise(m, a, l, adv) ==
  [p \in Pages |-> IF adv = MADV_DONTNEED /\ p \in Rng(a, l) /\ Mapped(m[p])
                   THEN Zeroed(m[p]) ELSE m[p]]
MadviseRet(m, a, l) ==
  IF ~PageAligned(a) THEN EINVAL
  ELSE IF \E p \in Rng(a, l) \cap Pages : ~Mapped(m[p]) THEN ENOMEM ELSE 0

=============================================================================
