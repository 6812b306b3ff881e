------------------------------ MODULE ShadowMM ------------------------------
(***************************************************************************)
(* minemu's shadow-memory manager (src/src/mm.c), as reached from the      *)
(* syscall layer (syscall_emu, src/src/syscalls.c).  Every memory call of  *)
(* the emulated program is performed on the user area and then mirrored   *)
(* at TAINT_OFFSET into the shadow (taint) area, and the code map records  *)
(* which user pages were mapped executable and not writable.               *)
(*                                                                         *)
(* Each thread of the emulated program runs the handlers as a sequence of  *)
(* steps, one per kernel call, map_lock operation or code-map update, so   *)
(* the steps of different threads interleave as they do in the process.   *)
(* Sub-procedures (shadow_mmap, user_mmap called from user_brk) use a      *)
(* return stack, as in the C code.                                         *)
(*                                                                         *)
(* The modelled space has NPages user pages followed by NPages shadow      *)
(* pages: TAINT_OFFSET = USER_END = NPages * PG.                           *)
(***************************************************************************)
EXTENDS Integers, Sequences, FiniteSets, FiniteSetsExt

CONSTANTS
  PG,                 \* units per page
  NPages,             \* pages of the user area
  Threads,            \* threads of the emulated program
  NoThread,           \* model value: map_lock is free
  Ops,                \* memory calls the program makes
  Addrs,              \* addresses it passes
  Lens,               \* lengths it passes
  Prots,              \* protections it passes (subsets of {"R","W","X"})
  MapFixedChoices,    \* MAP_FIXED choices of its mmap calls (subset of BOOLEAN)
  MremapFlags,        \* mremap flags it passes
  BrkVals,            \* brk values it passes
  BrkMin,             \* brk_min, set by the ELF loader (set_brk_min)
  MaxCalls,           \* calls per thread (bound)
  Advices,            \* madvise advice values it passes
  MappedOnlyRanges,   \* the program mprotects and madvises only mapped ranges
  AllowShrink,        \* the program may shrink a mapping with mremap
  HeapLeftToBrk,      \* the program leaves the heap to brk: no munmap or mremap of it
  MmapFails           \* TRUE \in MmapFails: the kernel may refuse a user mmap with
                      \* ENOMEM (RLIMIT_AS, RLIMIT_DATA, overcommit)

INSTANCE LinuxVM WITH NSpace <- 2 * NPages

ASSUME NoThread \notin Threads
ASSUME Ops \subseteq {"mmap", "munmap", "mprotect", "mremap", "brk", "madvise", "store"}
ASSUME MaxCalls \in Nat

USER_END     == NPages * PG
TAINT_OFFSET == NPages * PG
UserPages    == 0 .. NPages - 1
ShadowPages  == NPages .. 2 * NPages - 1

VARIABLES
  mem,       \* page -> mapping record: the process address space
  code,      \* user pages registered in the code map (add/del_code_region)
  map_lock,  \* holder of map_lock, or NoThread
  brk_cur,   \* the emulated program break
  dead,      \* minemu called die()
  pc,        \* thread -> label of its next step
  stack,     \* thread -> return labels of the procedures it is in
  call,      \* thread -> arguments of the current user_* handler
  sub,       \* thread -> arguments of the current shadow_mmap
  loc,       \* thread -> locals: r (return value), flg, iscode, na, brkv
  calls      \* thread -> calls made so far

vars == <<mem, code, map_lock, brk_cur, dead, pc, stack, call, sub, loc, calls>>

(* Mutant: PROT_EXEC passed through to the kernel.                       *)
no_exec_keeps_exec(prot) == prot

(* mm.c:59-67: make sure we don't strip implied read permission.         *)
no_exec(prot) == IF "X" \in prot THEN (prot \ {"X"}) \cup {"R"} ELSE prot

(* mm.c:50-53.                                                            *)
bad_range(addr, length) == addr > USER_END \/ addr + length > USER_END

AppRec(prot)    == [prot |-> no_exec(prot), by |-> "app", x |-> "X" \in prot, z |-> TRUE]
ShadowRec(prot) == [prot |-> no_exec(prot), by |-> "minemu", x |-> FALSE, z |-> TRUE]

(* The code-map update shared by shadow_mmap and user_mprotect.           *)
IsCodeProt(prot) == "X" \in prot /\ "W" \notin prot
CodeUpdate(c, addr, length, isCode) ==
  LET S == Rng(addr, PAGE_NEXT(length)) \cap UserPages
  IN  IF isCode THEN c \cup S ELSE c \ S

NoCall == [op |-> "none", a |-> 0, l |-> 0, prot |-> {}, fixed |-> FALSE,
           nl |-> 0, flags |-> 0, na |-> 0, brkv |-> 0]
NoLoc  == [r |-> 0, flg |-> 0, iscode |-> FALSE, na |-> 0, brkv |-> 0]

\* Thread t is about to run the step labelled l.
At(t, l) == ~dead /\ pc[t] = l

Goto(t, l) == pc' = [pc EXCEPT ![t] = l]

(* Return from the current procedure.                                     *)
Ret(t) ==
  IF stack[t] = <<>>
  THEN /\ pc' = [pc EXCEPT ![t] = "idle"] /\ UNCHANGED stack
  ELSE /\ pc' = [pc EXCEPT ![t] = Head(stack[t])]
       /\ stack' = [stack EXCEPT ![t] = Tail(stack[t])]

Finish(t, r) == /\ loc' = [loc EXCEPT ![t].r = r]
                /\ Ret(t)

(* Enter shadow_mmap(addr, length, prot); a tail call when ret = "".     *)
ShadowMmapCall(t, addr, length, prot, ret) ==
  /\ sub' = [sub EXCEPT ![t] = [a |-> addr, l |-> length, prot |-> prot]]
  /\ pc' = [pc EXCEPT ![t] = "shmap_sys"]
  /\ stack' = IF ret = "" THEN stack
              ELSE [stack EXCEPT ![t] = <<ret>> \o stack[t]]

(* shadow_munmap(addr, length) == shadow_mmap(addr, length, PROT_NONE).   *)
ShadowMunmapCall(t, addr, length, ret) == ShadowMmapCall(t, addr, length, {}, ret)

(***************************************************************************)
(* shadow_mmap (mm.c:69-102): map the shadow of [addr, addr+length) fresh  *)
(* with no_exec(prot), dying if the kernel refuses, then update the code   *)
(* map.  The fstat of fd only feeds the code map's file identity.          *)
(***************************************************************************)
shmap_sys(t) ==
  /\ At(t, "shmap_sys")
  /\ LET s == sub[t]
         sa == s.a + TAINT_OFFSET
     IN  IF s.l = 0
         THEN /\ Ret(t) /\ UNCHANGED <<mem, dead>>
         ELSE IF ~MmapFixedOk(sa, s.l)
         THEN /\ dead' = TRUE /\ UNCHANGED <<mem, pc, stack>>
         ELSE /\ mem' = MmapFixed(mem, sa, s.l, ShadowRec(s.prot))
              /\ Goto(t, "shmap_code")
              /\ UNCHANGED <<stack, dead>>
  /\ UNCHANGED <<code, map_lock, brk_cur, call, sub, loc, calls>>

shmap_code(t) ==
  /\ At(t, "shmap_code")
  /\ code' = CodeUpdate(code, sub[t].a, sub[t].l, IsCodeProt(sub[t].prot))
  /\ Ret(t)
  /\ UNCHANGED <<mem, map_lock, brk_cur, dead, call, sub, loc, calls>>

(***************************************************************************)
(* user_mmap (mm.c:232-264): range check, the kernel mmap under map_lock   *)
(* (so it cannot return memory from a shadow hole of shadow_mremap), then  *)
(* shadow_mmap of the result.  A non-fixed mmap may get any free range.    *)
(***************************************************************************)
(* Mutant: the kernel mmap not put under map_lock.                        *)
mmap_lock_unlocked(t) ==
  /\ At(t, "mmap_lock")
  /\ IF bad_range(call[t].a, call[t].l)
     THEN Finish(t, EFAULT)
     ELSE /\ Goto(t, "mmap_sys") /\ UNCHANGED <<stack, loc>>
  /\ UNCHANGED <<mem, code, map_lock, brk_cur, dead, call, sub, calls>>

mmap_lock(t) ==
  /\ At(t, "mmap_lock")
  /\ IF bad_range(call[t].a, call[t].l)
     THEN /\ Finish(t, EFAULT) /\ UNCHANGED map_lock
     ELSE /\ map_lock = NoThread
          /\ map_lock' = t
          /\ Goto(t, "mmap_sys")
          /\ UNCHANGED <<stack, loc>>
  /\ UNCHANGED <<mem, code, brk_cur, dead, call, sub, calls>>

mmap_sys(t) ==
  /\ At(t, "mmap_sys")
  /\ LET c == call[t]
         n == PAGE_NEXT(c.l) \div PG
     IN  \/ /\ TRUE \in MmapFails
            /\ loc' = [loc EXCEPT ![t].r = ENOMEM]
            /\ UNCHANGED mem
         \/ IF c.fixed
            THEN IF MmapFixedOk(c.a, c.l)
                 THEN /\ mem' = MmapFixed(mem, c.a, c.l, AppRec(c.prot))
                      /\ loc' = [loc EXCEPT ![t].r = c.a]
                 ELSE /\ loc' = [loc EXCEPT ![t].r = EINVAL] /\ UNCHANGED mem
            ELSE IF c.l > 0 /\ FreeBases(mem, n) # {}
                 THEN \E b \in FreeBases(mem, n) :
                        /\ mem' = MmapFixed(mem, b * PG, c.l, AppRec(c.prot))
                        /\ loc' = [loc EXCEPT ![t].r = b * PG]
                 ELSE /\ loc' = [loc EXCEPT ![t].r = IF c.l = 0 THEN EINVAL ELSE ENOMEM]
                      /\ UNCHANGED mem
  /\ Goto(t, "mmap_unlock")
  /\ UNCHANGED <<code, map_lock, brk_cur, dead, stack, call, sub, calls>>

(* Mutant: the error path returns without mutex_unlock.                  *)
mmap_unlock_leaks(t) ==
  /\ At(t, "mmap_unlock")
  /\ IF IsErr(loc[t].r)
     THEN /\ Ret(t) /\ UNCHANGED <<sub, map_lock>>
     ELSE /\ map_lock' = NoThread
          /\ ShadowMmapCall(t, loc[t].r, call[t].l, call[t].prot, "")
  /\ UNCHANGED <<mem, code, brk_cur, dead, call, loc, calls>>

mmap_unlock(t) ==
  /\ At(t, "mmap_unlock")
  /\ map_lock' = NoThread
  /\ IF IsErr(loc[t].r)
     THEN /\ Ret(t) /\ UNCHANGED sub
     ELSE ShadowMmapCall(t, loc[t].r, call[t].l, call[t].prot, "")
  /\ UNCHANGED <<mem, code, brk_cur, dead, call, loc, calls>>

(***************************************************************************)
(* user_munmap (mm.c:266-277).                                             *)
(***************************************************************************)
munmap_sys(t) ==
  /\ At(t, "munmap_sys")
  /\ LET c == call[t]
     IN  IF bad_range(c.a, c.l)
         THEN /\ Finish(t, EFAULT) /\ UNCHANGED <<mem, sub>>
         ELSE IF ~MunmapOk(c.a, c.l)
         THEN /\ Finish(t, EINVAL) /\ UNCHANGED <<mem, sub>>
         ELSE /\ mem' = Munmap(mem, c.a, c.l)
              /\ loc' = [loc EXCEPT ![t].r = 0]
              /\ ShadowMunmapCall(t, c.a, PAGE_NEXT(c.l), "")
  /\ UNCHANGED <<code, map_lock, brk_cur, dead, call, calls>>

(***************************************************************************)
(* user_mprotect (mm.c:279-296): the user range, then the shadow range     *)
(* whatever the first call returned, then the code map on success.         *)
(***************************************************************************)
mprotect_sys(t) ==
  /\ At(t, "mprotect_sys")
  /\ LET c == call[t]
     IN  IF bad_range(c.a, c.l)
         THEN /\ Finish(t, EFAULT) /\ UNCHANGED mem
         ELSE /\ loc' = [loc EXCEPT ![t].r = MprotectRet(mem, c.a, c.l)]
              /\ mem' = IF PageAligned(c.a)
                        THEN Mprotect(mem, c.a, c.l, no_exec(c.prot), "X" \in c.prot)
                        ELSE mem
              /\ Goto(t, "mprotect_shadow")
              /\ UNCHANGED stack
  /\ UNCHANGED <<code, map_lock, brk_cur, dead, call, sub, calls>>

mprotect_shadow(t) ==
  /\ At(t, "mprotect_shadow")
  /\ LET c == call[t]
     IN  /\ mem' = IF PageAligned(c.a)
                   THEN Mprotect(mem, TAINT_OFFSET + c.a, c.l, no_exec(c.prot), FALSE)
                   ELSE mem
         /\ IF IsErr(loc[t].r) THEN Ret(t)
            ELSE /\ Goto(t, "mprotect_code") /\ UNCHANGED stack
  /\ UNCHANGED <<code, map_lock, brk_cur, dead, call, sub, loc, calls>>

mprotect_code(t) ==
  /\ At(t, "mprotect_code")
  /\ code' = CodeUpdate(code, call[t].a, call[t].l, IsCodeProt(call[t].prot))
  /\ Ret(t)
  /\ UNCHANGED <<mem, map_lock, brk_cur, dead, call, sub, loc, calls>>

(***************************************************************************)
(* user_madvise (mm.c:298-309): the advice on the user range, then, if it  *)
(* succeeded and was MADV_DONTNEED, the same on the shadow range, so the   *)
(* zeroed pages lose their taint.  The advice is carried in call.flags.    *)
(***************************************************************************)
madvise_sys(t) ==
  /\ At(t, "madvise_sys")
  /\ LET c == call[t]
         r == MadviseRet(mem, c.a, c.l)
     IN  IF bad_range(c.a, c.l)
         THEN /\ Finish(t, ENOMEM) /\ UNCHANGED mem
         ELSE /\ mem' = IF PageAligned(c.a) THEN Madvise(mem, c.a, c.l, c.flags) ELSE mem
              /\ IF r = 0 /\ c.flags = MADV_DONTNEED
                 THEN /\ loc' = [loc EXCEPT ![t].r = r]
                      /\ Goto(t, "madvise_shadow") /\ UNCHANGED stack
                 ELSE Finish(t, r)
  /\ UNCHANGED <<code, map_lock, brk_cur, dead, call, sub, calls>>

(* Mutant: the shadow range not advised.                                  *)
madvise_shadow_skipped(t) ==
  /\ At(t, "madvise_shadow")
  /\ Ret(t)
  /\ UNCHANGED <<mem, code, map_lock, brk_cur, dead, call, sub, loc, calls>>

madvise_shadow(t) ==
  /\ At(t, "madvise_shadow")
  /\ mem' = Madvise(mem, TAINT_OFFSET + call[t].a, call[t].l, call[t].flags)
  /\ Ret(t)
  /\ UNCHANGED <<code, map_lock, brk_cur, dead, call, sub, loc, calls>>

(***************************************************************************)
(* user_mremap (mm.c:323-338) and shadow_mremap (mm.c:112-158).  The user  *)
(* remap happens first; its result new_addr drives the shadow steps:       *)
(* unmap the part of the new range below / above the old one, move or      *)
(* resize the shadow (flags = MAYMOVE|FIXED when the region moved, else 0; *)
(* growing in place first punches a hole above the old shadow, under       *)
(* map_lock), update the code map, then unmap the shadow of what the old   *)
(* range leaves behind.  old/osz/nsz are the call's a/l/nl, new is loc.na. *)
(***************************************************************************)
mremap_sys(t) ==
  /\ At(t, "mremap_sys")
  /\ LET c == call[t]
     IN  IF bad_range(c.a, c.l) \/ (HasFlag(c.flags, MREMAP_FIXED) /\ bad_range(c.na, c.nl))
         THEN /\ Finish(t, ENOMEM) /\ UNCHANGED mem
         ELSE \E res \in MremapResults(mem, c.a, c.l, c.nl, c.flags, c.na) :
                /\ mem' = res[2]
                /\ IF IsErr(res[1])
                   THEN Finish(t, res[1])
                   ELSE /\ loc' = [loc EXCEPT ![t].r = res[1], ![t].na = res[1],
                                   ![t].flg = IF res[1] # c.a
                                              THEN MREMAP_MAYMOVE + MREMAP_FIXED ELSE 0]
                        /\ Goto(t, "smr_iscode")
                        /\ UNCHANGED stack
  /\ UNCHANGED <<code, map_lock, brk_cur, dead, call, sub, calls>>

smr_iscode(t) ==
  /\ At(t, "smr_iscode")
  /\ loc' = [loc EXCEPT ![t].iscode = (call[t].a \div PG) \in code]
  /\ Goto(t, "smr_low")
  /\ UNCHANGED <<mem, code, map_lock, brk_cur, dead, stack, call, sub, calls>>

smr_low(t) ==
  /\ At(t, "smr_low")
  /\ LET old == call[t].a  new == loc[t].na
     IN  IF new < old
         THEN ShadowMunmapCall(t, new, Min({old - new, call[t].nl}), "smr_high")
         ELSE /\ Goto(t, "smr_high") /\ UNCHANGED <<stack, sub>>
  /\ UNCHANGED <<mem, code, map_lock, brk_cur, dead, call, loc, calls>>

smr_high(t) ==
  /\ At(t, "smr_high")
  /\ LET old == call[t].a  osz == call[t].l  nsz == call[t].nl  new == loc[t].na
     IN  IF new + nsz > old + osz /\ loc[t].flg # 0
         THEN ShadowMunmapCall(t, Max({new, old + osz}),
                               Min({nsz, new + nsz - old - osz}), "smr_move")
         ELSE /\ Goto(t, IF new + nsz > old + osz /\ nsz # osz
                         THEN "smr_lock" ELSE "smr_move")
              /\ UNCHANGED <<stack, sub>>
  /\ UNCHANGED <<mem, code, map_lock, brk_cur, dead, call, loc, calls>>

(* Mutant: map_lock taken without waiting for its holder.                *)
smr_lock_no_wait(t) ==
  /\ At(t, "smr_lock")
  /\ map_lock' = t
  /\ Goto(t, "smr_hole")
  /\ UNCHANGED <<mem, code, brk_cur, dead, stack, call, sub, loc, calls>>

smr_lock(t) ==
  /\ At(t, "smr_lock")
  /\ map_lock = NoThread
  /\ map_lock' = t
  /\ Goto(t, "smr_hole")
  /\ UNCHANGED <<mem, code, brk_cur, dead, stack, call, sub, loc, calls>>

(* Mutant: no hole punched above the old shadow before growing it.        *)
smr_hole_skipped(t) ==
  /\ At(t, "smr_hole")
  /\ Goto(t, "smr_move")
  /\ UNCHANGED <<mem, code, map_lock, brk_cur, dead, stack, call, sub, loc, calls>>

smr_hole(t) ==
  /\ At(t, "smr_hole")
  /\ LET old == call[t].a  osz == call[t].l  nsz == call[t].nl
         ha == old + osz + TAINT_OFFSET
     IN  mem' = IF MunmapOk(ha, nsz - osz) THEN Munmap(mem, ha, nsz - osz) ELSE mem
  /\ Goto(t, "smr_move")
  /\ UNCHANGED <<code, map_lock, brk_cur, dead, stack, call, sub, loc, calls>>

smr_move(t) ==
  /\ At(t, "smr_move")
  /\ LET old == call[t].a  osz == call[t].l  nsz == call[t].nl
         new == loc[t].na  flg == loc[t].flg
     IN  IF new # old \/ nsz # osz
         THEN \E res \in MremapResults(mem, old + TAINT_OFFSET, osz, nsz, flg,
                                       new + TAINT_OFFSET) :
                /\ mem' = res[2]
                /\ map_lock' = IF flg = 0 THEN NoThread ELSE map_lock
                /\ IF IsErr(res[1])
                   THEN /\ dead' = TRUE /\ UNCHANGED pc
                   ELSE /\ Goto(t, "smr_code") /\ UNCHANGED dead
         ELSE /\ Goto(t, "smr_tail1") /\ UNCHANGED <<mem, map_lock, dead>>
  /\ UNCHANGED <<code, brk_cur, stack, call, sub, loc, calls>>

(* Mutant: is_code ignored, the new range always deregistered.           *)
smr_code_always_del(t) ==
  /\ At(t, "smr_code")
  /\ code' = CodeUpdate(code, loc[t].na, call[t].nl, FALSE)
  /\ Goto(t, "smr_tail1")
  /\ UNCHANGED <<mem, map_lock, brk_cur, dead, stack, call, sub, loc, calls>>

smr_code(t) ==
  /\ At(t, "smr_code")
  /\ code' = CodeUpdate(code, loc[t].na, call[t].nl, loc[t].iscode)
  /\ Goto(t, "smr_tail1")
  /\ UNCHANGED <<mem, map_lock, brk_cur, dead, stack, call, sub, loc, calls>>

smr_tail1(t) ==
  /\ At(t, "smr_tail1")
  /\ LET old == call[t].a  osz == call[t].l  new == loc[t].na
     IN  IF old < new
         THEN ShadowMunmapCall(t, old, Min({new - old, osz}), "smr_tail2")
         ELSE /\ Goto(t, "smr_tail2") /\ UNCHANGED <<stack, sub>>
  /\ UNCHANGED <<mem, code, map_lock, brk_cur, dead, call, loc, calls>>

(* Mutant: the shadow of the tail a shrink gives up is not remapped.      *)
smr_tail2_no_unmap(t) ==
  /\ At(t, "smr_tail2")
  /\ Ret(t)
  /\ UNCHANGED <<mem, code, map_lock, brk_cur, dead, call, sub, loc, calls>>

smr_tail2(t) ==
  /\ At(t, "smr_tail2")
  /\ LET old == call[t].a  osz == call[t].l  nsz == call[t].nl  new == loc[t].na
     IN  IF old + osz > new + nsz
         THEN ShadowMunmapCall(t, Max({old, new + nsz}),
                               Min({osz, old + osz - new - nsz}), "")
         ELSE /\ Ret(t) /\ UNCHANGED sub
  /\ UNCHANGED <<mem, code, map_lock, brk_cur, dead, call, loc, calls>>

(***************************************************************************)
(* user_brk (mm.c:199-218): grow or shrink the heap with user_mmap /       *)
(* user_munmap between the page-rounded old and new break, then store the  *)
(* new break.  brk_cur is read at the start and written at the end.        *)
(***************************************************************************)
(* Mutant: the old break is not rounded up to a page.                    *)
brk_start_unrounded(t) ==
  /\ At(t, "brk_start")
  /\ LET nb == call[t].brkv
         old_alloc == brk_cur
         new_alloc == PAGE_NEXT(nb)
     IN  IF nb <= USER_END /\ nb >= BrkMin
         THEN /\ loc' = [loc EXCEPT ![t].brkv = nb]
              /\ stack' = [stack EXCEPT ![t] = <<"brk_set">> \o stack[t]]
              /\ IF new_alloc > old_alloc
                 THEN /\ call' = [call EXCEPT ![t] = [NoCall EXCEPT !.op = "mmap",
                                   !.a = old_alloc, !.l = new_alloc - old_alloc,
                                   !.prot = {"R", "W"}, !.fixed = TRUE]]
                      /\ Goto(t, "mmap_lock")
                 ELSE IF new_alloc < old_alloc
                 THEN /\ call' = [call EXCEPT ![t] = [NoCall EXCEPT !.op = "munmap",
                                   !.a = new_alloc, !.l = old_alloc - new_alloc]]
                      /\ Goto(t, "munmap_sys")
                 ELSE /\ Goto(t, "brk_set") /\ UNCHANGED call
         ELSE /\ Finish(t, brk_cur) /\ UNCHANGED call
  /\ UNCHANGED <<mem, code, map_lock, brk_cur, dead, sub, calls>>

brk_start(t) ==
  /\ At(t, "brk_start")
  /\ LET nb == call[t].brkv
         old_alloc == PAGE_NEXT(brk_cur)
         new_alloc == PAGE_NEXT(nb)
     IN  IF nb <= USER_END /\ nb >= BrkMin
         THEN /\ loc' = [loc EXCEPT ![t].brkv = nb]
              /\ stack' = [stack EXCEPT ![t] = <<"brk_set">> \o stack[t]]
              /\ IF new_alloc > old_alloc
                 THEN /\ call' = [call EXCEPT ![t] = [NoCall EXCEPT !.op = "mmap",
                                   !.a = old_alloc, !.l = new_alloc - old_alloc,
                                   !.prot = {"R", "W"}, !.fixed = TRUE]]
                      /\ Goto(t, "mmap_lock")
                 ELSE IF new_alloc < old_alloc
                 THEN /\ call' = [call EXCEPT ![t] = [NoCall EXCEPT !.op = "munmap",
                                   !.a = new_alloc, !.l = old_alloc - new_alloc]]
                      /\ Goto(t, "munmap_sys")
                 ELSE /\ Goto(t, "brk_set") /\ UNCHANGED call
         ELSE /\ Finish(t, brk_cur) /\ UNCHANGED call
  /\ UNCHANGED <<mem, code, map_lock, brk_cur, dead, sub, calls>>

brk_set(t) ==
  /\ At(t, "brk_set")
  /\ brk_cur' = loc[t].brkv
  /\ Finish(t, loc[t].brkv)
  /\ UNCHANGED <<mem, code, map_lock, dead, call, sub, calls>>

(***************************************************************************)
(* The emulated program: an idle thread makes one of the memory calls      *)
(* syscall_emu (syscalls.c:107-130) hands to mm.c, with arguments from the *)
(* small sets of the configuration.  syscall_emu returns before calling    *)
(* the handler when a signal is in progress (syscalls.c:99-100); that path *)
(* changes no state and is the same as the call not being made.            *)
(***************************************************************************)
Entry == [mmap |-> "mmap_lock", munmap |-> "munmap_sys",
          mprotect |-> "mprotect_sys", mremap |-> "mremap_sys", brk |-> "brk_start",
          madvise |-> "madvise_sys"]

Requests ==
  [op : {"mmap"}, a : Addrs, l : Lens, prot : Prots, fixed : MapFixedChoices,
   nl : {0}, flags : {0}, na : {0}, brkv : {0}]
  \cup [op : {"munmap"}, a : Addrs, l : Lens, prot : {{}}, fixed : {FALSE},
        nl : {0}, flags : {0}, na : {0}, brkv : {0}]
  \cup [op : {"mprotect"}, a : Addrs, l : Lens, prot : Prots, fixed : {FALSE},
        nl : {0}, flags : {0}, na : {0}, brkv : {0}]
  \cup [op : {"mremap"}, a : Addrs, l : Lens, prot : {{}}, fixed : {FALSE},
        nl : Lens, flags : MremapFlags, na : Addrs, brkv : {0}]
  \cup [op : {"brk"}, a : {0}, l : {0}, prot : {{}}, fixed : {FALSE},
        nl : {0}, flags : {0}, na : {0}, brkv : BrkVals]
  \cup [op : {"madvise"}, a : Addrs, l : Lens, prot : {{}}, fixed : {FALSE},
        nl : {0}, flags : Advices, na : {0}, brkv : {0}]

\* The heap pages: from the page-rounded brk_min up to the page-rounded break.
HeapPages == {p \in UserPages : PAGE_NEXT(BrkMin) <= p * PG /\ p * PG < PAGE_NEXT(brk_cur)}

\* What the program is assumed to do in a configuration.
Allowed(c) ==
  /\ c.op \in Ops
  /\ c.op \in {"mprotect", "madvise"} /\ MappedOnlyRanges =>
       \A p \in Rng(c.a, c.l) : p \in UserPages /\ Mapped(mem[p])
  /\ c.op = "mremap" /\ ~AllowShrink => c.nl >= c.l
  \* new_addr is only read with MREMAP_FIXED (mm.c:329)
  /\ c.op = "mremap" /\ ~HasFlag(c.flags, MREMAP_FIXED) => c.na = 0
  /\ c.op \in {"munmap", "mremap"} /\ HeapLeftToBrk =>
       /\ Rng(c.a, c.l) \cap HeapPages = {}
       /\ HasFlag(c.flags, MREMAP_FIXED) => Rng(c.na, c.nl) \cap HeapPages = {}

Syscall(t) ==
  /\ At(t, "idle")
  /\ calls[t] < MaxCalls
  /\ \E c \in Requests :
       /\ Allowed(c)
       /\ call' = [call EXCEPT ![t] = c]
       /\ Goto(t, Entry[c.op])
  /\ calls' = [calls EXCEPT ![t] = @ + 1]
  /\ loc' = [loc EXCEPT ![t] = NoLoc]
  /\ UNCHANGED <<mem, code, map_lock, brk_cur, dead, stack, sub>>

(***************************************************************************)
(* Between calls a thread runs translated code.  A store of input data     *)
(* into page p is instrumented by taint_instr (jit_code.c:989-1030): the    *)
(* taint of the stored bytes goes to the shadow at p + TAINT_OFFSET and    *)
(* the data to p, so both stop reading as zeros.  The store needs both     *)
(* pages writable; a store to a shadow that is not would fault.            *)
(***************************************************************************)
Store(t) ==
  /\ At(t, "idle")
  /\ "store" \in Ops
  /\ \E p \in UserPages :
       /\ "W" \in mem[p].prot /\ "W" \in mem[p + NPages].prot
       /\ mem[p].z \/ mem[p + NPages].z
       /\ mem' = [mem EXCEPT ![p].z = FALSE, ![p + NPages].z = FALSE]
  /\ UNCHANGED <<code, map_lock, brk_cur, dead, pc, stack, call, sub, loc, calls>>

(* A thread spinning in mutex_lock while map_lock is held.                *)
LockWait(t) ==
  /\ At(t, "mmap_lock") \/ At(t, "smr_lock")
  /\ map_lock # NoThread
  /\ ~(pc[t] = "mmap_lock" /\ bad_range(call[t].a, call[t].l))
  /\ UNCHANGED vars

Step(t) ==
  \/ shmap_sys(t)
  \/ shmap_code(t)
  \/ mmap_lock(t)
  \/ mmap_sys(t)
  \/ mmap_unlock(t)
  \/ munmap_sys(t)
  \/ mprotect_sys(t)
  \/ mprotect_shadow(t)
  \/ mprotect_code(t)
  \/ madvise_sys(t)
  \/ madvise_shadow(t)
  \/ mremap_sys(t)
  \/ smr_iscode(t)
  \/ smr_low(t)
  \/ smr_high(t)
  \/ smr_lock(t)
  \/ smr_hole(t)
  \/ smr_move(t)
  \/ smr_code(t)
  \/ smr_tail1(t)
  \/ smr_tail2(t)
  \/ brk_start(t)
  \/ brk_set(t)

(* All calls made, or minemu died: the process stays as it is.            *)
Finished ==
  /\ dead \/ \A t \in Threads : pc[t] = "idle" /\ calls[t] = MaxCalls
  /\ UNCHANGED vars

(* init_minemu_mem (mm.c:397-403) maps the whole shadow area PROT_NONE.   *)
Init ==
  /\ mem = [p \in Pages |-> IF p \in ShadowPages THEN ShadowRec({}) ELSE Free]
  /\ code = {}
  /\ map_lock = NoThread
  /\ brk_cur = BrkMin
  /\ dead = FALSE
  /\ pc = [t \in Threads |-> "idle"]
  /\ stack = [t \in Threads |-> <<>>]
  /\ call = [t \in Threads |-> NoCall]
  /\ sub = [t \in Threads |-> [a |-> 0, l |-> 0, prot |-> {}]]
  /\ loc = [t \in Threads |-> NoLoc]
  /\ calls = [t \in Threads |-> 0]

Next ==
  \/ \E t \in Threads : Syscall(t)
  \/ \E t \in Threads : shmap_sys(t)
  \/ \E t \in Threads : shmap_code(t)
  \/ \E t \in Threads : mmap_lock(t)
  \/ \E t \in Threads : mmap_sys(t)
  \/ \E t \in Threads : mmap_unlock(t)
  \/ \E t \in Threads : munmap_sys(t)
  \/ \E t \in Threads : mprotect_sys(t)
  \/ \E t \in Threads : mprotect_shadow(t)
  \/ \E t \in Threads : mprotect_code(t)
  \/ \E t \in Threads : madvise_sys(t)
  \/ \E t \in Threads : madvise_shadow(t)
  \/ \E t \in Threads : mremap_sys(t)
  \/ \E t \in Threads : smr_iscode(t)
  \/ \E t \in Threads : smr_low(t)
  \/ \E t \in Threads : smr_high(t)
  \/ \E t \in Threads : smr_lock(t)
  \/ \E t \in Threads : smr_hole(t)
  \/ \E t \in Threads : smr_move(t)
  \/ \E t \in Threads : smr_code(t)
  \/ \E t \in Threads : smr_tail1(t)
  \/ \E t \in Threads : smr_tail2(t)
  \/ \E t \in Threads : brk_start(t)
  \/ \E t \in Threads : brk_set(t)
  \/ \E t \in Threads : Store(t)
  \/ \E t \in Threads : LockWait(t)
  \/ Finished

(* The scheduler keeps running every thread that is inside a handler.     *)
Spec == Init /\ [][Next]_vars /\ \A t \in Threads : WF_vars(Step(t))

(***************************************************************************)
(* Properties.                                                             *)
(***************************************************************************)
Labels == {"idle", "shmap_sys", "shmap_code", "mmap_lock", "mmap_sys",
           "mmap_unlock", "munmap_sys", "mprotect_sys", "mprotect_shadow",
           "mprotect_code", "mremap_sys", "smr_iscode", "smr_low", "smr_high",
           "smr_lock", "smr_hole", "smr_move", "smr_code", "smr_tail1",
           "smr_tail2", "brk_start", "brk_set", "madvise_sys", "madvise_shadow"}
Records == [prot : SUBSET {"R", "W"}, by : {"none", "app", "minemu"}, x : BOOLEAN,
            z : BOOLEAN]

TypeOK ==
  /\ mem \in [Pages -> Records]
  /\ code \subseteq UserPages
  /\ map_lock \in Threads \cup {NoThread}
  /\ brk_cur \in Nat
  /\ dead \in BOOLEAN
  /\ pc \in [Threads -> Labels]
  /\ \A t \in Threads : stack[t] \in Seq(Labels) /\ Len(stack[t]) <= 1
  /\ calls \in [Threads -> 0 .. MaxCalls]

\* No thread is inside a memory call.
Quiescent == \A t \in Threads : pc[t] = "idle"

(* Whenever no call is in progress, the shadow of every user page mirrors  *)
(* it: mapped with the user page's protection, PROT_NONE where the user    *)
(* page is unmapped.  This is what shadow_mmap, user_mprotect and          *)
(* shadow_mremap are for: inline taint code reads and writes the shadow of *)
(* every byte the program can access.                                      *)
ShadowMirror ==
  Quiescent /\ ~dead =>
    \A p \in UserPages : SameMapping(mem[p + NPages], ShadowRec(mem[p].prot))

(* Whenever no call is in progress, the code map holds exactly the mapped  *)
(* user pages the program made executable and not writable (shadow_mmap,   *)
(* user_mprotect, and shadow_mremap carrying is_code to the new range).    *)
CodeMapExact ==
  Quiescent /\ ~dead =>
    \A p \in UserPages :
      p \in code <=> Mapped(mem[p]) /\ mem[p].x /\ "W" \notin mem[p].prot

(* No mapping the program asked for ever lies in the shadow area: the      *)
(* shadow hole shadow_mremap punches while growing in place is never       *)
(* handed to the program (the reason map_lock exists, mm.c:127 and 242).   *)
NoUserInShadow == \A p \in ShadowPages : mem[p].by # "app"

(* minemu never dies on a memory call the kernel accepted for the program. *)
NoDie == ~dead

(* The heap the program sees through brk is mapped: whenever no call is in *)
(* progress, every user page from the page-rounded brk_min up to the       *)
(* page-rounded break is mapped.  user_brk maps or unmaps the pages        *)
(* between the rounded old and new break and then stores the new break    *)
(* (mm.c:201-215); the kernel's brk keeps the two in step.                 *)
BrkHeapMapped ==
  Quiescent /\ ~dead =>
    \A p \in HeapPages : Mapped(mem[p])

(* Whenever no call is in progress, a mapped user page and its shadow     *)
(* agree on whether they still read as zeros: data the program stored has *)
(* taint in the shadow, and a page the kernel zero-filled (a fresh mmap,   *)
(* the part an mremap grows by, MADV_DONTNEED) carries no taint from       *)
(* before.  A zeroed user page with stale taint raises false alarms; data  *)
(* whose shadow was zeroed has lost its taint.                             *)
ShadowTaintMirror ==
  Quiescent /\ ~dead =>
    \A p \in UserPages : Mapped(mem[p]) => mem[p].z = mem[p + NPages].z

(* A thread inside a map_lock critical section holds map_lock: user_mmap   *)
(* around the kernel mmap, shadow_mremap from the hole until the shadow    *)
(* has grown into it.                                                      *)
HoldsMapLock(t) ==
  \/ pc[t] \in {"mmap_sys", "mmap_unlock", "smr_hole"}
  \/ pc[t] = "smr_move" /\ loc[t].flg = 0 /\ call[t].nl > call[t].l
MapLockExclusive == ~dead => \A t \in Threads : HoldsMapLock(t) => map_lock = t

(* Every memory call that starts returns (or minemu dies): no thread waits *)
(* for map_lock forever.                                                   *)
CallsReturn == \A t \in Threads : pc[t] # "idle" ~> (pc[t] = "idle" \/ dead)

(* brk grows the heap only into free pages: a step of a brk call that is *)
(* mapping the new heap (user_brk's MAP_FIXED user_mmap, mm.c:205-209)    *)
(* leaves every page that was already mapped as it was.  The kernel's brk *)
(* fails rather than map over an existing mapping; user_brk does not check *)
(* and MAP_FIXED replaces whatever the program mapped above the break.     *)
InBrk(t) == \E i \in DOMAIN stack[t] : stack[t][i] = "brk_set"
BrkNoClobber ==
  [][\A t \in Threads :
       InBrk(t) /\ call[t].op = "mmap" /\ pc'[t] # pc[t] =>
         \A p \in UserPages : Mapped(mem[p]) => mem'[p] = mem[p]]_vars

=============================================================================
