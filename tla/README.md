# TLA+ models of minemu

minemu is a taint-tracking x86 emulator. It translates the program's code
on the fly into instrumented code that updates a *shadow* copy of memory, the
taint map, next to every data operation. The sources are under `src/src/`.
This directory holds TLA+ models of the parts of minemu whose correctness
depends on ordering, interleaving or subtle arithmetic. It also holds the TLC
configurations that check them.

## 1. The system and its parts

| part | source | state | operations |
|---|---|---|---|
| Syscall dispatch | `syscalls.c` `syscall_emu` | none of its own | routes brk, mmap, mremap, mprotect, madvise and shmat to the memory manager; the other calls go straight to the kernel |
| Shadow Memory Manager | `mm.c` | the address space (user half and shadow half at `TAINT_OFFSET`), the code map, `map_lock`, `brk_cur`/`brk_min` | `user_mmap`, `user_munmap`, `user_mprotect`, `user_mremap` (via `shadow_mremap`), `user_brk`, `user_madvise`, `user_shmat`, `init_minemu_mem` |
| Instruction classifier | `jit_code.c` `jit_action*` tables | static tables | lookup of an opcode |
| Template assembler | `jit_code.c` `gen_code`, `imm_to` | output buffer, `outc` | template-driven byte emission |
| Taint selector | `jit_code.c` `taint_ops`, `segment_prefix_mapping`, `taint_instr`, `taint_rep` | static tables | choose and emit the taint code for one instruction |
| Control-flow translator | `jit_code.c` `translate_control`, `generate_*`, `translate_op` | the translation result (length, pending jump patch) | translate one control-transfer instruction |
| Fragment re-translator | `jit_fragment.c` | the fragment buffer, the offset→fragment address map | two-pass translation of a code slice; `finish_instruction` |
| Segment setup | `segments.c` | none after startup | `init_tls` (one `arch_prctl`), `init_shield` (returns at once) |

The parts interact as follows:
- The syscall layer calls the memory manager.
- The memory manager keeps the code map through `add_code_region` and
  `del_code_region`. The translator reads it: translated code is valid only
  for pages that are mapped executable and not writable.
- The translator uses the classifier, the taint selector and the code
  generator. The fragment re-translator calls the translator once per
  instruction, on two passes.
- The jump cache and the runtime dispatcher are assembly outside `src/`.

What makes the memory manager hard:
- Several threads call it at once. Each of its operations is several
  system calls (user mapping, then shadow mapping, then code map), and only
  `user_mmap`'s kernel call and `shadow_mremap`'s in-place growth are under
  `map_lock`.
- `mremap` moves or resizes the shadow in several partial steps. Until the
  last step, the shadow may have holes.
- Linux semantics matter. `mprotect` changes the pages before a hole and then
  fails. `mremap` rounds sizes up to pages but requires an aligned address.
- Any failure of a shadow system call is fatal (`die`).

## 2. Modules

### `LinuxVM` — the kernel's memory calls
This module is the environment, not minemu code. It models a paged address
space `Pages -> [prot, by, x, z]`:
- `prot` is the protection.
- `by` says who mapped the page: `app`, `minemu`, or `none` (free).
- `x` is the exec flag the application asked for.
- `z` says the page still reads as zeros. For a shadow page, that means it
  holds no taint.

It gives the kernel's results for `mmap` with `MAP_FIXED`, `munmap`,
`mprotect`, and `mremap` in all its forms:
- `mmap` with `MAP_FIXED`, and `munmap`, require an aligned address.
- `mprotect` applies partially up to the first hole, then returns `ENOMEM`.
- `mremap` covers `FIXED`, shrink, in-place growth, a `MAYMOVE` move to any
  free range, and `ENOMEM`. It moves contents page by page, and the pages it
  grows by are zero-filled.
- `madvise(MADV_DONTNEED)` zero-fills every mapped page of the range. If the
  range has an unmapped gap, it still does that and then returns `ENOMEM`.

A non-fixed `mmap` may return any free range. That choice is
nondeterministic.

### `ShadowMM` — the Shadow Memory Manager and its dispatch
Threads are interleaved at the granularity of one system call or one lock
operation. A thread's state is:
- `pc`: the label of the statement it is about to run;
- `stack`: the return labels of the calls it is inside;
- `call`: the arguments of its user call;
- `sub`: the arguments of the `shadow_mmap` it is inside;
- `loc`: its locals (`ret`, `new_addr`, `flags`, `is_code`).

| action | code |
|---|---|
| `Syscall` | `syscall_emu` picks a memory call (`syscalls.c:107-130`) |
| `mmap_lock`, `mmap_sys`, `mmap_unlock` | `user_mmap`: `bad_range`, `mutex_lock`, kernel mmap, `mutex_unlock` (`mm.c:232-264`) |
| `shmap_sys`, `shmap_code` | `shadow_mmap`: MAP_FIXED mmap of the shadow (die on failure), then the code map (`mm.c:69-102`); `shadow_munmap` is `shadow_mmap` with `PROT_NONE` |
| `munmap_sys` | `user_munmap` (`mm.c:266-277`) |
| `mprotect_sys`, `mprotect_shadow`, `mprotect_code` | `user_mprotect` (`mm.c:279-296`) |
| `mremap_sys` | `user_mremap` (`mm.c:323-338`) |
| `smr_iscode` … `smr_tail2` | the statements of `shadow_mremap` in order (`mm.c:112-158`): read `is_code`, unmap below, unmap above or lock and punch a hole, shadow mremap (unlock, die on failure), code map, unmap the two tails |
| `brk_start`, `brk_set` | `user_brk` (`mm.c:199-218`) |
| `madvise_sys`, `madvise_shadow` | `user_madvise` (`mm.c:298-309`): the user madvise, then on success with `MADV_DONTNEED` the shadow madvise |
| `Store` | an idle thread runs translated code that stores input data into a writable page; the code `taint_instr` emits writes the taint to the shadow and the data to the page (`jit_code.c:1001-1028`) |
| `LockWait` | a thread spinning in `mutex_lock` |

`Init` is the state after `init_minemu_mem`: the whole shadow is mapped
`PROT_NONE` and no user memory is mapped.

Properties:
- `ShadowMirror`: whenever no call is in progress, every user page's shadow
  is mapped with the page's protection (without exec). A free user page has
  a `PROT_NONE` shadow.
- `CodeMapExact`: whenever no call is in progress, the code map holds
  exactly the user pages mapped executable and not writable.
- `NoUserInShadow`: the application never owns a page of the shadow half.
- `NoDie`: minemu never dies on a shadow call the kernel refused.
- `MapLockExclusive`: a thread inside a `map_lock` critical section holds
  `map_lock`.
- `CallsReturn` (liveness): every memory call returns.
- `ShadowTaintMirror`: whenever no call is in progress, a mapped user page
  and its shadow agree on whether they read as zeros. Stored data keeps its
  taint, and memory the kernel zero-filled carries no stale taint.
- `BrkHeapMapped`: whenever no call is in progress, every user page between
  the page-rounded `brk_min` and the page-rounded `brk_cur` is mapped. This
  is what `user_brk` promises the program. It is broken when two threads'
  `brk` calls interleave between the read of `brk_cur` (`mm.c:203`) and its
  store (`mm.c:214`).
- `BrkNoClobber` (action property): a step of a `brk` call that maps the new
  heap leaves every already-mapped page as it was. The kernel's brk fails
  rather than map over an existing mapping. `user_brk` maps with `MAP_FIXED`
  and does not check (`mm.c:205`).

### `JitFragment` — the fragment re-translator (`jit_fragment.c`)
A *slice* is a sequence of abstract instructions, each a record of its
kind, length and (for control instructions) its target or branch operand.
The slices are the shapes the translator really produces (`taint_rep`'s
loop, `cmov`, jumps inside and outside the slice, a call with preseeding,
an indirect jump, `int 80`, `cmpxchg`), written in `MC_JitFragment`; the
`rep`, `cmov` and `cmpxchg` slices are the output of the `JitOps`
generators.
Emitted code is a sequence of instruction records with their exact byte
lengths and relative operands, placed at their byte offsets in `frag`.

| definition | code |
|---|---|
| `Init` | `jit_fragment`: the `mapping` VLA is uninitialised (`Garbage`), then two calls of `jit_fragment_translate` |
| `TranslateInstr` | one iteration of the loop (`jit_fragment.c:150-178`): record `mapping[s_off]`, note the entry, copy or translate the instruction |
| `TranslateEnd` | `s_off == len`: emit the exit, check the entry, start the second pass |
| `jit_fragment_control` | in-slice jumps through `mapping`, jumps to minemu's own code and to the cache, exits otherwise |
| `jit_fragment_jcc`, `_jcc_exit`, `_jump`, `_jump_exit` | the four emitters, with their byte lengths |

`FragRun` executes the fragment from a given byte offset, following
relative operands, until it leaves it; `SliceStep` is what the CPU does with
the original instruction. Properties:
- `FragmentReplaysSlice`: after both passes, from every instruction start and
  both branch outcomes, the fragment reaches the same next instruction (as
  its translation) or the same exit address as the original.

### `ControlFlow` — translation of control transfers (`jit_code.c`)
One instruction per behaviour, translated once by `translate_control` with
every `generate_*` it calls. Emitted code is a sequence of records with byte
lengths; `trans` is the pending-patch record (`jmp_addr`, `imm`, `len`)
that the runtime uses to link a direct jump. `Run` executes the emitted code
with the patch applied (a jmp or jcc at `imm-1`/`imm-2` goes to `jmp_addr`)
and stops at a direct jump, a runtime entry or a return.

Properties:
- `ControlTranslated`: for both branch outcomes the translated code reaches
  the target the CPU would reach: a direct jump for an in-map target, the
  runtime with `eax` = target for a target outside the map, the runtime's
  indirect or return entry for indirect transfers.
- `CallFrame`: a call pushes the guest return address, and under
  `PRESEED_ON_CALL` seeds the cache with (return address, end of the call
  sequence).
- `GenCodeFaithful`: every block built from a template holds the bytes,
  and reports `&` at the offsets, that the template's tokens denote. This
  covers mixed-case hex (`66 0f ef ed`, `8b 8C 24`), the `?` segment byte and
  `$` copies of the operand.
- `TypeOK` also says that the patch offset lies inside the emitted code and
  `trans.len` equals its length.

The models assume the 32-bit build (`sizeof(long)` = 4), the one `shmat`
and the segment code target.

### `TaintSelect` — choosing the taint code of one instruction (`jit_code.c`)
The module models `taint_instr` (`jit_code.c:989-1030`) for one decoded
instruction:
- `jit_action` looks up the opcode's action (main, `0F` and `FF /r` tables);
- with a segment prefix, `segment_prefix_mapping` substitutes the action,
  and an action with no entry falls back to an uninstrumented copy;
- the action's class then picks the argument. A ModRM-class action gets the
  ModRM operand. A REG-class action gets `addr[mrm-1]&7`, the low three bits
  of the byte before the ModRM byte, which is the opcode byte;
- the `.f16` slot of `taint_ops` is chosen when there is an operand-size
  prefix and the slot is filled.

The taint primitives (`taint_code.c`) are not in the repository. Each is
modelled by what its name and the spec say it does: copy, OR, erase or swap
of the shadow bytes of two operands. Each shadow byte starts out holding the
set `{itself}`, so the result after `Execute` shows where every byte's taint
came from. `Expected` is the data flow that x86 defines for the instruction.
With a segment override the memory operand is not the shadowed address, so
its bytes are expected to end up erased.

Properties:
- `TaintPropagates`: after the emitted code runs, every shadow byte holds
  exactly the taint that x86 data flow gives it.
- `TaintSound`: no shadow byte holds less taint than x86 data flow gives it,
  which is the security direction.

### `GenCode` — the template assembler (`jit_code.c:414-521`)
`gen_code` reads a format string character by character. Hex digits of
either case collect in `outc`, which starts at 1 and emits its low byte once
it exceeds 0xff; the directives `L`, `S`, `&`, `$`, `+`, `.` and `?` consume
their arguments in order.

| definition | code |
|---|---|
| `Directive` | one iteration of the loop body (448-510): a hex digit or one directive |
| `EmitOutc` | the `outc > 0xff` test after each character (512-517) |
| `GenFrom`, `GenCode` | the loop over the format; the bytes written and the `&` offsets |
| `imm_to` | the little-endian long (414-417), floor division for negative values |

Templates are written as tokens (two hex digits or one directive). `Chars`
spells a template out into characters; `RefEncode` is what a template of
tokens means by the usage comment (421-443). `ControlFlow` and `JitFragment`
build every block they take from a `gen_code` template with `Gen` or
`GenLen`. So their byte lengths, and the `&` offset of the preseed, come from
running `GenCode` on the template the code passes.

### `JitOps` — generators that wrap the copied instruction (`jit_code.c`)
An op is a sequence of items `[op, len, tgt, tag]`. A branch item's `tgt`
is its end offset plus the rel8 the code stores. `S8` reads that rel8 back
as a signed char.

| definition | code |
|---|---|
| `taint_rep` | `taint_rep` (953-987): copy with a segment prefix; else `jecxz` with `dest[1] = len-2`, taint code, `[66] [67] op`, `loop` with `dest[len-1] = -len` |
| `generate_cmov` | `generate_cmov` (877-896): inverted `jcc` with `taint_len+len-1`, taint code (none with a segment prefix), the cmov as a one-byte-shorter `mov` |
| `taint_cmpxchg` | the three `taint_cmpxchg*` (905-951): pre fix-up, instruction, post fix-up, or the bare instruction with a segment prefix |
| `copy_instr` | `copy_instr` (898-903) |

`Exec` runs an op with a count register and a condition flag:
- `jecxz` jumps when ECX is 0;
- `loop` decrements ECX and jumps when it is not 0;
- the inverted `jcc` jumps when the condition is false.

`Exec` returns the copy items executed.

`GenInputs` combines:
- taint on and off;
- with and without the 66 prefix;
- with and without a segment prefix;
- taint code of 6 and 7 bytes.

`MC_JitFragment` re-translates every `rep movs` and `cmov` op generated from
these inputs. Its property `OpsTranslated` compares the run of the op being
re-translated with the original instruction:
- a `rep` string op runs taint code and its element step ECX times, and
  ends with ECX = 0;
- a `cmov` runs taint code and its `mov` exactly when its condition holds.

ECX ranges from 0 to 3.

### `FinishInstruction` — the signal-time replay (`jit_fragment.c:206-264`)
When a signal interrupts a thread inside the jit code of an instruction,
the handler calls `finish_instruction`, which must bring the thread to an
instruction boundary. This module composes it with `JitFragment`
(`F == INSTANCE JitFragment`, with the translator's variables its own) and
with the ops of `JitOps`. A thread runs one op (rep movs, cmov or cmpxchg,
as the generators emit it) item by item. `rip` is an offset into the op's
jit code, or into the fragment.

| definition | code |
|---|---|
| `CpuStep` | the CPU runs one item of the op (`OpStep` of `JitOps`) |
| `Signal` | the handler enters `finish_instruction` and clears `jit_fragment_restartsys` (206-213) |
| `FinishPass` | one pass of the loop (215-238): return the original address at an op start (the next instruction's start is the end of this op); inside an op, start `jit_fragment`; in the syscall critical section, go back to its start; in the cache resolution code, move to its relocated copy; after three passes, `die` (263) |
| `Jit` | `jit_fragment`'s two translation passes, as `JitFragment`'s actions; `context->rip` becomes the entry it returns |
| `Run` | `jit_fragment_run` (240-258): the CPU runs the fragment (`FragExec`) until it leaves through `jit_fragment_exit` with `jit_rip`; then the next pass |

`jit_fragment_run` and `jit_fragment_exit` are runtime assembly that is not
in the repository. `FragExec` runs the fragment by the CPU semantics of its
instructions: copies, jcc and loop with their rewritten displacements, the
`movl` that sets `jit_rip`, and the exits.

Properties:
- `FinishCompletes`: when the handler returns, the items run before the
  signal, those run in the fragment, and those the thread runs after it
  resumes at the returned address are together exactly one uninterrupted run
  of the op, and ECX ends as it would have. Resuming "at this instruction"
  runs the op again from its start with ECX as it is. That is right for
  a rep op, whose `loop` returns to the op start with ECX decremented and an
  element moved. This is the rationale of spec section 4.6: no synthetic
  step of the instruction is applied twice, and none is lost.
- `FinishReturns` (liveness): every signal leads to a return, never to the
  `die` after the third pass.

### Planned modules (priority order)
1. `TaintSelect`: the xor, lea, pusha/popa/enter/leave and string actions.
2. `JmpCache` (modelled from the spec; the cache is assembly): an abstract
   map refined by the hashed, last-writer-wins table, with call preseeding.
3. `ShadowMM`: `shmat`.
4. `FinishInstruction`: control slices (jumps out of the op, `int 80`) as
   interrupted ops, which needs the runtime code they jump to.

## 3. Runs

The memory-manager runs use `MC_ShadowMM` with pages of 2 units (`PG = 2`) and 3 user pages.
Addresses are 0, 2 and 4. Lengths are 2 and 4, or 2, 3 and 4 where unaligned
sizes matter. These bounds give every operation room:
- to cover one or two pages;
- to fail with `EFAULT` past `USER_END`;
- to find no free range.

| run | threads, calls | checks | result |
|---|---|---|---|
| `mm_seq` | 1 thread, 3 calls of all six kinds, fixed and non-fixed mmap, mremap flags 0 and MAYMOVE, madvise advice 0 and `MADV_DONTNEED`, brk to breaks 1, 3 and 5 with `brk_min` = 1, RW and RX, and stores between calls; the program leaves the heap to brk (`HeapLeftToBrk`) | `TypeOK`, `ShadowMirror`, `CodeMapExact`, `NoDie`, `ShadowTaintMirror`, `BrkHeapMapped` | pass: one thread cannot break the mirror, in protection or contents; mremap carries taint with the data; the page rounding of old and new break is right |
| `mm_lock` | 2 threads, 2 calls each: non-fixed mmap and growing in-place mremap; the kernel may refuse any user mmap with `ENOMEM` | `NoUserInShadow`, `MapLockExclusive`, `CallsReturn` | pass: the lock does what its comment says for the case it was written for, and a refused mmap releases it and returns |
| `mm_unmap_race` | 2 threads: mmap and munmap | `ShadowMirror` | violated: a late `shadow_munmap` hits another thread's new mapping |
| `frag` | the generated rep and cmov ops and 6 other slice shapes, every entry | `TypeOK`, `FragmentReplaysSlice`, `OpsTranslated` | pass: the two passes lay out the same offsets and in-slice jumps land on translations; the rel8 arithmetic of `taint_rep` and `generate_cmov` is right |
| `cf` | every control action, in-map and out-of-map targets, rel8 and rel32, all call strategies and taint flags | `TypeOK`, `ControlTranslated`, `CallFrame`, `GenCodeFaithful` | pass: every transfer reaches the CPU's target, and the templates assemble to what they denote |
| `cf_loop_out` | LOOP to a target outside the map | `ControlTranslated` | violated: `EB 05` skips into the cross-map trampoline (`jit_code.c:1073`) |
| `mm_brk_enomem` | 1 thread: brk to 1, 3 and 5, mmap, and a kernel that may refuse a user mmap with `ENOMEM` | `BrkHeapMapped` | violated: `user_brk` ignores the failed MAP_FIXED mmap and stores the new break over unmapped pages (`mm.c:207`) |
| `mm_brk_clobber` | 1 thread: fixed mmap, stores, brk | `BrkNoClobber` | violated: brk's MAP_FIXED mmap replaces the program's mapping above the break, and the stored data reads as zeros (`mm.c:205`) |
| `mm_brk_race` | 2 threads: brk | `BrkHeapMapped` | violated: one thread's shrink unmaps the heap while the other's brk stores the break it read before, so the break covers unmapped pages (`mm.c:203`, `mm.c:214`) |
| `ts` | every modelled unprefixed instruction, with reg fields 1 and 5 (a low and a high byte register), with and without a 66 prefix and with segment prefixes on the forms that are handled; taint on and off | `TaintPropagates` | pass |
| `fin` | `MC_FinishInstruction`: a signal at every item boundary of rep movs (ECX 0-3, taint code on and off, with and without a 66 prefix; no segment prefix, with which `taint_rep` copies the instruction as a single item, so no signal can fall inside it), cmov (either condition) and cmpxchg | `FinishCompletes`, `FinishReturns` | pass: from every interruption point the handler returns within its passes to an address from which the instruction completes exactly once; this also checks end to end that the entry `jit_fragment` returns is the interrupted item's translation |
| `ts_seg_modrm` | `mov r,fs:[m]`, `movzx r,byte fs:[m]`, `xchg fs:[m],cl` | `TaintSound` | violated: the erase hits the register in the opcode's low bits (`jit_code.c:1012`); the destination keeps stale taint and an unrelated register loses its taint |

### Further disagreements, kept as hazards
Each of these was found by TLC on a small instance. They are listed in
`PROJECT.json` as hazards whose note gives the instance, and each can be
reproduced by editing the named cfg:

| code | instance | property violated | what happens |
|---|---|---|---|
| `mm.c:137` | `mm_lock.cfg` with `MremapFlags = {0, 1}` | `NoUserInShadow` | a moving mremap vacates old shadow pages without `map_lock`, and a concurrent mmap is handed them |
| `mm.c:139` | `mm_lock.cfg` with `AllowShrink = TRUE` | `MapLockExclusive` | an in-place shrink unlocks `map_lock`, which another thread holds |
| `mm.c:155` | 1 thread, mmap and mremap, `Lens <- MC_ULens` | `NoDie` | a size that is not a page multiple makes the shadow unmap fail, and minemu dies |
| `mm.c:285` | 1 thread, mmap and mprotect, `MappedOnlyRanges = FALSE` | `ShadowMirror` | mprotect over a hole changes the shadow past the hole |
| `mm.c:97`, `mm.c:116`, `mm.c:146` | 2 threads, fixed mmap, mprotect and mremap of page 0 (`Addrs <- MC_Addr0`) | `CodeMapExact` | a code-map update after the kernel call overwrites a concurrent mprotect's update, so a writable page stays in the code map |
| `mm.c:303` | 1 thread, fixed RW mmap, `madvise(DONTNEED)` and stores, `MappedOnlyRanges = FALSE` | `ShadowTaintMirror` | madvise over a gap zeroes the user pages, fails with ENOMEM and leaves their taint |
| `mm.c:306` | 2 threads, fixed RW mmap, `madvise(DONTNEED)` and stores, `MaxCalls = 2` | `ShadowTaintMirror` | a store between the user and the shadow madvise loses its taint |
| `jit_code.c:404` | `cf.cfg` with `Instrs <- MC_Jump16` | `ControlTranslated` | rel16 is not sign-extended |
| `jit_code.c:146` | `ts.cfg` with `Instrs <- MC_SegMoffs` | `TaintPropagates` | `mov eax,fs:moffs32` erases only AL |
| `jit_code.c:177` | `ts.cfg` with `Instrs <- MC_Movzx16` | `TaintPropagates` | the `.f16` slot of movzx ORs instead of copying |
| `jit_code.c:996` | `ts.cfg` with `Instrs <- MC_SegPush` | `TaintPropagates` | `push fs:[m]` has no mapping entry and is not instrumented |

`jit_fragment_jcc_exit` emits its inverted jcc with an 8-bit skip of 9
(`jit_fragment.c:56`), but the exit sequence it must skip is 16 bytes long.
The not-taken path lands inside the `movl` immediate. TLC showed this on a
slice `<<C(3), jcc out of the slice, C(3)>>`. No generator of `jit_code.c`
emits a jcc that leaves an op after other code, so `frag` does not reach it.
It is kept as a hazard.

`taint_rep` also copies an address-size prefix onto the string op
(`jit_code.c:973`). That op then counts with CX, but the `jecxz` and
`loop` around it use ECX. The two disagree only when ECX is 65536 or more,
which is beyond `Exec`'s bounds. It is listed as a hazard with no run.

### Configuration choices
- `MmapFails = {FALSE, TRUE}` lets the kernel refuse a user mmap with
  `ENOMEM`, as RLIMIT_AS, RLIMIT_DATA or overcommit do (`mm_lock`,
  `mm_brk_enomem`). `LinuxVM`'s `PageAligned` is false for a negative value:
  an `-errno` return is never a page-aligned address, which is what
  `user_mmap`'s `!(ret & PG_MASK)` test (`mm.c:255`) relies on.
- `HeapLeftToBrk = TRUE` in `mm_seq` keeps munmap and mremap off the heap
  pages. Otherwise a program that unmaps its own heap breaks
  `BrkHeapMapped` trivially.
- In `mm_lock`, `MAP_FIXED` mmap is off (`MapFixedChoices = {FALSE}`). A
  fixed mmap onto the range an mremap grows into makes the shadow mremap
  fail, and minemu dies. That is a real hazard, listed under `NoDie`, but it
  is not the race `map_lock` addresses.
- `AllowShrink = FALSE` in `mm_lock` keeps the shrink-unlock bug (below)
  out of the lock run.
- `MappedOnlyRanges` confines mprotect to mapped ranges; mprotect
  over a hole is one of the disagreements below.
- `MC_ControlFlow` puts the instruction at 4200 in a map [4096, 4352) and
  picks operands that land before, inside, at both edges of and after the
  map. `MC_JitFragment` gives each slice a jump backward, forward, to the
  end and beyond, so both passes and every branch of
  `jit_fragment_control` are used. The translators are sequential;
  `Done`/`Translated` stutter at the end, and the runs check deadlock.
- `MC_TaintSelect` uses ModRM reg fields 1 and 5, so a byte operand is once
  a low register (CL) and once a high one (CH), and a dword operand is once a
  register whose number is also an opcode's low bits. The opcode-register
  forms use registers 0, 3, 1 and 5 for the same reason. Each instruction is
  one behaviour (`translate`, `execute`, `done`), so the state count is the
  number of instructions times the taint flags.

### Fairness
Each thread is weakly fair on its own steps (`WF_vars(Step(t))`). The code
justifies this: every step is a system call or an uncontended lock operation,
which the kernel completes. `LockWait` is a stutter step. A thread that waits
for a lock nobody releases is therefore not forced forward, and `CallsReturn`
reports the wait.

In `FinishInstruction`, `FinishPass`, `Jit` and `Run` are weakly fair.
The handler runs with signals blocked, and the thread does nothing else
until it returns. `CpuStep` and `Signal` are not fair, so a behaviour may
stop before any signal. For `Jit` and `Run`, the weak fairness is written in
its defining form (`[]<>~JitCanStep \/ []<><<Jit>>_vars`). The enabling
condition is a state predicate: a live thread in that phase always has such
a step. Without this, TLC would search the translator and the fragment on
every transition to evaluate ENABLED.

## 4. Not modelled
- Page contents beyond "reads as zeros or not": the memory manager only
  moves, keeps or zero-fills contents, so which bytes hold taint does not
  matter to it.
- Advice values other than `MADV_DONTNEED` and `0`. `MADV_REMOVE` and
  `MADV_FREE` also drop contents, but `user_madvise` mirrors only
  `MADV_DONTNEED`.
- `set_brk_min` and `do_mmap`: the ELF loader calls them once, before any
  thread runs. `BrkMin` stands for their result.
- `shmat`: 32-bit only. It parses `/proc/self/maps`.
- File-backed mappings, `fstat` and the inode data kept in the code map.
- Signal blocking around system calls.
- In `finish_instruction`: `jit_fragment_restartsys` is set only by runtime
  assembly that is not in the repository, so it stays 0 and the `-2`
  adjustment is never taken. The syscall critical section and the cache
  resolution code are branches of `FinishPass`, but no modelled op reaches
  them. `protect_ctx`/`unprotect_ctx`, the `runtime_ijmp_addr` and
  `jit_return_addr` swaps and the XMM restore change nothing a property
  reads.
- The taint selection of xor, lea, pusha/popa/enter/leave and string-to-string
  actions, what the cmov and cmpxchg fix-ups do to taint, and the jump cache, which follow in the plan above. Segment-prefixed
  `push r`, `push imm` and `pop r` share the fallback of `push fs:[m]` and are
  listed as a hazard, but have no run of their own.
- The instruction decoder `read_op` (outside `src/`): slices are given as
  decoded instructions.
- Segment setup (`segments.c`), which runs at startup only. `init_tls` is
  one `arch_prctl` call. `init_shield` returns before its body
  (`segments.c:128`), so `create_segment` is never reached.
