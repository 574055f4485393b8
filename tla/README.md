# Hyparm: a verification development

Hyparm is a hypervisor for the ARM Cortex-A8 (the BeagleBoard).  It runs one
guest operating system in user mode.  Code the guest runs in its own privileged
modes is translated block by block: harmless instructions are copied into a code
cache, the instruction that ends a block is replaced by a hypercall, and a
hypercall that was a branch is later patched into a direct branch to the next
block.  Code the guest runs in user mode runs in place.  Memory is virtualised
with two shadow page tables, interrupts and devices by emulation.

This directory holds TLA+ models of that program, TLC configurations that check
them on small guests, and TLAPS proofs for every guest.

## Inventory

| component | files | state | operations | hard behaviour |
|---|---|---|---|---|
| translation store | `guestManager/basicBlockStore.c`, `translationStore.c` | 64K slots, the code pool, its free pointer, one bit per guest page | find a slot, append a word, clear by address, by range, all | the pool wraps in the middle of a block; probing without wrap; page bits that are lost |
| scanner, linker, translator | `instructionEmu/scanner.c`, `blockLinker.c`, `translator/translator.c` | none of their own | translate, link, unlink, map a host address back | links outlive what they point to; two hypercalls of a conditional branch |
| exception handlers | `exceptions/exceptionHandlers.c` | `lastEntryBlockIndex`, R15 | hypercall, timer, serial port, data and prefetch aborts | an interrupt between any two guest instructions |
| guest exceptions | `guestManager/guestExceptions.c`, `guestContext.c` | guest CPSR, SPSRs, pending flags | throw, deliver | deferred delivery; which exception first |
| loads and stores | `loadStoreDecode.c`, `interpreter/arm/storeInstructions.c` | guest memory | emulate a faulting access | self-modifying code |
| interpreter | `instructionEmu/interpreter/` | guest registers | one handler per replaced instruction | CPSR writes that unmask interrupts; banks and vectors that must change together |
| PC handlers | `translator/arm/pcHandlers.c`, `translator/blockCopy.c` | none | plant words for an instruction that uses the PC | scratch registers; aborts and interrupts between the words |
| context switch | `exceptions/*Vector.S.inc` | the saved registers | save on entry, restore on return | one set of vectors per guest mode |
| memory manager | `memoryManager/` | shadow tables, page table metadata | map on demand, unmap, protect, switch tables | protection lost on remapping; stale translations after a table switch |
| interrupt controller | `vm/omap35xx/intc.c`, `guestManager/scheduler.c` | raw, mask and pending bits, three banks | raise, clear, mask, unmask, wait | lost and phantom interrupts |
| timers, serial port, storage, DMA | `vm/omap35xx/` | device registers and queues | register reads and writes, input | interrupt conditions, queue limits |
| register files | `vm/omap35xx/clockManager.c`, `sysControlModule.c`, ... | registers | read, write | none |
| decoder | `instructionEmu/decoder/` | none | classify an instruction | generated |
| memory allocators | `common/memoryAllocator/` | the pool: blocks, free lists, bitmaps (TLSF); where the rest of the pool begins (naive) | allocate, align, grow, free | long sequences of splits and merges |
| boot, drivers, command line | `guestBoot/`, `drivers/`, `io/`, `cli/` | set up once | | sequential |

How they meet.  The guest leaves its code by a hypercall, an abort or an
interrupt; the vector saves its registers and calls a C handler.  A hypercall
number is a slot of the block store; the slot gives the guest instruction and the
interpreter's handler for it; the handler gives the next guest address; the
linker may patch the word just executed; the scanner finds or makes the block of
the next address and R15 is set to it.  A store to a translated page faults,
because the scanner write protected it, and the emulation clears translations
before it writes.  The timer interrupt raises a line of the emulated interrupt
controller, marks the interrupt as pending and unlinks the running block, so that
the guest comes to a hypercall, where pending interrupts are delivered.

What makes each component correct:

- translation store: a live block is the translation of what memory holds now,
  and is guarded against a change; blocks do not overlap; the words a function
  writes lie in the block it means;
- linker: a patched branch goes where the guest would have gone; a block with a
  branch is marked as a group, because the clearing functions unlink groups only;
- exception handlers: the guest cannot tell it is not on the machine; a deferred
  interrupt is delivered in the end; the address a guest handler is given is the
  address of the instruction concerned;
- registers: every instruction does what the processor would have done, whatever
  was planted or interpreted for it; nothing writes the bank of another mode;
- memory manager: no shadow entry lets the guest write what is protected;
- interrupt controller: a raised, unmasked interrupt stays pending until it is
  cleared or masked, and a masked one is not seen;
- allocators: memory in use overlaps nothing, and what is given back is whole again.

## Modules

| module | what it is | code |
|---|---|---|
| `TranslationStore` | the store as a record, each C function as an operator from store to store | `basicBlockStore.c`, `translationStore.c`, `scanner.c`, `blockLinker.c`, `translator.c` |
| `BlockExecution` | the guest and the handlers: state machine and properties | `exceptionHandlers.c`, `guestExceptions.c`, `loadStoreDecode.c` and the interpreter's handlers |
| `GuestMachine` | abstract: the machine the guest believes in, one instruction at a time, no blocks | the promise, not the code |
| `MCBlockExecution` | small guests for TLC | |
| `TranslationStoreProofs` | what each store function preserves | |
| `BlockExecutionProofs` | the inductive invariant and the theorems | |
| `BlockFaithfulProofs` | extends them with what guest memory holds: translations are faithful and guarded, block execution implements `GuestMachine`, the hypervisor survives | |
| `MCBlockFaithful` | the same guests, and that they keep the hypotheses of those proofs | |
| `InterruptController` | the guest's interrupt controller as a record, each C function as an operator | `vm/omap35xx/intc.c` |
| `SerialPort` | the guest's serial port as a record, each C function as an operator to the port and the signal it sends | `vm/omap35xx/uart.c` |
| `GuestInterrupts` | composes the two with the timer, the latch, CPSR.I and the wait: state machine and properties | `guestExceptions.c`, `scheduler.c`, `interpreter/common.c`, `irq` and `irqPrivileged` |
| `SerialChannel` | abstract: a bounded queue of bytes | the promise, not the code |
| `GuestInterruptsProofs` | its invariants and the refinement of `SerialChannel` | |
| `GuestMmu` | abstract: the memory management unit the guest believes in, its own tables walked at every access, no shadow tables | the promise, not the code |
| `ShadowTables` | extends it with the memory manager: state machine and properties | `memoryManager/`, the fault handlers, the store to memory, the table registers of `cp15coproc.c` |
| `MCShadowTables` | two guests for TLC | |
| `ShadowTablesProofs` | its type correctness and the protection of page tables | |
| `ShadowAgreementProofs` | extends that with the agreement of shadow tables and the guest's, and the refinement | |
| `ArmInstructions` | the processor: what the instructions of the models do to registers, flag and memory | external |
| `ArmMachine` | abstract: the registers the guest believes in, banks, status registers, precise exceptions | the promise, not the code |
| `GuestRegisters` | the guest's registers in the processor and in its context: state machine and properties | `blockCopy.c`, `pcHandlers.c`, `scanner.c`, `interpreter/arm/`, `interpreter/common.c`, `guestExceptions.c`, `exceptions/*Vector.S.inc` |
| `MCGuestRegisters` | kernels for TLC | |
| `GuestRegistersProofs` | vectors, banks, types, what is planted for an operand PC, and the refinement of `ArmMachine` | |
| `Allocator` | abstract: live pointers that lie in the pool, are aligned and do not overlap | the promise, not the code |
| `Tlsf` | the two level segregated fit allocator: each C function as an operator on the heap, the four calls as actions | `tlsf.c`, `tlsf.h` |
| `NaiveAllocator` | the allocator that never takes back, the default | `naive.c` |
| `Allocators` | a build with one or the other, and the refinement of `Allocator` by both | the choice "Memory allocator" of `kconfig.data` |
| `AllocatorsProofs` | the refinement by both, and the invariants of the TLSF heap | |

Three state machines, three views of one guest.  `GuestRegisters` keeps what
`BlockExecution` leaves out, registers and status, and leaves out what that keeps,
links and changing code.  `BlockExecution` is about where
the guest is when an interrupt comes and sees of the controller one bit, `line`;
`GuestInterrupts` is about what becomes of the interrupt and sees of the guest
its device accesses and hypercalls.  `line` of the one is `IsIrqPending(intc)` of
the other, `irqPending` is `latched`, and the end of a hypercall is in both the
same four lines of `softwareInterrupt`.

State of `BlockExecution` against the code:

| variable | code |
|---|---|
| `mem` | guest memory as the guest maps it, one instruction name per word |
| `ts.blocks` | `basicBlockStore[]`; a zeroed slot is `NullBlock` |
| `ts.code`, `ts.free` | the pool from `RAM_CODE_CACHE_POOL_BEGIN`, `codeStoreFreePtr` |
| `ts.exec` | the pages whose bit of `execBitmap` is set |
| `ts.wprot` | the pages `guestWriteProtect` made read-only |
| `pc` | R15: a pool address in privileged mode, a guest address in user mode |
| `entry` | `lastEntryBlockIndex` |
| `line` | `isIrqPending(irqController)` |
| `irqPending` | `guestIrqPending` |
| `iBit`, `lr`, `spsr` | CPSR.I; the link register and saved I bit of the last exception |
| `died` | which unrecoverable path the hypervisor took |

One action is one word executed by the guest with the handler it traps to.
Handlers begin with `disableInterrupts`, so nothing comes between; interrupts are
actions of their own between words.  Registers and memory contents other than
code are not kept: a conditional branch goes either way, a store writes any of
the configured words, `cps` sets the mask to either value.

State of `GuestInterrupts` against the code:

| variable | code |
|---|---|
| `intc.itr`, `.mir`, `.pending` | `intcItr0..2`, `intcMir0..2`, `intcPendingIrq0..2` as sets of interrupt numbers |
| `uart.ptr`, `.fifo`, `.rhr` | `rxFifoPtr` (an unsigned word, here of `PtrMod` values), `rxFifo`, `rhr` |
| `uart.data`, `.overrun` | bits `RX_FIFO_E` and `RX_OE` of `lsr` |
| `uart.ier`, `.iir` | the enables, and the cause `iir` names, none when its pending bit is set |
| `uart.fifoOn`, `.loopback` | FCR.FIFO_EN; `loopback` |
| `latched`, `iBit` | `guestIrqPending`, CPSR.I |
| `idle` | the guest is in `guestIdle` |
| `timerOn` | the board's own mask of the timer, which MIR_CLEAR1 and MIR_SET1 pass on |
| `sent`, `out` | numbers the bytes of the line; what the last read of RHR returned |

An action is one device access of the guest, one hypercall, or one interrupt of
the board; accesses trap with interrupts off, and interrupts come between them or
inside `guestIdle`, which enables interrupts.  The guest is any driver within the
constants `IerValues`, `FifoValues` and `LoopValues`.  When `Careful` is TRUE no byte
comes while it has the FIFO off and it uses loopback with receive interrupts off.

State of `ShadowTables` against the code:

| variable | code |
|---|---|
| `first`, `second` | the guest's own tables in its memory, an entry as what it says |
| `ttbr`, `dacr`, `enabled`, `privileged` | the guest's TTBR0, DACR, SCTLR.M, and whether CPSR.M is not user mode |
| `guestPhysical`, `mm.guestVirtual` | the same of `pageTablesVM`: where the guest's table is, and where it was last seen mapped |
| `mm.user`, `mm.priv` | `shadowUser`, `shadowPriv` of `pageTablesVM` |
| `mm.gptInfo` | the list of `pageTableInfo.c`, oldest first |
| `mm.blocks` | the translated blocks, a page of the guest with the frame its code came from |
| `mm.alive` | no `DIE_NOW` was reached |

An action is one access of the guest that faults or goes through, with the whole of
its handler, or one write of a control register.  `enabled = FALSE` stands for the
tables the hypervisor runs on while the guest's unit is off, where every store of
the guest is emulated.

State of `GuestRegisters` against the code:

| variable | code |
|---|---|
| `core` | the processor's registers as the guest uses them, its Z flag, the spare thread register of CP15, memory |
| `gc.low`, `.bank` | `R0..R12`; `R13` and `R14` and those with the suffix of a mode |
| `gc.cpsr`, `.spsr` | `CPSR`, `SPSR_SVC` and the others |
| `gc.r15`, `.irqPending` | `R15` while the hypervisor runs; `guestIrqPending` |
| `gc.vector` | the guest mode whose vectors VBAR points to (`setExceptionVector`) |
| `host` | where R15 is: a word of a block, or a guest address in user mode |
| `line` | `isIrqPending(irqController)` |
| `mmu` | `virtAddrEnabled`, which decides where a register is spilled |
| `program` | the guest's code |
| `seen` | history: the guest's machine after its last whole instruction |

An action is one word: planted, copied, or run in place; or a hypercall, an emulated
store, a service call, an abort or an interrupt, each with the whole handler and the
way in and out.  `core` and the registers of `gc` are different things on purpose: a
vector that saved into the wrong bank would part them.

State of the allocators against the code:

| variable | code |
|---|---|
| `heap.blocks` | the headers in the pool, by the pointer that stands for each: `size` with its two flags, `previousPhysicalBlock`, `nextFree` |
| `heap.head`, `.fl`, `.sl` | `blocks`, and the set bits of `flBitmap` and `slBitmap` |
| `heap.failed`, `heap.harmed` | an `ASSERT` did not hold; a step left lists or flags wrong (see below) |
| `poolStart` | the same of `naive.c` |
| `live` | the clients' pointers, with what they asked for |

Abstractions, and why they lose nothing the properties speak of:

- an instruction is a name, and `Decode` says what kind it is.  A patched
  instruction is one word of the pool, so block lengths differ from the code's
  but every length occurs;
- the five pool-pointer increments per word and the flag `write` become the
  length of the block, and the copying of a block to the front of the pool the
  two places its words end up in;
- `Null` stands for zero; guest address 0 is an ordinary address in the model;
- when `unlinkBlock` believes a block of one word at the start of the pool to
  have two hypercalls it writes a word before the pool; the model drops that
  write;
- page tables are one image of memory: an edit of the guest's table changes what
  some words read as.  Which shadow table is active is not kept; that is in
  `ShadowTables`.
- a controller register is the set of interrupts of the model whose bits are set;
  stores to MIR_SET and MIR_CLEAR name any of those of a bank.  The order in which
  `prioritySortIrqs` reports pending interrupts changes no state and is left out;
- the serial port is in its operational mode; divisor latch, modem and flow control
  registers are written and read back.  The transmit FIFO is always empty, as in
  the code;
- a page table entry is what it says (a section, a table, a small page, with base,
  permissions and domain); only the user half of a shadow permission matters, as the
  guest always runs in the processor's user mode.  The attributes for caches are left
  out.  A megabyte has two pages, memory two or three megabytes;
- addresses count words, so that PC + 8 is + 2; a condition is "always" or "equal",
  Z the only flag; ALU instructions are an addition, a move, a complement and a test;
  `stm` is STMDB with write-back and `ldm` LDMIA with write-back, the forms the
  translator plants or patches.  `ArmInstructions` gives them the processor's meaning,
  once for the words the translator plants and once for the guest's own instruction;
- the guest of `GuestRegisters` acknowledges its interrupt in its handler, and stops
  when it leaves its code or data.  Two things are left open by its contract: the word
  below the stack pointer, where the translator spills, and the destination of a
  load that aborts;
- a client's memory is not kept, but that it overwrites `nextFree` and the next block's
  `previousPhysicalBlock`, which lie in it.  The back links of the free lists are
  only read by assertions, and are left out.

## Hazards and what covers them

`PROJECT.json` lists them at their lines.  The properties, in `BlockExecution`:

- `BlockFaithful`, `CodeIsGuarded`: no stale code, now or after the next store;
- `LinkedIsGroup`, `HypercallCountKept`, `PoolInv`: the bookkeeping that
  unlinking and clearing rely on;
- `PendingComesBack` and the liveness `InterruptNotDeferredForever`: deferred
  interrupts;
- `AbortIsPrecise`: host addresses are mapped back to the right instruction;
- `HypervisorSurvives`: no dead slot, table end or foreign address is followed;
- `RangeNeverCached`: the early return of the range clear is right;
- `ImplementsGuestMachine`: refinement of `GuestMachine`, where the host address
  R15 stands for the guest address of the instruction it translates.

and in `GuestInterrupts`:

- `OwedIsLatched`: controller, latch and CPSR.I never disagree in a way that leaves
  an interrupt undelivered while the guest has interrupts on;
- `PendingEndsWait`: a waiting guest wakes, also with interrupts off, when nothing
  is latched;
- `ReceiveInterruptHeld`: a byte that waits with its interrupt enabled keeps it;
- `FifoInv`, `ImplementsSerialChannel`: the FIFO is a queue;
- `MaskingKeepsOthers`: what the code breaks.

and in `ShadowTables`:

- `TablesProtected`: a table of the guest in use is not writable at any address of
  either shadow table, so every edit of it is seen;
- `ShadowAgrees`, `ImplementsGuestMmu`: the shadow tables are what the guest's tables
  say, and the guest cannot tell that it does not run on its own;
- `CodeFollowsTable`, `CodeWriteProtected`: what `BlockExecution` takes for granted of
  page tables, translations end with the mapping and stores to them fault;
- `DevicesTrapped`: no device is reached past its emulation;
of the registers, in `GuestRegisters`:

- `ImplementsArmMachine`: what the guest computes, with every instruction planted for and
  interrupted anywhere;
- `VectorFollowsMode`, `BanksKept`: mode, vectors and banks move together, through every
  handler that changes one of them;

and of the allocators:

- `PhysicallySound`, `ListsSound`: the two walks of `tlsfCheckHeapIntegrity`, which the
  code never calls, and more;
- `TlsfNothingLost`: the pool is whole again when everything is given back;
- `GoodFit`: the search finds a block if one of a sufficient class is free, and of
  the smallest such class;
- `ImplementsAllocator`: the promise to the clients.

## Runs

Passing:

| run | guest | what it shows |
|---|---|---|
| `ts_linking` | two loops through a fork, an interrupt handler, timer at every word | linking, unlinking and delivery agree; with fairness the interrupt is not deferred for ever; refinement |
| `ts_selfmod` | a page of code that patches two words of another, pool of a few blocks | no stale translation through clears, links and wraps of the pool |
| `ts_remap` | page table edits and MMU switches under linked blocks | range and whole clears leave nothing behind |
| `ts_user` | kernel and user program, aborts, service calls | aborts are precise through links; refinement |
| `ts_hostile` | a guest that patches its own block, overruns the table, is interrupted in user mode | the inductive invariant and the block properties hold up to every death of the hypervisor |
| `irq_serial` | any careful driver, the timer, three bytes on the line, a FIFO of two, one more device | an interrupt is latched or waited for; the receive interrupt is held; the port is a queue |
| `mm_switch` | two address spaces, a second level table, an alias of the kernel's memory with its tables, a device, the hypervisor's own memory; modes, bases, domains and the MMU change | the shadow tables follow, tables are protected, no device is open; refinement |
| `mm_code` | kernel code that moves between megabytes and runs over pages, beside user pages and pages of the hypervisor | translations end with their mapping and are never writable |
| `regs` | about 170 kernels: one instruction with the PC in every place it may have, conditional or not, before one that ends a block; handlers, a user program, a page mapped or not; spilling either way | the guest's registers, banks, status and memory are the processor's; refinement |
| `heap` | clients of either allocator: three sizes, two alignments, every order | memory never overlaps; lists, bitmaps and flags agree; good fit; refinement |

`ts_hostile` switches deadlock checking off: the hypervisor may die, and that is
the end of the behaviour.  `irq_serial` does too: a guest that waits with the timer
masked and a silent line waits for ever, in the code as in the model.  So do the
`mm_` runs: many a guest action ends the hypervisor.

Violations, each a disagreement of the code with a comment in it, with the
quotation in `PROJECT.json`:

| run | what happens |
|---|---|
| `bug_abort_cleared` | after a clear, an abort in a linked block is mapped through another block |
| `bug_masking_loses` | banks 1 and 2 never record the raw signal, so masking one interrupt forgets the others |

The code has these flaws, and more of the kind that were met while modelling and
have no run of their own.  Of translated code:

- `setExecBitmap` reads the wrong byte of the bitmap for the last page of a block;
- a block whose index word is the one that reaches the pool's end moves to the
  front without its `oneHypercall` (`addInstructionToBlock`);
- a two-word store clears the translations of one word (`loadStoreDecode.c:218`), and
  the unprivileged stores (`armStrtImmInstruction` and its kin) clear nothing;
- a probe sequence runs off the block table (`getBasicBlock`);
- a range clear overlooks a block on a page in the middle of its range;
- a timer interrupt in user mode looks for a block index in user memory;
- `dabtPermissionFault` gives the guest a host address as the address of the abort;
- a store into the running block empties the slot that block's hypercall names;

of interrupts:

- a serial interrupt does not unlink the running loop, as the timer's does;
- disabling the transmit interrupt lowers the line although a byte waits with the
  receive interrupt enabled;
- a byte read with the FIFO off takes the FIFO pointer below zero;
- a byte written in loopback mode is received without the receive interrupt;
- `isGuestIrqMasked` finds only the first interrupt of a bank masked, so a masked
  interrupt becomes pending, wakes a waiting guest and may be delivered;
- an interrupt of the first bank (the four of DMA) that was raised, masked and
  unmasked becomes pending again at the next MIR_SET store of the bank, unlatched;

of memory:

- a domain that goes from manager to client keeps the permissions it had
  (`changeGuestDACR`), and the permission of architecture version 5 that is deprecated
  is mapped as readable and writable by privileged code;
- only word stores to a page table are compared with its place (`storeSdram`), so a
  halfword or byte store changes an entry behind the shadow tables;
- a range of code that crosses a megabyte is protected through the first level entry of
  its start, also for the pages behind it (`writeProtectRange`);
- a megabyte that holds pages of the hypervisor is passed over when a table comes into
  use (`shadowMapPageTable`), so a table mapped there stays writable;
- when a megabyte's permissions are edited, the protection of code in it is not put
  back, only that of tables (`mapAPBitsSection`);
- a new table base empties the shadow tables and with them the protection of code,
  and keeps every translation (`setPageTableBase`);
- a device mapped by a section gets the guest's own permissions at the first edit of
  them, and one mapped by small pages from the start;
- a second level table used in both modes is recorded twice and removed once, or not at
  all, as `removePageTableInfo` compares a virtual with a physical address
  (`pageTableInfo.c:115`); the stale record is found at a later edit and unmaps pages of
  another megabyte, or a page of a section that came after the table; mapping that page
  again maps the section anew and ends the protection of the code in it;

of instructions that use the PC:

- a test of the PC (TST, TEQ, CMP, CMN with an immediate) finds the table entry of the
  instructions with a destination (`tables.inc.c:96`), one line before its own, and
  register 0 becomes the PC; the test `tst-pc-immediate.sx` says "make sure its contents
  are still valid after the TST";
- the same entry takes MOVW and MOVT whose constant has an F at
  its top for readers of the PC, and replaces their constant;
- `armLdrPCReg` restores register 0 also when it has not saved it;
- STR of the PC with the stack pointer as base goes one word too low if the scratch
  register was pushed; so does any abort in a sequence that has pushed: the
  instruction starts again with the stack moved and the scratch register lost;
- STM with the PC works only in the form `armStmPC` knows, RRX is taken for a move, and
  halfword, register and unprivileged forms stop the hypervisor;

of status registers and the interpreter:

- a write of some bytes of CPSR or SPSR zeroes the others (`common.c:104`), so that one
  of the flags alone sets the mode to zero;
- a pending interrupt hides the data abort of an unprivileged access until the interrupt
  is delivered;
- LDRD loads its second word into the first register again, LDRHT loads a byte, STREXD
  stores its words swapped; a return by SUBS stops the hypervisor, and the LDM and STM of
  user registers write the mode without its vectors;
- vectors of some modes (undefined instructions, prefetch aborts of privileged code) are
  endless loops, and loads of the interpreter from a page not mapped fault in the
  hypervisor;

and of the TLSF allocator, found by the run `heap` with `Careful` off:

- `removeFreeBlock` takes a block off its list only if it is the head
  (`tlsf.c:396`, "Remove a free block from the free list."); a neighbour that is
  merged from the middle of a list stays on it, and the list leads into the middle
  of another block (`ListsSound` breaks);
- `trimUsedBlock` marks what it splits off as following a free block, and the next
  merge follows a pointer that the client has overwritten (`PhysicallySound` breaks);
- a request near 2^30 is rounded up to a class past the last one (the model's clients
  ask for at most `MaxRequest`, more than the board has memory); `memalign` of no bytes
  splits off a block of no bytes.

`naive.c`'s `realloc` copies to address 0 when the pool is exhausted (`wild` in the
model); nobody in the sources calls it.

So the other passing runs keep to guests that do not meet them: blocks of an even
number of words and a pool of an odd number, so that no block ends exactly at the
pool's end; blocks within one page; stores that clear every word they write, or
write one; no store into the running block.  All but the first two restrictions
are lifted in `ts_hostile`.  `irq_serial` has no device of the first bank, a
careful driver that leaves the transmit interrupt off, and does not check
`MaskingKeepsOthers`.  The guests of the `mm_` runs write tables by words, do not use
manager domains or the deprecated permission, keep their permissions when they edit a
section, and in `mm_code` write read-only what they run over a megabyte and set their
table base once, before the MMU is on.  The kernels of `regs` do not test the PC, write
all bytes of a status register, load through the PC by register only into the offset
register, and do not make a spilled or patched sequence abort.  The clients of `heap`
(`Careful`) only take steps that do not harm.  All the same three free blocks of one class occur at once, free
blocks of different sizes in one class, and a `realloc` that grows in place or moves.

Bounds.  A dozen guest words on three or four pages, five to sixteen slots, a
pool of a few blocks: enough for a collision, a chain of three links, a fork, and
several wraps of the pool.  The pool wraps within the reach of every run that
checks store properties.  State spaces are explored completely; nothing is cut
off by a state constraint.  In `irq_serial` the FIFO holds two bytes and three come:
it is empty, partly full, full and overrun, and a pointer of eight values would show
a wrap.  The timer and the serial port are on different banks, as on the board, and
the third device (I2C) shares the timer's.  In the `mm_` runs two frames hold first
level tables or one and code, one frame second level tables, one data; three virtual
megabytes allow a table, an alias of it and the megabyte of the kernel.  `MaxCopies` = 2
records of a table at a megabyte is what both shadow tables can add; `StoreSizes` and
`Guest` say what the guest may do and are the restrictions above.  In `regs` a word has
six bits, three of a halfword, so that what MOVT writes is never all of it and addresses
carry between the halves; three low registers are what spilling chooses from;
every block of a kernel has at most three instructions, and every one of the words
planted can be the one that is interrupted or aborts.  In `heap` the pool
of 112 bytes makes up to five blocks.  `SlLog2` is 2 instead of 5, which the source
allows ("Public constants: may be modified."), so that a small pool has sizes in the
first level's linear classes and beyond them.

Fairness.  `FairSpec` asks weak fairness of the guest's step: the processor goes
on executing.  Nothing is asked of interrupts.  In `GuestInterrupts` weak fairness is
asked of `Wake` alone: the loop of `guestIdle` looks at the controller again and
again, and nothing but masking or a reset, which a waiting guest cannot do, takes a
pending interrupt back.

## Proofs

`BlockExecutionProofs` proves, for every program, store size, pool size, page
size, set of stores, edits and interrupts allowed by the assumptions:

- `PoolInvariant`: `Spec => []PoolInv`;
- `TypeCorrect`: `Spec => []TypeOK`;
- `LinksAreInGroups`: `Spec => []LinkedIsGroup`;
- `PendingInterruptsComeBack`: without the serial interrupt,
  `Spec => []PendingComesBack`.

Assumptions: the sizes are positive (`SizesAssumption`), `Decode` is total
(`DecodeAssumption`), the pool is longer than the longest block
(`PoolAssumption`), and the guest's constants are guest addresses and images that
end with an instruction that leaves (`GuestAssumption`), so that scanning ends.

The argument.  `TypeOK` and `LinkedIsGroup` are not inductive: R15 walks
along the words of a block, and to know where the next word lies one must know
what a block looks like in the pool.  `PoolInv` adds that.  Live blocks are
disjoint; each is copied words, then one or two ways out that name its own slot
or branch to a live block, then its index (`WellFormed`).  R15 in privileged mode
is in a live block or, when a store or a page table edit has emptied the slot
of the running block, in what is left of it: copied words up to an unconditional
hypercall, all links gone (`Abandoned`).  The latter is why clearing
must unlink every group before it zeroes a slot.  An owed interrupt adds that
the running block is not a group (`PendingUnlinked`), which needs
`lastEntryBlockIndex` to be marked as a group whenever the running block is
(`InLiveBlock`).  `TranslationStoreProofs` shows what filling, linking, unlinking
and clearing do to `WellFormed`; `BlockExecutionProofs` has one lemma per action.

`BlockFaithfulProofs` goes on from there with what guest memory holds, for every guest
that `Behaves`:

- `TranslationsAreFaithful`: `BlockFaithful`, `TranslatedCodeIsGuarded`: `CodeIsGuarded`
  and `UntranslatedRangesAreSkipped`: `RangeNeverCached` are invariants of every behaviour
  of `Spec` in which `HypercallCountKept` is one;
- `HypercallsAreCounted`: `Spec => []HypercallCountKept` if the pool is never filled to
  its last word by a block of one hypercall (`Fills`);
- `AbortsArePrecise`: `AbortIsPrecise`, and `BlockExecutionImplementsMachine`:
  `ImplementsGuestMachine`, of every such behaviour, the latter if no probe runs off the
  block store, of guests that also are `Orderly`;
- `HypervisorSurvivesGuests`: `HypervisorSurvives`, of orderly guests whose blocks have
  distinct hashes (`HomesApart`), whose privileged code makes no service call and whose
  user code the timer does not interrupt (`Served`);
- `UndisplacedGuestsNeverNotice`: the refinement with nothing supposed of the behaviour,
  for guests of which all of this holds.

A hypothesis speaks of the images `M` guest memory can hold and of the addresses `E` at
which privileged code begins blocks.  `Behaves` says that stores, edits and switches
lead from images to images and branches, returns and exceptions from block starts
to block starts (`Images`, `Starts`: the definition of the two sets, rather than a
restriction), and of the restrictions listed under Runs those that matter here: a block
lies in a page (`OnePageEach`), a store clears each word it writes and an unprivileged one
writes no code (`StoresClear`), an edit is of at most two whole pages (`RemapsWhole`).
`MCBlockFaithful` computes the two sets for each of the five passing guests and the
checker finds that all of them behave, the hostile one too.  `Fills` holds for a
pool of an odd number of words and blocks of even numbers, as in `ts_selfmod`, where it
needs no knowledge of the order of blocks; that is why the first three theorems ask for
`[]HypercallCountKept`, which the runs check, and not for `Fills`.

`Orderly` is what the precision of aborts needs.  Code that loads or stores does not write
or remap the block it is in (`KeepsOffItself`): a store to the running block empties
it, and the guest goes on in what is left.  No access of a block may abort behind one
that clears translations (`AbortsFirst`): clearing unlinks all groups, and
`hostpcToGuestpc` then looks for the address in the block the guest entered and not
in the one it is in, which is what `bug_abort_cleared` shows.  And the guest handles no
permission faults, which are delivered with an address of the pool.  The checker
evaluates these hypotheses too, and finds that all passing guests but the hostile one
keep them.

`BlockFaithful` is not inductive: a block stays what memory holds only if whatever
changes memory finds it, so it must be guarded; `unlinkBlock` puts the right words back
only if it knows how many there are; and a return goes to the start of a block only if
the link register holds one, which after an abort needs that no slot that was emptied
still has words (`Emptied`).  `FaithfulInv` is these together with `PoolInv`.  Filling,
linking, unlinking and clearing have a lemma each about a store and an image, and each
action one that composes them; the wrap of the pool is the case of filling in which all
other blocks are gone.

The refinement maps the program counter to `GuestAddress`, which is defined only while
the guest is in a live block, so `Placed` goes beside `FaithfulInv`: it is in one, and
as long as it may still abort there, the block is the one it was entered at or
the one it was entered at is a group, whose owner is looked up.  `StandsFor` says what
each word of a live block stands for: a copied word its instruction, a hypercall or a
branch the last instruction.  Each action then has a lemma (`...Follows`) that it is
a step of the machine, or a stutter where a conditional hypercall falls through to the
second one.  For survival, `AtHome` says that every block is in the slot of its hash,
so that a probe never passes one, and `Placed` with `StandsFor` that the slot a hypercall
names is live.

`GuestInterruptsProofs` proves, for every FIFO size, set of interrupts, devices and
driver:

- `TypeCorrect`: `Spec => []TypeOK`, without further assumption: even the pointer
  that wraps stays a word;
- `FifoStaysWhole` and `ChannelImplemented`: for careful drivers, `Spec => []FifoInv`
  and `Spec => Channel!Spec`.  The queue is read off the record
  (`Queue`: the first `ptr` places of the FIFO); each function of the port has a lemma
  that says what it does to the queue (`PutAppends`, `ReadTakes`, ...), for which
  `FifoInv` is needed: the code looks at the status bit to decide whether there is
  a byte and returns the holding register, not the FIFO;
- `OwedInterruptsLatched`: with no device on the first bank,
  `Spec => []OwedIsLatched`.  The invariant adds that no raw signal is ever set, so
  that a store to a mask register never makes an interrupt pending;
- `ReceiveInterruptsHeld`: for careful drivers that never enable the transmit
  interrupt.  The invariant (`Held`) adds that and what `Careful` says of loopback.

`ShadowTablesProofs` proves, for every number of megabytes, pages and tables, all entries
a guest may write, and both shadow tables:

- `TypeCorrect`: `Spec => []TypeOK`, with no hypothesis but the types of the constants;
- `TablesStayProtected`: `Spec => []TablesProtected` if no megabyte holds pages of the
  hypervisor (`NoHostPages`), second level tables begin at pages (`TablesAtPageStart`),
  the megabytes that hold the guest's first level table stay mapped
  (`HomeStaysMapped`) and tables are written by words.  `TablesProtected` alone
  is not inductive: a small page that is mapped later is refused by comparing it
  with the records, a section by looking for the tables in it, so one must know
  that what is mapped follows the guest's tables (`Follows`), that records
  are there for every table in use, and that both modes' tables are protected together
  (`Protected`).  `Safe` is these together, and there is a lemma for each function.

`ShadowAgreementProofs` goes on from there, for guests that also are `Obedient`:

- `ShadowTablesAgree`: `Spec => []ShadowAgrees`;
- `DevicesStayTrapped`: `Spec => []DevicesTrapped`, if devices are mapped by sections
  that keep their permission (`DevicesKept`);
- `ShadowImplementsGuestMmu`: `Spec => ImplementsGuestMmu`, one lemma for each action;
- `CodeStaysMapped`: `Spec => []CodeFollowsTable`, for a guest that writes its table base
  with the unit off and translates nothing before it is on (`SettledGuest`);
- `CodeStaysProtected`: `Spec => []CodeWriteProtected`, for a guest that also keeps its code
  as `SealedCode` says: a page of code is mapped at one address, where user code cannot write
  it; a block that leaves its first megabyte goes on in pages nobody can write; a section
  with code keeps its permission while it is mapped; and a megabyte with code is mapped by
  sections only or by tables only.

`Obedient` is the hypotheses of `TablesStayProtected` and three more: a second level
table maps one megabyte (`OnePlace`), no domain is a manager's (`ClientOnly`), the
permission that is reserved is not used (`NoDeprecated`).  Each names a flaw listed above, and
both `mm_` guests but for the hypervisor's own megabyte satisfy them all.  `ShadowAgrees`
is not inductive, as it speaks only of what can be reached by the mode that runs.  The invariant
(`ShadowInv`) says of both modes' tables and all pages, reached or not, that what is mapped
is the guest's page and grants at most what the guest's entry permits (`Agree`), that
the shadow entry of a megabyte that is a table of the guest's is a table, and that there is
a record of it at that megabyte, by which an edit of the table finds every copy.
The handlers are compositions of the same dozen of operators
(`ShadowMap`, the edits of either level, write protection), so there is one lemma for
each operator, with a megabyte and a page as the units that change.  The refinement
follows from the invariant and `TablesProtected`: a store that goes through cannot
change a table behind the shadow tables, and one that faults is either what the guest's own
unit would refuse or emulated.  `CodeInv` adds that the pages of a block are mapped
in the privileged table to the frame the code was read from, and so is what every edit
must find and drop.

`CodeWriteProtected` has two halves.  In the user table no page of code is ever open,
because the guest's own entries never open it (`Agree`).  In the privileged table the guest
may write its code until it is scanned, so what counts is the history: `Sealed` says
that no page of a block is open there.  Every operator of the memory manager either only unmaps and
lowers pages of code (`Cuts`) or maps pages where nothing was (`Fills`), which `CodeInv`
says is not a page of a block.  For sections the latter needs that a megabyte that is never a
table is mapped as a whole or not at all (`WholeSections`), as a section is mapped
by one entry but unmapped, through a stale record, by the page.  Each of the five parts of
`SealedCode` is needed: with any one of them dropped TLC finds `CodeWriteProtected` violated in a
variant of the guest of `mm_code`, and that guest satisfies them all.

`GuestRegistersProofs` proves, for every program, word size and set of data
addresses:

- `VectorsFollow`: `Spec => []VectorFollowsMode`, and `BanksStay`: `Spec => BanksKept`.
  The invariant (`Sound`) is that the context has the shape of a context and that its
  vector is its mode's; each handler has a lemma that from such a context it gets to
  another and writes only the bank of its mode, and a delivery only the bank entered.
  `BanksStay` needs `VectorsFollow`: the vector of another mode saves into that mode's
  bank;
- `PCWritten` and `PatchFaithful`: for every address, register, condition and machine, the
  two planted words, each with one half of it, put the guest's PC into the register and
  change nothing else; and what is planted for an addition, move, complement or load that
  reads the PC leaves the registers, the flag and memory as the instruction does at its
  guest address.

- `TypesStay`: `Spec => []TypeOK`.  By itself `TypeOK` is not inductive: `ThisWord` is a word
  only if the guest is inside its block.  The invariant (`TypeInv`) adds that `host.off` is
  less than the number of the block's words when the guest is privileged and its block has
  an end (`AtWord`).  It stays so because the last word of every block is a hypercall that
  always traps (`BlockRuns`).  The words of a block are a recursive function (`Copied`), and
  what holds of all of them is proved by the least natural number without it
  (`CopyingIsDefined`, `CopiedRuns`, `CopiedGrows`, `CopiedStays`).  That all words can be
  executed (`Runnable`) needs that what is planted has the form the processor expects, halves of
  a word in MOVW and MOVT above all (`TranslatedRuns`, `HalvesRun`).  A word that faults is a copied
  one, so `hostpcToGuestpc` finds its instruction (`FaultFound`).

- `GuestsSeeTheirMachine`: `Spec /\ []TranslatesWell /\ AcksServed => ImplementsArmMachine`.  The
  words of a block, with what is spilled and planted among them, the handlers, and the
  exceptions delivered to the guest are steps of the processor it believes in, or stutters.

  The simulation (`Sim`, next to `TypeInv` and `Sound`) says that the context agrees with
  `seen` in mode, interrupt mask, saved status and all banks but the one in use, that a
  latched interrupt is still asserted, and where the guest is (`Position`).  In user code the
  processor is `seen`'s.  In a block either the first `j` words of the instruction at
  `seen.pc` have been executed from `seen`, and the processor is what they made of it
  (`Within`); or all instructions before the last are done and the words behind them leave
  everything but the link register alone (`Beyond`).  `seen` stays until the last
  word of an instruction and then makes the whole step.  So there are three parts.  `WordsSimulate`
  says, form by form (`PlainSimulated`, `ReadsSimulated`, `SpilledSimulated`, `StoreSimulated`,
  `StmSimulated`), that the words in order do what the instruction does, but perhaps for the word
  under the stack pointer, and that no word but the last can be noticed.  `WordStep`
  makes that a step of the system, and `InterpretedMachine` does the same for the instruction a
  hypercall replaces, banks, status registers and returns included.  The third part is
  the exceptions: an interrupt in the middle of an instruction, which is only latched; one at its
  end, delivered by the handler of the hypercall; one in user code; aborts; service
  calls.  The lemmas that end in `Sim` are one for each action of `Next`.

  The hypotheses are two.  `TranslatesWell` is about each instruction as it is reached in
  privileged code: its form is one the translator gets right (`Formed`), and there is
  room for what it spills (`Roomy`: the word under the stack pointer exists, is on a page that is
  mapped, and is neither a table nor what the instruction itself stores to).  A form left out
  is in the list of flaws above (tests of the PC, loads through the PC into another register
  than the index, the stack pointer in a load or store that has pushed a register, a write of
  some bytes of a status register), is one the architecture leaves unpredictable (the PC as an index or as the
  base of a block store), or is a computation into the PC from the PC, which the code gives
  to its interpreter and the model does not have.  `AcksServed` says that the guest ends an
  interrupt only when it has been delivered.  Otherwise the latch outlives the
  interrupt and the guest is interrupted for nothing (`PendingDelivered` looks at the latch
  and not at the controller).  The kernels of `regs` keep both, and all states of that run
  satisfy `Sim`: TLC was given the three as properties of the run before the proof.

  To prove it `ArmMachine` was changed in one place.  The first case of `After`, the
  condition that fails, overlapped with the others, and `CASE` chooses any that holds; it is now
  an `IF` around them.

The assumptions are the types of the constants (`CoreAssumption`) and the shape of the
instructions (`ProgramAssumption`): the masks of MSR name the control field, LDM has
a base other than the PC, and the LDM that returns from an exception loads the PC, as the
architecture defines them.

`AllocatorsProofs` proves, for every pool below 2^30 bytes, sizes up to `MaxRequest`, every
alignment from a word to 16 KB and every number of second level lists up to 32:

- `AllocatorsImplementAllocator`: `AllocSpec => ImplementsAllocator`, for a hypervisor
  built with `naive.c` or `tlsf.c` and clients that need not be `Careful`: the step in
  which a client harms the heap still keeps memory apart, and the model ends there;
- for careful clients (`Careful => (AllocSpec => []P)`), `HeapTypeOK`,
  `HeapStaysPhysicallySound` (`PhysicallySound`), `FreeListsStaySound` (`ListsSound`),
  `MemoryIsNeverLost` (`TlsfNothingLost`) and `RequestsFitWell` (`GoodFit`).

For `naive.c` the invariant (`NaiveInv`) says that what is held lies between the beginning
of the pool and `poolStart`, so that what is taken from `poolStart` on overlaps none of
it.  For `tlsf.c` it is `Whole`: the blocks lie behind one another from the first to the
sentinel (`Tiled`, which says so without walking: every block has a next one, every block
but the first is the next of one, and nothing lies inside a block); flags and links back
agree (`Flagged`); no two neighbours are free (`Coalesced`); and the free blocks are on the
lists of their classes (`Listed`).  That a list ends is said by a height for each block on
it, one less than that of the block before it; taking the head off a list or putting one on
leaves the other heights as they are, so no operation needs an induction over the list, and
only `WalkEnds` walks one.  In the middle of an operation a block is on no list, or is not yet
merged: `Whole(h, X, L)` leaves out the pairs that begin in `X` and the blocks in `L`,
and each function of `tlsf.c` has a lemma that says what it does to `X` and `L`
(`HeadRemoved`, `BlockInserted`, `FreeSplit`, `Absorbed`, `Trimmed`, ...), down to one for
each call of a client (`Allocated`, `AlignedAllocated`, `Freed`, `Reallocated`).  Their
common ground is two facts about tiled blocks: one cut in two is tiled (`CutTiles`), and so are
two joined (`JoinTiles`).  Good fit rests on the arithmetic of classes: every size has a
class (`EverySizeHasAClass`), in order of size (`ClassesAreMonotone`), all blocks of a class
the search may take are large enough (`SearchedClassesFit`) and no class it passes over has
only such blocks (`SkippedClassesDoNotFit`).  What these need of powers of two is
proved by the least number principle (`LeastNatural`), which the library has without an
operator as parameter.

The assumptions of these theorems are the negations of the flaws above: each is
needed, and a run or the list says why.

Model-checked only: `PendingEndsWait` and `InterruptNotDeferredForever`, because
liveness is outside the proof system.
Every other property that a passing run checks is stated by a theorem.

## What is left

1. Pending data aborts of the interpreter and the order in which the end of a hypercall
   looks at them and at the latch; writes of some bytes of a status register; interrupts
   that come between the end of `guestIdle` and the end of its hypercall; loopback with
   receive interrupts on.
2. DMA, I2C and card commands as devices of their own, with the interrupts they
   raise.  The default configuration has no card (`NO_MMC`).

## Not modelled

The decoder's graphs are generated, and so are the parsers of `scripts/kconfig`, which run
at build time; `dlmalloc` is third-party code of six thousand lines; the register
files of the SoC (clocks, power, pads: ten thousand lines) are one case per register
that is written and read back, with nothing to interact.  These are most of the
lines of the repository, and a model of them would be a list.  File system,
board drivers, boot and command line run before the guest or beside it; the
bookkeeping of allocations is a debugging aid (its `checkedRealloc` removes an entry
twice and would stop the hypervisor, were it called).  Thumb code cannot be scanned by
this version of the program.
