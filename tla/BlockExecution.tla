--------------------------- MODULE BlockExecution ---------------------------
(***************************************************************************)
(* A guest running on the hypervisor: privileged code out of the code      *)
(* cache, user code in place, and the exception handlers that bring the    *)
(* guest from one block to the next (exceptions/exceptionHandlers.c with   *)
(* guestManager/guestExceptions.c and the store emulation of               *)
(* instructionEmu/loadStoreDecode.c).                                      *)
(*                                                                         *)
(* One action is one word executed by the guest, with the whole handler it *)
(* traps to: every handler begins with disableInterrupts, so nothing       *)
(* interleaves with it.  The timer interrupt comes between two words.      *)
(***************************************************************************)
EXTENDS TranslationStore

CONSTANTS
  Program,     \* guest memory at boot
  EntryPoint, IrqVector, AbtVector, SvcVector,
  UserAddr,    \* addresses whose code the guest runs in user mode
  ReturnAddrs, \* addresses the guest may put in its link register by itself
  Stores,      \* stores: [addr, words, instr, each]; each word cleared or the first
  Remaps,      \* page table edits: [first, last, image]
  Spaces,      \* images of memory when the guest switches its MMU off
  Aborts,      \* data aborts the guest handles: "translation", "permission"
  Irqs         \* interrupt sources: "GPT1", "UART3"

VARIABLES
  mem,        \* guest memory, as its page table maps it
  ts,         \* the translation store
  pc,         \* R15: a word of the pool in privileged mode, a guest word in user mode
  mode,       \* CPSR.mode, user or not
  entry,      \* lastEntryBlockIndex
  iBit,       \* CPSR.I
  line,       \* isIrqPending of the emulated interrupt controller
  irqPending, \* guestIrqPending
  lr, spsr,   \* link register and saved CPSR.I of the last exception
  died        \* how the hypervisor died, if it did

guest == <<mem, iBit, line, irqPending, lr, spsr>>
vars == <<mem, ts, pc, mode, entry, iBit, line, irqPending, lr, spsr, died>>

Range(r) == r.first .. r.last

StoreOp == [addr : Addr, words : Nat \ {0}, instr : Instr, each : BOOLEAN]
RemapOp == [first : Addr, last : Addr, image : Instr]

ASSUME GuestAssumption ==
  /\ Program \in Image /\ Spaces \subseteq Image
  /\ {EntryPoint, IrqVector, AbtVector, SvcVector} \subseteq Addr
  /\ UserAddr \subseteq Addr /\ ReturnAddrs \subseteq Addr
  /\ Stores \subseteq StoreOp
  /\ \A s \in Stores : s.addr + s.words < NumAddr
  /\ Remaps \subseteq RemapOp
  /\ \A r \in Remaps : r.last < NumAddr - 1
  /\ Aborts \subseteq {"translation", "permission"}
  /\ Irqs \subseteq {"GPT1", "UART3"}

(* A pool address as the guest would see it: no guest word is there.       *)
HostAddress(h) == NumAddr + h

Deaths == {"none", "nullHandler", "svcHandler", "probeOverrun", "rescanDied",
           "irqScanOutsideStore"}

Die(how) == died' = how /\ UNCHANGED <<ts, pc, mode, entry>> /\ UNCHANGED guest

-----------------------------------------------------------------------------
(* scanBlock, from a store t the handler has already changed, with guest    *)
(* memory as the handler leaves it: execution goes on in the code cache.    *)
EnterBlock(t, a) ==
  LET u == Scan(t, mem', a)
      s == Probe(t, a)
  IN IF s \in Slot
     THEN /\ ts' = u /\ entry' = s /\ pc' = u.blocks[s].cstart
          /\ mode' = "priv" /\ died' = died
     ELSE died' = "probeOverrun" /\ UNCHANGED <<ts, entry, pc, mode>>

(* The end of softwareInterrupt: the handler has computed the address next  *)
(* of the guest and CPSR.I = i.  A pending interrupt is delivered, and the  *)
(* block is then not linked; linked is the store for when none is.          *)
Pending(i) == irqPending \/ (line /\ iBit /\ ~ i)

DeliverInterrupt(t, next, i) ==
  /\ Pending(i) /\ ~ i
  /\ irqPending' = FALSE
  /\ lr' = next /\ spsr' = i /\ iBit' = TRUE
  /\ EnterBlock(t, IrqVector)

NoInterrupt(i) ==
  /\ ~ (Pending(i) /\ ~ i)
  /\ irqPending' = Pending(i) /\ iBit' = i
  /\ UNCHANGED <<lr, spsr>>

NextBlock(t, linked, next, i) ==
  \/ DeliverInterrupt(t, next, i)
  \/ NoInterrupt(i) /\ EnterBlock(linked, next)

-----------------------------------------------------------------------------
(* Hypercalls: the word that traps names a slot of the block store.         *)

Running == died = "none"
Priv == Running /\ mode = "priv"
Word0 == ts.code[pc]
This == ts.blocks[Word0.arg]
EndInstr == mem[This.gend]

AtHypercall(op) ==
  /\ Priv /\ Word0.kind = "svc"
  /\ Word0.arg \in Live(ts)
  /\ This.handler = op

(* Code that runs in user mode is not translated.                           *)
EnterUserMode(a) == pc' = a /\ mode' = "user" /\ UNCHANGED <<ts, entry, died>>

(* armBInstruction, then linkBlock.  The condition of the word that trapped *)
(* has already been decided by the processor.                               *)
Taken == Word0.cond \/ ~ Decode[EndInstr].cond

BranchHypercall ==
  /\ AtHypercall("branch")
  /\ LET next == IF Taken THEN Decode[EndInstr].target ELSE This.gend + 1
         linked == IF IsBranch(EndInstr) THEN Link(ts, mem, next, pc, Word0.arg) ELSE ts
     IN /\ UNCHANGED <<mem, line>>
        /\ NextBlock(ts, linked, next, iBit)

(* Any handler that changes nothing this model keeps.                       *)
EmulateHypercall ==
  /\ AtHypercall("crit")
  /\ UNCHANGED <<mem, line>>
  /\ NextBlock(ts, ts, This.gend + 1, iBit)

(* armCpsInstruction through CPSRWriteByInstr *)
SetMaskHypercall ==
  /\ AtHypercall("cps")
  /\ UNCHANGED <<mem, line>>
  /\ \E i \in BOOLEAN : NextBlock(ts, ts, This.gend + 1, i)

(* A coprocessor write that ends in guestDisableMMU: the page tables that   *)
(* held the write protection are set up again.                              *)
DisableMMUHypercall ==
  /\ AtHypercall("mmu")
  /\ mem' \in Spaces \cup {mem} /\ UNCHANGED line
  /\ LET t == [ClearAll(ts) EXCEPT !.wprot = {}]
     IN NextBlock(t, t, This.gend + 1, iBit)

Written(m, s) == [a \in Addr |-> IF a \in s.addr .. s.addr + s.words - 1
                                 THEN s.instr ELSE m[a]]

(* The unprivileged stores are always emulated, by vmStore.                 *)
StoreHypercall ==
  /\ AtHypercall("strt")
  /\ \E s \in Stores : s.words = 1 /\ mem' = Written(mem, s)
  /\ UNCHANGED line
  /\ NextBlock(ts, ts, This.gend + 1, iBit)

ReturnHypercall ==
  /\ AtHypercall("eret")
  /\ UNCHANGED <<mem, line>>
  /\ \E a \in ({lr} \cup ReturnAddrs) \cap Addr :
       \/ DeliverInterrupt(ts, a, spsr)
       \/ a \notin UserAddr /\ NoInterrupt(spsr) /\ EnterBlock(ts, a)
       \/ a \in UserAddr /\ NoInterrupt(spsr) /\ EnterUserMode(a)

(* The slot was emptied: its guestEnd and its handler are null.  And the    *)
(* handler of a service call the scanner met in privileged code dies.       *)
BadHypercall ==
  /\ Priv /\ Word0.kind = "svc"
  /\ \/ Word0.arg \notin Live(ts) /\ Die("nullHandler")
     \/ AtHypercall("svc") /\ Die("svcHandler")

Hypercall ==
  \/ BranchHypercall \/ EmulateHypercall \/ SetMaskHypercall
  \/ DisableMMUHypercall \/ StoreHypercall \/ ReturnHypercall \/ BadHypercall

-----------------------------------------------------------------------------
(* Words that do not trap.  A conditional hypercall or branch whose         *)
(* condition fails is one.                                                  *)

Stay == UNCHANGED <<mode, entry, died>>

FallThrough ==
  /\ Priv /\ (Word0.kind = "copy" \/ (Word0.kind \in {"svc", "b"} /\ Word0.cond))
  /\ pc' = pc + 1
  /\ UNCHANGED ts /\ UNCHANGED guest /\ Stay

JumpToBlock ==
  /\ Priv /\ Word0.kind = "b"
  /\ pc' = Word0.arg
  /\ UNCHANGED ts /\ UNCHANGED guest /\ Stay

(* User code runs in place, and stays among user code but for its traps.    *)
UserStep ==
  /\ Running /\ mode = "user"
  /\ \/ Decode[mem[pc]].op \in {"safe", "mem"} /\ pc' = pc + 1
     \/ /\ IsBranch(mem[pc])
        /\ pc' \in {Decode[mem[pc]].target}
                     \cup IF Decode[mem[pc]].cond THEN {pc + 1} ELSE {}
  /\ pc' \in UserAddr
  /\ UNCHANGED ts /\ UNCHANGED guest /\ Stay

-----------------------------------------------------------------------------
(* Loads and stores of copied instructions.                                 *)

AtMemoryAccess ==
  IF mode = "priv" THEN Priv /\ Word0.kind = "copy" /\ Decode[Word0.instr].op = "mem"
                   ELSE Running /\ Decode[mem[pc]].op = "mem"

ClearStoredFirst(t, s) == ClearAddress(t, s.addr)

(* A store to a page that was translated faults, and is emulated; STM       *)
(* clears each word it writes, the others the word that faulted.            *)
ClearStored(t, s) ==
  IF s.each /\ s.words = 2 THEN ClearAddress(ClearAddress(t, s.addr), s.addr + 1)
                           ELSE ClearAddress(t, s.addr)

Faults(s) == \E a \in s.addr .. s.addr + s.words - 1 : Page(a) \in ts.wprot

Store ==
  /\ AtMemoryAccess
  /\ \E s \in Stores :
       /\ mem' = Written(mem, s)
       /\ ts' = IF Faults(s) THEN ClearStored(ts, s) ELSE ts
  /\ pc' = pc + 1
  /\ UNCHANGED <<iBit, line, irqPending, lr, spsr>> /\ Stay

(* An emulated store to a page table of the guest: the range is unmapped    *)
(* from the shadow table, with its protection, and mapped elsewhere when    *)
(* the guest next touches it.                                               *)
EditPageTableOnly ==
  /\ AtMemoryAccess /\ mode = "priv"
  /\ \E r \in Remaps :
       /\ mem' = [a \in Addr |-> IF a \in Range(r) THEN r.image ELSE mem[a]]
       /\ ts' = [ts EXCEPT !.wprot = @ \ {Page(a) : a \in Range(r)}]
  /\ pc' = pc + 1
  /\ UNCHANGED <<iBit, line, irqPending, lr, spsr>> /\ Stay

EditPageTable ==
  /\ AtMemoryAccess /\ mode = "priv"
  /\ \E r \in Remaps :
       /\ mem' = [a \in Addr |-> IF a \in Range(r) THEN r.image ELSE mem[a]]
       /\ ts' = [ClearRange(ts, r.first, r.last)
                   EXCEPT !.wprot = @ \ {Page(a) : a \in Range(r)}]
  /\ pc' = pc + 1
  /\ UNCHANGED <<iBit, line, irqPending, lr, spsr>> /\ Stay

(* An emulated access to the interrupt controller: the guest has served the *)
(* interrupt.                                                               *)
Acknowledge ==
  /\ AtMemoryAccess /\ mode = "priv"
  /\ line' = FALSE
  /\ pc' = pc + 1
  /\ UNCHANGED <<mem, iBit, irqPending, lr, spsr, ts>> /\ Stay

(* deliverDataAbort for an access at what the handler believes is address a *)
(* of the guest, then scanBlock of its abort vector.                        *)
DeliverDataAbort(t, a) ==
  /\ lr' = a /\ spsr' = iBit /\ iBit' = TRUE
  /\ UNCHANGED <<mem, line, irqPending>>
  /\ EnterBlock(t, AbtVector)

(* dabtTranslationFault maps the host address back to the guest.            *)
TranslationFault ==
  /\ AtMemoryAccess /\ "translation" \in Aborts
  /\ IF mode = "user" THEN DeliverDataAbort(ts, pc)
     ELSE LET a == GuestPC(ts, mem, entry, pc) IN
          IF a = Null THEN Die("rescanDied")
                      ELSE DeliverDataAbort(UnlinkOwner(ts, entry, pc), a)

(* dabtPermissionFault does not.                                            *)
PermissionFault ==
  /\ AtMemoryAccess /\ "permission" \in Aborts
  /\ DeliverDataAbort(ts, IF mode = "user" THEN pc ELSE HostAddress(pc))

(* deliverServiceCall, for a service call of user code.                     *)
ServiceCallAgain ==
  /\ Running /\ mode = "user" /\ Decode[mem[pc]].op = "svc"
  /\ lr' = pc /\ spsr' = iBit /\ iBit' = TRUE
  /\ UNCHANGED <<mem, line, irqPending>>
  /\ EnterBlock(ts, SvcVector)

ServiceCall ==
  /\ Running /\ mode = "user" /\ Decode[mem[pc]].op = "svc"
  /\ lr' = pc + 1 /\ spsr' = iBit /\ iBit' = TRUE
  /\ UNCHANGED <<mem, line, irqPending>>
  /\ EnterBlock(ts, SvcVector)

GuestStep ==
  \/ Hypercall \/ FallThrough \/ JumpToBlock \/ UserStep \/ Store
  \/ EditPageTable \/ Acknowledge \/ TranslationFault \/ PermissionFault
  \/ ServiceCall

-----------------------------------------------------------------------------
(* Interrupts.  throwInterrupt latches one that the guest has not masked;   *)
(* irq() then unlinks the block the timer interrupted, so that the guest    *)
(* comes back to the hypervisor at its end.                                 *)

ThrowInterrupt ==
  /\ line' = TRUE
  /\ irqPending' = (irqPending \/ ~ iBit)
  /\ UNCHANGED <<mem, iBit, lr, spsr>>

InGroup == ts.blocks[entry].type = "GB"

TimerIrqLeavesLinks ==
  /\ Running /\ "GPT1" \in Irqs
  /\ ThrowInterrupt
  /\ UNCHANGED <<ts, pc>> /\ Stay

TimerIrq ==
  /\ Running /\ "GPT1" \in Irqs
  /\ IF InGroup /\ mode = "user"
     THEN Die("irqScanOutsideStore")
     ELSE /\ ThrowInterrupt
          /\ ts' = UnlinkOwner(ts, entry, pc)
          /\ UNCHANGED pc /\ Stay

UartIrq ==
  /\ Running /\ "UART3" \in Irqs
  /\ ThrowInterrupt
  /\ UNCHANGED <<ts, pc>> /\ Stay

-----------------------------------------------------------------------------
(* The loader translates the first block and enters it.                     *)
Booted == FillSlot(EmptyStore, Program, EntryPoint, Hash(EntryPoint))

Init ==
  /\ mem = Program
  /\ ts = Booted
  /\ pc = Booted.blocks[Hash(EntryPoint)].cstart
  /\ entry = Hash(EntryPoint)
  /\ mode = "priv" /\ iBit = TRUE
  /\ line = FALSE /\ irqPending = FALSE
  /\ lr = EntryPoint /\ spsr = TRUE
  /\ died = "none"

Next == GuestStep \/ TimerIrq \/ UartIrq

Spec == Init /\ [][Next]_vars

(* The processor keeps executing the guest.                                 *)
FairSpec == Spec /\ WF_vars(GuestStep)

-----------------------------------------------------------------------------
(* Properties.                                                              *)

(* Every variable keeps the shape of its C counterpart: slots, pool words   *)
(* and indices stay in bounds, and R15 is a pool address exactly when the   *)
(* guest is privileged (guestContext.h, basicBlockStore.h).                 *)
TypeOK ==
  /\ mem \in Image
  /\ ts \in StoreType
  /\ mode \in {"priv", "user"}
  /\ pc \in IF mode = "priv" THEN Host ELSE Addr
  /\ entry \in Slot
  /\ iBit \in BOOLEAN /\ line \in BOOLEAN /\ irqPending \in BOOLEAN
  /\ lr \in Int /\ spsr \in BOOLEAN
  /\ died \in Deaths

(* The live block R15 is in.                                                *)
Here == {s \in Live(ts) : pc \in Body(ts.blocks[s])}

(* Where the word k of a block goes on once its hypercall has been linked.  *)
Successor(b, w) ==
  IF w.cond \/ ~ Decode[mem[b.gend]].cond THEN Decode[mem[b.gend]].target ELSE b.gend + 1

LinkedTo(b, w, v) ==
  /\ v.kind = "b" /\ v.cond = w.cond /\ IsBranch(mem[b.gend])
  /\ \E t \in Live(ts) : ts.blocks[t].cstart = v.arg
                         /\ ts.blocks[t].gstart = Successor(b, w)

(* Whatever stores, page table edits, links, unlinks and pool wraps came    *)
(* before, a live block is the translation of what guest memory holds now,  *)
(* and a hypercall patched into a branch goes to the live block of the      *)
(* address the guest would have gone to (scanArmBlock, linkBlock,           *)
(* unlinkBlock and the clearing functions agree).                           *)
BlockFaithful ==
  \A s \in Live(ts) :
    LET b == ts.blocks[s] IN
    /\ b.gend = BlockEnd(mem, b.gstart) /\ b.csize = BlockLength(mem, b.gstart)
    /\ b.handler = Decode[mem[b.gend]].op
    /\ \A k \in 0 .. b.csize - 1 :
         LET w == BlockWord(mem, b.gstart, s, k)
             v == ts.code[b.cstart + k]
         IN v = w \/ (w.kind = "svc" /\ LinkedTo(b, w, v))

(* Every page that holds an instruction of a live block is write protected  *)
(* and has its execution bit, or a store to it would go unnoticed           *)
(* (guestWriteProtect and setExecBitmap at the end of scanArmBlock).        *)
CodeIsGuarded ==
  \A s \in Live(ts) : \A a \in ts.blocks[s].gstart .. ts.blocks[s].gend :
    Page(a) \in ts.wprot /\ ExecBit(ts, a)

(* A block that contains a branch to another block is a group block: the    *)
(* clearing functions and irq() unlink group blocks only.                   *)
LinkedIsGroup ==
  \A s \in Live(ts) : ts.blocks[s].type = "BB" =>
    \A h \in Body(ts.blocks[s]) : ts.code[h].kind # "b"

(* Once a timer interrupt is owed to the guest, the block it is executing   *)
(* has no way out but a hypercall, where the interrupt is delivered (irq(), *)
(* findBlockIndexNumber and unlinkBlock).                                   *)
PendingComesBack ==
  (irqPending /\ ~ iBit /\ mode = "priv") =>
    \A s \in Here : \A h \in Body(ts.blocks[s]) : ts.code[h].kind # "b"

(* The hypervisor meets no hypercall of an emptied slot, no table end and   *)
(* no host address it cannot place (softwareInterrupt, getBlockInfo,        *)
(* rescanBlock, findBlockIndexNumber).                                      *)
HypervisorSurvives == died = "none"

(* An interrupt that is owed is delivered, unless the guest masks it at the *)
(* end of the block it is in: it cannot spin in linked blocks for ever.     *)
InterruptNotDeferredForever ==
  (irqPending /\ ~ iBit) ~> (~ irqPending \/ iBit)

(* The store holds nothing of a range when clearTranslationsByAddressRange  *)
(* decides, from the bits of its first and last pages, to clear nothing.    *)
RangeNeverCached ==
  \A r \in Remaps : (~ ExecBit(ts, r.first) /\ ~ ExecBit(ts, r.last)) =>
    \A s \in Live(ts) : Range(r) \cap ts.blocks[s].gstart .. ts.blocks[s].gend = {}

(* oneHypercall tells unlinkBlock how many words of a block are hypercalls: *)
(* it must survive the move of the block to the front of the pool           *)
(* (addInstructionToBlock).                                                 *)
HypercallCountKept ==
  \A s \in Live(ts) : ts.blocks[s].one = ~ TwoHypercalls(mem[ts.blocks[s].gend])

(* The guest cannot tell the code cache from the machine: block execution   *)
(* implements GuestMachine, the host address of a word standing for the     *)
(* guest address of the instruction it translates.                          *)
GuestAddress ==
  IF mode = "user" THEN pc
  ELSE IF Here = {} THEN Null
  ELSE LET b == ts.blocks[CHOOSE s \in Here : TRUE]
           a == b.gstart + pc - b.cstart
       IN IF a < b.gend THEN a ELSE b.gend

(* The abort handler of the guest is told the address of the very           *)
(* instruction that faulted (dabtTranslationFault, hostpcToGuestpc,         *)
(* deliverDataAbort).                                                       *)
AbortIsPrecise ==
  [][(TranslationFault \/ PermissionFault) /\ Running' => lr' = GuestAddress]_vars

(* The inductive invariant of the proofs: the live blocks are disjoint,     *)
(* each is copied words, its ways out and its index, and R15 is in one of   *)
(* them, or in what is left of one that was emptied under it (every         *)
(* function of basicBlockStore.c, blockLinker.c and translationStore.c).    *)
InLiveBlock ==
  \E s \in Live(ts) : /\ pc \in Body(ts.blocks[s])
                      /\ ts.blocks[s].type = "GB" => InGroup
InAbandonedBlock == \E s \in Slot : Abandoned(ts, pc, s)
Located == mode = "priv" => InLiveBlock \/ InAbandonedBlock

PendingUnlinked ==
  (irqPending /\ ~ iBit /\ mode = "priv") =>
    \A s \in Here : ts.blocks[s].type = "BB"

PoolInv ==
  /\ TypeOK
  /\ WellFormed(ts, mem)
  /\ Located
  /\ "UART3" \notin Irqs => PendingUnlinked

Machine == INSTANCE GuestMachine WITH gpc <- GuestAddress, latched <- irqPending

ImplementsGuestMachine == Machine!Spec
=============================================================================
