--------------------------- MODULE GuestRegisters ----------------------------
(***************************************************************************)
(* The registers of a guest: in the processor while the guest runs, in its *)
(* context while the hypervisor does.  The words that the translator plants*)
(* for instructions that use the PC (translator/blockCopy.c,               *)
(* translator/arm/pcHandlers.c), the handlers of the instructions it       *)
(* replaces (interpreter/arm), exceptions delivered to the guest and the   *)
(* entry and exit code of every processor exception (exceptions/).         *)
(*                                                                         *)
(* One action is one word executed by the guest, with the handler it traps *)
(* to.  Blocks are not linked here and guest code does not change: both    *)
(* are the subject of BlockExecution.                                      *)
(***************************************************************************)
EXTENDS ArmInstructions, Sequences

CONSTANTS
  Code,      \* addresses of guest code
  Programs,  \* the instruction at each of them
  Boots,     \* the guest when it has set up its stacks
  SvcVector, IrqVector, AbtVector

VARIABLES
  core,    \* the processor: registers, Z flag, thread register, and memory
  gc,      \* the guest context; vector is the mode whose vectors VBAR holds
  host,    \* where the guest runs: a block, by its guestStart, and a word of it
  line,    \* isIrqPending of the emulated interrupt controller
  program,
  mmu,     \* virtAddrEnabled
  seen     \* history: the guest's machine after its last whole instruction

vars == <<core, gc, host, line, program, mmu, seen>>

Machine ==
  [low : [Low -> Word], bank : [Modes -> [Banked -> Word]], cpsr : Psr,
   spsr : [Modes \ {"usr"} -> Psr], pc : Word, mem : [Data -> Word]]

(* What an instruction of each kind is: a write of a status register names *)
(* the control field, the base of a load of several registers is not the   *)
(* PC, and the one that returns from an exception loads the PC.            *)
ASSUME ProgramAssumption ==
  /\ Code \subseteq Word /\ {SvcVector, IrqVector, AbtVector} \subseteq Code
  /\ Programs \subseteq [Code -> Instr]
  /\ \A p \in Programs : \A a \in Code :
       /\ p[a].op \in Ops
       /\ p[a].op = "msr" => "control" \in p[a].mask
       /\ p[a].op \in {"ldm", "ldmret"} => p[a].n # PC
       /\ p[a].op = "ldmret" => PC \in p[a].list
  /\ Boots \subseteq Machine

(* R15 of a word in the code cache: an address no guest uses.              *)
HostPC == Modulus - 1
Priv == gc.cpsr.mode # "usr"

-----------------------------------------------------------------------------
(* translator/blockCopy.c                                                  *)

armWritePCToRegisterUnshifted(cond, d, a) ==
  << [Plain EXCEPT !.op = "movw", !.cond = cond, !.d = d, !.imm = Plus(a, 2) % Half],
     [Plain EXCEPT !.op = "movt", !.cond = cond, !.d = d, !.imm = Plus(a, 2)] >>
armWritePCToRegister(cond, d, a) ==
  LET pc == Plus(a, 2)
  IN << [Plain EXCEPT !.op = "movw", !.cond = cond, !.d = d, !.imm = pc % Half],
        [Plain EXCEPT !.op = "movt", !.cond = cond, !.d = d, !.imm = pc \div Half] >>

Push(cond, d) == [Plain EXCEPT !.op = "stm", !.cond = cond, !.n = SP, !.list = {d}]
Pop(cond, d) == [Plain EXCEPT !.op = "ldm", !.cond = cond, !.n = SP, !.list = {d}]

armSpillRegister(cond, d) ==
  << IF mmu THEN Push(cond, d) ELSE [Plain EXCEPT !.op = "mcr", !.cond = cond, !.d = d] >>
armRestoreRegister(cond, d) ==
  << IF mmu THEN Pop(cond, d) ELSE [Plain EXCEPT !.op = "mrc", !.cond = cond, !.d = d] >>

getOtherRegisterOf2(a, b) ==
  CHOOSE n \in {0, 1, 2} \ {a, b} : \A k \in {0, 1, 2} \ {a, b} : n <= k

(* translator/arm/pcHandlers.c: the words for the instruction i at a.      *)

(* The tests (TST, TEQ, CMP, CMN: "teq") have no destination, but the table*)
(* search finds the entry of the instructions that have one first, and     *)
(* their Rd field is zero.                                                 *)
armALUimm(i, a) ==
  LET d == IF i.op = "teq" THEN 0 ELSE i.d
  IN armWritePCToRegister(i.cond, d, a) \o << [i EXCEPT !.n = d] >>

armMovPCInstruction(i, a) ==
  armWritePCToRegister(i.cond, i.d, a) \o IF i.s THEN << [i EXCEPT !.m = i.d] >> ELSE <<>>
armShiftPCImm(i, a) ==
  armWritePCToRegister(i.cond, i.d, a) \o << [i EXCEPT !.m = i.d] >>
armALUreg(i, a) == IF i.op = "mov" THEN armMovPCInstruction(i, a) ELSE armShiftPCImm(i, a)

armLdrPCImm(i, a) ==
  armWritePCToRegister(i.cond, i.d, a) \o << [i EXCEPT !.n = i.d] >>

armLdrPCReg(i, a) ==
  LET spill == i.d = i.m
      scratch == IF spill THEN getOtherRegisterOf2(i.d, i.m) ELSE 0
      pcRegister == IF spill THEN scratch ELSE i.d
  IN (IF spill THEN armSpillRegister(i.cond, scratch) ELSE <<>>)
       \o armWritePCToRegister(i.cond, pcRegister, a) \o << [i EXCEPT !.n = pcRegister] >>
       \o armRestoreRegister(i.cond, scratch)

armStrPCImm(i, a) ==
  LET scratch == getOtherRegisterOf2(i.d, i.n)
  IN armSpillRegister(i.cond, scratch) \o armWritePCToRegister(i.cond, scratch, a)
       \o << [i EXCEPT !.d = IF @ = PC THEN scratch ELSE @,
                       !.n = IF @ = PC THEN scratch ELSE @] >>
       \o armRestoreRegister(i.cond, scratch)

StmScratch(i) == IF i.n = 0 THEN 1 ELSE 0
StmOffsetUnpushed(i) == Cardinality(i.list) - 1
StmOffset(i) == Cardinality(i.list) - 1 + IF i.n = SP THEN 1 ELSE 0
armStmPC(i, a) ==
  LET scratch == StmScratch(i)
  IN << i, Push(i.cond, scratch) >> \o armWritePCToRegister(i.cond, scratch, a)
       \o << [Plain EXCEPT !.op = "str", !.cond = i.cond, !.d = scratch, !.n = i.n,
                         !.imm = StmOffset(i)],
             Pop(i.cond, scratch) >>

Translated(i, a) ==
  CASE i.op \in {"alu", "teq"} /\ i.n = PC      -> armALUimm(i, a)
    [] i.op \in {"mov", "mvn"} /\ i.m = PC      -> armALUreg(i, a)
    [] i.op = "ldr" /\ i.n = PC                 -> armLdrPCImm(i, a)
    [] i.op = "ldrr" /\ i.n = PC                -> armLdrPCReg(i, a)
    [] i.op = "str" /\ PC \in {i.d, i.n}        -> armStrPCImm(i, a)
    [] i.op = "stm" /\ PC \in i.list            -> armStmPC(i, a)
    [] OTHER                                    -> << i >>

Replaced(i) ==
  \/ i.op \in {"b", "bx", "movs", "ldmret", "svc", "mrs", "msr", "cps"}
  \/ i.op \in {"ldr", "ldrr"} /\ i.d = PC
  \/ i.op = "ldm" /\ PC \in i.list

-----------------------------------------------------------------------------
(* scanner.c: the block that starts at s, and its words.                   *)

EndsAt(s, e) == /\ s <= e /\ s .. e \subseteq Code
                /\ Replaced(program[e]) /\ \A k \in s .. e - 1 : ~ Replaced(program[k])
guestEnd(s) == CHOOSE e \in Code : EndsAt(s, e)

Copied(s, a) ==
  LET f[k \in s .. a] == IF k = s THEN <<>> ELSE f[k - 1] \o Translated(program[k - 1], k - 1)
  IN f[a]

Hypercall(cond) == [Plain EXCEPT !.op = "hypercall", !.cond = cond]
Planted(e) ==
  LET i == program[e]
      link == IF i.op = "b" /\ i.s THEN armWritePCToRegister(i.cond, LR, e - 1) ELSE <<>>
      fork == IF i.op = "b" /\ i.cond # "al" THEN << Hypercall(i.cond) >> ELSE <<>>
  IN link \o fork \o << Hypercall("al") >>

Words(s) == Copied(s, guestEnd(s)) \o Planted(guestEnd(s))

(* hostpcToGuestpc: rescanBlock stops when it has gone past the word.      *)
Past(s, a, off) == Len(Copied(s, a + 1)) > off
hostpcToGuestpc(s, off) ==
  IF off = 0 THEN s
  ELSE CHOOSE a \in s .. guestEnd(s) - 1 :
         Past(s, a, off) /\ \A k \in s .. a - 1 : ~ Past(s, k, off)

-----------------------------------------------------------------------------
(* The vectors save the registers into the bank of the mode whose vector   *)
(* it is; on the way out they restore those of the guest's mode.           *)

SavedFrom(c) ==
  [gc EXCEPT !.low = [n \in Low |-> c.r[n]],
             !.bank[gc.vector] = [n \in Banked |-> c.r[n]],
             !.cpsr.z = c.z]
Saved == SavedFrom(core)
Restored(g) ==
  [core EXCEPT !.r = [n \in Regs |-> IF n \in Low THEN g.low[n] ELSE g.bank[g.cpsr.mode][n]],
               !.z = g.cpsr.z]

(* The guest's machine.                                                    *)
Snapshot(g, mem, pc) ==
  [low |-> g.low, bank |-> g.bank, cpsr |-> g.cpsr, spsr |-> g.spsr, pc |-> pc, mem |-> mem]

-----------------------------------------------------------------------------
(* interpreter/internals.c and common.c                                    *)

getGPRegister(g, n) ==
  IF n = PC THEN Plus(g.r15, 2) ELSE IF n \in Low THEN g.low[n] ELSE g.bank[g.cpsr.mode][n]
setGPRegisterUserBank(g, n, v) ==
  IF n = PC THEN g
  ELSE IF n \in Low THEN [g EXCEPT !.low[n] = v] ELSE [g EXCEPT !.bank["usr"][n] = v]
setGPRegister(g, n, v) ==
  IF n = PC THEN g
  ELSE IF n \in Low THEN [g EXCEPT !.low[n] = v] ELSE [g EXCEPT !.bank[g.cpsr.mode][n] = v]

(* What the handlers of loads and stores see, and what they leave.         *)
AsCore(g) == [core EXCEPT !.r = [n \in Regs |-> getGPRegister(g, n)], !.z = g.cpsr.z]
SetRegisters(g, c) ==
  [g EXCEPT !.low = [n \in Low |-> c.r[n]], !.bank[g.cpsr.mode] = [n \in Banked |-> c.r[n]]]

setExceptionVector(g, mode) == [g EXCEPT !.vector = mode]
guestChangeModeOnly(g, mode) == [g EXCEPT !.cpsr.mode = mode]
guestChangeMode(g, mode) == [setExceptionVector(g, mode) EXCEPT !.cpsr.mode = mode]

(* Only the bytes that the mask names are taken from the word, and the     *)
(* others become zero.                                                     *)
CPSRWriteByInstr(g, new, mask) ==
  LET latched == [g EXCEPT !.irqPending = @ \/ (line /\ g.cpsr.i /\ ~ new.i)]
      moved == IF new.mode # g.cpsr.mode THEN guestChangeMode(latched, new.mode) ELSE latched
  IN [moved EXCEPT !.cpsr = [mode |-> new.mode, i |-> new.i, z |-> new.z /\ "flags" \in mask]]
SPSRWriteByInstr(g, new, mask) ==
  [g EXCEPT !.spsr[g.cpsr.mode] = [new EXCEPT !.z = @ /\ "flags" \in mask]]
ExceptionReturn(g) == CPSRWriteByInstr(g, g.spsr[g.cpsr.mode], Fields)

(* The handlers of interpreter/arm: the context when the handler returns,  *)
(* with the address of the next instruction in R15.                        *)
WritePC(g, a) == [g EXCEPT !.r15 = a]
Following(g) == WritePC(g, Plus(g.r15, 1))

armBInstruction(g, i) == WritePC(g, i.imm)
armBlInstruction(g, i) == WritePC(setGPRegister(g, LR, Plus(g.r15, 1)), i.imm)
armBxInstruction(g, i) == WritePC(g, getGPRegister(g, i.m))
armAluRegInstruction(g, i) == WritePC(ExceptionReturn(g), getGPRegister(g, i.m))
armLdrInstruction(g, i) ==
  WritePC(g, core.mem[Address(i, AsCore(g), getGPRegister(g, PC))])
armLdmInstruction(g, i) ==
  LET c == AsCore(g)
  IN WritePC(SetRegisters(g, Execute(i, c, 0)), c.mem[Place(i, c.r[i.n], PC)])
armLdmExcRetInstruction(g, i) ==
  LET c == AsCore(g)
  IN WritePC(ExceptionReturn(SetRegisters(g, [c EXCEPT !.r = Loaded(i, c)])),
             c.mem[Place(i, c.r[i.n], PC)])
armMrsInstruction(g, i) ==
  Following(setGPRegister(g, i.d, PsrWord(IF i.s THEN g.spsr[g.cpsr.mode] ELSE g.cpsr)))
armMsrRegInstruction(g, i) ==
  LET new == PsrOf(getGPRegister(g, i.n))
  IN Following(IF i.s THEN SPSRWriteByInstr(g, new, i.mask) ELSE CPSRWriteByInstr(g, new, i.mask))
armCpsInstruction(g, i) ==
  Following(CPSRWriteByInstr(g, [g.cpsr EXCEPT !.i = i.s], Fields))

Interpreted(g, i) ==
  IF ~ Passed(i, g.cpsr.z) THEN Following(g) ELSE
  CASE i.op = "b" /\ ~ i.s         -> armBInstruction(g, i)
    [] i.op = "b" /\ i.s           -> armBlInstruction(g, i)
    [] i.op = "bx"                 -> armBxInstruction(g, i)
    [] i.op = "movs"               -> armAluRegInstruction(g, i)
    [] i.op \in {"ldr", "ldrr"}    -> armLdrInstruction(g, i)
    [] i.op = "ldm"                -> armLdmInstruction(g, i)
    [] i.op = "ldmret"             -> armLdmExcRetInstruction(g, i)
    [] i.op = "mrs"                -> armMrsInstruction(g, i)
    [] i.op = "msr"                -> armMsrRegInstruction(g, i)
    [] i.op = "cps"                -> armCpsInstruction(g, i)

-----------------------------------------------------------------------------
(* guestExceptions.c                                                       *)

Delivered(g, mode, return, vector) ==
  LET h == guestChangeMode([g EXCEPT !.spsr[mode] = g.cpsr], mode)
  IN [h EXCEPT !.bank[mode][LR] = Plus(g.r15, return), !.r15 = vector, !.cpsr.i = TRUE]
deliverServiceCall(g) == Delivered(g, "svc", 1, SvcVector)
deliverInterrupt(g) == [Delivered(g, "irq", 1, IrqVector) EXCEPT !.irqPending = FALSE]
deliverDataAbort(g) == Delivered(g, "abt", 2, AbtVector)

(* The end of softwareInterrupt. *)
PendingDelivered(g) == IF g.irqPending /\ ~ g.cpsr.i THEN deliverInterrupt(g) ELSE g

-----------------------------------------------------------------------------
(* The handler of an exception has left the context as g: the guest goes   *)
(* on at the start of a block, or in place if it is in user mode.          *)
ResumeAt(g) ==
  /\ gc' = g /\ core' = Restored(g)
  /\ host' = [start |-> g.r15, off |-> 0]
  /\ seen' = Snapshot(g, core.mem, g.r15)

(* The guest has executed the word off of the block at s, and has the      *)
(* context g: was it the last one of an instruction?                       *)
NextWord(g, mem) ==
  LET s == host.start
      done == {a \in s + 1 .. guestEnd(s) : Len(Copied(s, a)) = host.off + 1}
  IN /\ host' = [host EXCEPT !.off = @ + 1]
     /\ IF done = {} THEN UNCHANGED seen
        ELSE \E a \in done : seen' = Snapshot(g, mem, a)

ThisWord == Words(host.start)[host.off + 1]

(* Where the guest runs: privileged, in the translation of a block, or in  *)
(* user mode, in place.  It stops when it leaves the code of the program.  *)
InBlock == Priv /\ \E e \in Code : EndsAt(host.start, e)
InPlace == ~ Priv /\ host.start \in Code

(* A copied, patched or planted word that does not trap.                   *)
RunWord ==
  /\ InBlock
  /\ LET w == ThisWord
     IN /\ w.op = "hypercall" => ~ Passed(w, core.z)
        /\ Reaches(w, core, HostPC, IF w.op \in {"str", "stm"} THEN Data \ {TableWord} ELSE Data)
        /\ core' = Execute(w, core, HostPC)
        /\ NextWord(SavedFrom(core'), core'.mem)
  /\ UNCHANGED <<gc, line>>

(* A store to a device or to a page table traps and is emulated, with the  *)
(* registers of the context: dabtPermissionFault.                          *)
EmulatedStore ==
  /\ InBlock
  /\ LET w == ThisWord
         c == Execute(w, AsCore(Saved), HostPC)
         g == SetRegisters(Saved, c)
     IN /\ w.op = "str" /\ Passed(w, core.z)
        /\ Address(w, core, HostPC) \in {Ack, TableWord}
        /\ gc' = g /\ core' = [Restored(g) EXCEPT !.mem = c.mem]
        /\ line' = (line /\ ~ Acks(w, core, HostPC))
        /\ NextWord(g, c.mem)

(* softwareInterrupt, for a hypercall of the scanner.                      *)
HypercallTraps ==
  /\ InBlock
  /\ LET w == ThisWord
     IN w.op = "hypercall" /\ Passed(w, core.z)
  /\ \E e \in Code :
       LET i == program[e]
           g == WritePC(Saved, e)
       IN /\ EndsAt(host.start, e) /\ i.op # "svc"
          /\ Reaches(i, AsCore(g), Plus(e, 2), Data)
          /\ ResumeAt(PendingDelivered(Interpreted(g, i)))
  /\ UNCHANGED line

(* User mode: guest code is executed in place.                             *)
UserInstr == program[host.start]

RunUser ==
  /\ InPlace
  /\ LET i == UserInstr
         pc == Plus(host.start, 2)
         next == IF i.op = "b" /\ Passed(i, core.z) THEN i.imm ELSE Plus(host.start, 1)
     IN /\ i.op = "b" => ~ i.s
        /\ Replaced(i) => i.op = "b" \/ ~ Passed(i, core.z)
        /\ Reaches(i, core, pc, IF i.op \in {"str", "stm"} THEN Data \ {TableWord} ELSE Data)
        /\ core' = Execute(i, core, pc)
        /\ host' = [host EXCEPT !.start = next]
        /\ seen' = Snapshot(SavedFrom(core'), core'.mem, next)
  /\ UNCHANGED <<gc, line>>

(* softwareInterrupt, for a service call of the guest.                     *)
ServiceCall ==
  /\ InPlace
  /\ UserInstr.op = "svc" /\ Passed(UserInstr, core.z)
  /\ ResumeAt(PendingDelivered(deliverServiceCall(WritePC(Saved, host.start))))
  /\ UNCHANGED line

(* dabtTranslationFault, when the guest's tables do not map the page.      *)
DataAbort ==
  /\ \/ /\ InBlock /\ Faults(ThisWord, core, HostPC)
        /\ ResumeAt(deliverDataAbort(WritePC(Saved, hostpcToGuestpc(host.start, host.off))))
     \/ /\ InPlace /\ Faults(UserInstr, core, Plus(host.start, 2))
        /\ ResumeAt(deliverDataAbort(WritePC(Saved, host.start)))
  /\ UNCHANGED line

(* irq with throwInterrupt, between two words: the guest goes on where it  *)
(* was.                                                                    *)
TimerIrq ==
  /\ line' = TRUE
  /\ gc' = [Saved EXCEPT !.irqPending = @ \/ ~ gc.cpsr.i]
  /\ core' = Restored(gc')
  /\ UNCHANGED <<host, seen>>

Init ==
  /\ program \in Programs /\ mmu \in BOOLEAN
  /\ seen \in Boots /\ (~ mmu => seen.mem[TableWord] # 0)
  /\ line = FALSE
  /\ gc = [low |-> seen.low, bank |-> seen.bank, cpsr |-> seen.cpsr, spsr |-> seen.spsr,
           r15 |-> seen.pc, irqPending |-> FALSE, vector |-> seen.cpsr.mode]
  /\ core = [r |-> [n \in Regs |-> IF n \in Low THEN seen.low[n]
                                   ELSE seen.bank[seen.cpsr.mode][n]],
             z |-> seen.cpsr.z, tp |-> 0, mem |-> seen.mem]
  /\ host = [start |-> seen.pc, off |-> 0]

Next ==
  /\ \/ RunWord \/ EmulatedStore \/ HypercallTraps
     \/ RunUser \/ ServiceCall \/ DataAbort \/ TimerIrq
  /\ UNCHANGED <<program, mmu>>

Spec == Init /\ [][Next]_vars

-----------------------------------------------------------------------------
Context ==
  [low : [Low -> Word], bank : [Modes -> [Banked -> Word]], cpsr : Psr,
   spsr : [Modes \ {"usr"} -> Psr], r15 : Word, irqPending : BOOLEAN, vector : Modes]

TypeOK ==
  /\ core \in Cores /\ gc \in Context
  /\ host.start \in Word /\ host.off \in Nat
  /\ line \in BOOLEAN /\ mmu \in BOOLEAN
  /\ program \in [Code -> Instr] /\ seen \in Machine

(* The processor's vectors are those of the guest's mode, so that the next *)
(* exception saves the registers into the bank they were restored from.    *)
VectorFollowsMode == gc.vector = gc.cpsr.mode

(* No step of the guest or of a handler changes the stack pointer or the   *)
(* link register of a mode that the guest neither leaves nor enters.       *)
BanksKept ==
  [][\A k \in Modes \ {gc.cpsr.mode, gc'.cpsr.mode} : gc'.bank[k] = gc.bank[k]]_vars

(* The guest sees the machine it was written for: every instruction does   *)
(* what the processor would do, whatever was planted for it, whatever      *)
(* interrupted it, and exceptions are taken between two of them.           *)
Abstract == INSTANCE ArmMachine WITH m <- seen
ImplementsArmMachine == Abstract!Spec
=============================================================================
