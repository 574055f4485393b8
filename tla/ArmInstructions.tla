--------------------------- MODULE ArmInstructions ---------------------------
(***************************************************************************)
(* The ARM instructions that the scanner copies, patches or interprets, as *)
(* the processor executes them.  An address counts words, so that R15      *)
(* reads as the address of the instruction plus 2.  A core is what a       *)
(* copied instruction can reach: registers, the Z flag, the thread         *)
(* register of CP15 and memory.                                            *)
(*                                                                         *)
(* The condition stands for the four flags; STM is STMDB and LDM is LDMIA, *)
(* both with write-back, as in the stacks of the C compilers.              *)
(***************************************************************************)
EXTENDS Integers, FiniteSets

CONSTANTS
  Half,     \* the numbers that fit in half a word are below it
  Low,      \* the registers R0 to R12 that programs use
  Data,     \* addresses of memory
  Lazy,     \* those on the page that the guest maps when it is touched
  TableWord,\* the entry of the guest's page table for that page
  Ack       \* register of the interrupt controller that ends an interrupt

ASSUME CoreAssumption ==
  /\ Half \in Nat /\ Half > 3
  /\ {0, 1, 2} \subseteq Low /\ Low \subseteq 0 .. 12
  /\ Data \subseteq 0 .. Half * Half - 1 /\ Lazy \subseteq Data \ {TableWord}
  /\ TableWord \in Data /\ Ack \in (0 .. Half * Half - 1) \ Data

SP == 13
LR == 14
PC == 15
Modulus == Half * Half
Word == 0 .. Modulus - 1
Banked == {SP, LR}
Regs == Low \cup Banked
Modes == {"usr", "irq", "svc", "abt"}
Psr == [mode : Modes, i : BOOLEAN, z : BOOLEAN]
Fields == {"control", "flags"}

(* d is the destination, or the register that is loaded or stored; n the   *)
(* base or first operand, m the other register; s the S bit of an ALU      *)
(* instruction, the L of a branch, the R of MRS and MSR, the mask that CPS *)
(* sets.                                                                   *)
Ops == {"alu", "teq", "mov", "mvn", "ldr", "ldrr", "str", "stm", "ldm",
        "b", "bx", "movs", "ldmret", "svc", "mrs", "msr", "cps"}
HostOps == {"movw", "movt", "mcr", "mrc", "hypercall"}
Instr ==
  [op : Ops \cup HostOps, cond : {"al", "eq"}, s : BOOLEAN,
   d : Regs \cup {PC}, n : Regs \cup {PC}, m : Regs \cup {PC},
   imm : Word, list : SUBSET (Regs \cup {PC}), mask : SUBSET Fields]
Plain == [op |-> "alu", cond |-> "al", s |-> FALSE, d |-> 0, n |-> 0, m |-> 0,
        imm |-> 0, list |-> {}, mask |-> {}]

Cores == [r : [Regs -> Word], z : BOOLEAN, tp : Word, mem : [Data -> Word]]

Plus(a, b) == (a + b) % Modulus
Passed(i, z) == i.cond = "al" \/ z

(* A status register as a word, for MRS and MSR.                           *)
ModeNumber == [usr |-> 0, irq |-> 1, svc |-> 2, abt |-> 3]
Bit(b) == IF b THEN 1 ELSE 0
PsrWord(p) == 4 * ModeNumber[p.mode] + 2 * Bit(p.i) + Bit(p.z)
PsrOf(w) == [mode |-> CHOOSE k \in Modes : ModeNumber[k] = (w \div 4) % 4,
             i |-> (w \div 2) % 2 = 1, z |-> w % 2 = 1]

Reg(c, n, pc) == IF n = PC THEN pc ELSE c.r[n]
Write(c, n, v) == IF n = PC THEN c ELSE [c EXCEPT !.r[n] = v]

(* Where a load or a store of one word goes, and the word of register n in *)
(* a block transfer: STMDB stores below the base, LDMIA loads from it.     *)
Address(i, c, pc) ==
  Plus(Reg(c, i.n, pc), IF i.op = "ldrr" THEN Reg(c, i.m, pc) ELSE i.imm)
Place(i, base, n) ==
  IF i.op = "stm" THEN Plus(base, - Cardinality({k \in i.list : k >= n}))
                  ELSE Plus(base, Cardinality({k \in i.list : k < n}))

Touched(i, c, pc) ==
  CASE i.op \in {"ldr", "ldrr", "str"}   -> {Address(i, c, pc)}
    [] i.op \in {"stm", "ldm", "ldmret"} -> {Place(i, Reg(c, i.n, pc), n) : n \in i.list}
    [] OTHER                             -> {}

(* The page of a lazy address is mapped by its entry in the page table.    *)
Faults(i, c, pc) ==
  /\ Passed(i, c.z)
  /\ c.mem[TableWord] = 0 /\ Touched(i, c, pc) \cap Lazy # {}
Reaches(i, c, pc, where) ==
  /\ Passed(i, c.z) => Touched(i, c, pc) \subseteq where
  /\ ~ Faults(i, c, pc)
Acks(i, c, pc) == Passed(i, c.z) /\ i.op = "str" /\ Address(i, c, pc) = Ack

Stored(i, c, pc) ==
  [a \in Data |->
     IF i.op = "str" /\ a = Address(i, c, pc) THEN Reg(c, i.d, pc)
     ELSE IF i.op = "stm" /\ \E n \in i.list : a = Place(i, Reg(c, i.n, pc), n)
     THEN Reg(c, CHOOSE n \in i.list : a = Place(i, Reg(c, i.n, pc), n), pc)
     ELSE c.mem[a]]

(* The registers in the list of a load come from memory, and the base      *)
(* moves over all words, the one for R15 included.                         *)
Loaded(i, c) ==
  [n \in Regs |->
     IF n \in i.list THEN c.mem[Place(i, c.r[i.n], n)]
     ELSE IF n = i.n THEN Plus(c.r[n], Cardinality(i.list)) ELSE c.r[n]]

(* d := v, and with the S bit the flag says whether it is zero.            *)
Result(i, c, v) == Write(IF i.s THEN [c EXCEPT !.z = (v = 0)] ELSE c, i.d, v)

Execute(i, c, pc) ==
  IF ~ Passed(i, c.z) THEN c ELSE
  CASE i.op = "alu"  -> Result(i, c, Plus(Reg(c, i.n, pc), i.imm))
    [] i.op = "mov"  -> Result(i, c, Reg(c, i.m, pc))
    [] i.op = "mvn"  -> Result(i, c, Modulus - 1 - Reg(c, i.m, pc))
    [] i.op = "teq"  -> [c EXCEPT !.z = (Reg(c, i.n, pc) = i.imm)]
    [] i.op = "movw" -> Write(c, i.d, i.imm)
    [] i.op = "movt" -> Write(c, i.d, i.imm * Half + (Reg(c, i.d, pc) % Half))
    [] i.op \in {"ldr", "ldrr"} -> Write(c, i.d, c.mem[Address(i, c, pc)])
    [] i.op = "str"  -> [c EXCEPT !.mem = Stored(i, c, pc)]
    [] i.op = "stm"  -> [Write(c, i.n, Plus(Reg(c, i.n, pc), - Cardinality(i.list)))
                           EXCEPT !.mem = Stored(i, c, pc)]
    [] i.op = "ldm"  -> [c EXCEPT !.r = Loaded(i, c)]
    [] i.op = "mcr"  -> [c EXCEPT !.tp = Reg(c, i.d, pc)]
    [] i.op = "mrc"  -> Write(c, i.d, c.tp)
    [] OTHER         -> c
=============================================================================
