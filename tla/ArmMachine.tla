----------------------------- MODULE ArmMachine ------------------------------
(***************************************************************************)
(* What the hypervisor promises about registers: the processor the guest   *)
(* believes it has, with banked stack pointers and link registers, status  *)
(* registers and precise exceptions.  It executes one whole instruction    *)
(* of the program in a step; an interrupt is taken between two of them.    *)
(* The contract leaves two things open, because the translation uses them: *)
(* the word under the stack pointer after an instruction, and the          *)
(* destination of a load that aborts.                                      *)
(***************************************************************************)
EXTENDS ArmInstructions

CONSTANTS Code, Programs, Boots, SvcVector, IrqVector, AbtVector

VARIABLES
  m,        \* the machine: low, bank, cpsr, spsr, pc, mem
  line,     \* the interrupt controller raises an interrupt
  program   \* the instruction at each address

vars == <<m, line, program>>

RegFile(x) == [n \in Regs |-> IF n \in Low THEN x.low[n] ELSE x.bank[x.cpsr.mode][n]]
Core(x) == [r |-> RegFile(x), z |-> x.cpsr.z, tp |-> 0, mem |-> x.mem]
With(x, c) ==
  [x EXCEPT !.low = [n \in Low |-> c.r[n]],
            !.bank[x.cpsr.mode] = [n \in Banked |-> c.r[n]],
            !.cpsr.z = c.z, !.mem = c.mem]

Exception(x, mode, vector, return) ==
  [x EXCEPT !.spsr[mode] = x.cpsr, !.bank[mode][LR] = return,
            !.cpsr.mode = mode, !.cpsr.i = TRUE, !.pc = vector]
Interrupted(x) == Exception(x, "irq", IrqVector, Plus(x.pc, 1))

GoTo(x, a) == [x EXCEPT !.pc = a]
Return(x, a) == [x EXCEPT !.pc = a, !.cpsr = x.spsr[x.cpsr.mode]]

(* MSR replaces the fields it names.                                       *)
Updated(old, new, mask) ==
  [mode |-> IF "control" \in mask THEN new.mode ELSE old.mode,
   i    |-> IF "control" \in mask THEN new.i ELSE old.i,
   z    |-> IF "flags" \in mask THEN new.z ELSE old.z]

(* The machine after the instruction i at x.pc.                            *)
After(x, i) ==
  LET c == Core(x)
      pc == Plus(x.pc, 2)
      on == Plus(x.pc, 1)
      md == x.cpsr.mode
      Set(n, v) == With(x, Write(c, n, v))
  IN IF ~ Passed(i, c.z) THEN GoTo(x, on) ELSE
     CASE i.op = "b"    -> GoTo(IF i.s THEN Set(LR, on) ELSE x, i.imm)
       [] i.op = "bx"   -> GoTo(x, Reg(c, i.m, pc))
       [] i.op = "movs" -> Return(x, Reg(c, i.m, pc))
       [] i.op \in {"ldr", "ldrr"} /\ i.d = PC -> GoTo(x, c.mem[Address(i, c, pc)])
       [] i.op = "ldm" /\ PC \in i.list ->
            GoTo(With(x, Execute(i, c, pc)), c.mem[Place(i, c.r[i.n], PC)])
       [] i.op = "ldmret" ->
            Return(With(x, [c EXCEPT !.r = Loaded(i, c)]), c.mem[Place(i, c.r[i.n], PC)])
       [] i.op = "svc"  -> Exception(x, "svc", SvcVector, on)
       [] i.op = "mrs"  -> GoTo(Set(i.d, PsrWord(IF i.s THEN x.spsr[md] ELSE x.cpsr)), on)
       [] i.op = "msr" /\ i.s ->
            GoTo([x EXCEPT !.spsr[md] = Updated(@, PsrOf(Reg(c, i.n, pc)), i.mask)], on)
       [] i.op = "msr" /\ ~ i.s ->
            GoTo([x EXCEPT !.cpsr = Updated(@, PsrOf(Reg(c, i.n, pc)), i.mask)], on)
       [] i.op = "cps"  -> GoTo([x EXCEPT !.cpsr.i = i.s], on)
       [] OTHER         -> GoTo(With(x, Execute(i, c, pc)), on)

(* Two machines that differ at most in the word at address a.              *)
AlikeBut(x, y, a) ==
  IF a \in Data THEN [x EXCEPT !.mem[a] = 0] = [y EXCEPT !.mem[a] = 0] ELSE x = y

UnderStack(x, mode) == Plus(x.bank[mode][SP], -1)

Instruction ==
  LET i == program[m.pc]
      c == Core(m)
      e == After(m, i)
      free == UnderStack(e, m.cpsr.mode)
  IN /\ m.pc \in Code
     /\ Reaches(i, c, Plus(m.pc, 2), IF i.op = "str" THEN Data \cup {Ack} ELSE Data)
     /\ \/ AlikeBut(m', e, free)
        \/ line /\ ~ e.cpsr.i /\ AlikeBut(m', Interrupted(e), free)
     /\ line' = (line /\ ~ Acks(i, c, Plus(m.pc, 2)))

(* An instruction that touches a page that is not mapped has no effect but *)
(* the exception; what it was loading is lost.                             *)
DataAbort ==
  LET i == program[m.pc]
      c == Core(m)
      lost == IF i.op \in {"ldr", "ldrr"} THEN {i.d} ELSE {}
      Aborted(x) == Exception(x, "abt", AbtVector, Plus(m.pc, 2))
  IN /\ m.pc \in Code /\ Faults(i, c, Plus(m.pc, 2))
     /\ \/ m' = Aborted(m)
        \/ \E n \in lost, v \in Word : m' = Aborted(With(m, Write(c, n, v)))
     /\ UNCHANGED line

Raise == ~ line /\ line' = TRUE /\ UNCHANGED m

Init == m \in Boots /\ line = FALSE /\ program \in Programs
Next == (Instruction \/ DataAbort \/ Raise) /\ UNCHANGED program

Spec == Init /\ [][Next]_vars
=============================================================================
