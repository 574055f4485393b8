------------------------- MODULE GuestRegistersProofs -------------------------
(***************************************************************************)
(* The banked registers of the guest stay in their banks, whatever the     *)
(* program and whatever words are planted for it.  The argument follows    *)
(* the context through the handlers: each writes only the bank of the mode *)
(* it finds, a change of mode takes the vectors along, and the delivery of *)
(* an exception writes the bank of the mode it enters.  Then that the words*)
(* planted for an instruction do what it does, and that every state of the *)
(* system holds values of its types: every word of a block can be executed *)
(* and every handler leaves a context.  Last, that the guest sees the      *)
(* processor of ArmMachine: the words of an instruction are followed one   *)
(* by one, with what the guest may and may not notice in the middle.       *)
(***************************************************************************)
EXTENDS GuestRegisters, FiniteSetTheorems, WellFoundedInduction, TLAPS

(* A context that is a record with the fields of one, and whose vectors    *)
(* are those of its mode.                                                  *)
Sound(g) ==
  /\ {"low", "bank", "cpsr", "spsr", "r15", "irqPending", "vector"} \subseteq DOMAIN g
  /\ {"mode", "i", "z"} \subseteq DOMAIN g.cpsr
  /\ Modes \subseteq DOMAIN g.bank
  /\ g.vector = g.cpsr.mode

(* h has the banks of g, except perhaps the one of the given mode.         *)
KeptBut(g, h, mode) == \A k \in Modes \ {mode} : h.bank[k] = g.bank[k]

Handled(g, h) == Sound(h) /\ KeptBut(g, h, g.cpsr.mode)

(* A vector saves the registers into the bank of the guest's mode.         *)
LEMMA SavedSound ==
  ASSUME Sound(gc), NEW c
  PROVE  /\ Sound(SavedFrom(c)) /\ SavedFrom(c).cpsr.mode = gc.cpsr.mode
         /\ KeptBut(gc, SavedFrom(c), gc.cpsr.mode)
BY DEF Sound, KeptBut, SavedFrom

LEMMA WritePCSound ==
  ASSUME NEW g, NEW h, Handled(g, h), NEW a
  PROVE  Handled(g, WritePC(h, a))
BY DEF Handled, Sound, KeptBut, WritePC

LEMMA SetRegisterSound ==
  ASSUME NEW g, Sound(g), NEW n, NEW v
  PROVE  Handled(g, setGPRegister(g, n, v))
<1> DEFINE h == setGPRegister(g, n, v)
<1>1. h = g \/ h = [g EXCEPT !.low[n] = v] \/ h = [g EXCEPT !.bank[g.cpsr.mode][n] = v]
  BY DEF setGPRegister
<1>2. QED
  BY <1>1 DEF Handled, Sound, KeptBut

LEMMA SetRegistersSound ==
  ASSUME NEW g, Sound(g), NEW c
  PROVE  Handled(g, SetRegisters(g, c)) /\ SetRegisters(g, c).cpsr.mode = g.cpsr.mode
BY DEF Handled, Sound, KeptBut, SetRegisters

(* A write of the status register takes the vectors to the new mode.       *)
LEMMA StatusWriteSound ==
  ASSUME NEW g, NEW h, Handled(g, h), NEW new, NEW mask
  PROVE  Handled(g, CPSRWriteByInstr(h, new, mask))
<1> DEFINE latched == [h EXCEPT !.irqPending = @ \/ (line /\ h.cpsr.i /\ ~ new.i)]
           moved == IF new.mode # h.cpsr.mode THEN guestChangeMode(latched, new.mode)
                    ELSE latched
<1>1. Sound(latched) /\ KeptBut(g, latched, g.cpsr.mode) /\ latched.cpsr.mode = h.cpsr.mode
  BY DEF Handled, Sound, KeptBut
<1>2. /\ Sound(moved) /\ moved.cpsr.mode = new.mode
      /\ KeptBut(g, moved, g.cpsr.mode)
  BY <1>1 DEF Sound, KeptBut, guestChangeMode, setExceptionVector
<1>3. CPSRWriteByInstr(h, new, mask) =
        [moved EXCEPT !.cpsr =
           [mode |-> new.mode, i |-> new.i, z |-> new.z /\ "flags" \in mask]]
  BY DEF CPSRWriteByInstr
<1> HIDE DEF moved
<1>4. QED
  BY <1>2, <1>3 DEF Handled, Sound, KeptBut

LEMMA SavedStatusWriteSound ==
  ASSUME NEW g, Sound(g), NEW new, NEW mask
  PROVE  Handled(g, SPSRWriteByInstr(g, new, mask))
BY DEF Handled, Sound, KeptBut, SPSRWriteByInstr

(* Every handler of a replaced instruction writes only the bank of the     *)
(* mode it was called in.                                                  *)
LEMMA InterpretedSound ==
  ASSUME NEW g, Sound(g), NEW i, i.s \in BOOLEAN, Replaced(i), i.op # "svc"
  PROVE  Handled(g, Interpreted(g, i))
<1>0. Handled(g, g)
  BY DEF Handled, KeptBut
<1>1. CASE ~ Passed(i, g.cpsr.z)
  BY <1>0, <1>1, WritePCSound DEF Interpreted, Following
<1>2. CASE Passed(i, g.cpsr.z)
  <2>1. CASE i.op = "b" /\ ~ i.s
    <3>1. Interpreted(g, i) = WritePC(g, i.imm)
      BY <1>2, <2>1 DEF Interpreted, armBInstruction
    <3>2. QED  BY <3>1, <1>0, WritePCSound
  <2>2. CASE i.op = "b" /\ i.s
    <3>1. Interpreted(g, i) = WritePC(setGPRegister(g, LR, Plus(g.r15, 1)), i.imm)
      BY <1>2, <2>2 DEF Interpreted, armBlInstruction
    <3>2. QED  BY <3>1, SetRegisterSound, WritePCSound
  <2>3. CASE i.op = "bx"
    <3>1. Interpreted(g, i) = WritePC(g, getGPRegister(g, i.m))
      BY <1>2, <2>3 DEF Interpreted, armBxInstruction
    <3>2. QED  BY <3>1, <1>0, WritePCSound
  <2>4. CASE i.op = "movs"
    <3>1. Interpreted(g, i) = WritePC(ExceptionReturn(g), getGPRegister(g, i.m))
      BY <1>2, <2>4 DEF Interpreted, armAluRegInstruction
    <3>2. QED  BY <3>1, <1>0, StatusWriteSound, WritePCSound DEF ExceptionReturn
  <2>5. CASE i.op \in {"ldr", "ldrr"}
    <3>1. Interpreted(g, i) =
            WritePC(g, core.mem[Address(i, AsCore(g), getGPRegister(g, PC))])
      BY <1>2, <2>5 DEF Interpreted, armLdrInstruction
    <3>2. QED  BY <3>1, <1>0, WritePCSound
  <2>6. CASE i.op = "ldm"
    <3>1. PICK a : Interpreted(g, i) = WritePC(SetRegisters(g, Execute(i, AsCore(g), 0)), a)
      BY <1>2, <2>6 DEF Interpreted, armLdmInstruction
    <3>2. QED  BY <3>1, SetRegistersSound, WritePCSound
  <2>7. CASE i.op = "ldmret"
    <3> DEFINE c == [AsCore(g) EXCEPT !.r = Loaded(i, AsCore(g))]
    <3>1. PICK a : Interpreted(g, i) = WritePC(ExceptionReturn(SetRegisters(g, c)), a)
      BY <1>2, <2>7 DEF Interpreted, armLdmExcRetInstruction
    <3> HIDE DEF c
    <3>2. Handled(g, ExceptionReturn(SetRegisters(g, c)))
      BY SetRegistersSound, StatusWriteSound DEF ExceptionReturn
    <3>3. QED  BY <3>1, <3>2, WritePCSound
  <2>8. CASE i.op = "mrs"
    <3>1. PICK v, a : Interpreted(g, i) = WritePC(setGPRegister(g, i.d, v), a)
      BY <1>2, <2>8 DEF Interpreted, armMrsInstruction, Following
    <3>2. QED  BY <3>1, SetRegisterSound, WritePCSound
  <2>9. CASE i.op = "msr"
    <3>1. PICK new, a :
            \/ Interpreted(g, i) = WritePC(SPSRWriteByInstr(g, new, i.mask), a)
            \/ Interpreted(g, i) = WritePC(CPSRWriteByInstr(g, new, i.mask), a)
      BY <1>2, <2>9 DEF Interpreted, armMsrRegInstruction, Following
    <3>2. QED  BY <3>1, <1>0, SavedStatusWriteSound, StatusWriteSound, WritePCSound
  <2>10. CASE i.op = "cps"
    <3>1. PICK new, a : Interpreted(g, i) = WritePC(CPSRWriteByInstr(g, new, Fields), a)
      BY <1>2, <2>10 DEF Interpreted, armCpsInstruction, Following
    <3>2. QED  BY <3>1, <1>0, StatusWriteSound, WritePCSound
  <2>11. QED
    BY <2>1, <2>2, <2>3, <2>4, <2>5, <2>6, <2>7, <2>8, <2>9, <2>10 DEF Replaced
<1>3. QED  BY <1>1, <1>2

(* The delivery of an exception writes the bank of the mode it enters.     *)
LEMMA DeliveredSound ==
  ASSUME NEW g, Sound(g), NEW mode \in Modes, NEW return, NEW vector
  PROVE  LET h == Delivered(g, mode, return, vector)
         IN Sound(h) /\ h.cpsr.mode = mode /\ h.cpsr.i /\ KeptBut(g, h, mode)
<1> DEFINE old == [g EXCEPT !.spsr[mode] = g.cpsr]
           h == guestChangeMode(old, mode)
<1>1. Sound(h) /\ h.cpsr.mode = mode /\ KeptBut(g, h, mode)
  BY DEF Sound, KeptBut, guestChangeMode, setExceptionVector
<1>2. Delivered(g, mode, return, vector) =
        [h EXCEPT !.bank[mode][LR] = Plus(g.r15, return), !.r15 = vector, !.cpsr.i = TRUE]
  BY DEF Delivered
<1> HIDE DEF h
<1>3. QED
  BY <1>1, <1>2 DEF Sound, KeptBut

LEMMA InterruptSound ==
  ASSUME NEW g, NEW h, Handled(g, h)
  PROVE  LET p == PendingDelivered(h)
         IN /\ Sound(p)
            /\ \A k \in Modes \ {g.cpsr.mode, p.cpsr.mode} : p.bank[k] = g.bank[k]
<1> DEFINE d == Delivered(h, "irq", 1, IrqVector)
<1>1. Sound(h) /\ KeptBut(g, h, g.cpsr.mode) /\ "irq" \in Modes
  BY DEF Handled, Modes
<1>2. Sound(d) /\ d.cpsr.mode = "irq" /\ KeptBut(h, d, "irq")
  BY <1>1, DeliveredSound
<1>3. PendingDelivered(h) = h \/ PendingDelivered(h) = [d EXCEPT !.irqPending = FALSE]
  BY DEF PendingDelivered, deliverInterrupt
<1> HIDE DEF d
<1>4. QED
  BY <1>1, <1>2, <1>3 DEF Sound, KeptBut

(* What a step does to the context of the guest.                           *)
Moved(g, h) ==
  /\ Sound(h)
  /\ \A k \in Modes \ {g.cpsr.mode, h.cpsr.mode} : h.bank[k] = g.bank[k]

LEMMA StepMoves ==
  ASSUME Sound(gc), program \in Programs, Next
  PROVE  Moved(gc, gc')
<1>0. Moved(gc, gc)
  BY DEF Moved
<1>s. \A c : /\ Sound(SavedFrom(c)) /\ SavedFrom(c).cpsr.mode = gc.cpsr.mode
             /\ KeptBut(gc, SavedFrom(c), gc.cpsr.mode)
  BY SavedSound
<1>1. CASE RunWord
  BY <1>0, <1>1 DEF RunWord
<1>2. CASE EmulatedStore
  <2>1. PICK c : gc' = SetRegisters(Saved, c)
    BY <1>2 DEF EmulatedStore
  <2>2. Handled(Saved, gc') /\ gc'.cpsr.mode = Saved.cpsr.mode
    BY <2>1, <1>s, SetRegistersSound DEF Saved
  <2>3. QED
    BY <2>2, <1>s DEF Moved, Handled, KeptBut, Saved
<1>3. CASE HypercallTraps
  <2>1. PICK e \in Code :
          /\ EndsAt(host.start, e) /\ program[e].op # "svc"
          /\ gc' = PendingDelivered(Interpreted(WritePC(Saved, e), program[e]))
    BY <1>3 DEF HypercallTraps, ResumeAt
  <2>2. program[e].s \in BOOLEAN /\ Replaced(program[e])
    BY <2>1, ProgramAssumption DEF EndsAt, Instr
  <2> DEFINE g == WritePC(Saved, e)
  <2>3. Handled(gc, g) /\ g.cpsr.mode = gc.cpsr.mode
    BY <1>s, WritePCSound DEF Handled, Saved, WritePC
  <2>4. Handled(g, Interpreted(g, program[e]))
    BY <2>1, <2>2, <2>3, InterpretedSound DEF Handled
  <2> HIDE DEF g
  <2>5. Handled(gc, Interpreted(g, program[e]))
    BY <2>3, <2>4 DEF Handled, KeptBut
  <2>6. QED
    BY <2>1, <2>5, InterruptSound DEF Moved, g
<1>4. CASE RunUser
  BY <1>0, <1>4 DEF RunUser
<1>5. CASE ServiceCall
  <2> DEFINE g == WritePC(Saved, host.start)
             d == Delivered(g, "svc", 1, SvcVector)
  <2>1. gc' = PendingDelivered(d)
    BY <1>5 DEF ServiceCall, ResumeAt, deliverServiceCall
  <2>2. Handled(gc, g) /\ "svc" \in Modes
    BY <1>s, WritePCSound DEF Handled, Saved, Modes
  <2>3. Sound(d) /\ d.cpsr.mode = "svc" /\ d.cpsr.i /\ KeptBut(g, d, "svc")
    BY <2>2, DeliveredSound DEF Handled
  <2>4. gc' = d
    BY <2>1, <2>3 DEF PendingDelivered
  <2> HIDE DEF g, d
  <2>5. QED
    BY <2>2, <2>3, <2>4 DEF Moved, Handled, KeptBut
<1>6. CASE DataAbort
  <2>1. PICK a : gc' = Delivered(WritePC(Saved, a), "abt", 2, AbtVector)
    BY <1>6 DEF DataAbort, ResumeAt, deliverDataAbort
  <2> DEFINE g == WritePC(Saved, a)
  <2>2. Handled(gc, g) /\ "abt" \in Modes
    BY <1>s, WritePCSound DEF Handled, Saved, Modes
  <2>3. Sound(gc') /\ gc'.cpsr.mode = "abt" /\ KeptBut(g, gc', "abt")
    BY <2>1, <2>2, DeliveredSound DEF Handled
  <2> HIDE DEF g
  <2>4. QED
    BY <2>2, <2>3 DEF Moved, Handled, KeptBut
<1>7. CASE TimerIrq
  <2>1. gc' = [Saved EXCEPT !.irqPending = @ \/ ~ gc.cpsr.i]
    BY <1>7 DEF TimerIrq
  <2>2. QED
    BY <2>1, <1>s DEF Moved, Sound, KeptBut, Saved
<1>8. QED
  BY <1>1, <1>2, <1>3, <1>4, <1>5, <1>6, <1>7 DEF Next

IInv == Sound(gc) /\ program \in Programs

LEMMA Initially == Init => IInv
<1>1. ASSUME Init PROVE IInv
  <2>1. /\ program \in Programs
        /\ gc = [low |-> seen.low, bank |-> seen.bank, cpsr |-> seen.cpsr,
                 spsr |-> seen.spsr, r15 |-> seen.pc, irqPending |-> FALSE,
                 vector |-> seen.cpsr.mode]
        /\ seen \in Boots
    BY <1>1 DEF Init
  <2>2. seen \in Machine
    BY <2>1, ProgramAssumption
  <2>3. QED
    BY <2>1, <2>2 DEF IInv, Sound, Machine, Psr
<1>2. QED  BY <1>1

LEMMA Inductive == IInv /\ [Next]_vars => IInv' /\ (gc' = gc \/ Moved(gc, gc'))
<1>1. ASSUME IInv, Next PROVE IInv' /\ Moved(gc, gc')
  BY <1>1, StepMoves DEF IInv, Moved, Next, Sound
<1>2. ASSUME IInv, UNCHANGED vars PROVE IInv' /\ gc' = gc
  BY <1>2 DEF IInv, vars, Sound
<1>3. QED  BY <1>1, <1>2

LEMMA Always == Spec => []IInv
BY Initially, Inductive, PTL DEF Spec

(* Whatever the guest does, the processor's vectors are those of its mode, *)
(* so that the next exception saves into the right bank.                   *)
THEOREM VectorsFollow == Spec => []VectorFollowsMode
<1>1. IInv => VectorFollowsMode
  BY DEF IInv, Sound, VectorFollowsMode
<1>2. QED  BY <1>1, Always, PTL

(* No step changes the banked registers of a mode that the guest neither   *)
(* leaves nor enters: the handlers never write the wrong bank.             *)
THEOREM BanksStay == Spec => BanksKept
<1>1. IInv /\ [Next]_vars =>
        [\A k \in Modes \ {gc.cpsr.mode, gc'.cpsr.mode} : gc'.bank[k] = gc.bank[k]]_vars
  BY Inductive DEF Moved
<1>2. QED  BY <1>1, Always, PTL DEF Spec, BanksKept
-----------------------------------------------------------------------------
(* The words planted for instructions that only load the PC into the       *)
(* register they write anyway.                                             *)

LEMMA Numbers ==
  /\ Modulus \in Nat /\ Modulus > 0 /\ Half \in Nat /\ Half > 0
  /\ HostPC \in Word /\ PC \notin Regs
  /\ \A x, y \in Int : Plus(x, y) \in Word
<1>1. /\ Modulus \in Nat /\ Modulus > 0 /\ Half \in Nat /\ Half > 0
  BY CoreAssumption DEF Modulus
<1>2. PC \notin Regs
  BY CoreAssumption DEF PC, Regs, Banked, SP, LR
<1>3. HostPC \in Word
  BY <1>1 DEF HostPC, Word
<1>4. \A x, y \in Int : Plus(x, y) \in Word
  BY <1>1 DEF Plus, Word
<1>5. QED  BY <1>1, <1>2, <1>3, <1>4

(* A core with the value v in register d.                                  *)
Holding(c, d, v) == [c EXCEPT !.r[d] = v]

(* The two words that the translator plants put the guest's PC, the        *)
(* address of the instruction plus 2, into the register, and nothing else, *)
(* if their condition holds, wherever they run.                            *)
THEOREM PCWritten ==
  ASSUME NEW c \in Cores, NEW cond \in {"al", "eq"}, NEW d \in Regs, NEW a \in Word
  PROVE  LET w == armWritePCToRegister(cond, d, a)
         IN Execute(w[2], Execute(w[1], c, HostPC), HostPC) =
              IF cond = "al" \/ c.z THEN Holding(c, d, Plus(a, 2)) ELSE c
<1> DEFINE p == Plus(a, 2)
           w1 == [Plain EXCEPT !.op = "movw", !.cond = cond, !.d = d, !.imm = p % Half]
           w2 == [Plain EXCEPT !.op = "movt", !.cond = cond, !.d = d, !.imm = p \div Half]
           low == Holding(c, d, p % Half)
<1>1. /\ armWritePCToRegister(cond, d, a)[1] = w1
      /\ armWritePCToRegister(cond, d, a)[2] = w2
  BY DEF armWritePCToRegister
<1>2. p \in Nat /\ d # PC
  BY Numbers DEF Word
<1>3. /\ w1.op = "movw" /\ w1.cond = cond /\ w1.d = d /\ w1.imm = p % Half
      /\ w2.op = "movt" /\ w2.cond = cond /\ w2.d = d /\ w2.imm = p \div Half
  BY DEF Plain
<1>4. CASE ~ (cond = "al" \/ c.z)
  <2>1. ~ Passed(w1, c.z) /\ ~ Passed(w2, c.z)
    BY <1>3, <1>4 DEF Passed
  <2> HIDE DEF w1, w2
  <2>2. Execute(w1, c, HostPC) = c /\ Execute(w2, c, HostPC) = c
    BY <2>1 DEF Execute
  <2>3. QED  BY <1>1, <1>4, <2>2
<1>5. CASE cond = "al" \/ c.z
  <2> HIDE DEF w1, w2, p
  <2>1. low.z = c.z /\ low.r[d] = p % Half
    BY DEF low, Holding, Cores
  <2>2. Passed(w1, c.z) /\ Passed(w2, low.z)
    BY <1>3, <1>5, <2>1 DEF Passed
  <2>3. Execute(w1, c, HostPC) = low
    BY <1>2, <1>3, <2>2, Zenon DEF Execute, Write, Holding
  <2>4. (p \div Half) * Half + ((p % Half) % Half) = p
    BY <1>2, Numbers, SMT
  <2>5. Execute(w2, low, HostPC) = Write(low, d, w2.imm * Half + (Reg(low, d, HostPC) % Half))
    BY <1>3, <2>2, Zenon DEF Execute
  <2>6. Reg(low, d, HostPC) = p % Half
    BY <1>2, <2>1 DEF Reg
  <2>7. Execute(w2, low, HostPC) = [low EXCEPT !.r[d] = p]
    BY <1>2, <1>3, <2>4, <2>5, <2>6, Zenon DEF Write
  <2>8. [low EXCEPT !.r[d] = p] = Holding(c, d, p)
    BY DEF low, Holding, Cores
  <2>9. QED  BY <1>1, <1>5, <2>3, <2>7, <2>8 DEF p
<1>6. QED  BY <1>4, <1>5

(* The core after two words, or three.                                     *)
Ran(w, c) ==
  LET two == Execute(w[2], Execute(w[1], c, HostPC), HostPC)
  IN IF Len(w) = 2 THEN two ELSE Execute(w[3], two, HostPC)

(* The PC is the first operand, or the register that is moved, or the base *)
(* of a load, and the instruction writes a register.                       *)
ReadsPC(i) ==
  /\ i.d \in Regs
  /\ \/ i.op \in {"alu", "ldr"} /\ i.n = PC
     \/ i.op \in {"mov", "mvn"} /\ i.m = PC

(* The last of three words, which finds the PC in its destination, does    *)
(* what the instruction would do.                                          *)
LEMMA LastWord ==
  ASSUME NEW c \in Cores, NEW p \in Word, NEW i \in Instr, ReadsPC(i), Passed(i, c.z),
         NEW w, w = IF i.op \in {"alu", "ldr"} THEN [i EXCEPT !.n = i.d]
                                               ELSE [i EXCEPT !.m = i.d]
  PROVE  Execute(w, Holding(c, i.d, p), HostPC) = Execute(i, c, p)
<1> DEFINE h == Holding(c, i.d, p)
<1>1. i.d # PC /\ i.d \in Regs
  BY Numbers DEF ReadsPC
<1>2. h.z = c.z /\ h.mem = c.mem /\ h.r[i.d] = p
  BY <1>1 DEF Holding, Cores
<1>3. \A v : Write(h, i.d, v) = Write(c, i.d, v)
  BY <1>1 DEF Holding, Cores, Write
<1>4. \A v, b : Write([h EXCEPT !.z = b], i.d, v) = Write([c EXCEPT !.z = b], i.d, v)
  BY <1>1 DEF Holding, Cores, Write
<1>5. /\ w.op = i.op /\ w.cond = i.cond /\ w.d = i.d /\ w.imm = i.imm /\ w.s = i.s
      /\ i.op \in {"alu", "ldr"} => w.n = i.d
      /\ i.op \in {"mov", "mvn"} => w.m = i.d
  BY DEF Instr
<1>6. Passed(w, h.z)
  BY <1>2, <1>5 DEF Passed
<1>7. Reg(h, i.d, HostPC) = p /\ \A k : k = PC => Reg(c, k, p) = p
  BY <1>1, <1>2 DEF Reg
<1> HIDE DEF h
<1>8. ASSUME NEW v PROVE Result(w, h, v) = Result(i, c, v)
  <2>1. CASE i.s
    <3>1. Result(w, h, v) = Write([h EXCEPT !.z = (v = 0)], i.d, v)
      BY <1>5, <2>1, Zenon DEF Result
    <3>2. Result(i, c, v) = Write([c EXCEPT !.z = (v = 0)], i.d, v)
      BY <2>1, Zenon DEF Result
    <3>3. QED  BY <3>1, <3>2, <1>4, Zenon DEF h
  <2>2. CASE ~ i.s
    <3>1. Result(w, h, v) = Write(h, i.d, v)
      BY <1>5, <2>2, Zenon DEF Result
    <3>2. Result(i, c, v) = Write(c, i.d, v)
      BY <2>2, Zenon DEF Result
    <3>3. QED  BY <3>1, <3>2, <1>3, Zenon DEF h
  <2>3. QED  BY <2>1, <2>2
<1>9. CASE i.op = "alu"
  <2>1. Execute(w, h, HostPC) = Result(w, h, Plus(Reg(h, w.n, HostPC), w.imm))
    BY <1>5, <1>6, <1>9, Zenon DEF Execute
  <2>2. Execute(i, c, p) = Result(i, c, Plus(Reg(c, i.n, p), i.imm))
    BY <1>9, Zenon DEF Execute
  <2>3. w.n = i.d /\ i.n = PC
    BY <1>5, <1>9 DEF ReadsPC
  <2>4. QED  BY <2>1, <2>2, <2>3, <1>5, <1>7, <1>8, Zenon DEF h
<1>10. CASE i.op = "ldr"
  <2>1. Execute(w, h, HostPC) = Write(h, w.d, h.mem[Address(w, h, HostPC)])
    BY <1>5, <1>6, <1>10, Zenon DEF Execute
  <2>2. Execute(i, c, p) = Write(c, i.d, c.mem[Address(i, c, p)])
    BY <1>10, Zenon DEF Execute
  <2>3. w.n = i.d /\ i.n = PC /\ i.op # "ldrr" /\ w.op # "ldrr"
    BY <1>5, <1>10 DEF ReadsPC
  <2>4. Address(w, h, HostPC) = Address(i, c, p)
    BY <2>3, <1>5, <1>7, Zenon DEF Address
  <2>5. QED  BY <2>1, <2>2, <2>4, <1>2, <1>3, <1>5, Zenon DEF h
<1>11. CASE i.op = "mov"
  <2>1. Execute(w, h, HostPC) = Result(w, h, Reg(h, w.m, HostPC))
    BY <1>5, <1>6, <1>11, Zenon DEF Execute
  <2>2. Execute(i, c, p) = Result(i, c, Reg(c, i.m, p))
    BY <1>11, Zenon DEF Execute
  <2>3. w.m = i.d /\ i.m = PC
    BY <1>5, <1>11 DEF ReadsPC
  <2>4. QED  BY <2>1, <2>2, <2>3, <1>7, <1>8, Zenon DEF h
<1>12. CASE i.op = "mvn"
  <2>1. Execute(w, h, HostPC) = Result(w, h, Modulus - 1 - Reg(h, w.m, HostPC))
    BY <1>5, <1>6, <1>12, Zenon DEF Execute
  <2>2. Execute(i, c, p) = Result(i, c, Modulus - 1 - Reg(c, i.m, p))
    BY <1>12, Zenon DEF Execute
  <2>3. w.m = i.d /\ i.m = PC
    BY <1>5, <1>12 DEF ReadsPC
  <2>4. QED  BY <2>1, <2>2, <2>3, <1>7, <1>8, Zenon DEF h
<1>13. QED
  BY <1>9, <1>10, <1>11, <1>12 DEF ReadsPC, h

(* Instructions that use the PC and write a register are translated to     *)
(* words that do, in the code cache, exactly what the instruction does at  *)
(* its own address: same registers, flag and memory.                       *)
THEOREM PatchFaithful ==
  ASSUME NEW c \in Cores, NEW a \in Word, NEW i \in Instr, ReadsPC(i)
  PROVE  Ran(Translated(i, a), c) = Execute(i, c, Plus(a, 2))
<1> DEFINE p == Plus(a, 2)
           pre == armWritePCToRegister(i.cond, i.d, a)
           last == IF i.op \in {"alu", "ldr"} THEN [i EXCEPT !.n = i.d]
                                              ELSE [i EXCEPT !.m = i.d]
           two == Execute(pre[2], Execute(pre[1], c, HostPC), HostPC)
<1>1. p \in Word /\ i.d \in Regs /\ i.cond \in {"al", "eq"} /\ i.d # PC
  <2>1. a \in Int /\ 2 \in Int
    BY Numbers DEF Word
  <2>2. p \in Word
    BY <2>1, Numbers
  <2>3. i.cond \in {"al", "eq"}
    BY DEF Instr
  <2>4. i.d \in Regs /\ i.d # PC
    BY Numbers DEF ReadsPC
  <2>5. QED  BY <2>2, <2>3, <2>4
<1>2. two = IF Passed(i, c.z) THEN Holding(c, i.d, p) ELSE c
  BY <1>1, PCWritten DEF Passed
<1>3. CASE i.op = "mov" /\ ~ i.s
  <2>1. Translated(i, a) = pre \o << >>
    BY <1>3 DEF Translated, armALUreg, armMovPCInstruction, ReadsPC
  <2>2. Len(pre \o << >>) = 2 /\ (pre \o << >>)[1] = pre[1] /\ (pre \o << >>)[2] = pre[2]
    BY DEF armWritePCToRegister
  <2>3. Ran(Translated(i, a), c) = two
    BY <2>1, <2>2, Zenon DEF Ran
  <2>4. i.m = PC
    BY <1>3 DEF ReadsPC
  <2>5. CASE Passed(i, c.z)
    <3>1. Execute(i, c, p) = Holding(c, i.d, p)
      <4>1. Execute(i, c, p) = Result(i, c, Reg(c, i.m, p))
        BY <1>3, <2>5, Zenon DEF Execute
      <4>2. Reg(c, i.m, p) = p BY <2>4, Zenon DEF Reg
      <4>3. Result(i, c, p) = Write(c, i.d, p)
        BY <1>3, Zenon DEF Result
      <4>4. Write(c, i.d, p) = Holding(c, i.d, p)
        BY <1>1, Zenon DEF Write, Holding
      <4> QED BY <4>1, <4>2, <4>3, <4>4
    <3>2. QED  BY <3>1, <2>3, <2>5, <1>2
  <2>6. CASE ~ Passed(i, c.z)
    <3>1. Execute(i, c, p) = c
      BY <2>6, Zenon DEF Execute
    <3> HIDE DEF two
    <3>2. QED  BY <3>1, <2>3, <2>6, <1>2
  <2>7. QED  BY <2>5, <2>6
<1>4. CASE ~ (i.op = "mov" /\ ~ i.s)
  <2>1. Translated(i, a) = pre \o << last >>
    BY <1>4 DEF Translated, armALUimm, armALUreg, armMovPCInstruction, armShiftPCImm, armLdrPCImm,
              ReadsPC
  <2>2. /\ Len(pre \o << last >>) = 3
        /\ (pre \o << last >>)[1] = pre[1] /\ (pre \o << last >>)[2] = pre[2]
        /\ (pre \o << last >>)[3] = last
    <3> HIDE DEF last
    <3>1. QED  BY DEF armWritePCToRegister
  <2>3. Ran(Translated(i, a), c) = Execute(last, two, HostPC)
    <3>1. Len(pre \o << last >>) # 2
      BY <2>2
    <3>2. QED  BY <2>1, <2>2, <3>1, Zenon DEF Ran
  <2>4. CASE Passed(i, c.z)
    BY <2>3, <2>4, <1>1, <1>2, LastWord
  <2>5. CASE ~ Passed(i, c.z)
    <3>1. last.cond = i.cond
      BY DEF Instr
    <3>2. ~ Passed(last, c.z)
      BY <3>1, <2>5 DEF Passed
    <3>3. two = c BY <2>5, <1>2
    <3> HIDE DEF last, two
    <3>4. Execute(last, c, HostPC) = c
      BY <3>2, Zenon DEF Execute
    <3>5. Execute(i, c, p) = c
      BY <2>5, Zenon DEF Execute
    <3>6. QED  BY <2>3, <3>3, <3>4, <3>5
  <2>6. QED  BY <2>4, <2>5
<1>5. QED  BY <1>3, <1>4

LEMMA LeastNatural ==
  ASSUME NEW T \in SUBSET Nat, T # {}
  PROVE  \E x \in T : \A y \in T : x <= y
<1> DEFINE R == OpToRel(<, Nat)
<1>1. PICK x \in T : \A y \in T : ~ (<<y, x>> \in R)
  BY NatLessThanWellFounded, WFMin
<1>2. ASSUME NEW y \in T  PROVE x <= y
  <2>1. ~ (<<y, x>>[1] < <<y, x>>[2])
    BY <1>1, Zenon DEF OpToRel
  <2> QED  BY <2>1
<1> QED  BY <1>2

LEMMA ListsAreFinite ==
  ASSUME NEW list \in SUBSET (Regs \cup {PC})
  PROVE  IsFiniteSet(list) /\ Cardinality(list) \in Nat
<1>1. list \in SUBSET (0 .. 15) BY CoreAssumption DEF Regs, Banked, SP, LR, PC
<1>2. IsFiniteSet(0 .. 15)
  <2> DEFINE a == 0
             b == 15
  <2>1. a \in Int /\ b \in Int OBVIOUS
  <2> HIDE DEF a, b
  <2>2. IsFiniteSet(a .. b) BY <2>1, FS_Interval
  <2> QED BY <2>2 DEF a, b
<1> QED BY <1>1, <1>2, FS_Subset, FS_CardinalityType

-----------------------------------------------------------------------------
(* What a word may be for the core to stay a core: halves of a word are     *)
(* planted, block loads have a base other than the PC, which they do not    *)
(* load.                                                                    *)
Runnable ==
  {w \in [op : Ops \cup HostOps, cond : {"al", "eq"}, s : BOOLEAN, d : Regs \cup {PC},
          n : Regs \cup {PC}, m : Regs \cup {PC}, imm : Int, list : SUBSET (Regs \cup {PC}),
          mask : SUBSET Fields] :
     /\ w.op = "movw" => w.imm \in Word
     /\ w.op = "movt" => w.imm \in 0 .. Half - 1
     /\ w.op = "ldm"  => w.n # PC}

LEMMA RunnableFields ==
  ASSUME NEW w \in Runnable
  PROVE  /\ w.op \in Ops \cup HostOps /\ w.s \in BOOLEAN
         /\ w.d \in Regs \cup {PC} /\ w.n \in Regs \cup {PC} /\ w.m \in Regs \cup {PC}
         /\ w.imm \in Int /\ w.list \in SUBSET (Regs \cup {PC})
         /\ w.op = "movw" => w.imm \in Word
         /\ w.op = "movt" => w.imm \in 0 .. Half - 1
         /\ w.op = "ldm"  => w.n # PC
BY DEF Runnable

LEMMA CoreFields ==
  ASSUME NEW c \in Cores
  PROVE  /\ c.r \in [Regs -> Word] /\ c.z \in BOOLEAN /\ c.tp \in Word /\ c.mem \in [Data -> Word]
         /\ \A r \in [Regs -> Word] : [c EXCEPT !.r = r] \in Cores
         /\ \A z \in BOOLEAN : [c EXCEPT !.z = z] \in Cores
         /\ \A v \in Word : [c EXCEPT !.tp = v] \in Cores
         /\ \A mem \in [Data -> Word] : [c EXCEPT !.mem = mem] \in Cores
BY DEF Cores

LEMMA RegWord ==
  ASSUME NEW c \in Cores, NEW n \in Regs \cup {PC}, NEW pc \in Word
  PROVE  Reg(c, n, pc) \in Word
BY CoreFields DEF Reg

LEMMA WriteCore ==
  ASSUME NEW c \in Cores, NEW n \in Regs \cup {PC}, NEW v \in Word
  PROVE  Write(c, n, v) \in Cores
<1>1. CASE n = PC BY <1>1 DEF Write
<1>2. CASE n # PC
  <2>1. n \in Regs BY <1>2
  <2>2. [c.r EXCEPT ![n] = v] \in [Regs -> Word] BY <2>1, CoreFields
  <2>3. Write(c, n, v) = [c EXCEPT !.r = [c.r EXCEPT ![n] = v]] BY <1>2 DEF Write, Cores
  <2> QED BY <2>2, <2>3, CoreFields
<1> QED BY <1>1, <1>2

LEMMA ResultCore ==
  ASSUME NEW i, i.d \in Regs \cup {PC}, NEW c \in Cores, NEW v \in Word
  PROVE  Result(i, c, v) \in Cores
<1>1. [c EXCEPT !.z = (v = 0)] \in Cores BY CoreFields
<1> QED BY <1>1, WriteCore DEF Result

LEMMA WordArithmetic ==
  /\ Word \subseteq Int
  /\ \A v \in Word : Modulus - 1 - v \in Word
  /\ \A h \in 0 .. Half - 1, v \in Word : h * Half + (v % Half) \in Word
<1>1. Word \subseteq Int /\ \A v \in Word : Modulus - 1 - v \in Word BY Numbers DEF Word
<1>2. ASSUME NEW h \in 0 .. Half - 1, NEW v \in Word PROVE h * Half + (v % Half) \in Word
  <2>1. v % Half \in 0 .. Half - 1 BY Numbers DEF Word
  <2> DEFINE x == v % Half
  <2>2. x \in 0 .. Half - 1 BY <2>1
  <2> HIDE DEF x
  <2>3. Half \in Nat /\ Half > 0 BY Numbers
  <2>4. (Half - 1 - h) * Half >= 0 /\ h * Half >= 0 BY <2>3
  <2>5. (Half - 1 - h) * Half = Half * Half - Half - h * Half BY <2>3
  <2>6. h * Half + x \in 0 .. Half * Half - 1 BY <2>2, <2>3, <2>4, <2>5
  <2> QED BY <2>6 DEF x, Word, Modulus
<1> QED BY <1>1, <1>2

LEMMA StoredWords ==
  ASSUME NEW i \in Runnable, NEW c \in Cores, NEW pc \in Word
  PROVE  Stored(i, c, pc) \in [Data -> Word]
<1>1. \A n \in Regs \cup {PC} : Reg(c, n, pc) \in Word BY RegWord
<1>2. i.d \in Regs \cup {PC} /\ i.list \in SUBSET (Regs \cup {PC}) BY RunnableFields
<1>3. \A a \in Data : c.mem[a] \in Word BY CoreFields
<1>4. ASSUME NEW a \in Data PROVE Stored(i, c, pc)[a] \in Word
  <2> DEFINE P(n) == a = Place(i, Reg(c, i.n, pc), n)
  <2>1. (\E n \in i.list : P(n)) => (CHOOSE n \in i.list : P(n)) \in i.list OBVIOUS
  <2> HIDE DEF P
  <2> DEFINE x == CHOOSE n \in i.list : P(n)
  <2>2. Stored(i, c, pc)[a] = IF i.op = "str" /\ a = Address(i, c, pc) THEN Reg(c, i.d, pc)
                              ELSE IF i.op = "stm" /\ \E n \in i.list : P(n) THEN Reg(c, x, pc)
                              ELSE c.mem[a]
    BY DEF Stored, P
  <2>3. (\E n \in i.list : P(n)) => x \in i.list BY <2>1
  <2> HIDE DEF x
  <2> QED BY <1>1, <1>2, <1>3, <2>2, <2>3
<1> QED BY <1>4 DEF Stored

LEMMA LoadedWords ==
  ASSUME NEW i, i.list \in SUBSET (Regs \cup {PC}), i.n \in Regs,
         NEW c \in Cores, \A n \in i.list : Place(i, c.r[i.n], n) \in Data
  PROVE  Loaded(i, c) \in [Regs -> Word]
<1>1. c.r \in [Regs -> Word] /\ c.mem \in [Data -> Word] BY CoreFields
<1>2. Cardinality(i.list) \in Nat BY ListsAreFinite
<1>3. ASSUME NEW n \in Regs PROVE Plus(c.r[n], Cardinality(i.list)) \in Word
  <2>1. c.r[n] \in Int BY <1>1, WordArithmetic
  <2> QED BY <1>2, <2>1, Numbers
<1>4. ASSUME NEW n \in Regs PROVE Loaded(i, c)[n] \in Word
  <2>1. Loaded(i, c)[n] = IF n \in i.list THEN c.mem[Place(i, c.r[i.n], n)]
                          ELSE IF n = i.n THEN Plus(c.r[n], Cardinality(i.list)) ELSE c.r[n]
    BY DEF Loaded
  <2> QED BY <1>1, <1>3, <2>1
<1> QED BY <1>4 DEF Loaded

(* A word that reaches what it touches leaves a core a core.                *)
LEMMA ExecuteCore ==
  ASSUME NEW i \in Runnable, NEW c \in Cores, NEW pc \in Word,
         NEW where, Reaches(i, c, pc, where), i.op \in {"ldr", "ldrr", "ldm"} => where \subseteq Data
  PROVE  Execute(i, c, pc) \in Cores
<1>1. CASE ~ Passed(i, c.z) BY <1>1 DEF Execute
<1>2. CASE Passed(i, c.z)
  <2> USE RunnableFields, <1>2
  <2>1. Reg(c, i.n, pc) \in Word /\ Reg(c, i.m, pc) \in Word /\ Reg(c, i.d, pc) \in Word
    BY RegWord
  <2>2. i.imm \in Int /\ \A v \in Word : v \in Int BY WordArithmetic
  <2>3. CASE i.op = "alu"
    <3>1. Execute(i, c, pc) = Result(i, c, Plus(Reg(c, i.n, pc), i.imm)) BY <2>3, Zenon DEF Execute
    <3>2. Plus(Reg(c, i.n, pc), i.imm) \in Word BY <2>1, <2>2, Numbers
    <3> QED BY <3>1, <3>2, ResultCore
  <2>4. CASE i.op = "mov"
    <3>1. Execute(i, c, pc) = Result(i, c, Reg(c, i.m, pc)) BY <2>4, Zenon DEF Execute
    <3> QED BY <3>1, <2>1, ResultCore
  <2>5. CASE i.op = "mvn"
    <3>1. Execute(i, c, pc) = Result(i, c, Modulus - 1 - Reg(c, i.m, pc)) BY <2>5, Zenon DEF Execute
    <3>2. Modulus - 1 - Reg(c, i.m, pc) \in Word BY <2>1, WordArithmetic
    <3> QED BY <3>1, <3>2, ResultCore
  <2>6. CASE i.op = "teq"
    <3>1. Execute(i, c, pc) = [c EXCEPT !.z = (Reg(c, i.n, pc) = i.imm)] BY <2>6, Zenon DEF Execute
    <3> QED BY <3>1, CoreFields
  <2>7. CASE i.op = "movw"
    <3>1. Execute(i, c, pc) = Write(c, i.d, i.imm) BY <2>7, Zenon DEF Execute
    <3> QED BY <3>1, <2>7, WriteCore
  <2>8. CASE i.op = "movt"
    <3>1. Execute(i, c, pc) = Write(c, i.d, i.imm * Half + (Reg(c, i.d, pc) % Half))
      BY <2>8, Zenon DEF Execute
    <3>2. i.imm * Half + (Reg(c, i.d, pc) % Half) \in Word BY <2>8, <2>1, WordArithmetic
    <3> QED BY <3>1, <3>2, WriteCore
  <2>9. CASE i.op \in {"ldr", "ldrr"}
    <3>1. Execute(i, c, pc) = Write(c, i.d, c.mem[Address(i, c, pc)]) BY <2>9, Zenon DEF Execute
    <3>2. Touched(i, c, pc) = {Address(i, c, pc)} BY <2>9 DEF Touched
    <3>3. Address(i, c, pc) \in Data BY <2>9, <3>2 DEF Reaches
    <3>4. c.mem[Address(i, c, pc)] \in Word BY <3>3, CoreFields
    <3> QED BY <3>1, <3>4, WriteCore
  <2>10. CASE i.op = "str"
    <3>1. Execute(i, c, pc) = [c EXCEPT !.mem = Stored(i, c, pc)] BY <2>10, Zenon DEF Execute
    <3> QED BY <3>1, StoredWords, CoreFields
  <2>11. CASE i.op = "stm"
    <3> DEFINE v == Plus(Reg(c, i.n, pc), - Cardinality(i.list))
    <3>1. Execute(i, c, pc) = [Write(c, i.n, v) EXCEPT !.mem = Stored(i, c, pc)]
      BY <2>11, Zenon DEF Execute
    <3>2. Cardinality(i.list) \in Nat BY ListsAreFinite
    <3>3. Reg(c, i.n, pc) \in Int /\ - Cardinality(i.list) \in Int BY <2>1, <2>2, <3>2
    <3>4. v \in Word BY <3>3, Numbers
    <3> HIDE DEF v
    <3> DEFINE e == Write(c, i.n, v)
               mem == Stored(i, c, pc)
    <3>5. e \in Cores BY <3>4, WriteCore
    <3>6. mem \in [Data -> Word] BY StoredWords
    <3> HIDE DEF e, mem
    <3>7. [e EXCEPT !.mem = mem] \in Cores BY <3>5, <3>6, CoreFields
    <3> QED BY <3>1, <3>7 DEF e, mem
  <2>12. CASE i.op = "ldm"
    <3>1. Execute(i, c, pc) = [c EXCEPT !.r = Loaded(i, c)] BY <2>12, Zenon DEF Execute
    <3>2. i.n \in Regs /\ Reg(c, i.n, pc) = c.r[i.n] BY <2>12 DEF Reg
    <3>3. Touched(i, c, pc) = {Place(i, Reg(c, i.n, pc), n) : n \in i.list} BY <2>12 DEF Touched
    <3>4. \A n \in i.list : Place(i, c.r[i.n], n) \in Data BY <2>12, <3>2, <3>3 DEF Reaches
    <3> QED BY <3>1, <3>2, <3>4, LoadedWords, CoreFields
  <2>13. CASE i.op = "mcr"
    <3>1. Execute(i, c, pc) = [c EXCEPT !.tp = Reg(c, i.d, pc)] BY <2>13, Zenon DEF Execute
    <3> QED BY <3>1, <2>1, CoreFields
  <2>14. CASE i.op = "mrc"
    <3>1. Execute(i, c, pc) = Write(c, i.d, c.tp) BY <2>14, Zenon DEF Execute
    <3> QED BY <3>1, WriteCore, CoreFields
  <2>15. CASE i.op \notin {"alu", "mov", "mvn", "teq", "movw", "movt", "ldr", "ldrr", "str", "stm",
                           "ldm", "mcr", "mrc"}
    <3>1. Execute(i, c, pc) = c BY <2>15, Zenon DEF Execute
    <3> QED BY <3>1
  <2> QED BY <2>3, <2>4, <2>5, <2>6, <2>7, <2>8, <2>9, <2>10, <2>11, <2>12, <2>13, <2>14, <2>15
<1> QED BY <1>1, <1>2

-----------------------------------------------------------------------------
(* What the translator plants can run.                                      *)

Conds == {"al", "eq"}

LEMMA InstrRuns ==
  ASSUME NEW i \in Instr, i.op \in Ops, i.op = "ldm" => i.n # PC
  PROVE  /\ i \in Runnable
         /\ \A d \in Regs \cup {PC} : i.op # "ldm" =>
              /\ [i EXCEPT !.n = d] \in Runnable /\ [i EXCEPT !.m = d] \in Runnable
              /\ \A e \in Regs \cup {PC} : [i EXCEPT !.d = d, !.n = e] \in Runnable
<1>1. i.op \notin {"movw", "movt"} BY DEF Ops
<1>2. i.imm \in Int BY WordArithmetic DEF Instr
<1> QED BY <1>1, <1>2 DEF Instr, Runnable

LEMMA LowRegisters == /\ {0, 1, 2} \subseteq Regs /\ {SP, LR} \subseteq Regs
BY CoreAssumption DEF Regs, Banked

LEMMA StackRuns ==
  ASSUME NEW cond \in Conds, NEW d \in Regs
  PROVE  /\ Push(cond, d) \in Runnable /\ Pop(cond, d) \in Runnable
         /\ [Plain EXCEPT !.op = "mcr", !.cond = cond, !.d = d] \in Runnable
         /\ [Plain EXCEPT !.op = "mrc", !.cond = cond, !.d = d] \in Runnable
<1>1. SP # PC /\ SP \in Regs /\ 0 \in Regs BY LowRegisters DEF SP, PC
<1>2. {"stm", "ldm"} \subseteq Ops /\ {"mcr", "mrc"} \subseteq HostOps BY DEF Ops, HostOps
<1>3. "al" \in Conds /\ cond \in {"al", "eq"} /\ 0 \in Int /\ d \in Regs \cup {PC} BY DEF Conds
<1>4. Push(cond, d) \in Runnable BY <1>1, <1>2, <1>3 DEF Push, Plain, Runnable
<1>5. Pop(cond, d) \in Runnable BY <1>1, <1>2, <1>3 DEF Pop, Plain, Runnable
<1>6. [Plain EXCEPT !.op = "mcr", !.cond = cond, !.d = d] \in Runnable
  BY <1>1, <1>2, <1>3 DEF Plain, Runnable
<1>7. [Plain EXCEPT !.op = "mrc", !.cond = cond, !.d = d] \in Runnable
  BY <1>1, <1>2, <1>3 DEF Plain, Runnable
<1> QED BY <1>4, <1>5, <1>6, <1>7

LEMMA SpillsRun ==
  ASSUME NEW cond \in Conds, NEW d \in Regs
  PROVE  /\ armSpillRegister(cond, d) \in Seq(Runnable)
         /\ armRestoreRegister(cond, d) \in Seq(Runnable)
<1> DEFINE mcr == [Plain EXCEPT !.op = "mcr", !.cond = cond, !.d = d]
           mrc == [Plain EXCEPT !.op = "mrc", !.cond = cond, !.d = d]
           push == Push(cond, d)
           pop == Pop(cond, d)
<1>1. /\ armSpillRegister(cond, d) = << IF mmu THEN push ELSE mcr >>
      /\ armRestoreRegister(cond, d) = << IF mmu THEN pop ELSE mrc >>
  BY DEF armSpillRegister, armRestoreRegister
<1>2. mcr \in Runnable /\ mrc \in Runnable /\ push \in Runnable /\ pop \in Runnable BY StackRuns
<1> HIDE DEF mcr, mrc, push, pop
<1>3. \A w \in Runnable : << w >> \in Seq(Runnable) OBVIOUS
<1>4. (IF mmu THEN push ELSE mcr) \in Runnable /\ (IF mmu THEN pop ELSE mrc) \in Runnable BY <1>2
<1> QED BY <1>1, <1>3, <1>4

LEMMA HalvesRun ==
  ASSUME NEW cond \in Conds, NEW d \in Regs \cup {PC}, NEW a \in Int
  PROVE  armWritePCToRegister(cond, d, a) \in Seq(Runnable)
<1> DEFINE p == Plus(a, 2)
           w1 == [Plain EXCEPT !.op = "movw", !.cond = cond, !.d = d, !.imm = p % Half]
           w2 == [Plain EXCEPT !.op = "movt", !.cond = cond, !.d = d, !.imm = p \div Half]
<1>1. p \in 0 .. Half * Half - 1 /\ Half \in Nat /\ Half > 0
  BY Numbers DEF Word, Modulus
<1>2. armWritePCToRegister(cond, d, a) = << w1, w2 >> BY DEF armWritePCToRegister
<1> HIDE DEF p
<1> DEFINE q == p \div Half
           x == p % Half
<1>3. q \in Nat /\ x \in 0 .. Half - 1 /\ p = q * Half + x BY <1>1
<1> HIDE DEF q, x
<1>4. q < Half
  <2>1. SUFFICES ASSUME q >= Half PROVE FALSE BY <1>1, <1>3
  <2>2. (q - Half) * Half >= 0 BY <1>1, <1>3, <2>1
  <2>3. (q - Half) * Half = q * Half - Half * Half BY <1>1, <1>3
  <2> QED BY <1>1, <1>3, <2>2, <2>3
<1>5. x \in Word
  <2>1. Half * Half >= Half
    <3>1. (Half - 1) * Half >= 0 BY <1>1
    <3>2. (Half - 1) * Half = Half * Half - Half BY <1>1
    <3> QED BY <1>1, <3>1, <3>2
  <2> QED BY <1>1, <1>3, <2>1 DEF Word, Modulus
<1>6. q \in 0 .. Half - 1 /\ q \in Int /\ x \in Int BY <1>1, <1>3, <1>4
<1>7. 0 \in Regs BY LowRegisters
<1>8. w1 \in Runnable
  <2>1. w1 = [Plain EXCEPT !.op = "movw", !.cond = cond, !.d = d, !.imm = x] BY DEF x
  <2> QED BY <1>5, <1>6, <1>7, <2>1 DEF Plain, Runnable, Conds, HostOps
<1>9. w2 \in Runnable
  <2>1. w2 = [Plain EXCEPT !.op = "movt", !.cond = cond, !.d = d, !.imm = q] BY DEF q
  <2> QED BY <1>6, <1>7, <2>1 DEF Plain, Runnable, Conds, HostOps
<1> HIDE DEF w1, w2
<1> QED BY <1>2, <1>8, <1>9

LEMMA OtherRegister ==
  ASSUME NEW a, NEW b
  PROVE  getOtherRegisterOf2(a, b) \in Regs \ {a, b} /\ getOtherRegisterOf2(a, b) \in {0, 1, 2}
<1> DEFINE S == {0, 1, 2} \ {a, b}
<1>1. S \in SUBSET Nat /\ S # {} OBVIOUS
<1>2. S \subseteq Regs BY LowRegisters
<1>3. \E n \in S : \A k \in S : n <= k
  <2> HIDE DEF S
  <2> QED BY <1>1, LeastNatural
<1>4. (CHOOSE n \in S : \A k \in S : n <= k) \in S BY <1>3
<1>5. getOtherRegisterOf2(a, b) \in S BY <1>4 DEF getOtherRegisterOf2
<1> QED BY <1>2, <1>5

(* A copied instruction, as the scanner finds it.                           *)
Copyable(i) == i \in Instr /\ i.op \in Ops /\ ~ Replaced(i) /\ (i.op = "ldm" => i.n # PC)

LEMMA TranslatedRuns ==
  ASSUME NEW i, Copyable(i), NEW a \in Int
  PROVE  Translated(i, a) \in Seq(Runnable) /\ Len(Translated(i, a)) > 0
<1> DEFINE Some == {ws \in Seq(Runnable) : Len(ws) > 0}
<1>0. /\ i \in Instr /\ i.op \in Ops /\ (i.op = "ldm" => i.n # PC) /\ i.cond \in Conds
      /\ i.d \in Regs \cup {PC} /\ i.n \in Regs \cup {PC} /\ i.m \in Regs \cup {PC}
      /\ i.list \in SUBSET (Regs \cup {PC})
  BY DEF Copyable, Instr, Conds
<1>i. /\ i \in Runnable
      /\ \A d \in Regs \cup {PC} : i.op # "ldm" =>
           /\ [i EXCEPT !.n = d] \in Runnable /\ [i EXCEPT !.m = d] \in Runnable
           /\ \A e \in Regs \cup {PC} : [i EXCEPT !.d = d, !.n = e] \in Runnable
  BY <1>0, InstrRuns
<1>h. \A d \in Regs \cup {PC} : armWritePCToRegister(i.cond, d, a) \in Some
  <2>1. \A d : Len(armWritePCToRegister(i.cond, d, a)) = 2 BY DEF armWritePCToRegister
  <2>2. \A d \in Regs \cup {PC} : armWritePCToRegister(i.cond, d, a) \in Seq(Runnable)
    BY <1>0, HalvesRun
  <2>3. \A ws \in Seq(Runnable) : Len(ws) = 2 => ws \in Some OBVIOUS
  <2> HIDE DEF Some
  <2> QED BY <2>1, <2>2, <2>3
<1>s. \A d \in Regs : /\ armSpillRegister(i.cond, d) \in Seq(Runnable)
                      /\ armRestoreRegister(i.cond, d) \in Seq(Runnable)
                      /\ Push(i.cond, d) \in Runnable /\ Pop(i.cond, d) \in Runnable
  BY <1>0, SpillsRun, StackRuns
<1>c. /\ \A w1 \in Seq(Runnable), w2 \in Seq(Runnable) : w1 \o w2 \in Seq(Runnable)
      /\ \A w1 \in Some, w2 \in Seq(Runnable) : w1 \o w2 \in Some
      /\ \A w1 \in Seq(Runnable), w2 \in Some : w1 \o w2 \in Some
  <2>1. ASSUME NEW w1 \in Seq(Runnable), NEW w2 \in Seq(Runnable)
        PROVE  /\ w1 \o w2 \in Seq(Runnable) /\ Len(w1 \o w2) = Len(w1) + Len(w2)
               /\ Len(w1) \in Nat /\ Len(w2) \in Nat
    OBVIOUS
  <2>2. \A m, n \in Nat : m > 0 \/ n > 0 => m + n > 0 OBVIOUS
  <2>3. \A w \in Some : w \in Seq(Runnable) /\ Len(w) > 0 OBVIOUS
  <2>4. \A w \in Seq(Runnable) : Len(w) > 0 => w \in Some OBVIOUS
  <2> HIDE DEF Some
  <2>5. \A w1 \in Seq(Runnable), w2 \in Seq(Runnable) :
          Len(w1) > 0 \/ Len(w2) > 0 => w1 \o w2 \in Some
    BY <2>1, <2>2, <2>4
  <2> QED BY <2>1, <2>3, <2>5
<1>u. \A w \in Runnable : << w >> \in Some OBVIOUS
<1>S. Some \subseteq Seq(Runnable) OBVIOUS
<1> SUFFICES Translated(i, a) \in Some OBVIOUS
<1> HIDE DEF Some
<1>1. CASE i.op \in {"alu", "teq"} /\ i.n = PC
  <2> DEFINE d == IF i.op = "teq" THEN 0 ELSE i.d
             last == [i EXCEPT !.n = d]
  <2>1. Translated(i, a) = armWritePCToRegister(i.cond, d, a) \o << last >>
    BY <1>1, Zenon DEF Translated, armALUimm
  <2>2. d \in Regs \cup {PC} BY <1>0, LowRegisters
  <2> HIDE DEF d
  <2>3. last \in Runnable BY <1>1, <1>i, <2>2
  <2> HIDE DEF last
  <2> QED BY <2>1, <2>2, <2>3, <1>h, <1>c, <1>u, <1>S
<1>2. CASE i.op \in {"mov", "mvn"} /\ i.m = PC
  <2> DEFINE last == [i EXCEPT !.m = i.d]
             pre == armWritePCToRegister(i.cond, i.d, a)
  <2>1. Translated(i, a) = armALUreg(i, a) BY <1>2, Zenon DEF Translated
  <2>2. armALUreg(i, a) = pre \o << last >> \/ armALUreg(i, a) = pre \o <<>>
    BY DEF armALUreg, armMovPCInstruction, armShiftPCImm
  <2>3. last \in Runnable BY <1>2, <1>0, <1>i
  <2>4. pre \in Some /\ <<>> \in Seq(Runnable) BY <1>0, <1>h
  <2> HIDE DEF last, pre
  <2> QED BY <2>1, <2>2, <2>3, <2>4, <1>c, <1>u, <1>S
<1>3. CASE i.op = "ldr" /\ i.n = PC
  <2> DEFINE last == [i EXCEPT !.n = i.d]
             pre == armWritePCToRegister(i.cond, i.d, a)
  <2>1. Translated(i, a) = pre \o << last >> BY <1>3, Zenon DEF Translated, armLdrPCImm
  <2>3. last \in Runnable BY <1>3, <1>0, <1>i
  <2>4. pre \in Some BY <1>0, <1>h
  <2> HIDE DEF last, pre
  <2> QED BY <2>1, <2>3, <2>4, <1>c, <1>u, <1>S
<1>4. CASE i.op = "ldrr" /\ i.n = PC
  <2> DEFINE spill == i.d = i.m
             scratch == IF spill THEN getOtherRegisterOf2(i.d, i.m) ELSE 0
             pcRegister == IF spill THEN scratch ELSE i.d
             before == IF spill THEN armSpillRegister(i.cond, scratch) ELSE <<>>
             last == [i EXCEPT !.n = pcRegister]
  <2>1. Translated(i, a) = before \o armWritePCToRegister(i.cond, pcRegister, a) \o << last >>
                             \o armRestoreRegister(i.cond, scratch)
    BY <1>4, Zenon DEF Translated, armLdrPCReg
  <2>2. scratch \in Regs BY OtherRegister, LowRegisters
  <2> HIDE DEF scratch
  <2>3. pcRegister \in Regs \cup {PC} BY <1>0, <2>2
  <2> HIDE DEF pcRegister
  <2>4. before \in Seq(Runnable) BY <2>2, <1>s
  <2>5. last \in Runnable BY <1>4, <1>i, <2>3
  <2> HIDE DEF before, last
  <2>6. /\ armWritePCToRegister(i.cond, pcRegister, a) \in Seq(Runnable)
        /\ << last >> \in Some /\ armRestoreRegister(i.cond, scratch) \in Seq(Runnable)
    BY <1>h, <1>s, <1>u, <1>S, <2>2, <2>3, <2>5
  <2> QED BY <1>c, <1>S, <2>1, <2>4, <2>6
<1>5. CASE i.op = "str" /\ PC \in {i.d, i.n}
  <2> DEFINE scratch == getOtherRegisterOf2(i.d, i.n)
             d == IF i.d = PC THEN scratch ELSE i.d
             n == IF i.n = PC THEN scratch ELSE i.n
             last == [i EXCEPT !.d = d, !.n = n]
  <2>1. Translated(i, a) = armSpillRegister(i.cond, scratch)
                             \o armWritePCToRegister(i.cond, scratch, a) \o << last >>
                             \o armRestoreRegister(i.cond, scratch)
    <3>1. Translated(i, a) = armStrPCImm(i, a) BY <1>5, Zenon DEF Translated
    <3> QED BY <3>1, Zenon DEF armStrPCImm
  <2>2. scratch \in Regs BY OtherRegister
  <2> HIDE DEF scratch
  <2>3. d \in Regs \cup {PC} /\ n \in Regs \cup {PC} BY <1>0, <2>2
  <2> HIDE DEF d, n
  <2>4. last \in Runnable BY <1>5, <1>i, <2>3
  <2> HIDE DEF last
  <2>5. /\ armWritePCToRegister(i.cond, scratch, a) \in Seq(Runnable)
        /\ << last >> \in Some /\ armRestoreRegister(i.cond, scratch) \in Seq(Runnable)
        /\ armSpillRegister(i.cond, scratch) \in Seq(Runnable)
    BY <1>h, <1>s, <1>u, <1>S, <2>2, <2>4
  <2> DEFINE before == armSpillRegister(i.cond, scratch)
             pre == armWritePCToRegister(i.cond, scratch, a)
             after == armRestoreRegister(i.cond, scratch)
  <2>6. Translated(i, a) = before \o pre \o << last >> \o after BY <2>1
  <2>7. /\ before \in Seq(Runnable) /\ pre \in Seq(Runnable) /\ << last >> \in Some
        /\ after \in Seq(Runnable)
    BY <2>5
  <2> HIDE DEF before, pre, after
  <2>8. before \o pre \in Seq(Runnable) BY <1>c, <2>7
  <2>9. before \o pre \o << last >> \in Some BY <1>c, <2>7, <2>8
  <2> QED BY <1>c, <2>6, <2>7, <2>9
<1>6. CASE i.op = "stm" /\ PC \in i.list
  <2> DEFINE scratch == StmScratch(i)
             last == [Plain EXCEPT !.op = "str", !.cond = i.cond, !.d = scratch, !.n = i.n,
                                   !.imm = StmOffset(i)]
  <2>1. Translated(i, a) = << i, Push(i.cond, scratch) >>
                             \o armWritePCToRegister(i.cond, scratch, a)
                             \o << last, Pop(i.cond, scratch) >>
    BY <1>6, Zenon DEF Translated, armStmPC
  <2>2. scratch \in Regs BY LowRegisters DEF StmScratch
  <2>3. StmOffset(i) \in Int
    <3>1. Cardinality(i.list) \in Nat BY <1>0, ListsAreFinite
    <3> QED BY <3>1 DEF StmOffset
  <2> HIDE DEF scratch
  <2>4. last \in Runnable
    <3> DEFINE imm == StmOffset(i)
    <3>1. "str" \in Ops /\ 0 \in Regs /\ i.cond \in {"al", "eq"} BY <1>0, LowRegisters DEF Ops, Conds
    <3>2. imm \in Int BY <2>3
    <3> HIDE DEF imm
    <3>3. [Plain EXCEPT !.op = "str", !.cond = i.cond, !.d = scratch, !.n = i.n, !.imm = imm]
            \in Runnable
      BY <1>0, <2>2, <3>1, <3>2 DEF Plain, Runnable
    <3> QED BY <3>3 DEF imm
  <2> HIDE DEF last
  <2>5. Push(i.cond, scratch) \in Runnable /\ Pop(i.cond, scratch) \in Runnable
        /\ armWritePCToRegister(i.cond, scratch, a) \in Seq(Runnable)
    BY <1>h, <1>s, <1>S, <2>2
  <2>6. \A v \in Runnable, w \in Runnable : << v, w >> \in Some BY DEF Some
  <2>7. << i, Push(i.cond, scratch) >> \in Some /\ << last, Pop(i.cond, scratch) >> \in Some
    BY <1>i, <2>4, <2>5, <2>6
  <2> QED BY <1>c, <1>S, <2>1, <2>5, <2>7
<1>7. CASE /\ ~ (i.op \in {"alu", "teq"} /\ i.n = PC)
           /\ ~ (i.op \in {"mov", "mvn"} /\ i.m = PC)
           /\ ~ (i.op = "ldr" /\ i.n = PC)
           /\ ~ (i.op = "ldrr" /\ i.n = PC)
           /\ ~ (i.op = "str" /\ PC \in {i.d, i.n})
           /\ ~ (i.op = "stm" /\ PC \in i.list)
  <2>1. Translated(i, a) = << i >> BY <1>7, Zenon DEF Translated
  <2> QED BY <2>1, <1>i, <1>u
<1> QED BY <1>1, <1>2, <1>3, <1>4, <1>5, <1>6, <1>7

-----------------------------------------------------------------------------
(* The words of a block.                                                    *)

Copies(s, f, n) ==
  f = [k \in s .. n |-> IF k = s THEN <<>> ELSE f[k - 1] \o Translated(program[k - 1], k - 1)]

LEMMA CopyingIsDefined ==
  ASSUME NEW s \in Nat, NEW a \in Nat, s <= a
  PROVE  \E f : Copies(s, f, a)
<1> DEFINE T == {n \in Nat : s <= n /\ ~ \E f : Copies(s, f, n)}
<1>1. CASE T = {} BY <1>1
<1>2. CASE T # {}
  <2>1. T \in SUBSET Nat OBVIOUS
  <2>2. PICK n \in T : \A m \in T : n <= m BY <1>2, <2>1, LeastNatural
  <2>3. n # s
    <3>1. Copies(s, [k \in s .. s |-> <<>>], s) BY DEF Copies
    <3> QED BY <3>1, <2>2
  <2>4. n \in Nat /\ s <= n - 1 /\ n - 1 \in Nat /\ n - 1 \notin T BY <2>2, <2>3
  <2>5. PICK f : Copies(s, f, n - 1) BY <2>4
  <2> DEFINE Next1(k, v) == v \o Translated(program[k - 1], k - 1)
             g == [k \in s .. n |-> IF k \in s .. n - 1 THEN f[k] ELSE Next1(n, f[n - 1])]
  <2>6. \A k \in s .. n - 1 : f[k] = IF k = s THEN <<>> ELSE Next1(k, f[k - 1])
    BY <2>5 DEF Copies
  <2> HIDE DEF Next1
  <2>7. ASSUME NEW k \in s .. n PROVE g[k] = IF k = s THEN <<>> ELSE Next1(k, g[k - 1])
    <3>1. CASE k \in s .. n - 1
      <4>1. k # s => k - 1 \in s .. n - 1 /\ k - 1 \in s .. n BY <3>1, <2>4
      <4> QED BY <3>1, <4>1, <2>6
    <3>2. CASE k = n
      <4>1. k \notin s .. n - 1 /\ k # s /\ n - 1 \in s .. n - 1 /\ n - 1 \in s .. n
        BY <3>2, <2>3, <2>4
      <4> QED BY <3>2, <4>1
    <3> QED BY <3>1, <3>2, <2>4
  <2>8. g = [k \in s .. n |-> g[k]] OBVIOUS
  <2> HIDE DEF g
  <2>9. g = [k \in s .. n |-> IF k = s THEN <<>> ELSE Next1(k, g[k - 1])] BY <2>7, <2>8
  <2>10. Copies(s, g, n) BY <2>9 DEF Copies, Next1
  <2> QED BY <2>10, <2>2
<1> QED BY <1>1, <1>2

LEMMA CopiedRuns ==
  ASSUME NEW s \in Nat, NEW a \in Nat, s <= a, \A k \in s .. a - 1 : Copyable(program[k])
  PROVE  Copied(s, a) \in Seq(Runnable)
<1> DEFINE f == CHOOSE f : Copies(s, f, a)
<1>1. Copies(s, f, a) BY CopyingIsDefined
<1>2. Copied(s, a) = f[a] BY DEF Copied, Copies
<1> HIDE DEF f
<1> DEFINE T == {k \in s .. a : f[k] \notin Seq(Runnable)}
<1>3. CASE T = {} BY <1>2, <1>3
<1>4. CASE T # {}
  <2>1. T \in SUBSET Nat OBVIOUS
  <2>2. PICK k \in T : \A m \in T : k <= m BY <1>4, <2>1, LeastNatural
  <2>3. k \in s .. a /\ f[k] \notin Seq(Runnable) BY <2>2
  <2>4. f[k] = IF k = s THEN <<>> ELSE f[k - 1] \o Translated(program[k - 1], k - 1)
    BY <1>1, <2>3 DEF Copies
  <2>5. k # s BY <2>3, <2>4
  <2>6. k - 1 \in s .. a - 1 /\ k - 1 \in s .. a /\ k - 1 \in Int /\ k - 1 \notin T
    BY <2>2, <2>3, <2>5
  <2>7. f[k - 1] \in Seq(Runnable) BY <2>6
  <2>8. Translated(program[k - 1], k - 1) \in Seq(Runnable) BY <2>6, TranslatedRuns
  <2>9. \A w1 \in Seq(Runnable), w2 \in Seq(Runnable) : w1 \o w2 \in Seq(Runnable) OBVIOUS
  <2> QED BY <2>3, <2>4, <2>5, <2>7, <2>8, <2>9
<1> QED BY <1>3, <1>4

Ends(s) == \E e \in Code : EndsAt(s, e)

(* Where a block ends, and what is in it.                                   *)
LEMMA BlockFacts ==
  ASSUME program \in Programs, NEW s \in Word, Ends(s)
  PROVE  /\ guestEnd(s) \in Code /\ EndsAt(s, guestEnd(s)) /\ guestEnd(s) \in Nat /\ s \in Nat
         /\ s <= guestEnd(s)
         /\ \A k \in s .. guestEnd(s) : k \in Code
         /\ \A k \in s .. guestEnd(s) - 1 : Copyable(program[k])
<1>1. guestEnd(s) \in Code /\ EndsAt(s, guestEnd(s)) BY DEF Ends, guestEnd
<1> DEFINE e == guestEnd(s)
<1>2. e \in Code /\ EndsAt(s, e) BY <1>1
<1> HIDE DEF e
<1>3. e \in Nat /\ s \in Nat BY <1>2, ProgramAssumption, Numbers DEF Word
<1>4. s <= e /\ \A k \in s .. e : k \in Code BY <1>2 DEF EndsAt
<1>5. ASSUME NEW k \in s .. e - 1 PROVE Copyable(program[k])
  <2>1. k \in s .. e /\ ~ Replaced(program[k]) BY <1>2, <1>3 DEF EndsAt
  <2>2. k \in Code BY <1>4, <2>1
  <2>3. program[k] \in Instr /\ program[k].op \in Ops
        /\ (program[k].op = "ldm" => program[k].n # PC)
    BY <2>2, ProgramAssumption
  <2> QED BY <2>1, <2>3 DEF Copyable
<1>6. /\ e \in Code /\ EndsAt(s, e) /\ e \in Nat /\ s \in Nat /\ s <= e
      /\ \A k \in s .. e : k \in Code
      /\ \A k \in s .. e - 1 : Copyable(program[k])
  BY <1>2, <1>3, <1>4, <1>5
<1> QED BY <1>6 DEF e

LEMMA PlantedRuns ==
  ASSUME program \in Programs, NEW e \in Code
  PROVE  /\ Planted(e) \in Seq(Runnable) /\ Len(Planted(e)) > 0
         /\ Planted(e)[Len(Planted(e))] = Hypercall("al")
         /\ \A k \in 1 .. Len(Planted(e)) : Planted(e)[k].op \in {"movw", "movt", "hypercall"}
<1> DEFINE i == program[e]
           link == IF i.op = "b" /\ i.s THEN armWritePCToRegister(i.cond, LR, e - 1) ELSE <<>>
           fork == IF i.op = "b" /\ i.cond # "al" THEN << Hypercall(i.cond) >> ELSE <<>>
           trap == Hypercall("al")
           Trapping == {w \in Runnable : w.op \in {"movw", "movt", "hypercall"}}
<1>1. Planted(e) = link \o fork \o << trap >> BY DEF Planted
<1>2. i \in Instr /\ e \in Int BY ProgramAssumption, WordArithmetic
<1>3. i.cond \in Conds BY <1>2 DEF Instr, Conds
<1>4. \A cond \in Conds : Hypercall(cond) \in Trapping
  <2>1. 0 \in Regs /\ "hypercall" \in HostOps /\ 0 \in Int BY LowRegisters DEF HostOps
  <2>2. ASSUME NEW cond \in Conds PROVE Hypercall(cond) \in Runnable
    <3>1. cond \in {"al", "eq"} BY DEF Conds
    <3> QED BY <2>1, <3>1 DEF Hypercall, Plain, Runnable
  <2>3. \A cond \in Conds : Hypercall(cond).op = "hypercall" BY DEF Hypercall, Plain
  <2> QED BY <2>2, <2>3
<1>5. trap \in Trapping BY <1>4 DEF Conds
<1>6. link \in Seq(Trapping)
  <2>1. CASE i.op = "b" /\ i.s
    <3>1. e - 1 \in Int /\ LR \in Regs \cup {PC} BY <1>2, LowRegisters
    <3>2. armWritePCToRegister(i.cond, LR, e - 1) \in Seq(Runnable) BY <1>3, <3>1, HalvesRun
    <3> DEFINE pc == Plus(e - 1, 2)
               w1 == [Plain EXCEPT !.op = "movw", !.cond = i.cond, !.d = LR, !.imm = pc % Half]
               w2 == [Plain EXCEPT !.op = "movt", !.cond = i.cond, !.d = LR, !.imm = pc \div Half]
    <3>3. armWritePCToRegister(i.cond, LR, e - 1) = << w1, w2 >> BY DEF armWritePCToRegister
    <3>4. w1.op = "movw" /\ w2.op = "movt" BY DEF Plain
    <3> HIDE DEF w1, w2
    <3>5. w1 \in Runnable /\ w2 \in Runnable BY <3>2, <3>3
    <3>6. w1 \in Trapping /\ w2 \in Trapping BY <3>4, <3>5
    <3>7. link = << w1, w2 >> BY <2>1, <3>3
    <3> HIDE DEF Trapping, link
    <3>8. << w1, w2 >> \in Seq(Trapping) BY <3>6
    <3> QED BY <3>7, <3>8
  <2> QED BY <2>1
<1>7. fork \in Seq(Trapping)
  <2>1. \A w \in Trapping : << w >> \in Seq(Trapping) OBVIOUS
  <2> HIDE DEF Trapping
  <2> QED BY <1>3, <1>4, <2>1
<1> HIDE DEF link, fork, trap, Trapping
<1> DEFINE pre == link \o fork
           all == pre \o << trap >>
<1>8. pre \in Seq(Trapping) BY <1>6, <1>7
<1> HIDE DEF pre
<1>9. all \in Seq(Trapping) /\ Len(all) > 0 /\ all[Len(all)] = trap BY <1>5, <1>8
<1>10. Planted(e) = all BY <1>1 DEF pre
<1> HIDE DEF all
<1>11. \A k \in 1 .. Len(all) : all[k] \in Trapping BY <1>9
<1>12. Trapping \subseteq Runnable /\ \A w \in Trapping : w.op \in {"movw", "movt", "hypercall"}
  BY DEF Trapping
<1>13. all \in Seq(Runnable) BY <1>9, <1>12
<1> QED BY <1>9, <1>10, <1>11, <1>12, <1>13 DEF trap

(* All words can run; the last one is a hypercall that traps; and behind    *)
(* the copied words there is none that can fault.                           *)
LEMMA BlockRuns ==
  ASSUME program \in Programs, NEW s \in Word, Ends(s)
  PROVE  /\ Words(s) \in Seq(Runnable) /\ Len(Words(s)) \in Nat \ {0}
         /\ Words(s)[Len(Words(s))] = Hypercall("al")
         /\ Copied(s, guestEnd(s)) \in Seq(Runnable)
         /\ \A k \in 1 .. Len(Words(s)) :
              k > Len(Copied(s, guestEnd(s))) => Words(s)[k].op \in {"movw", "movt", "hypercall"}
<1> DEFINE e == guestEnd(s)
           copied == Copied(s, e)
           planted == Planted(e)
           all == copied \o planted
<1>1. /\ e \in Code /\ e \in Nat /\ s \in Nat /\ s <= e /\ \A k \in s .. e - 1 : Copyable(program[k])
  BY BlockFacts
<1>2. Words(s) = all BY DEF Words
<1> HIDE DEF e
<1>3. copied \in Seq(Runnable) BY <1>1, CopiedRuns
<1>4. /\ planted \in Seq(Runnable) /\ Len(planted) > 0
      /\ planted[Len(planted)] = Hypercall("al")
      /\ \A k \in 1 .. Len(planted) : planted[k].op \in {"movw", "movt", "hypercall"}
  BY <1>1, PlantedRuns
<1> HIDE DEF copied, planted
<1>5. all \in Seq(Runnable) /\ Len(all) = Len(copied) + Len(planted) /\ Len(copied) \in Nat
      /\ Len(planted) \in Nat
  BY <1>3, <1>4
<1>6. \A k \in 1 .. Len(all) : k > Len(copied) => all[k] = planted[k - Len(copied)]
  BY <1>3, <1>4, <1>5
<1> HIDE DEF all
<1>7. all[Len(all)] = Hypercall("al") BY <1>4, <1>5, <1>6
<1>8. \A k \in 1 .. Len(all) : k > Len(copied) => all[k].op \in {"movw", "movt", "hypercall"}
  BY <1>4, <1>5, <1>6
<1> QED BY <1>2, <1>3, <1>4, <1>5, <1>7, <1>8 DEF copied, e

-----------------------------------------------------------------------------
(* The context stays one through the handlers.                              *)

LEMMA ContextFields ==
  ASSUME NEW g \in Context
  PROVE  /\ g.low \in [Low -> Word] /\ g.bank \in [Modes -> [Banked -> Word]] /\ g.cpsr \in Psr
         /\ g.spsr \in [Modes \ {"usr"} -> Psr] /\ g.r15 \in Word /\ g.irqPending \in BOOLEAN
         /\ g.vector \in Modes
         /\ \A k \in Modes : g.bank[k] \in [Banked -> Word]
         /\ g.cpsr.mode \in Modes /\ g.cpsr.i \in BOOLEAN /\ g.cpsr.z \in BOOLEAN
BY DEF Context, Psr

LEMMA ContextChanges ==
  ASSUME NEW g \in Context
  PROVE  /\ \A low \in [Low -> Word] : [g EXCEPT !.low = low] \in Context
         /\ \A bank \in [Modes -> [Banked -> Word]] : [g EXCEPT !.bank = bank] \in Context
         /\ \A cpsr \in Psr : [g EXCEPT !.cpsr = cpsr] \in Context
         /\ \A spsr \in [Modes \ {"usr"} -> Psr] : [g EXCEPT !.spsr = spsr] \in Context
         /\ \A a \in Word : [g EXCEPT !.r15 = a] \in Context
         /\ \A b \in BOOLEAN : [g EXCEPT !.irqPending = b] \in Context
         /\ \A k \in Modes : [g EXCEPT !.vector = k] \in Context
BY DEF Context

LEMMA BankSet ==
  ASSUME NEW g \in Context, NEW k \in Modes, NEW b \in [Banked -> Word]
  PROVE  [g EXCEPT !.bank[k] = b] \in Context
<1>1. [g.bank EXCEPT ![k] = b] \in [Modes -> [Banked -> Word]] BY ContextFields
<1>2. [g EXCEPT !.bank[k] = b] = [g EXCEPT !.bank = [g.bank EXCEPT ![k] = b]] BY DEF Context
<1> QED BY <1>1, <1>2, ContextChanges

LEMMA RegisterOf ==
  ASSUME NEW g \in Context, NEW n \in Regs \cup {PC}
  PROVE  getGPRegister(g, n) \in Word
<1>1. CASE n = PC
  <2>1. g.r15 \in Int BY ContextFields, WordArithmetic
  <2>2. Plus(g.r15, 2) \in Word BY <2>1, Numbers
  <2> QED BY <1>1, <2>2 DEF getGPRegister
<1>2. CASE n # PC BY <1>2, ContextFields DEF getGPRegister, Regs
<1> QED BY <1>1, <1>2

LEMMA AsCoreCore ==
  ASSUME core \in Cores, NEW g \in Context
  PROVE  AsCore(g) \in Cores /\ AsCore(g).mem = core.mem /\ AsCore(g).z = g.cpsr.z
<1> DEFINE r == [n \in Regs |-> getGPRegister(g, n)]
<1>1. r \in [Regs -> Word] BY RegisterOf
<1>2. AsCore(g) = [core EXCEPT !.r = r, !.z = g.cpsr.z] BY DEF AsCore
<1>3. g.cpsr.z \in BOOLEAN BY ContextFields
<1> HIDE DEF r
<1> QED BY <1>1, <1>2, <1>3 DEF Cores

LEMMA SavedContext ==
  ASSUME gc \in Context, NEW c \in Cores
  PROVE  /\ SavedFrom(c) \in Context /\ SavedFrom(c).cpsr.mode = gc.cpsr.mode
         /\ SavedFrom(c).irqPending = gc.irqPending
<1> DEFINE low == [n \in Low |-> c.r[n]]
           b == [n \in Banked |-> c.r[n]]
           g1 == [gc EXCEPT !.low = low]
           g2 == [g1 EXCEPT !.bank[gc.vector] = b]
           psr == [gc.cpsr EXCEPT !.z = c.z]
<1>1. low \in [Low -> Word] /\ b \in [Banked -> Word] BY CoreFields DEF Regs
<1>2. SavedFrom(c) = [g2 EXCEPT !.cpsr.z = c.z] BY DEF SavedFrom
<1> HIDE DEF low, b
<1>3. g1 \in Context /\ g1.cpsr = gc.cpsr /\ g1.irqPending = gc.irqPending
  BY <1>1, ContextChanges DEF Context
<1> HIDE DEF g1
<1>4. g2 \in Context /\ g2.cpsr = gc.cpsr /\ g2.irqPending = gc.irqPending
  <2>1. gc.vector \in Modes BY ContextFields
  <2>2. g2 \in Context BY <1>1, <1>3, <2>1, BankSet
  <2>3. g2.cpsr = g1.cpsr /\ g2.irqPending = g1.irqPending BY <1>3 DEF Context
  <2> QED BY <1>3, <2>2, <2>3
<1> HIDE DEF g2
<1>5. psr \in Psr /\ psr.mode = gc.cpsr.mode
  BY ContextFields, CoreFields DEF Psr
<1>6. [g2 EXCEPT !.cpsr.z = c.z] = [g2 EXCEPT !.cpsr = psr]
  BY <1>4 DEF Context
<1> HIDE DEF psr
<1>7. [g2 EXCEPT !.cpsr = psr] \in Context BY <1>4, <1>5, ContextChanges
<1>8. [g2 EXCEPT !.cpsr = psr].cpsr = psr /\ [g2 EXCEPT !.cpsr = psr].irqPending = g2.irqPending
  BY <1>4 DEF Context
<1> QED BY <1>2, <1>4, <1>5, <1>6, <1>7, <1>8

LEMMA RestoredCore ==
  ASSUME core \in Cores, NEW g \in Context
  PROVE  Restored(g) \in Cores
<1> DEFINE r == [n \in Regs |-> IF n \in Low THEN g.low[n] ELSE g.bank[g.cpsr.mode][n]]
<1>1. r \in [Regs -> Word] BY ContextFields DEF Regs
<1>2. Restored(g) = [core EXCEPT !.r = r, !.z = g.cpsr.z] BY DEF Restored
<1>3. g.cpsr.z \in BOOLEAN BY ContextFields
<1> HIDE DEF r
<1> QED BY <1>1, <1>2, <1>3 DEF Cores

LEMMA SnapshotMachine ==
  ASSUME NEW g \in Context, NEW mem \in [Data -> Word], NEW pc \in Word
  PROVE  Snapshot(g, mem, pc) \in Machine
BY ContextFields DEF Snapshot, Machine

LEMMA WritePCContext ==
  ASSUME NEW g \in Context, NEW a \in Word
  PROVE  /\ WritePC(g, a) \in Context /\ WritePC(g, a).cpsr = g.cpsr /\ WritePC(g, a).r15 = a
         /\ WritePC(g, a).irqPending = g.irqPending
<1>1. WritePC(g, a) \in Context BY ContextChanges DEF WritePC
<1> QED BY <1>1 DEF WritePC, Context

LEMMA SetRegisterContext ==
  ASSUME NEW g \in Context, NEW n \in Regs \cup {PC}, NEW v \in Word
  PROVE  setGPRegister(g, n, v) \in Context /\ setGPRegister(g, n, v).cpsr = g.cpsr
         /\ setGPRegister(g, n, v).r15 = g.r15
<1>1. CASE n = PC BY <1>1 DEF setGPRegister
<1>2. CASE n # PC /\ n \in Low
  <2>1. [g.low EXCEPT ![n] = v] \in [Low -> Word] BY <1>2, ContextFields
  <2>2. setGPRegister(g, n, v) = [g EXCEPT !.low = [g.low EXCEPT ![n] = v]]
    BY <1>2 DEF setGPRegister, Context
  <2>3. setGPRegister(g, n, v) \in Context BY <2>1, <2>2, ContextChanges
  <2> QED BY <2>2, <2>3 DEF Context
<1>3. CASE n # PC /\ n \notin Low
  <2> DEFINE k == g.cpsr.mode
             b == [g.bank[k] EXCEPT ![n] = v]
  <2>1. k \in Modes /\ n \in Banked BY <1>3, ContextFields DEF Regs
  <2>2. b \in [Banked -> Word] BY <2>1, ContextFields
  <2>3. setGPRegister(g, n, v) = [g EXCEPT !.bank[k] = b] BY <1>3, <2>1 DEF setGPRegister, Context
  <2> HIDE DEF k, b
  <2>4. [g EXCEPT !.bank[k] = b] \in Context BY <2>1, <2>2, BankSet
  <2> QED BY <2>3, <2>4 DEF Context
<1> QED BY <1>1, <1>2, <1>3

LEMMA SetRegistersContext ==
  ASSUME NEW g \in Context, NEW c \in Cores
  PROVE  SetRegisters(g, c) \in Context /\ SetRegisters(g, c).cpsr = g.cpsr
         /\ SetRegisters(g, c).r15 = g.r15
<1> DEFINE low == [n \in Low |-> c.r[n]]
           b == [n \in Banked |-> c.r[n]]
           g1 == [g EXCEPT !.low = low]
           k == g.cpsr.mode
<1>1. low \in [Low -> Word] /\ b \in [Banked -> Word] BY CoreFields DEF Regs
<1>2. SetRegisters(g, c) = [g1 EXCEPT !.bank[k] = b] BY DEF SetRegisters
<1>3. k \in Modes BY ContextFields
<1> HIDE DEF low, b, k
<1>4. g1 \in Context /\ g1.cpsr = g.cpsr /\ g1.r15 = g.r15 BY <1>1, ContextChanges DEF Context
<1> HIDE DEF g1
<1>5. [g1 EXCEPT !.bank[k] = b] \in Context BY <1>1, <1>3, <1>4, BankSet
<1> QED BY <1>2, <1>4, <1>5 DEF Context

LEMMA StatusWriteContext ==
  ASSUME line \in BOOLEAN, NEW g \in Context, NEW new \in Psr, NEW mask
  PROVE  CPSRWriteByInstr(g, new, mask) \in Context /\ CPSRWriteByInstr(g, new, mask).r15 = g.r15
<1> DEFINE pending == g.irqPending \/ (line /\ g.cpsr.i /\ ~ new.i)
           latched == [g EXCEPT !.irqPending = pending]
           moved == IF new.mode # g.cpsr.mode THEN guestChangeMode(latched, new.mode) ELSE latched
           psr == [mode |-> new.mode, i |-> new.i, z |-> new.z /\ "flags" \in mask]
<1>1. new.mode \in Modes /\ new.i \in BOOLEAN /\ new.z \in BOOLEAN BY DEF Psr
<1>2. pending \in BOOLEAN BY <1>1, ContextFields
<1>3. psr \in Psr
  <2>1. (new.z /\ "flags" \in mask) \in BOOLEAN OBVIOUS
  <2> QED BY <1>1, <2>1 DEF Psr
<1>4. CPSRWriteByInstr(g, new, mask) = [moved EXCEPT !.cpsr = psr]
  BY DEF CPSRWriteByInstr
<1> HIDE DEF pending, psr
<1>5. latched \in Context /\ latched.r15 = g.r15 /\ latched.cpsr = g.cpsr
  BY <1>2, ContextChanges DEF Context
<1> HIDE DEF latched
<1>6. moved \in Context /\ moved.r15 = g.r15
  <2> DEFINE turned == [latched EXCEPT !.vector = new.mode]
             other == [turned.cpsr EXCEPT !.mode = new.mode]
  <2>1. turned \in Context /\ turned.r15 = g.r15 BY <1>1, <1>5, ContextChanges DEF Context
  <2>2. guestChangeMode(latched, new.mode) = [turned EXCEPT !.cpsr = other]
    BY DEF guestChangeMode, setExceptionVector
  <2>3. other \in Psr BY <1>1, <2>1, ContextFields DEF Psr
  <2> HIDE DEF turned, other
  <2>4. [turned EXCEPT !.cpsr = other] \in Context /\ [turned EXCEPT !.cpsr = other].r15 = g.r15
    BY <2>1, <2>3, ContextChanges DEF Context
  <2> QED BY <1>5, <2>2, <2>4
<1> HIDE DEF moved
<1>7. [moved EXCEPT !.cpsr = psr] \in Context /\ [moved EXCEPT !.cpsr = psr].r15 = moved.r15
  BY <1>3, <1>6, ContextChanges DEF Context
<1> QED BY <1>4, <1>6, <1>7

LEMMA SavedStatusWriteContext ==
  ASSUME NEW g \in Context, g.cpsr.mode # "usr", NEW new \in Psr, NEW mask
  PROVE  SPSRWriteByInstr(g, new, mask) \in Context /\ SPSRWriteByInstr(g, new, mask).r15 = g.r15
<1> DEFINE k == g.cpsr.mode
           psr == [new EXCEPT !.z = new.z /\ "flags" \in mask]
           spsr == [g.spsr EXCEPT ![k] = psr]
<1>1. k \in Modes \ {"usr"} BY ContextFields
<1>2. psr \in Psr
  <2>1. (new.z /\ "flags" \in mask) \in BOOLEAN OBVIOUS
  <2> QED BY <2>1 DEF Psr
<1>3. SPSRWriteByInstr(g, new, mask) = [g EXCEPT !.spsr = [g.spsr EXCEPT ![k] = psr]]
  BY DEF SPSRWriteByInstr, Context
<1> HIDE DEF psr, k
<1>4. spsr \in [Modes \ {"usr"} -> Psr] BY <1>1, <1>2, ContextFields
<1> HIDE DEF spsr
<1>5. [g EXCEPT !.spsr = spsr] \in Context /\ [g EXCEPT !.spsr = spsr].r15 = g.r15
  BY <1>4, ContextChanges DEF Context
<1> QED BY <1>3, <1>5 DEF spsr

LEMMA PsrOfWord ==
  ASSUME NEW w \in Word
  PROVE  PsrOf(w) \in Psr
<1>1. (w \div 4) % 4 \in {0, 1, 2, 3} BY DEF Word
<1>2. \E k \in Modes : ModeNumber[k] = (w \div 4) % 4 BY <1>1 DEF Modes, ModeNumber
<1>3. (CHOOSE k \in Modes : ModeNumber[k] = (w \div 4) % 4) \in Modes BY <1>2
<1> HIDE DEF ModeNumber
<1> QED BY <1>3 DEF PsrOf, Psr

LEMMA PsrAsWord ==
  ASSUME NEW p \in Psr
  PROVE  PsrWord(p) \in Word
<1>1. ModeNumber[p.mode] \in 0 .. 3 BY DEF Psr, Modes, ModeNumber
<1>2. Bit(p.i) \in 0 .. 1 /\ Bit(p.z) \in 0 .. 1 BY DEF Bit
<1>3. PsrWord(p) \in 0 .. 15
  <2> DEFINE k == ModeNumber[p.mode]
             b == Bit(p.i)
             c == Bit(p.z)
  <2>1. k \in 0 .. 3 /\ b \in 0 .. 1 /\ c \in 0 .. 1 BY <1>1, <1>2
  <2>2. PsrWord(p) = 4 * k + 2 * b + c BY DEF PsrWord
  <2> HIDE DEF k, b, c
  <2> QED BY <2>1, <2>2
<1>4. Half * Half >= 16
  <2>1. Half \in Nat /\ Half >= 4 BY CoreAssumption
  <2>2. (Half - 4) * Half >= 0 BY <2>1
  <2>3. (Half - 4) * Half = Half * Half - 4 * Half BY <2>1
  <2> QED BY <2>1, <2>2, <2>3
<1>5. Half * Half \in Nat BY CoreAssumption
<1> QED BY <1>3, <1>4, <1>5 DEF Word, Modulus

(* An instruction that the scanner may find in guest code.                  *)
GuestInstr(i) ==
  /\ i \in Instr /\ i.op \in Ops
  /\ i.op \in {"ldm", "ldmret"} => i.n # PC
  /\ i.op = "ldmret" => PC \in i.list

LEMMA InstrFields ==
  ASSUME NEW i \in Instr
  PROVE  /\ i.d \in Regs \cup {PC} /\ i.n \in Regs \cup {PC} /\ i.m \in Regs \cup {PC}
         /\ i.s \in BOOLEAN /\ i.imm \in Word /\ i.list \in SUBSET (Regs \cup {PC})
         /\ i.cond \in Conds
BY DEF Instr, Conds

LEMMA BlockLoadReaches ==
  ASSUME NEW i, GuestInstr(i), i.op \in {"ldm", "ldmret"}, NEW c \in Cores, NEW pc,
         Reaches(i, c, pc, Data), Passed(i, c.z)
  PROVE  /\ Loaded(i, c) \in [Regs -> Word]
         /\ PC \in i.list => c.mem[Place(i, c.r[i.n], PC)] \in Word
<1>1. i.n \in Regs /\ Reg(c, i.n, pc) = c.r[i.n] /\ i.list \in SUBSET (Regs \cup {PC})
  BY InstrFields DEF GuestInstr, Reg
<1>2. Touched(i, c, pc) = {Place(i, Reg(c, i.n, pc), n) : n \in i.list} BY DEF Touched
<1>3. \A n \in i.list : Place(i, c.r[i.n], n) \in Data BY <1>1, <1>2 DEF Reaches
<1>4. \A a \in Data : c.mem[a] \in Word BY CoreFields
<1>5. Loaded(i, c) \in [Regs -> Word] BY <1>1, <1>3, LoadedWords
<1> QED BY <1>3, <1>4, <1>5

LEMMA InterpretedContext ==
  ASSUME core \in Cores, line \in BOOLEAN, NEW g \in Context, g.cpsr.mode # "usr",
         NEW i, GuestInstr(i), Replaced(i), i.op # "svc",
         Reaches(i, AsCore(g), Plus(g.r15, 2), Data)
  PROVE  Interpreted(g, i) \in Context
<1> DEFINE on == Plus(g.r15, 1)
           c == AsCore(g)
           ret == g.spsr[g.cpsr.mode]
<1>0. g.r15 \in Int /\ on \in Word
  <2>1. g.r15 \in Int BY ContextFields, WordArithmetic
  <2> QED BY <2>1, Numbers
<1>f. \A h \in Context : h.r15 = g.r15 => Following(h) \in Context
  BY <1>0, WritePCContext DEF Following
<1>i. /\ i \in Instr /\ i.d \in Regs \cup {PC} /\ i.n \in Regs \cup {PC} /\ i.m \in Regs \cup {PC}
      /\ i.s \in BOOLEAN /\ i.imm \in Word /\ i.list \in SUBSET (Regs \cup {PC})
  BY InstrFields DEF GuestInstr
<1>c. c \in Cores /\ c.mem = core.mem /\ c.z = g.cpsr.z BY AsCoreCore
<1>r. \A n \in Regs \cup {PC} : getGPRegister(g, n) \in Word BY RegisterOf
<1>m. \A a \in Data : core.mem[a] \in Word BY CoreFields
<1>p. ret \in Psr BY ContextFields
<1> HIDE DEF on, c, ret
<1>1. CASE ~ Passed(i, g.cpsr.z)
  BY <1>1, <1>f, Zenon DEF Interpreted
<1>2. CASE Passed(i, g.cpsr.z)
  <2>1. CASE i.op = "b" /\ ~ i.s
    <3>1. Interpreted(g, i) = WritePC(g, i.imm)
      BY <1>2, <2>1, Zenon DEF Interpreted, armBInstruction
    <3> QED BY <3>1, <1>i, WritePCContext
  <2>2. CASE i.op = "b" /\ i.s
    <3>1. Interpreted(g, i) = WritePC(setGPRegister(g, LR, on), i.imm)
      BY <1>2, <2>2, Zenon DEF Interpreted, armBlInstruction, on
    <3>2. setGPRegister(g, LR, on) \in Context BY <1>0, LowRegisters, SetRegisterContext
    <3> QED BY <3>1, <3>2, <1>i, WritePCContext
  <2>3. CASE i.op = "bx"
    <3>1. Interpreted(g, i) = WritePC(g, getGPRegister(g, i.m))
      BY <1>2, <2>3, Zenon DEF Interpreted, armBxInstruction
    <3> QED BY <3>1, <1>i, <1>r, WritePCContext
  <2>4. CASE i.op = "movs"
    <3>1. Interpreted(g, i) = WritePC(CPSRWriteByInstr(g, ret, Fields), getGPRegister(g, i.m))
      BY <1>2, <2>4, Zenon DEF Interpreted, armAluRegInstruction, ExceptionReturn, ret
    <3>2. CPSRWriteByInstr(g, ret, Fields) \in Context BY <1>p, StatusWriteContext
    <3> QED BY <3>1, <3>2, <1>i, <1>r, WritePCContext
  <2>5. CASE i.op \in {"ldr", "ldrr"}
    <3> DEFINE a == Address(i, c, getGPRegister(g, PC))
    <3>1. Interpreted(g, i) = WritePC(g, core.mem[a])
      BY <1>2, <2>5, Zenon DEF Interpreted, armLdrInstruction, c
    <3>2. getGPRegister(g, PC) = Plus(g.r15, 2) BY DEF getGPRegister
    <3>3. Touched(i, c, Plus(g.r15, 2)) = {Address(i, c, Plus(g.r15, 2))} BY <2>5 DEF Touched
    <3>4. a \in Data
      BY <1>2, <1>c, <3>2, <3>3 DEF Reaches, c
    <3> QED BY <3>1, <3>4, <1>m, WritePCContext
  <2>6. CASE i.op = "ldm"
    <3> DEFINE r == Loaded(i, c)
               v == c.mem[Place(i, c.r[i.n], PC)]
    <3>1. Interpreted(g, i) = WritePC(SetRegisters(g, Execute(i, c, 0)), v)
      BY <1>2, <2>6, Zenon DEF Interpreted, armLdmInstruction, c
    <3>2. Passed(i, c.z) BY <1>2, <1>c
    <3>3. Execute(i, c, 0) = [c EXCEPT !.r = r] BY <2>6, <3>2, Zenon DEF Execute
    <3>4. PC \in i.list BY <2>6 DEF Replaced
    <3>5. Reaches(i, c, Plus(g.r15, 2), Data) BY DEF c
    <3>6. r \in [Regs -> Word] /\ v \in Word BY <2>6, <3>2, <3>4, <3>5, <1>c, BlockLoadReaches
    <3> HIDE DEF r, v
    <3>7. Execute(i, c, 0) \in Cores BY <1>c, <3>3, <3>6, CoreFields
    <3>8. SetRegisters(g, Execute(i, c, 0)) \in Context BY <3>7, SetRegistersContext
    <3> QED BY <3>1, <3>6, <3>8, WritePCContext
  <2>7. CASE i.op = "ldmret"
    <3> DEFINE r == Loaded(i, c)
               v == c.mem[Place(i, c.r[i.n], PC)]
               h == SetRegisters(g, [c EXCEPT !.r = r])
    <3>1. Interpreted(g, i) = WritePC(CPSRWriteByInstr(h, h.spsr[h.cpsr.mode], Fields), v)
      BY <1>2, <2>7, Zenon DEF Interpreted, armLdmExcRetInstruction, ExceptionReturn, c
    <3>2. Passed(i, c.z) BY <1>2, <1>c
    <3>4. PC \in i.list BY <2>7 DEF GuestInstr
    <3>5. Reaches(i, c, Plus(g.r15, 2), Data) BY DEF c
    <3>6. r \in [Regs -> Word] /\ v \in Word BY <2>7, <3>2, <3>4, <3>5, <1>c, BlockLoadReaches
    <3> HIDE DEF r, v
    <3>7. [c EXCEPT !.r = r] \in Cores BY <1>c, <3>6, CoreFields
    <3>8. h \in Context /\ h.cpsr = g.cpsr BY <3>7, SetRegistersContext
    <3> HIDE DEF h
    <3>9. h.spsr[h.cpsr.mode] \in Psr BY <3>8, ContextFields
    <3>10. CPSRWriteByInstr(h, h.spsr[h.cpsr.mode], Fields) \in Context
      BY <3>8, <3>9, StatusWriteContext
    <3> QED BY <3>1, <3>6, <3>10, WritePCContext
  <2>8. CASE i.op = "mrs"
    <3> DEFINE psr == IF i.s THEN ret ELSE g.cpsr
    <3>1. Interpreted(g, i) = Following(setGPRegister(g, i.d, PsrWord(psr)))
      BY <1>2, <2>8, Zenon DEF Interpreted, armMrsInstruction, ret
    <3>2. psr \in Psr BY <1>p, ContextFields
    <3> HIDE DEF psr
    <3>3. PsrWord(psr) \in Word BY <3>2, PsrAsWord
    <3>4. setGPRegister(g, i.d, PsrWord(psr)) \in Context
          /\ setGPRegister(g, i.d, PsrWord(psr)).r15 = g.r15
      BY <3>3, <1>i, SetRegisterContext
    <3> QED BY <3>1, <3>4, <1>f
  <2>9. CASE i.op = "msr"
    <3> DEFINE new == PsrOf(getGPRegister(g, i.n))
    <3>1. Interpreted(g, i) = Following(IF i.s THEN SPSRWriteByInstr(g, new, i.mask)
                                               ELSE CPSRWriteByInstr(g, new, i.mask))
      BY <1>2, <2>9, Zenon DEF Interpreted, armMsrRegInstruction
    <3>2. new \in Psr BY <1>i, <1>r, PsrOfWord
    <3> HIDE DEF new
    <3>3. SPSRWriteByInstr(g, new, i.mask) \in Context /\ SPSRWriteByInstr(g, new, i.mask).r15 = g.r15
      BY <3>2, SavedStatusWriteContext
    <3>4. CPSRWriteByInstr(g, new, i.mask) \in Context /\ CPSRWriteByInstr(g, new, i.mask).r15 = g.r15
      BY <3>2, StatusWriteContext
    <3> QED BY <3>1, <3>3, <3>4, <1>f, <1>i
  <2>10. CASE i.op = "cps"
    <3> DEFINE psr == [g.cpsr EXCEPT !.i = i.s]
    <3>1. Interpreted(g, i) = Following(CPSRWriteByInstr(g, psr, Fields))
      BY <1>2, <2>10, Zenon DEF Interpreted, armCpsInstruction
    <3>2. psr \in Psr BY <1>i, ContextFields DEF Psr
    <3> HIDE DEF psr
    <3>3. CPSRWriteByInstr(g, psr, Fields) \in Context /\ CPSRWriteByInstr(g, psr, Fields).r15 = g.r15
      BY <3>2, StatusWriteContext
    <3> QED BY <3>1, <3>3, <1>f
  <2> QED
    BY <2>1, <2>2, <2>3, <2>4, <2>5, <2>6, <2>7, <2>8, <2>9, <2>10, <1>i DEF Replaced
<1> QED BY <1>1, <1>2

LEMMA DeliveredContext ==
  ASSUME NEW g \in Context, NEW mode \in Modes \ {"usr"}, NEW return \in Int, NEW vector \in Word
  PROVE  Delivered(g, mode, return, vector) \in Context
<1> DEFINE spsr == [g.spsr EXCEPT ![mode] = g.cpsr]
           g1 == [g EXCEPT !.spsr = spsr]
           g2 == [g1 EXCEPT !.vector = mode]
           p2 == [g2.cpsr EXCEPT !.mode = mode]
           h == [g2 EXCEPT !.cpsr = p2]
           b == [h.bank[mode] EXCEPT ![LR] = Plus(g.r15, return)]
           h1 == [h EXCEPT !.bank[mode] = b]
           h2 == [h1 EXCEPT !.r15 = vector]
           p3 == [h2.cpsr EXCEPT !.i = TRUE]
           h3 == [h2 EXCEPT !.cpsr = p3]
<1>1. spsr \in [Modes \ {"usr"} -> Psr] BY ContextFields
<1>2. g1 \in Context /\ [g EXCEPT !.spsr[mode] = g.cpsr] = g1
  BY <1>1, ContextChanges DEF Context
<1> HIDE DEF spsr, g1
<1>3. g2 \in Context BY <1>2, ContextChanges
<1> HIDE DEF g2
<1>4. p2 \in Psr BY <1>3, ContextFields DEF Psr
<1> HIDE DEF p2
<1>5. h \in Context BY <1>3, <1>4, ContextChanges
<1>6. guestChangeMode([g EXCEPT !.spsr[mode] = g.cpsr], mode) = h
  BY <1>2, <1>3 DEF guestChangeMode, setExceptionVector, g2, p2, Context
<1> HIDE DEF h
<1>7. g.r15 \in Int /\ Plus(g.r15, return) \in Word BY ContextFields, WordArithmetic, Numbers
<1>8. b \in [Banked -> Word] BY <1>5, <1>7, ContextFields DEF Banked
<1>9. Delivered(g, mode, return, vector) =
        [h EXCEPT !.bank[mode][LR] = Plus(g.r15, return), !.r15 = vector, !.cpsr.i = TRUE]
  BY <1>6 DEF Delivered
<1>10. [h EXCEPT !.bank[mode][LR] = Plus(g.r15, return), !.r15 = vector, !.cpsr.i = TRUE] = h3
  BY <1>5 DEF Context
<1> HIDE DEF b
<1>11. h1 \in Context BY <1>5, <1>8, BankSet
<1> HIDE DEF h1
<1>12. h2 \in Context BY <1>11, ContextChanges
<1> HIDE DEF h2
<1>13. p3 \in Psr BY <1>12, ContextFields DEF Psr
<1> HIDE DEF p3
<1>14. h3 \in Context BY <1>12, <1>13, ContextChanges
<1> HIDE DEF h3
<1> QED BY <1>9, <1>10, <1>14

LEMMA VectorsAre ==
  /\ {SvcVector, IrqVector, AbtVector} \subseteq Word /\ Code \subseteq Word
  /\ {"svc", "irq", "abt"} \subseteq Modes \ {"usr"}
BY ProgramAssumption DEF Modes

LEMMA PendingContext ==
  ASSUME NEW g \in Context
  PROVE  PendingDelivered(g) \in Context
<1> DEFINE d == Delivered(g, "irq", 1, IrqVector)
<1>1. d \in Context BY VectorsAre, DeliveredContext
<1> HIDE DEF d
<1>2. [d EXCEPT !.irqPending = FALSE] \in Context BY <1>1, ContextChanges
<1> QED BY <1>2 DEF PendingDelivered, deliverInterrupt, d

(* In a block the guest is at one of its words.                             *)
AtWord == Priv /\ Ends(host.start) => host.off < Len(Words(host.start))

Hosts == [start : Word, off : Nat]

TypeInv == TypeOK /\ program \in Programs /\ host \in Hosts /\ AtWord

LEMMA TypesBegin == Init => TypeInv
<1> SUFFICES ASSUME Init PROVE TypeInv
  OBVIOUS
<1>1. program \in Programs /\ seen \in Boots /\ line = FALSE /\ mmu \in BOOLEAN
  BY DEF Init
<1>2. seen \in Machine /\ program \in [Code -> Instr] BY <1>1, ProgramAssumption
<1>3. /\ seen.low \in [Low -> Word] /\ seen.bank \in [Modes -> [Banked -> Word]]
      /\ seen.cpsr \in Psr /\ seen.spsr \in [Modes \ {"usr"} -> Psr] /\ seen.pc \in Word
      /\ seen.mem \in [Data -> Word] /\ seen.cpsr.mode \in Modes /\ seen.cpsr.z \in BOOLEAN
  BY <1>2 DEF Machine, Psr
<1>4. gc \in Context
  BY <1>3 DEF Init, Context
<1>5. core \in Cores
  <2>1. 0 \in Word BY Numbers DEF Word
  <2> DEFINE r == [n \in Regs |-> IF n \in Low THEN seen.low[n] ELSE seen.bank[seen.cpsr.mode][n]]
  <2>2. r \in [Regs -> Word] BY <1>3 DEF Regs
  <2>3. core = [r |-> r, z |-> seen.cpsr.z, tp |-> 0, mem |-> seen.mem] BY DEF Init
  <2> HIDE DEF r
  <2> QED BY <1>3, <2>1, <2>2, <2>3 DEF Cores
<1>6. host.start = seen.pc /\ host.off = 0 BY DEF Init
<1>7. AtWord
  <2>1. ASSUME Ends(host.start) PROVE host.off < Len(Words(host.start))
    <3>1. Len(Words(host.start)) \in Nat \ {0} BY <1>1, <1>3, <1>6, <2>1, BlockRuns
    <3> QED BY <1>6, <3>1
  <2> QED BY <2>1 DEF AtWord
<1>8. host \in Hosts /\ host.start \in Word /\ host.off \in Nat
  BY <1>3 DEF Init, Hosts
<1>9. line \in BOOLEAN BY <1>1
<1> QED BY <1>1, <1>2, <1>4, <1>5, <1>7, <1>8, <1>9 DEF TypeInv, TypeOK

-----------------------------------------------------------------------------
(* A block has the same words as long as the program is the same.           *)

(* What Copies says determines the words.                                   *)
LEMMA CopiesAgree ==
  ASSUME NEW s \in Nat, NEW a \in Nat, NEW b \in Nat, a <= b,
         NEW f, Copies(s, f, a), NEW g, Copies(s, g, b)
  PROVE  \A k \in s .. a : f[k] = g[k]
<1> DEFINE T == {k \in s .. a : f[k] # g[k]}
<1>1. CASE T = {} BY <1>1
<1>2. CASE T # {}
  <2>1. T \in SUBSET Nat OBVIOUS
  <2>2. PICK k \in T : \A m \in T : k <= m BY <1>2, <2>1, LeastNatural
  <2>3. k \in s .. a /\ k \in s .. b /\ f[k] # g[k] BY <2>2
  <2>4. f[k] = IF k = s THEN <<>> ELSE f[k - 1] \o Translated(program[k - 1], k - 1)
    BY <2>3 DEF Copies
  <2>5. g[k] = IF k = s THEN <<>> ELSE g[k - 1] \o Translated(program[k - 1], k - 1)
    BY <2>3 DEF Copies
  <2>6. k # s BY <2>3, <2>4, <2>5
  <2>7. k - 1 \in s .. a /\ k - 1 \notin T BY <2>2, <2>3, <2>6
  <2>8. f[k - 1] = g[k - 1] BY <2>7
  <2> QED BY <2>3, <2>4, <2>5, <2>6, <2>8
<1> QED BY <1>1, <1>2

WordsOf(a) == Translated(program[a], a)

Growing ==
  \A s, a, b \in Nat : s <= a /\ b = a + 1 =>
    /\ Copied(s, s) = <<>>
    /\ Copied(s, b) = Copied(s, a) \o WordsOf(a)

LEMMA CopiedGrows == Growing
<1> SUFFICES ASSUME NEW s \in Nat, NEW a \in Nat, NEW b \in Nat, s <= a, b = a + 1
             PROVE  /\ Copied(s, s) = <<>>
                    /\ Copied(s, a + 1) = Copied(s, a) \o WordsOf(a)
  BY DEF Growing
<1> DEFINE f == CHOOSE f : Copies(s, f, a)
           g == CHOOSE g : Copies(s, g, a + 1)
           h == CHOOSE h : Copies(s, h, s)
<1>1. Copies(s, f, a) BY CopyingIsDefined
<1>2. Copies(s, g, a + 1)
  <2>1. a + 1 \in Nat /\ s <= a + 1 OBVIOUS
  <2> QED BY <2>1, CopyingIsDefined
<1>3. Copies(s, h, s) BY CopyingIsDefined
<1>4. Copied(s, a) = f[a] /\ Copied(s, a + 1) = g[a + 1] /\ Copied(s, s) = h[s]
  BY DEF Copied, Copies
<1> HIDE DEF f, g, h
<1>5. h[s] = <<>> BY <1>3 DEF Copies
<1>6. f[a] = g[a] BY <1>1, <1>2, CopiesAgree
<1>7. a + 1 \in s .. a + 1 /\ a + 1 # s /\ (a + 1) - 1 = a OBVIOUS
<1>8. g[a + 1] = g[(a + 1) - 1] \o Translated(program[(a + 1) - 1], (a + 1) - 1)
  BY <1>2, <1>7 DEF Copies
<1> QED BY <1>4, <1>5, <1>6, <1>7, <1>8 DEF WordsOf

(* A block has one end.                                                     *)
Ending == \A s \in Word, e \in Code : EndsAt(s, e) => guestEnd(s) = e

LEMMA OneEnd == Ending
<1> SUFFICES ASSUME NEW s \in Word, NEW e \in Code, EndsAt(s, e) PROVE guestEnd(s) = e
  BY DEF Ending
<1> DEFINE f == guestEnd(s)
<1>1. f \in Code /\ EndsAt(s, f) BY DEF guestEnd
<1> HIDE DEF f
<1>2. e \in Int /\ f \in Int /\ s \in Int BY <1>1, VectorsAre, WordArithmetic
<1>3. /\ s <= e /\ s <= f /\ Replaced(program[e]) /\ Replaced(program[f])
      /\ \A k \in s .. e - 1 : ~ Replaced(program[k])
      /\ \A k \in s .. f - 1 : ~ Replaced(program[k])
  BY <1>1 DEF EndsAt
<1>4. ~ (e < f) /\ ~ (f < e) BY <1>2, <1>3
<1>5. e = f BY <1>2, <1>4
<1> QED BY <1>5 DEF f

LEMMA NextBlocks == Growing' /\ Ending'
BY CopiedGrows, OneEnd, PTL

LEMMA SpillsStay ==
  ASSUME mmu' = mmu, NEW cond, NEW d
  PROVE  /\ armSpillRegister(cond, d)' = armSpillRegister(cond, d)
         /\ armRestoreRegister(cond, d)' = armRestoreRegister(cond, d)
BY DEF armSpillRegister, armRestoreRegister

LEMMA TranslatedHere ==
  ASSUME program' = program, mmu' = mmu, NEW a
  PROVE  Translated(program[a], a)' = Translated(program[a], a)
<1>1. \A cond, d : /\ armSpillRegister(cond, d)' = armSpillRegister(cond, d)
                   /\ armRestoreRegister(cond, d)' = armRestoreRegister(cond, d)
  BY SpillsStay
<1>2. program[a]' = program[a] OBVIOUS
<1>3. armLdrPCReg(program[a], a)' = armLdrPCReg(program[a], a)
  BY <1>1, <1>2 DEF armLdrPCReg, armSpillRegister, armRestoreRegister
<1>4. armStrPCImm(program[a], a)' = armStrPCImm(program[a], a)
  BY <1>1, <1>2 DEF armStrPCImm, armSpillRegister, armRestoreRegister
<1>5. armALUimm(program[a], a)' = armALUimm(program[a], a)
      /\ armLdrPCImm(program[a], a)' = armLdrPCImm(program[a], a)
  BY <1>2 DEF armALUimm, armLdrPCImm
<1>6. armALUreg(program[a], a)' = armALUreg(program[a], a)
  BY <1>2 DEF armALUreg, armMovPCInstruction, armShiftPCImm
<1>7. armStmPC(program[a], a)' = armStmPC(program[a], a) BY <1>2 DEF armStmPC
<1> QED BY <1>2, <1>3, <1>4, <1>5, <1>6, <1>7, Zenon DEF Translated

LEMMA CopiedStays ==
  ASSUME program' = program, mmu' = mmu, NEW s \in Nat, NEW a \in Nat, s <= a
  PROVE  Copied(s, a)' = Copied(s, a)
<1>1. \A x, y, z \in Nat : x <= y /\ z = y + 1 =>
        /\ Copied(x, x)' = <<>>
        /\ Copied(x, z)' = Copied(x, y)' \o WordsOf(y)'
  BY NextBlocks DEF Growing
<1>2. ASSUME NEW y \in Nat, NEW z \in Nat, s <= y, z = y + 1
      PROVE  /\ Copied(s, s)' = <<>>
             /\ Copied(s, z)' = Copied(s, y)' \o WordsOf(y)
  <2>1. /\ Copied(s, s)' = <<>>
        /\ Copied(s, z)' = Copied(s, y)' \o WordsOf(y)'
    BY <1>1, <1>2
  <2>2. WordsOf(y)' = WordsOf(y) BY TranslatedHere DEF WordsOf
  <2> QED BY <2>1, <2>2
<1> DEFINE T == {n \in Nat : s <= n /\ Copied(s, n)' # Copied(s, n)}
<1>3. CASE T = {} BY <1>3
<1>4. CASE T # {}
  <2>1. T \in SUBSET Nat OBVIOUS
  <2>2. PICK n \in T : \A m \in T : n <= m BY <1>4, <2>1, LeastNatural
  <2>3. n # s BY <1>2, <2>2, CopiedGrows DEF Growing
  <2>4. PICK y \in Nat : s <= y /\ y \notin T /\ n = y + 1
    <3>1. n - 1 \in Nat /\ s <= n - 1 /\ n - 1 \notin T /\ n = (n - 1) + 1 BY <2>2, <2>3
    <3> QED BY <3>1
  <2>5. Copied(s, y)' = Copied(s, y) BY <2>4
  <2>6. Copied(s, n)' = Copied(s, y)' \o WordsOf(y) BY <1>2, <2>2, <2>4
  <2>7. Copied(s, n) = Copied(s, y) \o WordsOf(y) BY <2>2, <2>4, CopiedGrows DEF Growing
  <2> QED BY <2>2, <2>5, <2>6, <2>7
<1> QED BY <1>3, <1>4

LEMMA BlockStays ==
  ASSUME program' = program, mmu' = mmu, program \in Programs, NEW s \in Word, Ends(s)
  PROVE  guestEnd(s)' = guestEnd(s) /\ Words(s)' = Words(s)
<1>1. PICK e : /\ e = guestEnd(s) /\ e \in Code /\ EndsAt(s, e) /\ e \in Nat /\ s \in Nat
               /\ s <= e
  BY BlockFacts
<1>2. EndsAt(s, e)' BY <1>1 DEF EndsAt
<1>3. \A x \in Word, y \in Code : EndsAt(x, y)' => guestEnd(x)' = y BY NextBlocks DEF Ending
<1>4. guestEnd(s)' = e BY <1>1, <1>2, <1>3
<1>5. Copied(s, e)' = Copied(s, e) BY <1>1, CopiedStays
<1>6. Planted(e)' = Planted(e) BY DEF Planted
<1>7. guestEnd(s) = e BY <1>1
<1>8. Words(s)' = Copied(s, e)' \o Planted(e)' BY <1>4 DEF Words
<1>9. Words(s) = Copied(s, e) \o Planted(e) BY <1>7 DEF Words
<1> QED BY <1>4, <1>5, <1>6, <1>7, <1>8, <1>9

LEMMA EndsStays == ASSUME program' = program, NEW s PROVE Ends(s)' <=> Ends(s)
BY DEF Ends, EndsAt

-----------------------------------------------------------------------------
(* Every step leaves values of their types, and the guest at a word.        *)

(* What a step leaves alone, and what it needs of the state before it.      *)
LEMMA TypeFacts ==
  ASSUME TypeInv
  PROVE  /\ core \in Cores /\ gc \in Context /\ host.start \in Word /\ host.off \in Nat
         /\ line \in BOOLEAN /\ mmu \in BOOLEAN /\ program \in Programs
         /\ program \in [Code -> Instr] /\ seen \in Machine /\ core.mem \in [Data -> Word]
         /\ HostPC \in Word /\ \A a \in Code : a \in Word /\ a \in Int
         /\ \A a \in Int, k \in Int : Plus(a, k) \in Word
         /\ host \in Hosts /\ \A a \in Word : a \in Int
BY CoreFields, VectorsAre, WordArithmetic, Numbers DEF TypeInv, TypeOK

LEMMA HostFacts ==
  ASSUME TypeInv
  PROVE  /\ host \in Hosts /\ host.start \in Word /\ host.start \in Int
         /\ host.off \in Nat /\ host.off + 1 \in Nat
<1>1. host \in Hosts BY DEF TypeInv
<1>2. host.start \in Word /\ host.off \in Nat BY <1>1 DEF Hosts
<1>3. host.start \in Int BY <1>2, WordArithmetic
<1>4. \A n \in Nat : n + 1 \in Nat OBVIOUS
<1> QED BY <1>1, <1>2, <1>3, <1>4

LEMMA InstrFound ==
  ASSUME program \in Programs, NEW a \in Code
  PROVE  GuestInstr(program[a]) /\ program[a] \in Runnable /\ program[a].imm \in Word
<1>1. GuestInstr(program[a]) BY ProgramAssumption DEF GuestInstr
<1>2. program[a] \in Runnable BY <1>1, InstrRuns DEF GuestInstr
<1> QED BY <1>1, <1>2, InstrFields DEF GuestInstr

(* The next word of a block.                                                *)
LEMMA WordHere ==
  ASSUME TypeInv, InBlock
  PROVE  /\ Ends(host.start) /\ ThisWord \in Runnable
         /\ ThisWord.op = "hypercall" /\ ~ Passed(ThisWord, core.z)
              => host.off + 1 < Len(Words(host.start))
         /\ ThisWord.op # "hypercall" => host.off + 1 < Len(Words(host.start))
         /\ ThisWord.op \notin {"movw", "movt", "hypercall"} =>
              host.off < Len(Copied(host.start, guestEnd(host.start)))
<1> DEFINE s == host.start
           n == host.off + 1
           ws == Words(s)
           copied == Copied(s, guestEnd(s))
<1>1. program \in Programs /\ s \in Word /\ host.off \in Nat BY TypeFacts
<1>2. Priv /\ Ends(s) BY DEF InBlock, Ends
<1>3. host.off < Len(ws) BY <1>2 DEF TypeInv, AtWord
<1>4. /\ ws \in Seq(Runnable) /\ Len(ws) \in Nat \ {0} /\ ws[Len(ws)] = Hypercall("al")
      /\ copied \in Seq(Runnable)
      /\ \A k \in 1 .. Len(ws) : k > Len(copied) => ws[k].op \in {"movw", "movt", "hypercall"}
  BY <1>1, <1>2, BlockRuns
<1>5. ThisWord = ws[n] BY DEF ThisWord
<1> HIDE DEF ws, copied
<1>6. n \in 1 .. Len(ws) BY <1>1, <1>3, <1>4
<1>7. ws[n] \in Runnable BY <1>4, <1>6
<1>8. Hypercall("al").op = "hypercall" /\ Passed(Hypercall("al"), core.z)
  BY DEF Hypercall, Plain, Passed
<1>9. /\ ws[n].op = "hypercall" /\ ~ Passed(ws[n], core.z) => n < Len(ws)
      /\ ws[n].op # "hypercall" => n < Len(ws)
  <2>1. n = Len(ws) => ws[n] = Hypercall("al") BY <1>4
  <2>2. n = Len(ws) \/ n < Len(ws) BY <1>1, <1>4, <1>6
  <2> QED BY <2>1, <2>2, <1>8
<1>10. ws[n].op \notin {"movw", "movt", "hypercall"} => host.off < Len(copied)
  <2>1. n > Len(copied) => ws[n].op \in {"movw", "movt", "hypercall"} BY <1>4, <1>6
  <2>2. Len(copied) \in Nat BY <1>4
  <2> QED BY <1>1, <2>1, <2>2
<1>11. ws = Words(s) /\ copied = Copied(s, guestEnd(s)) BY DEF ws, copied
<1> QED BY <1>2, <1>5, <1>7, <1>9, <1>10, <1>11

(* The guest stays in its block, or comes to the start of one.              *)
LEMMA AtWordAfter ==
  ASSUME TypeInv, program' = program, mmu' = mmu, host'.start \in Word,
         \/ host'.off = 0
         \/ ~ Priv'
         \/ /\ host'.start = host.start
            /\ Ends(host.start) => host'.off < Len(Words(host.start))
  PROVE  AtWord'
<1> SUFFICES ASSUME Priv', Ends(host.start)'
             PROVE  (host.off < Len(Words(host.start)))'
  BY DEF AtWord
<1>1. program \in Programs BY TypeFacts
<1>2. PICK s \in Word : s = host'.start OBVIOUS
<1>3. Ends(s)' BY <1>2
<1>4. Ends(s) BY <1>3, EndsStays
<1>5. Words(s)' = Words(s) BY <1>1, <1>4, BlockStays
<1>6. Words(host.start)' = Words(s)' BY <1>2
<1>7. Len(Words(s)) \in Nat \ {0} BY <1>1, <1>4, BlockRuns
<1>8. host'.off < Len(Words(s)) BY <1>2, <1>4, <1>7
<1> QED BY <1>5, <1>6, <1>8

LEMMA Resumed ==
  ASSUME TypeInv, program' = program, mmu' = mmu, line' = line, NEW g \in Context, ResumeAt(g)
  PROVE  TypeInv'
<1>1. gc' = g /\ core' = Restored(g) /\ host' = [start |-> g.r15, off |-> 0]
      /\ seen' = Snapshot(g, core.mem, g.r15)
  BY DEF ResumeAt
<1>2. g.r15 \in Word BY ContextFields
<1>3. core' \in Cores BY <1>1, TypeFacts, RestoredCore
<1>4. seen' \in Machine BY <1>1, <1>2, TypeFacts, SnapshotMachine
<1>5. host' \in Hosts /\ host'.start \in Word /\ host'.off = 0 /\ host'.off \in Nat
  BY <1>1, <1>2 DEF Hosts
<1>6. AtWord' BY <1>5, AtWordAfter
<1>7. gc' \in Context BY <1>1
<1> QED BY <1>3, <1>4, <1>5, <1>6, <1>7, TypeFacts DEF TypeInv, TypeOK

LEMMA WentOn ==
  ASSUME TypeInv, InBlock, NEW g \in Context, NEW mem \in [Data -> Word], NextWord(g, mem)
  PROVE  /\ host' \in Hosts /\ host'.start = host.start /\ host'.off = host.off + 1
         /\ seen' \in Machine
<1> DEFINE s == host.start
           done == {a \in s + 1 .. guestEnd(s) : Len(Copied(s, a)) = host.off + 1}
<1>1. host' = [host EXCEPT !.off = host.off + 1]
      /\ (seen' = seen \/ \E a \in done : seen' = Snapshot(g, mem, a))
  BY DEF NextWord
<1>2. Ends(s) /\ s \in Word /\ program \in Programs BY WordHere, TypeFacts
<1>3. /\ guestEnd(s) \in Nat /\ s \in Nat /\ \A k \in s .. guestEnd(s) : k \in Code
  BY <1>2, BlockFacts
<1>4. \A a \in done : a \in Word
  <2>1. ASSUME NEW a \in done PROVE a \in s .. guestEnd(s) BY <1>3
  <2> QED BY <2>1, <1>3, TypeFacts
<1>5. seen' \in Machine BY <1>1, <1>4, TypeFacts, SnapshotMachine
<1>6. host' \in Hosts /\ host'.start = host.start /\ host'.off = host.off + 1
  <2>1. host \in Hosts /\ host.off + 1 \in Nat BY HostFacts
  <2> QED BY <1>1, <2>1 DEF Hosts
<1> QED BY <1>5, <1>6

(* A guest in a block goes on after a word that is not the last.            *)
LEMMA RunWordTypes ==
  ASSUME TypeInv, RunWord, program' = program, mmu' = mmu
  PROVE  TypeInv'
<1>1. PICK w, where, c, g, mem :
        /\ w = ThisWord /\ c = core' /\ g = SavedFrom(core') /\ mem = core'.mem
        /\ where = IF w.op \in {"str", "stm"} THEN Data \ {TableWord} ELSE Data
        /\ InBlock /\ (w.op = "hypercall" => ~ Passed(w, core.z))
        /\ Reaches(w, core, HostPC, where) /\ c = Execute(w, core, HostPC)
        /\ NextWord(g, mem) /\ gc' = gc /\ line' = line
  BY DEF RunWord
<1>2. w \in Runnable /\ Ends(host.start) /\ host.off + 1 < Len(Words(host.start))
  BY <1>1, WordHere
<1>3. where \subseteq Data BY <1>1
<1>4. c \in Cores
  <2>1. core \in Cores /\ HostPC \in Word BY TypeFacts
  <2>2. Reaches(w, core, HostPC, where) /\ c = Execute(w, core, HostPC) BY <1>1
  <2> QED BY <1>2, <1>3, <2>1, <2>2, ExecuteCore
<1>5. g \in Context /\ mem \in [Data -> Word]
  <2>1. g = SavedFrom(c) /\ mem = c.mem BY <1>1
  <2>2. gc \in Context BY TypeFacts
  <2> QED BY <1>4, <2>1, <2>2, SavedContext, CoreFields
<1>6. /\ host' \in Hosts /\ host'.start = host.start /\ host'.off = host.off + 1
      /\ seen' \in Machine
  BY <1>1, <1>5, WentOn
<1>7. host'.start \in Word /\ host'.off \in Nat BY <1>6, HostFacts
<1>8. AtWord' BY <1>2, <1>6, <1>7, AtWordAfter
<1> QED BY <1>1, <1>4, <1>6, <1>7, <1>8, TypeFacts DEF TypeInv, TypeOK

(* The handler of a store leaves the mode of the guest alone.               *)
LEMMA EmulatedStoreTypes ==
  ASSUME TypeInv, EmulatedStore, program' = program, mmu' = mmu
  PROVE  TypeInv'
<1> DEFINE w == ThisWord
           s == Saved
           a == AsCore(s)
           c == Execute(w, a, HostPC)
           g == SetRegisters(s, c)
<1>1. /\ InBlock /\ w.op = "str" /\ gc' = g /\ core' = [Restored(g) EXCEPT !.mem = c.mem]
      /\ line' = (line /\ ~ Acks(w, core, HostPC)) /\ NextWord(g, c.mem)
  BY DEF EmulatedStore
<1>2. w \in Runnable /\ Ends(host.start) /\ host.off + 1 < Len(Words(host.start))
  <2>1. "str" # "hypercall" OBVIOUS
  <2> QED BY <1>1, <2>1, WordHere
<1>3. s \in Context BY TypeFacts, SavedContext DEF Saved
<1> HIDE DEF s
<1>4. a \in Cores BY <1>3, TypeFacts, AsCoreCore
<1> HIDE DEF a, w
<1>5. c \in Cores
  <2>1. Stored(w, a, HostPC) \in [Data -> Word] BY <1>2, <1>4, TypeFacts, StoredWords
  <2>2. CASE Passed(w, a.z)
    <3>1. c = [a EXCEPT !.mem = Stored(w, a, HostPC)] BY <1>1, <2>2, Zenon DEF Execute
    <3> QED BY <1>4, <2>1, <3>1, CoreFields
  <2>3. CASE ~ Passed(w, a.z) BY <1>4, <2>3 DEF Execute
  <2> QED BY <2>2, <2>3
<1> HIDE DEF c
<1>6. g \in Context BY <1>3, <1>5, SetRegistersContext
<1>7. Restored(g) \in Cores /\ c.mem \in [Data -> Word]
  BY <1>5, <1>6, TypeFacts, RestoredCore, CoreFields
<1> HIDE DEF g
<1>8. core' \in Cores BY <1>1, <1>7, CoreFields
<1>9. /\ host' \in Hosts /\ host'.start = host.start /\ host'.off = host.off + 1
      /\ seen' \in Machine
  BY <1>1, <1>6, <1>7, WentOn
<1>10. host'.start \in Word /\ host'.off \in Nat BY <1>9, HostFacts
<1>11. AtWord' BY <1>2, <1>9, <1>10, AtWordAfter
<1>12. line' \in BOOLEAN BY <1>1, TypeFacts
<1> QED BY <1>1, <1>6, <1>8, <1>9, <1>10, <1>11, <1>12, TypeFacts DEF TypeInv, TypeOK

LEMMA HypercallTypes ==
  ASSUME TypeInv, HypercallTraps, program' = program, mmu' = mmu
  PROVE  TypeInv'
<1>1. PICK e \in Code :
        LET i == program[e]
            g == WritePC(Saved, e)
        IN /\ EndsAt(host.start, e) /\ i.op # "svc"
           /\ Reaches(i, AsCore(g), Plus(e, 2), Data)
           /\ ResumeAt(PendingDelivered(Interpreted(g, i)))
  BY DEF HypercallTraps
<1> DEFINE i == program[e]
           s == Saved
           g == WritePC(s, e)
<1>2. /\ EndsAt(host.start, e) /\ i.op # "svc" /\ Reaches(i, AsCore(g), Plus(e, 2), Data)
      /\ ResumeAt(PendingDelivered(Interpreted(g, i)))
  BY <1>1
<1>3. s \in Context /\ s.cpsr.mode # "usr"
  BY TypeFacts, SavedContext DEF HypercallTraps, InBlock, Priv, Saved
<1>4. GuestInstr(i) /\ Replaced(i) BY <1>2, TypeFacts, InstrFound DEF EndsAt
<1> HIDE DEF s, i
<1>5. e \in Word BY TypeFacts
<1>6. g \in Context /\ g.cpsr.mode # "usr" /\ g.r15 = e BY <1>3, <1>5, WritePCContext
<1> HIDE DEF g
<1>7. Interpreted(g, i) \in Context BY <1>2, <1>4, <1>6, TypeFacts, InterpretedContext
<1>8. PendingDelivered(Interpreted(g, i)) \in Context BY <1>7, PendingContext
<1>9. line' = line BY DEF HypercallTraps
<1> QED BY <1>2, <1>8, <1>9, Resumed

LEMMA RunUserTypes ==
  ASSUME TypeInv, RunUser, program' = program, mmu' = mmu
  PROVE  TypeInv'
<1>1. PICK i, pc, next, where, c, g, mem :
        /\ i = UserInstr /\ pc = Plus(host.start, 2)
        /\ next = IF i.op = "b" /\ Passed(i, core.z) THEN i.imm ELSE Plus(host.start, 1)
        /\ where = IF i.op \in {"str", "stm"} THEN Data \ {TableWord} ELSE Data
        /\ c = core' /\ g = SavedFrom(core') /\ mem = core'.mem
        /\ InPlace /\ Reaches(i, core, pc, where) /\ c = Execute(i, core, pc)
        /\ host' = [host EXCEPT !.start = next] /\ seen' = Snapshot(g, mem, next)
        /\ gc' = gc /\ line' = line
  BY DEF RunUser
<1>2. i \in Runnable /\ i.imm \in Word /\ ~ Priv
  BY <1>1, TypeFacts, InstrFound DEF InPlace, UserInstr
<1>3. pc \in Word /\ Plus(host.start, 1) \in Word
  <2>1. host.start \in Int /\ 1 \in Int /\ 2 \in Int BY HostFacts
  <2> QED BY <1>1, <2>1, TypeFacts
<1>4. where \subseteq Data /\ next \in Word BY <1>1, <1>2, <1>3
<1>5. c \in Cores
  <2>1. core \in Cores BY TypeFacts
  <2>2. Reaches(i, core, pc, where) /\ c = Execute(i, core, pc) BY <1>1
  <2> QED BY <1>2, <1>3, <1>4, <2>1, <2>2, ExecuteCore
<1>6. g \in Context /\ mem \in [Data -> Word]
  <2>1. g = SavedFrom(c) /\ mem = c.mem BY <1>1
  <2>2. gc \in Context BY TypeFacts
  <2> QED BY <1>5, <2>1, <2>2, SavedContext, CoreFields
<1>7. seen' \in Machine BY <1>1, <1>4, <1>6, SnapshotMachine
<1>8. host' \in Hosts /\ host'.start \in Word /\ host'.off \in Nat
  <2>1. host \in Hosts BY TypeFacts
  <2>2. host' = [host EXCEPT !.start = next] BY <1>1
  <2> QED BY <1>4, <2>1, <2>2 DEF Hosts
<1>9. ~ Priv' BY <1>1, <1>2 DEF Priv
<1>10. AtWord' BY <1>8, <1>9, AtWordAfter
<1> QED BY <1>1, <1>5, <1>7, <1>8, <1>10, TypeFacts DEF TypeInv, TypeOK

LEMMA ServiceCallTypes ==
  ASSUME TypeInv, ServiceCall, program' = program, mmu' = mmu
  PROVE  TypeInv'
<1> DEFINE s == Saved
           g == WritePC(s, host.start)
           h == deliverServiceCall(g)
<1>1. ResumeAt(PendingDelivered(h)) /\ line' = line BY DEF ServiceCall
<1>2. s \in Context BY TypeFacts, SavedContext DEF Saved
<1> HIDE DEF s
<1>3. g \in Context BY <1>2, TypeFacts, WritePCContext
<1> HIDE DEF g
<1>4. h \in Context BY <1>3, VectorsAre, DeliveredContext DEF deliverServiceCall
<1> HIDE DEF h
<1>5. PendingDelivered(h) \in Context BY <1>4, PendingContext
<1> QED BY <1>1, <1>5, Resumed

(* A word that faults stands for an instruction of the block.               *)
LEMMA FaultFound ==
  ASSUME TypeInv, InBlock, Faults(ThisWord, core, HostPC)
  PROVE  hostpcToGuestpc(host.start, host.off) \in Word
<1> DEFINE s == host.start
           off == host.off
           e == guestEnd(s)
           T == {a \in s .. e - 1 : Past(s, a, off)}
           P(a) == Past(s, a, off) /\ \A k \in s .. a - 1 : ~ Past(s, k, off)
<1>1. ThisWord.op \notin {"movw", "movt", "hypercall"}
  <2>1. Touched(ThisWord, core, HostPC) # {} BY DEF Faults
  <2>2. ThisWord.op \in {"movw", "movt", "hypercall"} => Touched(ThisWord, core, HostPC) = {}
    BY Zenon DEF Touched
  <2> QED BY <2>1, <2>2
<1>2. Ends(s) /\ off < Len(Copied(s, e)) BY <1>1, WordHere
<1>3. s \in Word /\ off \in Nat /\ program \in Programs BY TypeFacts
<1>4. e \in Nat /\ s \in Nat /\ s <= e /\ \A k \in s .. e : k \in Code BY <1>2, <1>3, BlockFacts
<1>5. CASE off = 0 BY <1>3, <1>5 DEF hostpcToGuestpc
<1>6. CASE off # 0
  <2> HIDE DEF e
  <2>1. s < e
    <3>1. Copied(s, s) = <<>>
      <4>1. s + 1 \in Nat /\ s <= s BY <1>4
      <4> QED BY <1>4, <4>1, CopiedGrows DEF Growing
    <3>2. s # e BY <1>2, <1>3, <3>1
    <3> QED BY <1>4, <3>2
  <2>2. e - 1 \in T
    <3>1. e - 1 \in s .. e - 1 /\ (e - 1) + 1 = e BY <1>4, <2>1
    <3> QED BY <1>2, <1>3, <3>1 DEF Past
  <2>3. T \in SUBSET Nat BY <1>4
  <2>4. PICK a \in T : \A k \in T : a <= k BY <2>2, <2>3, LeastNatural
  <2>5. a \in s .. e - 1 /\ P(a)
    <3>1. ASSUME NEW k \in s .. a - 1 PROVE ~ Past(s, k, off)
      <4>1. k \in s .. e - 1 /\ ~ (a <= k) BY <1>4, <2>3, <2>4
      <4> QED BY <2>4, <4>1
    <3> QED BY <2>4, <3>1
  <2>6. (CHOOSE b \in s .. e - 1 : P(b)) \in s .. e - 1 BY <2>5
  <2>7. hostpcToGuestpc(s, off) = CHOOSE b \in s .. e - 1 : P(b)
    BY <1>6 DEF hostpcToGuestpc, e
  <2> HIDE DEF P
  <2>8. hostpcToGuestpc(s, off) \in s .. e BY <1>4, <2>6, <2>7
  <2> QED BY <1>4, <2>8, TypeFacts
<1> QED BY <1>5, <1>6

LEMMA DataAbortTypes ==
  ASSUME TypeInv, DataAbort, program' = program, mmu' = mmu
  PROVE  TypeInv'
<1>1. PICK a \in Word : ResumeAt(deliverDataAbort(WritePC(Saved, a)))
  <2>1. CASE /\ InBlock /\ Faults(ThisWord, core, HostPC)
             /\ ResumeAt(deliverDataAbort(WritePC(Saved, hostpcToGuestpc(host.start, host.off))))
    BY <2>1, FaultFound
  <2>2. CASE ResumeAt(deliverDataAbort(WritePC(Saved, host.start)))
    BY <2>2, TypeFacts
  <2> QED BY <2>1, <2>2 DEF DataAbort
<1> DEFINE s == Saved
           g == WritePC(s, a)
           h == deliverDataAbort(g)
<1>2. s \in Context BY TypeFacts, SavedContext DEF Saved
<1> HIDE DEF s
<1>3. g \in Context BY <1>2, WritePCContext
<1> HIDE DEF g
<1>4. h \in Context BY <1>3, VectorsAre, DeliveredContext DEF deliverDataAbort
<1>5. ResumeAt(h) BY <1>1 DEF g, s
<1> HIDE DEF h
<1>6. line' = line BY DEF DataAbort
<1> QED BY <1>4, <1>5, <1>6, Resumed

LEMMA TimerIrqTypes ==
  ASSUME TypeInv, TimerIrq, program' = program, mmu' = mmu
  PROVE  TypeInv'
<1> DEFINE s == Saved
           b == s.irqPending \/ ~ gc.cpsr.i
           g == [s EXCEPT !.irqPending = b]
<1>1. s \in Context BY TypeFacts, SavedContext DEF Saved
<1>2. gc' = g /\ core' = Restored(g) /\ line' = TRUE /\ host' = host /\ seen' = seen
  BY DEF TimerIrq
<1> HIDE DEF s
<1>3. b \in BOOLEAN BY <1>1, TypeFacts, ContextFields
<1> HIDE DEF b
<1>4. g \in Context BY <1>1, <1>3, ContextChanges
<1>5. g.cpsr.mode = gc.cpsr.mode
  <2>1. s.cpsr.mode = gc.cpsr.mode BY TypeFacts, SavedContext DEF Saved, s
  <2> QED BY <2>1
<1> HIDE DEF g
<1>6. core' \in Cores BY <1>2, <1>4, TypeFacts, RestoredCore
<1>7. host' \in Hosts /\ host'.start \in Word /\ host'.off \in Nat BY <1>2, TypeFacts
<1>8. AtWord'
  <2>1. Priv' => Priv BY <1>2, <1>5 DEF Priv
  <2>2. Priv /\ Ends(host.start) => host'.off < Len(Words(host.start))
    BY <1>2 DEF TypeInv, AtWord
  <2>3. CASE Priv' BY <1>2, <1>7, <2>1, <2>2, <2>3, AtWordAfter
  <2>4. CASE ~ Priv' BY <1>7, <2>4, AtWordAfter
  <2> QED BY <2>3, <2>4
<1> QED BY <1>2, <1>4, <1>6, <1>7, <1>8, TypeFacts DEF TypeInv, TypeOK

LEMMA TypesKept == TypeInv /\ [Next]_vars => TypeInv'
<1> SUFFICES ASSUME TypeInv, [Next]_vars PROVE TypeInv'
  OBVIOUS
<1>1. CASE Next
  <2>1. program' = program /\ mmu' = mmu BY <1>1 DEF Next
  <2>2. CASE RunWord BY <2>1, <2>2, RunWordTypes
  <2>3. CASE EmulatedStore BY <2>1, <2>3, EmulatedStoreTypes
  <2>4. CASE HypercallTraps BY <2>1, <2>4, HypercallTypes
  <2>5. CASE RunUser BY <2>1, <2>5, RunUserTypes
  <2>6. CASE ServiceCall BY <2>1, <2>6, ServiceCallTypes
  <2>7. CASE DataAbort BY <2>1, <2>7, DataAbortTypes
  <2>8. CASE TimerIrq BY <2>1, <2>8, TimerIrqTypes
  <2> QED BY <1>1, <2>2, <2>3, <2>4, <2>5, <2>6, <2>7, <2>8 DEF Next
<1>2. CASE UNCHANGED vars
  <2>1. /\ core' = core /\ gc' = gc /\ host' = host /\ line' = line /\ program' = program
        /\ mmu' = mmu /\ seen' = seen
    BY <1>2 DEF vars
  <2>2. Priv' <=> Priv BY <2>1 DEF Priv
  <2>3. AtWord'
    <3>1. Priv /\ Ends(host.start) => host.off < Len(Words(host.start))
      BY DEF TypeInv, AtWord
    <3>2. CASE Priv BY <2>1, <3>1, <3>2, TypeFacts, AtWordAfter
    <3>3. CASE ~ Priv BY <2>1, <2>2, <3>3, TypeFacts, AtWordAfter
    <3> QED BY <3>2, <3>3
  <2> QED BY <2>1, <2>3, TypeFacts DEF TypeInv, TypeOK
<1> QED BY <1>1, <1>2

(* Whatever the guest does, the processor, the context and the machine that *)
(* the guest sees hold values of their kinds: every word that is executed   *)
(* is a word of a block, every handler leaves a context, and a fault is     *)
(* always at an instruction that hostpcToGuestpc finds.                     *)
THEOREM TypesStay == Spec => []TypeOK
<1>1. TypeInv => TypeOK BY DEF TypeInv
<1> QED BY <1>1, TypesBegin, TypesKept, PTL DEF Spec

-----------------------------------------------------------------------------
(* The instructions of ArmMachine are those of this module.                 *)

LEMMA SameCardinality == \A S : Abstract!Cardinality(S) = Cardinality(S)
BY DEF Abstract!Cardinality, Cardinality, Abstract!IsFiniteSet, IsFiniteSet

LEMMA SamePlace ==
  ASSUME NEW i, NEW b, NEW n
  PROVE  Abstract!Place(i, b, n) = Place(i, b, n)
BY SameCardinality DEF Abstract!Plus, Plus, Abstract!Modulus, Modulus, Abstract!Place, Place

LEMMA SameStored ==
  ASSUME NEW i, NEW c, NEW pc
  PROVE  Abstract!Stored(i, c, pc) = Stored(i, c, pc)
BY SamePlace DEF Abstract!PC, PC, Abstract!Plus, Plus, Abstract!Modulus, Modulus,
   Abstract!Reg, Reg, Abstract!Address, Address, Abstract!Stored, Stored

LEMMA SameLoaded ==
  ASSUME NEW i, NEW c
  PROVE  Abstract!Loaded(i, c) = Loaded(i, c)
BY SamePlace, SameCardinality DEF Abstract!Plus, Plus, Abstract!Modulus, Modulus,
   Abstract!Loaded, Loaded, Abstract!Regs, Regs, Abstract!Banked, Banked, Abstract!LR, LR,
   Abstract!SP, SP

LEMMA SameAccess ==
  /\ \A i, z : Abstract!Passed(i, z) <=> Passed(i, z)
  /\ \A i, c, v : Abstract!Result(i, c, v) = Result(i, c, v)
  /\ \A c, n, v : Abstract!Write(c, n, v) = Write(c, n, v)
  /\ \A c, n, pc : Abstract!Reg(c, n, pc) = Reg(c, n, pc)
  /\ \A i, c, pc : Abstract!Address(i, c, pc) = Address(i, c, pc)
  /\ \A a, b : Abstract!Plus(a, b) = Plus(a, b)
  /\ Abstract!PC = PC /\ Abstract!LR = LR /\ Abstract!SP = SP
BY DEF Abstract!PC, PC, Abstract!Plus, Plus, Abstract!Modulus, Modulus, Abstract!Passed, Passed,
   Abstract!Result, Result, Abstract!Write, Write, Abstract!Reg, Reg, Abstract!Address, Address,
   Abstract!LR, LR, Abstract!SP, SP

LEMMA SameExecute ==
  ASSUME NEW i, NEW c, NEW pc
  PROVE  Abstract!Execute(i, c, pc) = Execute(i, c, pc)
<1>1. Abstract!Modulus = Modulus BY DEF Abstract!Modulus, Modulus
<1> QED
BY <1>1, SameAccess, SameStored, SameLoaded, SameCardinality, Zenon DEF Abstract!Execute, Execute
LEMMA SameReaches ==
  ASSUME NEW i, NEW c, NEW pc, NEW where
  PROVE /\ Abstract!Reaches(i, c, pc, where) <=> Reaches(i, c, pc, where)
        /\ Abstract!Faults(i, c, pc) <=> Faults(i, c, pc)
        /\ Abstract!Acks(i, c, pc) <=> Acks(i, c, pc)
BY SamePlace DEF Abstract!PC, PC, Abstract!Plus, Plus, Abstract!Modulus, Modulus,
   Abstract!Passed, Passed, Abstract!Reg, Reg, Abstract!Address, Address,
   Abstract!Touched, Touched, Abstract!Faults, Faults, Abstract!Reaches, Reaches, Abstract!Acks, Acks

-----------------------------------------------------------------------------
(* The machine that the guest believes it has, in the words of ArmMachine.  *)

RegFile(x) == [n \in Regs |-> IF n \in Low THEN x.low[n] ELSE x.bank[x.cpsr.mode][n]]
CoreOf(x) == [r |-> RegFile(x), z |-> x.cpsr.z, tp |-> 0, mem |-> x.mem]
With(x, c) ==
  [x EXCEPT !.low = [n \in Low |-> c.r[n]],
            !.bank[x.cpsr.mode] = [n \in Banked |-> c.r[n]],
            !.cpsr.z = c.z, !.mem = c.mem]
GoTo(x, a) == [x EXCEPT !.pc = a]
Exception(x, mode, vector, return) ==
  [x EXCEPT !.spsr[mode] = x.cpsr, !.bank[mode][LR] = return,
            !.cpsr.mode = mode, !.cpsr.i = TRUE, !.pc = vector]

LEMMA SameMachine ==
  /\ \A x : Abstract!Core(x) = CoreOf(x)
  /\ \A x, c : Abstract!With(x, c) = With(x, c)
  /\ \A x, a : Abstract!GoTo(x, a) = GoTo(x, a)
  /\ \A x, mode, vector, return :
       Abstract!Exception(x, mode, vector, return) = Exception(x, mode, vector, return)
<1>1. \A x : Abstract!RegFile(x) = RegFile(x)
  BY DEF Abstract!RegFile, RegFile, Abstract!Regs, Regs, Abstract!Banked, Banked, Abstract!LR, LR,
         Abstract!SP, SP
<1>2. \A x : Abstract!Core(x) = CoreOf(x) BY <1>1 DEF Abstract!Core, CoreOf
<1>3. \A x, c : Abstract!With(x, c) = With(x, c)
  BY DEF Abstract!With, With, Abstract!Banked, Banked, Abstract!LR, LR, Abstract!SP, SP
<1>4. \A x, a : Abstract!GoTo(x, a) = GoTo(x, a) BY DEF Abstract!GoTo, GoTo
<1>5. \A x, mode, vector, return :
       Abstract!Exception(x, mode, vector, return) = Exception(x, mode, vector, return)
  BY DEF Abstract!Exception, Exception, Abstract!LR, LR
<1> QED BY <1>2, <1>3, <1>4, <1>5

LEMMA MachineFields ==
  ASSUME NEW x \in Machine
  PROVE  /\ x.low \in [Low -> Word] /\ x.bank \in [Modes -> [Banked -> Word]] /\ x.cpsr \in Psr
         /\ x.spsr \in [Modes \ {"usr"} -> Psr] /\ x.pc \in Word /\ x.mem \in [Data -> Word]
         /\ \A k \in Modes : x.bank[k] \in [Banked -> Word]
         /\ x.cpsr.mode \in Modes /\ x.cpsr.i \in BOOLEAN /\ x.cpsr.z \in BOOLEAN
BY DEF Machine, Psr

(* Two machines with the same parts are the same.                           *)
LEMMA SameMachines ==
  ASSUME NEW x \in Machine, NEW y \in Machine,
         x.low = y.low, x.cpsr = y.cpsr, x.spsr = y.spsr, x.pc = y.pc, x.mem = y.mem,
         \A k \in Modes : x.bank[k] = y.bank[k]
  PROVE  x = y
<1>1. x.bank = y.bank BY MachineFields
<1> QED BY <1>1 DEF Machine

(* Two cores as well.                                                       *)
LEMMA SameCores ==
  ASSUME NEW c \in Cores, NEW d \in Cores, c.z = d.z, c.tp = d.tp, c.mem = d.mem,
         \A n \in Regs : c.r[n] = d.r[n]
  PROVE  c = d
<1>1. c.r = d.r BY CoreFields
<1> QED BY <1>1 DEF Cores

LEMMA CoreOfMachine ==
  ASSUME NEW x \in Machine
  PROVE  /\ CoreOf(x) \in Cores /\ CoreOf(x).z = x.cpsr.z /\ CoreOf(x).mem = x.mem
         /\ CoreOf(x).tp = 0
         /\ \A n \in Low : n \in Regs /\ CoreOf(x).r[n] = x.low[n]
         /\ \A n \in Banked : n \in Regs /\ CoreOf(x).r[n] = x.bank[x.cpsr.mode][n]
<1>1. RegFile(x) \in [Regs -> Word] BY MachineFields DEF RegFile, Regs
<1>2. 0 \in Word BY Numbers DEF Word
<1>3. CoreOf(x) \in Cores BY <1>1, <1>2, MachineFields DEF CoreOf, Cores
<1>4. \A n \in Banked : n \notin Low BY CoreAssumption DEF Banked, SP, LR
<1>5. \A n \in Low : n \in Regs /\ CoreOf(x).r[n] = x.low[n] BY DEF CoreOf, RegFile, Regs
<1>6. \A n \in Banked : n \in Regs /\ CoreOf(x).r[n] = x.bank[x.cpsr.mode][n]
  BY <1>4 DEF CoreOf, RegFile, Regs
<1> QED BY <1>3, <1>5, <1>6 DEF CoreOf

LEMMA WithFields ==
  ASSUME NEW x \in Machine, NEW c \in Cores
  PROVE  /\ With(x, c) \in Machine
         /\ \A n \in Low : With(x, c).low[n] = c.r[n]
         /\ \A n \in Banked : With(x, c).bank[x.cpsr.mode][n] = c.r[n]
         /\ \A k \in Modes \ {x.cpsr.mode} : With(x, c).bank[k] = x.bank[k]
         /\ With(x, c).cpsr.mode = x.cpsr.mode /\ With(x, c).cpsr.i = x.cpsr.i
         /\ With(x, c).cpsr.z = c.z /\ With(x, c).cpsr \in Psr
         /\ With(x, c).spsr = x.spsr /\ With(x, c).pc = x.pc /\ With(x, c).mem = c.mem
<1> DEFINE low == [n \in Low |-> c.r[n]]
           b == [n \in Banked |-> c.r[n]]
           md == x.cpsr.mode
           bank == [x.bank EXCEPT ![md] = b]
           psr == [x.cpsr EXCEPT !.z = c.z]
           y == [low |-> low, bank |-> bank, cpsr |-> psr, spsr |-> x.spsr, pc |-> x.pc,
                 mem |-> c.mem]
<1>1. low \in [Low -> Word] /\ b \in [Banked -> Word] BY CoreFields DEF Regs
<1>2. md \in Modes BY MachineFields
<1>3. bank \in [Modes -> [Banked -> Word]]
  <2> HIDE DEF b, md
  <2>1. x.bank \in [Modes -> [Banked -> Word]] BY MachineFields
  <2> QED BY <1>1, <1>2, <2>1
<1>4. psr \in Psr /\ psr.mode = md /\ psr.i = x.cpsr.i /\ psr.z = c.z
  BY MachineFields, CoreFields DEF Psr
<1>5. With(x, c) = y
  <2> DEFINE x1 == [x EXCEPT !.low = low]
             x2 == [x1 EXCEPT !.bank[md] = b]
             x3 == [x2 EXCEPT !.cpsr.z = c.z]
             x4 == [x3 EXCEPT !.mem = c.mem]
  <2>1. With(x, c) = x4 BY DEF With
  <2> HIDE DEF low, b, md
  <2>2. x1 = [low |-> low, bank |-> x.bank, cpsr |-> x.cpsr, spsr |-> x.spsr, pc |-> x.pc,
              mem |-> x.mem]
    BY DEF Machine
  <2> HIDE DEF x1
  <2>3. x2 = [low |-> low, bank |-> bank, cpsr |-> x.cpsr, spsr |-> x.spsr, pc |-> x.pc,
              mem |-> x.mem]
    BY <2>2
  <2> HIDE DEF x2, bank
  <2>4. x3 = [low |-> low, bank |-> bank, cpsr |-> psr, spsr |-> x.spsr, pc |-> x.pc,
              mem |-> x.mem]
    BY <2>3
  <2> HIDE DEF x3, psr
  <2>5. x4 = y BY <2>4
  <2> QED BY <2>1, <2>5
<1>6. y \in Machine
  <2> HIDE DEF low, bank, psr
  <2> QED BY <1>1, <1>3, <1>4, MachineFields, CoreFields DEF Machine
<1>7. /\ \A n \in Banked : bank[md][n] = c.r[n]
      /\ \A k \in Modes \ {md} : bank[k] = x.bank[k]
  BY <1>2, MachineFields
<1>8. \A n \in Low : low[n] = c.r[n] OBVIOUS
<1> HIDE DEF low, bank, psr
<1> QED BY <1>4, <1>5, <1>6, <1>7, <1>8

LEMMA GoToFields ==
  ASSUME NEW x \in Machine, NEW a \in Word
  PROVE  /\ GoTo(x, a) \in Machine /\ GoTo(x, a).pc = a
         /\ GoTo(x, a).low = x.low /\ GoTo(x, a).bank = x.bank /\ GoTo(x, a).cpsr = x.cpsr
         /\ GoTo(x, a).spsr = x.spsr /\ GoTo(x, a).mem = x.mem
BY DEF GoTo, Machine

(* A machine with the core it has.                                          *)
LEMMA WithItself ==
  ASSUME NEW x \in Machine, NEW c \in Cores,
         c.r = CoreOf(x).r, c.z = x.cpsr.z, c.mem = x.mem
  PROVE  With(x, c) = x
<1>1. PICK y : y = With(x, c) OBVIOUS
<1>2. /\ y \in Machine /\ (\A n \in Low : y.low[n] = c.r[n])
      /\ (\A n \in Banked : y.bank[x.cpsr.mode][n] = c.r[n])
      /\ (\A k \in Modes \ {x.cpsr.mode} : y.bank[k] = x.bank[k])
      /\ y.cpsr.mode = x.cpsr.mode /\ y.cpsr.i = x.cpsr.i /\ y.cpsr.z = c.z /\ y.cpsr \in Psr
      /\ y.spsr = x.spsr /\ y.pc = x.pc /\ y.mem = c.mem
  BY <1>1, WithFields
<1>3. PICK r : r = c.r /\ (\A n \in Low : r[n] = x.low[n])
               /\ (\A n \in Banked : r[n] = x.bank[x.cpsr.mode][n])
  BY CoreOfMachine
<1>4. y.low = x.low
  <2>1. y.low \in [Low -> Word] /\ x.low \in [Low -> Word] BY <1>2, MachineFields
  <2> QED BY <1>2, <1>3, <2>1
<1>5. y.bank[x.cpsr.mode] = x.bank[x.cpsr.mode]
  <2>1. y.bank[x.cpsr.mode] \in [Banked -> Word] /\ x.bank[x.cpsr.mode] \in [Banked -> Word]
    BY <1>2, MachineFields
  <2> QED BY <1>2, <1>3, <2>1
<1>6. y.cpsr = x.cpsr
  <2>1. x.cpsr \in Psr BY MachineFields
  <2> QED BY <1>2, <2>1 DEF Psr
<1>7. y = x BY <1>2, <1>4, <1>5, <1>6, SameMachines
<1> QED BY <1>1, <1>7

LEMMA CoreOfWith ==
  ASSUME NEW x \in Machine, NEW c \in Cores
  PROVE  CoreOf(With(x, c)) = [c EXCEPT !.tp = 0]
<1> DEFINE d == [c EXCEPT !.tp = 0]
           y == With(x, c)
<1>1. 0 \in Word BY Numbers DEF Word
<1>2. d \in Cores /\ d.r = c.r /\ d.z = c.z /\ d.mem = c.mem /\ d.tp = 0
  BY <1>1, CoreFields DEF Cores
<1>3. y \in Machine /\ y.cpsr.z = c.z /\ y.mem = c.mem /\ y.cpsr.mode = x.cpsr.mode
      /\ (\A n \in Low : y.low[n] = c.r[n])
      /\ (\A n \in Banked : y.bank[x.cpsr.mode][n] = c.r[n])
  BY WithFields
<1> HIDE DEF d, y
<1>4. \A n \in Regs : CoreOf(y).r[n] = d.r[n] BY <1>2, <1>3, CoreOfMachine DEF Regs
<1>5. CoreOf(y) = d BY <1>2, <1>3, <1>4, CoreOfMachine, SameCores
<1> QED BY <1>5 DEF d, y

-----------------------------------------------------------------------------
(* The context and the machine of the guest: the registers that the guest   *)
(* is using are in the processor, the others agree.                         *)

Agrees(g, x) ==
  /\ g.cpsr.mode = x.cpsr.mode /\ g.cpsr.i = x.cpsr.i /\ g.spsr = x.spsr
  /\ \A k \in Modes \ {g.cpsr.mode} : g.bank[k] = x.bank[k]

LEMMA SavedFields ==
  ASSUME gc \in Context, NEW c \in Cores
  PROVE  /\ SavedFrom(c) \in Context
         /\ \A n \in Low : SavedFrom(c).low[n] = c.r[n]
         /\ \A n \in Banked : SavedFrom(c).bank[gc.vector][n] = c.r[n]
         /\ \A k \in Modes \ {gc.vector} : SavedFrom(c).bank[k] = gc.bank[k]
         /\ SavedFrom(c).cpsr.mode = gc.cpsr.mode /\ SavedFrom(c).cpsr.i = gc.cpsr.i
         /\ SavedFrom(c).cpsr.z = c.z /\ SavedFrom(c).spsr = gc.spsr
         /\ SavedFrom(c).vector = gc.vector /\ SavedFrom(c).irqPending = gc.irqPending
<1> DEFINE low == [n \in Low |-> c.r[n]]
           b == [n \in Banked |-> c.r[n]]
           md == gc.vector
           bank == [gc.bank EXCEPT ![md] = b]
           psr == [gc.cpsr EXCEPT !.z = c.z]
           y == [low |-> low, bank |-> bank, cpsr |-> psr, spsr |-> gc.spsr, r15 |-> gc.r15,
                 irqPending |-> gc.irqPending, vector |-> md]
           x1 == [gc EXCEPT !.low = low]
           x2 == [x1 EXCEPT !.bank[md] = b]
           x3 == [x2 EXCEPT !.cpsr.z = c.z]
<1>1. SavedFrom(c) = x3 BY DEF SavedFrom
<1>2. md \in Modes /\ gc.bank \in [Modes -> [Banked -> Word]] BY ContextFields
<1>3. psr.mode = gc.cpsr.mode /\ psr.i = gc.cpsr.i /\ psr.z = c.z
  BY ContextFields, CoreFields DEF Psr
<1>4. SavedFrom(c) \in Context BY SavedContext
<1>5. (\A n \in Low : low[n] = c.r[n]) /\ (\A n \in Banked : b[n] = c.r[n]) OBVIOUS
<1>6. gc = [low |-> gc.low, bank |-> gc.bank, cpsr |-> gc.cpsr, spsr |-> gc.spsr, r15 |-> gc.r15,
            irqPending |-> gc.irqPending, vector |-> md]
  BY DEF Context
<1> HIDE DEF low, b, md
<1>7. x1 = [low |-> low, bank |-> gc.bank, cpsr |-> gc.cpsr, spsr |-> gc.spsr, r15 |-> gc.r15,
            irqPending |-> gc.irqPending, vector |-> md]
  BY <1>6
<1> HIDE DEF x1
<1>8. x2 = [low |-> low, bank |-> bank, cpsr |-> gc.cpsr, spsr |-> gc.spsr, r15 |-> gc.r15,
            irqPending |-> gc.irqPending, vector |-> md]
  BY <1>7
<1>9. bank[md] = b /\ \A k \in Modes \ {md} : bank[k] = gc.bank[k] BY <1>2
<1> HIDE DEF x2, bank
<1>10. x3 = y BY <1>8
<1> HIDE DEF x3, psr
<1> QED BY <1>1, <1>3, <1>4, <1>5, <1>9, <1>10 DEF md

LEMMA SnapshotFields ==
  ASSUME NEW g \in Context, NEW mem \in [Data -> Word], NEW a \in Word
  PROVE  /\ Snapshot(g, mem, a) \in Machine /\ Snapshot(g, mem, a).low = g.low
         /\ Snapshot(g, mem, a).bank = g.bank /\ Snapshot(g, mem, a).cpsr = g.cpsr
         /\ Snapshot(g, mem, a).spsr = g.spsr /\ Snapshot(g, mem, a).pc = a
         /\ Snapshot(g, mem, a).mem = mem /\ Agrees(g, Snapshot(g, mem, a))
BY SnapshotMachine DEF Snapshot, Agrees

(* A handler that saves the registers finds the guest's machine, with the   *)
(* core as it is.                                                           *)
LEMMA SavedMachine ==
  ASSUME gc \in Context, gc.vector = gc.cpsr.mode, NEW x \in Machine, Agrees(gc, x),
         NEW c \in Cores, NEW a \in Word
  PROVE  Snapshot(SavedFrom(c), c.mem, a) = GoTo(With(x, c), a)
<1>1. PICK g : g = SavedFrom(c) OBVIOUS
<1>2. PICK mem : mem = c.mem /\ mem \in [Data -> Word] BY CoreFields
<1>3. /\ g \in Context /\ (\A n \in Low : g.low[n] = c.r[n])
      /\ (\A n \in Banked : g.bank[gc.vector][n] = c.r[n])
      /\ (\A k \in Modes \ {gc.vector} : g.bank[k] = gc.bank[k])
      /\ g.cpsr.mode = gc.cpsr.mode /\ g.cpsr.i = gc.cpsr.i
      /\ g.cpsr.z = c.z /\ g.spsr = gc.spsr
  BY <1>1, SavedFields
<1>4. PICK y : y = With(x, c) OBVIOUS
<1>5. /\ y \in Machine /\ (\A n \in Low : y.low[n] = c.r[n])
      /\ (\A n \in Banked : y.bank[x.cpsr.mode][n] = c.r[n])
      /\ (\A k \in Modes \ {x.cpsr.mode} : y.bank[k] = x.bank[k])
      /\ y.cpsr.mode = x.cpsr.mode /\ y.cpsr.i = x.cpsr.i /\ y.cpsr.z = c.z /\ y.cpsr \in Psr
      /\ y.spsr = x.spsr /\ y.pc = x.pc /\ y.mem = c.mem
  BY <1>4, WithFields
<1>6. PICK s : s = Snapshot(g, mem, a) OBVIOUS
<1>7. /\ s \in Machine /\ s.low = g.low /\ s.bank = g.bank /\ s.cpsr = g.cpsr /\ s.spsr = g.spsr
      /\ s.pc = a /\ s.mem = mem
  BY <1>2, <1>3, <1>6, SnapshotFields
<1>8. PICK z : z = GoTo(y, a) OBVIOUS
<1>9. /\ z \in Machine /\ z.low = y.low /\ z.bank = y.bank /\ z.cpsr = y.cpsr /\ z.spsr = y.spsr
      /\ z.pc = a /\ z.mem = y.mem
  BY <1>5, <1>8, GoToFields
<1>10. s.low = z.low
  <2>1. s.low \in [Low -> Word] /\ z.low \in [Low -> Word] BY <1>7, <1>9, MachineFields
  <2> QED BY <2>1, <1>3, <1>5, <1>7, <1>9
<1>11. s.cpsr = z.cpsr
  <2>1. s.cpsr \in Psr /\ z.cpsr \in Psr BY <1>7, <1>9, MachineFields
  <2> QED BY <2>1, <1>3, <1>5, <1>7, <1>9 DEF Agrees, Psr
<1>12. \A k \in Modes : s.bank[k] = z.bank[k]
  <2>1. CASE gc.cpsr.mode = gc.cpsr.mode
    <3>1. ASSUME NEW k \in Modes \ {gc.vector} PROVE s.bank[k] = z.bank[k]
      BY <1>3, <1>5, <1>7, <1>9 DEF Agrees
    <3>2. gc.vector \in Modes BY ContextFields
    <3>3. /\ s.bank[gc.vector] \in [Banked -> Word] /\ z.bank[gc.vector] \in [Banked -> Word]
      BY <3>2, <1>7, <1>9, MachineFields
    <3>4. \A n \in Banked : s.bank[gc.vector][n] = z.bank[gc.vector][n]
      BY <1>3, <1>5, <1>7, <1>9 DEF Agrees
    <3>5. s.bank[gc.vector] = z.bank[gc.vector] BY <3>3, <3>4
    <3> QED BY <3>1, <3>5
  <2> QED BY <2>1
<1>13. s.spsr = z.spsr /\ s.pc = z.pc /\ s.mem = z.mem
  BY <1>2, <1>3, <1>5, <1>7, <1>9 DEF Agrees
<1>14. s = z BY <1>7, <1>9, <1>10, <1>11, <1>12, <1>13, SameMachines
<1> QED BY <1>1, <1>2, <1>4, <1>6, <1>8, <1>14

(* On the way out, the core is the one of the guest's machine.              *)
LEMMA RestoredMachine ==
  ASSUME core \in Cores, NEW g \in Context, NEW a \in Word
  PROVE  Restored(g) = [CoreOf(Snapshot(g, core.mem, a)) EXCEPT !.tp = core.tp]
<1>1. PICK mem : mem = core.mem /\ mem \in [Data -> Word] BY CoreFields
<1>2. PICK x : x = Snapshot(g, mem, a) OBVIOUS
<1>3. x \in Machine /\ x.low = g.low /\ x.bank = g.bank /\ x.cpsr = g.cpsr /\ x.mem = mem
  BY <1>1, <1>2, SnapshotFields
<1> DEFINE r == [n \in Regs |-> IF n \in Low THEN g.low[n] ELSE g.bank[g.cpsr.mode][n]]
<1>4. RegFile(x) = r BY <1>3 DEF RegFile
<1>5. Restored(g) = [core EXCEPT !.r = r, !.z = g.cpsr.z] BY DEF Restored
<1>6. CoreOf(x) = [r |-> r, z |-> g.cpsr.z, tp |-> 0, mem |-> mem] BY <1>3, <1>4 DEF CoreOf
<1> HIDE DEF r
<1>7. Restored(g) = [r |-> r, z |-> g.cpsr.z, tp |-> core.tp, mem |-> mem]
  BY <1>1, <1>5 DEF Cores
<1>8. [CoreOf(x) EXCEPT !.tp = core.tp] = [r |-> r, z |-> g.cpsr.z, tp |-> core.tp, mem |-> mem]
  BY <1>6
<1> QED BY <1>1, <1>2, <1>7, <1>8

LEMMA AsCoreRestored ==
  ASSUME core \in Cores, NEW g \in Context
  PROVE  AsCore(g) = Restored(g)
<1>1. \A n \in Regs : n # PC BY Numbers
<1>2. [n \in Regs |-> getGPRegister(g, n)]
        = [n \in Regs |-> IF n \in Low THEN g.low[n] ELSE g.bank[g.cpsr.mode][n]]
  BY <1>1 DEF getGPRegister
<1> QED BY <1>2 DEF AsCore, Restored

(* Entry and exit with nothing in between change nothing.                   *)
LEMMA SavedRestored ==
  ASSUME gc \in Context, gc.vector = gc.cpsr.mode, core \in Cores
  PROVE  Restored(Saved) = core
<1>1. PICK g : g = SavedFrom(core) OBVIOUS
<1>3. /\ g \in Context /\ (\A n \in Low : g.low[n] = core.r[n])
      /\ (\A n \in Banked : g.bank[gc.vector][n] = core.r[n])
      /\ g.cpsr.mode = gc.cpsr.mode /\ g.cpsr.z = core.z
  BY <1>1, SavedFields
<1> DEFINE r == [n \in Regs |-> IF n \in Low THEN g.low[n] ELSE g.bank[g.cpsr.mode][n]]
<1>4. r \in [Regs -> Word] BY <1>3, ContextFields DEF Regs
<1>5. \A n \in Regs : r[n] = core.r[n] BY <1>3 DEF Regs
<1>6. r = core.r BY <1>4, <1>5, CoreFields
<1>7. Restored(g) = [core EXCEPT !.r = r, !.z = g.cpsr.z] BY DEF Restored
<1> HIDE DEF r
<1>8. Restored(g) = core BY <1>3, <1>6, <1>7 DEF Cores
<1> QED BY <1>1, <1>8 DEF Saved

(* The delivery of an exception is the exception of the processor.          *)
LEMMA DeliveredMachine ==
  ASSUME NEW g \in Context, NEW mode \in Modes \ {"usr"}, NEW return \in Int,
         NEW vector \in Word, NEW mem \in [Data -> Word]
  PROVE  /\ Snapshot(Delivered(g, mode, return, vector), mem, vector)
              = Exception(Snapshot(g, mem, g.r15), mode, vector, Plus(g.r15, return))
         /\ Delivered(g, mode, return, vector).r15 = vector
         /\ Delivered(g, mode, return, vector).irqPending = g.irqPending
<1>0. PICK yes : yes = TRUE OBVIOUS
<1> DEFINE ret == Plus(g.r15, return)
           spsr == [g.spsr EXCEPT ![mode] = g.cpsr]
           bank == [g.bank EXCEPT ![mode] = [g.bank[mode] EXCEPT ![LR] = ret]]
           psr == [g.cpsr EXCEPT !.mode = mode]
           masked == [psr EXCEPT !.i = yes]
           d == Delivered(g, mode, return, vector)
           g1 == [g EXCEPT !.spsr[mode] = g.cpsr]
           g2 == [g1 EXCEPT !.vector = mode]
           h == [g2 EXCEPT !.cpsr.mode = mode]
           h1 == [h EXCEPT !.bank[mode][LR] = ret]
           h2 == [h1 EXCEPT !.r15 = vector]
           h3 == [h2 EXCEPT !.cpsr.i = yes]
<1>1. d = h3 BY <1>0, Zenon DEF Delivered, guestChangeMode, setExceptionVector
<1>2. g = [low |-> g.low, bank |-> g.bank, cpsr |-> g.cpsr, spsr |-> g.spsr, r15 |-> g.r15,
           irqPending |-> g.irqPending, vector |-> g.vector]
  BY DEF Context
<1>3. psr.mode = mode /\ masked.mode = mode /\ masked.i = TRUE BY <1>0, ContextFields DEF Psr
<1> HIDE DEF ret
<1>4. g1 = [low |-> g.low, bank |-> g.bank, cpsr |-> g.cpsr, spsr |-> spsr, r15 |-> g.r15,
            irqPending |-> g.irqPending, vector |-> g.vector]
  BY <1>2
<1> HIDE DEF g1, spsr
<1>5. g2 = [low |-> g.low, bank |-> g.bank, cpsr |-> g.cpsr, spsr |-> spsr, r15 |-> g.r15,
            irqPending |-> g.irqPending, vector |-> mode]
  BY <1>4
<1> HIDE DEF g2
<1>6. h = [low |-> g.low, bank |-> g.bank, cpsr |-> psr, spsr |-> spsr, r15 |-> g.r15,
           irqPending |-> g.irqPending, vector |-> mode]
  BY <1>5
<1> HIDE DEF h, psr
<1>7. h1 = [low |-> g.low, bank |-> bank, cpsr |-> psr, spsr |-> spsr, r15 |-> g.r15,
            irqPending |-> g.irqPending, vector |-> mode]
  BY <1>6
<1> HIDE DEF h1, bank
<1>8. h2 = [low |-> g.low, bank |-> bank, cpsr |-> psr, spsr |-> spsr, r15 |-> vector,
            irqPending |-> g.irqPending, vector |-> mode]
  BY <1>7
<1> HIDE DEF h2
<1>9. h3 = [low |-> g.low, bank |-> bank, cpsr |-> masked, spsr |-> spsr, r15 |-> vector,
            irqPending |-> g.irqPending, vector |-> mode]
  BY <1>8
<1> HIDE DEF h3, masked
<1>10. Snapshot(d, mem, vector) = [low |-> g.low, bank |-> bank, cpsr |-> masked, spsr |-> spsr,
                                   pc |-> vector, mem |-> mem]
  BY <1>1, <1>9 DEF Snapshot
<1> DEFINE x == Snapshot(g, mem, g.r15)
           x1 == [x EXCEPT !.spsr[mode] = x.cpsr]
           x2 == [x1 EXCEPT !.bank[mode][LR] = ret]
           x3 == [x2 EXCEPT !.cpsr.mode = mode]
           x4 == [x3 EXCEPT !.cpsr.i = yes]
           x5 == [x4 EXCEPT !.pc = vector]
<1>11. Exception(x, mode, vector, ret) = x5 BY <1>0, Zenon DEF Exception
<1>12. x = [low |-> g.low, bank |-> g.bank, cpsr |-> g.cpsr, spsr |-> g.spsr, pc |-> g.r15,
            mem |-> mem]
  BY DEF Snapshot
<1> HIDE DEF x
<1>13. x1 = [low |-> g.low, bank |-> g.bank, cpsr |-> g.cpsr, spsr |-> spsr, pc |-> g.r15,
             mem |-> mem]
  BY <1>12 DEF spsr
<1> HIDE DEF x1
<1>14. x2 = [low |-> g.low, bank |-> bank, cpsr |-> g.cpsr, spsr |-> spsr, pc |-> g.r15,
             mem |-> mem]
  BY <1>13 DEF bank
<1> HIDE DEF x2
<1>15. x3 = [low |-> g.low, bank |-> bank, cpsr |-> psr, spsr |-> spsr, pc |-> g.r15,
             mem |-> mem]
  BY <1>14 DEF psr
<1> HIDE DEF x3
<1>16. x4 = [low |-> g.low, bank |-> bank, cpsr |-> masked, spsr |-> spsr, pc |-> g.r15,
             mem |-> mem]
  BY <1>15 DEF masked
<1> HIDE DEF x4
<1>17. x5 = [low |-> g.low, bank |-> bank, cpsr |-> masked, spsr |-> spsr, pc |-> vector,
             mem |-> mem]
  BY <1>16
<1> HIDE DEF x5
<1>18. d = [low |-> g.low, bank |-> bank, cpsr |-> masked, spsr |-> spsr, r15 |-> vector,
            irqPending |-> g.irqPending, vector |-> mode]
  BY <1>1, <1>9
<1> HIDE DEF d
<1>19. /\ d.r15 = vector /\ d.irqPending = g.irqPending /\ d.vector = mode
       /\ d.cpsr.mode = mode /\ d.cpsr.i = TRUE
  BY <1>3, <1>18
<1>20. Snapshot(d, mem, vector) = Exception(x, mode, vector, ret)
  BY <1>10, <1>11, <1>17
<1> QED BY <1>19, <1>20 DEF d, x, ret

-----------------------------------------------------------------------------
(* What an instruction does to the machine, kind by kind.                   *)

Updated(old, new, mask) ==
  [mode |-> IF "control" \in mask THEN new.mode ELSE old.mode,
   i    |-> IF "control" \in mask THEN new.i ELSE old.i,
   z    |-> IF "flags" \in mask THEN new.z ELSE old.z]
Return(x, a) == [x EXCEPT !.pc = a, !.cpsr = x.spsr[x.cpsr.mode]]

LEMMA SameStatus ==
  /\ \A p : Abstract!PsrWord(p) = PsrWord(p)
  /\ \A w : Abstract!PsrOf(w) = PsrOf(w)
  /\ \A old, new, mask : Abstract!Updated(old, new, mask) = Updated(old, new, mask)
  /\ \A x, a : Abstract!Return(x, a) = Return(x, a)
<1>1. Abstract!ModeNumber = ModeNumber /\ Abstract!Modes = Modes
  BY DEF Abstract!ModeNumber, ModeNumber, Abstract!Modes, Modes
<1>2. \A b : Abstract!Bit(b) = Bit(b) BY DEF Abstract!Bit, Bit
<1>3. \A p : Abstract!PsrWord(p) = PsrWord(p) BY <1>1, <1>2 DEF Abstract!PsrWord, PsrWord
<1>4. \A w : Abstract!PsrOf(w) = PsrOf(w) BY <1>1 DEF Abstract!PsrOf, PsrOf
<1>5. \A old, new, mask : Abstract!Updated(old, new, mask) = Updated(old, new, mask)
  BY DEF Abstract!Updated, Updated
<1>6. \A x, a : Abstract!Return(x, a) = Return(x, a) BY DEF Abstract!Return, Return
<1> QED BY <1>3, <1>4, <1>5, <1>6

After(x, i) == Abstract!After(x, i)

LEMMA AfterSkipped ==
  ASSUME NEW x, NEW i, ~ Passed(i, CoreOf(x).z)
  PROVE  After(x, i) = GoTo(x, Plus(x.pc, 1))
<1>p. ~ Abstract!Passed(i, Abstract!Core(x).z) BY SameAccess, SameMachine
<1>1. Abstract!After(x, i) = Abstract!GoTo(x, Abstract!Plus(x.pc, 1))
  BY <1>p, Zenon DEF Abstract!After
<1> QED BY <1>1, SameMachine, SameAccess, Zenon DEF After

LEMMA AfterControl ==
  ASSUME NEW x, NEW i, Passed(i, CoreOf(x).z)
  PROVE  LET c == CoreOf(x)
             pc == Plus(x.pc, 2)
             on == Plus(x.pc, 1)
             md == x.cpsr.mode
         IN /\ i.op = "b" /\ i.s => After(x, i) = GoTo(With(x, Write(c, LR, on)), i.imm)
            /\ i.op = "b" /\ ~ i.s => After(x, i) = GoTo(x, i.imm)
            /\ i.op = "bx" => After(x, i) = GoTo(x, Reg(c, i.m, pc))
            /\ i.op = "movs" => After(x, i) = Return(x, Reg(c, i.m, pc))
            /\ i.op = "svc" => After(x, i) = Exception(x, "svc", SvcVector, on)
            /\ i.op = "cps" => After(x, i) = GoTo([x EXCEPT !.cpsr.i = i.s], on)
            /\ i.op = "mrs" => After(x, i) =
                 GoTo(With(x, Write(c, i.d, PsrWord(IF i.s THEN x.spsr[md] ELSE x.cpsr))), on)
            /\ i.op = "msr" /\ i.s => After(x, i) =
                 GoTo([x EXCEPT !.spsr[md] = Updated(@, PsrOf(Reg(c, i.n, pc)), i.mask)], on)
            /\ i.op = "msr" /\ ~ i.s => After(x, i) =
                 GoTo([x EXCEPT !.cpsr = Updated(@, PsrOf(Reg(c, i.n, pc)), i.mask)], on)
<1> DEFINE c == CoreOf(x)
           pc == Plus(x.pc, 2)
           on == Plus(x.pc, 1)
           md == x.cpsr.mode
<1>p. Abstract!Passed(i, Abstract!Core(x).z) BY SameAccess, SameMachine
<1>1. i.op = "b" => After(x, i) = GoTo(IF i.s THEN With(x, Write(c, LR, on)) ELSE x, i.imm)
  BY <1>p, SameMachine, SameAccess, Zenon DEF After, Abstract!After
<1>2. i.op = "bx" => After(x, i) = GoTo(x, Reg(c, i.m, pc))
  BY <1>p, SameMachine, SameAccess, Zenon DEF After, Abstract!After
<1>3. i.op = "movs" => After(x, i) = Return(x, Reg(c, i.m, pc))
  BY <1>p, SameMachine, SameAccess, SameStatus, Zenon DEF After, Abstract!After
<1>4. i.op = "svc" => After(x, i) = Exception(x, "svc", SvcVector, on)
  BY <1>p, SameMachine, SameAccess, Zenon DEF After, Abstract!After
<1>5. i.op = "cps" => After(x, i) = GoTo([x EXCEPT !.cpsr.i = i.s], on)
  BY <1>p, SameMachine, SameAccess, Zenon DEF After, Abstract!After
<1>6. i.op = "mrs" => After(x, i) =
        GoTo(With(x, Write(c, i.d, PsrWord(IF i.s THEN x.spsr[md] ELSE x.cpsr))), on)
  BY <1>p, SameMachine, SameAccess, SameStatus, Zenon DEF After, Abstract!After
<1>7. i.op = "msr" /\ i.s => After(x, i) =
        GoTo([x EXCEPT !.spsr[md] = Updated(@, PsrOf(Reg(c, i.n, pc)), i.mask)], on)
  BY <1>p, SameMachine, SameAccess, SameStatus, Zenon DEF After, Abstract!After
<1>8. i.op = "msr" /\ ~ i.s => After(x, i) =
        GoTo([x EXCEPT !.cpsr = Updated(@, PsrOf(Reg(c, i.n, pc)), i.mask)], on)
  BY <1>p, SameMachine, SameAccess, SameStatus, Zenon DEF After, Abstract!After
<1> QED BY <1>1, <1>2, <1>3, <1>4, <1>5, <1>6, <1>7, <1>8, Zenon

LEMMA AfterLoad ==
  ASSUME NEW x, NEW i, Passed(i, CoreOf(x).z)
  PROVE  LET c == CoreOf(x)
             pc == Plus(x.pc, 2)
         IN /\ i.op \in {"ldr", "ldrr"} /\ i.d = PC =>
                 After(x, i) = GoTo(x, c.mem[Address(i, c, pc)])
            /\ i.op = "ldm" /\ PC \in i.list =>
                 After(x, i) = GoTo(With(x, Execute(i, c, pc)), c.mem[Place(i, c.r[i.n], PC)])
            /\ i.op = "ldmret" =>
                 After(x, i) = Return(With(x, [c EXCEPT !.r = Loaded(i, c)]),
                                      c.mem[Place(i, c.r[i.n], PC)])
<1> DEFINE c == CoreOf(x)
           pc == Plus(x.pc, 2)
<1>p. Abstract!Passed(i, Abstract!Core(x).z) BY SameAccess, SameMachine
<1>1. i.op \in {"ldr", "ldrr"} /\ i.d = PC => After(x, i) = GoTo(x, c.mem[Address(i, c, pc)])
  <2>1. CASE i.op = "ldr" /\ i.d = PC
    BY <1>p, <2>1, SameMachine, SameAccess, Zenon DEF After, Abstract!After
  <2>2. CASE i.op = "ldrr" /\ i.d = PC
    BY <1>p, <2>2, SameMachine, SameAccess, Zenon DEF After, Abstract!After
  <2> QED BY <2>1, <2>2
<1>2. i.op = "ldm" /\ PC \in i.list =>
        After(x, i) = GoTo(With(x, Execute(i, c, pc)), c.mem[Place(i, c.r[i.n], PC)])
  BY <1>p, SameMachine, SameAccess, SameExecute, SamePlace, Zenon DEF After, Abstract!After
<1>3. i.op = "ldmret" =>
        After(x, i) = Return(With(x, [c EXCEPT !.r = Loaded(i, c)]),
                             c.mem[Place(i, c.r[i.n], PC)])
  BY <1>p, SameMachine, SameAccess, SameLoaded, SamePlace, SameStatus, Zenon
  DEF After, Abstract!After
<1> QED BY <1>1, <1>2, <1>3, Zenon

LEMMA AfterCopied ==
  ASSUME NEW x, NEW i, Passed(i, CoreOf(x).z), ~ Replaced(i)
  PROVE  After(x, i) = GoTo(With(x, Execute(i, CoreOf(x), Plus(x.pc, 2))), Plus(x.pc, 1))
<1>p. Abstract!Passed(i, Abstract!Core(x).z) BY SameAccess, SameMachine
<1>1. /\ i.op \notin {"b", "bx", "movs", "ldmret", "svc", "mrs", "msr", "cps"}
      /\ ~ (i.op \in {"ldr", "ldrr"} /\ i.d = PC) /\ ~ (i.op = "ldm" /\ PC \in i.list)
  BY DEF Replaced
<1>2. ~ (i.op \in {"ldr", "ldrr"} /\ i.d = Abstract!PC)
      /\ ~ (i.op = "ldm" /\ Abstract!PC \in i.list)
  BY <1>1, SameAccess
<1>3. /\ i.op # "b" /\ i.op # "bx" /\ i.op # "movs" /\ i.op # "ldmret" /\ i.op # "svc"
      /\ i.op # "mrs" /\ i.op # "msr" /\ i.op # "cps"
  BY <1>1
<1>4. Abstract!After(x, i) = Abstract!GoTo(Abstract!With(x, Abstract!Execute(i, Abstract!Core(x),
        Abstract!Plus(x.pc, 2))), Abstract!Plus(x.pc, 1))
  BY <1>p, <1>2, <1>3, Zenon DEF Abstract!After
<1> QED BY <1>4, SameMachine, SameAccess, SameExecute, Zenon DEF After

-----------------------------------------------------------------------------
(* The handlers do to the machine in the context what the processor would.  *)

LEMMA WritePCMachine ==
  ASSUME NEW g \in Context, NEW a \in Word, NEW mem \in [Data -> Word], NEW b \in Word
  PROVE  /\ Snapshot(WritePC(g, a), mem, WritePC(g, a).r15) = GoTo(Snapshot(g, mem, b), a)
         /\ WritePC(g, a).irqPending = g.irqPending
<1>1. PICK h : h = WritePC(g, a) OBVIOUS
<1>2. h.low = g.low /\ h.bank = g.bank /\ h.cpsr = g.cpsr /\ h.spsr = g.spsr /\ h.r15 = a
      /\ h.irqPending = g.irqPending
  BY <1>1 DEF WritePC, Context
<1>3. Snapshot(h, mem, a) = GoTo(Snapshot(g, mem, b), a) BY <1>2 DEF Snapshot, GoTo
<1> QED BY <1>1, <1>2, <1>3

LEMMA SetRegisterMachine ==
  ASSUME NEW g \in Context, NEW n \in Regs \cup {PC}, NEW v \in Word,
         NEW mem \in [Data -> Word], NEW a \in Word
  PROVE  /\ Snapshot(setGPRegister(g, n, v), mem, a)
              = With(Snapshot(g, mem, a), Write(CoreOf(Snapshot(g, mem, a)), n, v))
         /\ setGPRegister(g, n, v).irqPending = g.irqPending
<1>1. PICK x : x = Snapshot(g, mem, a) OBVIOUS
<1>2. /\ x \in Machine /\ x.low = g.low /\ x.bank = g.bank /\ x.cpsr = g.cpsr /\ x.spsr = g.spsr
      /\ x.pc = a /\ x.mem = mem
  BY <1>1, SnapshotFields
<1>3. PICK c : c = CoreOf(x) /\ c \in Cores /\ c.z = x.cpsr.z /\ c.mem = mem
               /\ (\A k \in Low : k \in Regs /\ c.r[k] = x.low[k])
               /\ (\A k \in Banked : k \in Regs /\ c.r[k] = x.bank[x.cpsr.mode][k])
  BY <1>2, CoreOfMachine
<1>4. CASE n = PC
  <2>1. setGPRegister(g, n, v) = g /\ Write(c, n, v) = c
    BY <1>4, Zenon DEF setGPRegister, Write
  <2>2. With(x, c) = x BY <1>2, <1>3, WithItself
  <2> QED BY <1>1, <1>3, <2>1, <2>2
<1>5. CASE n # PC
  <2>1. n \in Regs BY <1>5
  <2>2. PICK d : d = Write(c, n, v) /\ d \in Cores /\ d.z = c.z /\ d.mem = c.mem
                 /\ d.r[n] = v /\ (\A k \in Regs \ {n} : d.r[k] = c.r[k])
    <3>1. Write(c, n, v) \in Cores BY <1>3, WriteCore
    <3>2. Write(c, n, v) = [c EXCEPT !.r[n] = v] BY <1>5 DEF Write
    <3> QED BY <1>3, <2>1, <3>1, <3>2 DEF Cores
  <2>3. PICK h : h = setGPRegister(g, n, v) /\ h \in Context /\ h.cpsr = g.cpsr
    <3>1. setGPRegister(g, n, v) \in Context /\ setGPRegister(g, n, v).cpsr = g.cpsr
      BY SetRegisterContext, Zenon
    <3> QED BY <3>1, Zenon
  <2>4. h.irqPending = g.irqPending /\ h.spsr = g.spsr
        /\ (\A k \in Low : h.low[k] = IF k = n THEN v ELSE g.low[k])
        /\ (\A k \in Banked : h.bank[g.cpsr.mode][k] = IF k = n THEN v ELSE g.bank[g.cpsr.mode][k])
        /\ (\A k \in Modes \ {g.cpsr.mode} : h.bank[k] = g.bank[k])
    <3>m. g.cpsr.mode \in Modes /\ g.bank \in [Modes -> [Banked -> Word]]
          /\ g.bank[g.cpsr.mode] \in [Banked -> Word] /\ g.low \in [Low -> Word]
      BY ContextFields
    <3>d. \A k \in Banked : k \notin Low BY CoreAssumption DEF Banked, SP, LR
    <3>1. CASE n \in Low
      <4>1. h = [g EXCEPT !.low[n] = v] BY <1>5, <2>3, <3>1 DEF setGPRegister
      <4>2. h.low = [g.low EXCEPT ![n] = v] /\ h.bank = g.bank /\ h.spsr = g.spsr
            /\ h.irqPending = g.irqPending
        BY <4>1 DEF Context
      <4> QED BY <3>m, <3>d, <3>1, <4>2
    <3>2. CASE n \notin Low
      <4>1. h = [g EXCEPT !.bank[g.cpsr.mode][n] = v] BY <1>5, <2>3, <3>2 DEF setGPRegister
      <4> DEFINE md == g.cpsr.mode
                 bank == [g.bank EXCEPT ![md] = [g.bank[md] EXCEPT ![n] = v]]
      <4>2. h.low = g.low /\ h.bank = bank /\ h.spsr = g.spsr /\ h.irqPending = g.irqPending
        BY <4>1 DEF Context
      <4>3. bank[md] = [g.bank[md] EXCEPT ![n] = v] /\ \A k \in Modes \ {md} : bank[k] = g.bank[k]
        BY <3>m
      <4> HIDE DEF bank
      <4> QED BY <3>m, <3>2, <4>2, <4>3
    <3> QED BY <3>1, <3>2
  <2>5. PICK s : s = Snapshot(h, mem, a) /\ s \in Machine /\ s.low = h.low /\ s.bank = h.bank
                 /\ s.cpsr = h.cpsr /\ s.spsr = h.spsr /\ s.pc = a /\ s.mem = mem
    BY <2>3, SnapshotFields
  <2>6. PICK y : /\ y = With(x, d) /\ y \in Machine /\ (\A k \in Low : y.low[k] = d.r[k])
                 /\ (\A k \in Banked : y.bank[x.cpsr.mode][k] = d.r[k])
                 /\ (\A k \in Modes \ {x.cpsr.mode} : y.bank[k] = x.bank[k])
                 /\ y.cpsr.mode = x.cpsr.mode /\ y.cpsr.i = x.cpsr.i /\ y.cpsr.z = d.z
                 /\ y.cpsr \in Psr /\ y.spsr = x.spsr /\ y.pc = x.pc /\ y.mem = d.mem
    BY <1>2, <2>2, WithFields
  <2>7. s.low = y.low
    <3>1. s.low \in [Low -> Word] /\ y.low \in [Low -> Word] BY <2>5, <2>6, MachineFields
    <3>2. \A k \in Low : s.low[k] = y.low[k] BY <1>2, <1>3, <2>2, <2>4, <2>5, <2>6
    <3> QED BY <3>1, <3>2
  <2>8. s.cpsr = y.cpsr
    <3>1. s.cpsr \in Psr BY <2>5, MachineFields
    <3> QED BY <3>1, <1>2, <1>3, <2>2, <2>3, <2>5, <2>6 DEF Psr
  <2>9. \A k \in Modes : s.bank[k] = y.bank[k]
    <3>1. ASSUME NEW k \in Modes \ {g.cpsr.mode} PROVE s.bank[k] = y.bank[k]
      BY <1>2, <2>4, <2>5, <2>6
    <3>2. g.cpsr.mode \in Modes BY ContextFields
    <3>3. s.bank[g.cpsr.mode] \in [Banked -> Word] /\ y.bank[g.cpsr.mode] \in [Banked -> Word]
      BY <3>2, <2>5, <2>6, MachineFields
    <3>4. \A k \in Banked : s.bank[g.cpsr.mode][k] = y.bank[g.cpsr.mode][k]
      BY <1>2, <1>3, <2>2, <2>4, <2>5, <2>6
    <3>5. s.bank[g.cpsr.mode] = y.bank[g.cpsr.mode] BY <3>3, <3>4
    <3> QED BY <3>1, <3>5
  <2>10. s.spsr = y.spsr /\ s.pc = y.pc /\ s.mem = y.mem
    BY <1>2, <1>3, <2>2, <2>4, <2>5, <2>6
  <2>11. s = y BY <2>5, <2>6, <2>7, <2>8, <2>9, <2>10, SameMachines
  <2> QED BY <1>1, <1>3, <2>2, <2>3, <2>4, <2>5, <2>6, <2>11
<1> QED BY <1>4, <1>5

LEMMA SetRegistersMachine ==
  ASSUME NEW g \in Context, NEW c \in Cores, c.z = g.cpsr.z, NEW a \in Word
  PROVE  /\ Snapshot(SetRegisters(g, c), c.mem, a) = With(Snapshot(g, c.mem, a), c)
         /\ SetRegisters(g, c).irqPending = g.irqPending
         /\ SetRegisters(g, c).spsr = g.spsr
<1>0. PICK mem : mem = c.mem /\ mem \in [Data -> Word] BY CoreFields
<1>1. PICK x : x = Snapshot(g, mem, a) OBVIOUS
<1>2. /\ x \in Machine /\ x.low = g.low /\ x.bank = g.bank /\ x.cpsr = g.cpsr /\ x.spsr = g.spsr
      /\ x.pc = a /\ x.mem = mem
  BY <1>0, <1>1, SnapshotFields
<1>3. PICK h : h = SetRegisters(g, c) /\ h \in Context /\ h.cpsr = g.cpsr
  BY SetRegistersContext
<1>4. h.irqPending = g.irqPending /\ h.spsr = g.spsr
      /\ (\A k \in Low : h.low[k] = c.r[k])
      /\ (\A k \in Banked : h.bank[g.cpsr.mode][k] = c.r[k])
      /\ (\A k \in Modes \ {g.cpsr.mode} : h.bank[k] = g.bank[k])
  <2> DEFINE low == [n \in Low |-> c.r[n]]
             b == [n \in Banked |-> c.r[n]]
             md == g.cpsr.mode
             bank == [g.bank EXCEPT ![md] = b]
             g1 == [g EXCEPT !.low = low]
             g2 == [g1 EXCEPT !.bank[md] = b]
  <2>1. h = g2 BY <1>3 DEF SetRegisters
  <2>2. (\A k \in Low : low[k] = c.r[k]) /\ (\A k \in Banked : b[k] = c.r[k]) OBVIOUS
  <2>3. g = [low |-> g.low, bank |-> g.bank, cpsr |-> g.cpsr, spsr |-> g.spsr, r15 |-> g.r15,
             irqPending |-> g.irqPending, vector |-> g.vector]
    BY DEF Context
  <2>m. md \in Modes /\ g.bank \in [Modes -> [Banked -> Word]] BY ContextFields
  <2> HIDE DEF low, b, md
  <2>4. g1 = [low |-> low, bank |-> g.bank, cpsr |-> g.cpsr, spsr |-> g.spsr, r15 |-> g.r15,
              irqPending |-> g.irqPending, vector |-> g.vector]
    BY <2>3
  <2> HIDE DEF g1
  <2>5. g2 = [low |-> low, bank |-> bank, cpsr |-> g.cpsr, spsr |-> g.spsr, r15 |-> g.r15,
              irqPending |-> g.irqPending, vector |-> g.vector]
    BY <2>4
  <2>6. bank[md] = b /\ \A k \in Modes \ {md} : bank[k] = g.bank[k] BY <2>m
  <2> HIDE DEF g2, bank
  <2> QED BY <2>1, <2>2, <2>5, <2>6 DEF md
<1>5. PICK s : s = Snapshot(h, mem, a) /\ s \in Machine /\ s.low = h.low /\ s.bank = h.bank
               /\ s.cpsr = h.cpsr /\ s.spsr = h.spsr /\ s.pc = a /\ s.mem = mem
  BY <1>0, <1>3, SnapshotFields
<1>6. PICK y : /\ y = With(x, c) /\ y \in Machine /\ (\A k \in Low : y.low[k] = c.r[k])
               /\ (\A k \in Banked : y.bank[x.cpsr.mode][k] = c.r[k])
               /\ (\A k \in Modes \ {x.cpsr.mode} : y.bank[k] = x.bank[k])
               /\ y.cpsr.mode = x.cpsr.mode /\ y.cpsr.i = x.cpsr.i /\ y.cpsr.z = c.z
               /\ y.cpsr \in Psr /\ y.spsr = x.spsr /\ y.pc = x.pc /\ y.mem = c.mem
  BY <1>2, WithFields
<1>7. s.low = y.low
  <2>1. s.low \in [Low -> Word] /\ y.low \in [Low -> Word] BY <1>5, <1>6, MachineFields
  <2>2. \A k \in Low : s.low[k] = y.low[k] BY <1>4, <1>5, <1>6
  <2> QED BY <2>1, <2>2
<1>8. s.cpsr = y.cpsr
  <2>1. s.cpsr \in Psr BY <1>5, MachineFields
  <2> QED BY <2>1, <1>2, <1>3, <1>5, <1>6 DEF Psr
<1>9. \A k \in Modes : s.bank[k] = y.bank[k]
  <2>1. ASSUME NEW k \in Modes \ {g.cpsr.mode} PROVE s.bank[k] = y.bank[k]
    BY <1>2, <1>4, <1>5, <1>6
  <2>2. g.cpsr.mode \in Modes BY ContextFields
  <2>3. s.bank[g.cpsr.mode] \in [Banked -> Word] /\ y.bank[g.cpsr.mode] \in [Banked -> Word]
    BY <2>2, <1>5, <1>6, MachineFields
  <2>4. \A k \in Banked : s.bank[g.cpsr.mode][k] = y.bank[g.cpsr.mode][k]
    BY <1>2, <1>4, <1>5, <1>6
  <2>5. s.bank[g.cpsr.mode] = y.bank[g.cpsr.mode] BY <2>3, <2>4
  <2> QED BY <2>1, <2>5
<1>10. s.spsr = y.spsr /\ s.pc = y.pc /\ s.mem = y.mem
  BY <1>0, <1>2, <1>4, <1>5, <1>6
<1>11. s = y BY <1>5, <1>6, <1>7, <1>8, <1>9, <1>10, SameMachines
<1> QED BY <1>0, <1>1, <1>3, <1>4, <1>5, <1>6, <1>11

(* A write of the whole status register; an interrupt that waits is noticed *)
(* when the mask goes.                                                      *)
LEMMA StatusMachine ==
  ASSUME line \in BOOLEAN, NEW g \in Context, NEW new \in Psr, NEW mask, "flags" \in mask,
         NEW mem \in [Data -> Word], NEW a \in Word
  PROVE  /\ Snapshot(CPSRWriteByInstr(g, new, mask), mem, a)
              = [Snapshot(g, mem, a) EXCEPT !.cpsr = new]
         /\ CPSRWriteByInstr(g, new, mask).irqPending => g.irqPending \/ line
<1> DEFINE pending == g.irqPending \/ (line /\ g.cpsr.i /\ ~ new.i)
           latched == [g EXCEPT !.irqPending = pending]
           moved == IF new.mode # g.cpsr.mode THEN guestChangeMode(latched, new.mode) ELSE latched
           psr == [mode |-> new.mode, i |-> new.i, z |-> new.z /\ "flags" \in mask]
           h == CPSRWriteByInstr(g, new, mask)
<1>1. h = [moved EXCEPT !.cpsr = psr] BY DEF CPSRWriteByInstr
<1>2. psr = new
  <2>1. (new.z /\ "flags" \in mask) = new.z BY DEF Psr
  <2> QED BY <2>1 DEF Psr
<1>3. pending => g.irqPending \/ line OBVIOUS
<1> HIDE DEF pending, psr
<1>4. g = [low |-> g.low, bank |-> g.bank, cpsr |-> g.cpsr, spsr |-> g.spsr, r15 |-> g.r15,
           irqPending |-> g.irqPending, vector |-> g.vector]
  BY DEF Context
<1>5. latched = [low |-> g.low, bank |-> g.bank, cpsr |-> g.cpsr, spsr |-> g.spsr, r15 |-> g.r15,
                 irqPending |-> pending, vector |-> g.vector]
  BY <1>4
<1> HIDE DEF latched
<1>6. \E v, p : moved = [low |-> g.low, bank |-> g.bank, cpsr |-> p, spsr |-> g.spsr,
                         r15 |-> g.r15, irqPending |-> pending, vector |-> v]
  <2> DEFINE turned == [latched EXCEPT !.vector = new.mode]
             moved1 == [turned EXCEPT !.cpsr.mode = new.mode]
  <2>1. guestChangeMode(latched, new.mode) = moved1
    BY DEF guestChangeMode, setExceptionVector
  <2>2. turned = [low |-> g.low, bank |-> g.bank, cpsr |-> g.cpsr, spsr |-> g.spsr,
                  r15 |-> g.r15, irqPending |-> pending, vector |-> new.mode]
    BY <1>5
  <2> HIDE DEF turned
  <2>3. moved1 = [low |-> g.low, bank |-> g.bank, cpsr |-> [g.cpsr EXCEPT !.mode = new.mode],
                  spsr |-> g.spsr, r15 |-> g.r15, irqPending |-> pending, vector |-> new.mode]
    BY <2>2
  <2> HIDE DEF moved1
  <2>4. CASE new.mode # g.cpsr.mode
    <3>1. moved = moved1 BY <2>1, <2>4
    <3> HIDE DEF moved
    <3> QED BY <2>3, <3>1
  <2>5. CASE ~ (new.mode # g.cpsr.mode)
    <3>1. moved = latched BY <2>5
    <3> HIDE DEF moved
    <3> QED BY <1>5, <3>1
  <2> QED BY <2>4, <2>5
<1>7. PICK v, p : moved = [low |-> g.low, bank |-> g.bank, cpsr |-> p, spsr |-> g.spsr,
                           r15 |-> g.r15, irqPending |-> pending, vector |-> v]
  BY <1>6
<1> HIDE DEF moved
<1>8. h = [low |-> g.low, bank |-> g.bank, cpsr |-> new, spsr |-> g.spsr,
           r15 |-> g.r15, irqPending |-> pending, vector |-> v]
  BY <1>1, <1>2, <1>7
<1> HIDE DEF h
<1>9. Snapshot(h, mem, a) = [Snapshot(g, mem, a) EXCEPT !.cpsr = new] BY <1>8 DEF Snapshot
<1>10. h.irqPending = pending BY <1>8
<1> QED BY <1>3, <1>9, <1>10 DEF h

LEMMA SavedStatusMachine ==
  ASSUME NEW g \in Context, NEW new \in Psr, NEW mask, "flags" \in mask,
         NEW mem \in [Data -> Word], NEW a \in Word
  PROVE  /\ Snapshot(SPSRWriteByInstr(g, new, mask), mem, a)
              = [Snapshot(g, mem, a) EXCEPT !.spsr[g.cpsr.mode] = new]
         /\ SPSRWriteByInstr(g, new, mask).irqPending = g.irqPending
<1> DEFINE psr == [new EXCEPT !.z = new.z /\ "flags" \in mask]
           h == SPSRWriteByInstr(g, new, mask)
<1>1. h = [g EXCEPT !.spsr[g.cpsr.mode] = psr] BY DEF SPSRWriteByInstr
<1>2. psr = new
  <2>1. (new.z /\ "flags" \in mask) = new.z BY DEF Psr
  <2> QED BY <2>1 DEF Psr
<1> HIDE DEF psr, h
<1>3. h = [g EXCEPT !.spsr[g.cpsr.mode] = new] BY <1>1, <1>2
<1>4. h.low = g.low /\ h.bank = g.bank /\ h.cpsr = g.cpsr /\ h.irqPending = g.irqPending
      /\ h.spsr = [g.spsr EXCEPT ![g.cpsr.mode] = new]
  BY <1>3 DEF Context
<1>5. Snapshot(h, mem, a) = [Snapshot(g, mem, a) EXCEPT !.spsr[g.cpsr.mode] = new]
  BY <1>4 DEF Snapshot
<1> QED BY <1>4, <1>5 DEF h

-----------------------------------------------------------------------------
(* Two cores that agree but for the thread register.                        *)
Twin(c, d) == c.r = d.r /\ c.z = d.z /\ c.mem = d.mem

LEMMA TwinViews ==
  ASSUME NEW c, NEW d, Twin(c, d), NEW i, NEW pc
  PROVE  /\ Address(i, c, pc) = Address(i, d, pc) /\ Touched(i, c, pc) = Touched(i, d, pc)
         /\ Faults(i, c, pc) <=> Faults(i, d, pc)
         /\ \A where : Reaches(i, c, pc, where) <=> Reaches(i, d, pc, where)
         /\ Acks(i, c, pc) <=> Acks(i, d, pc)
         /\ Loaded(i, c) = Loaded(i, d) /\ Stored(i, c, pc) = Stored(i, d, pc)
         /\ \A n : Reg(c, n, pc) = Reg(d, n, pc)
<1>1. \A n : Reg(c, n, pc) = Reg(d, n, pc) BY DEF Twin, Reg
<1>2. Address(i, c, pc) = Address(i, d, pc) BY <1>1 DEF Address
<1>3. Touched(i, c, pc) = Touched(i, d, pc) BY <1>1, <1>2 DEF Touched
<1>4. Faults(i, c, pc) <=> Faults(i, d, pc) BY <1>3 DEF Faults, Twin
<1>5. \A where : Reaches(i, c, pc, where) <=> Reaches(i, d, pc, where)
  BY <1>3, <1>4 DEF Reaches, Twin
<1>6. Acks(i, c, pc) <=> Acks(i, d, pc) BY <1>2 DEF Acks, Twin
<1>7. Loaded(i, c) = Loaded(i, d) BY DEF Loaded, Twin
<1>8. Stored(i, c, pc) = Stored(i, d, pc) BY <1>1, <1>2 DEF Stored, Twin
<1> QED BY <1>1, <1>2, <1>3, <1>4, <1>5, <1>6, <1>7, <1>8

LEMMA TwinWrites ==
  ASSUME NEW c \in Cores, NEW d \in Cores, Twin(c, d)
  PROVE  /\ \A n, v : Twin(Write(c, n, v), Write(d, n, v))
         /\ \A r : Twin([c EXCEPT !.r = r], [d EXCEPT !.r = r])
         /\ \A z : Twin([c EXCEPT !.z = z], [d EXCEPT !.z = z])
         /\ \A mem : Twin([c EXCEPT !.mem = mem], [d EXCEPT !.mem = mem])
         /\ \A x : With(x, c) = With(x, d)
BY DEF Twin, Write, With, Cores

(* What a handler finds in the context is the core of the guest's machine.  *)
LEMMA HandlerView ==
  ASSUME core \in Cores, NEW g \in Context, NEW x, x = Snapshot(g, core.mem, g.r15)
  PROVE  /\ x \in Machine /\ x.low = g.low /\ x.bank = g.bank /\ x.cpsr = g.cpsr
         /\ x.spsr = g.spsr /\ x.pc = g.r15 /\ x.mem = core.mem
         /\ AsCore(g) \in Cores /\ CoreOf(x) \in Cores /\ Twin(AsCore(g), CoreOf(x))
         /\ CoreOf(x).z = g.cpsr.z /\ CoreOf(x).mem = core.mem
         /\ \A n \in Regs \cup {PC} : getGPRegister(g, n) = Reg(CoreOf(x), n, Plus(x.pc, 2))
<1>1. core.mem \in [Data -> Word] /\ g.r15 \in Word BY CoreFields, ContextFields
<1>2. /\ x \in Machine /\ x.low = g.low /\ x.bank = g.bank /\ x.cpsr = g.cpsr
      /\ x.spsr = g.spsr /\ x.pc = g.r15 /\ x.mem = core.mem
  BY <1>1, SnapshotFields
<1>3. AsCore(g) = [CoreOf(x) EXCEPT !.tp = core.tp]
  BY <1>1, AsCoreRestored, RestoredMachine
<1>4. CoreOf(x) \in Cores /\ CoreOf(x).z = g.cpsr.z /\ CoreOf(x).mem = core.mem
  BY <1>2, CoreOfMachine
<1>5. AsCore(g) \in Cores BY AsCoreCore
<1>6. Twin(AsCore(g), CoreOf(x)) BY <1>3, <1>4 DEF Cores, Twin
<1>7. ASSUME NEW n \in Regs \cup {PC}
      PROVE  getGPRegister(g, n) = Reg(CoreOf(x), n, Plus(x.pc, 2))
  <2>1. CASE n = PC BY <2>1, <1>2, Zenon DEF getGPRegister, Reg
  <2>2. CASE n \in Low
    <3>1. n # PC BY <2>2, Numbers DEF Regs
    <3>2. CoreOf(x).r[n] = g.low[n] BY <2>2, <1>2, CoreOfMachine
    <3> QED BY <2>2, <3>1, <3>2 DEF getGPRegister, Reg
  <2>3. CASE n \in Banked
    <3>1. n # PC /\ n \notin Low BY <2>3, Numbers, CoreAssumption DEF Regs, Banked, SP, LR
    <3>2. CoreOf(x).r[n] = g.bank[g.cpsr.mode][n] BY <2>3, <1>2, CoreOfMachine
    <3> QED BY <3>1, <3>2 DEF getGPRegister, Reg
  <2> QED BY <2>1, <2>2, <2>3 DEF Regs
<1> QED BY <1>2, <1>4, <1>5, <1>6, <1>7

(* A handler that ends with a change of the PC.                             *)
Ended(g, h, e) ==
  Snapshot(h, core.mem, h.r15) = e /\ (h.irqPending => g.irqPending \/ line)

LEMMA EndedAt ==
  ASSUME core \in Cores, NEW g \in Context, NEW h \in Context, NEW y, NEW b \in Word,
         Snapshot(h, core.mem, b) = y, h.irqPending => g.irqPending \/ line,
         NEW a \in Word
  PROVE  Ended(g, WritePC(h, a), GoTo(y, a))
<1>1. core.mem \in [Data -> Word] BY CoreFields
<1>2. /\ Snapshot(WritePC(h, a), core.mem, WritePC(h, a).r15) = GoTo(y, a)
      /\ WritePC(h, a).irqPending = h.irqPending
  BY <1>1, WritePCMachine
<1> QED BY <1>2 DEF Ended

(* A replaced instruction that its handler interprets: the machine in the   *)
(* context is the one after the instruction.                                *)
LEMMA InterpretedMachine ==
  ASSUME core \in Cores, line \in BOOLEAN, NEW g \in Context, g.cpsr.mode # "usr",
         NEW i, GuestInstr(i), Replaced(i), i.op # "svc", i.op = "msr" => i.mask = Fields,
         Reaches(i, AsCore(g), Plus(g.r15, 2), Data),
         NEW x, x = Snapshot(g, core.mem, g.r15)
  PROVE  Ended(g, Interpreted(g, i), After(x, i))
<1> DEFINE on == Plus(g.r15, 1)
           pc == Plus(g.r15, 2)
           c == AsCore(g)
           d == CoreOf(x)
           md == g.cpsr.mode
           ret == g.spsr[md]
<1>0. g.r15 \in Word /\ on \in Word /\ pc \in Word
  <2>1. g.r15 \in Word /\ g.r15 \in Int BY ContextFields, WordArithmetic
  <2> QED BY <2>1, Numbers
<1>i. /\ i \in Instr /\ i.d \in Regs \cup {PC} /\ i.n \in Regs \cup {PC} /\ i.m \in Regs \cup {PC}
      /\ i.s \in BOOLEAN /\ i.imm \in Word /\ i.list \in SUBSET (Regs \cup {PC})
  BY InstrFields DEF GuestInstr
<1>c. c \in Cores /\ c.mem = core.mem /\ c.z = g.cpsr.z BY AsCoreCore
<1>r. \A n \in Regs \cup {PC} : getGPRegister(g, n) \in Word BY RegisterOf
<1>m. (\A a \in Data : core.mem[a] \in Word) /\ core.mem \in [Data -> Word] BY CoreFields
<1>p. ret \in Psr /\ md \in Modes /\ md \in Modes \ {"usr"} BY ContextFields
<1>x. /\ x \in Machine /\ x.low = g.low /\ x.bank = g.bank /\ x.cpsr = g.cpsr
      /\ x.spsr = g.spsr /\ x.pc = g.r15 /\ x.mem = core.mem
      /\ d \in Cores /\ Twin(c, d) /\ d.z = g.cpsr.z /\ d.mem = core.mem
      /\ \A n \in Regs \cup {PC} : getGPRegister(g, n) = Reg(d, n, pc)
  BY HandlerView
<1>y. Snapshot(g, core.mem, g.r15) = x OBVIOUS
<1>g. g.irqPending => g.irqPending \/ line OBVIOUS
<1>v. \A a \in Word : Ended(g, WritePC(g, a), GoTo(x, a)) BY <1>0, <1>y, <1>g, EndedAt
<1>f. \A h \in Context : \A y : Snapshot(h, core.mem, g.r15) = y /\ h.r15 = g.r15
        /\ (h.irqPending => g.irqPending \/ line) => Ended(g, Following(h), GoTo(y, on))
  <2> SUFFICES ASSUME NEW h \in Context, NEW y, Snapshot(h, core.mem, g.r15) = y, h.r15 = g.r15,
                      h.irqPending => g.irqPending \/ line
               PROVE  Ended(g, Following(h), GoTo(y, on))
    OBVIOUS
  <2>1. Following(h) = WritePC(h, on) BY DEF Following
  <2>2. Ended(g, WritePC(h, on), GoTo(y, on)) BY <1>0, EndedAt
  <2> QED BY <2>1, <2>2
<1>k. Passed(i, CoreOf(x).z) <=> Passed(i, g.cpsr.z) BY <1>x
<1> HIDE DEF on, pc, c, d, ret
<1>1. CASE ~ Passed(i, g.cpsr.z)
  <2>1. Interpreted(g, i) = Following(g) BY <1>1, Zenon DEF Interpreted
  <2>2. After(x, i) = GoTo(x, on) BY <1>1, <1>k, <1>x, AfterSkipped DEF on
  <2> QED BY <2>1, <2>2, <1>f, <1>y, <1>g
<1>2. CASE Passed(i, g.cpsr.z)
  <2>c. Passed(i, CoreOf(x).z) BY <1>2, <1>k
  <2>b. /\ i.op = "b" /\ i.s => After(x, i) = GoTo(With(x, Write(d, LR, Plus(x.pc, 1))), i.imm)
        /\ i.op = "b" /\ ~ i.s => After(x, i) = GoTo(x, i.imm)
        /\ i.op = "bx" => After(x, i) = GoTo(x, Reg(d, i.m, Plus(x.pc, 2)))
        /\ i.op = "movs" => After(x, i) = Return(x, Reg(d, i.m, Plus(x.pc, 2)))
        /\ i.op = "cps" => After(x, i) = GoTo([x EXCEPT !.cpsr.i = i.s], Plus(x.pc, 1))
        /\ i.op = "mrs" => After(x, i) =
             GoTo(With(x, Write(d, i.d, PsrWord(IF i.s THEN x.spsr[x.cpsr.mode] ELSE x.cpsr))),
                  Plus(x.pc, 1))
        /\ i.op = "msr" /\ i.s => After(x, i) =
             GoTo([x EXCEPT !.spsr[x.cpsr.mode] =
                     Updated(@, PsrOf(Reg(d, i.n, Plus(x.pc, 2))), i.mask)], Plus(x.pc, 1))
        /\ i.op = "msr" /\ ~ i.s => After(x, i) =
             GoTo([x EXCEPT !.cpsr = Updated(@, PsrOf(Reg(d, i.n, Plus(x.pc, 2))), i.mask)],
                  Plus(x.pc, 1))
    BY <2>c, AfterControl, Zenon DEF d
  <2>e. /\ Plus(x.pc, 1) = on /\ Plus(x.pc, 2) = pc /\ x.cpsr = g.cpsr
        /\ x.spsr[x.cpsr.mode] = ret
    BY <1>x DEF on, pc, ret
  <2>a. /\ i.op = "b" /\ i.s => After(x, i) = GoTo(With(x, Write(d, LR, on)), i.imm)
        /\ i.op = "b" /\ ~ i.s => After(x, i) = GoTo(x, i.imm)
        /\ i.op = "bx" => After(x, i) = GoTo(x, Reg(d, i.m, pc))
        /\ i.op = "movs" => After(x, i) = Return(x, Reg(d, i.m, pc))
        /\ i.op = "cps" => After(x, i) = GoTo([x EXCEPT !.cpsr.i = i.s], on)
        /\ i.op = "mrs" => After(x, i) =
             GoTo(With(x, Write(d, i.d, PsrWord(IF i.s THEN ret ELSE g.cpsr))), on)
        /\ i.op = "msr" /\ i.s => After(x, i) =
             GoTo([x EXCEPT !.spsr[md] = Updated(@, PsrOf(Reg(d, i.n, pc)), i.mask)], on)
        /\ i.op = "msr" /\ ~ i.s => After(x, i) =
             GoTo([x EXCEPT !.cpsr = Updated(@, PsrOf(Reg(d, i.n, pc)), i.mask)], on)
    BY <2>b, <2>e
  <2>1. CASE i.op = "b" /\ ~ i.s
    <3>1. Interpreted(g, i) = WritePC(g, i.imm)
      BY <1>2, <2>1, Zenon DEF Interpreted, armBInstruction
    <3> QED BY <3>1, <2>1, <2>a, <1>i, <1>v
  <2>2. CASE i.op = "b" /\ i.s
    <3> DEFINE h == setGPRegister(g, LR, on)
    <3>1. Interpreted(g, i) = WritePC(h, i.imm)
      BY <1>2, <2>2, Zenon DEF Interpreted, armBlInstruction, on
    <3>2. h \in Context BY <1>0, LowRegisters, SetRegisterContext
    <3>3. Snapshot(h, core.mem, g.r15) = With(x, Write(d, LR, on)) /\ h.irqPending = g.irqPending
      BY <1>0, <1>m, <1>y, LowRegisters, SetRegisterMachine DEF d
    <3> HIDE DEF h
    <3>4. Ended(g, WritePC(h, i.imm), GoTo(With(x, Write(d, LR, on)), i.imm))
      BY <3>2, <3>3, <1>0, <1>i, EndedAt
    <3> QED BY <3>1, <3>4, <2>2, <2>a
  <2>3. CASE i.op = "bx"
    <3>1. Interpreted(g, i) = WritePC(g, getGPRegister(g, i.m))
      BY <1>2, <2>3, Zenon DEF Interpreted, armBxInstruction
    <3>2. getGPRegister(g, i.m) \in Word /\ getGPRegister(g, i.m) = Reg(d, i.m, pc)
      BY <1>i, <1>r, <1>x
    <3> QED BY <3>1, <3>2, <2>3, <2>a, <1>v
  <2>4. CASE i.op = "movs"
    <3> DEFINE h == CPSRWriteByInstr(g, ret, Fields)
               v == getGPRegister(g, i.m)
    <3>1. Interpreted(g, i) = WritePC(h, v)
      BY <1>2, <2>4, Zenon DEF Interpreted, armAluRegInstruction, ExceptionReturn, ret
    <3>2. h \in Context BY <1>p, StatusWriteContext
    <3>3. v \in Word /\ v = Reg(d, i.m, pc) BY <1>i, <1>r, <1>x
    <3>4. /\ Snapshot(h, core.mem, g.r15) = [x EXCEPT !.cpsr = ret]
          /\ h.irqPending => g.irqPending \/ line
      BY <1>0, <1>m, <1>p, <1>y, StatusMachine DEF Fields
    <3> HIDE DEF h, v
    <3>5. Ended(g, WritePC(h, v), GoTo([x EXCEPT !.cpsr = ret], v))
      BY <3>2, <3>3, <3>4, <1>0, EndedAt
    <3>6. GoTo([x EXCEPT !.cpsr = ret], v) = Return(x, v)
      BY <1>x DEF GoTo, Return, Machine, ret
    <3> QED BY <3>1, <3>3, <3>5, <3>6, <2>4, <2>a
  <2>5. CASE i.op \in {"ldr", "ldrr"}
    <3> DEFINE a == Address(i, c, getGPRegister(g, PC))
    <3>1. Interpreted(g, i) = WritePC(g, core.mem[a])
      BY <1>2, <2>5, Zenon DEF Interpreted, armLdrInstruction, c
    <3>2. getGPRegister(g, PC) = pc BY Zenon DEF getGPRegister, pc
    <3>3. Touched(i, c, pc) = {Address(i, c, pc)} BY <2>5 DEF Touched
    <3>r. Reaches(i, c, pc, Data) BY DEF c, pc
    <3>4. a \in Data BY <1>2, <1>c, <3>2, <3>3, <3>r DEF Reaches
    <3>5. a = Address(i, d, pc) BY <3>2, <1>x, TwinViews
    <3>6. i.d = PC BY <2>5 DEF Replaced
    <3>7. After(x, i) = GoTo(x, d.mem[Address(i, d, pc)])
      BY <3>6, <2>5, <2>c, <1>x, AfterLoad DEF d, pc
    <3> HIDE DEF a
    <3>8. core.mem[a] \in Word BY <3>4, <1>m
    <3> QED BY <3>1, <3>5, <3>7, <3>8, <1>v, <1>x
  <2>6. CASE i.op = "ldm"
    <3> DEFINE r == Loaded(i, c)
               v == c.mem[Place(i, c.r[i.n], PC)]
               k == [c EXCEPT !.r = r]
               h == SetRegisters(g, k)
               y == With(x, [d EXCEPT !.r = r])
    <3>1. Interpreted(g, i) = WritePC(SetRegisters(g, Execute(i, c, 0)), v)
      BY <1>2, <2>6, Zenon DEF Interpreted, armLdmInstruction, c
    <3>2. Passed(i, c.z) /\ Passed(i, d.z) BY <1>2, <1>c, <1>x
    <3>3. Execute(i, c, 0) = k BY <2>6, <3>2, Zenon DEF Execute
    <3>4. PC \in i.list BY <2>6 DEF Replaced
    <3>5. Reaches(i, c, pc, Data) BY DEF c, pc
    <3>6. r \in [Regs -> Word] /\ v \in Word BY <2>6, <3>2, <3>4, <3>5, <1>c, BlockLoadReaches
    <3>7. r = Loaded(i, d) /\ v = d.mem[Place(i, d.r[i.n], PC)]
      BY <1>x, TwinViews DEF Twin
    <3>8. Execute(i, d, pc) = [d EXCEPT !.r = r] BY <2>6, <3>2, <3>7, Zenon DEF Execute
    <3>9. After(x, i) = GoTo(With(x, Execute(i, d, pc)), d.mem[Place(i, d.r[i.n], PC)])
      BY <2>6, <2>c, <3>4, <1>x, AfterLoad DEF d, pc
    <3> HIDE DEF r, v
    <3>10. k \in Cores /\ k.mem = core.mem /\ k.z = g.cpsr.z BY <1>c, <3>6, CoreFields DEF Cores
    <3>11. With(x, k) = y
      <4>1. PICK e : e = [d EXCEPT !.r = r] OBVIOUS
      <4>2. e \in Cores BY <1>x, <3>6, <4>1, CoreFields
      <4>3. Twin(k, e) BY <1>c, <1>x, <4>1 DEF Twin, Cores
      <4>4. With(x, k) = With(x, e) BY <3>10, <4>2, <4>3, TwinWrites
      <4> QED BY <4>1, <4>4
    <3> HIDE DEF k, y
    <3>12. h \in Context BY <3>10, SetRegistersContext
    <3>13. Snapshot(h, core.mem, g.r15) = y /\ h.irqPending = g.irqPending
      BY <1>0, <1>y, <3>10, <3>11, SetRegistersMachine
    <3> HIDE DEF h
    <3>14. Ended(g, WritePC(h, v), GoTo(y, v)) BY <3>6, <3>12, <3>13, <1>0, EndedAt
    <3> QED BY <3>1, <3>3, <3>7, <3>8, <3>9, <3>14 DEF h, y
  <2>7. CASE i.op = "ldmret"
    <3> DEFINE r == Loaded(i, c)
               v == c.mem[Place(i, c.r[i.n], PC)]
               k == [c EXCEPT !.r = r]
               h == SetRegisters(g, k)
               y == With(x, [d EXCEPT !.r = r])
               u == CPSRWriteByInstr(h, ret, Fields)
    <3>1. Interpreted(g, i) = WritePC(CPSRWriteByInstr(h, h.spsr[h.cpsr.mode], Fields), v)
      BY <1>2, <2>7, Zenon DEF Interpreted, armLdmExcRetInstruction, ExceptionReturn, c
    <3>2. Passed(i, c.z) BY <1>2, <1>c
    <3>4. PC \in i.list BY <2>7 DEF GuestInstr
    <3>5. Reaches(i, c, pc, Data) BY DEF c, pc
    <3>6. r \in [Regs -> Word] /\ v \in Word BY <2>7, <3>2, <3>4, <3>5, <1>c, BlockLoadReaches
    <3>7. r = Loaded(i, d) /\ v = d.mem[Place(i, d.r[i.n], PC)]
      BY <1>x, TwinViews DEF Twin
    <3>9. After(x, i) = Return(With(x, [d EXCEPT !.r = Loaded(i, d)]),
                               d.mem[Place(i, d.r[i.n], PC)])
      BY <2>7, <2>c, AfterLoad DEF d
    <3>a. After(x, i) = Return(y, v) BY <3>7, <3>9
    <3> HIDE DEF r, v
    <3>10. k \in Cores /\ k.mem = core.mem /\ k.z = g.cpsr.z BY <1>c, <3>6, CoreFields DEF Cores
    <3>11. With(x, k) = y
      <4>1. PICK e : e = [d EXCEPT !.r = r] OBVIOUS
      <4>2. e \in Cores BY <1>x, <3>6, <4>1, CoreFields
      <4>3. Twin(k, e) BY <1>c, <1>x, <4>1 DEF Twin, Cores
      <4>4. With(x, k) = With(x, e) BY <3>10, <4>2, <4>3, TwinWrites
      <4> QED BY <4>1, <4>4
    <3>12. [d EXCEPT !.r = r] \in Cores BY <1>x, <3>6, CoreFields
    <3>13. y \in Machine /\ y.spsr = g.spsr /\ y.cpsr.mode = md
      <4>1. \A e \in Cores : With(x, e) \in Machine /\ With(x, e).spsr = x.spsr
                             /\ With(x, e).cpsr.mode = x.cpsr.mode
        BY <1>x, WithFields
      <4> QED BY <3>12, <4>1, <1>x
    <3> HIDE DEF k, y
    <3>14. h \in Context /\ h.cpsr = g.cpsr BY <3>10, SetRegistersContext
    <3>15. Snapshot(h, core.mem, g.r15) = y /\ h.irqPending = g.irqPending /\ h.spsr = g.spsr
      BY <1>0, <1>y, <3>10, <3>11, SetRegistersMachine
    <3> HIDE DEF h
    <3>16. h.spsr[h.cpsr.mode] = ret BY <3>14, <3>15 DEF ret
    <3>17. u \in Context BY <1>p, <3>14, StatusWriteContext
    <3>18. /\ Snapshot(u, core.mem, g.r15) = [y EXCEPT !.cpsr = ret]
           /\ u.irqPending => g.irqPending \/ line
      BY <1>0, <1>m, <1>p, <3>14, <3>15, StatusMachine DEF Fields
    <3> HIDE DEF u
    <3>19. Ended(g, WritePC(u, v), GoTo([y EXCEPT !.cpsr = ret], v))
      BY <3>6, <3>17, <3>18, <1>0, EndedAt
    <3>20. GoTo([y EXCEPT !.cpsr = ret], v) = Return(y, v)
      BY <3>13 DEF GoTo, Return, Machine, ret
    <3> QED BY <3>1, <3>16, <3>a, <3>19, <3>20 DEF u
  <2>8. CASE i.op = "mrs"
    <3> DEFINE psr == IF i.s THEN ret ELSE g.cpsr
               h == setGPRegister(g, i.d, PsrWord(psr))
    <3>1. Interpreted(g, i) = Following(h)
      BY <1>2, <2>8, Zenon DEF Interpreted, armMrsInstruction, ret
    <3>2. psr \in Psr BY <1>p, ContextFields
    <3>3. After(x, i) = GoTo(With(x, Write(d, i.d, PsrWord(psr))), on) BY <2>8, <2>a
    <3> HIDE DEF psr
    <3>4. PsrWord(psr) \in Word BY <3>2, PsrAsWord
    <3>5. h \in Context /\ h.r15 = g.r15 BY <3>4, <1>i, SetRegisterContext
    <3>6. /\ Snapshot(h, core.mem, g.r15) = With(x, Write(d, i.d, PsrWord(psr)))
          /\ h.irqPending = g.irqPending
      <4>1. \A v \in Word :
              /\ Snapshot(setGPRegister(g, i.d, v), core.mem, g.r15) = With(x, Write(d, i.d, v))
              /\ setGPRegister(g, i.d, v).irqPending = g.irqPending
        <5> SUFFICES ASSUME NEW v \in Word
                     PROVE  /\ Snapshot(setGPRegister(g, i.d, v), core.mem, g.r15)
                                 = With(x, Write(d, i.d, v))
                            /\ setGPRegister(g, i.d, v).irqPending = g.irqPending
          OBVIOUS
        <5>1. /\ Snapshot(setGPRegister(g, i.d, v), core.mem, g.r15)
                   = With(Snapshot(g, core.mem, g.r15),
                          Write(CoreOf(Snapshot(g, core.mem, g.r15)), i.d, v))
              /\ setGPRegister(g, i.d, v).irqPending = g.irqPending
          <6>1. i.d \in Regs \cup {PC} /\ core.mem \in [Data -> Word] /\ g.r15 \in Word
            BY <1>0, <1>m, <1>i
          <6> QED BY <6>1, SetRegisterMachine, Zenon
        <5> QED BY <5>1, <1>y DEF d
      <4> QED BY <3>4, <4>1
    <3> HIDE DEF h
    <3> QED BY <3>1, <3>3, <3>5, <3>6, <1>f
  <2>9. CASE i.op = "msr"
    <3> DEFINE new == PsrOf(getGPRegister(g, i.n))
    <3>1. Interpreted(g, i) = Following(IF i.s THEN SPSRWriteByInstr(g, new, i.mask)
                                               ELSE CPSRWriteByInstr(g, new, i.mask))
      BY <1>2, <2>9, Zenon DEF Interpreted, armMsrRegInstruction
    <3>2. new \in Psr /\ new = PsrOf(Reg(d, i.n, pc)) BY <1>i, <1>r, <1>x, PsrOfWord
    <3>3. i.mask = Fields BY <2>9
    <3>4. \A old : Updated(old, new, i.mask) = new BY <3>2, <3>3 DEF Updated, Fields, Psr
    <3> HIDE DEF new
    <3>5. CASE i.s
      <4> DEFINE h == SPSRWriteByInstr(g, new, i.mask)
      <4>1. h \in Context /\ h.r15 = g.r15 BY <1>p, <3>2, SavedStatusWriteContext
      <4>2. /\ Snapshot(h, core.mem, g.r15) = [x EXCEPT !.spsr[md] = new]
            /\ h.irqPending = g.irqPending
        BY <1>0, <1>m, <1>y, <3>2, <3>3, SavedStatusMachine DEF Fields
      <4>3. After(x, i) = GoTo([x EXCEPT !.spsr[md] = new], on)
        BY <2>9, <2>a, <3>2, <3>4, <3>5
      <4>4. Interpreted(g, i) = Following(h) BY <3>1, <3>5
      <4> HIDE DEF h
      <4> QED BY <4>1, <4>2, <4>3, <4>4, <1>f
    <3>6. CASE ~ i.s
      <4> DEFINE h == CPSRWriteByInstr(g, new, i.mask)
      <4>1. h \in Context /\ h.r15 = g.r15 BY <3>2, StatusWriteContext
      <4>2. /\ Snapshot(h, core.mem, g.r15) = [x EXCEPT !.cpsr = new]
            /\ h.irqPending => g.irqPending \/ line
        BY <1>0, <1>m, <1>y, <3>2, <3>3, StatusMachine DEF Fields
      <4>3. After(x, i) = GoTo([x EXCEPT !.cpsr = new], on)
        BY <2>9, <2>a, <3>2, <3>4, <3>6
      <4>4. Interpreted(g, i) = Following(h) BY <3>1, <3>6
      <4> HIDE DEF h
      <4> QED BY <4>1, <4>2, <4>3, <4>4, <1>f
    <3> QED BY <3>5, <3>6
  <2>10. CASE i.op = "cps"
    <3> DEFINE psr == [g.cpsr EXCEPT !.i = i.s]
               h == CPSRWriteByInstr(g, psr, Fields)
    <3>1. Interpreted(g, i) = Following(h)
      BY <1>2, <2>10, Zenon DEF Interpreted, armCpsInstruction
    <3>2. psr \in Psr BY <1>i, ContextFields DEF Psr
    <3>3. [x EXCEPT !.cpsr.i = i.s] = [x EXCEPT !.cpsr = psr] BY <1>x
    <3> HIDE DEF psr
    <3>4. h \in Context /\ h.r15 = g.r15 BY <3>2, StatusWriteContext
    <3>5. /\ Snapshot(h, core.mem, g.r15) = [x EXCEPT !.cpsr = psr]
          /\ h.irqPending => g.irqPending \/ line
      BY <1>0, <1>m, <1>y, <3>2, StatusMachine DEF Fields
    <3>6. After(x, i) = GoTo([x EXCEPT !.cpsr = psr], on) BY <2>10, <2>a, <3>3
    <3> HIDE DEF h
    <3> QED BY <3>1, <3>4, <3>5, <3>6, <1>f
  <2> QED
    BY <2>1, <2>2, <2>3, <2>4, <2>5, <2>6, <2>7, <2>8, <2>9, <2>10, <1>i DEF Replaced
<1> QED BY <1>1, <1>2

-----------------------------------------------------------------------------
(* The words of an instruction, form by form.                               *)

Spills(i) ==
  /\ ~ Replaced(i)
  /\ \/ i.op = "str" /\ PC \in {i.d, i.n}
     \/ i.op = "ldrr" /\ i.n = PC
     \/ i.op = "stm" /\ PC \in i.list

(* The forms that the translator gets right: the PC is not written by an    *)
(* instruction that computes, not compared, not an index or the base of a   *)
(* store of several registers; a register is restored only where it was     *)
(* spilled; and no word uses the stack pointer while a register is spilled  *)
(* under it.                                                                *)
Formed(i) ==
  /\ i.op \in {"alu", "ldrr"} /\ i.n = PC => i.d # PC
  /\ i.op \in {"mov", "mvn"} /\ i.m = PC => i.d # PC
  /\ i.op = "teq" => i.n # PC
  /\ i.op = "ldrr" /\ ~ Replaced(i) =>
       IF i.n = PC THEN i.d = i.m /\ (mmu => i.d # SP) ELSE i.m # PC
  /\ Spills(i) /\ mmu /\ i.op = "str" => SP \notin {i.d, i.n}
  /\ i.op = "stm" => i.n # PC
  /\ i.op = "msr" => i.mask = Fields

(* An instruction that does not see where it is.                            *)
Moveable(i) ==
  /\ i.op \in {"alu", "teq", "ldr", "ldrr", "str", "stm", "ldm"} => i.n # PC
  /\ i.op \in {"mov", "mvn", "ldrr"} => i.m # PC
  /\ i.op = "str" => i.d # PC
  /\ i.op = "stm" => PC \notin i.list

Spill(cond, q) == IF mmu THEN Push(cond, q) ELSE [Plain EXCEPT !.op = "mcr", !.cond = cond, !.d = q]
Restore(cond, q) == IF mmu THEN Pop(cond, q) ELSE [Plain EXCEPT !.op = "mrc", !.cond = cond, !.d = q]

(* A word of the kind, under the condition and for the register.            *)
Kind(w, op, cond, d) == w.op = op /\ w.cond = cond /\ w.d = d

(* The words that write the PC to a register, and those around them.        *)
LEMMA PCWords ==
  ASSUME NEW cond, NEW d, NEW a
  PROVE  /\ Len(armWritePCToRegister(cond, d, a)) = 2
         /\ Kind(armWritePCToRegister(cond, d, a)[1], "movw", cond, d)
         /\ Kind(armWritePCToRegister(cond, d, a)[2], "movt", cond, d)
         /\ armWritePCToRegister(cond, d, a)
              = << armWritePCToRegister(cond, d, a)[1], armWritePCToRegister(cond, d, a)[2] >>
BY DEF armWritePCToRegister, Kind, Plain

LEMMA StackWords ==
  ASSUME NEW cond, NEW d
  PROVE  /\ Push(cond, d).op = "stm" /\ Push(cond, d).cond = cond /\ Push(cond, d).n = SP
         /\ Push(cond, d).list = {d}
         /\ Pop(cond, d).op = "ldm" /\ Pop(cond, d).cond = cond /\ Pop(cond, d).n = SP
         /\ Pop(cond, d).list = {d}
         /\ ~ mmu => Kind(Spill(cond, d), "mcr", cond, d) /\ Kind(Restore(cond, d), "mrc", cond, d)
         /\ mmu => Spill(cond, d) = Push(cond, d) /\ Restore(cond, d) = Pop(cond, d)
         /\ Spill(cond, d).cond = cond /\ Restore(cond, d).cond = cond
         /\ Spill(cond, d).op \in {"stm", "mcr"} /\ Restore(cond, d).op \in {"ldm", "mrc"}
         /\ armSpillRegister(cond, d) = << Spill(cond, d) >>
         /\ armRestoreRegister(cond, d) = << Restore(cond, d) >>
BY DEF Push, Pop, Plain, Spill, Restore, Kind, armSpillRegister, armRestoreRegister

Are2(s, u, v) == Len(s) = 2 /\ s[1] = u /\ s[2] = v
Are3(s, u, v, w) == Len(s) = 3 /\ s[1] = u /\ s[2] = v /\ s[3] = w
Are5(s, u, v, w, y, z) ==
  Len(s) = 5 /\ s[1] = u /\ s[2] = v /\ s[3] = w /\ s[4] = y /\ s[5] = z
Are6(s, u, v, w, y, z, e) ==
  Len(s) = 6 /\ s[1] = u /\ s[2] = v /\ s[3] = w /\ s[4] = y /\ s[5] = z /\ s[6] = e

LEMMA JoinedWords ==
  ASSUME NEW u, NEW v, NEW w, NEW y, NEW z, NEW e
  PROVE  /\ Are3(<< u, v >> \o << w >>, u, v, w)
         /\ Are2(<< u, v >> \o <<>>, u, v)
         /\ Are5(<< u >> \o << v, w >> \o << y >> \o << z >>, u, v, w, y, z)
         /\ Are6(<< u, v >> \o << w, y >> \o << z, e >>, u, v, w, y, z, e)
<1>1. Are3(<< u, v >> \o << w >>, u, v, w) BY DEF Are3
<1>2. Are2(<< u, v >> \o <<>>, u, v) BY DEF Are2
<1>3. Are5(<< u >> \o << v, w >> \o << y >> \o << z >>, u, v, w, y, z) BY DEF Are5
<1>4. Are6(<< u, v >> \o << w, y >> \o << z, e >>, u, v, w, y, z, e) BY DEF Are6
<1> QED BY <1>1, <1>2, <1>3, <1>4

LEMMA TranslatedPlain ==
  ASSUME NEW i, Copyable(i), Formed(i), ~ Spills(i), ~ ReadsPC(i), NEW a
  PROVE  Translated(i, a) = << i >> /\ Moveable(i)
<1>0. /\ i.op \in Ops /\ (i.op = "ldm" => i.n # PC) /\ ~ Replaced(i)
      /\ i.d \in Regs \cup {PC}
  BY DEF Copyable, Instr
<1>1. /\ ~ (i.op \in {"alu", "teq"} /\ i.n = PC)
      /\ ~ (i.op \in {"mov", "mvn"} /\ i.m = PC)
      /\ ~ (i.op = "ldr" /\ i.n = PC)
  BY <1>0 DEF Formed, ReadsPC, Replaced
<1>2. /\ ~ (i.op = "ldrr" /\ i.n = PC)
      /\ ~ (i.op = "str" /\ PC \in {i.d, i.n})
      /\ ~ (i.op = "stm" /\ PC \in i.list)
  BY <1>0 DEF Spills
<1>3. Translated(i, a) = << i >> BY <1>1, <1>2, Zenon DEF Translated
<1>4. Moveable(i)
  <2>1. i.op = "ldrr" => i.m # PC BY <1>0, <1>2 DEF Formed
  <2>2. i.op = "stm" => i.n # PC BY DEF Formed
  <2> QED BY <1>0, <1>1, <1>2, <2>1, <2>2 DEF Moveable
<1> QED BY <1>3, <1>4

LEMMA TranslatedReads ==
  ASSUME NEW i, Copyable(i), ReadsPC(i), NEW a
  PROVE  LET p == armWritePCToRegister(i.cond, i.d, a)
             last == IF i.op \in {"alu", "ldr"} THEN [i EXCEPT !.n = i.d] ELSE [i EXCEPT !.m = i.d]
         IN /\ i.op = "mov" /\ ~ i.s => Are2(Translated(i, a), p[1], p[2])
            /\ ~ (i.op = "mov" /\ ~ i.s) => Are3(Translated(i, a), p[1], p[2], last)
<1> DEFINE p == armWritePCToRegister(i.cond, i.d, a)
           last == IF i.op \in {"alu", "ldr"} THEN [i EXCEPT !.n = i.d] ELSE [i EXCEPT !.m = i.d]
<1>p. PICK u, v : u = p[1] /\ v = p[2] /\ p = << u, v >> BY PCWords
<1>1. CASE i.op = "mov" /\ ~ i.s
  <2>1. Translated(i, a) = p \o << >>
    BY <1>1 DEF Translated, armALUreg, armMovPCInstruction, ReadsPC
  <2>2. Translated(i, a) = << u, v >> \o << >> BY <1>p, <2>1
  <2>3. Are2(Translated(i, a), u, v) BY <2>2, JoinedWords, Zenon
  <2> QED BY <1>1, <1>p, <2>3, Zenon
<1>2. CASE ~ (i.op = "mov" /\ ~ i.s)
  <2>1. Translated(i, a) = p \o << last >>
    BY <1>2 DEF Translated, armALUimm, armALUreg, armMovPCInstruction, armShiftPCImm, armLdrPCImm,
              ReadsPC
  <2>2. Translated(i, a) = << u, v >> \o << last >> BY <1>p, <2>1
  <2> HIDE DEF last
  <2>3. Are3(Translated(i, a), u, v, last) BY <2>2, JoinedWords, Zenon
  <2> QED BY <1>2, <1>p, <2>3, Zenon DEF last
<1> QED BY <1>1, <1>2

LEMMA TranslatedIndexed ==
  ASSUME NEW i, Copyable(i), i.op = "ldrr", i.n = PC, i.d = i.m, NEW a
  PROVE  LET q == getOtherRegisterOf2(i.d, i.m)
             p == armWritePCToRegister(i.cond, q, a)
         IN Are5(Translated(i, a), Spill(i.cond, q), p[1], p[2], [i EXCEPT !.n = q],
                 Restore(i.cond, q))
<1> DEFINE q == getOtherRegisterOf2(i.d, i.m)
           p == armWritePCToRegister(i.cond, q, a)
           last == [i EXCEPT !.n = q]
<1>1. Translated(i, a) = armLdrPCReg(i, a) BY Zenon DEF Translated
<1>2. armLdrPCReg(i, a) =
        armSpillRegister(i.cond, q) \o p \o << last >> \o armRestoreRegister(i.cond, q)
  BY Zenon DEF armLdrPCReg
<1>3. PICK u, v : u = p[1] /\ v = p[2] /\ p = << u, v >> BY PCWords
<1>4. PICK s, r : /\ s = Spill(i.cond, q) /\ armSpillRegister(i.cond, q) = << s >>
                  /\ r = Restore(i.cond, q) /\ armRestoreRegister(i.cond, q) = << r >>
  BY StackWords
<1>5. Translated(i, a) = << s >> \o << u, v >> \o << last >> \o << r >>
  BY <1>1, <1>2, <1>3, <1>4
<1> HIDE DEF last
<1>6. Are5(Translated(i, a), s, u, v, last, r) BY <1>5, JoinedWords, Zenon
<1> QED BY <1>3, <1>4, <1>6, Zenon DEF last

LEMMA TranslatedStore ==
  ASSUME NEW i, Copyable(i), i.op = "str", PC \in {i.d, i.n}, NEW a
  PROVE  LET q == getOtherRegisterOf2(i.d, i.n)
             p == armWritePCToRegister(i.cond, q, a)
             last == [i EXCEPT !.d = IF i.d = PC THEN q ELSE i.d,
                               !.n = IF i.n = PC THEN q ELSE i.n]
         IN Are5(Translated(i, a), Spill(i.cond, q), p[1], p[2], last, Restore(i.cond, q))
<1> DEFINE q == getOtherRegisterOf2(i.d, i.n)
           p == armWritePCToRegister(i.cond, q, a)
           last == [i EXCEPT !.d = IF i.d = PC THEN q ELSE i.d,
                             !.n = IF i.n = PC THEN q ELSE i.n]
<1>1. Translated(i, a) = armStrPCImm(i, a) BY Zenon DEF Translated
<1>2. armStrPCImm(i, a) =
        armSpillRegister(i.cond, q) \o p \o << last >> \o armRestoreRegister(i.cond, q)
  BY Zenon DEF armStrPCImm
<1>3. PICK u, v : u = p[1] /\ v = p[2] /\ p = << u, v >> BY PCWords
<1>4. PICK s, r : /\ s = Spill(i.cond, q) /\ armSpillRegister(i.cond, q) = << s >>
                  /\ r = Restore(i.cond, q) /\ armRestoreRegister(i.cond, q) = << r >>
  BY StackWords
<1>5. Translated(i, a) = << s >> \o << u, v >> \o << last >> \o << r >>
  BY <1>1, <1>2, <1>3, <1>4
<1> HIDE DEF last
<1>6. Are5(Translated(i, a), s, u, v, last, r) BY <1>5, JoinedWords, Zenon
<1> QED BY <1>3, <1>4, <1>6, Zenon DEF last

LEMMA TranslatedStm ==
  ASSUME NEW i, Copyable(i), i.op = "stm", PC \in i.list, NEW a
  PROVE  LET q == StmScratch(i)
             p == armWritePCToRegister(i.cond, q, a)
             last == [Plain EXCEPT !.op = "str", !.cond = i.cond, !.d = q, !.n = i.n,
                                   !.imm = StmOffset(i)]
         IN Are6(Translated(i, a), i, Push(i.cond, q), p[1], p[2], last, Pop(i.cond, q))
<1> DEFINE q == StmScratch(i)
           p == armWritePCToRegister(i.cond, q, a)
           last == [Plain EXCEPT !.op = "str", !.cond = i.cond, !.d = q, !.n = i.n,
                                 !.imm = StmOffset(i)]
<1>1. Translated(i, a) = armStmPC(i, a) BY Zenon DEF Translated
<1>2. armStmPC(i, a) = << i, Push(i.cond, q) >> \o p \o << last, Pop(i.cond, q) >>
  BY Zenon DEF armStmPC
<1>3. PICK u, v : u = p[1] /\ v = p[2] /\ p = << u, v >> BY PCWords
<1>4. PICK s, r : s = Push(i.cond, q) /\ r = Pop(i.cond, q) OBVIOUS
<1>5. Translated(i, a) = << i, s >> \o << u, v >> \o << last, r >> BY <1>1, <1>2, <1>3, <1>4
<1> HIDE DEF last
<1>6. Are6(Translated(i, a), i, s, u, v, last, r) BY <1>5, JoinedWords, Zenon
<1> QED BY <1>3, <1>4, <1>6, Zenon DEF last

-----------------------------------------------------------------------------
(* The words of an instruction executed one after the other: t[k] is the    *)
(* core after k of them.                                                    *)

Where(w) ==
  IF w.op = "str" THEN Data \cup {Ack} ELSE IF w.op = "stm" THEN Data \ {TableWord} ELSE Data
Runs(ws, t, j) ==
  /\ t \in [0 .. j -> Cores]
  /\ \A k \in 1 .. j : Reaches(ws[k], t[k - 1], HostPC, Where(ws[k]))
                       /\ t[k] = Execute(ws[k], t[k - 1], HostPC)

(* The word under the stack pointer after the instruction, where registers  *)
(* are spilled.                                                             *)
Under(i, c, p) == Plus(Execute(i, c, p).r[SP], -1)

(* There is room for the spilled register, and a word that is not the last  *)
(* one touches only memory that is there.                                   *)
Roomy(i, c, p) ==
  Spills(i) /\ Passed(i, c.z) =>
    /\ Touched(i, c, p) \subseteq Data
    /\ i.op # "stm" => ~ Faults(i, c, p)
    /\ mmu \/ i.op = "stm" =>
         Under(i, c, p) \in Data \ (Lazy \cup {TableWord} \cup Touched(i, c, p))

Allowed(i) == IF i.op = "str" THEN Data \cup {Ack} ELSE Data

(* The words have done what the instruction does.                           *)
Done(i, c, p, d) ==
  /\ Reaches(i, c, p, Allowed(i))
  /\ d.r = Execute(i, c, p).r /\ d.z = Execute(i, c, p).z
  /\ \A k \in Data \ {Under(i, c, p)} : d.mem[k] = Execute(i, c, p).mem[k]

(* A word that faults does so for its instruction, and before it has done   *)
(* anything that is seen, but for the destination of a load.                *)
Lost(i, c, p, d) ==
  /\ Faults(i, c, p) /\ d.z = c.z /\ d.mem = c.mem
  /\ \/ d.r = c.r
     \/ i.op \in {"ldr", "ldrr"} /\ \E v \in Word : d.r = Write(c, i.d, v).r

Simulated(i, c, p, ws, t, j) ==
  /\ j = Len(ws) =>
       Done(i, c, p, t[j]) /\ (Acks(i, c, p) <=> Acks(ws[j], t[j - 1], HostPC))
  /\ j < Len(ws) =>
       /\ Faults(ws[j + 1], t[j], HostPC) => Lost(i, c, p, t[j])
       /\ j + 1 < Len(ws) => ~ Acks(ws[j + 1], t[j], HostPC)

(* Words under a condition that does not hold do nothing.                   *)
LEMMA SkippedWord ==
  ASSUME NEW w, NEW c, ~ Passed(w, c.z), NEW pc
  PROVE  Execute(w, c, pc) = c /\ ~ Faults(w, c, pc) /\ ~ Acks(w, c, pc)
         /\ \A where : Reaches(w, c, pc, where)
BY DEF Execute, Faults, Acks, Reaches

LEMMA SkippedWords ==
  ASSUME NEW i, NEW c, ~ Passed(i, c.z), NEW p, NEW ws, Len(ws) \in Nat \ {0},
         \A k \in 1 .. Len(ws) : ws[k].cond = i.cond,
         NEW j \in 0 .. Len(ws), NEW t, Runs(ws, t, j), t[0] = c
  PROVE  Simulated(i, c, p, ws, t, j)
<1>p. \A k \in 1 .. Len(ws) : ~ Passed(ws[k], c.z) BY DEF Passed
<1>1. \A k \in 0 .. j : t[k] = c
  <2> DEFINE T == {k \in 0 .. j : t[k] # c}
  <2>1. CASE T = {} BY <2>1
  <2>2. CASE T # {}
    <3>1. T \in SUBSET Nat OBVIOUS
    <3>2. PICK k \in T : \A m \in T : k <= m BY <2>2, <3>1, LeastNatural
    <3>3. k \in 1 .. j /\ k - 1 \in 0 .. j /\ k - 1 \notin T /\ k \in 1 .. Len(ws) BY <3>2
    <3>4. t[k - 1] = c /\ t[k] = Execute(ws[k], t[k - 1], HostPC) BY <3>3 DEF Runs
    <3>5. t[k] = c BY <3>3, <3>4, <1>p, SkippedWord
    <3> QED BY <3>2, <3>5
  <2> QED BY <2>1, <2>2
<1>2. Execute(i, c, p) = c /\ ~ Acks(i, c, p) /\ Reaches(i, c, p, Allowed(i)) BY SkippedWord
<1>3. Done(i, c, p, c) BY <1>2 DEF Done
<1>4. ASSUME j = Len(ws)
      PROVE  Done(i, c, p, t[j]) /\ (Acks(i, c, p) <=> Acks(ws[j], t[j - 1], HostPC))
  <2>1. t[j] = c /\ t[j - 1] = c /\ j \in 1 .. Len(ws) BY <1>1, <1>4
  <2>2. ~ Acks(ws[j], t[j - 1], HostPC) BY <2>1, <1>p, SkippedWord
  <2> QED BY <1>2, <1>3, <2>1, <2>2
<1>5. ASSUME j < Len(ws)
      PROVE  ~ Faults(ws[j + 1], t[j], HostPC) /\ ~ Acks(ws[j + 1], t[j], HostPC)
  <2>1. t[j] = c /\ j + 1 \in 1 .. Len(ws) BY <1>1, <1>5
  <2> QED BY <2>1, <1>p, SkippedWord
<1> QED BY <1>4, <1>5 DEF Simulated

(* An instruction that is copied as it is.                                  *)
LEMMA MoveableAnywhere ==
  ASSUME NEW i, Copyable(i), Moveable(i), NEW c, NEW p, NEW q
  PROVE  /\ Execute(i, c, p) = Execute(i, c, q)
         /\ Touched(i, c, p) = Touched(i, c, q) /\ Faults(i, c, p) <=> Faults(i, c, q)
         /\ Acks(i, c, p) <=> Acks(i, c, q)
         /\ \A where : Reaches(i, c, p, where) <=> Reaches(i, c, q, where)
<1>0. i.op \in Ops /\ ~ Replaced(i) BY DEF Copyable
<1>o. i.op \in {"alu", "teq", "mov", "mvn", "ldr", "ldrr", "str", "stm", "ldm"}
  BY <1>0 DEF Ops, Replaced
<1>1. \A n : n # PC => Reg(c, n, p) = Reg(c, n, q) BY DEF Reg
<1>2. i.op \in {"ldr", "ldrr", "str"} => Address(i, c, p) = Address(i, c, q)
  BY <1>1 DEF Address, Moveable
<1>3. Touched(i, c, p) = Touched(i, c, q)
  <2>1. CASE i.op \in {"ldr", "ldrr", "str"} BY <1>2, <2>1 DEF Touched
  <2>2. CASE i.op \in {"stm", "ldm"}
    <3>1. Reg(c, i.n, p) = Reg(c, i.n, q) BY <1>1, <2>2 DEF Moveable
    <3> QED BY <2>2, <3>1 DEF Touched
  <2>3. CASE i.op \in {"alu", "teq", "mov", "mvn"} BY <2>3 DEF Touched
  <2> QED BY <1>o, <2>1, <2>2, <2>3
<1>4. Faults(i, c, p) <=> Faults(i, c, q) BY <1>3 DEF Faults
<1>5. \A where : Reaches(i, c, p, where) <=> Reaches(i, c, q, where) BY <1>3, <1>4 DEF Reaches
<1>6. Acks(i, c, p) <=> Acks(i, c, q) BY <1>2 DEF Acks
<1>7. Execute(i, c, p) = Execute(i, c, q)
  <2>0. CASE ~ Passed(i, c.z) BY <2>0 DEF Execute
  <2>1. CASE Passed(i, c.z)
    <3>1. CASE i.op = "alu"
      <4>1. Reg(c, i.n, p) = Reg(c, i.n, q) BY <1>1, <3>1 DEF Moveable
      <4> QED BY <2>1, <3>1, <4>1, Zenon DEF Execute
    <3>2. CASE i.op = "teq"
      <4>1. Reg(c, i.n, p) = Reg(c, i.n, q) BY <1>1, <3>2 DEF Moveable
      <4> QED BY <2>1, <3>2, <4>1, Zenon DEF Execute
    <3>3. CASE i.op = "mov"
      <4>1. Reg(c, i.m, p) = Reg(c, i.m, q) BY <1>1, <3>3 DEF Moveable
      <4> QED BY <2>1, <3>3, <4>1, Zenon DEF Execute
    <3>4. CASE i.op = "mvn"
      <4>1. Reg(c, i.m, p) = Reg(c, i.m, q) BY <1>1, <3>4 DEF Moveable
      <4> QED BY <2>1, <3>4, <4>1, Zenon DEF Execute
    <3>5. CASE i.op = "ldr" BY <1>2, <2>1, <3>5, Zenon DEF Execute
    <3>6. CASE i.op = "ldrr" BY <1>2, <2>1, <3>6, Zenon DEF Execute
    <3>7. CASE i.op = "str"
      <4>1. Reg(c, i.d, p) = Reg(c, i.d, q) BY <1>1, <3>7 DEF Moveable
      <4>2. Stored(i, c, p) = Stored(i, c, q) BY <4>1, <1>2, <3>7 DEF Stored
      <4> QED BY <2>1, <3>7, <4>2, Zenon DEF Execute
    <3>8. CASE i.op = "stm"
      <4>1. Reg(c, i.n, p) = Reg(c, i.n, q) BY <1>1, <3>8 DEF Moveable
      <4>2. Stored(i, c, p) = Stored(i, c, q)
        <5> DEFINE f(pc, a) == IF \E n \in i.list : a = Place(i, Reg(c, i.n, pc), n)
                     THEN Reg(c, CHOOSE n \in i.list : a = Place(i, Reg(c, i.n, pc), n), pc)
                     ELSE c.mem[a]
        <5>1. \A pc : Stored(i, c, pc) = [a \in Data |-> f(pc, a)] BY <3>8 DEF Stored
        <5>2. ASSUME NEW a \in Data PROVE f(p, a) = f(q, a)
          <6> DEFINE n == CHOOSE n \in i.list : a = Place(i, Reg(c, i.n, p), n)
          <6>1. CASE \E k \in i.list : a = Place(i, Reg(c, i.n, p), k)
            <7>1. n \in i.list /\ n # PC BY <6>1, <3>8 DEF Moveable
            <7> HIDE DEF n
            <7>2. Reg(c, n, p) = Reg(c, n, q) BY <7>1, <1>1
            <7> QED BY <6>1, <7>2, <4>1 DEF n
          <6>2. CASE ~ \E k \in i.list : a = Place(i, Reg(c, i.n, p), k)
            BY <6>2, <4>1
          <6> QED BY <6>1, <6>2
        <5> HIDE DEF f
        <5>3. [a \in Data |-> f(p, a)] = [a \in Data |-> f(q, a)] BY <5>2
        <5> QED BY <5>1, <5>3
      <4> QED BY <2>1, <3>8, <4>1, <4>2, Zenon DEF Execute
    <3>9. CASE i.op = "ldm" BY <2>1, <3>9, Zenon DEF Execute
    <3> QED BY <1>o, <3>1, <3>2, <3>3, <3>4, <3>5, <3>6, <3>7, <3>8, <3>9
  <2> QED BY <2>0, <2>1
<1> QED BY <1>3, <1>4, <1>5, <1>6, <1>7

LEMMA PlainSimulated ==
  ASSUME NEW i, Copyable(i), Moveable(i), NEW c, NEW p,
         NEW j \in 0 .. 1, NEW t, Runs(<< i >>, t, j), t[0] = c
  PROVE  Simulated(i, c, p, << i >>, t, j)
<1> DEFINE ws == << i >>
<1>1. Len(ws) = 1 /\ ws[1] = i OBVIOUS
<1> HIDE DEF ws
<1>2. /\ Execute(i, c, p) = Execute(i, c, HostPC)
      /\ Faults(i, c, p) <=> Faults(i, c, HostPC)
      /\ Acks(i, c, p) <=> Acks(i, c, HostPC)
      /\ \A where : Reaches(i, c, p, where) <=> Reaches(i, c, HostPC, where)
  BY MoveableAnywhere
<1>3. CASE j = 0
  <2>1. Faults(ws[1], t[0], HostPC) => Lost(i, c, p, t[0]) BY <1>1, <1>2 DEF Lost
  <2> QED BY <1>1, <1>3, <2>1 DEF Simulated, ws
<1>4. CASE j = 1
  <2>1. Reaches(i, c, HostPC, Where(i)) /\ t[1] = Execute(i, c, HostPC)
    BY <1>1, <1>4 DEF Runs, ws
  <2>2. Where(i) \subseteq Allowed(i) BY DEF Where, Allowed
  <2>3. Reaches(i, c, p, Allowed(i)) BY <1>2, <2>1, <2>2 DEF Reaches
  <2>4. Done(i, c, p, t[1]) BY <1>2, <2>1, <2>3 DEF Done
  <2> QED BY <1>1, <1>2, <1>4, <2>4 DEF Simulated, ws
<1> QED BY <1>3, <1>4

(* Words that use no memory.                                                *)
LEMMA QuietWord ==
  ASSUME NEW w, w.op \in {"alu", "mov", "mvn", "movw", "movt", "mcr", "mrc", "hypercall"},
         NEW c, NEW pc
  PROVE  Touched(w, c, pc) = {} /\ ~ Faults(w, c, pc) /\ ~ Acks(w, c, pc)
<1>1. Touched(w, c, pc) = {} BY DEF Touched
<1> QED BY <1>1 DEF Faults, Acks

LEMMA HoldingFields ==
  ASSUME NEW c \in Cores, NEW d \in Regs, NEW v
  PROVE  /\ Holding(c, d, v).z = c.z /\ Holding(c, d, v).mem = c.mem
         /\ Holding(c, d, v).tp = c.tp /\ Holding(c, d, v).r[d] = v
         /\ Holding(c, d, v).r = [c.r EXCEPT ![d] = v]
         /\ \A n \in Regs \ {d} : Holding(c, d, v).r[n] = c.r[n]
BY DEF Holding, Cores

(* A run, word by word.                                                     *)
LEMMA RunsFirst ==
  ASSUME NEW ws, NEW t, NEW j \in Nat, Runs(ws, t, j)
  PROVE  \A k \in 1 .. j : /\ t[k - 1] \in Cores /\ t[k] \in Cores
                           /\ Reaches(ws[k], t[k - 1], HostPC, Where(ws[k]))
                           /\ t[k] = Execute(ws[k], t[k - 1], HostPC)
BY DEF Runs

(* The two words that write the PC, wherever they are in a run.             *)
LEMMA RunsPC ==
  ASSUME NEW ws, NEW t, NEW j \in Nat, Runs(ws, t, j), NEW k \in Nat, k + 2 <= j,
         NEW cond \in Conds, NEW d \in Regs, NEW a \in Word,
         ws[k + 1] = armWritePCToRegister(cond, d, a)[1],
         ws[k + 2] = armWritePCToRegister(cond, d, a)[2],
         cond = "al" \/ t[k].z
  PROVE  t[k + 2] = Holding(t[k], d, Plus(a, 2))
<1> DEFINE p == armWritePCToRegister(cond, d, a)
<1>1. k + 1 \in 1 .. j /\ k + 2 \in 1 .. j /\ (k + 1) - 1 = k /\ (k + 2) - 1 = k + 1 OBVIOUS
<1>2. t[k] \in Cores /\ t[k + 1] = Execute(ws[k + 1], t[k], HostPC) BY <1>1, RunsFirst
<1>3. t[k + 2] = Execute(ws[k + 2], t[k + 1], HostPC) BY <1>1, RunsFirst
<1>4. Execute(p[2], Execute(p[1], t[k], HostPC), HostPC) = Holding(t[k], d, Plus(a, 2))
  BY <1>2, PCWritten DEF Conds
<1> QED BY <1>2, <1>3, <1>4

(* The last word of an instruction that reads the PC touches what it would. *)
LEMMA LastWordTouches ==
  ASSUME NEW c \in Cores, NEW p \in Word, NEW i \in Instr, ReadsPC(i),
         NEW w, w = IF i.op \in {"alu", "ldr"} THEN [i EXCEPT !.n = i.d]
                                               ELSE [i EXCEPT !.m = i.d]
  PROVE  LET h == Holding(c, i.d, p)
         IN /\ w.op = i.op /\ w.cond = i.cond
            /\ Touched(w, h, HostPC) = Touched(i, c, p)
            /\ Faults(w, h, HostPC) <=> Faults(i, c, p)
            /\ \A where : Reaches(w, h, HostPC, where) <=> Reaches(i, c, p, where)
<1> DEFINE h == Holding(c, i.d, p)
<1>1. i.d # PC /\ i.d \in Regs BY Numbers DEF ReadsPC
<1>2. h.z = c.z /\ h.mem = c.mem /\ h.r[i.d] = p BY <1>1 DEF Holding, Cores
<1>5. /\ w.op = i.op /\ w.cond = i.cond /\ w.imm = i.imm /\ i.op \in {"alu", "ldr", "mov", "mvn"}
      /\ i.op = "ldr" => w.n = i.d /\ i.n = PC
  BY DEF Instr, ReadsPC
<1> HIDE DEF h
<1>6. Touched(w, h, HostPC) = Touched(i, c, p)
  <2>1. CASE i.op = "ldr"
    <3>1. Reg(h, w.n, HostPC) = p /\ Reg(c, i.n, p) = p BY <1>1, <1>2, <1>5, <2>1 DEF Reg
    <3>2. Address(w, h, HostPC) = Address(i, c, p) BY <1>5, <2>1, <3>1 DEF Address
    <3> QED BY <1>5, <2>1, <3>2 DEF Touched
  <2>2. CASE i.op # "ldr" BY <1>5, <2>2 DEF Touched
  <2> QED BY <2>1, <2>2
<1>7. Faults(w, h, HostPC) <=> Faults(i, c, p) BY <1>2, <1>5, <1>6 DEF Faults, Passed
<1>8. \A where : Reaches(w, h, HostPC, where) <=> Reaches(i, c, p, where)
  BY <1>2, <1>5, <1>6, <1>7 DEF Reaches, Passed
<1> QED BY <1>5, <1>6, <1>7, <1>8 DEF h

LEMMA ReadsSimulated ==
  ASSUME NEW i, Copyable(i), ReadsPC(i), NEW c \in Cores, Passed(i, c.z), NEW a \in Word,
         NEW ws, ws = Translated(i, a), NEW j \in 0 .. Len(ws), NEW t, Runs(ws, t, j), t[0] = c
  PROVE  Simulated(i, c, Plus(a, 2), ws, t, j)
<1> DEFINE p == Plus(a, 2)
           last == IF i.op \in {"alu", "ldr"} THEN [i EXCEPT !.n = i.d] ELSE [i EXCEPT !.m = i.d]
           pre == armWritePCToRegister(i.cond, i.d, a)
           short == i.op = "mov" /\ ~ i.s
<1>0. i \in Instr /\ i.cond \in Conds /\ i.d \in Regs /\ i.d # PC /\ p \in Word /\ i.op # "str"
      /\ i.op \in {"alu", "ldr", "mov", "mvn"}
  <2>1. a \in Int BY WordArithmetic
  <2> QED BY <2>1, Numbers, InstrFields DEF Copyable, ReadsPC
<1>1. (short => Are2(ws, pre[1], pre[2])) /\ (~ short => Are3(ws, pre[1], pre[2], last))
  BY TranslatedReads
<1>2. Kind(pre[1], "movw", i.cond, i.d) /\ Kind(pre[2], "movt", i.cond, i.d) BY PCWords
<1>l. /\ Execute(last, Holding(c, i.d, p), HostPC) = Execute(i, c, p) /\ last.op = i.op
      /\ Faults(last, Holding(c, i.d, p), HostPC) <=> Faults(i, c, p)
      /\ \A where : Reaches(last, Holding(c, i.d, p), HostPC, where) <=> Reaches(i, c, p, where)
  BY <1>0, LastWord, LastWordTouches
<1>e. Ran(ws, c) = Execute(i, c, p) BY <1>0, PatchFaithful
<1> HIDE DEF last, pre, p
<1>3. /\ Len(ws) = (IF short THEN 2 ELSE 3) /\ ws[1] = pre[1] /\ ws[2] = pre[2]
      /\ ~ short => ws[3] = last
  BY <1>1 DEF Are2, Are3
<1>q. ws[1].op = "movw" /\ ws[2].op = "movt" BY <1>2, <1>3 DEF Kind
<1>h. j >= 2 => t[2] = Holding(c, i.d, p)
  <2> SUFFICES ASSUME j >= 2 PROVE t[2] = Holding(c, i.d, p) OBVIOUS
  <2>1. i.cond = "al" \/ t[0].z BY DEF Passed
  <2>2. t[0 + 2] = Holding(t[0], i.d, Plus(a, 2))
    <3>1. j \in Nat /\ 0 \in Nat /\ 0 + 2 <= j BY <1>3
    <3>2. ws[0 + 1] = pre[1] /\ ws[0 + 2] = pre[2] BY <1>3
    <3> QED BY <3>1, <3>2, <1>0, <2>1, RunsPC DEF pre
  <2> QED BY <2>2 DEF p
<1>n. ~ Acks(i, c, p) BY <1>0 DEF Acks
<1>a. Allowed(i) = Data BY <1>0 DEF Allowed
<1>4. CASE j < 2
  <2>1. j = 0 \/ j = 1 BY <1>3, <1>4
  <2>2. ws[j + 1].op \in {"movw", "movt"} BY <2>1, <1>q
  <2>3. ~ Faults(ws[j + 1], t[j], HostPC) /\ ~ Acks(ws[j + 1], t[j], HostPC)
    BY <2>2, QuietWord
  <2> QED BY <2>1, <2>3, <1>3 DEF Simulated
<1>5. CASE short /\ j = 2
  <2>1. t[1] = Execute(ws[1], c, HostPC) /\ t[2] = Execute(ws[2], t[1], HostPC)
    <3>1. 1 \in 1 .. j /\ 2 \in 1 .. j /\ 1 - 1 = 0 /\ 2 - 1 = 1 BY <1>5
    <3> QED BY <3>1, RunsFirst
  <2>2. t[2] = Execute(i, c, p) BY <2>1, <1>3, <1>5, <1>e DEF Ran
  <2>3. Reaches(i, c, p, Allowed(i)) BY <1>5, QuietWord DEF Reaches
  <2>4. Done(i, c, p, t[2]) BY <2>2, <2>3 DEF Done
  <2>5. ~ Acks(ws[2], t[2 - 1], HostPC) BY <1>q, QuietWord
  <2> QED BY <2>4, <2>5, <1>3, <1>5, <1>n DEF Simulated, p
<1>6. CASE ~ short /\ j = 2
  <2>1. t[2].z = c.z /\ t[2].mem = c.mem /\ t[2].r = Write(c, i.d, p).r
    <3>1. Write(c, i.d, p) = Holding(c, i.d, p) BY <1>0, Zenon DEF Write, Holding
    <3>2. t[2] = Holding(c, i.d, p) BY <1>6, <1>h
    <3>3. Holding(c, i.d, p).z = c.z /\ Holding(c, i.d, p).mem = c.mem
      BY DEF Holding, Cores
    <3> QED BY <3>1, <3>2, <3>3
  <2>2. ASSUME Faults(ws[3], t[2], HostPC) PROVE Lost(i, c, p, t[2])
    <3>1. Faults(i, c, p) BY <2>2, <1>3, <1>6, <1>h, <1>l
    <3>2. i.op \in {"ldr", "ldrr"} BY <3>1, <1>0, QuietWord
    <3> QED BY <3>1, <3>2, <2>1, <1>0 DEF Lost
  <2> QED BY <2>2, <1>3, <1>6 DEF Simulated, p
<1>7. CASE ~ short /\ j = 3
  <2>1. t[3] = Execute(last, t[2], HostPC) /\ Reaches(last, t[2], HostPC, Where(last))
    <3>1. 3 \in 1 .. j /\ 3 - 1 = 2 BY <1>7
    <3> QED BY <3>1, <1>3, <1>7, RunsFirst
  <2>2. t[3] = Execute(i, c, p) BY <2>1, <1>h, <1>l, <1>7
  <2>3. Reaches(i, c, p, Allowed(i))
    <3>1. Where(last) \subseteq Data BY <1>0, <1>l DEF Where
    <3>2. Reaches(last, t[2], HostPC, Data) BY <2>1, <3>1 DEF Reaches
    <3> QED BY <3>2, <1>h, <1>l, <1>7, <1>a
  <2>4. Done(i, c, p, t[3]) BY <2>2, <2>3 DEF Done
  <2>5. ~ Acks(ws[3], t[3 - 1], HostPC) BY <1>0, <1>3, <1>l, <1>7 DEF Acks
  <2> QED BY <2>4, <2>5, <1>3, <1>7, <1>n DEF Simulated, p
<1>8. j \in {0, 1, 2, 3} BY <1>3
<1> QED BY <1>3, <1>4, <1>5, <1>6, <1>7, <1>8 DEF p

-----------------------------------------------------------------------------
(* A register is spilled under the stack pointer, or to the thread register.*)

LEMMA OnePlace ==
  ASSUME NEW q \in Regs
  PROVE  /\ Cardinality({k \in {q} : k >= q}) = 1 /\ Cardinality({k \in {q} : k < q}) = 0
         /\ Cardinality({q}) = 1
<1>1. q \in Int BY CoreAssumption DEF Regs, Banked, SP, LR
<1>2. {k \in {q} : k >= q} = {q} /\ {k \in {q} : k < q} = {} BY <1>1
<1> QED BY <1>2, FS_Singleton, FS_EmptySet

LEMMA WordSums ==
  /\ \A v \in Word : Plus(v, 0) = v /\ Plus(Plus(v, -1), 1) = v
  /\ \A v \in Word : Plus(v, -1) \in Word /\ Plus(v, 1) \in Word
<1>1. Modulus \in Nat /\ Modulus > 0 BY Numbers
<1>2. ASSUME NEW v \in Word PROVE Plus(v, 0) = v BY <1>1 DEF Plus, Word
<1>3. ASSUME NEW v \in Word PROVE Plus(Plus(v, -1), 1) = v
  <2>1. CASE v = 0
    <3>1. (v + -1) % Modulus = Modulus - 1 BY <1>1, <2>1
    <3>2. (Modulus - 1 + 1) % Modulus = 0 BY <1>1
    <3> QED BY <1>1, <2>1, <3>1, <3>2 DEF Plus
  <2>2. CASE v # 0
    <3>1. v - 1 \in 0 .. Modulus - 1 BY <1>1, <2>2 DEF Word
    <3>0. PICK w : w = v - 1 /\ w \in Nat /\ w < Modulus BY <1>1, <3>1
    <3>2. (v + -1) % Modulus = v - 1
      <4>1. w % Modulus = w BY <1>1, <3>0
      <4>2. v \in Int /\ v + -1 = w BY <3>0, <1>1 DEF Word
      <4> QED BY <4>1, <4>2, <3>0
    <3>3. v - 1 + 1 = v /\ v \in 0 .. Modulus - 1 /\ v \in Nat BY <1>1 DEF Word
    <3>4. v % Modulus = v BY <1>1, <3>3
    <3>5. Plus(v, -1) = v - 1 BY <3>2 DEF Plus
    <3>6. Plus(v - 1, 1) = v BY <3>3, <3>4 DEF Plus
    <3> QED BY <3>5, <3>6
  <2> QED BY <2>1, <2>2
<1>4. \A v \in Word : Plus(v, -1) \in Word /\ Plus(v, 1) \in Word BY Numbers, WordArithmetic
<1> QED BY <1>2, <1>3, <1>4

LEMMA PushDone ==
  ASSUME NEW c \in Cores, NEW q \in Regs, q # SP, NEW cond, cond = "al" \/ c.z
  PROVE  LET u == Plus(c.r[SP], -1)
             d == Execute(Push(cond, q), c, HostPC)
         IN /\ Touched(Push(cond, q), c, HostPC) = {u}
            /\ d.z = c.z /\ d.tp = c.tp /\ d.r[SP] = u
            /\ \A n \in Regs \ {SP} : d.r[n] = c.r[n]
            /\ \A k \in Data : d.mem[k] = IF k = u THEN c.r[q] ELSE c.mem[k]
<1> DEFINE u == Plus(c.r[SP], -1)
           w == Push(cond, q)
<1>1. w.op = "stm" /\ w.cond = cond /\ w.n = SP /\ w.list = {q} BY StackWords
<1> HIDE DEF w
<1>2. SP # PC /\ q # PC /\ SP \in Regs BY Numbers, LowRegisters
<1>3. Reg(c, w.n, HostPC) = c.r[SP] /\ Reg(c, q, HostPC) = c.r[q] BY <1>1, <1>2 DEF Reg
<1>4. Place(w, c.r[SP], q) = u
  <2>1. Cardinality({k \in w.list : k >= q}) = 1 BY <1>1, OnePlace
  <2> QED BY <1>1, <2>1 DEF Place
<1>5. Touched(w, c, HostPC) = {u}
  <2>1. Touched(w, c, HostPC) = {Place(w, Reg(c, w.n, HostPC), n) : n \in w.list} BY <1>1 DEF Touched
  <2> QED BY <2>1, <1>1, <1>3, <1>4
<1>6. Passed(w, c.z) BY <1>1 DEF Passed
<1>7. Execute(w, c, HostPC) = [Write(c, SP, Plus(c.r[SP], - Cardinality({q})))
                                 EXCEPT !.mem = Stored(w, c, HostPC)]
  BY <1>1, <1>3, <1>6, Zenon DEF Execute
<1>8. Write(c, SP, Plus(c.r[SP], - Cardinality({q}))) = [c EXCEPT !.r[SP] = u]
  <2>1. Cardinality({q}) = 1 BY OnePlace
  <2> QED BY <1>2, <2>1 DEF Write
<1>9. \A k \in Data : Stored(w, c, HostPC)[k] = IF k = u THEN c.r[q] ELSE c.mem[k]
  <2> SUFFICES ASSUME NEW k \in Data
               PROVE  Stored(w, c, HostPC)[k] = IF k = u THEN c.r[q] ELSE c.mem[k]
    OBVIOUS
  <2>1. Stored(w, c, HostPC)[k]
          = IF \E n \in w.list : k = Place(w, Reg(c, w.n, HostPC), n)
            THEN Reg(c, CHOOSE n \in w.list : k = Place(w, Reg(c, w.n, HostPC), n), HostPC)
            ELSE c.mem[k]
    BY <1>1 DEF Stored
  <2>2. CASE k = u
    <3>1. \E n \in w.list : k = Place(w, Reg(c, w.n, HostPC), n) BY <1>1, <1>3, <1>4, <2>2
    <3>2. (CHOOSE n \in w.list : k = Place(w, Reg(c, w.n, HostPC), n)) \in w.list BY <3>1
    <3>3. (CHOOSE n \in w.list : k = Place(w, Reg(c, w.n, HostPC), n)) = q BY <1>1, <3>2
    <3> QED BY <2>1, <2>2, <3>1, <3>3, <1>3
  <2>3. CASE k # u
    <3>1. ~ \E n \in w.list : k = Place(w, Reg(c, w.n, HostPC), n) BY <1>1, <1>3, <1>4, <2>3
    <3> QED BY <2>1, <2>3, <3>1
  <2> QED BY <2>2, <2>3
<1> HIDE DEF u
<1>10. PICK mem : mem = Stored(w, c, HostPC) OBVIOUS
<1>11. Execute(w, c, HostPC) = [[c EXCEPT !.r[SP] = u] EXCEPT !.mem = mem] BY <1>7, <1>8, <1>10
<1>12. PICK d : d = Execute(w, c, HostPC) OBVIOUS
<1>13. d.z = c.z /\ d.tp = c.tp /\ d.r = [c.r EXCEPT ![SP] = u] /\ d.mem = mem
  BY <1>11, <1>12 DEF Cores
<1>14. d.r[SP] = u /\ \A n \in Regs \ {SP} : d.r[n] = c.r[n] BY <1>2, <1>13, CoreFields
<1> QED BY <1>5, <1>9, <1>10, <1>12, <1>13, <1>14 DEF u, w

LEMMA PopDone ==
  ASSUME NEW c \in Cores, NEW q \in Regs, q # SP, NEW cond, cond = "al" \/ c.z
  PROVE  LET d == Execute(Pop(cond, q), c, HostPC)
         IN /\ Touched(Pop(cond, q), c, HostPC) = {c.r[SP]}
            /\ d.z = c.z /\ d.mem = c.mem /\ d.r[SP] = Plus(c.r[SP], 1) /\ d.r[q] = c.mem[c.r[SP]]
            /\ \A n \in Regs \ {SP, q} : d.r[n] = c.r[n]
<1> DEFINE w == Pop(cond, q)
<1>1. w.op = "ldm" /\ w.cond = cond /\ w.n = SP /\ w.list = {q} BY StackWords
<1> HIDE DEF w
<1>2. SP # PC /\ q # PC /\ SP \in Regs /\ c.r[SP] \in Word BY Numbers, LowRegisters, CoreFields
<1>3. Reg(c, w.n, HostPC) = c.r[SP] BY <1>1, <1>2 DEF Reg
<1>4. Place(w, c.r[SP], q) = c.r[SP]
  <2>1. Cardinality({k \in w.list : k < q}) = 0 BY <1>1, OnePlace
  <2> QED BY <1>1, <1>2, <2>1, WordSums DEF Place
<1>5. Touched(w, c, HostPC) = {c.r[SP]}
  <2>1. Touched(w, c, HostPC) = {Place(w, Reg(c, w.n, HostPC), n) : n \in w.list} BY <1>1 DEF Touched
  <2> QED BY <2>1, <1>1, <1>3, <1>4
<1>6. Passed(w, c.z) BY <1>1 DEF Passed
<1>7. Execute(w, c, HostPC) = [c EXCEPT !.r = Loaded(w, c)] BY <1>1, <1>6, Zenon DEF Execute
<1>8. PICK r : r = Loaded(w, c) OBVIOUS
<1>9. \A n \in Regs : r[n] = IF n = q THEN c.mem[c.r[SP]]
                             ELSE IF n = SP THEN Plus(c.r[n], 1) ELSE c.r[n]
  <2>1. Cardinality(w.list) = 1 BY <1>1, OnePlace
  <2> SUFFICES ASSUME NEW n \in Regs
               PROVE  r[n] = IF n = q THEN c.mem[c.r[SP]]
                             ELSE IF n = SP THEN Plus(c.r[n], 1) ELSE c.r[n]
    OBVIOUS
  <2>2. r[n] = IF n \in w.list THEN c.mem[Place(w, c.r[w.n], n)]
               ELSE IF n = w.n THEN Plus(c.r[n], Cardinality(w.list)) ELSE c.r[n]
    BY <1>8 DEF Loaded
  <2> QED BY <2>1, <2>2, <1>1, <1>4
<1>10. PICK d : d = Execute(w, c, HostPC) OBVIOUS
<1>11. d.z = c.z /\ d.mem = c.mem /\ d.r = r BY <1>7, <1>8, <1>10 DEF Cores
<1>12. d.r[SP] = Plus(c.r[SP], 1) /\ d.r[q] = c.mem[c.r[SP]]
       /\ \A n \in Regs \ {SP, q} : d.r[n] = c.r[n]
  BY <1>2, <1>9, <1>11
<1> QED BY <1>5, <1>10, <1>11, <1>12 DEF w

(* The register q has been spilled and holds the PC.                        *)
Prepared(c, q, p, d) ==
  /\ d.z = c.z /\ d.r[q] = p /\ \A n \in Regs \ {q, SP} : d.r[n] = c.r[n]
  /\ mmu => /\ d.r[SP] = Plus(c.r[SP], -1)
            /\ \A k \in Data : d.mem[k] = IF k = Plus(c.r[SP], -1) THEN c.r[q] ELSE c.mem[k]
  /\ ~ mmu => d.r[SP] = c.r[SP] /\ d.mem = c.mem /\ d.tp = c.r[q]

LEMMA SpillPrepares ==
  ASSUME NEW c \in Cores, NEW q \in Regs, q # SP, NEW cond \in Conds, cond = "al" \/ c.z,
         NEW a \in Word, NEW ws, NEW t, NEW j \in Nat, Runs(ws, t, j), j >= 3, t[0] = c,
         ws[1] = Spill(cond, q), ws[2] = armWritePCToRegister(cond, q, a)[1],
         ws[3] = armWritePCToRegister(cond, q, a)[2]
  PROVE  Prepared(c, q, Plus(a, 2), t[3])
<1>0. 1 \in 1 .. j /\ 1 - 1 = 0 /\ 1 + 2 = 3 /\ 1 + 1 = 2 OBVIOUS
<1>1. t[1] = Execute(Spill(cond, q), c, HostPC) /\ t[1] \in Cores BY <1>0, RunsFirst
<1>s. SP \in Regs BY LowRegisters
<1>2. PICK d : d = t[1] /\ d \in Cores BY <1>1
<1>3. CASE mmu
  <2>1. d = Execute(Push(cond, q), c, HostPC) BY <1>1, <1>2, <1>3, StackWords
  <2>2. /\ d.z = c.z /\ d.r[SP] = Plus(c.r[SP], -1)
        /\ \A n \in Regs \ {SP} : d.r[n] = c.r[n]
        /\ \A k \in Data : d.mem[k] = IF k = Plus(c.r[SP], -1) THEN c.r[q] ELSE c.mem[k]
    BY <2>1, PushDone
  <2>3. t[3] = Holding(d, q, Plus(a, 2))
    <3>1. t[1 + 2] = Holding(t[1], q, Plus(a, 2))
      <4>1. 1 \in Nat /\ 1 + 2 <= j /\ (cond = "al" \/ t[1].z) BY <1>2, <2>2
      <4> QED BY <4>1, <1>0, RunsPC
    <3> QED BY <3>1, <1>0, <1>2
  <2>4. /\ t[3].z = d.z /\ t[3].mem = d.mem /\ t[3].r[q] = Plus(a, 2)
        /\ \A n \in Regs \ {q} : t[3].r[n] = d.r[n]
    BY <1>2, <2>3 DEF Holding, Cores
  <2> QED BY <1>3, <1>s, <2>2, <2>4 DEF Prepared
<1>4. CASE ~ mmu
  <2>1. Kind(Spill(cond, q), "mcr", cond, q) BY <1>4, StackWords
  <2>2. d = [c EXCEPT !.tp = Reg(c, q, HostPC)]
    <3>1. Passed(Spill(cond, q), c.z) BY <2>1 DEF Passed, Kind
    <3> QED BY <1>1, <1>2, <2>1, <3>1, Zenon DEF Execute, Kind
  <2>3. d.z = c.z /\ d.r = c.r /\ d.mem = c.mem /\ d.tp = c.r[q]
    <3>1. Reg(c, q, HostPC) = c.r[q] BY Numbers DEF Reg
    <3> QED BY <2>2, <3>1 DEF Cores
  <2>4. t[3] = Holding(d, q, Plus(a, 2))
    <3>1. t[1 + 2] = Holding(t[1], q, Plus(a, 2))
      <4>1. 1 \in Nat /\ 1 + 2 <= j /\ (cond = "al" \/ t[1].z) BY <1>2, <2>3
      <4> QED BY <4>1, <1>0, RunsPC
    <3> QED BY <3>1, <1>0, <1>2
  <2>5. /\ t[3].z = d.z /\ t[3].mem = d.mem /\ t[3].r[q] = Plus(a, 2) /\ t[3].tp = d.tp
        /\ \A n \in Regs \ {q} : t[3].r[n] = d.r[n]
    BY <1>2, <2>4 DEF Holding, Cores
  <2> QED BY <1>4, <1>s, <2>3, <2>5 DEF Prepared
<1> QED BY <1>3, <1>4

(* And it gets its value back.                                              *)
LEMMA RestoreDone ==
  ASSUME NEW c \in Cores, NEW d \in Cores, NEW q \in Regs, q # SP, NEW cond, cond = "al" \/ d.z,
         mmu => d.r[SP] = Plus(c.r[SP], -1) /\ d.mem[Plus(c.r[SP], -1)] = c.r[q],
         ~ mmu => d.tp = c.r[q]
  PROVE  LET e == Execute(Restore(cond, q), d, HostPC)
         IN /\ e.z = d.z /\ e.mem = d.mem /\ e.r[q] = c.r[q]
            /\ mmu => e.r[SP] = c.r[SP] /\ Touched(Restore(cond, q), d, HostPC) = {Plus(c.r[SP], -1)}
            /\ ~ mmu => e.r[SP] = d.r[SP]
            /\ \A n \in Regs \ {SP, q} : e.r[n] = d.r[n]
<1>s. SP \in Regs /\ c.r[SP] \in Word /\ q # PC BY LowRegisters, CoreFields, Numbers
<1>1. PICK e : e = Execute(Restore(cond, q), d, HostPC) OBVIOUS
<1>2. CASE mmu
  <2>1. Restore(cond, q) = Pop(cond, q) BY <1>2, StackWords
  <2>2. /\ Touched(Pop(cond, q), d, HostPC) = {d.r[SP]}
        /\ e.z = d.z /\ e.mem = d.mem /\ e.r[SP] = Plus(d.r[SP], 1) /\ e.r[q] = d.mem[d.r[SP]]
        /\ \A n \in Regs \ {SP, q} : e.r[n] = d.r[n]
    BY <1>1, <2>1, PopDone
  <2> QED BY <1>1, <1>2, <1>s, <2>1, <2>2, WordSums
<1>3. CASE ~ mmu
  <2>1. Kind(Restore(cond, q), "mrc", cond, q) BY <1>3, StackWords
  <2>2. e = Write(d, q, d.tp)
    <3>1. Passed(Restore(cond, q), d.z) BY <2>1 DEF Passed, Kind
    <3> QED BY <1>1, <2>1, <3>1, Zenon DEF Execute, Kind
  <2>3. e.z = d.z /\ e.mem = d.mem /\ e.r[q] = c.r[q] /\ \A n \in Regs \ {q} : e.r[n] = d.r[n]
    BY <1>3, <1>s, <2>2 DEF Write, Cores
  <2> QED BY <1>1, <1>3, <1>s, <2>3
<1> QED BY <1>2, <1>3

(* The word that stands for the instruction has been executed while the     *)
(* register q was spilled.                                                  *)
Finished(i, c, p, q, e) ==
  LET x == Execute(i, c, p)
      u == Plus(c.r[SP], -1)
  IN /\ e.z = c.z /\ x.z = c.z /\ x.r[q] = c.r[q]
     /\ \A n \in Regs \ {q, SP} : e.r[n] = x.r[n]
     /\ mmu => /\ e.r[SP] = u /\ x.r[SP] = c.r[SP] /\ e.mem[u] = c.r[q]
               /\ \A k \in Data \ {u} : e.mem[k] = x.mem[k]
     /\ ~ mmu => e.r[SP] = x.r[SP] /\ e.mem = x.mem /\ e.tp = c.r[q]

LEMMA SpilledSimulated ==
  ASSUME NEW i, Copyable(i), i.op \in {"str", "ldrr"}, NEW c \in Cores, Passed(i, c.z),
         NEW a \in Word, NEW p, p = Plus(a, 2), NEW q \in Regs, q # SP,
         NEW last, last.op = i.op, last.cond = i.cond,
         \A d \in Cores : Prepared(c, q, p, d) =>
           /\ Touched(last, d, HostPC) = Touched(i, c, p)
           /\ Finished(i, c, p, q, Execute(last, d, HostPC)),
         Touched(i, c, p) \subseteq Data, ~ Faults(i, c, p), Execute(i, c, p) \in Cores,
         mmu => Plus(c.r[SP], -1) \in Data \ (Lazy \cup {TableWord} \cup Touched(i, c, p)),
         NEW ws, Are5(ws, Spill(i.cond, q), armWritePCToRegister(i.cond, q, a)[1],
                      armWritePCToRegister(i.cond, q, a)[2], last, Restore(i.cond, q)),
         NEW j \in 0 .. Len(ws), NEW t, Runs(ws, t, j), t[0] = c
  PROVE  Simulated(i, c, p, ws, t, j)
<1> DEFINE u == Plus(c.r[SP], -1)
           w2 == armWritePCToRegister(i.cond, q, a)[1]
           w3 == armWritePCToRegister(i.cond, q, a)[2]
<1>1. /\ Len(ws) = 5 /\ ws[1] = Spill(i.cond, q) /\ ws[2] = w2 /\ ws[3] = w3 /\ ws[4] = last
      /\ ws[5] = Restore(i.cond, q)
  BY DEF Are5
<1>2. w2.op = "movw" /\ w3.op = "movt" BY PCWords DEF Kind
<1>c. i.cond \in Conds /\ (i.cond = "al" \/ c.z) BY InstrFields DEF Copyable, Passed
<1>r. \A k \in 1 .. j : /\ t[k - 1] \in Cores /\ t[k] \in Cores
                        /\ Reaches(ws[k], t[k - 1], HostPC, Where(ws[k]))
                        /\ t[k] = Execute(ws[k], t[k - 1], HostPC)
  <2>1. j \in Nat BY <1>1
  <2> QED BY <2>1, RunsFirst
<1>n. ~ Acks(i, c, p) /\ (\A d \in Cores : Touched(last, d, HostPC) = Touched(i, c, p) =>
                             ~ Acks(last, d, HostPC))
  <2>1. Ack \notin Data BY CoreAssumption
  <2>2. i.op = "str" => Touched(i, c, p) = {Address(i, c, p)} BY DEF Touched
  <2>3. \A d : last.op = "str" => Touched(last, d, HostPC) = {Address(last, d, HostPC)}
    BY DEF Touched
  <2> QED BY <2>1, <2>2, <2>3 DEF Acks
<1>s. mmu => \A d \in Cores : Touched(ws[1], d, HostPC) = {Plus(d.r[SP], -1)} \/ ~ Passed(ws[1], d.z)
  BY <1>1, <1>c, PushDone, StackWords DEF Passed
<1> HIDE DEF w2, w3
<1>p. j >= 3 => t[3] \in Cores /\ Prepared(c, q, p, t[3])
  <2> SUFFICES ASSUME j >= 3 PROVE t[3] \in Cores /\ Prepared(c, q, p, t[3]) OBVIOUS
  <2>1. 3 \in 1 .. j /\ j \in Nat BY <1>1
  <2>2. t[3] \in Cores BY <2>1, <1>r
  <2>3. Prepared(c, q, Plus(a, 2), t[3]) BY <1>1, <1>c, <2>1, SpillPrepares DEF w2, w3
  <2> QED BY <2>2, <2>3
<1>l. j >= 4 => t[4] \in Cores /\ Finished(i, c, p, q, t[4])
  <2> SUFFICES ASSUME j >= 4 PROVE t[4] \in Cores /\ Finished(i, c, p, q, t[4]) OBVIOUS
  <2>1. 4 \in 1 .. j /\ 4 - 1 = 3 /\ j >= 3 BY <1>1
  <2>2. t[4] \in Cores /\ t[4] = Execute(last, t[3], HostPC) BY <1>1, <2>1, <1>r
  <2> QED BY <1>p, <2>1, <2>2
<1>4. CASE j = 0
  <2>1. ~ Faults(ws[1], c, HostPC) /\ ~ Acks(ws[1], c, HostPC)
    <3>1. CASE mmu
      <4>1. ws[1].op = "stm" BY <1>1, <3>1, StackWords
      <4>2. Touched(ws[1], c, HostPC) = {u} \/ ~ Passed(ws[1], c.z) BY <1>s, <3>1
      <4> QED BY <3>1, <4>1, <4>2 DEF Faults, Acks
    <3>2. CASE ~ mmu
      <4>1. ws[1].op = "mcr" BY <1>1, <3>2, StackWords DEF Kind
      <4> QED BY <4>1, QuietWord
    <3> QED BY <3>1, <3>2
  <2> QED BY <1>1, <1>4, <2>1 DEF Simulated
<1>5. CASE j \in {1, 2}
  <2>1. ws[j + 1].op \in {"movw", "movt"} BY <1>1, <1>2, <1>5
  <2>2. ~ Faults(ws[j + 1], t[j], HostPC) /\ ~ Acks(ws[j + 1], t[j], HostPC)
    BY <2>1, QuietWord
  <2>3. j # Len(ws) BY <1>1, <1>5
  <2> QED BY <2>2, <2>3 DEF Simulated
<1>6. CASE j = 3
  <2>1. t[3] \in Cores /\ Prepared(c, q, p, t[3]) BY <1>p, <1>6
  <2>2. Touched(last, t[3], HostPC) = Touched(i, c, p) BY <2>1
  <2>3. t[3].z = c.z /\ t[3].mem[TableWord] = c.mem[TableWord]
    <3>1. TableWord \in Data BY CoreAssumption
    <3> QED BY <2>1, <3>1 DEF Prepared
  <2>4. ~ Faults(last, t[3], HostPC) BY <2>2, <2>3 DEF Faults, Passed
  <2>5. ~ Acks(last, t[3], HostPC) BY <1>n, <2>1, <2>2
  <2> QED BY <1>1, <1>6, <2>4, <2>5 DEF Simulated
<1>7. CASE j = 4
  <2>1. t[4] \in Cores /\ Finished(i, c, p, q, t[4]) BY <1>l, <1>7
  <2>2. ~ Faults(ws[5], t[4], HostPC)
    <3>1. CASE mmu
      <4>1. t[4].r[SP] = u BY <2>1, <3>1 DEF Finished
      <4>2. t[4].z = c.z BY <2>1 DEF Finished
      <4>3. Touched(Pop(i.cond, q), t[4], HostPC) = {t[4].r[SP]} BY <2>1, <4>2, <1>c, PopDone
      <4>4. ws[5] = Pop(i.cond, q) BY <1>1, <3>1, StackWords
      <4> QED BY <3>1, <4>1, <4>3, <4>4 DEF Faults
    <3>2. CASE ~ mmu
      <4>1. ws[5].op = "mrc" BY <1>1, <3>2, StackWords DEF Kind
      <4> QED BY <4>1, QuietWord
    <3> QED BY <3>1, <3>2
  <2> QED BY <1>1, <1>7, <2>2 DEF Simulated
<1>8. CASE j = 5
  <2>1. t[4] \in Cores /\ Finished(i, c, p, q, t[4]) BY <1>l, <1>8
  <2>2. t[5] = Execute(Restore(i.cond, q), t[4], HostPC) /\ t[5] \in Cores
    <3>1. 5 \in 1 .. j /\ 5 - 1 = 4 BY <1>8
    <3> QED BY <1>1, <1>r, <3>1
  <2>3. PICK d : d = t[4] /\ d \in Cores /\ Finished(i, c, p, q, d) BY <2>1
  <2>4. PICK e : e = t[5] /\ e \in Cores /\ e = Execute(Restore(i.cond, q), d, HostPC) BY <2>2, <2>3
  <2>5. PICK x : x = Execute(i, c, p) /\ x \in Cores OBVIOUS
  <2>6. /\ d.z = c.z /\ x.z = c.z /\ x.r[q] = c.r[q]
        /\ \A n \in Regs \ {q, SP} : d.r[n] = x.r[n]
        /\ mmu => /\ d.r[SP] = u /\ x.r[SP] = c.r[SP] /\ d.mem[u] = c.r[q]
                  /\ \A k \in Data \ {u} : d.mem[k] = x.mem[k]
        /\ ~ mmu => d.r[SP] = x.r[SP] /\ d.mem = x.mem /\ d.tp = c.r[q]
    BY <2>3, <2>5 DEF Finished
  <2>7. /\ e.z = d.z /\ e.mem = d.mem /\ e.r[q] = c.r[q]
        /\ mmu => e.r[SP] = c.r[SP]
        /\ ~ mmu => e.r[SP] = d.r[SP]
        /\ \A n \in Regs \ {SP, q} : e.r[n] = d.r[n]
    <3>1. i.cond = "al" \/ d.z BY <1>c, <2>6
    <3>2. mmu => d.r[SP] = Plus(c.r[SP], -1) /\ d.mem[Plus(c.r[SP], -1)] = c.r[q] BY <2>6
    <3>3. ~ mmu => d.tp = c.r[q] BY <2>6
    <3> QED BY <2>3, <2>4, <3>1, <3>2, <3>3, RestoreDone
  <2>8. e.r = x.r
    <3>1. \A n \in Regs : e.r[n] = x.r[n] BY <2>6, <2>7
    <3>2. e.r \in [Regs -> Word] /\ x.r \in [Regs -> Word] BY <2>4, <2>5, CoreFields
    <3> QED BY <3>1, <3>2
  <2>9. \A k \in Data \ {Under(i, c, p)} : e.mem[k] = x.mem[k]
    <3>1. Under(i, c, p) = Plus(x.r[SP], -1) BY <2>5 DEF Under
    <3> QED BY <3>1, <2>6, <2>7
  <2>10. Reaches(i, c, p, Allowed(i)) BY DEF Reaches, Allowed
  <2>11. Done(i, c, p, t[5]) BY <2>4, <2>5, <2>6, <2>7, <2>8, <2>9, <2>10 DEF Done
  <2>12. ~ Acks(ws[5], t[5 - 1], HostPC)
    <3>1. ws[5].op # "str" BY <1>1, StackWords
    <3> QED BY <3>1 DEF Acks
  <2> QED BY <1>1, <1>8, <1>n, <2>11, <2>12 DEF Simulated
<1>9. j \in {0, 1, 2, 3, 4, 5} BY <1>1
<1> QED BY <1>4, <1>5, <1>6, <1>7, <1>8, <1>9

LEMMA ScratchRegister ==
  ASSUME NEW a, NEW b
  PROVE  getOtherRegisterOf2(a, b) \in Regs /\ getOtherRegisterOf2(a, b) \notin {a, b, SP, PC}
BY OtherRegister DEF SP, PC

(* A load indexed by the register it loads.                                 *)
LEMMA IndexedFits ==
  ASSUME NEW i, Copyable(i), i.op = "ldrr", i.n = PC, i.d = i.m, mmu => i.d # SP,
         NEW c \in Cores, Passed(i, c.z), NEW p,
         NEW q \in Regs, q # SP, q # i.d, Touched(i, c, p) \subseteq Data,
         mmu => Plus(c.r[SP], -1) \in Data \ Touched(i, c, p),
         NEW last, last = [i EXCEPT !.n = q], NEW d \in Cores, Prepared(c, q, p, d)
  PROVE  /\ Touched(last, d, HostPC) = Touched(i, c, p)
         /\ Finished(i, c, p, q, Execute(last, d, HostPC))
<1> DEFINE u == Plus(c.r[SP], -1)
           k == i.d
<1>1. i \in Instr /\ k \in Regs /\ k # PC BY InstrFields, Numbers DEF Copyable, Replaced
<1>2. /\ last.op = "ldrr" /\ last.cond = i.cond /\ last.d = k /\ last.m = k /\ last.n = q
      /\ last.imm = i.imm
  BY <1>1 DEF Instr
<1>3. d.r[q] = p /\ d.r[k] = c.r[k] /\ q # PC
  BY <1>1, Numbers DEF Prepared
<1>4. PICK v : v = Address(i, c, p) OBVIOUS
<1>5. Address(last, d, HostPC) = v
  <2>1. Reg(d, q, HostPC) = p /\ Reg(d, k, HostPC) = c.r[k] BY <1>1, <1>3 DEF Reg
  <2>2. Reg(c, i.n, p) = p /\ Reg(c, i.m, p) = c.r[k] BY <1>1 DEF Reg
  <2> QED BY <1>2, <1>4, <2>1, <2>2 DEF Address
<1>6. Touched(last, d, HostPC) = {v} /\ Touched(i, c, p) = {v} BY <1>2, <1>4, <1>5 DEF Touched
<1>7. v \in Data BY <1>6
<1>8. d.mem[v] = c.mem[v] BY <1>6, <1>7 DEF Prepared
<1>9. Passed(last, d.z) /\ d.z = c.z BY <1>2 DEF Passed, Prepared
<1> HIDE DEF k
<1>10. PICK e : e = Execute(last, d, HostPC) OBVIOUS
<1>11. PICK x : x = Execute(i, c, p) OBVIOUS
<1>12. e = Write(d, k, c.mem[v]) BY <1>2, <1>5, <1>8, <1>9, <1>10, Zenon DEF Execute
<1>13. x = Write(c, k, c.mem[v]) BY <1>4, <1>11, Zenon DEF Execute, k
<1>14. /\ e.z = d.z /\ e.mem = d.mem /\ e.tp = d.tp /\ e.r[k] = c.mem[v]
       /\ \A n \in Regs \ {k} : e.r[n] = d.r[n]
  BY <1>1, <1>12 DEF Write, Cores
<1>15. /\ x.z = c.z /\ x.mem = c.mem /\ x.r[k] = c.mem[v]
       /\ \A n \in Regs \ {k} : x.r[n] = c.r[n]
  BY <1>1, <1>13 DEF Write, Cores
<1>s. SP \in Regs BY LowRegisters
<1>16. /\ d.z = c.z /\ \A n \in Regs \ {q, SP} : d.r[n] = c.r[n]
       /\ mmu => /\ d.r[SP] = u
                 /\ \A m \in Data : d.mem[m] = IF m = u THEN c.r[q] ELSE c.mem[m]
       /\ ~ mmu => d.r[SP] = c.r[SP] /\ d.mem = c.mem /\ d.tp = c.r[q]
  BY DEF Prepared
<1>17. q # k /\ (mmu => k # SP /\ u \in Data) BY DEF k
<1>18. \A n \in Regs \ {q, SP} : e.r[n] = x.r[n] BY <1>14, <1>15, <1>16
<1>19. mmu => /\ e.r[SP] = u /\ x.r[SP] = c.r[SP] /\ e.mem[u] = c.r[q]
              /\ \A m \in Data \ {u} : e.mem[m] = x.mem[m]
  BY <1>14, <1>15, <1>16, <1>17, <1>s
<1>20. ~ mmu => e.r[SP] = x.r[SP] /\ e.mem = x.mem /\ e.tp = c.r[q]
  BY <1>14, <1>15, <1>16, <1>s
<1>21. e.z = c.z /\ x.z = c.z /\ x.r[q] = c.r[q] BY <1>14, <1>15, <1>16, <1>17
<1> QED BY <1>6, <1>10, <1>11, <1>18, <1>19, <1>20, <1>21 DEF Finished

(* The store that replaces it.                                              *)
StoreWord(i, q) == [i EXCEPT !.d = IF i.d = PC THEN q ELSE i.d, !.n = IF i.n = PC THEN q ELSE i.n]

(* A store of the PC, or to an address that counts from it.                 *)
LEMMA StoreFits ==
  ASSUME NEW i, Copyable(i), i.op = "str", mmu => SP \notin {i.d, i.n},
         NEW c \in Cores, Passed(i, c.z), NEW p,
         NEW q \in Regs, q # SP, q \notin {i.d, i.n}, Touched(i, c, p) \subseteq Data,
         mmu => Plus(c.r[SP], -1) \in Data \ Touched(i, c, p),
         NEW last, last = StoreWord(i, q), NEW d \in Cores, Prepared(c, q, p, d)
  PROVE  /\ Touched(last, d, HostPC) = Touched(i, c, p)
         /\ Finished(i, c, p, q, Execute(last, d, HostPC))
<1> DEFINE u == Plus(c.r[SP], -1)
<1>1. i \in Instr /\ i.d \in Regs \cup {PC} /\ i.n \in Regs \cup {PC} BY InstrFields DEF Copyable
<1>2. /\ last.op = "str" /\ last.cond = i.cond /\ last.imm = i.imm
      /\ last.d = (IF i.d = PC THEN q ELSE i.d) /\ last.n = (IF i.n = PC THEN q ELSE i.n)
  BY <1>1 DEF Instr, StoreWord
<1>3. q # PC /\ \A n \in {i.d, i.n} \ {PC} : n \in Regs /\ d.r[n] = c.r[n]
  <2>1. q # PC BY Numbers
  <2>2. \A n \in {i.d, i.n} \ {PC} : n \in Regs BY <1>1
  <2>3. \A n \in {i.d, i.n} \ {PC} : n # SP => d.r[n] = c.r[n] BY <2>2 DEF Prepared
  <2>4. SP \in {i.d, i.n} => d.r[SP] = c.r[SP] BY DEF Prepared
  <2> QED BY <2>1, <2>2, <2>3, <2>4
<1>4. Reg(d, last.d, HostPC) = Reg(c, i.d, p) /\ Reg(d, last.n, HostPC) = Reg(c, i.n, p)
  <2>1. d.r[q] = p BY DEF Prepared
  <2> QED BY <1>1, <1>2, <1>3, <2>1 DEF Reg
<1>5. PICK v : v = Address(i, c, p) OBVIOUS
<1>6. Address(last, d, HostPC) = v BY <1>2, <1>4, <1>5 DEF Address
<1>7. Touched(last, d, HostPC) = {v} /\ Touched(i, c, p) = {v} BY <1>2, <1>5, <1>6 DEF Touched
<1>8. v \in Data BY <1>7
<1>9. Passed(last, d.z) /\ d.z = c.z BY <1>2 DEF Passed, Prepared
<1>10. PICK e : e = Execute(last, d, HostPC) OBVIOUS
<1>11. PICK x : x = Execute(i, c, p) OBVIOUS
<1>12. e = [d EXCEPT !.mem = Stored(last, d, HostPC)] BY <1>2, <1>9, <1>10, Zenon DEF Execute
<1>13. x = [c EXCEPT !.mem = Stored(i, c, p)] BY <1>11, Zenon DEF Execute
<1>14. PICK w : w = Reg(c, i.d, p) OBVIOUS
<1>15. Stored(last, d, HostPC) = [m \in Data |-> IF m = v THEN w ELSE d.mem[m]]
  BY <1>2, <1>4, <1>6, <1>14 DEF Stored
<1>16. Stored(i, c, p) = [m \in Data |-> IF m = v THEN w ELSE c.mem[m]]
  BY <1>5, <1>14 DEF Stored
<1>17. PICK em : em = [m \in Data |-> IF m = v THEN w ELSE d.mem[m]] OBVIOUS
<1>18. PICK xm : xm = [m \in Data |-> IF m = v THEN w ELSE c.mem[m]] OBVIOUS
<1>19. e.z = d.z /\ e.r = d.r /\ e.tp = d.tp /\ e.mem = em BY <1>12, <1>15, <1>17 DEF Cores
<1>20. x.z = c.z /\ x.r = c.r /\ x.mem = xm BY <1>13, <1>16, <1>18 DEF Cores
<1>21. /\ d.z = c.z /\ \A n \in Regs \ {q, SP} : d.r[n] = c.r[n]
       /\ mmu => /\ d.r[SP] = u
                 /\ \A m \in Data : d.mem[m] = IF m = u THEN c.r[q] ELSE c.mem[m]
       /\ ~ mmu => d.r[SP] = c.r[SP] /\ d.mem = c.mem /\ d.tp = c.r[q]
  BY DEF Prepared
<1>22. \A n \in Regs \ {q, SP} : e.r[n] = x.r[n] BY <1>19, <1>20, <1>21
<1>23. mmu => /\ e.r[SP] = u /\ x.r[SP] = c.r[SP] /\ e.mem[u] = c.r[q]
              /\ \A m \in Data \ {u} : e.mem[m] = x.mem[m]
  <2> SUFFICES ASSUME mmu
               PROVE  /\ e.r[SP] = u /\ x.r[SP] = c.r[SP] /\ e.mem[u] = c.r[q]
                      /\ \A m \in Data \ {u} : e.mem[m] = x.mem[m]
    OBVIOUS
  <2>1. u \in Data /\ u # v BY <1>7
  <2>2. em[u] = c.r[q] BY <1>17, <1>21, <2>1
  <2>3. \A m \in Data \ {u} : em[m] = xm[m] BY <1>17, <1>18, <1>21
  <2> QED BY <1>19, <1>20, <1>21, <2>2, <2>3
<1>24. ~ mmu => e.r[SP] = x.r[SP] /\ e.mem = x.mem /\ e.tp = c.r[q]
  BY <1>17, <1>18, <1>19, <1>20, <1>21
<1>25. e.z = c.z /\ x.z = c.z /\ x.r[q] = c.r[q] BY <1>19, <1>20, <1>21
<1> QED BY <1>7, <1>10, <1>11, <1>22, <1>23, <1>24, <1>25 DEF Finished

LEMMA IndexedSimulated ==
  ASSUME NEW i, Copyable(i), i.op = "ldrr", i.n = PC, Formed(i), NEW c \in Cores,
         Passed(i, c.z), NEW a \in Word, NEW p, p = Plus(a, 2), Roomy(i, c, p),
         NEW ws, ws = Translated(i, a), NEW j \in 0 .. Len(ws), NEW t, Runs(ws, t, j), t[0] = c
  PROVE  Simulated(i, c, p, ws, t, j)
<1>1. Spills(i) /\ i.d = i.m /\ (mmu => i.d # SP) BY DEF Copyable, Formed, Spills
<1>2. PICK q : q = getOtherRegisterOf2(i.d, i.m) OBVIOUS
<1>3. q \in Regs /\ q # SP /\ q # i.d BY <1>2, ScratchRegister
<1>4. PICK last : last = [i EXCEPT !.n = q] OBVIOUS
<1>5. Are5(ws, Spill(i.cond, q), armWritePCToRegister(i.cond, q, a)[1],
           armWritePCToRegister(i.cond, q, a)[2], last, Restore(i.cond, q))
  BY <1>1, <1>2, <1>4, TranslatedIndexed
<1>6. Touched(i, c, p) \subseteq Data /\ ~ Faults(i, c, p) BY <1>1 DEF Roomy
<1>7. i \in Runnable /\ p \in Word
  <2>1. a \in Int BY WordArithmetic
  <2>2. p \in Word BY <2>1, Numbers
  <2>3. i \in Runnable BY InstrRuns DEF Copyable
  <2> QED BY <2>2, <2>3
<1>8. Execute(i, c, p) \in Cores
  <2>1. Reaches(i, c, p, Data) BY <1>6 DEF Reaches
  <2> QED BY <1>7, <2>1, ExecuteCore
<1>9. mmu => Plus(c.r[SP], -1) \in Data \ (Lazy \cup {TableWord} \cup Touched(i, c, p))
  <2> SUFFICES ASSUME mmu
               PROVE  Plus(c.r[SP], -1) \in Data \ (Lazy \cup {TableWord} \cup Touched(i, c, p))
    OBVIOUS
  <2>1. PICK v : v = c.mem[Address(i, c, p)] OBVIOUS
  <2>2. Execute(i, c, p) = Write(c, i.d, v) BY <2>1, Zenon DEF Execute
  <2>3. i.d # PC BY DEF Copyable, Replaced
  <2>4. Write(c, i.d, v).r[SP] = c.r[SP]
    <3>1. Write(c, i.d, v) = [c EXCEPT !.r[i.d] = v] BY <2>3 DEF Write
    <3> QED BY <3>1, <1>1, LowRegisters DEF Cores
  <2>5. Under(i, c, p) = Plus(c.r[SP], -1) BY <2>2, <2>4 DEF Under
  <2> QED BY <1>1, <2>5 DEF Roomy
<1>10. last.op = i.op /\ last.cond = i.cond BY <1>4 DEF Copyable, Instr
<1>11. \A d \in Cores : Prepared(c, q, p, d) =>
         /\ Touched(last, d, HostPC) = Touched(i, c, p)
         /\ Finished(i, c, p, q, Execute(last, d, HostPC))
  <2> SUFFICES ASSUME NEW d \in Cores, Prepared(c, q, p, d)
               PROVE  /\ Touched(last, d, HostPC) = Touched(i, c, p)
                      /\ Finished(i, c, p, q, Execute(last, d, HostPC))
    OBVIOUS
  <2> QED BY <1>1, <1>3, <1>4, <1>6, <1>9, IndexedFits
<1> QED BY <1>3, <1>5, <1>6, <1>8, <1>9, <1>10, <1>11, SpilledSimulated

LEMMA StoreSimulated ==
  ASSUME NEW i, Copyable(i), i.op = "str", PC \in {i.d, i.n}, Formed(i), NEW c \in Cores,
         Passed(i, c.z), NEW a \in Word, NEW p, p = Plus(a, 2), Roomy(i, c, p),
         NEW ws, ws = Translated(i, a), NEW j \in 0 .. Len(ws), NEW t, Runs(ws, t, j), t[0] = c
  PROVE  Simulated(i, c, p, ws, t, j)
<1>1. Spills(i) /\ (mmu => SP \notin {i.d, i.n}) BY DEF Copyable, Formed, Spills
<1>2. PICK q : q = getOtherRegisterOf2(i.d, i.n) OBVIOUS
<1>3. q \in Regs /\ q # SP /\ q \notin {i.d, i.n} BY <1>2, ScratchRegister
<1>4. PICK last : last = StoreWord(i, q) OBVIOUS
<1>5. Are5(ws, Spill(i.cond, q), armWritePCToRegister(i.cond, q, a)[1],
           armWritePCToRegister(i.cond, q, a)[2], last, Restore(i.cond, q))
  BY <1>1, <1>2, <1>4, TranslatedStore DEF StoreWord
<1>6. Touched(i, c, p) \subseteq Data /\ ~ Faults(i, c, p) BY <1>1 DEF Roomy
<1>7. i \in Runnable /\ p \in Word
  <2>1. a \in Int BY WordArithmetic
  <2>2. p \in Word BY <2>1, Numbers
  <2>3. i \in Runnable BY InstrRuns DEF Copyable
  <2> QED BY <2>2, <2>3
<1>8. Execute(i, c, p) \in Cores
  <2>1. Reaches(i, c, p, Data) BY <1>6 DEF Reaches
  <2> QED BY <1>7, <2>1, ExecuteCore
<1>9. mmu => Plus(c.r[SP], -1) \in Data \ (Lazy \cup {TableWord} \cup Touched(i, c, p))
  <2> SUFFICES ASSUME mmu
               PROVE  Plus(c.r[SP], -1) \in Data \ (Lazy \cup {TableWord} \cup Touched(i, c, p))
    OBVIOUS
  <2>1. PICK v : v = Stored(i, c, p) OBVIOUS
  <2>2. Execute(i, c, p) = [c EXCEPT !.mem = v] BY <2>1, Zenon DEF Execute
  <2>4. Execute(i, c, p).r[SP] = c.r[SP] BY <2>2 DEF Cores
  <2>5. Under(i, c, p) = Plus(c.r[SP], -1) BY <2>4 DEF Under
  <2> QED BY <1>1, <2>5 DEF Roomy
<1>10. last.op = i.op /\ last.cond = i.cond BY <1>4 DEF Copyable, Instr, StoreWord
<1>11. \A d \in Cores : Prepared(c, q, p, d) =>
         /\ Touched(last, d, HostPC) = Touched(i, c, p)
         /\ Finished(i, c, p, q, Execute(last, d, HostPC))
  <2>1. mmu => Plus(c.r[SP], -1) \in Data \ Touched(i, c, p) BY <1>9
  <2> SUFFICES ASSUME NEW d \in Cores, Prepared(c, q, p, d)
               PROVE  /\ Touched(last, d, HostPC) = Touched(i, c, p)
                      /\ Finished(i, c, p, q, Execute(last, d, HostPC))
    OBVIOUS
  <2> QED BY <1>1, <1>3, <1>4, <1>6, <2>1, StoreFits
<1> QED BY <1>3, <1>5, <1>6, <1>8, <1>9, <1>10, <1>11, SpilledSimulated

(* A store of several registers, the PC among them, fills the place of the  *)
(* PC with a store of its own.                                              *)
LEMMA ListCounts ==
  ASSUME NEW list \in SUBSET (Regs \cup {PC}), PC \in list
  PROVE  /\ Cardinality({k \in list : k >= PC}) = 1
         /\ \A m \in list \ {PC} : Cardinality({k \in list : k >= m}) \in 2 .. 16
         /\ Cardinality(list) \in 1 .. 16
<1>0. PC \in Int /\ \A m \in list : m \in Int /\ m \in Nat /\ m <= PC /\ m <= 15
  BY CoreAssumption DEF Regs, Banked, SP, LR, PC
<1>a. list \in SUBSET (0 .. 15) BY <1>0
<1>2. IsFiniteSet(0 .. 15) /\ Cardinality(0 .. 15) = 16
  <2> DEFINE a == 0
             b == 15
  <2>1. a \in Int /\ b \in Int /\ a <= b /\ b - a + 1 = 16 OBVIOUS
  <2> HIDE DEF a, b
  <2>2. IsFiniteSet(a .. b) /\ Cardinality(a .. b) = 16 BY <2>1, FS_Interval
  <2> QED BY <2>2 DEF a, b
<1>b. PICK U : U = 0 .. 15 /\ IsFiniteSet(U) /\ Cardinality(U) = 16 BY <1>2
<1>c. list \in SUBSET U BY <1>a, <1>b
<1>3. \A s \in SUBSET U : IsFiniteSet(s) /\ Cardinality(s) \in Nat /\ Cardinality(s) <= 16
  <2> SUFFICES ASSUME NEW s \in SUBSET U
               PROVE  IsFiniteSet(s) /\ Cardinality(s) \in Nat /\ Cardinality(s) <= 16
    OBVIOUS
  <2>1. IsFiniteSet(s) /\ Cardinality(s) <= Cardinality(U) BY <1>b, FS_Subset
  <2> QED BY <1>b, <2>1, FS_CardinalityType
<1>4. {k \in list : k >= PC} = {PC}
  <2>1. \A k \in list : k >= PC => k = PC BY <1>0
  <2>2. PC >= PC BY <1>0
  <2> QED BY <2>1, <2>2
<1>5. ASSUME NEW m \in list \ {PC} PROVE Cardinality({k \in list : k >= m}) \in 2 .. 16
  <2>1. PICK s : s = {k \in list : k >= m} OBVIOUS
  <2>a. m >= m /\ PC >= m BY <1>0
  <2>2. s \in SUBSET U /\ m \in s /\ PC \in s BY <1>c, <2>1, <2>a
  <2>3. {PC} \in SUBSET s /\ {PC} # s BY <2>2
  <2>4. IsFiniteSet(s) /\ Cardinality(s) \in Nat /\ Cardinality(s) <= 16 BY <1>3, <2>2
  <2>5. Cardinality({PC}) = 1 BY FS_Singleton
  <2>6. Cardinality({PC}) <= Cardinality(s) /\ Cardinality({PC}) # Cardinality(s)
    BY <2>3, <2>4, FS_Subset
  <2> QED BY <2>1, <2>4, <2>5, <2>6
<1>6. Cardinality(list) \in 1 .. 16
  <2>1. IsFiniteSet(list) /\ Cardinality(list) \in Nat /\ Cardinality(list) <= 16 BY <1>c, <1>3
  <2>2. {PC} \in SUBSET list /\ Cardinality({PC}) = 1 BY FS_Singleton
  <2>3. Cardinality({PC}) <= Cardinality(list) BY <2>1, <2>2, FS_Subset
  <2> QED BY <2>1, <2>2, <2>3
<1>7. Cardinality({k \in list : k >= PC}) = 1 BY <1>4, FS_Singleton
<1> QED BY <1>5, <1>6, <1>7

(* Sums of words.                                                           *)
LEMMA PlusPlus ==
  ASSUME NEW v \in Int, NEW x \in Int, NEW y \in Int
  PROVE  Plus(Plus(v, x), y) = Plus(v, x + y)
<1>1. PICK m : m = Modulus /\ m \in Nat /\ m > 0 BY Numbers
<1>2. \A w \in Int : ((w % m) + y) % m = (w + y) % m
  <2> SUFFICES ASSUME NEW w \in Int PROVE ((w % m) + y) % m = (w + y) % m OBVIOUS
  <2>1. PICK q \in Int, r \in 0 .. m - 1 : w = m * q + r /\ w % m = r
    <3>1. w = m * (w \div m) + (w % m) /\ w % m \in 0 .. m - 1 /\ w \div m \in Int BY <1>1
    <3> QED BY <3>1
  <2>2. PICK q2 \in Int, r2 \in 0 .. m - 1 : r + y = m * q2 + r2 /\ (r + y) % m = r2
    <3>1. r + y \in Int OBVIOUS
    <3>2. PICK z \in Int : z = r + y BY <3>1
    <3>3. z = m * (z \div m) + (z % m) /\ z % m \in 0 .. m - 1 /\ z \div m \in Int BY <1>1
    <3> QED BY <3>2, <3>3
  <2>3. w + y = m * (q + q2) + r2 BY <1>1, <2>1, <2>2
  <2>4. (w + y) % m = r2
    <3>1. PICK z \in Int, k \in Int : z = w + y /\ k = q + q2 OBVIOUS
    <3>2. z = m * k + r2 BY <2>3, <3>1
    <3>3. z % m = r2 BY <1>1, <3>2
    <3> QED BY <3>1, <3>3
  <2> QED BY <2>1, <2>2, <2>4
<1>3. v + x \in Int /\ (v + x) + y = v + (x + y) OBVIOUS
<1>4. PICK w \in Int : w = v + x OBVIOUS
<1>5. ((w % m) + y) % m = (w + y) % m BY <1>2
<1> QED BY <1>1, <1>3, <1>4, <1>5 DEF Plus

LEMMA PlacesDiffer ==
  ASSUME NEW v \in Word, NEW n \in 2 .. 16
  PROVE  Plus(v, - n) # Plus(v, - 1)
<1>1. PICK m : m = Modulus /\ m \in Nat /\ m > 15
  <2>1. Half \in Nat /\ Half > 3 BY CoreAssumption
  <2>2. PICK h \in Nat : h = Half /\ h >= 4 BY <2>1
  <2>3. h * h >= 16
    <3>1. h * h >= 4 * h BY <2>2
    <3> QED BY <2>2, <3>1
  <2> QED BY <2>2, <2>3, Numbers DEF Modulus
<1>2. v \in Int BY WordArithmetic
<1>3. ASSUME (v + (- n)) % m = (v + (- 1)) % m PROVE FALSE
  <2>1. PICK x \in Int, y \in Int : x = v + (- n) /\ y = v + (- 1) BY <1>2
  <2>2. x % m = y % m BY <1>3, <2>1
  <2>3. x = m * (x \div m) + (x % m) /\ y = m * (y \div m) + (y % m)
        /\ x \div m \in Int /\ y \div m \in Int /\ x % m \in Int
    BY <1>1
  <2>4. PICK q \in Int : q = (y \div m) - (x \div m) BY <2>3
  <2>5. y - x = m * q BY <1>1, <2>2, <2>3, <2>4
  <2>6. y - x \in 1 .. 15 BY <1>2, <2>1
  <2>7. CASE q <= 0
    <3>1. m * q <= 0 BY <1>1, <2>7
    <3> QED BY <2>5, <2>6, <3>1
  <2>8. CASE q >= 1
    <3>1. m * q >= m BY <1>1, <2>8
    <3> QED BY <1>1, <2>5, <2>6, <3>1
  <2> QED BY <2>7, <2>8
<1> QED BY <1>1, <1>3 DEF Plus

LEMMA StmPlaces ==
  ASSUME NEW i, i.op = "stm", NEW b \in Word, i.list \in SUBSET (Regs \cup {PC}), PC \in i.list
  PROVE  /\ Place(i, b, PC) = Plus(b, -1)
         /\ \A m \in i.list \ {PC} : Place(i, b, m) # Plus(b, -1)
<1>1. PICK list : list = i.list OBVIOUS
<1>2. /\ Cardinality({k \in list : k >= PC}) = 1
      /\ \A m \in list \ {PC} : Cardinality({k \in list : k >= m}) \in 2 .. 16
  BY <1>1, ListCounts
<1>3. \A m : Place(i, b, m) = Plus(b, - Cardinality({k \in list : k >= m})) BY <1>1 DEF Place
<1>4. Place(i, b, PC) = Plus(b, -1) BY <1>2, <1>3
<1>5. ASSUME NEW m \in list \ {PC} PROVE Place(i, b, m) # Plus(b, -1)
  <2>1. PICK n : n = Cardinality({k \in list : k >= m}) OBVIOUS
  <2>2. n \in 2 .. 16 BY <1>2, <2>1
  <2>3. Plus(b, - n) # Plus(b, - 1) BY <2>2, PlacesDiffer
  <2> QED BY <1>3, <2>1, <2>3
<1> QED BY <1>1, <1>4, <1>5

LEMMA StmStored ==
  ASSUME NEW i, Copyable(i), i.op = "stm", PC \in i.list, i.n # PC, NEW c \in Cores, NEW p
  PROVE  LET v == Plus(c.r[i.n], -1)
         IN /\ v \in Touched(i, c, p) /\ Touched(i, c, HostPC) = Touched(i, c, p)
            /\ \A k \in Data : Stored(i, c, p)[k] = IF k = v THEN p ELSE Stored(i, c, HostPC)[k]
            /\ \A k \in Data \ Touched(i, c, p) : Stored(i, c, HostPC)[k] = c.mem[k]
<1>1. PICK list : list = i.list /\ list \in SUBSET (Regs \cup {PC}) /\ PC \in list
  BY InstrFields DEF Copyable
<1>2. i.n \in Regs BY InstrFields DEF Copyable
<1>3. PICK b : b = c.r[i.n] /\ b \in Word BY <1>2, CoreFields
<1>4. \A pc : Reg(c, i.n, pc) = b BY <1>3 DEF Reg
<1>5. PICK P : P = [n \in list |-> Place(i, b, n)] OBVIOUS
<1>6. \A n \in list : P[n] = Place(i, b, n) BY <1>5
<1>7. PICK v : v = Plus(b, -1) OBVIOUS
<1>8. P[PC] = v /\ \A m \in list \ {PC} : P[m] # v BY <1>1, <1>3, <1>6, <1>7, StmPlaces
<1>9. \A pc : Touched(i, c, pc) = {P[n] : n \in list}
  <2>1. \A pc : Touched(i, c, pc) = {Place(i, Reg(c, i.n, pc), n) : n \in list} BY <1>1 DEF Touched
  <2> QED BY <1>4, <1>6, <2>1
<1>10. \A pc : \A k \in Data :
         Stored(i, c, pc)[k] = IF \E n \in list : k = P[n]
                               THEN Reg(c, CHOOSE n \in list : k = P[n], pc) ELSE c.mem[k]
  <2> SUFFICES ASSUME NEW pc, NEW k \in Data
               PROVE  Stored(i, c, pc)[k] = IF \E n \in list : k = P[n]
                               THEN Reg(c, CHOOSE n \in list : k = P[n], pc) ELSE c.mem[k]
    OBVIOUS
  <2>1. Stored(i, c, pc)[k]
          = IF \E n \in list : k = Place(i, Reg(c, i.n, pc), n)
            THEN Reg(c, CHOOSE n \in list : k = Place(i, Reg(c, i.n, pc), n), pc) ELSE c.mem[k]
    BY <1>1 DEF Stored
  <2>2. \A n \in list : k = Place(i, Reg(c, i.n, pc), n) <=> k = P[n] BY <1>4, <1>6
  <2>3. (CHOOSE n \in list : k = Place(i, Reg(c, i.n, pc), n)) = CHOOSE n \in list : k = P[n]
    BY <2>2
  <2> QED BY <2>1, <2>2, <2>3
<1>11. ASSUME NEW k \in Data
       PROVE  Stored(i, c, p)[k] = IF k = v THEN p ELSE Stored(i, c, HostPC)[k]
  <2>1. PICK n : n = CHOOSE m \in list : k = P[m] OBVIOUS
  <2>2. CASE k = v
    <3>1. \E m \in list : k = P[m] BY <1>1, <1>8, <2>2
    <3>2. n \in list /\ k = P[n] BY <2>1, <3>1
    <3>3. n = PC BY <1>8, <2>2, <3>2
    <3>4. Reg(c, n, p) = p BY <3>3 DEF Reg
    <3>5. Stored(i, c, p)[k] = Reg(c, n, p) BY <1>10, <2>1, <3>1
    <3> QED BY <2>2, <3>4, <3>5
  <2>3. CASE k # v /\ \E m \in list : k = P[m]
    <3>1. n \in list /\ k = P[n] BY <2>1, <2>3
    <3>2. n # PC BY <1>8, <2>3, <3>1
    <3>3. Reg(c, n, p) = Reg(c, n, HostPC) BY <3>2 DEF Reg
    <3>4. \A pc : Stored(i, c, pc)[k] = Reg(c, n, pc) BY <1>10, <2>1, <2>3
    <3> QED BY <2>3, <3>3, <3>4
  <2>4. CASE k # v /\ ~ \E m \in list : k = P[m] BY <1>10, <2>4
  <2> QED BY <2>2, <2>3, <2>4
<1>12. \A k \in Data \ Touched(i, c, p) : Stored(i, c, HostPC)[k] = c.mem[k] BY <1>9, <1>10
<1>13. v \in Touched(i, c, p) /\ Touched(i, c, HostPC) = Touched(i, c, p) BY <1>1, <1>8, <1>9
<1> QED BY <1>3, <1>7, <1>11, <1>12, <1>13

(* What it leaves: only memory depends on where it is.                      *)
StmLeaves(i, c, p, x) ==
  /\ x.z = c.z /\ x.tp = c.tp /\ x.mem = Stored(i, c, p)
  /\ x.r[i.n] = Plus(c.r[i.n], - Cardinality(i.list))
  /\ x.r = [c.r EXCEPT ![i.n] = Plus(c.r[i.n], - Cardinality(i.list))]
  /\ \A n \in Regs \ {i.n} : x.r[n] = c.r[n]

LEMMA StmExecuted ==
  ASSUME NEW i, Copyable(i), i.op = "stm", PC \in i.list, i.n # PC, NEW c \in Cores,
         Passed(i, c.z), NEW p
  PROVE  StmLeaves(i, c, p, Execute(i, c, p))
<1>2. i.n \in Regs BY InstrFields DEF Copyable
<1>3. PICK b : b = Plus(c.r[i.n], - Cardinality(i.list)) OBVIOUS
<1>4. Reg(c, i.n, p) = c.r[i.n] BY DEF Reg
<1>5. Execute(i, c, p) = [Write(c, i.n, b) EXCEPT !.mem = Stored(i, c, p)]
  BY <1>3, <1>4, Zenon DEF Execute
<1>6. Write(c, i.n, b) = [c EXCEPT !.r[i.n] = b] BY DEF Write
<1>7. PICK mem : mem = Stored(i, c, p) OBVIOUS
<1>8. PICK x : x = Execute(i, c, p) OBVIOUS
<1>9. x = [[c EXCEPT !.r[i.n] = b] EXCEPT !.mem = mem] BY <1>5, <1>6, <1>7, <1>8
<1>10. x.z = c.z /\ x.tp = c.tp /\ x.mem = mem /\ x.r = [c.r EXCEPT ![i.n] = b]
  BY <1>9 DEF Cores
<1>11. x.r[i.n] = b /\ \A n \in Regs \ {i.n} : x.r[n] = c.r[n] BY <1>2, <1>10, CoreFields
<1> QED BY <1>3, <1>7, <1>8, <1>10, <1>11 DEF StmLeaves

(* The core after the words that spill the scratch register of a store of   *)
(* several registers and write the PC to it.                                *)
StmReady(c, i, p, q, d) ==
  LET y == Execute(i, c, HostPC)
      u == Plus(y.r[SP], -1)
  IN /\ d.z = c.z /\ d.r[q] = p /\ d.r[SP] = u
     /\ \A n \in Regs \ {q, SP} : d.r[n] = y.r[n]
     /\ \A k \in Data : d.mem[k] = IF k = u THEN y.r[q] ELSE y.mem[k]

LEMMA StmPrepares ==
  ASSUME NEW i, Copyable(i), i.op = "stm", PC \in i.list, i.n # PC, NEW c \in Cores,
         Passed(i, c.z), NEW a \in Word, NEW q \in Regs, q # SP,
         NEW ws, NEW t, NEW j \in Nat, Runs(ws, t, j), j >= 4, t[0] = c,
         ws[1] = i, ws[2] = Push(i.cond, q), ws[3] = armWritePCToRegister(i.cond, q, a)[1],
         ws[4] = armWritePCToRegister(i.cond, q, a)[2]
  PROVE  StmReady(c, i, Plus(a, 2), q, t[4])
<1>0. /\ 1 \in 1 .. j /\ 1 - 1 = 0 /\ 2 \in 1 .. j /\ 2 - 1 = 1 /\ 2 + 2 = 4 /\ 2 + 1 = 3
      /\ 2 \in Nat /\ 2 + 2 <= j
  OBVIOUS
<1>1. t[1] = Execute(i, c, HostPC) /\ t[1] \in Cores BY <1>0, RunsFirst
<1>2. PICK y : y = t[1] /\ y \in Cores /\ y = Execute(i, c, HostPC) BY <1>1
<1>3. y.z = c.z
  <2>1. StmLeaves(i, c, HostPC, y) BY <1>2, StmExecuted
  <2> QED BY <2>1 DEF StmLeaves
<1>4. i.cond = "al" \/ y.z BY <1>3 DEF Passed
<1>5. t[2] = Execute(Push(i.cond, q), y, HostPC) /\ t[2] \in Cores BY <1>0, <1>2, RunsFirst
<1>6. PICK d : d = t[2] /\ d \in Cores /\ d = Execute(Push(i.cond, q), y, HostPC) BY <1>5
<1>7. /\ d.z = y.z /\ d.r[SP] = Plus(y.r[SP], -1) /\ \A n \in Regs \ {SP} : d.r[n] = y.r[n]
      /\ \A k \in Data : d.mem[k] = IF k = Plus(y.r[SP], -1) THEN y.r[q] ELSE y.mem[k]
  BY <1>2, <1>4, <1>6, PushDone
<1>8. i.cond \in Conds BY InstrFields DEF Copyable
<1>9. t[4] = Holding(t[2], q, Plus(a, 2))
  <2>1. PICK k \in Nat : k = 2 OBVIOUS
  <2>2. k + 1 = 3 /\ k + 2 = 4 /\ k + 2 <= j BY <2>1
  <2>3. i.cond = "al" \/ t[k].z BY <1>4, <1>6, <1>7, <2>1
  <2>4. /\ ws[k + 1] = armWritePCToRegister(i.cond, q, a)[1]
        /\ ws[k + 2] = armWritePCToRegister(i.cond, q, a)[2]
    BY <2>2
  <2>5. t[k + 2] = Holding(t[k], q, Plus(a, 2)) BY <1>8, <2>2, <2>3, <2>4, RunsPC
  <2> QED BY <2>1, <2>2, <2>5
<1>10. /\ t[4].z = d.z /\ t[4].mem = d.mem /\ t[4].r[q] = Plus(a, 2)
       /\ \A n \in Regs \ {q} : t[4].r[n] = d.r[n]
  <2>1. t[4] = Holding(d, q, Plus(a, 2)) BY <1>6, <1>9
  <2> QED BY <1>6, <2>1 DEF Holding, Cores
<1>s. SP \in Regs BY LowRegisters
<1> QED BY <1>2, <1>3, <1>7, <1>10, <1>s DEF StmReady

(* The store of the PC.                                                     *)
StmWord(i) ==
  [Plain EXCEPT !.op = "str", !.cond = i.cond, !.d = StmScratch(i), !.n = i.n, !.imm = StmOffset(i)]

LEMMA StmScratchFacts ==
  ASSUME NEW i, Copyable(i), i.op = "stm", PC \in i.list, i.n # PC
  PROVE  /\ StmScratch(i) \in Regs /\ StmScratch(i) # SP /\ StmScratch(i) # i.n
         /\ StmScratch(i) # PC /\ i.n \in Regs
         /\ StmWord(i).op = "str" /\ StmWord(i).cond = i.cond /\ StmWord(i).d = StmScratch(i)
         /\ StmWord(i).n = i.n /\ StmWord(i).imm = StmOffset(i)
<1>1. StmScratch(i) \in {0, 1} /\ StmScratch(i) # i.n BY DEF StmScratch
<1>2. i.n \in Regs BY InstrFields DEF Copyable
<1> QED BY <1>1, <1>2, LowRegisters DEF StmWord, Plain, SP, PC

LEMMA StmWordDone ==
  ASSUME NEW i, Copyable(i), i.op = "stm", PC \in i.list, i.n # PC, NEW c \in Cores,
         Passed(i, c.z), NEW p, NEW d \in Cores, StmReady(c, i, p, StmScratch(i), d)
  PROVE  LET v == Plus(c.r[i.n], -1)
             e == Execute(StmWord(i), d, HostPC)
         IN /\ Touched(StmWord(i), d, HostPC) = {v} /\ Address(StmWord(i), d, HostPC) = v
            /\ e.z = d.z /\ e.r = d.r
            /\ \A k \in Data : e.mem[k] = IF k = v THEN p ELSE d.mem[k]
<1>1. PICK q : q = StmScratch(i) OBVIOUS
<1>2. PICK w : w = StmWord(i) OBVIOUS
<1>3. /\ q \in Regs /\ q # SP /\ q # i.n /\ q # PC /\ i.n \in Regs
      /\ w.op = "str" /\ w.cond = i.cond /\ w.d = q /\ w.n = i.n /\ w.imm = StmOffset(i)
  BY <1>1, <1>2, StmScratchFacts
<1>4. PICK y : y = Execute(i, c, HostPC) OBVIOUS
<1>5. PICK b : b = c.r[i.n] /\ b \in Word /\ b \in Int BY <1>3, CoreFields, WordArithmetic
<1>6. PICK N : N = Cardinality(i.list) /\ N \in 1 .. 16
  <2>1. i.list \in SUBSET (Regs \cup {PC}) BY InstrFields DEF Copyable
  <2> QED BY <2>1, ListCounts
<1>7. y.r[i.n] = Plus(b, - N)
  <2>1. StmLeaves(i, c, HostPC, y) BY <1>4, StmExecuted
  <2> QED BY <1>5, <1>6, <2>1 DEF StmLeaves
<1>8. /\ d.z = c.z /\ d.r[q] = p /\ d.r[SP] = Plus(y.r[SP], -1)
      /\ \A n \in Regs \ {q, SP} : d.r[n] = y.r[n]
  BY <1>1, <1>4 DEF StmReady
<1>9. StmOffset(i) = IF i.n = SP THEN N ELSE N - 1 BY <1>6 DEF StmOffset
<1>10. Plus(d.r[i.n], StmOffset(i)) = Plus(b, -1)
  <2>1. CASE i.n = SP
    <3>1. d.r[i.n] = Plus(Plus(b, - N), -1) BY <1>7, <1>8, <2>1
    <3>2. - N \in Int /\ -1 \in Int /\ N \in Int BY <1>6
    <3>3. Plus(Plus(b, - N), -1) = Plus(b, (- N) + -1) BY <1>5, <3>2, PlusPlus
    <3>4. (- N) + -1 \in Int BY <3>2
    <3>5. Plus(Plus(b, (- N) + -1), N) = Plus(b, ((- N) + -1) + N) BY <1>5, <3>2, <3>4, PlusPlus
    <3>6. ((- N) + -1) + N = -1 BY <3>2
    <3> QED BY <1>9, <2>1, <3>1, <3>3, <3>5, <3>6
  <2>2. CASE i.n # SP
    <3>1. d.r[i.n] = Plus(b, - N) BY <1>3, <1>7, <1>8, <2>2
    <3>2. - N \in Int /\ N - 1 \in Int BY <1>6
    <3>3. Plus(Plus(b, - N), N - 1) = Plus(b, (- N) + (N - 1)) BY <1>5, <3>2, PlusPlus
    <3>4. (- N) + (N - 1) = -1 BY <1>6
    <3> QED BY <1>9, <2>2, <3>1, <3>3, <3>4
  <2> QED BY <2>1, <2>2
<1>11. PICK v : v = Plus(b, -1) OBVIOUS
<1>12. Reg(d, w.n, HostPC) = d.r[i.n] /\ Reg(d, w.d, HostPC) = p BY <1>3, <1>8 DEF Reg
<1>13. Address(w, d, HostPC) = v BY <1>3, <1>10, <1>11, <1>12 DEF Address
<1>14. Touched(w, d, HostPC) = {v} BY <1>3, <1>13 DEF Touched
<1>15. Passed(w, d.z) BY <1>3, <1>8 DEF Passed
<1>16. PICK e : e = Execute(w, d, HostPC) OBVIOUS
<1>17. e = [d EXCEPT !.mem = Stored(w, d, HostPC)] BY <1>3, <1>15, <1>16, Zenon DEF Execute
<1>18. Stored(w, d, HostPC) = [k \in Data |-> IF k = v THEN p ELSE d.mem[k]]
  BY <1>3, <1>12, <1>13 DEF Stored
<1>19. PICK mem : mem = [k \in Data |-> IF k = v THEN p ELSE d.mem[k]] OBVIOUS
<1>20. e.z = d.z /\ e.r = d.r /\ e.mem = mem BY <1>17, <1>18, <1>19 DEF Cores
<1>21. \A k \in Data : e.mem[k] = IF k = v THEN p ELSE d.mem[k] BY <1>19, <1>20
<1> QED BY <1>2, <1>5, <1>11, <1>13, <1>14, <1>16, <1>20, <1>21

LEMMA StmSimulated ==
  ASSUME NEW i, Copyable(i), i.op = "stm", PC \in i.list, Formed(i), NEW c \in Cores,
         Passed(i, c.z), NEW a \in Word, NEW p, p = Plus(a, 2), Roomy(i, c, p),
         NEW ws, ws = Translated(i, a), NEW j \in 0 .. Len(ws), NEW t, Runs(ws, t, j), t[0] = c
  PROVE  Simulated(i, c, p, ws, t, j)
<1>1. Spills(i) /\ i.n # PC BY DEF Copyable, Formed, Spills
<1>2. PICK q : q = StmScratch(i) OBVIOUS
<1>3. PICK last : last = StmWord(i) OBVIOUS
<1>4. /\ q \in Regs /\ q # SP /\ q # i.n /\ q # PC /\ i.n \in Regs
      /\ last.op = "str" /\ last.cond = i.cond
  BY <1>1, <1>2, <1>3, StmScratchFacts
<1>5. /\ Len(ws) = 6 /\ ws[1] = i /\ ws[2] = Push(i.cond, q)
      /\ ws[3] = armWritePCToRegister(i.cond, q, a)[1]
      /\ ws[4] = armWritePCToRegister(i.cond, q, a)[2]
      /\ ws[5] = last /\ ws[6] = Pop(i.cond, q)
  <2>1. Are6(ws, i, Push(i.cond, q), armWritePCToRegister(i.cond, q, a)[1],
             armWritePCToRegister(i.cond, q, a)[2], last, Pop(i.cond, q))
    BY <1>2, <1>3, TranslatedStm, Zenon DEF StmWord
  <2> QED BY <2>1 DEF Are6
<1>6. ws[3].op = "movw" /\ ws[4].op = "movt" BY <1>5, PCWords DEF Kind
<1>7. PICK x : x = Execute(i, c, p) OBVIOUS
<1>8. PICK y : y = Execute(i, c, HostPC) OBVIOUS
<1>9. PICK v : v = Plus(c.r[i.n], -1) OBVIOUS
<1>10. PICK u : u = Plus(x.r[SP], -1) /\ u = Under(i, c, p) BY <1>7 DEF Under
<1>e. StmLeaves(i, c, p, x) /\ StmLeaves(i, c, HostPC, y) BY <1>1, <1>7, <1>8, StmExecuted
<1>b. PICK r : r = [c.r EXCEPT ![i.n] = Plus(c.r[i.n], - Cardinality(i.list))] OBVIOUS
<1>c. x.r = r /\ x.z = c.z /\ x.mem = Stored(i, c, p) BY <1>e, <1>b DEF StmLeaves
<1>d. y.r = r /\ y.z = c.z /\ y.mem = Stored(i, c, HostPC) BY <1>e, <1>b DEF StmLeaves
<1>11. x.r = y.r /\ x.z = c.z /\ y.z = c.z BY <1>c, <1>d
<1>12. /\ v \in Touched(i, c, p) /\ Touched(i, c, HostPC) = Touched(i, c, p)
       /\ \A k \in Data : x.mem[k] = IF k = v THEN p ELSE y.mem[k]
       /\ \A k \in Data \ Touched(i, c, p) : y.mem[k] = c.mem[k]
  BY <1>1, <1>9, <1>c, <1>d, StmStored
<1>13. /\ Touched(i, c, p) \subseteq Data /\ u \in Data /\ u \notin Lazy /\ u # TableWord
       /\ u \notin Touched(i, c, p)
  BY <1>1, <1>10 DEF Roomy
<1>14. Faults(i, c, p) <=> Faults(i, c, HostPC) BY <1>12 DEF Faults
<1>15. ~ Acks(i, c, p) BY DEF Acks
<1>r. \A k \in 1 .. j : /\ t[k - 1] \in Cores /\ t[k] \in Cores
                        /\ Reaches(ws[k], t[k - 1], HostPC, Where(ws[k]))
                        /\ t[k] = Execute(ws[k], t[k - 1], HostPC)
  <2>1. j \in Nat BY <1>5
  <2> QED BY <2>1, RunsFirst
<1>a. i.cond = "al" \/ c.z BY DEF Passed
<1>16. j >= 1 => t[1] = y /\ y \in Cores /\ ~ Faults(i, c, p) /\ TableWord \notin Touched(i, c, p)
  <2> SUFFICES ASSUME j >= 1
               PROVE  t[1] = y /\ y \in Cores /\ ~ Faults(i, c, p)
                      /\ TableWord \notin Touched(i, c, p)
    OBVIOUS
  <2>1. 1 \in 1 .. j /\ 1 - 1 = 0 BY <1>5
  <2>2. t[1] = y /\ y \in Cores /\ Reaches(i, c, HostPC, Where(i)) BY <1>5, <1>8, <1>r, <2>1
  <2>3. Where(i) = Data \ {TableWord} BY DEF Where
  <2> QED BY <1>12, <1>14, <2>2, <2>3 DEF Reaches
<1>17. j >= 4 => t[4] \in Cores /\ StmReady(c, i, p, q, t[4])
  <2> SUFFICES ASSUME j >= 4 PROVE t[4] \in Cores /\ StmReady(c, i, p, q, t[4]) OBVIOUS
  <2>1. 4 \in 1 .. j /\ j \in Nat BY <1>5
  <2>2. t[4] \in Cores BY <2>1, <1>r
  <2>3. StmReady(c, i, Plus(a, 2), q, t[4]) BY <1>1, <1>4, <1>5, <2>1, StmPrepares
  <2> QED BY <2>2, <2>3
<1>18. \A d : StmReady(c, i, p, q, d) =>
         /\ d.z = c.z /\ d.r[q] = p /\ d.r[SP] = u
         /\ \A n \in Regs \ {q, SP} : d.r[n] = x.r[n]
         /\ \A k \in Data : d.mem[k] = IF k = u THEN x.r[q] ELSE y.mem[k]
  BY <1>8, <1>10, <1>11 DEF StmReady
<1>19. \A d \in Cores : StmReady(c, i, p, q, d) =>
         LET e == Execute(last, d, HostPC)
         IN /\ Touched(last, d, HostPC) = {v} /\ Address(last, d, HostPC) = v
            /\ e.z = d.z /\ e.r = d.r /\ \A k \in Data : e.mem[k] = IF k = v THEN p ELSE d.mem[k]
  BY <1>1, <1>2, <1>3, <1>9, StmWordDone
<1>20. j >= 5 => /\ t[5] \in Cores /\ t[5].z = c.z /\ t[5].r[q] = p /\ t[5].r[SP] = u
                 /\ \A n \in Regs \ {q, SP} : t[5].r[n] = x.r[n]
                 /\ \A k \in Data : t[5].mem[k] = IF k = u THEN x.r[q] ELSE x.mem[k]
  <2> SUFFICES ASSUME j >= 5
               PROVE  /\ t[5] \in Cores /\ t[5].z = c.z /\ t[5].r[q] = p /\ t[5].r[SP] = u
                      /\ \A n \in Regs \ {q, SP} : t[5].r[n] = x.r[n]
                      /\ \A k \in Data : t[5].mem[k] = IF k = u THEN x.r[q] ELSE x.mem[k]
    OBVIOUS
  <2>1. 5 \in 1 .. j /\ 5 - 1 = 4 /\ j >= 4 BY <1>5
  <2>2. PICK d : d = t[4] /\ d \in Cores /\ StmReady(c, i, p, q, d) BY <1>17, <2>1
  <2>3. PICK e : e = t[5] /\ e \in Cores /\ e = Execute(last, d, HostPC)
    BY <1>5, <1>r, <2>1, <2>2
  <2>4. e.z = d.z /\ e.r = d.r /\ \A k \in Data : e.mem[k] = IF k = v THEN p ELSE d.mem[k]
    BY <1>19, <2>2, <2>3
  <2>5. /\ d.z = c.z /\ d.r[q] = p /\ d.r[SP] = u
        /\ \A n \in Regs \ {q, SP} : d.r[n] = x.r[n]
        /\ \A k \in Data : d.mem[k] = IF k = u THEN x.r[q] ELSE y.mem[k]
    BY <1>18, <2>2
  <2>6. u # v BY <1>12, <1>13
  <2>7. \A k \in Data : e.mem[k] = IF k = u THEN x.r[q] ELSE x.mem[k]
    BY <1>12, <2>4, <2>5, <2>6
  <2> QED BY <2>3, <2>4, <2>5, <2>7
<1>21. CASE j = 0
  <2>1. Faults(ws[1], c, HostPC) => Lost(i, c, p, c) BY <1>5, <1>14 DEF Lost
  <2>2. ~ Acks(ws[1], c, HostPC) BY <1>5 DEF Acks
  <2> QED BY <1>5, <1>21, <2>1, <2>2 DEF Simulated
<1>22. CASE j = 1
  <2>1. y \in Cores /\ t[1] = y BY <1>16, <1>22
  <2>2. Touched(Push(i.cond, q), y, HostPC) = {Plus(y.r[SP], -1)}
    <3>1. i.cond = "al" \/ y.z BY <1>11, <1>a
    <3> QED BY <1>4, <2>1, <3>1, PushDone
  <2>3. Touched(ws[2], t[1], HostPC) = {u} BY <1>5, <1>10, <1>11, <2>1, <2>2
  <2>4. ws[2].op = "stm" BY <1>5, StackWords
  <2>5. ~ Faults(ws[2], t[1], HostPC) /\ ~ Acks(ws[2], t[1], HostPC)
    BY <1>13, <2>3, <2>4 DEF Faults, Acks
  <2> QED BY <1>5, <1>22, <2>5 DEF Simulated
<1>23. CASE j \in {2, 3}
  <2>1. ws[j + 1].op \in {"movw", "movt"} BY <1>6, <1>23
  <2>2. ~ Faults(ws[j + 1], t[j], HostPC) /\ ~ Acks(ws[j + 1], t[j], HostPC)
    BY <2>1, QuietWord
  <2>3. j # Len(ws) BY <1>5, <1>23
  <2> QED BY <2>2, <2>3 DEF Simulated
<1>24. CASE j = 4
  <2>1. PICK d : d = t[4] /\ d \in Cores /\ StmReady(c, i, p, q, d) BY <1>17, <1>24
  <2>2. Touched(last, d, HostPC) = {v} /\ Address(last, d, HostPC) = v BY <1>19, <2>1
  <2>3. d.z = c.z /\ \A k \in Data : d.mem[k] = IF k = u THEN x.r[q] ELSE y.mem[k] BY <1>18, <2>1
  <2>4. d.mem[TableWord] = c.mem[TableWord]
    <3>1. TableWord \in Data /\ TableWord \notin Touched(i, c, p) BY <1>16, <1>24, CoreAssumption
    <3> QED BY <1>12, <1>13, <2>3, <3>1
  <2>5. ~ Faults(i, c, p) BY <1>16, <1>24
  <2>6. ~ Faults(last, d, HostPC) BY <1>4, <1>12, <2>2, <2>3, <2>4, <2>5 DEF Faults, Passed
  <2>7. ~ Acks(last, d, HostPC)
    <3>1. Ack # v BY <1>12, <1>13, CoreAssumption
    <3> QED BY <2>2, <3>1 DEF Acks
  <2> QED BY <1>5, <1>24, <2>1, <2>6, <2>7 DEF Simulated
<1>25. CASE j = 5
  <2>1. t[5] \in Cores /\ t[5].z = c.z /\ t[5].r[SP] = u BY <1>20, <1>25
  <2>2. Touched(Pop(i.cond, q), t[5], HostPC) = {t[5].r[SP]}
    <3>1. i.cond = "al" \/ t[5].z BY <1>a, <2>1
    <3> QED BY <1>4, <2>1, <3>1, PopDone
  <2>3. ~ Faults(ws[6], t[5], HostPC) BY <1>5, <1>13, <2>1, <2>2 DEF Faults
  <2> QED BY <1>5, <1>25, <2>3 DEF Simulated
<1>26. CASE j = 6
  <2>1. PICK d : d = t[5] /\ d \in Cores /\ d.z = c.z /\ d.r[SP] = u
          /\ (\A n \in Regs \ {q, SP} : d.r[n] = x.r[n])
          /\ (\A k \in Data : d.mem[k] = IF k = u THEN x.r[q] ELSE x.mem[k])
    BY <1>20, <1>26
  <2>2. PICK e : e = t[6] /\ e \in Cores /\ e = Execute(Pop(i.cond, q), d, HostPC)
    <3>1. 6 \in 1 .. j /\ 6 - 1 = 5 BY <1>26
    <3> QED BY <1>5, <1>r, <2>1, <3>1
  <2>3. /\ e.z = d.z /\ e.mem = d.mem /\ e.r[SP] = Plus(d.r[SP], 1) /\ e.r[q] = d.mem[d.r[SP]]
        /\ \A n \in Regs \ {SP, q} : e.r[n] = d.r[n]
    <3>1. i.cond = "al" \/ d.z BY <1>a, <2>1
    <3> QED BY <1>4, <2>1, <2>2, <3>1, PopDone
  <2>4. y \in Cores BY <1>16, <1>26
  <2>5. x.r \in [Regs -> Word] BY <1>11, <2>4, CoreFields
  <2>6. e.r[SP] = x.r[SP]
    <3>1. x.r[SP] \in Word BY <2>5, LowRegisters
    <3> QED BY <1>10, <2>1, <2>3, <3>1, WordSums
  <2>7. e.r[q] = x.r[q] BY <1>13, <2>1, <2>3
  <2>8. e.r = x.r
    <3>1. \A n \in Regs : e.r[n] = x.r[n] BY <2>1, <2>3, <2>6, <2>7
    <3>2. e.r \in [Regs -> Word] BY <2>2, CoreFields
    <3> QED BY <2>5, <3>1, <3>2
  <2>9. \A k \in Data \ {Under(i, c, p)} : e.mem[k] = x.mem[k] BY <1>10, <2>1, <2>3
  <2>10. Reaches(i, c, p, Allowed(i)) BY <1>13, <1>16, <1>26 DEF Reaches, Allowed
  <2>11. e.z = x.z BY <1>11, <2>1, <2>3
  <2>12. Done(i, c, p, t[6]) BY <1>7, <2>2, <2>8, <2>9, <2>10, <2>11 DEF Done
  <2>13. ~ Acks(ws[6], t[6 - 1], HostPC)
    <3>1. ws[6].op # "str" BY <1>5, StackWords
    <3> QED BY <3>1 DEF Acks
  <2> QED BY <1>5, <1>15, <1>26, <2>12, <2>13 DEF Simulated
<1>27. j \in {0, 1, 2, 3, 4, 5, 6} BY <1>5
<1> QED BY <1>21, <1>22, <1>23, <1>24, <1>25, <1>26, <1>27

(* Every word carries the condition of its instruction, and none traps.     *)
LEMMA TranslatedWords ==
  ASSUME NEW i, Copyable(i), Formed(i), NEW a, NEW ws, ws = Translated(i, a)
  PROVE  /\ Len(ws) \in 1 .. 6
         /\ \A k \in 1 .. Len(ws) : ws[k].cond = i.cond /\ ws[k].op # "hypercall"
<1>0. i \in Instr /\ i.op # "hypercall" BY DEF Copyable, Ops
<1>1. \A q : LET p == armWritePCToRegister(i.cond, q, a)
             IN /\ p[1].cond = i.cond /\ p[1].op = "movw" /\ p[2].cond = i.cond /\ p[2].op = "movt"
                /\ Spill(i.cond, q).cond = i.cond /\ Spill(i.cond, q).op # "hypercall"
                /\ Restore(i.cond, q).cond = i.cond /\ Restore(i.cond, q).op # "hypercall"
                /\ Push(i.cond, q).cond = i.cond /\ Push(i.cond, q).op # "hypercall"
                /\ Pop(i.cond, q).cond = i.cond /\ Pop(i.cond, q).op # "hypercall"
  BY PCWords, StackWords DEF Kind
<1>2. CASE ~ Spills(i) /\ ~ ReadsPC(i)
  <2>1. ws = << i >> BY <1>2, TranslatedPlain
  <2> QED BY <1>0, <2>1
<1>3. CASE ReadsPC(i)
  <2>1. PICK q : q = i.d OBVIOUS
  <2>2. PICK u, v : /\ u = armWritePCToRegister(i.cond, q, a)[1]
                    /\ v = armWritePCToRegister(i.cond, q, a)[2]
                    /\ u.cond = i.cond /\ u.op = "movw" /\ v.cond = i.cond /\ v.op = "movt"
    BY <1>1
  <2>3. PICK last : /\ last = IF i.op \in {"alu", "ldr"} THEN [i EXCEPT !.n = i.d]
                                                         ELSE [i EXCEPT !.m = i.d]
    OBVIOUS
  <2>4. last.cond = i.cond /\ last.op = i.op BY <1>0, <2>3 DEF Instr
  <2>5. Are2(ws, u, v) \/ Are3(ws, u, v, last) BY <1>3, <2>1, <2>2, <2>3, TranslatedReads
  <2>6. CASE Are2(ws, u, v)
    <3>1. Len(ws) = 2 /\ \A k \in 1 .. 2 : ws[k] = u \/ ws[k] = v BY <2>6 DEF Are2
    <3> QED BY <2>2, <3>1
  <2>7. CASE Are3(ws, u, v, last)
    <3>1. Len(ws) = 3 /\ \A k \in 1 .. 3 : ws[k] = u \/ ws[k] = v \/ ws[k] = last
      BY <2>7 DEF Are3
    <3> QED BY <1>0, <2>2, <2>4, <3>1
  <2> QED BY <2>5, <2>6, <2>7
<1>4. CASE i.op = "str" /\ PC \in {i.d, i.n}
  <2>1. PICK q : q = getOtherRegisterOf2(i.d, i.n) OBVIOUS
  <2>2. PICK u, v : /\ u = armWritePCToRegister(i.cond, q, a)[1]
                    /\ v = armWritePCToRegister(i.cond, q, a)[2]
                    /\ u.cond = i.cond /\ u.op = "movw" /\ v.cond = i.cond /\ v.op = "movt"
    BY <1>1
  <2>3. PICK last : last = StoreWord(i, q) OBVIOUS
  <2>4. last.cond = i.cond /\ last.op = i.op BY <1>0, <2>3 DEF Instr, StoreWord
  <2>5. Are5(ws, Spill(i.cond, q), u, v, last, Restore(i.cond, q))
    BY <1>4, <2>1, <2>2, <2>3, TranslatedStore DEF StoreWord
  <2>6. Len(ws) = 5 /\ \A k \in 1 .. 5 :
          ws[k] \in {Spill(i.cond, q), u, v, last, Restore(i.cond, q)}
    BY <2>5 DEF Are5
  <2> QED BY <1>0, <1>1, <2>2, <2>4, <2>6
<1>5. CASE i.op = "ldrr" /\ i.n = PC
  <2>0. i.d = i.m BY <1>5 DEF Copyable, Formed
  <2>1. PICK q : q = getOtherRegisterOf2(i.d, i.m) OBVIOUS
  <2>2. PICK u, v : /\ u = armWritePCToRegister(i.cond, q, a)[1]
                    /\ v = armWritePCToRegister(i.cond, q, a)[2]
                    /\ u.cond = i.cond /\ u.op = "movw" /\ v.cond = i.cond /\ v.op = "movt"
    BY <1>1
  <2>3. PICK last : last = [i EXCEPT !.n = q] OBVIOUS
  <2>4. last.cond = i.cond /\ last.op = i.op BY <1>0, <2>3 DEF Instr
  <2>5. Are5(ws, Spill(i.cond, q), u, v, last, Restore(i.cond, q))
    BY <1>5, <2>0, <2>1, <2>2, <2>3, TranslatedIndexed
  <2>6. Len(ws) = 5 /\ \A k \in 1 .. 5 :
          ws[k] \in {Spill(i.cond, q), u, v, last, Restore(i.cond, q)}
    BY <2>5 DEF Are5
  <2> QED BY <1>0, <1>1, <2>2, <2>4, <2>6
<1>6. CASE i.op = "stm" /\ PC \in i.list
  <2>0. i.n # PC BY <1>6 DEF Formed
  <2>1. PICK q : q = StmScratch(i) OBVIOUS
  <2>2. PICK u, v : /\ u = armWritePCToRegister(i.cond, q, a)[1]
                    /\ v = armWritePCToRegister(i.cond, q, a)[2]
                    /\ u.cond = i.cond /\ u.op = "movw" /\ v.cond = i.cond /\ v.op = "movt"
    BY <1>1
  <2>3. PICK last : last = StmWord(i) OBVIOUS
  <2>4. last.cond = i.cond /\ last.op = "str" BY <1>6, <2>0, <2>3, StmScratchFacts
  <2>5. Are6(ws, i, Push(i.cond, q), u, v, last, Pop(i.cond, q))
    BY <1>6, <2>1, <2>2, <2>3, TranslatedStm DEF StmWord
  <2>6. Len(ws) = 6 /\ \A k \in 1 .. 6 :
          ws[k] \in {i, Push(i.cond, q), u, v, last, Pop(i.cond, q)}
    BY <2>5 DEF Are6
  <2> QED BY <1>0, <1>1, <2>2, <2>4, <2>6
<1> QED BY <1>2, <1>3, <1>4, <1>5, <1>6 DEF Spills

(* The words of an instruction do what it does, step by step.               *)
LEMMA WordsSimulate ==
  ASSUME NEW i, Copyable(i), Formed(i), NEW c \in Cores, NEW a \in Word, NEW p, p = Plus(a, 2),
         Roomy(i, c, p), NEW ws, ws = Translated(i, a), NEW j \in 0 .. Len(ws), NEW t,
         Runs(ws, t, j), t[0] = c
  PROVE  Simulated(i, c, p, ws, t, j)
<1>1. CASE ~ Passed(i, c.z)
  <2>1. Len(ws) \in 1 .. 6 /\ \A k \in 1 .. Len(ws) : ws[k].cond = i.cond
    BY TranslatedWords
  <2>2. Len(ws) \in Nat \ {0} BY ONLY <2>1
  <2> QED BY <1>1, <2>1, <2>2, SkippedWords
<1>2. CASE Passed(i, c.z) /\ ~ Spills(i) /\ ~ ReadsPC(i)
  <2>1. ws = << i >> /\ Moveable(i) BY <1>2, TranslatedPlain
  <2>2. j \in 0 .. 1 BY <2>1
  <2>3. Runs(<< i >>, t, j) BY <2>1
  <2>4. Simulated(i, c, p, << i >>, t, j) BY <2>1, <2>2, <2>3, PlainSimulated
  <2> QED BY <2>1, <2>4
<1>3. CASE Passed(i, c.z) /\ ReadsPC(i) BY <1>3, ReadsSimulated
<1>4. CASE Passed(i, c.z) /\ Spills(i)
  <2>1. CASE i.op = "str" /\ PC \in {i.d, i.n} BY <1>4, <2>1, StoreSimulated
  <2>2. CASE i.op = "ldrr" /\ i.n = PC BY <1>4, <2>2, IndexedSimulated
  <2>3. CASE i.op = "stm" /\ PC \in i.list BY <1>4, <2>3, StmSimulated
  <2> QED BY <1>4, <2>1, <2>2, <2>3 DEF Spills
<1> QED BY <1>1, <1>2, <1>3, <1>4

-----------------------------------------------------------------------------
(* The same instruction on cores that differ in the thread register.        *)
LEMMA TwinResult ==
  ASSUME NEW c \in Cores, NEW d \in Cores, Twin(c, d), NEW i, NEW v
  PROVE  Twin(Result(i, c, v), Result(i, d, v))
<1>1. PICK z : z = (v = 0) /\ z \in BOOLEAN OBVIOUS
<1>2. CASE i.s
  <2>1. PICK x : x = [c EXCEPT !.z = z] OBVIOUS
  <2>2. PICK y : y = [d EXCEPT !.z = z] OBVIOUS
  <2>3. x \in Cores /\ y \in Cores /\ Twin(x, y)
    <3>1. Twin([c EXCEPT !.z = z], [d EXCEPT !.z = z]) BY TwinWrites
    <3>2. x \in Cores /\ y \in Cores BY <1>1, <2>1, <2>2, CoreFields
    <3> QED BY <2>1, <2>2, <3>1, <3>2
  <2>4. Result(i, c, v) = Write(x, i.d, v) /\ Result(i, d, v) = Write(y, i.d, v)
    BY <1>1, <1>2, <2>1, <2>2, Zenon DEF Result
  <2> QED BY <2>3, <2>4, TwinWrites
<1>3. CASE ~ i.s
  <2>1. Result(i, c, v) = Write(c, i.d, v) /\ Result(i, d, v) = Write(d, i.d, v)
    BY <1>3, Zenon DEF Result
  <2> QED BY <2>1, TwinWrites
<1> QED BY <1>2, <1>3

LEMMA TwinExecute ==
  ASSUME NEW c \in Cores, NEW d \in Cores, Twin(c, d), NEW i, i.op \in Ops, NEW pc
  PROVE  Twin(Execute(i, c, pc), Execute(i, d, pc))
<1>1. /\ Address(i, c, pc) = Address(i, d, pc) /\ Loaded(i, c) = Loaded(i, d)
      /\ Stored(i, c, pc) = Stored(i, d, pc) /\ \A n : Reg(c, n, pc) = Reg(d, n, pc)
  BY TwinViews
<1>2. c.z = d.z /\ c.mem = d.mem BY DEF Twin
<1>3. CASE ~ Passed(i, c.z) BY <1>2, <1>3, Zenon DEF Execute
<1>4. CASE Passed(i, c.z)
  <2>0. Passed(i, d.z) BY <1>2, <1>4
  <2>1. CASE i.op = "alu"
    <3>1. PICK v : v = Plus(Reg(c, i.n, pc), i.imm) /\ v = Plus(Reg(d, i.n, pc), i.imm) BY <1>1
    <3>2. Execute(i, c, pc) = Result(i, c, v) /\ Execute(i, d, pc) = Result(i, d, v)
      BY <1>4, <2>0, <2>1, <3>1, Zenon DEF Execute
    <3> QED BY <3>2, TwinResult
  <2>2. CASE i.op = "mov"
    <3>1. PICK v : v = Reg(c, i.m, pc) /\ v = Reg(d, i.m, pc) BY <1>1
    <3>2. Execute(i, c, pc) = Result(i, c, v) /\ Execute(i, d, pc) = Result(i, d, v)
      BY <1>4, <2>0, <2>2, <3>1, Zenon DEF Execute
    <3> QED BY <3>2, TwinResult
  <2>3. CASE i.op = "mvn"
    <3>1. PICK v : v = Modulus - 1 - Reg(c, i.m, pc) /\ v = Modulus - 1 - Reg(d, i.m, pc) BY <1>1
    <3>2. Execute(i, c, pc) = Result(i, c, v) /\ Execute(i, d, pc) = Result(i, d, v)
      BY <1>4, <2>0, <2>3, <3>1, Zenon DEF Execute
    <3> QED BY <3>2, TwinResult
  <2>4. CASE i.op = "teq"
    <3>1. PICK z : z = (Reg(c, i.n, pc) = i.imm) /\ z = (Reg(d, i.n, pc) = i.imm) BY <1>1
    <3>2. Execute(i, c, pc) = [c EXCEPT !.z = z] /\ Execute(i, d, pc) = [d EXCEPT !.z = z]
      BY <1>4, <2>0, <2>4, <3>1, Zenon DEF Execute
    <3> QED BY <3>2, TwinWrites
  <2>5. CASE i.op \in {"ldr", "ldrr"}
    <3>1. PICK v : v = c.mem[Address(i, c, pc)] /\ v = d.mem[Address(i, d, pc)] BY <1>1, <1>2
    <3>2. Execute(i, c, pc) = Write(c, i.d, v) /\ Execute(i, d, pc) = Write(d, i.d, v)
      BY <1>4, <2>0, <2>5, <3>1, Zenon DEF Execute
    <3> QED BY <3>2, TwinWrites
  <2>6. CASE i.op = "str"
    <3>1. PICK m : m = Stored(i, c, pc) /\ m = Stored(i, d, pc) BY <1>1
    <3>2. Execute(i, c, pc) = [c EXCEPT !.mem = m] /\ Execute(i, d, pc) = [d EXCEPT !.mem = m]
      BY <1>4, <2>0, <2>6, <3>1, Zenon DEF Execute
    <3> QED BY <3>2, TwinWrites
  <2>7. CASE i.op = "stm"
    <3>1. PICK m : m = Stored(i, c, pc) /\ m = Stored(i, d, pc) BY <1>1
    <3>2. PICK v : v = Plus(Reg(c, i.n, pc), - Cardinality(i.list))
                   /\ v = Plus(Reg(d, i.n, pc), - Cardinality(i.list))
      BY <1>1
    <3>3. /\ Execute(i, c, pc) = [Write(c, i.n, v) EXCEPT !.mem = m]
          /\ Execute(i, d, pc) = [Write(d, i.n, v) EXCEPT !.mem = m]
      BY <1>4, <2>0, <2>7, <3>1, <3>2, Zenon DEF Execute
    <3>4. Twin([Write(c, i.n, v) EXCEPT !.mem = m], [Write(d, i.n, v) EXCEPT !.mem = m])
      BY DEF Twin, Write, Cores
    <3> QED BY <3>3, <3>4
  <2>8. CASE i.op = "ldm"
    <3>1. PICK r : r = Loaded(i, c) /\ r = Loaded(i, d) BY <1>1
    <3>2. Execute(i, c, pc) = [c EXCEPT !.r = r] /\ Execute(i, d, pc) = [d EXCEPT !.r = r]
      BY <1>4, <2>0, <2>8, <3>1, Zenon DEF Execute
    <3> QED BY <3>2, TwinWrites
  <2>9. CASE i.op \in {"b", "bx", "movs", "ldmret", "svc", "mrs", "msr", "cps"}
    <3>1. Execute(i, c, pc) = c /\ Execute(i, d, pc) = d
      BY <1>4, <2>0, <2>9, Zenon DEF Execute
    <3> QED BY <3>1
  <2> QED BY <2>1, <2>2, <2>3, <2>4, <2>5, <2>6, <2>7, <2>8, <2>9 DEF Ops
<1> QED BY <1>3, <1>4

(* What has been shown of a core is true of its twin.                       *)
LEMMA TwinDone ==
  ASSUME NEW c \in Cores, NEW d \in Cores, Twin(c, d), NEW i, i.op \in Ops, NEW p
  PROVE  /\ Under(i, c, p) = Under(i, d, p)
         /\ Roomy(i, c, p) <=> Roomy(i, d, p)
         /\ \A e : Done(i, c, p, e) <=> Done(i, d, p, e)
         /\ \A e : Lost(i, c, p, e) => Faults(i, d, p) /\ e.z = d.z /\ e.mem = d.mem
                     /\ \/ e.r = d.r
                        \/ i.op \in {"ldr", "ldrr"} /\ \E v \in Word : e.r = Write(d, i.d, v).r
<1>1. PICK x : x = Execute(i, c, p) OBVIOUS
<1>2. PICK y : y = Execute(i, d, p) OBVIOUS
<1>3. x.r = y.r /\ x.z = y.z /\ x.mem = y.mem
  <2>1. Twin(x, y) BY <1>1, <1>2, TwinExecute
  <2> QED BY <2>1 DEF Twin
<1>4. Touched(i, c, p) = Touched(i, d, p) /\ (Faults(i, c, p) <=> Faults(i, d, p))
      /\ \A where : Reaches(i, c, p, where) <=> Reaches(i, d, p, where)
  BY TwinViews
<1>5. Under(i, c, p) = Under(i, d, p) BY <1>1, <1>2, <1>3 DEF Under
<1>6. c.z = d.z /\ c.mem = d.mem /\ c.r = d.r BY DEF Twin
<1>7. Roomy(i, c, p) <=> Roomy(i, d, p) BY <1>4, <1>5, <1>6 DEF Roomy
<1>8. \A e : Done(i, c, p, e) <=> Done(i, d, p, e) BY <1>1, <1>2, <1>3, <1>4, <1>5 DEF Done
<1>9. \A v : Write(c, i.d, v).r = Write(d, i.d, v).r
  <2>1. \A v : Twin(Write(c, i.d, v), Write(d, i.d, v)) BY TwinWrites
  <2> QED BY <2>1 DEF Twin
<1>10. \A e : Lost(i, c, p, e) => Faults(i, d, p) /\ e.z = d.z /\ e.mem = d.mem
                     /\ \/ e.r = d.r
                        \/ i.op \in {"ldr", "ldrr"} /\ \E v \in Word : e.r = Write(d, i.d, v).r
  BY <1>4, <1>6, <1>9 DEF Lost
<1> QED BY <1>5, <1>7, <1>8, <1>10

-----------------------------------------------------------------------------
(* The steps of ArmMachine, in the words of this module.                    *)
Alike(x, y, a) ==
  IF a \in Data THEN [x EXCEPT !.mem[a] = 0] = [y EXCEPT !.mem[a] = 0] ELSE x = y

LEMMA SameAlike ==
  ASSUME NEW x, NEW y, NEW a
  PROVE  Abstract!AlikeBut(x, y, a) <=> Alike(x, y, a)
BY DEF Abstract!AlikeBut, Alike

LEMMA SameViews ==
  /\ \A x : Abstract!Core(x) = CoreOf(x)
  /\ \A x, i : Abstract!After(x, i) = After(x, i)
  /\ \A x, k : Abstract!UnderStack(x, k) = Plus(x.bank[k][SP], -1)
  /\ \A x : Abstract!Interrupted(x) = Exception(x, "irq", IrqVector, Plus(x.pc, 1))
  /\ \A a, b : Abstract!Plus(a, b) = Plus(a, b)
<1>1. \A x : Abstract!Core(x) = CoreOf(x) BY SameMachine
<1>2. \A x, i : Abstract!After(x, i) = After(x, i) BY DEF After
<1>3. \A a, b : Abstract!Plus(a, b) = Plus(a, b) BY SameAccess
<1>4. \A x, k : Abstract!UnderStack(x, k) = Plus(x.bank[k][SP], -1)
  BY <1>3, SameAccess DEF Abstract!UnderStack
<1>5. \A x : Abstract!Interrupted(x) = Exception(x, "irq", IrqVector, Plus(x.pc, 1))
  BY <1>3, SameMachine DEF Abstract!Interrupted
<1> QED BY <1>1, <1>2, <1>3, <1>4, <1>5

LEMMA InstructionStep ==
  ASSUME program' = program, seen.pc \in Code, NEW i, i = program[seen.pc],
         Reaches(i, CoreOf(seen), Plus(seen.pc, 2), Allowed(i)),
         line' = (line /\ ~ Acks(i, CoreOf(seen), Plus(seen.pc, 2))),
         NEW e, e = After(seen, i),
         \/ Alike(seen', e, Plus(e.bank[seen.cpsr.mode][SP], -1))
         \/ line /\ ~ e.cpsr.i
            /\ Alike(seen', Exception(e, "irq", IrqVector, Plus(e.pc, 1)),
                     Plus(e.bank[seen.cpsr.mode][SP], -1))
  PROVE  Abstract!Next
<1>1. PICK c : c = CoreOf(seen) OBVIOUS
<1>2. PICK free : free = Plus(e.bank[seen.cpsr.mode][SP], -1) OBVIOUS
<1>3. /\ Abstract!Core(seen) = c /\ Abstract!After(seen, i) = e
      /\ Abstract!UnderStack(e, seen.cpsr.mode) = free
      /\ Abstract!Interrupted(e) = Exception(e, "irq", IrqVector, Plus(e.pc, 1))
      /\ Abstract!Plus(seen.pc, 2) = Plus(seen.pc, 2)
  BY <1>1, <1>2, SameViews
<1>4. Abstract!Reaches(i, c, Plus(seen.pc, 2), IF i.op = "str" THEN Data \cup {Ack} ELSE Data)
  BY <1>1, SameReaches DEF Allowed
<1>5. line' = (line /\ ~ Abstract!Acks(i, c, Plus(seen.pc, 2)))
  BY <1>1, SameReaches
<1>6. \/ Abstract!AlikeBut(seen', e, free)
      \/ line /\ ~ e.cpsr.i
         /\ Abstract!AlikeBut(seen', Exception(e, "irq", IrqVector, Plus(e.pc, 1)), free)
  BY <1>2, SameAlike
<1>7. Abstract!Instruction
  BY <1>3, <1>4, <1>5, <1>6, Zenon DEF Abstract!Instruction
<1> QED BY <1>7 DEF Abstract!Next

LEMMA DataAbortStep ==
  ASSUME program' = program, line' = line, seen.pc \in Code, NEW i, i = program[seen.pc],
         Faults(i, CoreOf(seen), Plus(seen.pc, 2)),
         NEW x, seen' = Exception(x, "abt", AbtVector, Plus(seen.pc, 2)),
         \/ x = seen
         \/ i.op \in {"ldr", "ldrr"} /\ \E v \in Word : x = With(seen, Write(CoreOf(seen), i.d, v))
  PROVE  Abstract!Next
<1>1. PICK c : c = CoreOf(seen) OBVIOUS
<1>2. Abstract!Core(seen) = c /\ Abstract!Plus(seen.pc, 2) = Plus(seen.pc, 2)
  BY <1>1, SameViews
<1>3. Abstract!Faults(i, c, Plus(seen.pc, 2)) BY <1>1, SameReaches
<1>4. \A y : Abstract!Exception(y, "abt", AbtVector, Plus(seen.pc, 2))
               = Exception(y, "abt", AbtVector, Plus(seen.pc, 2))
  BY SameMachine
<1>5. CASE x = seen
  <2>1. seen' = Abstract!Exception(seen, "abt", AbtVector, Plus(seen.pc, 2)) BY <1>4, <1>5
  <2>2. Abstract!DataAbort BY <1>2, <1>3, <2>1, Zenon DEF Abstract!DataAbort
  <2> QED BY <2>2 DEF Abstract!Next
<1>6. CASE i.op \in {"ldr", "ldrr"} /\ \E v \in Word : x = With(seen, Write(CoreOf(seen), i.d, v))
  <2>1. PICK v \in Word : x = With(seen, Write(c, i.d, v)) BY <1>1, <1>6
  <2>2. Abstract!With(seen, Abstract!Write(c, i.d, v)) = x BY <2>1, SameMachine, SameAccess
  <2>3. seen' = Abstract!Exception(Abstract!With(seen, Abstract!Write(c, i.d, v)), "abt", AbtVector,
                                   Plus(seen.pc, 2))
    BY <1>4, <2>2
  <2>4. Abstract!Word = Word BY DEF Abstract!Word, Word, Abstract!Modulus, Modulus
  <2>5. v \in Abstract!Word BY <2>4
  <2>6. Abstract!DataAbort
    <3>1. i.op \in {"ldr", "ldrr"} BY <1>6
    <3> QED BY <1>2, <1>3, <2>3, <2>5, <3>1, Zenon DEF Abstract!DataAbort
  <2> QED BY <2>6 DEF Abstract!Next
<1> QED BY <1>5, <1>6

LEMMA RaiseStep ==
  ASSUME program' = program, ~ line, line' = TRUE, seen' = seen
  PROVE  Abstract!Next
BY DEF Abstract!Next, Abstract!Raise

LEMMA ClearedWord ==
  ASSUME NEW x \in Machine, NEW u, NEW m, m = [x.mem EXCEPT ![u] = 0]
  PROVE  [x EXCEPT !.mem[u] = 0] = [low |-> x.low, bank |-> x.bank, cpsr |-> x.cpsr,
                                    spsr |-> x.spsr, pc |-> x.pc, mem |-> m]
BY DEF Machine

(* Machines with the same parts but for one word of memory.                 *)
LEMMA AlikeFields ==
  ASSUME NEW x \in Machine, NEW y \in Machine,
         x.low = y.low, x.bank = y.bank, x.cpsr = y.cpsr, x.spsr = y.spsr, x.pc = y.pc,
         NEW u, \A k \in Data \ {u} : x.mem[k] = y.mem[k]
  PROVE  Alike(x, y, u)
<1>1. x.mem \in [Data -> Word] /\ y.mem \in [Data -> Word] BY MachineFields
<1>2. CASE u \in Data
  <2>1. PICK m : m = [x.mem EXCEPT ![u] = 0] OBVIOUS
  <2>2. PICK n : n = [y.mem EXCEPT ![u] = 0] OBVIOUS
  <2>3. m = n
    <3>1. \A k \in Data : m[k] = n[k] BY <1>1, <2>1, <2>2
    <3>2. DOMAIN m = Data /\ DOMAIN n = Data BY <1>1, <2>1, <2>2
    <3>3. m = [k \in Data |-> m[k]] /\ n = [k \in Data |-> n[k]] BY <1>1, <2>1, <2>2
    <3> QED BY <3>1, <3>3
  <2>4. [x EXCEPT !.mem[u] = 0] = [low |-> x.low, bank |-> x.bank, cpsr |-> x.cpsr,
                                   spsr |-> x.spsr, pc |-> x.pc, mem |-> m]
    BY <2>1, ClearedWord
  <2>5. [y EXCEPT !.mem[u] = 0] = [low |-> y.low, bank |-> y.bank, cpsr |-> y.cpsr,
                                   spsr |-> y.spsr, pc |-> y.pc, mem |-> n]
    BY <2>2, ClearedWord
  <2> QED BY <1>2, <2>3, <2>4, <2>5 DEF Alike
<1>3. CASE u \notin Data
  <2>1. x.mem = y.mem BY <1>1, <1>3
  <2>2. x = y BY <2>1, SameMachines
  <2> QED BY <1>3, <2>2 DEF Alike
<1> QED BY <1>2, <1>3

LEMMA AlikeItself == \A x, a : Alike(x, x, a) BY DEF Alike

LEMMA AlikeWith ==
  ASSUME NEW x \in Machine, NEW c \in Cores, NEW d \in Cores, c.r = d.r, c.z = d.z,
         NEW u, \A k \in Data \ {u} : c.mem[k] = d.mem[k], NEW a \in Word
  PROVE  Alike(GoTo(With(x, c), a), GoTo(With(x, d), a), u)
<1>1. PICK v : v = With(x, c) OBVIOUS
<1>2. PICK w : w = With(x, d) OBVIOUS
<1>3. /\ v \in Machine /\ (\A n \in Low : v.low[n] = c.r[n])
      /\ (\A n \in Banked : v.bank[x.cpsr.mode][n] = c.r[n])
      /\ (\A k \in Modes \ {x.cpsr.mode} : v.bank[k] = x.bank[k])
      /\ v.cpsr.mode = x.cpsr.mode /\ v.cpsr.i = x.cpsr.i /\ v.cpsr.z = c.z /\ v.cpsr \in Psr
      /\ v.spsr = x.spsr /\ v.pc = x.pc /\ v.mem = c.mem
  BY <1>1, WithFields
<1>4. /\ w \in Machine /\ (\A n \in Low : w.low[n] = d.r[n])
      /\ (\A n \in Banked : w.bank[x.cpsr.mode][n] = d.r[n])
      /\ (\A k \in Modes \ {x.cpsr.mode} : w.bank[k] = x.bank[k])
      /\ w.cpsr.mode = x.cpsr.mode /\ w.cpsr.i = x.cpsr.i /\ w.cpsr.z = d.z /\ w.cpsr \in Psr
      /\ w.spsr = x.spsr /\ w.pc = x.pc /\ w.mem = d.mem
  BY <1>2, WithFields
<1>5. v.low = w.low
  <2>1. v.low \in [Low -> Word] /\ w.low \in [Low -> Word] BY <1>3, <1>4, MachineFields
  <2> QED BY <1>3, <1>4, <2>1
<1>6. v.bank = w.bank
  <2>1. v.bank \in [Modes -> [Banked -> Word]] /\ w.bank \in [Modes -> [Banked -> Word]]
    BY <1>3, <1>4, MachineFields
  <2>2. x.cpsr.mode \in Modes BY MachineFields
  <2>3. v.bank[x.cpsr.mode] = w.bank[x.cpsr.mode] BY <1>3, <1>4, <2>1, <2>2
  <2>4. \A k \in Modes : v.bank[k] = w.bank[k] BY <1>3, <1>4, <2>3
  <2> QED BY <2>1, <2>4
<1>7. v.cpsr = w.cpsr BY <1>3, <1>4 DEF Psr
<1>8. /\ GoTo(v, a) \in Machine /\ GoTo(v, a).pc = a
      /\ GoTo(v, a).low = v.low /\ GoTo(v, a).bank = v.bank /\ GoTo(v, a).cpsr = v.cpsr
      /\ GoTo(v, a).spsr = v.spsr /\ GoTo(v, a).mem = v.mem
  BY <1>3, GoToFields
<1>9. /\ GoTo(w, a) \in Machine /\ GoTo(w, a).pc = a
      /\ GoTo(w, a).low = w.low /\ GoTo(w, a).bank = w.bank /\ GoTo(w, a).cpsr = w.cpsr
      /\ GoTo(w, a).spsr = w.spsr /\ GoTo(w, a).mem = w.mem
  BY <1>4, GoToFields
<1>10. PICK y : y = GoTo(v, a) OBVIOUS
<1>11. PICK z : z = GoTo(w, a) OBVIOUS
<1>12. Alike(y, z, u)
  <2>1. y \in Machine /\ z \in Machine BY <1>8, <1>9, <1>10, <1>11
  <2>2. y.low = z.low /\ y.bank = z.bank /\ y.cpsr = z.cpsr /\ y.spsr = z.spsr /\ y.pc = z.pc
    BY <1>3, <1>4, <1>5, <1>6, <1>7, <1>8, <1>9, <1>10, <1>11
  <2>3. \A k \in Data \ {u} : y.mem[k] = z.mem[k]
    BY <1>3, <1>4, <1>8, <1>9, <1>10, <1>11
  <2> QED BY <2>1, <2>2, <2>3, AlikeFields
<1> QED BY <1>1, <1>2, <1>10, <1>11, <1>12

LEMMA AfterWhole ==
  ASSUME NEW x \in Machine, NEW i, ~ Replaced(i)
  PROVE  After(x, i) = GoTo(With(x, Execute(i, CoreOf(x), Plus(x.pc, 2))), Plus(x.pc, 1))
<1>1. CASE Passed(i, CoreOf(x).z) BY <1>1, AfterCopied
<1>2. CASE ~ Passed(i, CoreOf(x).z)
  <2>1. After(x, i) = GoTo(x, Plus(x.pc, 1)) BY <1>2, AfterSkipped
  <2>2. Execute(i, CoreOf(x), Plus(x.pc, 2)) = CoreOf(x) BY <1>2, SkippedWord
  <2>3. With(x, CoreOf(x)) = x BY CoreOfMachine, WithItself
  <2> QED BY <2>1, <2>2, <2>3
<1> QED BY <1>1, <1>2

(* The words of an instruction are done: a step of the machine.             *)
LEMMA CopiedStep ==
  ASSUME program' = program, seen \in Machine, seen.pc \in Code, NEW i, i = program[seen.pc],
         Copyable(i), NEW p, p = Plus(seen.pc, 2),
         NEW d \in Cores, Done(i, CoreOf(seen), p, d),
         line' = (line /\ ~ Acks(i, CoreOf(seen), p)),
         seen' = GoTo(With(seen, d), Plus(seen.pc, 1))
  PROVE  Abstract!Next
<1>1. PICK c : c = CoreOf(seen) /\ c \in Cores BY CoreOfMachine
<1>2. PICK x : x = seen /\ x \in Machine OBVIOUS
<1>3. p \in Word /\ Plus(x.pc, 1) \in Word
  <2>1. x.pc \in Int BY <1>2, MachineFields, WordArithmetic
  <2> QED BY <1>2, <2>1, Numbers
<1>4. PICK y : y = Execute(i, c, p) OBVIOUS
<1>5. Reaches(i, c, p, Allowed(i)) /\ d.r = y.r /\ d.z = y.z
      /\ \A k \in Data \ {Plus(y.r[SP], -1)} : d.mem[k] = y.mem[k]
  BY <1>1, <1>4 DEF Done, Under
<1>6. y \in Cores
  <2>1. i \in Runnable BY InstrRuns DEF Copyable
  <2>2. i.op \in {"ldr", "ldrr", "ldm"} => Allowed(i) \subseteq Data BY DEF Allowed
  <2> QED BY <1>1, <1>3, <1>4, <1>5, <2>1, <2>2, ExecuteCore
<1>7. ~ Replaced(i) BY DEF Copyable
<1>8. PICK e : e = After(x, i) OBVIOUS
<1>9. e = GoTo(With(x, y), Plus(x.pc, 1)) BY <1>1, <1>2, <1>4, <1>7, <1>8, AfterWhole
<1>10. e.bank[x.cpsr.mode][SP] = y.r[SP]
  <2>1. PICK w : w = With(x, y) OBVIOUS
  <2>2. w \in Machine /\ \A n \in Banked : w.bank[x.cpsr.mode][n] = y.r[n]
    BY <1>2, <1>6, <2>1, WithFields
  <2>3. GoTo(w, Plus(x.pc, 1)).bank = w.bank BY <1>3, <2>2, GoToFields
  <2>4. SP \in Banked BY DEF Banked
  <2> QED BY <1>9, <2>1, <2>2, <2>3, <2>4
<1>11. Alike(GoTo(With(x, d), Plus(x.pc, 1)), GoTo(With(x, y), Plus(x.pc, 1)), Plus(y.r[SP], -1))
  BY <1>2, <1>3, <1>5, <1>6, AlikeWith
<1>12. Alike(seen', e, Plus(e.bank[seen.cpsr.mode][SP], -1))
  BY <1>2, <1>9, <1>10, <1>11
<1> QED BY <1>1, <1>2, <1>5, <1>8, <1>12, InstructionStep

-----------------------------------------------------------------------------
(* Where the words of each instruction are in its block.                    *)
LEMMA CopiedSteps ==
  ASSUME program \in Programs, NEW s \in Word, Ends(s), NEW e, e = guestEnd(s)
  PROVE  /\ Copied(s, s) = <<>>
         /\ \A b \in s .. e : Copied(s, b) \in Seq(Runnable)
         /\ \A b \in s .. e - 1 :
              /\ WordsOf(b) \in Seq(Runnable) /\ Len(WordsOf(b)) > 0
              /\ Copied(s, b + 1) = Copied(s, b) \o WordsOf(b)
<1>1. e \in Nat /\ s \in Nat /\ s <= e /\ \A k \in s .. e - 1 : Copyable(program[k])
  BY BlockFacts
<1>2. \A a, b \in Nat : s <= a /\ b = a + 1 =>
        /\ Copied(s, s) = <<>>
        /\ Copied(s, b) = Copied(s, a) \o WordsOf(a)
  BY <1>1, CopiedGrows DEF Growing
<1>3. Copied(s, s) = <<>>
  <2>1. s + 1 \in Nat BY <1>1
  <2> QED BY <1>1, <1>2, <2>1
<1>4. ASSUME NEW b \in s .. e PROVE Copied(s, b) \in Seq(Runnable)
  <2>1. b \in Nat /\ s <= b /\ \A k \in s .. b - 1 : k \in s .. e - 1 BY <1>1
  <2> QED BY <1>1, <2>1, CopiedRuns
<1>5. ASSUME NEW b \in s .. e - 1
      PROVE  /\ WordsOf(b) \in Seq(Runnable) /\ Len(WordsOf(b)) > 0
             /\ Copied(s, b + 1) = Copied(s, b) \o WordsOf(b)
  <2>1. b \in Nat /\ b \in Int /\ s <= b /\ b + 1 \in Nat BY <1>1
  <2>2. Copyable(program[b]) BY <1>1
  <2>3. WordsOf(b) \in Seq(Runnable) /\ Len(WordsOf(b)) > 0
    BY <2>1, <2>2, TranslatedRuns DEF WordsOf
  <2>4. PICK d : d = b + 1 OBVIOUS
  <2>5. Copied(s, d) = Copied(s, b) \o WordsOf(b) BY <1>2, <2>1, <2>4
  <2> QED BY <2>3, <2>4, <2>5
<1> QED BY <1>3, <1>4, <1>5

Joined(w, u, v) == w = u \o v

LEMMA Appended ==
  ASSUME NEW u \in Seq(Runnable), NEW v \in Seq(Runnable), NEW w, Joined(w, u, v)
  PROVE  /\ w \in Seq(Runnable) /\ Len(w) = Len(u) + Len(v)
         /\ Len(u) \in Nat /\ Len(v) \in Nat
         /\ \A k \in 1 .. Len(v) : w[Len(u) + k] = v[k]
         /\ \A k \in 1 .. Len(u) : w[k] = u[k]
<1>1. /\ u \o v \in Seq(Runnable) /\ Len(u \o v) = Len(u) + Len(v)
      /\ Len(u) \in Nat /\ Len(v) \in Nat
  OBVIOUS
<1>2. ASSUME NEW k \in 1 .. Len(v) PROVE (u \o v)[Len(u) + k] = v[k]
  <2>1. Len(u) + k \in 1 .. Len(u) + Len(v) /\ ~ (Len(u) + k <= Len(u))
        /\ (Len(u) + k) - Len(u) = k
    BY <1>1
  <2> QED BY <2>1
<1>3. ASSUME NEW k \in 1 .. Len(u) PROVE (u \o v)[k] = u[k] BY <1>1
<1> QED BY <1>1, <1>2, <1>3 DEF Joined

(* The words w stand in x behind the first n words.                         *)
Lies(w, n, x) == n + Len(w) <= Len(x) /\ \A k \in 1 .. Len(w) : x[n + k] = w[k]

LEMMA StillLies ==
  ASSUME NEW x \in Seq(Runnable), NEW y \in Seq(Runnable), NEW z, Joined(z, x, y)
  PROVE  /\ Lies(y, Len(x), z)
         /\ \A w \in Seq(Runnable), n \in Nat : Lies(w, n, x) => Lies(w, n, z)
<1>1. PICK p, q : p = Len(x) /\ q = Len(y) OBVIOUS
<1>2. /\ Len(z) = p + q /\ p \in Nat /\ q \in Nat
      /\ \A k \in 1 .. q : z[p + k] = y[k]
      /\ \A k \in 1 .. p : z[k] = x[k]
  BY <1>1, Appended
<1>3. Lies(y, Len(x), z)
  <2>1. Len(x) + Len(y) <= Len(z) BY <1>1, <1>2
  <2> QED BY <1>1, <1>2, <2>1 DEF Lies
<1>4. ASSUME NEW w \in Seq(Runnable), NEW n \in Nat, Lies(w, n, x)
      PROVE  Lies(w, n, z)
  <2>1. PICK m : m = Len(w) OBVIOUS
  <2>2. m \in Nat /\ n + m <= p /\ \A k \in 1 .. m : x[n + k] = w[k]
    BY <1>1, <1>4, <2>1 DEF Lies
  <2>3. n + m <= Len(z) BY <1>2, <2>2
  <2>4. ASSUME NEW k \in 1 .. m PROVE z[n + k] = w[k]
    <3>1. n + k \in 1 .. p BY <1>2, <2>2
    <3> QED BY <1>2, <2>2, <3>1
  <2> QED BY <2>1, <2>3, <2>4 DEF Lies
<1> QED BY <1>3, <1>4

(* Sequences that grow by others: each lies where it was appended.          *)
Laying(s, e, f, g) ==
  /\ \A b \in s .. e : f[b] \in Seq(Runnable)
  /\ \A b \in s .. e - 1 : g[b] \in Seq(Runnable) /\ Joined(f[b + 1], f[b], g[b])

LEMMA Laid ==
  ASSUME NEW s \in Nat, NEW e \in Nat, NEW f, NEW g, Laying(s, e, f, g), NEW a \in s .. e - 1
  PROVE  \A d \in s .. e : a < d => Lies(g[a], Len(f[a]), f[d])
<1> DEFINE Holds(d) == Lies(g[a], Len(f[a]), f[d])
           T == {d \in Nat : d \in s .. e /\ a < d /\ ~ Holds(d)}
<1>a. a \in s .. e /\ a \in Nat OBVIOUS
<1> HIDE DEF Holds
<1>1. CASE T = {}
  <2>1. ASSUME NEW d \in s .. e, a < d PROVE Holds(d)
    <3>1. d \in Nat /\ d \notin T BY <1>1
    <3> QED BY <2>1, <3>1
  <2> QED BY <2>1 DEF Holds
<1>2. CASE T # {}
  <2>1. T \in SUBSET Nat OBVIOUS
  <2>2. PICK d \in T : \A y \in T : d <= y BY <1>2, <2>1, LeastNatural
  <2>3. d \in s .. e /\ a < d /\ ~ Holds(d) /\ d \in Nat BY <2>2
  <2>4. PICK b : b = d - 1 OBVIOUS
  <2>5. b \in s .. e - 1 /\ b \in s .. e /\ b \in Nat /\ d = b + 1 /\ a <= b /\ b < d
    BY <1>a, <2>3, <2>4
  <2>b. b \notin T BY <2>1, <2>2, <2>5
  <2>6. f[b] \in Seq(Runnable) /\ g[b] \in Seq(Runnable) /\ Joined(f[d], f[b], g[b])
    BY <2>5 DEF Laying
  <2>8. CASE a = b
    <3>1. Lies(g[b], Len(f[b]), f[d]) BY <2>6, StillLies
    <3> QED BY <2>3, <2>8, <3>1 DEF Holds
  <2>9. CASE a < b
    <3>1. Holds(b) BY <2>5, <2>9, <2>b
    <3>2. g[a] \in Seq(Runnable) /\ f[a] \in Seq(Runnable) BY <1>a DEF Laying
    <3>3. Len(f[a]) \in Nat BY <3>2
    <3>4. Holds(d) BY <2>6, <3>1, <3>2, <3>3, StillLies DEF Holds
    <3> QED BY <2>3, <3>4
  <2>10. a = b \/ a < b BY <1>a, <2>5
  <2> QED BY <2>8, <2>9, <2>10
<1> QED BY <1>1, <1>2

(* The words of an instruction in its block.                                *)
LEMMA WordsLie ==
  ASSUME program \in Programs, NEW s \in Word, Ends(s), NEW e, e = guestEnd(s),
         NEW a \in s .. e - 1
  PROVE  \A d \in s .. e : a < d => Lies(WordsOf(a), Len(Copied(s, a)), Copied(s, d))
<1>1. PICK f : f = [b \in s .. e |-> Copied(s, b)] OBVIOUS
<1>2. PICK g : g = [b \in s .. e - 1 |-> WordsOf(b)] OBVIOUS
<1>3. e \in Nat /\ s \in Nat /\ s <= e BY BlockFacts
<1>4. Laying(s, e, f, g)
  <2>1. \A b \in s .. e : f[b] \in Seq(Runnable) BY <1>1, CopiedSteps
  <2>2. ASSUME NEW b \in s .. e - 1
        PROVE  g[b] \in Seq(Runnable) /\ Joined(f[b + 1], f[b], g[b])
    <3>1. WordsOf(b) \in Seq(Runnable) /\ Joined(Copied(s, b + 1), Copied(s, b), WordsOf(b))
      BY CopiedSteps DEF Joined
    <3>2. b \in s .. e /\ b + 1 \in s .. e BY <1>3
    <3> QED BY <1>1, <1>2, <3>1, <3>2
  <2> QED BY <2>1, <2>2 DEF Laying
<1>5. \A d \in s .. e : a < d => Lies(g[a], Len(f[a]), f[d]) BY <1>3, <1>4, Laid
<1>6. a \in s .. e BY <1>3
<1> QED BY <1>1, <1>2, <1>5, <1>6

LEMMA Lengths ==
  ASSUME program \in Programs, NEW s \in Word, Ends(s), NEW e, e = guestEnd(s)
  PROVE  /\ \A b \in s .. e : Len(Copied(s, b)) \in Nat
         /\ Len(Copied(s, s)) = 0
         /\ \A b \in s .. e - 1 :
              /\ Len(WordsOf(b)) \in Nat /\ Len(WordsOf(b)) > 0
              /\ Len(Copied(s, b + 1)) = Len(Copied(s, b)) + Len(WordsOf(b))
         /\ \A b, d \in s .. e : b < d => Len(Copied(s, b)) < Len(Copied(s, d))
<1>0. e \in Nat /\ s \in Nat /\ s <= e BY BlockFacts
<1>1. ASSUME NEW b \in s .. e PROVE Len(Copied(s, b)) \in Nat
  <2>1. Copied(s, b) \in Seq(Runnable) BY CopiedSteps
  <2> QED BY <2>1
<1>2. Len(Copied(s, s)) = 0
  <2>1. Copied(s, s) = <<>> BY CopiedSteps
  <2> QED BY <2>1
<1>3. ASSUME NEW b \in s .. e - 1
      PROVE  /\ Len(WordsOf(b)) \in Nat /\ Len(WordsOf(b)) > 0
             /\ Len(Copied(s, b + 1)) = Len(Copied(s, b)) + Len(WordsOf(b))
  <2>1. /\ WordsOf(b) \in Seq(Runnable) /\ Len(WordsOf(b)) > 0
        /\ Joined(Copied(s, b + 1), Copied(s, b), WordsOf(b))
    BY CopiedSteps DEF Joined
  <2>2. b \in s .. e BY <1>0
  <2>3. Copied(s, b) \in Seq(Runnable) BY <2>2, CopiedSteps
  <2> QED BY <2>1, <2>3, Appended
<1>4. ASSUME NEW b \in s .. e, NEW d \in s .. e, b < d
      PROVE  Len(Copied(s, b)) < Len(Copied(s, d))
  <2>1. b \in s .. e - 1 BY <1>0, <1>4
  <2>2. Lies(WordsOf(b), Len(Copied(s, b)), Copied(s, d)) BY <1>4, <2>1, WordsLie
  <2>3. PICK p, q, m : p = Len(Copied(s, b)) /\ q = Len(Copied(s, d)) /\ m = Len(WordsOf(b))
    OBVIOUS
  <2>4. p \in Nat /\ q \in Nat /\ m \in Nat /\ m > 0 BY <1>1, <1>3, <2>1, <2>3
  <2>5. p + m <= q BY <2>2, <2>3 DEF Lies
  <2>6. p < q BY <2>4, <2>5
  <2> QED BY <2>3, <2>6
<1> QED BY <1>1, <1>2, <1>3, <1>4

(* The words that end an instruction with the word off.                     *)
DoneBy(s, e, off) == {b \in s + 1 .. e : Len(Copied(s, b)) = off + 1}

LEMMA WordAt ==
  ASSUME program \in Programs, NEW s \in Word, Ends(s), NEW e, e = guestEnd(s),
         NEW a \in s .. e - 1, NEW j \in Nat, j < Len(WordsOf(a)),
         NEW off, off = Len(Copied(s, a)) + j
  PROVE  /\ Words(s)[off + 1] = WordsOf(a)[j + 1] /\ off \in Nat
         /\ j + 1 = Len(WordsOf(a)) => DoneBy(s, e, off) = {a + 1}
         /\ j + 1 # Len(WordsOf(a)) => DoneBy(s, e, off) = {}
         /\ hostpcToGuestpc(s, off) = a
<1>0. e \in Nat /\ s \in Nat /\ s <= e /\ a \in Int /\ e \in Code BY BlockFacts
<1>1. PICK L : L = [b \in s .. e |-> Len(Copied(s, b))] OBVIOUS
<1>2. PICK m : m = Len(WordsOf(a)) OBVIOUS
<1>3. /\ \A b \in s .. e : L[b] \in Nat /\ L[b] = Len(Copied(s, b))
      /\ L[s] = 0 /\ L[a + 1] = L[a] + m /\ m \in Nat /\ m > 0
      /\ \A b, d \in s .. e : b < d => L[b] < L[d]
  <2>1. a \in s .. e /\ a + 1 \in s .. e /\ s \in s .. e BY <1>0
  <2> QED BY <1>1, <1>2, <2>1, Lengths
<1>4. a \in s .. e /\ a + 1 \in s .. e /\ j < m BY <1>0, <1>2
<1>5. PICK base : base = L[a] /\ base \in Nat BY <1>3, <1>4
<1>6. off = base + j /\ off \in Nat /\ L[a + 1] = base + m BY <1>3, <1>4, <1>5
<1>7. Words(s)[off + 1] = WordsOf(a)[j + 1]
  <2>1. Lies(WordsOf(a), base, Copied(s, e))
    <3>1. e \in s .. e /\ a < e BY <1>0
    <3> QED BY <1>3, <1>4, <1>5, <3>1, WordsLie
  <2>2. Joined(Words(s), Copied(s, e), Planted(e)) BY DEF Joined, Words
  <2>3. Copied(s, e) \in Seq(Runnable) /\ Planted(e) \in Seq(Runnable)
    <3>1. e \in s .. e BY <1>0
    <3> QED BY <1>0, <3>1, CopiedSteps, PlantedRuns
  <2>4. WordsOf(a) \in Seq(Runnable) BY CopiedSteps
  <2>5. Lies(WordsOf(a), base, Words(s)) BY <1>5, <2>1, <2>2, <2>3, <2>4, StillLies
  <2>6. j + 1 \in 1 .. m /\ base + (j + 1) = off + 1 BY <1>3, <1>4, <1>5, <1>6
  <2> QED BY <1>2, <2>5, <2>6 DEF Lies
<1>8. DoneBy(s, e, off) = IF j + 1 = m THEN {a + 1} ELSE {}
  <2>1. ASSUME NEW b \in s + 1 .. e, Len(Copied(s, b)) = off + 1
        PROVE  b = a + 1 /\ j + 1 = m
    <3>1. b \in s .. e /\ b \in Int /\ L[b] = off + 1 BY <1>0, <1>3, <2>1
    <3>2. CASE b < a
      <4>1. L[b] < base BY <1>3, <1>4, <1>5, <3>1, <3>2
      <4> QED BY <1>5, <1>6, <3>1, <4>1
    <3>3. CASE b = a BY <1>5, <1>6, <3>1, <3>3
    <3>4. CASE b = a + 1 BY <1>5, <1>6, <1>3, <3>1, <3>4
    <3>5. CASE b > a + 1
      <4>1. L[a + 1] < L[b] BY <1>3, <1>4, <3>1, <3>5
      <4>2. base + m < off + 1 BY <1>6, <3>1, <4>1
      <4> QED BY <1>3, <1>4, <1>5, <1>6, <4>2
    <3> QED BY <1>0, <3>1, <3>2, <3>3, <3>4, <3>5
  <2>2. ASSUME j + 1 = m PROVE a + 1 \in s + 1 .. e /\ Len(Copied(s, a + 1)) = off + 1
    <3>1. L[a + 1] = off + 1 BY <1>3, <1>5, <1>6, <2>2
    <3> QED BY <1>0, <1>3, <1>4, <3>1
  <2> QED BY <2>1, <2>2 DEF DoneBy
<1>9. hostpcToGuestpc(s, off) = a
  <2>1. CASE off = 0
    <3>1. ~ (s < a)
      <4>1. s < a => L[s] < L[a] BY <1>0, <1>3, <1>4
      <4> QED BY <1>3, <1>5, <1>6, <2>1, <4>1
    <3>2. a = s BY <1>0, <3>1
    <3> QED BY <2>1, <3>2 DEF hostpcToGuestpc
  <2>2. CASE off # 0
    <3> DEFINE P(b) == Past(s, b, off) /\ \A k \in s .. b - 1 : ~ Past(s, k, off)
    <3>1. \A b \in s .. e - 1 : Past(s, b, off) <=> L[b + 1] > off
      <4>1. \A b \in s .. e - 1 : b + 1 \in s .. e BY <1>0
      <4> QED BY <1>3, <4>1 DEF Past
    <3>2. Past(s, a, off) BY <1>3, <1>4, <1>5, <1>6, <3>1
    <3>3. ASSUME NEW k \in s .. a - 1 PROVE ~ Past(s, k, off)
      <4>1. k \in s .. e - 1 /\ k + 1 \in s .. e /\ k + 1 <= a /\ k + 1 \in Int BY <1>0
      <4>2. L[k + 1] <= base
        <5>1. CASE k + 1 = a BY <1>5, <5>1
        <5>2. CASE k + 1 < a
          <6>1. L[k + 1] < L[a] BY <1>3, <1>4, <4>1, <5>2
          <6> QED BY <1>3, <1>5, <4>1, <6>1
        <5> QED BY <1>0, <4>1, <5>1, <5>2
      <4> QED BY <1>3, <1>5, <1>6, <3>1, <4>1, <4>2
    <3>4. ASSUME NEW b \in s .. e - 1, P(b) PROVE b = a
      <4>1. ~ (b < a)
        <5>1. b < a => b \in s .. a - 1 BY <1>0
        <5> QED BY <3>3, <3>4, <5>1
      <4>2. ~ (a < b)
        <5>1. a < b => a \in s .. b - 1 BY <1>0
        <5> QED BY <3>2, <3>4, <5>1
      <4> QED BY <1>0, <4>1, <4>2
    <3>5. P(a) BY <3>2, <3>3
    <3> HIDE DEF P
    <3>6. (CHOOSE b \in s .. e - 1 : P(b)) = a BY <3>4, <3>5
    <3> QED BY <2>2, <3>6 DEF hostpcToGuestpc, P
  <2> QED BY <2>1, <2>2
<1> QED BY <1>2, <1>6, <1>7, <1>8, <1>9

(* The words behind the copied ones: they trap, or write the link register  *)
(* of a branch.                                                             *)
Links(i, w) == i.op = "b" /\ i.s /\ w.op \in {"movw", "movt"} /\ w.d = LR /\ w.cond = i.cond
Behind(i) == {w \in Runnable : w.op = "hypercall" \/ Links(i, w)}

LEMMA PlantedBehind ==
  ASSUME program \in Programs, NEW e \in Code
  PROVE  Planted(e) \in Seq(Behind(program[e]))
<1> DEFINE i == program[e]
           link == IF i.op = "b" /\ i.s THEN armWritePCToRegister(i.cond, LR, e - 1) ELSE <<>>
           fork == IF i.op = "b" /\ i.cond # "al" THEN << Hypercall(i.cond) >> ELSE <<>>
           trap == Hypercall("al")
           All == Behind(i)
<1>1. Planted(e) = link \o fork \o << trap >> BY DEF Planted
<1>2. i \in Instr /\ e \in Int BY ProgramAssumption, WordArithmetic
<1>3. i.cond \in Conds BY <1>2 DEF Instr, Conds
<1>4. \A cond \in Conds : Hypercall(cond) \in All
  <2>1. 0 \in Regs /\ "hypercall" \in HostOps /\ 0 \in Int BY LowRegisters DEF HostOps
  <2>2. ASSUME NEW cond \in Conds PROVE Hypercall(cond) \in Runnable
    <3>1. cond \in {"al", "eq"} BY DEF Conds
    <3> QED BY <2>1, <3>1 DEF Hypercall, Plain, Runnable
  <2>3. \A cond \in Conds : Hypercall(cond).op = "hypercall" BY DEF Hypercall, Plain
  <2> QED BY <2>2, <2>3 DEF Behind
<1>5. trap \in All BY <1>4 DEF Conds
<1>6. link \in Seq(All)
  <2>1. CASE i.op = "b" /\ i.s
    <3>1. e - 1 \in Int /\ LR \in Regs \cup {PC} BY <1>2, LowRegisters
    <3>2. PICK ws, w1, w2 : /\ ws = armWritePCToRegister(i.cond, LR, e - 1)
                            /\ w1 = ws[1] /\ w2 = ws[2]
      OBVIOUS
    <3>3. ws \in Seq(Runnable) BY <1>3, <3>1, <3>2, HalvesRun
    <3>4. /\ Len(ws) = 2 /\ ws = << w1, w2 >> /\ w1.op = "movw" /\ w2.op = "movt"
          /\ w1.d = LR /\ w2.d = LR /\ w1.cond = i.cond /\ w2.cond = i.cond
      BY <3>2, PCWords DEF Kind
    <3>5. w1 \in Runnable /\ w2 \in Runnable BY <3>2, <3>3, <3>4
    <3>6. w1 \in All /\ w2 \in All BY <2>1, <3>4, <3>5 DEF Behind, Links
    <3>7. link = << w1, w2 >> BY <2>1, <3>2, <3>4
    <3> HIDE DEF All, link
    <3>8. << w1, w2 >> \in Seq(All) BY <3>6
    <3> QED BY <3>7, <3>8
  <2>2. CASE ~ (i.op = "b" /\ i.s)
    <3>1. link = <<>> BY <2>2
    <3> HIDE DEF All, link
    <3> QED BY <3>1
  <2> QED BY <2>1, <2>2
<1>7. fork \in Seq(All)
  <2>1. \A w \in All : << w >> \in Seq(All) OBVIOUS
  <2> HIDE DEF All
  <2> QED BY <1>3, <1>4, <2>1
<1> HIDE DEF link, fork, trap, All
<1>8. link \o fork \in Seq(All) BY <1>6, <1>7
<1>9. << trap >> \in Seq(All) BY <1>5
<1>10. (link \o fork) \o << trap >> \in Seq(All) BY <1>8, <1>9
<1> QED BY <1>1, <1>10 DEF All

LEMMA WordBehind ==
  ASSUME program \in Programs, NEW s \in Word, Ends(s), NEW e, e = guestEnd(s),
         NEW off \in Nat, Len(Copied(s, e)) <= off, off < Len(Words(s))
  PROVE  /\ Words(s)[off + 1] \in Behind(program[e])
         /\ DoneBy(s, e, off) = {}
<1>0. e \in Nat /\ s \in Nat /\ s <= e /\ e \in Code /\ e \in s .. e BY BlockFacts
<1>1. PICK n : n = Len(Copied(s, e)) /\ n \in Nat BY <1>0, Lengths
<1>2. Words(s)[off + 1] \in Behind(program[e])
  <2>1. Joined(Words(s), Copied(s, e), Planted(e)) BY DEF Joined, Words
  <2>2. Copied(s, e) \in Seq(Runnable) /\ Planted(e) \in Seq(Runnable)
    BY <1>0, CopiedSteps, PlantedRuns
  <2>3. PICK ps, all, m : ps = Planted(e) /\ all = Words(s) /\ m = Len(ps) OBVIOUS
  <2>4. /\ Len(all) = n + m /\ m \in Nat /\ \A k \in 1 .. m : all[n + k] = ps[k]
    BY <1>1, <2>1, <2>2, <2>3, Appended
  <2>5. off < n + m /\ n <= off BY <1>1, <2>3, <2>4
  <2>6. (off - n) + 1 \in 1 .. m /\ n + ((off - n) + 1) = off + 1 BY <1>1, <2>4, <2>5
  <2>7. all[off + 1] = ps[(off - n) + 1] BY <2>4, <2>6
  <2>8. PICK B : B = Behind(program[e]) OBVIOUS
  <2>9. ps \in Seq(B) BY <1>0, <2>3, <2>8, PlantedBehind
  <2>10. \A k \in 1 .. m : ps[k] \in B BY <2>3, <2>9
  <2> QED BY <2>3, <2>6, <2>7, <2>8, <2>10
<1>3. DoneBy(s, e, off) = {}
  <2>1. ASSUME NEW b \in s + 1 .. e, Len(Copied(s, b)) = off + 1
        PROVE  FALSE
    <3>1. b \in s .. e /\ b \in Int BY <1>0
    <3>2. b = e \/ b < e BY <1>0, <3>1
    <3>3. b < e => Len(Copied(s, b)) < n BY <1>0, <1>1, <3>1, Lengths
    <3>4. off + 1 <= n BY <1>1, <2>1, <3>2, <3>3
    <3> QED BY <1>1, <3>4
  <2> QED BY <2>1 DEF DoneBy
<1> QED BY <1>2, <1>3

(* A planted word that does not trap leaves all but the link register.      *)
LEMMA BehindRuns ==
  ASSUME NEW i, NEW w \in Behind(i), NEW c \in Cores, w.op = "hypercall" => ~ Passed(w, c.z),
         NEW d, d = Execute(w, c, HostPC)
  PROVE  /\ d \in Cores /\ d.z = c.z /\ d.mem = c.mem /\ ~ Acks(w, c, HostPC)
         /\ ~ Faults(w, c, HostPC)
         /\ \A n \in Regs : n # LR \/ ~ (i.op = "b" /\ i.s /\ Passed(i, c.z)) => d.r[n] = c.r[n]
<1>1. CASE ~ Passed(w, c.z) BY <1>1, SkippedWord
<1>2. CASE Passed(w, c.z)
  <2>1. Links(i, w) BY <1>2 DEF Behind
  <2>2. w \in Runnable BY DEF Behind
  <2>3. w.op \in {"movw", "movt"} /\ w.d = LR /\ Passed(i, c.z) /\ i.op = "b" /\ i.s
    BY <1>2, <2>1 DEF Links, Passed
  <2>4. PICK v : d = Write(c, LR, v)
    <3>1. CASE w.op = "movw" BY <1>2, <2>3, <3>1, Zenon DEF Execute
    <3>2. CASE w.op = "movt" BY <1>2, <2>3, <3>2, Zenon DEF Execute
    <3> QED BY <2>3, <3>1, <3>2
  <2>5. LR # PC BY DEF LR, PC
  <2>6. Touched(w, c, HostPC) = {} BY <2>3, Zenon DEF Touched
  <2>7. ~ Acks(w, c, HostPC) /\ ~ Faults(w, c, HostPC) BY <2>3, <2>6 DEF Acks, Faults
  <2>8. d \in Cores
    <3>1. HostPC \in Word BY Numbers, WordArithmetic DEF HostPC, Word
    <3>2. Reaches(w, c, HostPC, Data) BY <2>6, <2>7 DEF Reaches
    <3> QED BY <2>2, <3>1, <3>2, ExecuteCore
  <2>9. d.z = c.z /\ d.mem = c.mem /\ \A n \in Regs : n # LR => d.r[n] = c.r[n]
    BY <2>4, <2>5 DEF Write, Cores
  <2> QED BY <2>3, <2>7, <2>8, <2>9
<1> QED BY <1>1, <1>2

-----------------------------------------------------------------------------
(* Where the guest is, in the terms of its machine: some words of the       *)
(* instruction at its PC have been executed, or those behind all            *)
(* instructions of the block.                                               *)
Within(ws, base, off, x, c) ==
  \E j \in Nat : /\ j < Len(ws) /\ off = base + j
                 /\ \E t : Runs(ws, t, j) /\ Twin(CoreOf(x), t[0]) /\ t[j] = c

Beyond(i, base, off, x, c) ==
  /\ base <= off /\ c.z = x.cpsr.z /\ c.mem = x.mem
  /\ \A n \in Regs : n # LR \/ ~ (i.op = "b" /\ i.s /\ Passed(i, c.z)) => c.r[n] = CoreOf(x).r[n]

At(s, off, x, c) ==
  /\ x.pc \in s .. guestEnd(s)
  /\ x.pc < guestEnd(s) => Within(WordsOf(x.pc), Len(Copied(s, x.pc)), off, x, c)
  /\ x.pc = guestEnd(s) => Beyond(program[x.pc], Len(Copied(s, x.pc)), off, x, c)

Position ==
  /\ ~ Priv => host.start = seen.pc /\ Twin(CoreOf(seen), core)
  /\ Priv /\ Ends(host.start) => At(host.start, host.off, seen, core)

Sim == Agrees(gc, seen) /\ (gc.irqPending => line) /\ Position

(* The machine has just come to the instruction.                            *)
LEMMA Arrives ==
  ASSUME program \in Programs, NEW s \in Word, Ends(s), NEW x \in Machine,
         x.pc \in s .. guestEnd(s), NEW off, off = Len(Copied(s, x.pc)),
         NEW c \in Cores, Twin(CoreOf(x), c)
  PROVE  At(s, off, x, c)
<1>1. PICK e : e = guestEnd(s) /\ e \in Nat /\ s \in Nat BY BlockFacts
<1>2. PICK a : a = x.pc /\ a \in s .. e BY <1>1
<1>3. off \in Nat BY <1>1, <1>2, Lengths
<1>4. ASSUME a < e PROVE Within(WordsOf(a), off, off, x, c)
  <2>1. a \in s .. e - 1 BY <1>1, <1>2, <1>4
  <2>2. 0 < Len(WordsOf(a)) BY <1>1, <2>1, Lengths
  <2>3. PICK t : t = [k \in {0} |-> c] OBVIOUS
  <2>4. t[0] = c /\ Runs(WordsOf(a), t, 0)
    <3>1. 0 .. 0 = {0} /\ 1 .. 0 = {} OBVIOUS
    <3> QED BY <2>3, <3>1 DEF Runs
  <2>5. 0 \in Nat /\ off = off + 0 BY <1>3
  <2> QED BY <2>2, <2>4, <2>5 DEF Within
<1>5. Beyond(program[a], off, off, x, c)
  <2>1. CoreOf(x).z = x.cpsr.z /\ CoreOf(x).mem = x.mem BY CoreOfMachine
  <2> QED BY <1>3, <2>1 DEF Beyond, Twin
<1> QED BY <1>1, <1>2, <1>4, <1>5 DEF At

LEMMA AtStays ==
  ASSUME program' = program, mmu' = mmu, program \in Programs,
         NEW s \in Word, Ends(s), NEW off, NEW x, NEW c, At(s, off, x, c)
  PROVE  At(s, off, x, c)'
<1>1. PICK e : e = guestEnd(s) /\ e \in Nat /\ s \in Nat BY BlockFacts
<1>2. PICK a : a = x.pc /\ a \in s .. e BY <1>1 DEF At
<1>3. guestEnd(s)' = e BY <1>1, BlockStays
<1>4. WordsOf(a)' = WordsOf(a) BY TranslatedHere DEF WordsOf
<1>5. Copied(s, a)' = Copied(s, a)
  <2>1. a \in Nat /\ s <= a BY <1>1, <1>2
  <2> QED BY <1>1, <2>1, CopiedStays
<1>6. PICK ws, base, i : ws = WordsOf(a) /\ base = Len(Copied(s, a)) /\ i = program[a] OBVIOUS
<1>7. /\ a < e => Within(ws, base, off, x, c)
      /\ a = e => Beyond(i, base, off, x, c)
  BY <1>1, <1>2, <1>6 DEF At
<1>8. WordsOf(a)' = ws /\ Len(Copied(s, a))' = base /\ program[a]' = i BY <1>4, <1>5, <1>6
<1>9. a \in s .. guestEnd(s)' BY <1>2, <1>3
<1>10. /\ a < guestEnd(s)' => Within(WordsOf(a)', Len(Copied(s, a))', off, x, c)
       /\ a = guestEnd(s)' => Beyond(program[a]', Len(Copied(s, a))', off, x, c)
  BY <1>3, <1>7, <1>8
<1> QED BY <1>2, <1>9, <1>10 DEF At

LEMMA PositionAfter ==
  ASSUME program' = program, mmu' = mmu, program \in Programs, NEW s \in Word, s = host'.start,
         NEW off, off = host'.off, NEW x, x = seen', NEW c, c = core',
         ~ Priv' => s = x.pc /\ Twin(CoreOf(x), c),
         Priv' /\ Ends(s) => At(s, off, x, c)
  PROVE  Position'
<1>1. Ends(s)' <=> Ends(s) BY EndsStays
<1>2. Ends(host.start)' <=> Ends(s)' OBVIOUS
<1>3. ASSUME Priv', Ends(host.start)' PROVE At(host.start, host.off, seen, core)'
  <2>1. Ends(s) BY <1>1, <1>2, <1>3
  <2>2. At(s, off, x, c)' BY <1>3, <2>1, AtStays
  <2> QED BY <2>2
<1>4. ~ Priv' => (host.start = seen.pc)' /\ Twin(CoreOf(seen), core)' BY DEF Twin, CoreOf, RegFile
<1> QED BY <1>3, <1>4 DEF Position

(* What the word w at off, which is one of the instruction's, may do.        *)
WithinSteps(s, e, x, a, i, p, c, off, w) ==
  /\ off \in Nat /\ w.op # "hypercall" /\ hostpcToGuestpc(s, off) = a
  /\ Faults(w, c, HostPC) =>
       /\ Faults(i, CoreOf(x), p) /\ c.z = CoreOf(x).z /\ c.mem = CoreOf(x).mem
       /\ \/ c.r = CoreOf(x).r
          \/ /\ i.op \in {"ldr", "ldrr"}
             /\ \E v \in Word : c.r = Write(CoreOf(x), i.d, v).r
  /\ \A d \in Cores :
       Reaches(w, c, HostPC, Where(w)) /\ d = Execute(w, c, HostPC) =>
         \/ /\ DoneBy(s, e, off) = {} /\ ~ Acks(w, c, HostPC)
            /\ Within(WordsOf(a), Len(Copied(s, a)), off + 1, x, d)
         \/ /\ DoneBy(s, e, off) = {a + 1} /\ off + 1 = Len(Copied(s, a + 1))
            /\ Done(i, CoreOf(x), p, d)
            /\ (Acks(i, CoreOf(x), p) <=> Acks(w, c, HostPC))

-----------------------------------------------------------------------------
(* A word of an instruction.                                                *)
LEMMA WithinStep ==
  ASSUME program \in Programs, NEW s \in Word, Ends(s), NEW e, e = guestEnd(s),
         NEW x \in Machine, NEW a \in s .. e - 1, a = x.pc, NEW i, i = program[a],
         NEW p, p = Plus(a, 2), Formed(i), Roomy(i, CoreOf(x), p),
         NEW c \in Cores, NEW off, Within(WordsOf(a), Len(Copied(s, a)), off, x, c),
         NEW w, w = Words(s)[off + 1]
  PROVE  WithinSteps(s, e, x, a, i, p, c, off, w)
<1>1. PICK base, ws : base = Len(Copied(s, a)) /\ ws = WordsOf(a) OBVIOUS
<1>2. /\ e \in Nat /\ s \in Nat /\ a \in Int /\ a \in s .. e /\ a \in Code /\ Copyable(i)
      /\ base \in Nat /\ Len(ws) \in Nat /\ Len(ws) > 0
      /\ Len(Copied(s, a + 1)) = base + Len(ws)
  <2>1. e \in Nat /\ s \in Nat /\ \A k \in s .. e : k \in Code BY BlockFacts
  <2>2. Copyable(i) BY BlockFacts
  <2>3. a \in Int /\ a \in s .. e BY <2>1
  <2> QED BY <1>1, <2>1, <2>2, <2>3, Lengths
<1>3. PICK j \in Nat : /\ j < Len(ws) /\ off = base + j
                       /\ \E t : Runs(ws, t, j) /\ Twin(CoreOf(x), t[0]) /\ t[j] = c
  BY <1>1 DEF Within
<1>4. PICK t : Runs(ws, t, j) /\ Twin(CoreOf(x), t[0]) /\ t[j] = c BY <1>3
<1>5. /\ w = ws[j + 1] /\ off \in Nat /\ hostpcToGuestpc(s, off) = a
      /\ j + 1 = Len(ws) => DoneBy(s, e, off) = {a + 1}
      /\ j + 1 # Len(ws) => DoneBy(s, e, off) = {}
  <2>1. j < Len(WordsOf(a)) /\ off = Len(Copied(s, a)) + j BY <1>1, <1>3
  <2>0. program \in Programs /\ s \in Word /\ Ends(s) /\ e = guestEnd(s) /\ a \in s .. e - 1
        /\ j \in Nat
    BY <1>3
  <2>2. /\ Words(s)[off + 1] = WordsOf(a)[j + 1] /\ off \in Nat
        /\ j + 1 = Len(WordsOf(a)) => DoneBy(s, e, off) = {a + 1}
        /\ j + 1 # Len(WordsOf(a)) => DoneBy(s, e, off) = {}
        /\ hostpcToGuestpc(s, off) = a
    BY ONLY <2>0, <2>1, WordAt
  <2> QED BY <1>1, <2>2
<1>6. ws = Translated(i, a) /\ a \in Word /\ i.op \in Ops
  BY <1>1, <1>2, VectorsAre DEF WordsOf, Copyable
<1>7. w.op # "hypercall"
  <2>1. \A k \in 1 .. Len(ws) : ws[k].op # "hypercall" BY <1>2, <1>6, TranslatedWords
  <2>2. j + 1 \in 1 .. Len(ws) BY <1>2, <1>3
  <2> QED BY <1>5, <2>1, <2>2
<1>8. t \in [0 .. j -> Cores] /\ t[0] \in Cores
  <2>1. 0 \in 0 .. j OBVIOUS
  <2> QED BY <1>4, <2>1 DEF Runs
<1>9. CoreOf(x) \in Cores BY CoreOfMachine
<1>10. PICK c0 \in Cores : c0 = t[0] /\ Twin(c0, CoreOf(x)) /\ Roomy(i, c0, p)
  <2>1. Twin(t[0], CoreOf(x)) BY <1>4 DEF Twin
  <2>2. Roomy(i, t[0], p) BY <1>6, <1>8, <1>9, <2>1, TwinDone
  <2> QED BY <1>8, <2>1, <2>2
<1>11. \A k \in 0 .. Len(ws) : \A u : Runs(ws, u, k) /\ u[0] = c0 => Simulated(i, c0, p, ws, u, k)
  BY <1>2, <1>6, <1>10, WordsSimulate
<1>12. Simulated(i, c0, p, ws, t, j)
  <2>1. j \in 0 .. Len(ws) BY <1>2, <1>3
  <2> QED BY <1>4, <1>10, <1>11, <2>1
<1>13. /\ Faults(w, c, HostPC) => Lost(i, c0, p, c)
       /\ j + 1 < Len(ws) => ~ Acks(w, c, HostPC)
  BY <1>3, <1>4, <1>5, <1>12 DEF Simulated
<1>14. Faults(w, c, HostPC) =>
         /\ Faults(i, CoreOf(x), p) /\ c.z = CoreOf(x).z /\ c.mem = CoreOf(x).mem
         /\ \/ c.r = CoreOf(x).r
            \/ /\ i.op \in {"ldr", "ldrr"}
               /\ \E v \in Word : c.r = Write(CoreOf(x), i.d, v).r
  BY <1>6, <1>9, <1>10, <1>13, TwinDone
<1>15. ASSUME NEW d \in Cores, Reaches(w, c, HostPC, Where(w)), d = Execute(w, c, HostPC)
       PROVE  \/ /\ DoneBy(s, e, off) = {} /\ ~ Acks(w, c, HostPC)
                 /\ Within(ws, base, off + 1, x, d)
              \/ /\ DoneBy(s, e, off) = {a + 1} /\ off + 1 = Len(Copied(s, a + 1))
                 /\ Done(i, CoreOf(x), p, d)
                 /\ (Acks(i, CoreOf(x), p) <=> Acks(w, c, HostPC))
  <2>1. PICK n : n = j + 1 /\ n \in Nat /\ n - 1 = j /\ n \in 1 .. Len(ws) BY <1>2, <1>3
  <2>2. PICK u : u = [k \in 0 .. n |-> IF k = n THEN d ELSE t[k]] OBVIOUS
  <2>3. /\ u[n] = d /\ (\A k \in 0 .. j : u[k] = t[k]) /\ u \in [0 .. n -> Cores]
    <3>1. \A k \in 0 .. n : k = n \/ k \in 0 .. j BY <2>1
    <3>2. \A k \in 0 .. j : k \in 0 .. n /\ k # n BY <2>1
    <3>3. n \in 0 .. n BY <2>1
    <3> QED BY <1>8, <2>2, <3>1, <3>2, <3>3
  <2>4. Runs(ws, u, n)
    <3>1. ASSUME NEW k \in 1 .. n
          PROVE  /\ Reaches(ws[k], u[k - 1], HostPC, Where(ws[k]))
                 /\ u[k] = Execute(ws[k], u[k - 1], HostPC)
      <4>1. CASE k = n
        <5>1. u[k - 1] = c /\ u[k] = d /\ ws[k] = w
          <6>1. k - 1 = j /\ j \in 0 .. j /\ ws[k] = ws[j + 1] BY <2>1, <4>1
          <6> QED BY <1>4, <1>5, <2>3, <4>1, <6>1
        <5> QED BY <1>15, <5>1
      <4>2. CASE k # n
        <5>1. k \in 1 .. j /\ k \in 0 .. j /\ k - 1 \in 0 .. j BY <2>1, <4>2
        <5>2. u[k - 1] = t[k - 1] /\ u[k] = t[k] BY <2>3, <5>1
        <5>3. /\ Reaches(ws[k], t[k - 1], HostPC, Where(ws[k]))
              /\ t[k] = Execute(ws[k], t[k - 1], HostPC)
          BY <1>4, <5>1 DEF Runs
        <5> QED BY <5>2, <5>3
      <4> QED BY <4>1, <4>2
    <3> QED BY <2>3, <3>1 DEF Runs
  <2>5. u[0] = c0 /\ 0 \in 0 .. j BY <1>10, <2>3
  <2>6. CASE n < Len(ws)
    <3>1. DoneBy(s, e, off) = {} BY <1>5, <2>1, <2>6
    <3>2. ~ Acks(w, c, HostPC) BY <1>13, <2>1, <2>6
    <3>3. off + 1 = base + n BY <1>2, <1>3, <2>1
    <3>4. Twin(CoreOf(x), u[0]) BY <1>10, <2>5 DEF Twin
    <3>5. Within(ws, base, off + 1, x, d) BY <2>1, <2>3, <2>4, <2>6, <3>3, <3>4 DEF Within
    <3> QED BY <3>1, <3>2, <3>5
  <2>7. CASE n = Len(ws)
    <3>1. DoneBy(s, e, off) = {a + 1} BY <1>5, <2>1, <2>7
    <3>2. off + 1 = Len(Copied(s, a + 1)) BY <1>2, <1>3, <2>1, <2>7
    <3>3. Simulated(i, c0, p, ws, u, n)
      <4>1. n \in 0 .. Len(ws) BY <2>1
      <4> QED BY <1>11, <2>4, <2>5, <4>1
    <3>4. Done(i, c0, p, u[n]) /\ (Acks(i, c0, p) <=> Acks(ws[n], u[n - 1], HostPC))
      BY <2>7, <3>3 DEF Simulated
    <3>5. u[n - 1] = c /\ ws[n] = w
      <4>1. n - 1 = j /\ j \in 0 .. j /\ ws[n] = ws[j + 1] BY <2>1
      <4> QED BY <1>4, <1>5, <2>3, <4>1
    <3>6. Done(i, CoreOf(x), p, d) BY <1>6, <1>9, <1>10, <2>3, <3>4, TwinDone
    <3>7. Acks(i, CoreOf(x), p) <=> Acks(w, c, HostPC) BY <1>10, <3>4, <3>5, TwinViews
    <3> QED BY <3>1, <3>2, <3>6, <3>7
  <2> QED BY <2>1, <2>6, <2>7
<1> QED BY <1>1, <1>5, <1>7, <1>14, <1>15 DEF WithinSteps

(* The machine with another core and at another address.                    *)
LEMMA MachineWith ==
  ASSUME NEW x \in Machine, NEW d \in Cores, NEW b \in Word, NEW y, y = GoTo(With(x, d), b)
  PROVE  /\ y \in Machine /\ y.pc = b /\ Twin(CoreOf(y), d)
         /\ y.cpsr.mode = x.cpsr.mode /\ y.cpsr.i = x.cpsr.i /\ y.cpsr.z = d.z
         /\ y.mem = d.mem /\ \A g : Agrees(g, x) => Agrees(g, y)
<1>1. PICK z : z = With(x, d) OBVIOUS
<1>2. /\ z \in Machine /\ (\A k \in Modes \ {x.cpsr.mode} : z.bank[k] = x.bank[k])
      /\ z.cpsr.mode = x.cpsr.mode /\ z.cpsr.i = x.cpsr.i /\ z.cpsr.z = d.z
      /\ z.spsr = x.spsr /\ z.mem = d.mem
  BY <1>1, WithFields
<1>3. /\ y \in Machine /\ y.pc = b /\ y.low = z.low /\ y.bank = z.bank /\ y.cpsr = z.cpsr
      /\ y.spsr = z.spsr /\ y.mem = z.mem
  BY <1>1, <1>2, GoToFields
<1>4. CoreOf(y) = CoreOf(z) BY <1>3 DEF CoreOf, RegFile
<1>5. Twin(CoreOf(y), d)
  <2>1. CoreOf(z) = [d EXCEPT !.tp = 0] BY <1>1, CoreOfWith
  <2> QED BY <1>4, <2>1 DEF Twin, Cores
<1>6. \A g : Agrees(g, x) => Agrees(g, y) BY <1>2, <1>3 DEF Agrees
<1> QED BY <1>2, <1>3, <1>5, <1>6

LEMMA MachineItself ==
  ASSUME NEW x \in Machine, NEW c \in Cores, Twin(CoreOf(x), c)
  PROVE  With(x, c) = x /\ GoTo(x, x.pc) = x
<1>1. c.r = CoreOf(x).r /\ c.z = x.cpsr.z /\ c.mem = x.mem BY CoreOfMachine DEF Twin
<1>2. With(x, c) = x BY <1>1, WithItself
<1>3. GoTo(x, x.pc) = x BY DEF GoTo, Machine
<1> QED BY <1>2, <1>3

(* What the translator is given: instructions of forms it gets right, and   *)
(* room for the register it spills.                                         *)
TranslatesWell ==
  Priv /\ seen.pc \in Code =>
    Formed(program[seen.pc]) /\ Roomy(program[seen.pc], CoreOf(seen), Plus(seen.pc, 2))

Stutters == seen' = seen /\ line' = line /\ program' = program

(* A word of a block that does not trap, or that is emulated.               *)
LEMMA WordStep ==
  ASSUME TypeInv, Position, TranslatesWell, InBlock, program' = program, mmu' = mmu,
         NEW w, w = ThisWord, w.op = "hypercall" => ~ Passed(w, core.z),
         Reaches(w, core, HostPC, Where(w)), NEW d \in Cores, d = Execute(w, core, HostPC),
         core' = d, gc'.cpsr.mode = gc.cpsr.mode, NEW g, NEW mem, NextWord(g, mem),
         \A a \in Word : Snapshot(g, mem, a) = GoTo(With(seen, d), a),
         line' = (line /\ ~ Acks(w, core, HostPC))
  PROVE  /\ Abstract!Next \/ Stutters
         /\ \A h : Agrees(h, seen) => Agrees(h, seen')
         /\ Position'
<1>1. PICK s, off, e, x, c : /\ s = host.start /\ off = host.off /\ e = guestEnd(s)
                             /\ x = seen /\ c = core
  OBVIOUS
<1>2. /\ program \in Programs /\ s \in Word /\ off \in Nat /\ x \in Machine /\ c \in Cores
      /\ line \in BOOLEAN
  BY <1>1, TypeFacts
<1>3. Priv /\ Ends(s) /\ off < Len(Words(s)) /\ At(s, off, x, c)
  BY <1>1, WordHere DEF InBlock, TypeInv, AtWord, Position
<1>4. w = Words(s)[off + 1] BY <1>1 DEF ThisWord
<1>5. /\ host' = [host EXCEPT !.off = host.off + 1]
      /\ DoneBy(s, e, off) = {} => seen' = x
      /\ \A b : DoneBy(s, e, off) = {b} => seen' = Snapshot(g, mem, b)
  BY <1>1 DEF NextWord, DoneBy
<1>6. host'.start = s /\ host'.off = off + 1
  <2>1. host \in Hosts BY TypeFacts
  <2> QED BY <1>1, <1>5, <2>1 DEF Hosts
<1>7. /\ e \in Nat /\ s \in Nat /\ e \in Code /\ \A k \in s .. e : k \in Code /\ k \in Word
  <2>1. e \in Nat /\ s \in Nat /\ e \in Code /\ \A k \in s .. e : k \in Code
    BY <1>1, <1>2, <1>3, BlockFacts
  <2> QED BY <2>1, VectorsAre
<1>8. PICK a : a = x.pc /\ a \in s .. e BY <1>1, <1>3 DEF At
<1>9. PICK i : i = program[a] OBVIOUS
<1>10. Formed(i) /\ Roomy(i, CoreOf(x), Plus(a, 2))
  <2>1. a \in Code BY <1>7, <1>8
  <2> QED BY <1>1, <1>3, <1>8, <1>9, <2>1 DEF TranslatesWell
<1>11. ASSUME NEW y, y = seen', At(s, off + 1, y, d)
       PROVE  Position'
  <2>1. Priv' BY <1>3 DEF Priv
  <2> QED BY <1>2, <1>6, <1>11, <2>1, PositionAfter
<1>12. CASE a < e
  <2>1. a \in s .. e - 1 /\ a \in Int /\ a + 1 \in s .. e BY <1>7, <1>8, <1>12
  <2>2. Within(WordsOf(a), Len(Copied(s, a)), off, x, c) BY <1>1, <1>3, <1>8, <1>12 DEF At
  <2>3. \/ /\ DoneBy(s, e, off) = {} /\ ~ Acks(w, c, HostPC)
           /\ Within(WordsOf(a), Len(Copied(s, a)), off + 1, x, d)
        \/ /\ DoneBy(s, e, off) = {a + 1} /\ off + 1 = Len(Copied(s, a + 1))
           /\ Done(i, CoreOf(x), Plus(a, 2), d)
           /\ (Acks(i, CoreOf(x), Plus(a, 2)) <=> Acks(w, c, HostPC))
    <3>1. Reaches(w, c, HostPC, Where(w)) /\ d = Execute(w, c, HostPC) BY <1>1
    <3>2. WithinSteps(s, e, x, a, i, Plus(a, 2), c, off, w)
      BY <1>1, <1>2, <1>3, <1>4, <1>8, <1>9, <1>10, <2>1, <2>2, WithinStep
    <3> QED BY <1>1, <3>1, <3>2 DEF WithinSteps
  <2>4. CASE /\ DoneBy(s, e, off) = {} /\ ~ Acks(w, c, HostPC)
             /\ Within(WordsOf(a), Len(Copied(s, a)), off + 1, x, d)
    <3>1. seen' = x BY <1>5, <2>4
    <3>2. line' = line BY <1>1, <1>2, <2>4
    <3>3. At(s, off + 1, x, d) BY <1>1, <1>7, <1>8, <1>12, <2>4 DEF At
    <3>4. Position' BY <1>11, <3>1, <3>3
    <3> QED BY <1>1, <3>1, <3>2, <3>4 DEF Stutters
  <2>5. CASE /\ DoneBy(s, e, off) = {a + 1} /\ off + 1 = Len(Copied(s, a + 1))
             /\ Done(i, CoreOf(x), Plus(a, 2), d)
             /\ (Acks(i, CoreOf(x), Plus(a, 2)) <=> Acks(w, c, HostPC))
    <3>1. PICK b : b = a + 1 /\ b \in s .. e /\ b \in Word BY <1>7, <2>1
    <3>2. PICK y : y = GoTo(With(x, d), b) OBVIOUS
    <3>3. seen' = y BY <1>1, <1>5, <2>5, <3>1, <3>2
    <3>4. /\ y \in Machine /\ y.pc = b /\ Twin(CoreOf(y), d)
          /\ \A h : Agrees(h, x) => Agrees(h, y)
      BY <1>2, <3>1, <3>2, MachineWith
    <3>5. At(s, off + 1, y, d)
      <4>1. y.pc \in s .. guestEnd(s) /\ off + 1 = Len(Copied(s, y.pc))
        BY <1>1, <2>5, <3>1, <3>4
      <4> QED BY <1>2, <1>3, <3>4, <4>1, Arrives
    <3>6. Position' BY <1>11, <3>3, <3>5
    <3>7. b = Plus(a, 1)
      <4>1. Modulus \in Nat /\ Modulus > 0 /\ b \in 0 .. Modulus - 1 BY <3>1, Numbers DEF Word
      <4>2. b % Modulus = b BY <4>1
      <4> QED BY <3>1, <4>2 DEF Plus
    <3>8. Abstract!Next
      <4>1. /\ seen \in Machine /\ seen.pc \in Code /\ i = program[seen.pc] /\ Copyable(i)
            /\ Plus(a, 2) = Plus(seen.pc, 2)
        BY <1>1, <1>2, <1>3, <1>7, <1>8, <1>9, <2>1, BlockFacts
      <4>2. Done(i, CoreOf(seen), Plus(seen.pc, 2), d) BY <1>1, <1>8, <2>5
      <4>3. line' = (line /\ ~ Acks(i, CoreOf(seen), Plus(seen.pc, 2))) BY <1>1, <1>8, <2>5
      <4>4. seen' = GoTo(With(seen, d), Plus(seen.pc, 1)) BY <1>1, <1>8, <3>2, <3>3, <3>7
      <4> QED BY <4>1, <4>2, <4>3, <4>4, CopiedStep
    <3> QED BY <1>1, <3>3, <3>4, <3>6, <3>8
  <2> QED BY <2>3, <2>4, <2>5
<1>13. CASE a = e
  <2>1. Beyond(i, Len(Copied(s, e)), off, x, c) BY <1>1, <1>3, <1>8, <1>9, <1>13 DEF At
  <2>2. Len(Copied(s, e)) <= off BY <2>1 DEF Beyond
  <2>3. w \in Behind(i) /\ DoneBy(s, e, off) = {}
    BY <1>1, <1>2, <1>3, <1>4, <1>9, <1>13, <2>2, WordBehind
  <2>4. /\ d.z = c.z /\ d.mem = c.mem /\ ~ Acks(w, c, HostPC)
        /\ \A n \in Regs : n # LR \/ ~ (i.op = "b" /\ i.s /\ Passed(i, c.z)) => d.r[n] = c.r[n]
    BY <1>1, <1>2, <2>3, BehindRuns
  <2>5. seen' = x BY <1>5, <2>3
  <2>6. line' = line BY <1>1, <1>2, <2>4
  <2>7. Beyond(i, Len(Copied(s, e)), off + 1, x, d)
    <3>1. Len(Copied(s, e)) <= off + 1
      <4>1. PICK n : n = Len(Copied(s, e)) /\ n \in Nat
        <5>1. e \in s .. e BY <1>8, <1>13
        <5> QED BY <1>1, <1>2, <1>3, <5>1, Lengths
      <4> QED BY <1>2, <2>2, <4>1
    <3> QED BY <2>1, <2>4, <3>1 DEF Beyond
  <2>8. At(s, off + 1, x, d) BY <1>1, <1>7, <1>8, <1>9, <1>13, <2>7 DEF At
  <2>9. Position' BY <1>11, <2>5, <2>8
  <2> QED BY <1>1, <2>5, <2>6, <2>9 DEF Stutters
<1>14. a < e \/ a = e BY <1>7, <1>8
<1> QED BY <1>12, <1>13, <1>14

LEMMA SimAfter ==
  ASSUME NEW g, g = gc', NEW y, y = seen', Agrees(g, y), g.irqPending => line', Position'
  PROVE  Sim'
<1>1. Agrees(gc', seen') BY Zenon
<1>2. gc'.irqPending => line' BY Zenon
<1>3. Agrees(gc, seen)' BY <1>1 DEF Agrees
<1> QED BY <1>2, <1>3 DEF Sim

LEMMA RunWordSim ==
  ASSUME TypeInv, gc.vector = gc.cpsr.mode, Sim, TranslatesWell, RunWord,
         program' = program, mmu' = mmu
  PROVE  (Abstract!Next \/ Stutters) /\ Sim'
<1>1. PICK w, where, d :
        /\ w = ThisWord /\ d = core'
        /\ where = IF w.op \in {"str", "stm"} THEN Data \ {TableWord} ELSE Data
        /\ InBlock /\ (w.op = "hypercall" => ~ Passed(w, core.z))
        /\ Reaches(w, core, HostPC, where) /\ d = Execute(w, core, HostPC)
        /\ NextWord(SavedFrom(d), d.mem) /\ gc' = gc /\ line' = line
  BY DEF RunWord
<1>2. d \in Cores
  <2>1. TypeInv' BY RunWordTypes
  <2> QED BY <1>1, <2>1 DEF TypeInv, TypeOK
<1>3. where \subseteq Data /\ where \subseteq Where(w) /\ Ack \notin Data
  BY <1>1, CoreAssumption DEF Where
<1>4. Reaches(w, core, HostPC, Where(w)) /\ ~ Acks(w, core, HostPC)
  <2>1. Reaches(w, core, HostPC, Where(w)) BY <1>1, <1>3 DEF Reaches
  <2>2. ASSUME Acks(w, core, HostPC) PROVE FALSE
    <3>1. Passed(w, core.z) /\ w.op = "str" /\ Address(w, core, HostPC) = Ack BY <2>2 DEF Acks
    <3>2. Touched(w, core, HostPC) = {Ack} BY <3>1, Zenon DEF Touched
    <3> QED BY <1>1, <1>3, <3>1, <3>2 DEF Reaches
  <2> QED BY <2>1, <2>2
<1>5. \A a \in Word : Snapshot(SavedFrom(d), d.mem, a) = GoTo(With(seen, d), a)
  BY <1>2, TypeFacts, SavedMachine DEF Sim
<1>6. line' = (line /\ ~ Acks(w, core, HostPC)) BY <1>1, <1>4, TypeFacts
<1>7. /\ Abstract!Next \/ Stutters
      /\ \A h : Agrees(h, seen) => Agrees(h, seen')
      /\ Position'
  <2>1. PICK g, mem : g = SavedFrom(d) /\ mem = d.mem OBVIOUS
  <2> QED BY <1>1, <1>2, <1>4, <1>5, <1>6, <2>1, WordStep DEF Sim
<1>8. Sim'
  <2>1. Agrees(gc, seen') /\ (gc.irqPending => line') BY <1>1, <1>7 DEF Sim
  <2> QED BY <1>1, <1>7, <2>1, SimAfter
<1> QED BY <1>7, <1>8

(* The handler of a store does not change the registers, so that it leaves  *)
(* the context as it was saved.                                             *)
LEMMA StoreLeaves ==
  ASSUME gc \in Context, gc.vector = gc.cpsr.mode, core \in Cores,
         NEW c \in Cores, c.r = core.r, c.z = core.z
  PROVE  SavedFrom(c) = Saved /\ SetRegisters(Saved, c) = Saved
<1>1. SavedFrom(c) = SavedFrom(core) BY DEF SavedFrom
<1>2. PICK g : g = SavedFrom(core) OBVIOUS
<1>3. /\ g \in Context /\ (\A n \in Low : g.low[n] = c.r[n])
      /\ (\A n \in Banked : g.bank[gc.vector][n] = c.r[n])
      /\ g.cpsr.mode = gc.vector
  BY <1>2, SavedFields
<1>4. PICK low, b, md : /\ low = [n \in Low |-> c.r[n]] /\ b = [n \in Banked |-> c.r[n]]
                        /\ md = g.cpsr.mode
  OBVIOUS
<1>5. g.low \in [Low -> Word] /\ g.bank \in [Modes -> [Banked -> Word]] /\ md \in Modes
  BY <1>3, <1>4, ContextFields
<1>6. low = g.low BY <1>3, <1>4, <1>5
<1>7. b = g.bank[md]
  <2>1. g.bank[md] \in [Banked -> Word] BY <1>5
  <2> QED BY <1>3, <1>4, <2>1
<1>8. SetRegisters(g, c) = [g EXCEPT !.low = low, !.bank[md] = b] BY <1>4 DEF SetRegisters
<1>9. [g EXCEPT !.low = low] = g BY <1>3, <1>6 DEF Context
<1>10. [g EXCEPT !.bank[md] = b] = g
  <2>1. [g.bank EXCEPT ![md] = b] = g.bank BY <1>5, <1>7
  <2> QED BY <1>3, <2>1 DEF Context
<1>11. SetRegisters(g, c) = g
  <2>1. PICK h : h = [g EXCEPT !.low = low] OBVIOUS
  <2>2. SetRegisters(g, c) = [h EXCEPT !.bank[md] = b] BY <1>8, <2>1
  <2> QED BY <1>9, <1>10, <2>1, <2>2
<1> QED BY <1>1, <1>2, <1>11 DEF Saved

LEMMA EmulatedStoreSim ==
  ASSUME TypeInv, gc.vector = gc.cpsr.mode, Sim, TranslatesWell, EmulatedStore,
         program' = program, mmu' = mmu, line /\ ~ line' => ~ gc.irqPending
  PROVE  (Abstract!Next \/ Stutters) /\ Sim'
<1>1. AsCore(Saved) = core /\ Restored(Saved) = core /\ Saved \in Context
  <2>1. Saved \in Context BY TypeFacts, SavedContext DEF Saved
  <2> QED BY <2>1, TypeFacts, AsCoreRestored, SavedRestored
<1>2. PICK w, c, g : /\ w = ThisWord /\ c = Execute(w, core, HostPC) /\ g = SetRegisters(Saved, c)
  OBVIOUS
<1>3. /\ InBlock /\ w.op = "str" /\ Passed(w, core.z)
      /\ Address(w, core, HostPC) \in {Ack, TableWord}
      /\ gc' = g /\ core' = [Restored(g) EXCEPT !.mem = c.mem]
      /\ line' = (line /\ ~ Acks(w, core, HostPC)) /\ NextWord(g, c.mem)
  BY <1>1, <1>2 DEF EmulatedStore
<1>4. Reaches(w, core, HostPC, Where(w))
  <2>1. Touched(w, core, HostPC) = {Address(w, core, HostPC)} BY <1>3, Zenon DEF Touched
  <2>2. Where(w) = Data \cup {Ack} BY <1>3 DEF Where
  <2> QED BY <1>3, <2>1, <2>2, CoreAssumption DEF Reaches, Faults
<1>5. PICK m : m = Stored(w, core, HostPC) /\ m \in [Data -> Word] /\ c = [core EXCEPT !.mem = m]
  <2>1. w \in Runnable BY <1>2, <1>3, WordHere
  <2>2. Stored(w, core, HostPC) \in [Data -> Word] BY <2>1, TypeFacts, StoredWords
  <2>3. c = [core EXCEPT !.mem = Stored(w, core, HostPC)] BY <1>2, <1>3, Zenon DEF Execute
  <2> QED BY <2>2, <2>3
<1>6. c \in Cores /\ c.r = core.r /\ c.z = core.z /\ c.mem = m
  <2>1. core \in Cores BY TypeFacts
  <2>2. c \in Cores BY <1>5, <2>1, CoreFields
  <2> QED BY <1>5, <2>1, <2>2 DEF Cores
<1>7. g = Saved /\ g = SavedFrom(c) BY <1>2, <1>6, TypeFacts, StoreLeaves
<1>8. core' = c BY <1>1, <1>3, <1>5, <1>6, <1>7
<1>9. \A a \in Word : Snapshot(g, c.mem, a) = GoTo(With(seen, c), a)
  BY <1>6, <1>7, TypeFacts, SavedMachine DEF Sim
<1>10. /\ g.cpsr.mode = gc.cpsr.mode /\ g.cpsr.i = gc.cpsr.i /\ g.spsr = gc.spsr
       /\ g.irqPending = gc.irqPending /\ \A k \in Modes \ {gc.cpsr.mode} : g.bank[k] = gc.bank[k]
  <2>1. gc \in Context /\ c \in Cores BY <1>6, TypeFacts
  <2>2. PICK v : v = gc.vector /\ v = gc.cpsr.mode OBVIOUS
  <2>3. /\ (\A k \in Modes \ {gc.vector} : SavedFrom(c).bank[k] = gc.bank[k])
        /\ SavedFrom(c).cpsr.mode = gc.cpsr.mode /\ SavedFrom(c).cpsr.i = gc.cpsr.i
        /\ SavedFrom(c).spsr = gc.spsr /\ SavedFrom(c).irqPending = gc.irqPending
    BY ONLY <2>1, SavedFields
  <2> QED BY <1>7, <2>2, <2>3
<1>11. /\ Abstract!Next \/ Stutters
       /\ \A h : Agrees(h, seen) => Agrees(h, seen')
       /\ Position'
  <2>1. PICK mem : mem = c.mem OBVIOUS
  <2>2. w.op # "hypercall" BY <1>3
  <2>3. gc'.cpsr.mode = gc.cpsr.mode BY <1>3, <1>10
  <2> QED BY <1>2, <1>3, <1>4, <1>6, <1>8, <1>9, <2>1, <2>2, <2>3, WordStep DEF Sim
<1>12. Sim'
  <2>1. Agrees(g, seen) BY <1>10 DEF Sim, Agrees
  <2>2. Agrees(g, seen') BY <1>11, <2>1
  <2>3. g.irqPending => line' BY <1>3, <1>10, TypeFacts DEF Sim
  <2> QED BY <1>3, <1>11, <2>2, <2>3, SimAfter
<1> QED BY <1>11, <1>12

-----------------------------------------------------------------------------
(* The handlers of exceptions.                                              *)
LEMMA ResumePlaced ==
  ASSUME TypeInv, program' = program, mmu' = mmu, NEW g \in Context, ResumeAt(g),
         g.irqPending => line'
  PROVE  Sim' /\ seen' = Snapshot(g, core.mem, g.r15)
<1>1. PICK s, x, c : s = g.r15 /\ x = Snapshot(g, core.mem, s) /\ c = Restored(g) OBVIOUS
<1>2. s \in Word BY <1>1, ContextFields
<1>3. gc' = g /\ core' = c /\ host' = [start |-> s, off |-> 0] /\ seen' = x
  BY <1>1 DEF ResumeAt
<1>4. x \in Machine /\ x.pc = s /\ Agrees(g, x) BY <1>1, <1>2, TypeFacts, SnapshotFields
<1>5. c \in Cores BY <1>1, TypeFacts, RestoredCore
<1>6. Twin(CoreOf(x), c)
  <2>1. c = [CoreOf(x) EXCEPT !.tp = core.tp] BY <1>1, <1>2, TypeFacts, RestoredMachine
  <2>2. CoreOf(x) \in Cores BY <1>4, CoreOfMachine
  <2> QED BY <2>1, <2>2 DEF Twin, Cores
<1>7. ASSUME Ends(s) PROVE At(s, 0, x, c)
  <2>1. program \in Programs BY TypeFacts
  <2>2. s \in s .. guestEnd(s) BY <1>2, <1>7, <2>1, BlockFacts
  <2>3. Len(Copied(s, s)) = 0 BY <1>2, <1>7, <2>1, Lengths
  <2>4. PICK off : off = 0 OBVIOUS
  <2>5. x.pc \in s .. guestEnd(s) /\ off = Len(Copied(s, x.pc)) BY <1>4, <2>2, <2>3, <2>4
  <2>6. At(s, off, x, c) BY <1>2, <1>4, <1>5, <1>6, <1>7, <2>1, <2>5, Arrives
  <2> QED BY <2>4, <2>6
<1>8. Position'
  <2>1. PICK off : off = 0 OBVIOUS
  <2>2. s = host'.start /\ off = host'.off BY <1>3, <2>1
  <2>3. Ends(s) => At(s, off, x, c) BY <1>7, <2>1
  <2> QED BY <1>2, <1>3, <1>4, <1>6, <2>2, <2>3, TypeFacts, PositionAfter
<1>9. Sim' BY <1>3, <1>4, <1>8, SimAfter
<1> QED BY <1>1, <1>3, <1>9

(* The end of softwareInterrupt: the pending interrupt is delivered.        *)
LEMMA PendingPlaced ==
  ASSUME TypeInv, program' = program, mmu' = mmu, line' = line, NEW h \in Context,
         ResumeAt(PendingDelivered(h)), h.irqPending => line,
         NEW y, y = Snapshot(h, core.mem, h.r15)
  PROVE  /\ Sim'
         /\ \/ seen' = y
            \/ line /\ ~ y.cpsr.i /\ seen' = Exception(y, "irq", IrqVector, Plus(y.pc, 1))
<1>1. h.r15 \in Word /\ core.mem \in [Data -> Word] BY ContextFields, TypeFacts
<1>2. y.cpsr = h.cpsr /\ y.pc = h.r15 BY <1>1, SnapshotFields
<1>3. CASE ~ (h.irqPending /\ ~ h.cpsr.i)
  <2>1. PendingDelivered(h) = h BY <1>3 DEF PendingDelivered
  <2>2. ResumeAt(h) /\ (h.irqPending => line') BY <2>1
  <2> QED BY <2>2, ResumePlaced
<1>4. CASE h.irqPending /\ ~ h.cpsr.i
  <2>1. PICK d : d = Delivered(h, "irq", 1, IrqVector) OBVIOUS
  <2>2. d \in Context BY <2>1, VectorsAre, DeliveredContext
  <2>3. /\ Snapshot(d, core.mem, IrqVector) = Exception(y, "irq", IrqVector, Plus(h.r15, 1))
        /\ d.r15 = IrqVector
    <3>1. PICK md, k, mem : md = "irq" /\ k = 1 /\ mem = core.mem OBVIOUS
    <3>2. md \in Modes \ {"usr"} /\ k \in Int /\ IrqVector \in Word /\ mem \in [Data -> Word]
          /\ h \in Context
      BY <1>1, <3>1, VectorsAre
    <3>3. PICK e : e = Delivered(h, md, k, IrqVector) OBVIOUS
    <3>4. /\ Snapshot(e, mem, IrqVector)
               = Exception(Snapshot(h, mem, h.r15), md, IrqVector, Plus(h.r15, k))
          /\ e.r15 = IrqVector
      BY ONLY <3>2, <3>3, DeliveredMachine
    <3> QED BY <2>1, <3>1, <3>3, <3>4
  <2>4. PICK f : f = [d EXCEPT !.irqPending = FALSE] OBVIOUS
  <2>5. PendingDelivered(h) = f BY <1>4, <2>1, <2>4 DEF PendingDelivered, deliverInterrupt
  <2>6. f \in Context BY <2>2, <2>4, ContextChanges
  <2>7. /\ f.low = d.low /\ f.bank = d.bank /\ f.cpsr = d.cpsr /\ f.spsr = d.spsr /\ f.r15 = d.r15
        /\ ~ f.irqPending
    BY <2>2, <2>4 DEF Context
  <2>8. Snapshot(f, core.mem, f.r15) = Snapshot(d, core.mem, IrqVector)
    BY <2>3, <2>7 DEF Snapshot
  <2>9. Sim' /\ seen' = Snapshot(f, core.mem, f.r15) BY <2>5, <2>6, <2>7, ResumePlaced
  <2> QED BY <1>2, <1>4, <2>3, <2>8, <2>9
<1> QED BY <1>3, <1>4

(* What a handler finds: the guest's machine with the core as it is.        *)
LEMMA SavedAt ==
  ASSUME TypeInv, gc.vector = gc.cpsr.mode, Sim, NEW a \in Word, NEW g, g = WritePC(Saved, a)
  PROVE  /\ g \in Context /\ g.r15 = a /\ g.cpsr.mode = gc.cpsr.mode
         /\ g.irqPending => line
         /\ Snapshot(g, core.mem, a) = GoTo(With(seen, core), a)
<1>1. PICK h, mem : h = SavedFrom(core) /\ mem = core.mem OBVIOUS
<1>2. h \in Context /\ h.cpsr.mode = gc.cpsr.mode /\ h.irqPending = gc.irqPending
  BY <1>1, TypeFacts, SavedContext
<1>3. g = WritePC(h, a) BY <1>1 DEF Saved
<1>4. g \in Context /\ g.r15 = a /\ g.low = h.low /\ g.bank = h.bank /\ g.cpsr = h.cpsr
      /\ g.spsr = h.spsr /\ g.irqPending = h.irqPending
  <2>1. h \in Context BY <1>2
  <2>2. g \in Context /\ g.r15 = a /\ g.cpsr = h.cpsr /\ g.irqPending = h.irqPending
    BY ONLY a \in Word, <2>1, <1>3, WritePCContext
  <2>3. g = [h EXCEPT !.r15 = a] BY ONLY <1>3 DEF WritePC
  <2>4. g.low = h.low /\ g.bank = h.bank /\ g.spsr = h.spsr
    BY ONLY <2>1, <2>3 DEF Context
  <2> QED BY <2>2, <2>4
<1>5. Snapshot(g, mem, a) = Snapshot(h, mem, a) BY <1>4 DEF Snapshot
<1>6. Snapshot(h, mem, a) = GoTo(With(seen, core), a)
  BY <1>1, TypeFacts, SavedMachine DEF Sim
<1> QED BY <1>1, <1>2, <1>4, <1>5, <1>6 DEF Sim

(* An exception that is delivered where the guest is.                       *)
LEMMA DeliveredAt ==
  ASSUME TypeInv, gc.vector = gc.cpsr.mode, Sim, NEW a \in Word, NEW g, g = WritePC(Saved, a),
         NEW md \in Modes \ {"usr"}, NEW k \in Int, NEW v \in Word,
         NEW h, h = Delivered(g, md, k, v)
  PROVE  /\ h \in Context /\ (h.irqPending => line) /\ h.r15 = v
         /\ Snapshot(h, core.mem, v) = Exception(GoTo(With(seen, core), a), md, v, Plus(a, k))
<1>1. /\ g \in Context /\ g.r15 = a /\ (g.irqPending => line)
      /\ Snapshot(g, core.mem, a) = GoTo(With(seen, core), a)
  BY SavedAt
<1>2. h \in Context BY <1>1, DeliveredContext
<1>3. PICK mem : mem = core.mem /\ mem \in [Data -> Word] BY TypeFacts
<1>4. /\ Snapshot(h, mem, v) = Exception(Snapshot(g, mem, g.r15), md, v, Plus(g.r15, k))
      /\ h.r15 = v /\ h.irqPending = g.irqPending
  BY <1>1, <1>3, DeliveredMachine
<1> QED BY <1>1, <1>2, <1>3, <1>4

(* The guest in user mode is where its machine is.                          *)
LEMMA PlaceFacts ==
  ASSUME TypeInv, Sim, InPlace
  PROVE  /\ host.start = seen.pc /\ Twin(CoreOf(seen), core) /\ Twin(core, CoreOf(seen))
         /\ seen.pc \in Code /\ seen.pc \in Word /\ CoreOf(seen) \in Cores
         /\ CoreOf(seen).z = core.z /\ UserInstr = program[seen.pc]
         /\ With(seen, core) = seen /\ GoTo(seen, seen.pc) = seen
         /\ UserInstr.op \in Ops /\ Ack \notin Data
<1>1. host.start = seen.pc /\ Twin(CoreOf(seen), core) /\ seen.pc \in Code
  BY DEF Sim, Position, InPlace
<1>2. seen \in Machine /\ core \in Cores /\ program \in Programs BY TypeFacts
<1>3. With(seen, core) = seen /\ GoTo(seen, seen.pc) = seen BY <1>1, <1>2, MachineItself
<1>4. CoreOf(seen) \in Cores /\ seen.pc \in Word BY <1>2, CoreOfMachine, MachineFields
<1>5. UserInstr.op \in Ops BY <1>1, <1>2, ProgramAssumption DEF UserInstr
<1> QED BY <1>1, <1>3, <1>4, <1>5, CoreAssumption DEF Twin, UserInstr

LEMMA ServiceCallSim ==
  ASSUME TypeInv, gc.vector = gc.cpsr.mode, Sim, ServiceCall, program' = program, mmu' = mmu
  PROVE  Abstract!Next /\ Sim'
<1>1. /\ InPlace /\ UserInstr.op = "svc" /\ Passed(UserInstr, core.z) /\ line' = line
      /\ ResumeAt(PendingDelivered(deliverServiceCall(WritePC(Saved, host.start))))
  BY DEF ServiceCall
<1>2. PICK a, i, h, y : /\ a = seen.pc /\ i = program[a]
                        /\ h = Delivered(WritePC(Saved, a), "svc", 1, SvcVector)
                        /\ y = Snapshot(h, core.mem, h.r15)
  OBVIOUS
<1>3. /\ host.start = a /\ Twin(CoreOf(seen), core) /\ a \in Code /\ a \in Word
      /\ CoreOf(seen).z = core.z /\ UserInstr = i
      /\ With(seen, core) = seen /\ GoTo(seen, a) = seen
  BY <1>1, <1>2, PlaceFacts
<1>4. /\ h \in Context /\ (h.irqPending => line) /\ h.r15 = SvcVector
      /\ Snapshot(h, core.mem, SvcVector)
           = Exception(GoTo(With(seen, core), a), "svc", SvcVector, Plus(a, 1))
  <2>1. PICK md, k : md = "svc" /\ k = 1 /\ md \in Modes \ {"usr"} /\ k \in Int BY VectorsAre
  <2>2. SvcVector \in Word /\ h = Delivered(WritePC(Saved, a), md, k, SvcVector)
    BY <1>2, <2>1, VectorsAre
  <2>3. /\ h \in Context /\ (h.irqPending => line) /\ h.r15 = SvcVector
        /\ Snapshot(h, core.mem, SvcVector)
             = Exception(GoTo(With(seen, core), a), md, SvcVector, Plus(a, k))
    BY <1>3, <2>1, <2>2, DeliveredAt
  <2> QED BY <2>1, <2>3
<1>5. y = Exception(seen, "svc", SvcVector, Plus(a, 1)) BY <1>2, <1>3, <1>4
<1>6. y = After(seen, i)
  <2>1. Passed(i, CoreOf(seen).z) /\ i.op = "svc" BY <1>1, <1>3
  <2>2. After(seen, i) = Exception(seen, "svc", SvcVector, Plus(seen.pc, 1))
    BY <2>1, AfterControl
  <2> QED BY <1>2, <1>5, <2>2
<1>7. ResumeAt(PendingDelivered(h)) BY <1>1, <1>2, <1>3 DEF deliverServiceCall
<1>8. /\ Sim'
      /\ \/ seen' = y
         \/ line /\ ~ y.cpsr.i /\ seen' = Exception(y, "irq", IrqVector, Plus(y.pc, 1))
  BY <1>1, <1>2, <1>4, <1>7, PendingPlaced
<1>9. /\ Touched(i, CoreOf(seen), Plus(a, 2)) = {}
      /\ ~ Acks(i, CoreOf(seen), Plus(a, 2))
  <2>1. i.op = "svc" BY <1>1, <1>3
  <2>2. Touched(i, CoreOf(seen), Plus(a, 2)) = {} BY <2>1, Zenon DEF Touched
  <2> QED BY <2>1, <2>2 DEF Acks
<1>10. Reaches(i, CoreOf(seen), Plus(a, 2), Allowed(i)) BY <1>9 DEF Reaches, Faults
<1>11. line' = (line /\ ~ Acks(i, CoreOf(seen), Plus(a, 2))) BY <1>1, <1>9, TypeFacts
<1>12. PICK u : u = Plus(y.bank[seen.cpsr.mode][SP], -1) OBVIOUS
<1>13. \/ Alike(seen', y, u)
       \/ line /\ ~ y.cpsr.i /\ Alike(seen', Exception(y, "irq", IrqVector, Plus(y.pc, 1)), u)
  BY <1>8, AlikeItself
<1>14. Abstract!Next BY <1>2, <1>3, <1>6, <1>10, <1>11, <1>12, <1>13, InstructionStep
<1> QED BY <1>8, <1>14

LEMMA RunUserSim ==
  ASSUME TypeInv, gc.vector = gc.cpsr.mode, Sim, RunUser, program' = program, mmu' = mmu
  PROVE  Abstract!Next /\ Sim'
<1>1. PICK i, pc, next, where, c :
        /\ i = UserInstr /\ pc = Plus(host.start, 2)
        /\ next = IF i.op = "b" /\ Passed(i, core.z) THEN i.imm ELSE Plus(host.start, 1)
        /\ where = IF i.op \in {"str", "stm"} THEN Data \ {TableWord} ELSE Data
        /\ (i.op = "b" => ~ i.s) /\ (Replaced(i) => i.op = "b" \/ ~ Passed(i, core.z))
        /\ c = core' /\ InPlace /\ Reaches(i, core, pc, where) /\ c = Execute(i, core, pc)
        /\ host' = [host EXCEPT !.start = next] /\ seen' = Snapshot(SavedFrom(c), c.mem, next)
        /\ gc' = gc /\ line' = line
  BY DEF RunUser
<1>2. PICK a, e, d : /\ a = seen.pc /\ e = After(seen, i)
                     /\ d = Execute(i, CoreOf(seen), pc)
  OBVIOUS
<1>3. /\ host.start = a /\ Twin(CoreOf(seen), core) /\ a \in Code /\ a \in Word
      /\ CoreOf(seen).z = core.z /\ i = program[a] /\ CoreOf(seen) \in Cores
      /\ With(seen, core) = seen /\ GoTo(seen, a) = seen /\ i.op \in Ops /\ Ack \notin Data
  BY <1>1, <1>2, PlaceFacts
<1>4. c \in Cores
  <2>1. TypeInv' BY RunUserTypes
  <2> QED BY <1>1, <2>1 DEF TypeInv, TypeOK
<1>5. next \in Word /\ (i.op # "b" => next = Plus(a, 1)) /\ (~ Passed(i, core.z) => next = Plus(a, 1))
      /\ (i.op = "b" /\ Passed(i, core.z) => next = i.imm)
  <2>1. i.imm \in Word BY <1>3, TypeFacts, InstrFound
  <2>2. Plus(a, 1) \in Word
    <3>1. a \in Int /\ 1 \in Int BY <1>3, TypeFacts
    <3> QED BY <3>1, TypeFacts
  <2> QED BY <1>1, <1>3, <2>1, <2>2
<1>6. seen' = GoTo(With(seen, c), next)
  <2>1. gc \in Context /\ seen \in Machine /\ Agrees(gc, seen) BY TypeFacts DEF Sim
  <2>2. Snapshot(SavedFrom(c), c.mem, next) = GoTo(With(seen, c), next)
    BY <1>4, <1>5, <2>1, SavedMachine
  <2> QED BY <1>1, <2>2
<1>7. e = GoTo(With(seen, c), next)
  <2>1. CASE ~ Replaced(i)
    <3>1. i.op # "b" BY <2>1 DEF Replaced
    <3>2. e = GoTo(With(seen, d), Plus(a, 1))
      <4>1. seen \in Machine BY TypeFacts
      <4>2. After(seen, i)
              = GoTo(With(seen, Execute(i, CoreOf(seen), Plus(seen.pc, 2))), Plus(seen.pc, 1))
        BY <2>1, <4>1, AfterWhole
      <4> QED BY <1>1, <1>2, <1>3, <4>2
    <3>3. Twin(d, c) /\ d \in Cores
      <4>1. Twin(d, c)
        <5>1. PICK c0, c1 : c0 = CoreOf(seen) /\ c1 = core OBVIOUS
        <5>2. c0 \in Cores /\ c1 \in Cores /\ Twin(c0, c1) /\ i.op \in Ops
          BY <1>3, <5>1, TypeFacts
        <5>3. Twin(Execute(i, c0, pc), Execute(i, c1, pc)) BY ONLY <5>2, TwinExecute
        <5> QED BY <1>1, <1>2, <5>1, <5>3
      <4>2. d \in Cores
        <5>1. Reaches(i, CoreOf(seen), pc, where) BY <1>1, <1>3, TwinViews
        <5>2. i \in Runnable /\ pc \in Word /\ where \subseteq Data
          <6>1. i \in Runnable BY <1>3, TypeFacts, InstrFound
          <6>2. pc \in Word
            <7>1. a \in Int /\ 2 \in Int BY <1>3, TypeFacts
            <7> QED BY <1>1, <1>3, <7>1, TypeFacts
          <6> QED BY <1>1, <6>1, <6>2
        <5> QED BY <1>2, <1>3, <5>1, <5>2, ExecuteCore
      <4> QED BY <4>1, <4>2
    <3>4. With(seen, d) = With(seen, c) BY <1>4, <3>3, TwinWrites
    <3> QED BY <1>5, <3>1, <3>2, <3>4
  <2>2. CASE ~ Passed(i, core.z)
    <3>1. c = core BY <1>1, <2>2 DEF Execute
    <3>2. e = GoTo(seen, Plus(a, 1)) BY <1>2, <1>3, <2>2, AfterSkipped
    <3> QED BY <1>3, <1>5, <2>2, <3>1, <3>2
  <2>3. CASE i.op = "b" /\ ~ i.s /\ Passed(i, core.z)
    <3>1. c = core BY <1>1, <2>3, Zenon DEF Execute
    <3>2. e = GoTo(seen, i.imm)
      <4>1. Passed(i, CoreOf(seen).z) BY <1>3, <2>3
      <4> QED BY <1>2, <2>3, <4>1, AfterControl
    <3> QED BY <1>3, <1>5, <2>3, <3>1, <3>2
  <2> QED BY <1>1, <2>1, <2>2, <2>3
<1>8. PICK u : u = Plus(e.bank[seen.cpsr.mode][SP], -1) OBVIOUS
<1>9. Alike(seen', e, u) BY <1>6, <1>7, AlikeItself
<1>10. Reaches(i, CoreOf(seen), Plus(a, 2), Allowed(i))
  <2>1. where \subseteq Allowed(i) BY <1>1 DEF Allowed
  <2>2. Reaches(i, CoreOf(seen), Plus(a, 2), where) BY <1>1, <1>3, TwinViews
  <2> QED BY <2>1, <2>2 DEF Reaches
<1>11. line' = (line /\ ~ Acks(i, CoreOf(seen), Plus(a, 2)))
  <2>1. ASSUME Acks(i, CoreOf(seen), Plus(a, 2)) PROVE FALSE
    <3>1. /\ Passed(i, CoreOf(seen).z) /\ i.op = "str"
          /\ Address(i, CoreOf(seen), Plus(a, 2)) = Ack
      BY <2>1 DEF Acks
    <3>2. Touched(i, CoreOf(seen), Plus(a, 2)) = {Ack} BY <3>1, Zenon DEF Touched
    <3>3. Reaches(i, CoreOf(seen), Plus(a, 2), where) BY <1>1, <1>3, TwinViews
    <3>4. where \subseteq Data BY <1>1
    <3> QED BY <1>3, <3>1, <3>2, <3>3, <3>4 DEF Reaches
  <2> QED BY <1>1, <2>1, TypeFacts
<1>12. Abstract!Next BY <1>2, <1>3, <1>8, <1>9, <1>10, <1>11, InstructionStep
<1>13. PICK y : y = GoTo(With(seen, c), next) OBVIOUS
<1>14. y \in Machine /\ y.pc = next /\ Twin(CoreOf(y), c) /\ Agrees(gc, y)
  <2>1. seen \in Machine /\ Agrees(gc, seen) BY TypeFacts DEF Sim
  <2>2. PICK x : x = seen OBVIOUS
  <2>3. /\ y \in Machine /\ y.pc = next /\ Twin(CoreOf(y), c)
        /\ \A h : Agrees(h, x) => Agrees(h, y)
    BY <1>4, <1>5, <1>13, <2>1, <2>2, MachineWith
  <2> QED BY <2>1, <2>2, <2>3
<1>15. Position'
  <2>1. ~ Priv' BY <1>1 DEF InPlace, Priv
  <2>2. PICK off : off = host'.off OBVIOUS
  <2>3. next = host'.start
    <3>1. host \in Hosts BY TypeFacts
    <3> QED BY <1>1, <3>1 DEF Hosts
  <2> QED BY <1>1, <1>5, <1>6, <1>13, <1>14, <2>1, <2>2, <2>3, TypeFacts, PositionAfter
<1>16. Sim'
  <2>1. gc.irqPending => line' BY <1>1 DEF Sim
  <2> QED BY <1>1, <1>6, <1>13, <1>14, <1>15, <2>1, SimAfter
<1> QED BY <1>12, <1>16

(* A data abort with the registers of the machine, but perhaps for the      *)
(* destination of a load.                                                   *)
LEMMA AbortedAt ==
  ASSUME TypeInv, gc.vector = gc.cpsr.mode, Sim, program' = program, mmu' = mmu, line' = line,
         NEW a \in Word, a = seen.pc, a \in Code, NEW i, i = program[a],
         Faults(i, CoreOf(seen), Plus(a, 2)), ResumeAt(deliverDataAbort(WritePC(Saved, a))),
         core.z = CoreOf(seen).z, core.mem = CoreOf(seen).mem,
         \/ core.r = CoreOf(seen).r
         \/ i.op \in {"ldr", "ldrr"} /\ \E v \in Word : core.r = Write(CoreOf(seen), i.d, v).r
  PROVE  Abstract!Next /\ Sim'
<1>1. seen \in Machine /\ core \in Cores /\ program \in Programs /\ CoreOf(seen) \in Cores
  BY TypeFacts, CoreOfMachine
<1>2. PICK x : x = With(seen, core) OBVIOUS
<1>3. GoTo(x, a) = x
  <2>1. x \in Machine /\ x.pc = a BY <1>1, <1>2, WithFields
  <2> QED BY <2>1 DEF GoTo, Machine
<1>4. PICK h : h = Delivered(WritePC(Saved, a), "abt", 2, AbtVector) OBVIOUS
<1>5. /\ h \in Context /\ (h.irqPending => line) /\ h.r15 = AbtVector
      /\ Snapshot(h, core.mem, AbtVector) = Exception(x, "abt", AbtVector, Plus(a, 2))
  <2>1. PICK md, k : md = "abt" /\ k = 2 /\ md \in Modes \ {"usr"} /\ k \in Int BY VectorsAre
  <2>2. AbtVector \in Word /\ h = Delivered(WritePC(Saved, a), md, k, AbtVector)
    BY <1>4, <2>1, VectorsAre
  <2>3. /\ h \in Context /\ (h.irqPending => line) /\ h.r15 = AbtVector
        /\ Snapshot(h, core.mem, AbtVector)
             = Exception(GoTo(With(seen, core), a), md, AbtVector, Plus(a, k))
    BY <2>1, <2>2, DeliveredAt
  <2> QED BY <1>2, <1>3, <2>1, <2>3
<1>6. ResumeAt(h) BY <1>4 DEF deliverDataAbort
<1>7. Sim' /\ seen' = Exception(x, "abt", AbtVector, Plus(a, 2))
  <2>1. h.irqPending => line' BY <1>5
  <2> QED BY <1>5, <1>6, <2>1, ResumePlaced
<1>8. \/ x = seen
      \/ i.op \in {"ldr", "ldrr"} /\ \E v \in Word : x = With(seen, Write(CoreOf(seen), i.d, v))
  <2>1. CASE core.r = CoreOf(seen).r
    <3>1. Twin(CoreOf(seen), core) BY <2>1 DEF Twin
    <3> QED BY <1>1, <1>2, <3>1, MachineItself
  <2>2. CASE i.op \in {"ldr", "ldrr"} /\ \E v \in Word : core.r = Write(CoreOf(seen), i.d, v).r
    <3>1. PICK v \in Word : core.r = Write(CoreOf(seen), i.d, v).r BY <2>2
    <3>2. PICK c, d : c = CoreOf(seen) /\ d = Write(c, i.d, v) OBVIOUS
    <3>3. i.d \in Regs \cup {PC} BY <1>1, InstrFound, InstrFields DEF GuestInstr
    <3>4. d \in Cores BY <1>1, <3>2, <3>3, WriteCore
    <3>5. d.z = c.z /\ d.mem = c.mem BY <1>1, <3>2 DEF Write, Cores
    <3>6. Twin(d, core) BY <3>1, <3>2, <3>5 DEF Twin
    <3>7. With(seen, d) = With(seen, core) BY <1>1, <3>4, <3>6, TwinWrites
    <3> QED BY <1>2, <2>2, <3>2, <3>7
  <2> QED BY <2>1, <2>2
<1>9. Abstract!Next BY <1>7, <1>8, DataAbortStep
<1> QED BY <1>7, <1>9

LEMMA DataAbortSim ==
  ASSUME TypeInv, gc.vector = gc.cpsr.mode, Sim, TranslatesWell, DataAbort,
         program' = program, mmu' = mmu
  PROVE  Abstract!Next /\ Sim'
<1>1. line' = line BY DEF DataAbort
<1>2. CASE /\ InPlace /\ Faults(UserInstr, core, Plus(host.start, 2))
           /\ ResumeAt(deliverDataAbort(WritePC(Saved, host.start)))
  <2>1. PICK a, i : a = seen.pc /\ i = program[a] OBVIOUS
  <2>2. /\ host.start = a /\ Twin(core, CoreOf(seen)) /\ a \in Code /\ a \in Word /\ UserInstr = i
    BY <1>2, <2>1, PlaceFacts
  <2>3. Faults(i, CoreOf(seen), Plus(a, 2)) BY <1>2, <2>2, TwinViews
  <2>4. core.r = CoreOf(seen).r /\ core.z = CoreOf(seen).z /\ core.mem = CoreOf(seen).mem
    BY <2>2 DEF Twin
  <2>5. ResumeAt(deliverDataAbort(WritePC(Saved, a))) BY <1>2, <2>2
  <2> QED BY <1>1, <2>1, <2>2, <2>3, <2>4, <2>5, AbortedAt
<1>3. CASE /\ InBlock /\ Faults(ThisWord, core, HostPC)
           /\ ResumeAt(deliverDataAbort(WritePC(Saved, hostpcToGuestpc(host.start, host.off))))
  <2>1. PICK s, off, e, x, c, w : /\ s = host.start /\ off = host.off /\ e = guestEnd(s)
                                  /\ x = seen /\ c = core /\ w = ThisWord
    OBVIOUS
  <2>2. /\ program \in Programs /\ s \in Word /\ off \in Nat /\ x \in Machine /\ c \in Cores
    BY <2>1, TypeFacts
  <2>3. Priv /\ Ends(s) /\ off < Len(Words(s)) /\ At(s, off, x, c)
    BY <1>3, <2>1, WordHere DEF InBlock, TypeInv, AtWord, Sim, Position
  <2>4. w = Words(s)[off + 1] BY <2>1 DEF ThisWord
  <2>5. e \in Nat /\ s \in Nat /\ \A k \in s .. e : k \in Code /\ k \in Word
    <3>1. e \in Nat /\ s \in Nat /\ \A k \in s .. e : k \in Code BY <2>1, <2>2, <2>3, BlockFacts
    <3> QED BY <3>1, VectorsAre
  <2>6. PICK a : a = x.pc /\ a \in s .. e BY <2>1, <2>3 DEF At
  <2>7. PICK i, p : i = program[a] /\ p = Plus(a, 2) OBVIOUS
  <2>8. a # e
    <3>1. w.op \notin {"movw", "movt", "hypercall"}
      <4>1. Touched(w, c, HostPC) # {} BY <1>3, <2>1 DEF Faults
      <4>2. w.op \in {"movw", "movt", "hypercall"} => Touched(w, c, HostPC) = {}
        BY Zenon DEF Touched
      <4> QED BY <4>1, <4>2
    <3>2. ASSUME a = e PROVE FALSE
      <4>1. Len(Copied(s, e)) <= off BY <2>1, <2>3, <2>6, <3>2 DEF At, Beyond
      <4>2. w \in Behind(program[e]) BY <2>1, <2>2, <2>3, <2>4, <4>1, WordBehind
      <4> QED BY <3>1, <4>2 DEF Behind, Links
    <3> QED BY <3>2
  <2>9. a \in s .. e - 1 /\ a < e /\ a \in Code /\ a \in Word BY <2>5, <2>6, <2>8
  <2>10. Formed(i) /\ Roomy(i, CoreOf(x), p)
    BY <2>1, <2>3, <2>6, <2>7, <2>9 DEF TranslatesWell
  <2>11. Within(WordsOf(a), Len(Copied(s, a)), off, x, c) BY <2>1, <2>3, <2>6, <2>9 DEF At
  <2>12. /\ hostpcToGuestpc(s, off) = a
         /\ Faults(w, c, HostPC) =>
              /\ Faults(i, CoreOf(x), p) /\ c.z = CoreOf(x).z /\ c.mem = CoreOf(x).mem
              /\ \/ c.r = CoreOf(x).r
                 \/ /\ i.op \in {"ldr", "ldrr"}
                    /\ \E v \in Word : c.r = Write(CoreOf(x), i.d, v).r
    <3>1. WithinSteps(s, e, x, a, i, p, c, off, w)
      BY <2>1, <2>2, <2>3, <2>4, <2>6, <2>7, <2>9, <2>10, <2>11, WithinStep
    <3> QED BY <3>1 DEF WithinSteps
  <2>13. Faults(w, c, HostPC) /\ ResumeAt(deliverDataAbort(WritePC(Saved, a)))
    BY <1>3, <2>1, <2>12
  <2>14. /\ Faults(i, CoreOf(seen), Plus(a, 2))
         /\ core.z = CoreOf(seen).z /\ core.mem = CoreOf(seen).mem
         /\ \/ core.r = CoreOf(seen).r
            \/ /\ i.op \in {"ldr", "ldrr"}
               /\ \E v \in Word : core.r = Write(CoreOf(seen), i.d, v).r
    BY <2>1, <2>7, <2>12, <2>13
  <2> QED BY <1>1, <2>1, <2>6, <2>7, <2>9, <2>13, <2>14, AbortedAt
<1> QED BY <1>2, <1>3 DEF DataAbort

(* What moves neither the guest nor its machine.                            *)
LEMMA StandsStill ==
  ASSUME TypeInv, Sim, program' = program, mmu' = mmu, host' = host, seen' = seen, core' = core,
         gc'.cpsr.mode = gc.cpsr.mode
  PROVE  Position'
<1>1. PICK s, off, x, c : s = host.start /\ off = host.off /\ x = seen /\ c = core OBVIOUS
<1>2. /\ ~ Priv => s = x.pc /\ Twin(CoreOf(x), c)
      /\ Priv /\ Ends(s) => At(s, off, x, c)
  BY <1>1 DEF Sim, Position
<1>3. Priv' <=> Priv BY DEF Priv
<1>4. s \in Word /\ s = host'.start /\ off = host'.off /\ x = seen' /\ c = core'
  BY <1>1, TypeFacts
<1> QED BY <1>2, <1>3, <1>4, TypeFacts, PositionAfter

LEMMA TimerIrqSim ==
  ASSUME TypeInv, gc.vector = gc.cpsr.mode, Sim, TimerIrq, program' = program, mmu' = mmu
  PROVE  (Abstract!Next \/ Stutters) /\ Sim'
<1>1. PICK s, b, g : s = SavedFrom(core) /\ b = (s.irqPending \/ ~ gc.cpsr.i)
                     /\ g = [s EXCEPT !.irqPending = b]
  OBVIOUS
<1>2. line' = TRUE /\ gc' = g /\ core' = Restored(g) /\ host' = host /\ seen' = seen
  BY <1>1 DEF TimerIrq, Saved
<1>3. /\ s \in Context /\ s.cpsr.mode = gc.cpsr.mode /\ s.cpsr.i = gc.cpsr.i /\ s.spsr = gc.spsr
      /\ \A k \in Modes \ {gc.cpsr.mode} : s.bank[k] = gc.bank[k]
  <2>1. gc \in Context /\ core \in Cores BY TypeFacts
  <2>2. PICK v : v = gc.vector /\ v = gc.cpsr.mode OBVIOUS
  <2>3. /\ SavedFrom(core) \in Context
        /\ (\A k \in Modes \ {gc.vector} : SavedFrom(core).bank[k] = gc.bank[k])
        /\ SavedFrom(core).cpsr.mode = gc.cpsr.mode /\ SavedFrom(core).cpsr.i = gc.cpsr.i
        /\ SavedFrom(core).spsr = gc.spsr
    BY ONLY <2>1, SavedFields
  <2> QED BY <1>1, <2>2, <2>3
<1>4. g.low = s.low /\ g.bank = s.bank /\ g.cpsr = s.cpsr /\ g.spsr = s.spsr
  BY <1>1, <1>3 DEF Context
<1>5. core' = core
  <2>1. Restored(g) = Restored(s) BY <1>4 DEF Restored
  <2>2. Restored(s) = core BY <1>1, TypeFacts, SavedRestored DEF Saved
  <2> QED BY <1>2, <2>1, <2>2
<1>6. Position' BY <1>2, <1>3, <1>4, <1>5, StandsStill
<1>7. Agrees(g, seen) BY <1>3, <1>4 DEF Sim, Agrees
<1>8. Sim'
  <2>1. PICK x : x = seen OBVIOUS
  <2>2. g = gc' /\ x = seen' /\ Agrees(g, x) /\ (g.irqPending => line')
    BY <1>2, <1>7, <2>1
  <2> QED BY <1>6, <2>2, SimAfter
<1>9. Abstract!Next \/ Stutters
  <2>1. CASE line = TRUE BY <1>2, <2>1 DEF Stutters
  <2>2. CASE line = FALSE BY <1>2, <2>2, RaiseStep
  <2> QED BY <2>1, <2>2, TypeFacts
<1> QED BY <1>8, <1>9

LEMMA StutterSim ==
  ASSUME TypeInv, Sim, UNCHANGED vars
  PROVE  Stutters /\ Sim'
<1>1. /\ core' = core /\ gc' = gc /\ host' = host /\ line' = line /\ program' = program
      /\ mmu' = mmu /\ seen' = seen
  BY DEF vars
<1>2. Position' BY <1>1, StandsStill
<1>3. Sim'
  <2>1. PICK g, x : g = gc' /\ x = seen' OBVIOUS
  <2>2. Agrees(g, x) /\ (g.irqPending => line') BY <1>1, <2>1 DEF Sim
  <2> QED BY <1>2, <2>1, <2>2, SimAfter
<1> QED BY <1>1, <1>3 DEF Stutters

(* A machine whose core is replaced twice.                                  *)
Overlaid(x, c, y) ==
  /\ y \in Machine /\ (\A n \in Low : y.low[n] = c.r[n])
  /\ (\A n \in Banked : y.bank[x.cpsr.mode][n] = c.r[n])
  /\ (\A k \in Modes \ {x.cpsr.mode} : y.bank[k] = x.bank[k])
  /\ y.cpsr.mode = x.cpsr.mode /\ y.cpsr.i = x.cpsr.i /\ y.cpsr.z = c.z
  /\ y.spsr = x.spsr /\ y.pc = x.pc /\ y.mem = c.mem

LEMMA WithOverlays ==
  ASSUME NEW x \in Machine, NEW c \in Cores, NEW y, y = With(x, c)
  PROVE  Overlaid(x, c, y)
BY WithFields DEF Overlaid

LEMMA WithTwice ==
  ASSUME NEW x \in Machine, NEW c \in Cores, NEW d \in Cores
  PROVE  With(With(x, c), d) = With(x, d)
<1>1. PICK y, z, w : y = With(x, c) /\ z = With(y, d) /\ w = With(x, d) OBVIOUS
<1>2. /\ y \in Machine /\ (\A k \in Modes \ {x.cpsr.mode} : y.bank[k] = x.bank[k])
      /\ y.cpsr.mode = x.cpsr.mode /\ y.cpsr.i = x.cpsr.i /\ y.spsr = x.spsr /\ y.pc = x.pc
  BY <1>1, WithOverlays DEF Overlaid
<1>3. /\ z \in Machine /\ (\A n \in Low : z.low[n] = d.r[n])
      /\ (\A n \in Banked : z.bank[x.cpsr.mode][n] = d.r[n])
      /\ (\A k \in Modes \ {x.cpsr.mode} : z.bank[k] = x.bank[k])
      /\ z.cpsr.mode = x.cpsr.mode /\ z.cpsr.i = x.cpsr.i /\ z.cpsr.z = d.z
      /\ z.spsr = x.spsr /\ z.pc = x.pc /\ z.mem = d.mem
  <2>1. Overlaid(y, d, z) BY <1>1, <1>2, WithOverlays
  <2> QED BY <1>2, <2>1 DEF Overlaid
<1>4. /\ w \in Machine /\ (\A n \in Low : w.low[n] = d.r[n])
      /\ (\A n \in Banked : w.bank[x.cpsr.mode][n] = d.r[n])
      /\ (\A k \in Modes \ {x.cpsr.mode} : w.bank[k] = x.bank[k])
      /\ w.cpsr.mode = x.cpsr.mode /\ w.cpsr.i = x.cpsr.i /\ w.cpsr.z = d.z
      /\ w.spsr = x.spsr /\ w.pc = x.pc /\ w.mem = d.mem
  BY <1>1, WithOverlays DEF Overlaid
<1>5. z.low = w.low
  <2>1. z.low \in [Low -> Word] /\ w.low \in [Low -> Word] BY <1>3, <1>4, MachineFields
  <2> QED BY <1>3, <1>4, <2>1
<1>6. z.cpsr = w.cpsr
  <2>1. z.cpsr \in Psr /\ w.cpsr \in Psr BY <1>3, <1>4, MachineFields
  <2> QED BY <1>3, <1>4, <2>1 DEF Psr
<1>7. \A k \in Modes : z.bank[k] = w.bank[k]
  <2>1. PICK md : md = x.cpsr.mode /\ md \in Modes BY MachineFields
  <2>2. z.bank[md] \in [Banked -> Word] /\ w.bank[md] \in [Banked -> Word]
    BY <1>3, <1>4, <2>1, MachineFields
  <2>3. z.bank[md] = w.bank[md] BY <1>3, <1>4, <2>1, <2>2
  <2> QED BY <1>3, <1>4, <2>1, <2>3
<1>8. z = w BY <1>3, <1>4, <1>5, <1>6, <1>7, SameMachines
<1> QED BY <1>1, <1>8

(* Behind the instructions of a block only the link register may have       *)
(* changed, which the branch writes then.                                   *)
LEMMA BeyondMachine ==
  ASSUME NEW x \in Machine, NEW c \in Cores, NEW i, i.op = "b" => i.imm \in Word,
         NEW base, NEW off, Beyond(i, base, off, x, c)
  PROVE  /\ After(With(x, c), i) = After(x, i)
         /\ i.op # "b" => Twin(CoreOf(x), c)
<1>1. /\ c.z = x.cpsr.z /\ c.mem = x.mem /\ CoreOf(x) \in Cores /\ CoreOf(x).z = x.cpsr.z
      /\ CoreOf(x).mem = x.mem
  BY CoreOfMachine DEF Beyond
<1>2. CASE ~ (i.op = "b" /\ i.s /\ Passed(i, c.z))
  <2>1. \A n \in Regs : c.r[n] = CoreOf(x).r[n] BY <1>2 DEF Beyond
  <2>2. c.r = CoreOf(x).r
    <3>1. c.r \in [Regs -> Word] /\ CoreOf(x).r \in [Regs -> Word] BY <1>1, CoreFields
    <3> QED BY <2>1, <3>1
  <2>3. Twin(CoreOf(x), c) BY <1>1, <2>2 DEF Twin
  <2>4. With(x, c) = x BY <2>3, MachineItself
  <2> QED BY <2>3, <2>4
<1>3. CASE i.op = "b" /\ i.s /\ Passed(i, c.z)
  <2>1. PICK y, on : y = With(x, c) /\ on = Plus(x.pc, 1) OBVIOUS
  <2>2. y \in Machine /\ y.pc = x.pc BY <2>1, WithFields
  <2>3. PICK c0, c1 : c0 = CoreOf(x) /\ c1 = CoreOf(y) OBVIOUS
  <2>4. c1 \in Cores /\ c1.r = c.r /\ c1.z = c.z /\ c1.mem = c.mem
    <3>1. c1 = [c EXCEPT !.tp = 0] BY <2>1, <2>3, CoreOfWith
    <3>2. c1 \in Cores BY <2>2, <2>3, CoreOfMachine
    <3> QED BY <3>1, <3>2 DEF Cores
  <2>5. After(y, i) = GoTo(With(y, Write(c1, LR, on)), i.imm)
    <3>1. Passed(i, CoreOf(y).z) BY <1>3, <2>3, <2>4
    <3>2. After(y, i) = GoTo(With(y, Write(CoreOf(y), LR, Plus(y.pc, 1))), i.imm)
      BY <1>3, <3>1, AfterControl
    <3> QED BY <2>1, <2>2, <2>3, <3>2
  <2>6. After(x, i) = GoTo(With(x, Write(c0, LR, on)), i.imm)
    <3>1. Passed(i, CoreOf(x).z) BY <1>1, <1>3
    <3> QED BY <1>3, <2>1, <2>3, <3>1, AfterControl
  <2>7. on \in Word /\ LR \in Regs \cup {PC} /\ LR # PC /\ LR \in Regs
    <3>1. x.pc \in Int BY MachineFields, WordArithmetic
    <3> QED BY <2>1, <3>1, Numbers, LowRegisters DEF LR, PC
  <2>8. PICK d0, d1 : d0 = Write(c0, LR, on) /\ d1 = Write(c1, LR, on) OBVIOUS
  <2>9. d0 \in Cores /\ d1 \in Cores BY <1>1, <2>3, <2>4, <2>7, <2>8, WriteCore
  <2>10. d0.z = c0.z /\ d0.mem = c0.mem /\ d1.z = c1.z /\ d1.mem = c1.mem
         /\ d0.r = [c0.r EXCEPT ![LR] = on] /\ d1.r = [c1.r EXCEPT ![LR] = on]
    BY <1>1, <2>3, <2>4, <2>7, <2>8 DEF Write, Cores
  <2>11. d0.r = d1.r
    <3>1. \A n \in Regs : n # LR => c0.r[n] = c1.r[n] BY <2>3, <2>4 DEF Beyond
    <3>2. c0.r \in [Regs -> Word] /\ c1.r \in [Regs -> Word] BY <1>1, <2>3, <2>4, CoreFields
    <3> QED BY <2>7, <2>10, <3>1, <3>2
  <2>12. Twin(d1, d0) BY <1>1, <2>3, <2>4, <2>10, <2>11 DEF Twin
  <2>13. With(y, d1) = With(x, d1) BY <2>1, <2>9, WithTwice
  <2>14. With(x, d1) = With(x, d0) BY <2>9, <2>12, TwinWrites
  <2> QED BY <1>3, <2>1, <2>5, <2>6, <2>8, <2>13, <2>14
<1> QED BY <1>2, <1>3

LEMMA HypercallSim ==
  ASSUME TypeInv, gc.vector = gc.cpsr.mode, Sim, TranslatesWell, HypercallTraps,
         program' = program, mmu' = mmu
  PROVE  Abstract!Next /\ Sim'
<1>1. PICK e, i, g :
        /\ e \in Code /\ i = program[e] /\ g = WritePC(Saved, e)
        /\ EndsAt(host.start, e) /\ i.op # "svc"
        /\ Reaches(i, AsCore(g), Plus(e, 2), Data)
        /\ ResumeAt(PendingDelivered(Interpreted(g, i)))
  BY DEF HypercallTraps
<1>2. InBlock /\ ThisWord.op = "hypercall" /\ line' = line BY DEF HypercallTraps
<1>3. PICK s, off, x, c, w : s = host.start /\ off = host.off /\ x = seen /\ c = core /\ w = ThisWord
  OBVIOUS
<1>4. /\ program \in Programs /\ s \in Word /\ off \in Nat /\ x \in Machine /\ c \in Cores
      /\ line \in BOOLEAN /\ e \in Word /\ CoreOf(x) \in Cores
  <2>1. e \in Code BY <1>1
  <2> QED BY <1>3, <2>1, TypeFacts, CoreOfMachine
<1>5. Priv /\ Ends(s) /\ At(s, off, x, c)
  BY <1>2, <1>3, WordHere DEF InBlock, Sim, Position
<1>6. guestEnd(s) = e BY <1>1, <1>3, <1>4, OneEnd DEF Ending
<1>7. x.pc = e /\ Beyond(i, Len(Copied(s, e)), off, x, c)
  <2>1. e \in Nat /\ s \in Nat /\ \A k \in s .. e : k \in Code BY <1>4, <1>5, <1>6, BlockFacts
  <2>2. PICK a : a = x.pc /\ a \in s .. e BY <1>5, <1>6 DEF At
  <2>3. ASSUME a < e PROVE FALSE
    <3>1. a \in s .. e - 1 /\ a \in Code BY <2>1, <2>2, <2>3
    <3>2. PICK j, p : j = program[a] /\ p = Plus(a, 2) OBVIOUS
    <3>3. Formed(j) /\ Roomy(j, CoreOf(x), p)
      BY <1>3, <1>5, <2>2, <3>1, <3>2 DEF TranslatesWell
    <3>4. Within(WordsOf(a), Len(Copied(s, a)), off, x, c)
      BY <1>5, <1>6, <2>2, <2>3 DEF At
    <3>5. w = Words(s)[off + 1] BY <1>3 DEF ThisWord
    <3>6. w.op # "hypercall"
      <4>1. WithinSteps(s, e, x, a, j, p, c, off, w)
        BY <1>4, <1>5, <1>6, <2>2, <3>1, <3>2, <3>3, <3>4, <3>5, WithinStep
      <4> QED BY <4>1 DEF WithinSteps
    <3> QED BY <1>2, <1>3, <3>6
  <2>4. a = e BY <2>1, <2>2, <2>3
  <2> QED BY <1>1, <1>5, <1>6, <2>2, <2>4 DEF At
<1>8. GuestInstr(i) /\ i.imm \in Word /\ Replaced(i) BY <1>1, <1>4, InstrFound DEF EndsAt
<1>9. i.op = "msr" => i.mask = Fields
  <2>1. Formed(i) BY <1>1, <1>3, <1>5, <1>7 DEF TranslatesWell
  <2> QED BY <2>1 DEF Formed
<1>10. After(With(x, c), i) = After(x, i) /\ (i.op # "b" => Twin(CoreOf(x), c))
  BY <1>4, <1>7, <1>8, BeyondMachine
<1>11. /\ g \in Context /\ g.r15 = e /\ g.cpsr.mode # "usr" /\ (g.irqPending => line)
       /\ Snapshot(g, core.mem, e) = With(x, c)
  <2>1. /\ g \in Context /\ g.r15 = e /\ g.cpsr.mode = gc.cpsr.mode
        /\ (g.irqPending => line)
        /\ Snapshot(g, core.mem, e) = GoTo(With(seen, core), e)
    BY <1>1, <1>4, SavedAt
  <2>2. GoTo(With(x, c), e) = With(x, c)
    <3>1. With(x, c) \in Machine /\ With(x, c).pc = e BY <1>4, <1>7, WithFields
    <3> QED BY <3>1 DEF GoTo, Machine
  <2> QED BY <1>3, <1>5, <2>1, <2>2 DEF Priv
<1>12. PICK h, y, z : /\ h = Interpreted(g, i) /\ y = After(x, i)
                      /\ z = Snapshot(g, core.mem, g.r15)
  OBVIOUS
<1>13. Reaches(i, AsCore(g), Plus(g.r15, 2), Data) BY <1>1, <1>11
<1>14. h \in Context BY <1>4, <1>8, <1>1, <1>11, <1>12, <1>13, TypeFacts, InterpretedContext
<1>15. y = Snapshot(h, core.mem, h.r15) /\ (h.irqPending => line)
  <2>1. core \in Cores BY TypeFacts
  <2>2. Ended(g, Interpreted(g, i), After(z, i))
    BY <1>1, <1>4, <1>8, <1>9, <1>11, <1>12, <1>13, <2>1, InterpretedMachine
  <2>3. After(z, i) = y BY <1>10, <1>11, <1>12
  <2> QED BY <1>11, <1>12, <2>2, <2>3 DEF Ended
<1>16. /\ Sim'
       /\ \/ seen' = y
          \/ line /\ ~ y.cpsr.i /\ seen' = Exception(y, "irq", IrqVector, Plus(y.pc, 1))
  <2>1. ResumeAt(PendingDelivered(h)) BY <1>1, <1>12
  <2> QED BY <1>2, <1>14, <1>15, <2>1, PendingPlaced
<1>17. i.op # "str" BY <1>8 DEF Replaced
<1>18. Reaches(i, CoreOf(x), Plus(e, 2), Allowed(i))
  <2>1. Allowed(i) = Data BY <1>17 DEF Allowed
  <2>2. CASE i.op = "b"
    <3>1. Touched(i, CoreOf(x), Plus(e, 2)) = {} BY <2>2, Zenon DEF Touched
    <3> QED BY <3>1 DEF Reaches, Faults
  <2>3. CASE i.op # "b"
    <3>1. Twin(AsCore(g), CoreOf(z))
      <4>1. core \in Cores BY TypeFacts
      <4> QED BY <1>11, <1>12, <4>1, HandlerView
    <3>2. z = x
      <4>1. With(x, c) = x BY <1>4, <1>10, <2>3, MachineItself
      <4> QED BY <1>11, <1>12, <4>1
    <3> QED BY <1>1, <2>1, <3>1, <3>2, TwinViews
  <2> QED BY <2>2, <2>3
<1>19. line' = (line /\ ~ Acks(i, CoreOf(x), Plus(e, 2))) BY <1>2, <1>4, <1>17 DEF Acks
<1>20. PICK u : u = Plus(y.bank[seen.cpsr.mode][SP], -1) OBVIOUS
<1>21. \/ Alike(seen', y, u)
       \/ line /\ ~ y.cpsr.i /\ Alike(seen', Exception(y, "irq", IrqVector, Plus(y.pc, 1)), u)
  BY <1>16, AlikeItself
<1>22. Abstract!Next
  <2>1. seen.pc \in Code /\ i = program[seen.pc] /\ y = After(seen, i) BY <1>1, <1>3, <1>7, <1>12
  <2>2. /\ Reaches(i, CoreOf(seen), Plus(seen.pc, 2), Allowed(i))
        /\ line' = (line /\ ~ Acks(i, CoreOf(seen), Plus(seen.pc, 2)))
    BY <1>3, <1>7, <1>18, <1>19
  <2> QED BY <1>20, <1>21, <2>1, <2>2, InstructionStep
<1> QED BY <1>16, <1>22

-----------------------------------------------------------------------------
(* The refinement.                                                          *)
LEMMA SimBegins == Init => Abstract!Init /\ Sim
<1> SUFFICES ASSUME Init PROVE Abstract!Init /\ Sim
  OBVIOUS
<1>1. TypeInv BY TypesBegin
<1>2. /\ program \in Programs /\ seen \in Boots /\ line = FALSE
      /\ gc = [low |-> seen.low, bank |-> seen.bank, cpsr |-> seen.cpsr, spsr |-> seen.spsr,
               r15 |-> seen.pc, irqPending |-> FALSE, vector |-> seen.cpsr.mode]
      /\ core = [r |-> RegFile(seen), z |-> seen.cpsr.z, tp |-> 0, mem |-> seen.mem]
      /\ host = [start |-> seen.pc, off |-> 0]
  BY DEF Init, RegFile
<1>3. Abstract!Init BY <1>2 DEF Abstract!Init
<1>4. core = CoreOf(seen) BY <1>2 DEF CoreOf
<1>5. Agrees(gc, seen) /\ ~ gc.irqPending BY <1>2 DEF Agrees
<1>6. Position
  <2>1. PICK s, off, x, c : s = host.start /\ off = host.off /\ x = seen /\ c = core OBVIOUS
  <2>2. s = x.pc /\ off = 0 /\ Twin(CoreOf(x), c) BY <1>2, <1>4, <2>1 DEF Twin
  <2>3. program \in Programs /\ s \in Word /\ x \in Machine /\ c \in Cores
    BY <1>1, <2>1, TypeFacts
  <2>4. ASSUME Ends(s) PROVE At(s, off, x, c)
    <3>1. s \in s .. guestEnd(s) BY <2>3, <2>4, BlockFacts
    <3>2. x.pc \in s .. guestEnd(s) /\ off = Len(Copied(s, x.pc))
      BY <2>2, <2>3, <2>4, <3>1, Lengths
    <3> QED BY <2>2, <2>3, <2>4, <3>2, Arrives
  <2> QED BY <2>1, <2>2, <2>4 DEF Position
<1> QED BY <1>3, <1>5, <1>6 DEF Sim

(* The guest ends an interrupt only when it has been delivered.             *)
Served == line /\ ~ line' => ~ gc.irqPending
AcksServed == [][Served]_vars

LEMMA SimKept ==
  TypeInv /\ IInv /\ Sim /\ TranslatesWell /\ [Next]_vars /\ [Served]_vars
    => [Abstract!Next]_(Abstract!vars) /\ Sim'
<1> SUFFICES ASSUME TypeInv, IInv, Sim, TranslatesWell, [Next]_vars, [Served]_vars
             PROVE  [Abstract!Next]_(Abstract!vars) /\ Sim'
  OBVIOUS
<1>1. gc.vector = gc.cpsr.mode BY DEF IInv, Sound
<1>2. (Abstract!Next \/ Stutters) /\ Sim'
  <2>1. CASE Next /\ Served
    <3>1. program' = program /\ mmu' = mmu BY <2>1 DEF Next
    <3>2. CASE RunWord BY <1>1, <3>1, <3>2, RunWordSim
    <3>3. CASE EmulatedStore BY <1>1, <2>1, <3>1, <3>3, EmulatedStoreSim DEF Served
    <3>4. CASE HypercallTraps BY <1>1, <3>1, <3>4, HypercallSim
    <3>5. CASE RunUser BY <1>1, <3>1, <3>5, RunUserSim
    <3>6. CASE ServiceCall BY <1>1, <3>1, <3>6, ServiceCallSim
    <3>7. CASE DataAbort BY <1>1, <3>1, <3>7, DataAbortSim
    <3>8. CASE TimerIrq BY <1>1, <3>1, <3>8, TimerIrqSim
    <3> QED BY <2>1, <3>2, <3>3, <3>4, <3>5, <3>6, <3>7, <3>8 DEF Next
  <2>2. CASE UNCHANGED vars BY <2>2, StutterSim
  <2> QED BY <2>1, <2>2
<1>3. Stutters => UNCHANGED Abstract!vars BY DEF Stutters, Abstract!vars
<1> QED BY <1>2, <1>3

(* Whatever the program, whatever is spilled for its instructions and       *)
(* wherever an interrupt comes, the guest sees the processor that           *)
(* ArmMachine describes: the words planted for an instruction have, at its  *)
(* end, done what it does and nothing else, the handlers do what the        *)
(* instructions they replace do, and an exception is taken between two      *)
(* instructions with the registers of the guest in their banks.  It is so   *)
(* for guests whose instructions are of the forms that the translator gets  *)
(* right, that leave room under the stack for a spilled register, and that  *)
(* end an interrupt only after it has been delivered.                       *)
THEOREM GuestsSeeTheirMachine ==
  Spec /\ []TranslatesWell /\ AcksServed => ImplementsArmMachine
<1>1. IInv /\ [Next]_vars => IInv' BY Inductive
<1> QED
  BY <1>1, TypesBegin, TypesKept, Initially, SimBegins, SimKept, PTL
  DEF Spec, AcksServed, ImplementsArmMachine, Abstract!Spec

=============================================================================
