-------------------------- MODULE MCGuestRegisters ---------------------------
(***************************************************************************)
(* Kernels for TLC: exception handlers at 0, 4 and 8, two instructions of  *)
(* a kernel to choose, one of which ends a block, a return to user mode    *)
(* and a user program that touches a page and makes a service call.        *)
(***************************************************************************)
EXTENDS GuestRegisters, TLC

I(op) == [Plain EXCEPT !.op = op]
Eq(i) == [i EXCEPT !.cond = "eq"]
Alu(d, n, v) == [I("alu") EXCEPT !.d = d, !.n = n, !.imm = v]
Flags(i) == [i EXCEPT !.s = TRUE]
Move(op, d, r) == [I(op) EXCEPT !.d = d, !.m = r]
Ldr(d, n, v) == [I("ldr") EXCEPT !.d = d, !.n = n, !.imm = v]
Ldrr(d, n, r) == [I("ldrr") EXCEPT !.d = d, !.n = n, !.m = r]
Str(d, n, v) == [I("str") EXCEPT !.d = d, !.n = n, !.imm = v]
Stm(r, list) == [I("stm") EXCEPT !.n = r, !.list = list]
Ldm(op, r, list) == [I(op) EXCEPT !.n = r, !.list = list]
B(a) == [I("b") EXCEPT !.imm = a]
Mrs(d) == [I("mrs") EXCEPT !.d = d]
Msr(r) == [I("msr") EXCEPT !.n = r, !.mask = Fields]
Cps(off) == [I("cps") EXCEPT !.s = off]

MCHalf == 8
MCLow == {0, 1, 2}
MCData == 23 .. 55
MCLazy == {48, 49}
MCTableWord == 40
MCAck == 60

SvcEntry == 0
IrqEntry == 4
AbtEntry == 8
Main == 12
Sub == 18
User == 20
MCCode == 0 .. 22

(* Forms of instructions that use the PC, and others that copy as they are *)
Copied1 ==
  { Alu(2, PC, 3), Flags(Alu(2, PC, 47)), Alu(0, 0, 1), Flags(Alu(2, 2, 36)),
    [I("teq") EXCEPT !.n = 2, !.imm = 28],
    Move("mov", 2, PC), Flags(Move("mov", 2, PC)), Move("mvn", 2, PC), Flags(Move("mvn", 1, PC)),
    Ldr(2, PC, 30), Ldr(LR, PC, 29), Ldrr(2, PC, 2), Ldr(2, 1, 0),
    Str(PC, 0, 0), Str(2, PC, 30), Str(0, PC, 28), Str(PC, 1, 2), Str(2, 1, 0),
    Stm(0, {2, PC}), Stm(SP, {LR, PC}), Stm(SP, {0, PC}), Stm(1, {0, 2, PC}), Stm(SP, {0, 1}),
    Ldm("ldm", 1, {0, 2}) }
Control ==
  { B(Sub), Flags(B(Sub)), Flags(Eq(B(Sub))), Eq(B(Main + 3)), Move("bx", 0, LR),
    Mrs(2), Msr(2), Cps(FALSE), Cps(TRUE), Ldr(PC, PC, 28),
    Ldm("ldm", 0, {1, PC}), Move("movs", 0, LR) }

Kernel(x, y) ==
  [a \in MCCode |->
     CASE a = SvcEntry -> Stm(SP, {0, LR})
       [] a = SvcEntry + 1 -> Ldm("ldmret", SP, {0, PC})
       [] a = IrqEntry -> Str(SP, SP, 0)
       [] a = IrqEntry + 1 -> Alu(LR, LR, 63)
       [] a = AbtEntry -> Str(SP, SP, 0)
       [] a = AbtEntry + 1 -> Alu(LR, LR, 62)
       [] a = Main -> Cps(FALSE)
       [] a = Main + 1 -> x
       [] a = Main + 2 -> y
       [] a = Main + 3 -> Mrs(2)
       [] a = Sub -> Move("mov", 1, PC)
       [] a = User -> Ldr(2, 1, 0)
       [] a = User + 1 -> I("svc")
       [] a = User + 2 -> B(User + 2)
       [] OTHER -> Move("movs", 0, LR)]

MCPrograms ==
  {Kernel(x, y) : x \in Copied1 \cup {Eq(i) : i \in Copied1}, y \in {Mrs(2), Eq(B(Main + 3)), Ldr(2, 1, 0)}}
    \cup {Kernel(x, y) : x \in {Ldr(2, 1, 0), Str(PC, 0, 0), Alu(0, 0, 1)}, y \in Control}

FromUser == [mode |-> "usr", i |-> FALSE, z |-> FALSE]
MCBoots ==
  { [low |-> 0 :> 45 @@ 1 :> 48 @@ 2 :> 28,
     bank |-> [k \in Modes |->
       SP :> (CASE k = "svc" -> 56 [] k = "irq" -> MCAck [] k = "abt" -> MCTableWord
                [] OTHER -> 47)
       @@ LR :> User],
     cpsr |-> [mode |-> "svc", i |-> TRUE, z |-> z],
     spsr |-> [k \in Modes \ {"usr"} |-> FromUser],
     pc |-> Main,
     mem |-> [a \in MCData |-> IF a = MCTableWord THEN t ELSE IF a % 2 = 0 THEN Main + 3 ELSE a]] :
    z \in BOOLEAN, t \in {0, 1} }
=============================================================================
