------------------------ MODULE InterruptController ------------------------
(***************************************************************************)
(* The interrupt controller the guest sees (vm/omap35xx/intc.c).  A bank   *)
(* register is the set of the interrupts whose bits are set in it: itr the *)
(* raw signals, mir the masks, pending the signals after masking.  The     *)
(* module has no variables: each C function is an operator from controller *)
(* to controller.  An operator that is not used is a mutated form of the   *)
(* next one.                                                               *)
(***************************************************************************)
EXTENDS Integers

CONSTANT Irq    \* numbers of the interrupts devices raise

ASSUME IrqAssumption == Irq \subseteq 0 .. 95

Bank(n) == n \div 32
InBank(b) == {n \in Irq : Bank(n) = b}
Banks == 0 .. 2

IntcType == [itr : SUBSET Irq, mir : SUBSET Irq, pending : SUBSET Irq]

IntcReset == [itr |-> {}, mir |-> Irq, pending |-> {}]

IsIrqPending(ic) == ic.pending # {}

(* isGuestIrqMasked compares the bit with 1, whatever its place in the     *)
(* register.                                                               *)
IsGuestIrqMasked(ic, n) == n \in ic.mir /\ n % 32 = 0

(* The raw signal of bank 0 is kept in itr; for the other two banks the    *)
(* code writes the mask register instead.                                  *)
SetInterrupt(ic, n) ==
  LET raw == IF Bank(n) = 0 THEN [ic EXCEPT !.itr = @ \cup {n}]
                            ELSE [ic EXCEPT !.mir = @ \cup {n}]
  IN IF IsGuestIrqMasked(raw, n) THEN raw
                                 ELSE [raw EXCEPT !.pending = @ \cup {n}]

ClearInterrupt(ic, n) ==
  IF Bank(n) = 0
  THEN [ic EXCEPT !.itr = @ \ {n}, !.pending = @ \ {n}]
  ELSE [ic EXCEPT !.mir = @ \ {n}, !.pending = @ \ {n}]

(* Stores to MIR_CLEARn and MIR_SETn: only the second looks at the signals *)
(* again, and at those of its bank only.                                   *)
MirClear(ic, v) == [ic EXCEPT !.mir = @ \ v]

MirSet(ic, b, v) ==
  LET mir == ic.mir \cup v
  IN [ic EXCEPT !.mir = mir,
                !.pending = (@ \ InBank(b)) \cup (InBank(b) \cap (ic.itr \ mir))]
=============================================================================
