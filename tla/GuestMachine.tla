---------------------------- MODULE GuestMachine ----------------------------
(***************************************************************************)
(* What block execution promises to the guest: the machine the guest       *)
(* believes it runs on.  It executes the instruction that memory holds at  *)
(* the guest program counter, one at a time; there are no blocks, no code  *)
(* cache and no links.  Interrupts are latched when they are raised while  *)
(* enabled, or found raised when they become enabled, and may be taken     *)
(* after any instruction, with the address of the next one in the link     *)
(* register.  BlockExecution is shown to implement this specification.     *)
(***************************************************************************)
EXTENDS Integers

CONSTANTS NumAddr, Instr, Decode, Program, EntryPoint,
          IrqVector, AbtVector, SvcVector,
          Stores,       \* stores of the guest, as records of BlockExecution
          Remaps,       \* edits of the guest's page table
          Spaces,       \* images seen when the guest switches its MMU off
          ReturnAddrs   \* addresses the guest may return to by itself

VARIABLES
  mem,      \* what the guest reads at each virtual address
  gpc,      \* address of the instruction to execute
  iBit,     \* CPSR.I: interrupts masked
  line,     \* the interrupt controller has an interrupt pending
  latched,  \* an interrupt must be taken
  lr,       \* return address of the last exception
  spsr      \* CPSR.I saved by the last exception

vars == <<mem, gpc, iBit, line, latched, lr, spsr>>

Init ==
  /\ mem = Program /\ gpc = EntryPoint
  /\ iBit = TRUE   /\ line = FALSE /\ latched = FALSE
  /\ lr = EntryPoint /\ spsr = TRUE

Now(ops) == Decode[mem[gpc]].op \in ops

Written(m, s) == [a \in 0 .. NumAddr - 1 |->
                    IF a \in s.addr .. s.addr + s.words - 1 THEN s.instr ELSE m[a]]
Remapped(m, r) == [a \in 0 .. NumAddr - 1 |->
                    IF a \in r.first .. r.last THEN r.image ELSE m[a]]

(* The instruction is done: go to next with CPSR.I = i, unless an interrupt *)
(* is taken there.                                                          *)
Complete(next, i) ==
  LET owed == latched \/ (line /\ iBit /\ ~ i) IN
  \/ /\ gpc' = next /\ iBit' = i /\ latched' = owed
     /\ UNCHANGED <<lr, spsr>>
  \/ /\ owed /\ ~ i
     /\ gpc' = IrqVector /\ iBit' = TRUE /\ latched' = FALSE
     /\ lr' = next /\ spsr' = i

Exception(vector, return) ==
  /\ gpc' = vector /\ lr' = return
  /\ spsr' = iBit  /\ iBit' = TRUE
  /\ UNCHANGED <<mem, line, latched>>

Straight ==
  /\ Now({"safe", "mem", "crit"})
  /\ Complete(gpc + 1, iBit) /\ UNCHANGED <<mem, line>>

Store ==
  /\ Now({"mem", "strt"})
  /\ \E s \in Stores : mem' = Written(mem, s)
  /\ Complete(gpc + 1, iBit) /\ UNCHANGED line

EditPageTable ==
  /\ Now({"mem"})
  /\ \E r \in Remaps : mem' = Remapped(mem, r)
  /\ Complete(gpc + 1, iBit) /\ UNCHANGED line

Acknowledge ==
  /\ Now({"mem"})
  /\ line' = FALSE
  /\ gpc' = gpc + 1 /\ UNCHANGED <<mem, iBit, latched, lr, spsr>>

Branch ==
  /\ Now({"branch"})
  /\ \/ Complete(Decode[mem[gpc]].target, iBit)
     \/ Decode[mem[gpc]].cond /\ Complete(gpc + 1, iBit)
  /\ UNCHANGED <<mem, line>>

SetMask ==
  /\ Now({"cps"})
  /\ \E i \in BOOLEAN : Complete(gpc + 1, i)
  /\ UNCHANGED <<mem, line>>

SwitchMMU ==
  /\ Now({"mmu"})
  /\ mem' \in Spaces \cup {mem}
  /\ Complete(gpc + 1, iBit) /\ UNCHANGED line

ExceptionReturn ==
  /\ Now({"eret"})
  /\ \E a \in {lr} \cup ReturnAddrs : Complete(a, spsr)
  /\ UNCHANGED <<mem, line>>

ServiceCall == Now({"svc"}) /\ Exception(SvcVector, gpc + 1)
DataAbort   == Now({"mem"}) /\ Exception(AbtVector, gpc)

Raise ==
  /\ line' = TRUE /\ latched' = (latched \/ ~ iBit)
  /\ UNCHANGED <<mem, gpc, iBit, lr, spsr>>

Next ==
  \/ Straight \/ Store \/ EditPageTable \/ Acknowledge \/ Branch \/ SetMask
  \/ SwitchMMU \/ ExceptionReturn \/ ServiceCall \/ DataAbort \/ Raise

Spec == Init /\ [][Next]_vars
=============================================================================
