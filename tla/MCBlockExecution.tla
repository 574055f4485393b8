-------------------------- MODULE MCBlockExecution --------------------------
(***************************************************************************)
(* Guests for the model checker: small programs with the loops, forks,     *)
(* stores and exceptions each run is about.  An instruction is named by    *)
(* what it does; b and bc are the branch and the conditional branch, with  *)
(* the address they go to.                                                 *)
(***************************************************************************)
EXTENDS BlockExecution

Ins(op)  == [op |-> op, cond |-> FALSE, target |-> 0]
To(a)    == [op |-> "branch", cond |-> FALSE, target |-> a]
Maybe(a) == [op |-> "branch", cond |-> TRUE, target |-> a]

Jump == [b0 |-> To(0), b2 |-> To(2), b3 |-> To(3), b4 |-> To(4), b5 |-> To(5),
         b6 |-> To(6), bc2 |-> Maybe(2), bc3 |-> Maybe(3), bc4 |-> Maybe(4),
         bc8 |-> Maybe(8)]

Op == [nop |-> "safe", ldst |-> "mem", crit |-> "crit", cps |-> "cps",
       mmu |-> "mmu", strt |-> "strt", eret |-> "eret", svc |-> "svc"]

MCInstr == DOMAIN Op \cup {j \in DOMAIN Jump : Jump[j].target < NumAddr}

MCDecode == [i \in MCInstr |-> IF i \in DOMAIN Op THEN Ins(Op[i]) ELSE Jump[i]]

(* A guest image from its pages.                                            *)
Pages(ps) == [a \in Addr |-> ps[(a \div PageSize) + 1][(a % PageSize) + 1]]

-----------------------------------------------------------------------------
(* Two loops through a fork, with interrupts switched on and off between;   *)
(* the interrupt handler is at address 6.                                   *)
LoopProgram == Pages(<<<<"nop", "bc4", "cps", "b0">>, <<"nop", "bc4", "ldst", "eret">>>>)

(* The first page patches the second; the third is the interrupt handler.   *)
(* Every block has an even number of words.                                 *)
PatchProgram == Pages(<<<<"ldst", "bc3", "b0">>, <<"cps", "b0", "b0">>,
                        <<"ldst", "ldst", "eret">>>>)
Patches == {[addr |-> 3, words |-> 2, instr |-> "cps", each |-> TRUE]}

(* The second page is mapped elsewhere, or everything when the MMU goes off.*)
RemapProgram == Pages(<<<<"ldst", "bc4", "mmu", "b0">>,
                        <<"nop", "nop", "crit", "b0">>,
                        <<"nop", "nop", "eret", "b0">>>>)
PhysicalSpace == {Pages(<<<<"ldst", "bc4", "mmu", "b4">>,
                          <<"crit", "b2", "crit", "b0">>,
                          <<"nop", "nop", "eret", "b0">>>>)}
RemapSecond == {[first |-> 4, last |-> 7, image |-> "b0"]}

(* A kernel that aborts and calls, and a user program on the second page;   *)
(* the third page handles service calls and aborts, the fourth interrupts,  *)
(* and ends with a data word.                                               *)
UserProgram == Pages(<<<<"nop", "ldst", "bc8", "eret">>,
                       <<"ldst", "bc4", "svc", "b4">>,
                       <<"strt", "cps", "b0", "eret">>,
                       <<"nop", "eret", "nop", "b0">>>>)
DataWord == {[addr |-> 14, words |-> 1, instr |-> "crit", each |-> FALSE]}

(* A guest that does what the hypervisor does not survive: it patches the   *)
(* block it is in, calls itself, and is interrupted in user mode.           *)
HostileProgram == Pages(<<<<"ldst", "bc3", "svc">>, <<"ldst", "b0", "eret">>,
                          <<"ldst", "svc", "b6">>, <<"ldst", "cps", "eret">>>>)
OwnPatch == {[addr |-> 1, words |-> 1, instr |-> "bc3", each |-> FALSE]}

-----------------------------------------------------------------------------
(* Guests of two or three short pages, for the runs that look for one state.*)

(* One block over two pages.                                                *)
SpanProgram  == Pages(<<<<"ldst", "nop">>, <<"nop", "b0">>>>)
FirstPageOnly == {[first |-> 0, last |-> 1, image |-> "nop"]}

(* Two linked blocks that load and store, and a third they patch.           *)
AbortProgram == Pages(<<<<"ldst", "ldst", "b3">>, <<"ldst", "ldst", "b0">>,
                        <<"nop", "nop", "b0">>>>)
Word6 == {[addr |-> 6, words |-> 1, instr |-> "nop", each |-> FALSE]}
=============================================================================
