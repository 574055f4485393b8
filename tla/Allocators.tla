----------------------------- MODULE Allocators -----------------------------
(***************************************************************************)
(* A hypervisor built with one allocator or the other, the choice "Memory  *)
(* allocator" of the configuration.  Both implement Allocator.             *)
(***************************************************************************)
EXTENDS Tlsf

CONSTANT NaiveBegin  \* where the pool of the naive allocator begins

ASSUME AllocatorsAssumption ==
  NaiveBegin \in FirstBlock .. PoolEnd /\ NaiveBegin % Align = 0

VARIABLES
  built,      \* the allocator the hypervisor is built with
  poolStart,  \* the state of the naive allocator
  wild

allocVars == <<heap, live, built, poolStart, wild>>

Naive == INSTANCE NaiveAllocator WITH PoolBegin <- NaiveBegin

BuiltTlsf  == built = "tlsf" /\ poolStart = 0 /\ wild = FALSE /\ Init
BuiltNaive == built = "naive" /\ heap = Pool /\ Naive!Init

TlsfCall  == built = "tlsf" /\ Next /\ UNCHANGED <<built, poolStart, wild>>
NaiveCall == built = "naive" /\ Naive!Next /\ UNCHANGED <<built, heap>>

AllocInit == BuiltTlsf \/ BuiltNaive
AllocNext == TlsfCall \/ NaiveCall
AllocSpec == AllocInit /\ [][AllocNext]_allocVars

(* NothingLost: what is held is what the heap has in use.                   *)
TlsfNothingLost == built = "tlsf" => NothingLost

(* Whatever the requests and their order, memory is handed out in the pool, *)
(* aligned, and overlapping nothing that is still held: both allocators     *)
(* implement Allocator.                                                     *)
A == INSTANCE Allocator WITH PoolStart <- FirstBlock
ImplementsAllocator == A!Spec
=============================================================================
