--------------------------- MODULE NaiveAllocator ---------------------------
(***************************************************************************)
(* The allocator the hypervisor is built with by default,                  *)
(* common/memoryAllocator/naive.c: memory is taken from the start of what  *)
(* is left of the pool and never comes back.                               *)
(***************************************************************************)
EXTENDS Integers, Functions

CONSTANTS
  PoolBegin, PoolEnd,  \* a word boundary, and where the pool ends
  Sizes, Alignments    \* alignments are multiples of the word

VARIABLES
  poolStart,  \* what is left of the pool begins here
  live,       \* live[p]: what was asked for, of every pointer not given back
  wild        \* a copy went to address 0

naiveVars == <<poolStart, live, wild>>

Words(size) == ((size + 3) \div 4) * 4

AlignUp(x, alignment) == ((x + alignment - 1) \div alignment) * alignment

Init == poolStart = PoolBegin /\ live = [p \in {} |-> 0] /\ wild = FALSE

Request(size, alignment) == [size |-> size, alignment |-> alignment]
Requests == {Request(size, alignment) : size \in Sizes, alignment \in Alignments \cup {4}}

Fits(p, size) == p + Words(size) < PoolEnd

Take(p, request, others) ==
  /\ poolStart' = p + Words(request.size)
  /\ live' = [q \in others \cup {p} |-> IF q = p THEN request ELSE live[q]]
  /\ UNCHANGED wild

Malloc(size) == Fits(poolStart, size) /\ Take(poolStart, Request(size, 4), DOMAIN live)

Memalign(alignment, size) ==
  LET p == AlignUp(poolStart, alignment)
  IN  Fits(p, size) /\ Take(p, Request(size, alignment), DOMAIN live)

Fail(p, size) == ~ Fits(p, size) /\ UNCHANGED naiveVars

Free(p) == live' = Restrict(live, DOMAIN live \ {p}) /\ UNCHANGED <<poolStart, wild>>

(* Always a new block; when there is none the contents are copied to NULL.  *)
Realloc(p, size) ==
  IF Fits(poolStart, size) THEN Take(poolStart, Request(size, 4), DOMAIN live \ {p})
  ELSE wild' = TRUE /\ UNCHANGED <<poolStart, live>>

Next ==
  \/ \E size \in Sizes : Malloc(size) \/ Fail(poolStart, size)
  \/ \E size \in Sizes, alignment \in Alignments :
       Memalign(alignment, size) \/ Fail(AlignUp(poolStart, alignment), size)
  \/ \E p \in DOMAIN live : Free(p)
  \/ \E p \in DOMAIN live, size \in Sizes : Realloc(p, size)

Spec == Init /\ [][Next]_naiveVars
=============================================================================
