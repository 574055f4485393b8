----------------------------- MODULE Allocator -----------------------------
(***************************************************************************)
(* What the hypervisor may rely on whichever memory allocator it is built  *)
(* with: memory handed out lies in the pool, is aligned as asked, and is   *)
(* nobody else's until it is given back.  A request may always fail, and   *)
(* then changes nothing.                                                   *)
(***************************************************************************)
EXTENDS Integers, Functions

CONSTANTS
  PoolStart, PoolEnd,  \* the pool is the addresses from PoolStart, below PoolEnd
  Requests             \* what is asked for: [size, alignment], in bytes

VARIABLE live  \* live[p]: what was asked for, of every pointer not given back

Disjoint(p, s, q, t) == p + s <= q \/ q + t <= p

Aligned(p, alignment) == \E k \in 0 .. p : p = k * alignment

Usable(p, request, others) ==
  /\ p >= PoolStart /\ p + request.size <= PoolEnd
  /\ Aligned(p, request.alignment)
  /\ \A q \in others : Disjoint(p, request.size, q, live[q].size)

With(p, request, others) == [q \in others \cup {p} |-> IF q = p THEN request ELSE live[q]]

Init == live = [p \in {} |-> 0]

(* A pointer p and the request it answers are what a step makes of live.    *)
Obtain(p) ==
  /\ p \notin DOMAIN live
  /\ live'[p] \in Requests /\ Usable(p, live'[p], DOMAIN live)
  /\ live' = With(p, live'[p], DOMAIN live)

Free(p) == live' = Restrict(live, DOMAIN live \ {p})

(* The block stays where it is, or its contents are copied to one that      *)
(* overlaps neither it nor any other.                                       *)
Realloc(p, q) ==
  /\ q = p \/ q \notin DOMAIN live
  /\ live'[q] \in Requests
  /\ Usable(q, live'[q], DOMAIN live \ (IF q = p THEN {p} ELSE {}))
  /\ live' = With(q, live'[q], DOMAIN live \ {p})

Next ==
  \/ \E p \in DOMAIN live' : Obtain(p)
  \/ \E p \in DOMAIN live : Free(p)
  \/ \E p \in DOMAIN live, q \in DOMAIN live' : Realloc(p, q)

Spec == Init /\ [][Next]_live
=============================================================================
