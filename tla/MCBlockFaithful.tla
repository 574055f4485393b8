--------------------------- MODULE MCBlockFaithful ---------------------------
(***************************************************************************)
(* The guests of MCBlockExecution keep the hypotheses of the theorems of   *)
(* BlockFaithfulProofs: the checker finds the images their memory can hold *)
(* and the addresses their blocks can begin at, and evaluates them.        *)
(***************************************************************************)
EXTENDS MCBlockExecution, BlockFaithfulProofs

Iterate(Grow(_), S) ==
  LET after[n \in 0 .. NumAddr] == IF n = 0 THEN S ELSE Grow(after[n - 1])
  IN after[NumAddr]

GuestImages ==
  LET Grow(S) == S \cup {Written(m, s) : m \in S, s \in Stores}
                   \cup {Remapped(m, r) : m \in S, r \in Remaps}
  IN Iterate(Grow, {Program} \cup Spaces)

BlockStarts ==
  LET Last(p) == LastInstr(p[1], p[2])
      Grow(S) ==
        S \cup {Decode[Last(p)].target : p \in {q \in GuestImages \X S : IsBranch(Last(q))}}
          \cup {BlockEnd(p[1], p[2]) + 1 : p \in {q \in GuestImages \X S : GoesOnAfter(Last(q))}}
          \cup UNION {a .. BlockEnd(m, a) - 1 :
                        m \in IF "translation" \in Aborts THEN GuestImages ELSE {}, a \in S}
  IN Iterate(Grow, {EntryPoint, IrqVector, AbtVector, SvcVector} \cup (ReturnAddrs \ UserAddr))

ASSUME GuestBehaves == Behaves(GuestImages, BlockStarts)

(* All but the hostile guest, which handles permission faults.              *)
ASSUME GuestIsOrderly ==
  "permission" \in Aborts
  \/ /\ Orderly(GuestImages, BlockStarts)
     /\ HomesApart(BlockStarts) /\ Served(GuestImages, BlockStarts)

(* Blocks of an even number of words never end with an odd pool.            *)
ASSUME EvenBlocksFill ==
  (PoolSize % 2 = 1 /\ \A m \in GuestImages, a \in BlockStarts : BlockLength(m, a) % 2 = 0)
    => Fills(GuestImages, BlockStarts, {f \in 0 .. 2 * PoolSize : f % 2 = 0})
=============================================================================
