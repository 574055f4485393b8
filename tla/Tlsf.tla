------------------------------- MODULE Tlsf -------------------------------
(***************************************************************************)
(* The two level segregated fit allocator of the hypervisor,               *)
(* common/memoryAllocator/tlsf.c: blocks that tile a pool, each behind a   *)
(* word with its size and two flags, free blocks on one list for every     *)
(* class of sizes, and two levels of bitmaps that tell which lists have    *)
(* blocks.                                                                 *)
(*                                                                         *)
(* A block is named by the pointer that is handed out for it; its header   *)
(* word is the four bytes before.  What a client keeps in its memory is    *)
(* not modelled, but that it overwrites the fields the allocator keeps     *)
(* there is.  The back links of the free lists are only read by ASSERTs    *)
(* that they are not NULL, and are left out.                               *)
(***************************************************************************)
EXTENDS Integers, FiniteSets, Functions, FiniteSetsExt

CONSTANTS
  SlLog2,      \* SL_INDEX_COUNT_LOG2, 5 in the sources, which say it may be changed
  FirstBlock,  \* the pointer of the first block
  PoolBytes,   \* the size of the one block createPool makes
  Sizes, Alignments,  \* what clients ask for
  Careful      \* clients do nothing that harms the heap, see harmed

VARIABLES
  heap,  \* the pool: its blocks, free lists and bitmaps
  live   \* live[p]: what was asked for, of every pointer not given back

tlsfVars == <<heap, live>>

NULL == 0
Align == 4                       \* ALIGN_SIZE
Overhead == 4                    \* BLOCK_HEADER_OVERHEAD
HeaderSize == 16                 \* sizeof(struct blockHeader)
BlockSizeMin == HeaderSize - 4
FlIndexMax == 30                 \* no block has 1 << FlIndexMax bytes

(* Bit[k]: 1 << k.                                                          *)
Bit ==
  LET bit[k \in 0 .. FlIndexMax] == IF k = 0 THEN 1 ELSE 2 * bit[k - 1]
  IN  [k \in 0 .. FlIndexMax |-> bit[k]]

SlCount == Bit[SlLog2]
FlShift == SlLog2 + 2            \* FL_INDEX_SHIFT
SmallBlockSize == Bit[FlShift]

(* The largest pool and requests near it would have a class past the last   *)
(* one: no client asks for more than there is memory.                       *)
MaxRequest == Bit[28]

ASSUME TlsfAssumption ==
  /\ SlLog2 \in 1 .. 5
  /\ FirstBlock \in Nat \ {0} /\ FirstBlock % Align = 0
  /\ PoolBytes \in Nat /\ PoolBytes % Align = 0
  /\ BlockSizeMin <= PoolBytes /\ PoolBytes < Bit[FlIndexMax]
  /\ Sizes \subseteq 1 .. MaxRequest /\ Careful \in BOOLEAN
  /\ Alignments \subseteq Nat \ {0}
  /\ \A a \in Alignments : a % Align = 0 /\ \E k \in 2 .. 14 : a = Bit[k]

Sentinel == FirstBlock + PoolBytes + Overhead
PoolEnd == FirstBlock + PoolBytes

-----------------------------------------------------------------------------
(* Sizes and the classes they belong to.                                    *)

LastBitSet(x) == CHOOSE k \in 0 .. FlIndexMax : x \div Bit[k] = 1

AlignUp(x, align) == ((x + align - 1) \div align) * align

AdjustRequestSizeDown(size) ==  \* mutant
  IF size = 0 THEN 0 ELSE Max({(size \div Align) * Align, BlockSizeMin})

AdjustRequestSize(size) ==
  IF size = 0 THEN 0 ELSE Max({AlignUp(size, Align), BlockSizeMin})

InsertMappingUnmasked(size) ==  \* mutant
  IF size < SmallBlockSize THEN <<0, size \div (SmallBlockSize \div SlCount)>>
  ELSE LET k == LastBitSet(size) IN <<k - (FlShift - 1), size \div Bit[k - SlLog2]>>

InsertMapping(size) ==
  IF size < SmallBlockSize THEN <<0, size \div (SmallBlockSize \div SlCount)>>
  ELSE LET k == LastBitSet(size)
       IN  <<k - (FlShift - 1), size \div Bit[k - SlLog2] - SlCount>>

(* Rounded up, so that every block of the class is large enough.            *)
SearchMapping(size) ==
  InsertMapping(IF size >= SlCount THEN size + Bit[LastBitSet(size) - SlLog2] - 1 ELSE size)

Classes == (0 .. InsertMapping(PoolBytes)[1]) \X (0 .. SlCount - 1)

-----------------------------------------------------------------------------
(* The heap: its blocks by their pointers, the heads of the free lists, the *)
(* two levels of bitmaps.  failed: an ASSERT did not hold.  harmed: a step  *)
(* left the lists or flags wrong, because a block in the middle of a list   *)
(* was to be removed or a used block was split.                             *)

NextBlock(h, b) == b + h.blocks[b].size + Overhead

Assert(h, condition) == [h EXCEPT !.failed = @ \/ ~ condition]

LinkBlockWithNext(h, b) == [h EXCEPT !.blocks[NextBlock(h, b)].previous = b]

MarkBlockFree(h, b) ==
  [LinkBlockWithNext(h, b) EXCEPT !.blocks[NextBlock(h, b)].prevFree = TRUE,
                                  !.blocks[b].free = TRUE]

MarkBlockUsedOnly(h, b) == [h EXCEPT !.blocks[b].free = FALSE]  \* mutant

MarkBlockUsed(h, b) ==
  [h EXCEPT !.blocks[NextBlock(h, b)].prevFree = FALSE, !.blocks[b].free = FALSE]

InsertBlock(h, b) ==
  LET class == InsertMapping(h.blocks[b].size)
  IN  [h EXCEPT !.blocks[b].next = h.head[class], !.head[class] = b,
                !.fl = @ \cup {class[1]}, !.sl = @ \cup {class}]

RemoveFreeBlockClearingLevel(h, b, class) ==  \* mutant
  LET next == h.blocks[b].next
  IN  IF h.head[class] # b THEN [h EXCEPT !.harmed = TRUE]
      ELSE IF next # NULL THEN [h EXCEPT !.head[class] = next]
      ELSE [h EXCEPT !.head[class] = NULL, !.sl = @ \ {class}, !.fl = @ \ {class[1]}]

RemoveFreeBlock(h, b, class) ==
  LET next == h.blocks[b].next
      sl   == h.sl \ {class}
  IN  IF h.head[class] # b THEN [h EXCEPT !.harmed = TRUE]
      ELSE IF next # NULL THEN [h EXCEPT !.head[class] = next]
      ELSE [h EXCEPT !.head[class] = NULL, !.sl = sl,
                     !.fl = IF \E c \in sl : c[1] = class[1] THEN @ ELSE @ \ {class[1]}]

RemoveBlock(h, b) == RemoveFreeBlock(h, b, InsertMapping(h.blocks[b].size))

AbsorbBlock(h, previous, b) ==
  LET grown == [h.blocks EXCEPT ![previous].size = @ + h.blocks[b].size + Overhead]
  IN  LinkBlockWithNext([h EXCEPT !.blocks = Restrict(grown, DOMAIN h.blocks \ {b})], previous)

(* Both return the heap and the block that is left.                         *)
MergeBlockWithPrevious(h, b) ==
  LET previous == h.blocks[b].previous
  IN  IF ~ h.blocks[b].prevFree THEN [heap |-> h, block |-> b]
      ELSE IF previous \notin DOMAIN h.blocks \/ ~ h.blocks[previous].free
        THEN [heap |-> Assert(h, FALSE), block |-> b]
      ELSE [heap |-> AbsorbBlock(RemoveBlock(h, previous), previous, b), block |-> previous]

MergeBlockWithNext(h, b) ==
  LET next == NextBlock(h, b)
  IN  IF ~ h.blocks[next].free THEN h ELSE AbsorbBlock(RemoveBlock(h, next), b, next)

-----------------------------------------------------------------------------
(* Splitting.  The flags of the new header are whatever lies there: FREE is *)
(* set by markBlockFree, PREV_FREE by each of the three callers.            *)

CanSplitBlock(h, b, size) == h.blocks[b].size >= HeaderSize + size

SplitPoint(b, size) == b + size + Overhead

SplitBlock(h, b, size) ==
  LET rest   == SplitPoint(b, size)
      header == [size |-> h.blocks[b].size - size - Overhead, free |-> TRUE, prevFree |-> TRUE,
                 previous |-> NULL, next |-> NULL]
      blocks == [c \in DOMAIN h.blocks \cup {rest} |->
                   CASE c = rest -> header
                     [] c = b    -> [h.blocks[b] EXCEPT !.size = size]
                     [] OTHER    -> h.blocks[c]]
  IN  Assert(MarkBlockFree([h EXCEPT !.blocks = blocks], rest), header.size >= BlockSizeMin)

TrimFreeBlock(h, b, size) ==
  LET checked == Assert(h, h.blocks[b].free)
  IN  IF ~ CanSplitBlock(h, b, size) THEN checked
      ELSE InsertBlock(LinkBlockWithNext(SplitBlock(checked, b, size), b), SplitPoint(b, size))

(* The leading gap goes back to the lists; the block that is left is the    *)
(* second one.                                                              *)
TrimLeadingFreeBlock(h, b, gap) ==
  IF ~ CanSplitBlock(h, b, gap) THEN [heap |-> h, block |-> b]
  ELSE LET rest == SplitPoint(b, gap - Overhead)
       IN  [heap |-> InsertBlock(LinkBlockWithNext(SplitBlock(h, b, gap - Overhead), b), b),
            block |-> rest]

(* The rest is marked as if the used block before it were free.             *)
TrimUsedBlock(h, b, size) ==
  LET rest    == SplitPoint(b, size)
      checked == Assert(h, ~ h.blocks[b].free)
  IN  IF ~ CanSplitBlock(h, b, size) THEN checked
      ELSE [InsertBlock(MergeBlockWithNext(SplitBlock(checked, b, size), rest), rest)
              EXCEPT !.harmed = TRUE]

-----------------------------------------------------------------------------
(* Allocation.                                                              *)

(* The class of the first list that can serve a request of class, or none.  *)
SearchSuitableBlock(h, class) ==
  LET here  == {c \in h.sl : c[1] = class[1] /\ c[2] >= class[2]}
      above == {l \in h.fl : l > class[1]}
      level == IF here # {} THEN here ELSE {c \in h.sl : c[1] = Min(above)}
  IN  IF here = {} /\ above = {} THEN {}
      ELSE {CHOOSE c \in level : \A d \in level : c[2] <= d[2]}

(* A block taken off its list, NULL if there is none.                       *)
LocateFreeBlock(h, size) ==
  LET found == IF size = 0 THEN {} ELSE SearchSuitableBlock(h, SearchMapping(size))
      class == CHOOSE c \in found : TRUE
      block == h.head[class]
  IN  IF found = {} THEN [heap |-> h, block |-> NULL]
      ELSE [heap |-> RemoveFreeBlock(Assert(h, h.blocks[block].size >= size), block, class),
            block |-> block]

(* The client overwrites the list link in the block, and the next block's   *)
(* pointer back in its last word.                                           *)
HandOver(h, b) ==
  [h EXCEPT !.blocks[b].next = NULL, !.blocks[NextBlock(h, b)].previous = NULL]

PrepareBlockForUse(h, b, size) ==
  IF b = NULL THEN h ELSE HandOver(MarkBlockUsed(TrimFreeBlock(h, b, size), b), b)

TlsfAllocate(h, size) ==
  LET adjust == AdjustRequestSize(size)
      found  == LocateFreeBlock(h, adjust)
  IN  [heap |-> PrepareBlockForUse(found.heap, found.block, adjust), block |-> found.block]

(* The gap before an aligned pointer, if any, must hold a block of its own. *)
AlignedInOnce(b, alignment) ==  \* mutant
  LET aligned == AlignUp(b, alignment)
      short   == HeaderSize - (aligned - b)
  IN  IF aligned = b \/ short <= 0 THEN aligned ELSE aligned + Max({short, alignment})

AlignedIn(b, alignment) ==
  LET aligned == AlignUp(b, alignment)
      short   == HeaderSize - (aligned - b)
  IN  IF aligned = b \/ short <= 0 THEN aligned
      ELSE AlignUp(aligned + Max({short, alignment}), alignment)

TlsfAlign(h, alignment, size) ==
  LET adjust  == AdjustRequestSize(size)
      withGap == AlignUp(adjust + alignment + HeaderSize, alignment)
      found   == LocateFreeBlock(h, IF alignment <= Align THEN adjust ELSE withGap)
      gap     == AlignedIn(found.block, alignment) - found.block
      trimmed == IF gap = 0 THEN found ELSE TrimLeadingFreeBlock(found.heap, found.block, gap)
  IN  IF found.block = NULL THEN found
      ELSE [heap |-> PrepareBlockForUse(trimmed.heap, trimmed.block, adjust),
            block |-> trimmed.block]

TlsfFree(h, p) ==
  LET merged == MergeBlockWithPrevious(MarkBlockFree(h, p), p)
  IN  IF merged.heap.failed THEN merged.heap
      ELSE InsertBlock(MergeBlockWithNext(merged.heap, merged.block), merged.block)

TlsfReallocate(h, p, size) ==
  LET next     == h.blocks[NextBlock(h, p)]
      current  == h.blocks[p].size
      combined == current + next.size + Overhead
      adjust   == AdjustRequestSize(size)
      moved    == TlsfAllocate(h, size)
      grown    == IF adjust > current THEN MarkBlockUsed(MergeBlockWithNext(h, p), p) ELSE h
  IN  IF adjust > current /\ (~ next.free \/ adjust > combined)
        THEN IF moved.block = NULL THEN moved
             ELSE [heap |-> TlsfFree(moved.heap, p), block |-> moved.block]
      ELSE [heap |-> HandOver(TrimUsedBlock(grown, p, adjust), p), block |-> p]

-----------------------------------------------------------------------------
(* The calls of clients.  A pointer is given back at most once.             *)

Pool ==
  [blocks |-> [b \in {FirstBlock, Sentinel} |->
                IF b = FirstBlock
                  THEN [size |-> PoolBytes, free |-> TRUE, prevFree |-> FALSE,
                        previous |-> NULL, next |-> NULL]
                ELSE [size |-> 0, free |-> FALSE, prevFree |-> TRUE,
                      previous |-> FirstBlock, next |-> NULL]],
   head   |-> [c \in Classes |-> IF c = InsertMapping(PoolBytes) THEN FirstBlock ELSE NULL],
   fl     |-> {InsertMapping(PoolBytes)[1]},
   sl     |-> {InsertMapping(PoolBytes)},
   failed |-> FALSE,
   harmed |-> FALSE]

Init == heap = Pool /\ live = [p \in {} |-> 0]

Sound == ~ heap.failed /\ ~ heap.harmed
Becomes(h) == heap' = h /\ (Careful => ~ h.harmed)

Request(size, alignment) == [size |-> size, alignment |-> alignment]
Requests == {Request(size, alignment) : size \in Sizes, alignment \in Alignments \cup {Align}}

With(p, request, others) == [q \in others \cup {p} |-> IF q = p THEN request ELSE live[q]]

(* others is what clients still hold besides, if the request succeeds.      *)
Obtain(result, request, others) ==
  /\ Sound /\ Becomes(result.heap)
  /\ live' = IF result.block = NULL THEN live ELSE With(result.block, request, others)

Malloc(size) == Obtain(TlsfAllocate(heap, size), Request(size, Align), DOMAIN live)

Memalign(alignment, size) ==
  Obtain(TlsfAlign(heap, alignment, size), Request(size, alignment), DOMAIN live)

Free(p) ==
  Sound /\ Becomes(TlsfFree(heap, p)) /\ live' = Restrict(live, DOMAIN live \ {p})

(* A failed request leaves the original block alone.                        *)
Realloc(p, size) ==
  Obtain(TlsfReallocate(heap, p, size), Request(size, Align), DOMAIN live \ {p})

Next ==
  \/ \E size \in Sizes : Malloc(size)
  \/ \E size \in Sizes, alignment \in Alignments : Memalign(alignment, size)
  \/ \E p \in DOMAIN live : Free(p)
  \/ \E p \in DOMAIN live, size \in Sizes : Realloc(p, size)

Spec == Init /\ [][Next]_tlsfVars

-----------------------------------------------------------------------------
Blocks == DOMAIN heap.blocks \ {Sentinel}
FreeBlocks == {b \in Blocks : heap.blocks[b].free}

(* The heap is a record of its blocks, list heads and bitmaps.              *)
TypeOK ==
  /\ heap.blocks \in [DOMAIN heap.blocks ->
       [size : Nat, free : BOOLEAN, prevFree : BOOLEAN, previous : Nat, next : Nat]]
  /\ heap.head \in [Classes -> Nat]
  /\ heap.fl \subseteq Nat /\ heap.sl \subseteq Classes
  /\ heap.failed \in BOOLEAN /\ heap.harmed \in BOOLEAN
  /\ live \in [DOMAIN live -> Requests]

(* What integrityHeapWalker checks, and what coalescing is for: walking     *)
(* from block to block by their sizes leads from the first one to the       *)
(* sentinel through all of them, each knows whether the one before is free, *)
(* and where it is if so, no two neighbours are free, and no ASSERT fails.  *)
PhysicallySound ==
  /\ ~ heap.failed
  /\ {FirstBlock, Sentinel} \subseteq DOMAIN heap.blocks
  /\ {NextBlock(heap, b) : b \in Blocks} = DOMAIN heap.blocks \ {FirstBlock}
  /\ \A b \in Blocks :
       LET this == heap.blocks[b]
           next == heap.blocks[NextBlock(heap, b)]
       IN  /\ this.size >= BlockSizeMin /\ this.size % Align = 0
           /\ next.prevFree = this.free
           /\ this.free => next.previous = b /\ ~ next.free

(* What tlsfCheckHeapIntegrity checks and more: every free block is on the  *)
(* list of its class, nothing else is on a list, the lists end, and the     *)
(* bitmaps tell which have blocks.                                          *)
ListsSound ==
  /\ \A c \in Classes :
       LET bound == Cardinality(DOMAIN heap.blocks)
           at[n \in 0 .. bound] ==
             IF n = 0 THEN heap.head[c]
             ELSE IF at[n - 1] \in Blocks THEN heap.blocks[at[n - 1]].next ELSE NULL
       IN  /\ {at[n] : n \in 0 .. bound} \ {NULL} =
                {b \in FreeBlocks : InsertMapping(heap.blocks[b].size) = c}
           /\ at[bound] = NULL
  /\ heap.sl = {c \in Classes : heap.head[c] # NULL}
  /\ heap.fl = {c[1] : c \in heap.sl}

(* Memory is neither lost nor given away: the used blocks are those clients *)
(* hold, each as large as was asked for, and when the last is given back    *)
(* the pool is again the one block it was.                                  *)
NothingLost ==
  /\ Blocks \ FreeBlocks = DOMAIN live
  /\ \A p \in DOMAIN live : heap.blocks[p].size >= live[p].size
  /\ live = [p \in {} |-> 0] => Blocks = {FirstBlock}

Units(bound) == {Align * k : k \in 1 .. bound \div Align}
SmallestOf == [c \in Classes |->
  LET sizes == {s \in Units(2 * PoolBytes) : InsertMapping(s) = c}
  IN  IF sizes = {} THEN 0 ELSE Min(sizes)]

(* Good fit: a request is served exactly if there is a free block of a      *)
(* class all of whose blocks are large enough, and from the smallest such   *)
(* class.                                                                   *)
GoodFit ==
  \A request \in Sizes :
    LET size     == AdjustRequestSize(request)
        class(b) == InsertMapping(heap.blocks[b].size)
        fitting  == {b \in FreeBlocks : SmallestOf[class(b)] >= size}
        found    == LocateFreeBlock(heap, size).block
    IN  IF fitting = {} THEN found = NULL
        ELSE /\ found \in fitting
             /\ \A b \in fitting :
                  heap.blocks[b].size < heap.blocks[found].size => class(b) = class(found)
=============================================================================
