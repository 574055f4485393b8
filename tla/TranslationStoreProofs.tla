----------------------- MODULE TranslationStoreProofs -----------------------
(***************************************************************************)
(* Every operator of TranslationStore that a handler applies to the store  *)
(* keeps its type and keeps it well formed, for every value of the         *)
(* constants.                                                              *)
(***************************************************************************)
EXTENDS TranslationStore, WellFoundedInduction, TLAPS

-----------------------------------------------------------------------------
(* A set of naturals has a least element.                                  *)
LEMMA LeastNatural ==
  ASSUME NEW T \in SUBSET Nat, T # {}
  PROVE  \E x \in T : \A y \in T : x <= y
<1> DEFINE R == OpToRel(<, Nat)
<1>1. PICK x \in T : \A y \in T : ~ (<<y, x>> \in R)
  BY NatLessThanWellFounded, WFMin
<1>2. ASSUME NEW y \in T  PROVE x <= y
  <2>1. ~ (<<y, x>>[1] < <<y, x>>[2])
    BY <1>1, Zenon DEF OpToRel
  <2> QED  BY <2>1
<1> QED  BY <1>2

(* The scanner always meets an instruction it must replace: a guest image  *)
(* ends with one (scanArmBlock).                                           *)
LEMMA BlockEndFacts ==
  ASSUME NEW m \in Image, NEW a \in Addr
  PROVE  /\ BlockEnd(m, a) \in a .. NumAddr - 1
         /\ Replaced(m[BlockEnd(m, a)])
         /\ \A x \in a .. BlockEnd(m, a) - 1 : ~ Replaced(m[x])
<1> DEFINE T == {e \in a .. NumAddr - 1 : Replaced(m[e])}
<1>1. NumAddr - 1 \in T
  BY SizesAssumption DEF Addr, Image, Leaves, Replaced, IsBranch, ReplacedOp
<1>2. T \in SUBSET Nat
  BY SizesAssumption DEF Addr
<1>3. PICK e \in T : \A y \in T : e <= y
  BY <1>1, <1>2, LeastNatural
<1>4. \A x \in a .. e - 1 : ~ Replaced(m[x])
  BY <1>3, SizesAssumption DEF Addr
<1>5. \E f \in a .. NumAddr - 1 :
        Replaced(m[f]) /\ \A x \in a .. f - 1 : ~ Replaced(m[x])
  BY <1>3, <1>4
<1> QED  BY <1>5 DEF BlockEnd

(* A block is at least one hypercall and its index, and fits in the pool.  *)
LEMMA BlockLengthFacts ==
  ASSUME NEW m \in Image, NEW a \in Addr
  PROVE  /\ BlockLength(m, a) \in 2 .. PoolSize - 2
         /\ TwoHypercalls(m[BlockEnd(m, a)]) => BlockLength(m, a) > 2
<1> DEFINE e == BlockEnd(m, a)
<1>1. e \in Int /\ a \in Int /\ a <= e /\ e <= NumAddr - 1 /\ a >= 0
  BY BlockEndFacts, SizesAssumption DEF Addr
<1> HIDE DEF e
<1>2. BlockLength(m, a) = e - a + IF TwoHypercalls(m[e]) THEN 3 ELSE 2
  BY DEF BlockLength, e
<1>3. CASE TwoHypercalls(m[e])
  <2>1. BlockLength(m, a) = e - a + 3
    BY <1>2, <1>3
  <2> QED  BY <1>1, <2>1, SizesAssumption, PoolAssumption
<1>4. CASE ~ TwoHypercalls(m[e])
  <2>1. BlockLength(m, a) = e - a + 2
    BY <1>2, <1>4
  <2> QED  BY <1>1, <1>4, <2>1, SizesAssumption, PoolAssumption DEF e
<1> QED  BY <1>3, <1>4

(* The words of a block, as addInstructionToBlock is given them.           *)
LEMMA BlockWordFacts ==
  ASSUME NEW m \in Image, NEW a \in Addr, NEW s \in Slot,
         NEW k \in 0 .. BlockLength(m, a) - 1
  PROVE  LET n == BlockLength(m, a)
             w == BlockWord(m, a, s, k)
         IN /\ w \in Word
            /\ k < n - 3 => w.kind = "copy"
            /\ k = n - 3 => \/ w.kind = "copy"
                            \/ /\ TwoHypercalls(m[BlockEnd(m, a)])
                               /\ w.kind = "svc" /\ w.arg = s
            /\ k = n - 2 => w.kind = "svc" /\ w.arg = s /\ ~ w.cond
            /\ k = n - 1 => w.kind = "index" /\ w.arg = s
<1> DEFINE e == BlockEnd(m, a)
           n == BlockLength(m, a)
           w == BlockWord(m, a, s, k)
<1>1. /\ e \in Int /\ a \in Int /\ a <= e /\ e <= NumAddr - 1 /\ a >= 0
      /\ n \in Int /\ n >= 2 /\ k \in Int /\ 0 <= k /\ k <= n - 1
      /\ s \in Int
  BY BlockEndFacts, BlockLengthFacts, SizesAssumption DEF Addr, Slot
<1>2. /\ TwoHypercalls(m[e]) => n = e - a + 3
      /\ ~ TwoHypercalls(m[e]) => n = e - a + 2
  BY DEF BlockLength
<1>3. w = IF a + k < e THEN CopyWord(m[a + k])
          ELSE IF k = n - 1 THEN IndexWord(s) ELSE SvcWord(s, k = n - 3)
  BY DEF BlockWord
<1> HIDE DEF e, n, w
<1>4. CASE a + k < e
  <2>1. m[a + k] \in Instr
    BY <1>1, <1>4, SizesAssumption DEF Image, Addr
  <2>2. w \in Word /\ w.kind = "copy"
    BY <1>3, <1>4, <2>1 DEF CopyWord, Word
  <2>3. k < n - 2
    BY <1>1, <1>2, <1>4
  <2> QED  BY <1>1, <2>2, <2>3 DEF n, w
<1>5. CASE a + k >= e /\ k = n - 1
  <2>1. w = IndexWord(s)
    BY <1>1, <1>3, <1>5
  <2>2. w \in Word /\ w.kind = "index" /\ w.arg = s
    BY <1>1, <2>1 DEF IndexWord, Word
  <2> QED  BY <1>1, <1>5, <2>2 DEF n, w
<1>6. CASE a + k >= e /\ k # n - 1
  <2>1. w = SvcWord(s, k = n - 3)
    BY <1>1, <1>3, <1>6
  <2>2. w \in Word /\ w.kind = "svc" /\ w.arg = s /\ (w.cond => k = n - 3)
    BY <1>1, <2>1 DEF SvcWord, Word
  <2>3. k = n - 2 \/ (k = n - 3 /\ TwoHypercalls(m[e]))
    BY <1>1, <1>2, <1>6
  <2>4. k = n - 2 => ~ w.cond
    BY <1>1, <2>2
  <2> QED  BY <1>1, <1>6, <2>2, <2>3, <2>4 DEF n, w, e
<1> QED  BY <1>1, <1>4, <1>5, <1>6

(* Pages and bytes of the execution bitmap are numbers.                    *)
LEMMA SetExecType ==
  ASSUME NEW exec \in SUBSET Nat, NEW a \in Addr, NEW e \in Addr
  PROVE  SetExec(exec, a, e) \in SUBSET Nat
<1>1. \A x \in Addr : Page(x) \in Nat
  BY SizesAssumption DEF Page, Addr
<1>2. ByteOf(Page(e)) \in Nat /\ BitOf(Page(e)) \in Nat
  BY <1>1, SizesAssumption DEF ByteOf, BitOf
<1>3. \A y, b \in Nat : y * PagesPerByte + b \in Nat
  BY SizesAssumption
<1>4. \A y \in Nat : \A bits \in SUBSET Nat : PagesOfByte(y, bits) \in SUBSET Nat
  BY <1>3 DEF PagesOfByte
<1> DEFINE p == Page(a)
           q == Page(e)
           withFirst == exec \cup {p}
           readBits == {b \in 0 .. PagesPerByte - 1 : BitOf(q) * PagesPerByte + b \in withFirst}
           others == {x \in withFirst : ByteOf(x) # ByteOf(q)}
<1>5. withFirst \in SUBSET Nat /\ others \in SUBSET Nat
  BY <1>1
<1>6. readBits \cup {BitOf(q)} \in SUBSET Nat
  <2>1. readBits \in SUBSET Nat
    BY SizesAssumption
  <2> QED  BY <1>2, <2>1
<1>7. SetExec(exec, a, e) = IF p = q \/ BitOf(q) \in readBits THEN withFirst
                            ELSE others \cup PagesOfByte(ByteOf(q), readBits \cup {BitOf(q)})
  BY DEF SetExec
<1> HIDE DEF p, q, withFirst, readBits, others
<1>8. PagesOfByte(ByteOf(q), readBits \cup {BitOf(q)}) \in SUBSET Nat
  BY <1>2, <1>4, <1>6 DEF q
<1> QED  BY <1>5, <1>7, <1>8

LEMMA WriteProtectType ==
  ASSUME NEW wprot \in SUBSET Nat, NEW a \in Addr, NEW e \in Addr
  PROVE  WriteProtect(wprot, a, e) \in SUBSET Nat
<1>1. \A x \in a .. e : Page(x) \in Nat
  BY SizesAssumption DEF Page, Addr
<1>2. {Page(x) : x \in a .. e} \in SUBSET Nat
  BY <1>1
<1> QED  BY <1>2 DEF WriteProtect

-----------------------------------------------------------------------------
(* Filling a slot (addInstructionToBlock, for each word of a block).       *)

Start(t, m, a) == IF ReachesEnd(t, BlockLength(m, a)) THEN 0 ELSE t.free

LEMMA FillSlotStart ==
  ASSUME NEW t \in StoreType, NEW m \in Image, NEW a \in Addr
  PROVE  /\ Start(t, m, a) \in Nat
         /\ Start(t, m, a) + BlockLength(m, a) \in Host
         /\ t.free + BlockLength(m, a) = PoolSize => Start(t, m, a) = 0
<1>1. t.free \in Nat
  BY SizesAssumption DEF StoreType, Host
<1>2. BlockLength(m, a) \in 2 .. PoolSize - 2
  BY BlockLengthFacts
<1> QED  BY <1>1, <1>2, SizesAssumption DEF Start, ReachesEnd, Host

LEMMA FillSlotBlocks ==
  ASSUME NEW t \in StoreType, NEW m \in Image, NEW a \in Addr, NEW s \in Slot
  PROVE  LET u == FillSlot(t, m, a, s)
             b == u.blocks[s]
         IN /\ u.blocks \in [Slot -> Block]
            /\ u.free = b.cstart + b.csize
            /\ b.type = "BB" /\ b.gstart = a /\ b.gend = BlockEnd(m, a)
            /\ b.cstart = Start(t, m, a) /\ b.csize = BlockLength(m, a)
            /\ b.handler = Decode[m[BlockEnd(m, a)]].op
            /\ b.one <=> OneHypercall(t, m, a)
            /\ \A r \in Slot \ {s} : u.blocks[r] =
                  IF ReachesEnd(t, BlockLength(m, a)) THEN NullBlock ELSE t.blocks[r]
<1> DEFINE e == BlockEnd(m, a)
           n == BlockLength(m, a)
           wraps == ReachesEnd(t, n)
           block == [type |-> "BB", gstart |-> a, gend |-> e, cstart |-> Start(t, m, a),
                     csize |-> n, handler |-> Decode[m[e]].op, one |-> OneHypercall(t, m, a)]
           u == FillSlot(t, m, a, s)
<1>1. e \in Addr /\ m[e] \in Instr /\ Decode[m[e]].op \in ReplacedOp
  <2>1. e \in Addr
    BY BlockEndFacts, SizesAssumption DEF Addr
  <2>2. m[e] \in Instr
    BY <2>1 DEF Image
  <2>3. Decode[m[e]].op \in ReplacedOp
    BY BlockEndFacts DEF Replaced
  <2> QED  BY <2>1, <2>2, <2>3
<1>2. block \in Block
  <2>1. OneHypercall(t, m, a) \in BOOLEAN
    BY DEF OneHypercall
  <2>2. Start(t, m, a) \in Host /\ n \in Nat
    BY FillSlotStart, BlockLengthFacts, SizesAssumption DEF Host
  <2>3. Decode[m[e]].op \in ReplacedOp \cup {NoHandler}
    BY <1>1
  <2> HIDE DEF e, n
  <2> QED  BY <1>1, <2>1, <2>2, <2>3 DEF Block, BlockType, e
<1>3. NullBlock \in Block
  BY SizesAssumption DEF NullBlock, Block, BlockType, NoHandler
<1>4. t.blocks \in [Slot -> Block]
  BY DEF StoreType
<1>5. /\ u.blocks = [r \in Slot |-> IF r = s THEN block
                                   ELSE IF wraps THEN NullBlock ELSE t.blocks[r]]
      /\ u.free = Start(t, m, a) + n
  BY DEF FillSlot, Start
<1> HIDE DEF u
<1>6. u.blocks[s] = block
  BY <1>5
<1>7. u.blocks \in [Slot -> Block]
  BY <1>2, <1>3, <1>4, <1>5
<1>8. \A r \in Slot \ {s} : u.blocks[r] = IF wraps THEN NullBlock ELSE t.blocks[r]
  BY <1>5
<1> QED  BY <1>5, <1>6, <1>7, <1>8 DEF u

LEMMA FillSlotCode ==
  ASSUME NEW t \in StoreType, NEW m \in Image, NEW a \in Addr, NEW s \in Slot
  PROVE  LET u == FillSlot(t, m, a, s)
             n == BlockLength(m, a)
             start == Start(t, m, a)
         IN /\ u.code \in [Host -> Word]
            /\ \A h \in start .. start + n - 1 : u.code[h] = BlockWord(m, a, s, h - start)
            /\ ~ ReachesEnd(t, n) => \A h \in 0 .. t.free - 1 : u.code[h] = t.code[h]
<1> DEFINE n == BlockLength(m, a)
           start == Start(t, m, a)
           u == FillSlot(t, m, a, s)
<1>1. /\ start \in Nat /\ n \in Nat /\ n >= 2 /\ start + n < PoolSize
      /\ t.free \in Nat /\ t.free < PoolSize /\ t.code \in [Host -> Word]
  BY FillSlotStart, BlockLengthFacts, SizesAssumption DEF Host, StoreType
<1>2. u.code = [h \in Host |-> IF h \in start .. start + n - 1 THEN BlockWord(m, a, s, h - start)
                               ELSE IF ReachesEnd(t, n) /\ h >= t.free
                                    THEN BlockWord(m, a, s, h - t.free)
                                    ELSE t.code[h]]
  BY DEF FillSlot, Start
<1>3. ReachesEnd(t, n) => t.free + n >= PoolSize
  BY DEF ReachesEnd
<1>4. ~ ReachesEnd(t, n) => start = t.free
  BY DEF Start
<1> HIDE DEF n, start, u
<1>5. \A k \in 0 .. n - 1 : BlockWord(m, a, s, k) \in Word
  BY BlockWordFacts DEF n
<1>6. u.code \in [Host -> Word]
  <2> SUFFICES ASSUME NEW h \in Host  PROVE u.code[h] \in Word
    BY <1>2
  <2>1. CASE h \in start .. start + n - 1
    BY <1>1, <1>2, <1>5, <2>1
  <2>2. CASE h \notin start .. start + n - 1 /\ ReachesEnd(t, n) /\ h >= t.free
    <3>1. h - t.free \in 0 .. n - 1
      BY <1>1, <1>3, <2>2, SizesAssumption DEF Host
    <3> QED  BY <1>2, <1>5, <2>2, <3>1
  <2>3. CASE h \notin start .. start + n - 1 /\ ~ (ReachesEnd(t, n) /\ h >= t.free)
    BY <1>1, <1>2, <2>3
  <2> QED  BY <2>1, <2>2, <2>3
<1>7. \A h \in start .. start + n - 1 : u.code[h] = BlockWord(m, a, s, h - start)
  BY <1>1, <1>2, SizesAssumption DEF Host
<1>8. ~ ReachesEnd(t, n) => \A h \in 0 .. t.free - 1 : u.code[h] = t.code[h]
  BY <1>1, <1>2, <1>4, SizesAssumption DEF Host
<1> QED  BY <1>6, <1>7, <1>8 DEF n, start, u

LEMMA FillSlotType ==
  ASSUME NEW t \in StoreType, NEW m \in Image, NEW a \in Addr, NEW s \in Slot
  PROVE  FillSlot(t, m, a, s) \in StoreType
<1> DEFINE u == FillSlot(t, m, a, s)
           e == BlockEnd(m, a)
<1>1. u = [blocks |-> u.blocks, code |-> u.code, free |-> u.free,
           exec |-> SetExec(t.exec, a, e), wprot |-> WriteProtect(t.wprot, a, e)]
  BY DEF FillSlot
<1>2. e \in Addr
  BY BlockEndFacts, SizesAssumption DEF Addr
<1>3. SetExec(t.exec, a, e) \in SUBSET Nat /\ WriteProtect(t.wprot, a, e) \in SUBSET Nat
  <2>1. t.exec \in SUBSET Nat /\ t.wprot \in SUBSET Nat
    BY DEF StoreType
  <2> QED  BY <1>2, <2>1, SetExecType, WriteProtectType
<1>4. u.blocks \in [Slot -> Block] /\ u.code \in [Host -> Word] /\ u.free \in Host
  BY FillSlotBlocks, FillSlotCode, FillSlotStart
<1> HIDE DEF u, e
<1> QED  BY <1>1, <1>3, <1>4 DEF StoreType, u

-----------------------------------------------------------------------------
(* A block stays well formed when its words stay, and the live blocks stay *)
(* live and where they are.                                                *)
LEMMA SameCode ==
  ASSUME NEW t \in StoreType, NEW u \in StoreType, NEW r \in Slot,
         u.blocks[r] = t.blocks[r], t.free <= u.free, WellFormedCode(t, r),
         \A h \in t.blocks[r].cstart .. t.blocks[r].cstart + t.blocks[r].csize - 1 :
           u.code[h] = t.code[h],
         \A v \in Live(t) : v \in Live(u) /\ u.blocks[v].cstart = t.blocks[v].cstart
  PROVE  WellFormedCode(u, r)
<1> DEFINE b == t.blocks[r]
           last == b.cstart + b.csize - 2
<1>1. /\ b.csize \in Nat /\ b.cstart \in Nat /\ b.csize >= 2
      /\ t.free \in Nat /\ u.free \in Nat /\ b.cstart + b.csize <= t.free
  BY SizesAssumption DEF StoreType, Block, Host, WellFormedCode
<1>2. \A w : Exit(t, r, w) => Exit(u, r, w)
  BY DEF Exit
<1>3. \A h \in b.cstart .. last + 1 : u.code[h] = t.code[h]
  BY <1>1
<1> HIDE DEF b
<1>4. /\ u.code[last] = t.code[last] /\ u.code[last + 1] = t.code[last + 1]
      /\ last = b.cstart \/ u.code[last - 1] = t.code[last - 1]
      /\ \A h \in b.cstart .. last - 2 : u.code[h] = t.code[h]
  BY <1>1, <1>3
<1>5. LastHypercall(b) = last /\ LastHypercall(u.blocks[r]) = last
  BY DEF LastHypercall, b
<1>6. /\ b.one \/ b.csize > 2 \/ b.cstart = 0
      /\ \A h \in b.cstart .. last - 2 : t.code[h].kind = "copy"
      /\ \/ last = b.cstart
         \/ t.code[last - 1].kind = "copy"
         \/ ~ b.one /\ Exit(t, r, t.code[last - 1])
      /\ Exit(t, r, t.code[last]) /\ ~ t.code[last].cond
      /\ t.code[last + 1].kind = "index" /\ t.code[last + 1].arg = r
  BY <1>5 DEF WellFormedCode, b
<1>7. b.cstart + b.csize <= u.free
  BY <1>1
<1>8. u.blocks[r] = b
  BY DEF b
<1> HIDE DEF last
<1> QED  BY <1>1, <1>2, <1>4, <1>5, <1>6, <1>7, <1>8 DEF WellFormedCode

(* The block that is filled in is well formed.                             *)
LEMMA FilledBlock ==
  ASSUME NEW t \in StoreType, NEW m \in Image, NEW a \in Addr, NEW s \in Slot
  PROVE  LET u == FillSlot(t, m, a, s)
         IN s \in Live(u) /\ WellFormedCode(u, s) /\ WellFormedGuest(u, m, s)
<1> DEFINE u == FillSlot(t, m, a, s)
           b == u.blocks[s]
           n == BlockLength(m, a)
           start == Start(t, m, a)
           last == start + n - 2
<1>1. /\ b.type = "BB" /\ b.gstart = a /\ b.gend = BlockEnd(m, a)
      /\ b.cstart = start /\ b.csize = n /\ u.free = start + n
      /\ b.handler = Decode[m[BlockEnd(m, a)]].op
      /\ b.one <=> OneHypercall(t, m, a)
  BY FillSlotBlocks
<1>2. \A h \in start .. start + n - 1 : u.code[h] = BlockWord(m, a, s, h - start)
  BY FillSlotCode
<1>3. /\ start \in Nat /\ n \in Nat /\ n >= 2 /\ t.free \in Nat
      /\ TwoHypercalls(m[BlockEnd(m, a)]) => n > 2
      /\ t.free + n = PoolSize => start = 0
  BY FillSlotStart, BlockLengthFacts, SizesAssumption DEF StoreType, Host
<1>4. \A k \in 0 .. n - 1 :
        LET w == BlockWord(m, a, s, k)
        IN /\ k < n - 3 => w.kind = "copy"
           /\ k = n - 3 => \/ w.kind = "copy"
                           \/ /\ TwoHypercalls(m[BlockEnd(m, a)])
                              /\ w.kind = "svc" /\ w.arg = s
           /\ k = n - 2 => w.kind = "svc" /\ w.arg = s /\ ~ w.cond
           /\ k = n - 1 => w.kind = "index" /\ w.arg = s
  BY BlockWordFacts
<1>5. LastHypercall(b) = last
  BY <1>1 DEF LastHypercall
<1>6. b.one \/ TwoHypercalls(m[BlockEnd(m, a)]) \/ t.free + n = PoolSize
  BY <1>1 DEF OneHypercall
<1>7. TwoHypercalls(m[BlockEnd(m, a)]) => ~ b.one
  BY <1>1 DEF OneHypercall
<1>8. s \in Live(u)
  BY <1>1 DEF Live
<1>9. WellFormedGuest(u, m, s)
  <2>1. BlockEnd(m, a) \in Addr /\ BlockEnd(m, a) <= NumAddr - 1
    BY BlockEndFacts, SizesAssumption DEF Addr
  <2>2. Decode[m[BlockEnd(m, a)]].op \in ReplacedOp
    BY BlockEndFacts DEF Replaced
  <2> HIDE DEF u
  <2> QED  BY <1>1, <2>1, <2>2 DEF WellFormedGuest
<1> HIDE DEF u, n, start
<1>10. \A h \in start .. last - 2 : u.code[h].kind = "copy"
  BY <1>2, <1>3, <1>4
<1>11. \/ last = start
       \/ u.code[last - 1].kind = "copy"
       \/ ~ b.one /\ Exit(u, s, u.code[last - 1])
  <2>1. CASE last > start
    <3>1. u.code[last - 1] = BlockWord(m, a, s, n - 3)
      BY <1>2, <1>3, <2>1
    <3>2. n - 3 \in 0 .. n - 1
      BY <1>3, <2>1
    <3> QED  BY <1>4, <1>7, <3>1, <3>2 DEF Exit
  <2> QED  BY <1>3, <2>1
<1>12. /\ u.code[last].kind = "svc" /\ u.code[last].arg = s /\ ~ u.code[last].cond
       /\ u.code[last + 1].kind = "index" /\ u.code[last + 1].arg = s
  <2>1. u.code[last] = BlockWord(m, a, s, n - 2) /\ u.code[last + 1] = BlockWord(m, a, s, n - 1)
    BY <1>2, <1>3
  <2>2. n - 2 \in 0 .. n - 1 /\ n - 1 \in 0 .. n - 1
    BY <1>3
  <2> QED  BY <1>4, <2>1, <2>2
<1>13. Exit(u, s, u.code[last])
  BY <1>12 DEF Exit
<1> HIDE DEF last, b
<1>14. b.cstart \in Nat /\ b.csize >= 2 /\ b.cstart + b.csize <= u.free
  BY <1>1, <1>3
<1>15. b.one \/ b.csize > 2 \/ b.cstart = 0
  BY <1>1, <1>3, <1>6
<1>16. WellFormedCode(u, s)
  BY <1>1, <1>5, <1>10, <1>11, <1>12, <1>13, <1>14, <1>15 DEF WellFormedCode, b
<1> QED  BY <1>8, <1>9, <1>16 DEF u

(* The blocks that are left after another slot is filled are well formed.  *)
LEMMA FillSlotWellFormed ==
  ASSUME NEW t \in StoreType, NEW m \in Image, NEW a \in Addr, NEW s \in Slot,
         WellFormed(t, m), s \notin Live(t)
  PROVE  WellFormed(FillSlot(t, m, a, s), m)
<1> DEFINE u == FillSlot(t, m, a, s)
           n == BlockLength(m, a)
<1>1. u \in StoreType
  BY FillSlotType
<1>2. s \in Live(u) /\ WellFormedCode(u, s) /\ WellFormedGuest(u, m, s)
  BY FilledBlock
<1>3. \A r \in Slot \ {s} : u.blocks[r] = IF ReachesEnd(t, n) THEN NullBlock ELSE t.blocks[r]
  BY FillSlotBlocks
<1>4. /\ u.blocks[s].cstart = Start(t, m, a) /\ u.blocks[s].csize = n
      /\ u.free = Start(t, m, a) + n
  BY FillSlotBlocks
<1>5. n \in Nat /\ t.free \in Nat
  BY BlockLengthFacts, SizesAssumption DEF StoreType, Host
<1>6. ~ ReachesEnd(t, n) =>
        Start(t, m, a) = t.free /\ \A h \in 0 .. t.free - 1 : u.code[h] = t.code[h]
  BY FillSlotCode DEF Start
<1> HIDE DEF u, n
<1>7. CASE ReachesEnd(t, n)
  <2>1. \A r \in Live(u) : r = s
    BY <1>3, <1>7 DEF Live, NullBlock
  <2> QED  BY <1>2, <2>1 DEF WellFormed, u
<1>8. CASE ~ ReachesEnd(t, n)
  <2>1. \A r \in Slot \ {s} : u.blocks[r] = t.blocks[r]
    BY <1>3, <1>8
  <2>2. \A r \in Live(u) \ {s} : r \in Live(t) /\ r \in Slot
    BY <2>1 DEF Live
  <2>3. \A v \in Live(t) : v \in Live(u) /\ u.blocks[v].cstart = t.blocks[v].cstart
    BY <2>1 DEF Live
  <2>4. \A r \in Live(t) :
          /\ t.blocks[r].cstart \in Nat /\ t.blocks[r].csize \in Nat
          /\ t.blocks[r].cstart + t.blocks[r].csize <= t.free
    BY DEF WellFormed, WellFormedCode, StoreType, Block, Live
  <2>5. ASSUME NEW r \in Live(u) \ {s}  PROVE WellFormedCode(u, r)
    <3>1. \A h \in t.blocks[r].cstart .. t.blocks[r].cstart + t.blocks[r].csize - 1 :
            u.code[h] = t.code[h]
      BY <1>5, <1>6, <1>8, <2>2, <2>4
    <3>2. t.free <= u.free
      BY <1>4, <1>5, <1>6, <1>8
    <3>3. WellFormedCode(t, r) /\ u.blocks[r] = t.blocks[r]
      BY <2>1, <2>2 DEF WellFormed
    <3> QED  BY <1>1, <2>2, <2>3, <3>1, <3>2, <3>3, SameCode
  <2>6. ASSUME NEW r \in Live(u) \ {s}  PROVE WellFormedGuest(u, m, r)
    <3>1. WellFormedGuest(t, m, r) /\ u.blocks[r] = t.blocks[r]
      BY <2>1, <2>2 DEF WellFormed
    <3> QED  BY <3>1 DEF WellFormedGuest
  <2>7. \A r \in Live(u) \ {s} : Apart(u.blocks[r], u.blocks[s]) /\ Apart(u.blocks[s], u.blocks[r])
    BY <1>4, <1>6, <1>8, <2>1, <2>2, <2>4 DEF Apart
  <2>8. \A r, q \in Live(u) \ {s} : r # q => Apart(u.blocks[r], u.blocks[q])
    BY <2>1, <2>2 DEF WellFormed
  <2> QED  BY <1>2, <2>5, <2>6, <2>7, <2>8 DEF WellFormed, u
<1> QED  BY <1>7, <1>8

-----------------------------------------------------------------------------
(* Linking and unlinking: blocks change their type, and words that end     *)
(* them are patched.                                                       *)
SamePlace(b, c) ==
  /\ b.gstart = c.gstart /\ b.gend = c.gend /\ b.handler = c.handler
  /\ b.cstart = c.cstart /\ b.csize = c.csize /\ b.one = c.one

Patched(t, u, s, h) ==
  LET b == t.blocks[s]
  IN \/ /\ u.code[h] = t.code[h]
        /\ \/ u.blocks[s].type = t.blocks[s].type
           \/ u.blocks[s].type = "GB"
           \/ t.code[h].kind # "b"
     \/ /\ h \in Restored(b) /\ Exit(u, s, u.code[h])
        /\ h = LastHypercall(b) => ~ u.code[h].cond

LEMMA PatchedCode ==
  ASSUME NEW t \in StoreType, NEW u \in StoreType, NEW s \in Live(t),
         Live(u) = Live(t), u.free = t.free, WellFormedCode(t, s),
         \A r \in Live(t) : SamePlace(u.blocks[r], t.blocks[r]),
         \A h \in t.blocks[s].cstart .. LastHypercall(t.blocks[s]) + 1 : Patched(t, u, s, h)
  PROVE  WellFormedCode(u, s)
<1> DEFINE b == t.blocks[s]
           last == b.cstart + b.csize - 2
<1>1. /\ b.csize \in Nat /\ b.cstart \in Nat /\ b.csize >= 2 /\ b.cstart + b.csize <= t.free
      /\ t.free \in Nat
  BY SizesAssumption DEF StoreType, Block, Host, WellFormedCode, Live
<1>2. LastHypercall(b) = last /\ LastHypercall(u.blocks[s]) = last
  BY DEF LastHypercall, SamePlace
<1>3. Restored(b) = {last} \cup IF b.one THEN {} ELSE {last - 1}
  BY <1>2 DEF Restored
<1>4. ASSUME NEW w, Exit(t, s, w),
             u.blocks[s].type = t.blocks[s].type \/ u.blocks[s].type = "GB" \/ w.kind # "b"
      PROVE  Exit(u, s, w)
  BY <1>4 DEF Exit, SamePlace
<1>5. /\ b.one \/ b.csize > 2 \/ b.cstart = 0
      /\ \A h \in b.cstart .. last - 2 : t.code[h].kind = "copy"
      /\ \/ last = b.cstart
         \/ t.code[last - 1].kind = "copy"
         \/ ~ b.one /\ Exit(t, s, t.code[last - 1])
      /\ Exit(t, s, t.code[last]) /\ ~ t.code[last].cond
      /\ t.code[last + 1].kind = "index" /\ t.code[last + 1].arg = s
  BY <1>2 DEF WellFormedCode
<1>6. SamePlace(u.blocks[s], b)
  OBVIOUS
<1>7. \A h \in b.cstart .. last + 1 : Patched(t, u, s, h)
  BY <1>2
<1> HIDE DEF b, last
<1>8. \A h \in b.cstart .. last + 1 :
         \/ /\ u.code[h] = t.code[h]
            /\ \/ u.blocks[s].type = t.blocks[s].type
               \/ u.blocks[s].type = "GB"
               \/ t.code[h].kind # "b"
         \/ /\ h = last \/ (h = last - 1 /\ ~ b.one)
            /\ Exit(u, s, u.code[h])
            /\ h = last => ~ u.code[h].cond
  BY <1>2, <1>3, <1>7 DEF Patched, b
<1>9. last \in Int /\ last = b.cstart + b.csize - 2
  BY <1>1 DEF last
<1>10. \A h \in b.cstart .. last - 2 : u.code[h].kind = "copy"
  BY <1>1, <1>5, <1>8, <1>9
<1>11. \/ last = b.cstart
       \/ u.code[last - 1].kind = "copy"
       \/ ~ b.one /\ Exit(u, s, u.code[last - 1])
  <2> SUFFICES ASSUME last # b.cstart
               PROVE  u.code[last - 1].kind = "copy" \/ (~ b.one /\ Exit(u, s, u.code[last - 1]))
    OBVIOUS
  <2>1. last - 1 \in b.cstart .. last + 1
    BY <1>1, <1>9
  <2> QED  BY <1>4, <1>5, <1>8, <1>9, <2>1
<1>12. Exit(u, s, u.code[last]) /\ ~ u.code[last].cond
  <2>1. last \in b.cstart .. last + 1
    BY <1>1, <1>9
  <2> QED  BY <1>4, <1>5, <1>8, <1>9, <2>1
<1>13. u.code[last + 1] = t.code[last + 1]
  BY <1>1, <1>8, <1>9
<1> QED
  BY <1>1, <1>2, <1>5, <1>6, <1>10, <1>11, <1>12, <1>13 DEF WellFormedCode, SamePlace

LEMMA PatchedWellFormed ==
  ASSUME NEW t \in StoreType, NEW u \in StoreType, NEW m,
         Live(u) = Live(t), u.free = t.free, WellFormed(t, m),
         \A r \in Live(t) : SamePlace(u.blocks[r], t.blocks[r]),
         \A s \in Live(t) :
           \A h \in t.blocks[s].cstart .. LastHypercall(t.blocks[s]) + 1 : Patched(t, u, s, h)
  PROVE  WellFormed(u, m)
<1>1. \A s \in Live(t) : WellFormedCode(u, s)
  BY PatchedCode DEF WellFormed
<1>2. \A s \in Live(t) : WellFormedGuest(u, m, s)
  BY DEF WellFormed, WellFormedGuest, SamePlace
<1>3. \A r, s \in Live(t) : r # s => Apart(u.blocks[r], u.blocks[s])
  BY DEF WellFormed, Apart, SamePlace
<1> QED  BY <1>1, <1>2, <1>3 DEF WellFormed

(* What the invariant says of a word of a live block.                      *)
LEMMA BlockWords ==
  ASSUME NEW t \in StoreType, NEW m, WellFormed(t, m), NEW s \in Live(t)
  PROVE  LET b == t.blocks[s]
             last == LastHypercall(b)
         IN /\ b \in Block /\ b.cstart \in Nat /\ b.csize \in Nat /\ last \in Nat
            /\ b.cstart <= last /\ last = b.cstart + b.csize - 2 /\ last + 1 < t.free
            /\ last + 1 \in Host
            /\ Restored(b) \cap Nat \subseteq Body(b)
            /\ \A h \in Body(b) : h \in Restored(b) \/ t.code[h].kind = "copy"
            /\ \A h \in Body(b) : t.code[h].kind \in {"copy", "svc", "b"}
            /\ \A h \in Body(b) : t.code[h].kind = "svc" => t.code[h].arg = s
            /\ \A h \in Body(b) : t.code[h].kind = "b" =>
                 b.type = "GB" /\ \E u \in Live(t) : t.code[h].arg = t.blocks[u].cstart
            /\ t.code[last].kind # "copy" /\ ~ t.code[last].cond
            /\ t.code[last + 1].kind = "index" /\ t.code[last + 1].arg = s
<1> DEFINE b == t.blocks[s]
           last == LastHypercall(b)
<1>1. /\ b \in Block /\ b.cstart \in Nat /\ b.csize \in Nat /\ b.csize >= 2
      /\ t.free \in Nat /\ t.free < PoolSize /\ b.cstart + b.csize <= t.free
      /\ last = b.cstart + b.csize - 2
  BY SizesAssumption DEF StoreType, Block, Host, WellFormed, WellFormedCode, Live, LastHypercall
<1>2. /\ b.one \/ b.csize > 2 \/ b.cstart = 0
      /\ \A h \in b.cstart .. last - 2 : t.code[h].kind = "copy"
      /\ \/ last = b.cstart
         \/ t.code[last - 1].kind = "copy"
         \/ ~ b.one /\ Exit(t, s, t.code[last - 1])
      /\ Exit(t, s, t.code[last]) /\ ~ t.code[last].cond
      /\ t.code[last + 1].kind = "index" /\ t.code[last + 1].arg = s
  BY DEF WellFormed, WellFormedCode
<1>3. Restored(b) = {last} \cup IF b.one THEN {} ELSE {last - 1}
  BY DEF Restored
<1>4. Body(b) = b.cstart .. last
  BY DEF Body
<1> HIDE DEF last, b
<1>5. last + 1 \in Host /\ last \in Nat /\ b.cstart <= last /\ last + 1 < t.free
  BY <1>1, SizesAssumption DEF Host
<1>6. b.one \/ last - 1 >= b.cstart \/ last - 1 < 0
  BY <1>1, <1>2
<1>7. Restored(b) \cap Nat \subseteq Body(b)
  BY <1>3, <1>4, <1>5, <1>6, <1>1
<1>8. ASSUME NEW h \in Body(b)
      PROVE  /\ h \in Restored(b) \/ t.code[h].kind = "copy"
             /\ t.code[h].kind = "copy" \/ Exit(t, s, t.code[h])
  <2>1. h \in b.cstart .. last - 2 \/ h = last \/ (h = last - 1 /\ last # b.cstart)
    BY <1>1, <1>4, <1>5
  <2>2. CASE h \in b.cstart .. last - 2
    BY <1>2, <2>2
  <2>3. CASE h = last
    BY <1>2, <1>3, <2>3
  <2>4. CASE h = last - 1 /\ last # b.cstart
    BY <1>2, <1>3, <2>4
  <2> QED  BY <2>1, <2>2, <2>3, <2>4
<1>9. t.code[last].kind # "copy"
  BY <1>2 DEF Exit
<1> QED  BY <1>1, <1>2, <1>5, <1>7, <1>8, <1>9 DEF Exit, b, last

(* Two live blocks share no word.                                          *)
LEMMA BodiesApart ==
  ASSUME NEW t \in StoreType, NEW m, WellFormed(t, m),
         NEW r \in Live(t), NEW s \in Live(t), r # s,
         NEW h \in Body(t.blocks[r])
  PROVE  h \notin t.blocks[s].cstart .. LastHypercall(t.blocks[s]) + 1
<1>1. Apart(t.blocks[r], t.blocks[s])
  BY DEF WellFormed
<1>2. /\ t.blocks[r].cstart \in Nat /\ t.blocks[r].csize \in Nat
      /\ LastHypercall(t.blocks[r]) = t.blocks[r].cstart + t.blocks[r].csize - 2
      /\ t.blocks[s].cstart \in Nat /\ t.blocks[s].csize \in Nat
      /\ LastHypercall(t.blocks[s]) = t.blocks[s].cstart + t.blocks[s].csize - 2
  BY BlockWords
<1> QED  BY <1>1, <1>2 DEF Apart, Body

(* linkBlock keeps the store well formed, and no block comes or goes.      *)
LEMMA LinkKeeps ==
  ASSUME NEW t \in StoreType, NEW m \in Image, WellFormed(t, m), NEW next,
         NEW s \in Live(t), NEW host \in Body(t.blocks[s]), t.code[host].kind = "svc"
  PROVE  LET u == Link(t, m, next, host, s)
         IN u \in StoreType /\ WellFormed(u, m) /\ Live(u) = Live(t)
<1> DEFINE u == Link(t, m, next, host, s)
           b == t.blocks[s]
           q == Probe(t, next)
           jump == JumpWord(t.blocks[q].cstart, LinkCondition(b, m, host))
<1>1. CASE ~ Found(t, next)
  BY <1>1 DEF Link
<1>2. CASE Found(t, next)
  <2>1. q \in Live(t) /\ q \in Slot /\ s \in Slot
    BY <1>2 DEF Found, Live
  <2>2. u = [t EXCEPT !.code = [t.code EXCEPT ![host] = jump],
                      !.blocks = [r \in Slot |-> IF r \in {s, q}
                                                  THEN [t.blocks[r] EXCEPT !.type = "GB"]
                                                  ELSE t.blocks[r]]]
    BY <1>2 DEF Link, GroupOfLink
  <2>3. jump \in Word /\ jump.kind = "b" /\ jump.arg = t.blocks[q].cstart
        /\ (host = LastHypercall(b) => ~ jump.cond)
    <3>1. t.blocks[q].cstart \in Int
      BY <2>1, BlockWords
    <3>2. LinkCondition(b, m, host) \in BOOLEAN
      BY DEF LinkCondition
    <3>3. host = LastHypercall(b) => ~ LinkCondition(b, m, host)
      BY DEF LinkCondition
    <3> QED  BY <3>1, <3>2, <3>3 DEF JumpWord, Word
  <2> HIDE DEF jump, q, u
  <2>4. host \in Host
    BY BlockWords, SizesAssumption DEF Body, Host
  <2>5. t = [blocks |-> t.blocks, code |-> t.code, free |-> t.free,
             exec |-> t.exec, wprot |-> t.wprot]
        /\ t.blocks \in [Slot -> Block] /\ t.code \in [Host -> Word]
    BY DEF StoreType
  <2>6. /\ u.code = [t.code EXCEPT ![host] = jump]
        /\ u.blocks = [r \in Slot |-> IF r \in {s, q} THEN [t.blocks[r] EXCEPT !.type = "GB"]
                                      ELSE t.blocks[r]]
        /\ u.free = t.free /\ u.exec = t.exec /\ u.wprot = t.wprot
        /\ u = [blocks |-> u.blocks, code |-> u.code, free |-> u.free,
                exec |-> u.exec, wprot |-> u.wprot]
    BY <2>2, <2>5
  <2>7. \A r \in Slot : /\ u.blocks[r] \in Block /\ SamePlace(u.blocks[r], t.blocks[r])
                        /\ r \in {s, q} => u.blocks[r].type = "GB"
                        /\ r \notin {s, q} => u.blocks[r].type = t.blocks[r].type
    BY <2>5, <2>6 DEF Block, BlockType, SamePlace
  <2>8. u.blocks \in [Slot -> Block]
    BY <2>6, <2>7
  <2>9. u \in StoreType
    BY <2>3, <2>4, <2>5, <2>6, <2>8 DEF StoreType
  <2>10. Live(u) = Live(t)
    BY <2>1, <2>7 DEF Live
  <2>11. ASSUME NEW r \in Live(t),
                NEW h \in t.blocks[r].cstart .. LastHypercall(t.blocks[r]) + 1
         PROVE  Patched(t, u, r, h)
    <3>1. u.blocks[r].type = t.blocks[r].type \/ u.blocks[r].type = "GB"
      BY <2>7 DEF Live
    <3>2. CASE h # host
      <4>1. h \in Host
        BY BlockWords, SizesAssumption DEF Host
      <4>2. u.code[h] = t.code[h]
        BY <2>5, <2>6, <3>2, <4>1
      <4> QED  BY <3>1, <4>2 DEF Patched
    <3>3. CASE h = host
      <4>1. r = s
        BY <3>3, BodiesApart
      <4>2. u.code[host] = jump
        BY <2>4, <2>5, <2>6
      <4>3. host \in Restored(b)
        BY BlockWords
      <4>4. Exit(u, s, jump)
        BY <2>1, <2>3, <2>7, <2>10 DEF Exit, SamePlace
      <4> QED  BY <2>3, <3>3, <4>1, <4>2, <4>3, <4>4 DEF Patched
    <3> QED  BY <3>2, <3>3
  <2>12. WellFormed(u, m)
    BY <2>6, <2>7, <2>9, <2>10, <2>11, PatchedWellFormed DEF Live
  <2> QED  BY <2>9, <2>10, <2>12 DEF u
<1> QED  BY <1>1, <1>2

(* unlinkBlock on some live blocks: they stand alone again, the others are *)
(* untouched.                                                              *)
LEMMA UnlinkKeeps ==
  ASSUME NEW t \in StoreType, NEW m \in Image, WellFormed(t, m),
         NEW slots \in SUBSET Live(t)
  PROVE  LET u == Unlink(t, slots)
         IN /\ u \in StoreType /\ WellFormed(u, m) /\ Live(u) = Live(t)
            /\ \A r \in Slot : SamePlace(u.blocks[r], t.blocks[r])
            /\ \A r \in slots : u.blocks[r].type = "BB"
            /\ \A r \in Slot \ slots : u.blocks[r].type = t.blocks[r].type
            /\ slots = {} => u.code = t.code
<1> DEFINE u == Unlink(t, slots)
           doomed(h) == \E s \in slots : h \in Restored(t.blocks[s])
           owner(h) == CHOOSE s \in slots : h \in Restored(t.blocks[s])
           word(h) == SvcWord(owner(h), h # LastHypercall(t.blocks[owner(h)]) /\ t.code[h].cond)
<1>1. u = [t EXCEPT !.code = [h \in Host |-> IF doomed(h) THEN word(h) ELSE t.code[h]],
                    !.blocks = [s \in Slot |-> IF s \in slots THEN [t.blocks[s] EXCEPT !.type = "BB"]
                                               ELSE t.blocks[s]]]
  BY DEF Unlink
<1> HIDE DEF u
<1>2. slots \subseteq Slot
  BY DEF Live
<1>3. t = [blocks |-> t.blocks, code |-> t.code, free |-> t.free,
           exec |-> t.exec, wprot |-> t.wprot]
      /\ t.blocks \in [Slot -> Block] /\ t.code \in [Host -> Word]
  BY DEF StoreType
<1>4. \A h \in Host : doomed(h) =>
        /\ owner(h) \in slots /\ h \in Restored(t.blocks[owner(h)])
        /\ word(h) \in Word /\ word(h).kind = "svc" /\ word(h).arg = owner(h)
        /\ h = LastHypercall(t.blocks[owner(h)]) => ~ word(h).cond
  <2> SUFFICES ASSUME NEW h \in Host, doomed(h)
               PROVE  /\ owner(h) \in slots /\ h \in Restored(t.blocks[owner(h)])
                      /\ word(h) \in Word /\ word(h).kind = "svc" /\ word(h).arg = owner(h)
                      /\ h = LastHypercall(t.blocks[owner(h)]) => ~ word(h).cond
    OBVIOUS
  <2>1. owner(h) \in slots /\ h \in Restored(t.blocks[owner(h)])
    OBVIOUS
  <2>2. owner(h) \in Int
    <3>1. \A r \in Slot : r \in Int
      BY SizesAssumption DEF Slot
    <3> HIDE DEF owner
    <3> QED  BY <1>2, <2>1, <3>1
  <2>3. (h # LastHypercall(t.blocks[owner(h)]) /\ t.code[h].cond) \in BOOLEAN
    OBVIOUS
  <2> HIDE DEF owner, doomed
  <2>4. word(h) \in Word /\ word(h).kind = "svc" /\ word(h).arg = owner(h)
        /\ (h = LastHypercall(t.blocks[owner(h)]) => ~ word(h).cond)
    BY <2>2, <2>3 DEF SvcWord, Word
  <2> QED  BY <2>1, <2>4
<1>5. /\ u.code = [h \in Host |-> IF doomed(h) THEN word(h) ELSE t.code[h]]
      /\ u.blocks = [s \in Slot |-> IF s \in slots THEN [t.blocks[s] EXCEPT !.type = "BB"]
                                    ELSE t.blocks[s]]
      /\ u.free = t.free /\ u.exec = t.exec /\ u.wprot = t.wprot
      /\ u = [blocks |-> u.blocks, code |-> u.code, free |-> u.free,
              exec |-> u.exec, wprot |-> u.wprot]
  <2> HIDE DEF doomed, word
  <2> QED  BY <1>1, <1>3
<1>6. slots = {} => u.code = t.code
  <2>1. ASSUME slots = {}  PROVE \A h \in Host : ~ doomed(h)
    BY <2>1
  <2> HIDE DEF doomed, word
  <2> QED  BY <1>3, <1>5, <2>1
<1> HIDE DEF owner, word
<1>7. \A r \in Slot : /\ u.blocks[r] \in Block /\ SamePlace(u.blocks[r], t.blocks[r])
                      /\ r \in slots => u.blocks[r].type = "BB"
                      /\ r \notin slots => u.blocks[r].type = t.blocks[r].type
  BY <1>3, <1>5 DEF Block, BlockType, SamePlace
<1>8. u.code \in [Host -> Word]
  <2> HIDE DEF doomed
  <2> QED  BY <1>3, <1>4, <1>5
<1>9. u.blocks \in [Slot -> Block]
  BY <1>5, <1>7
<1>10. u \in StoreType
  BY <1>5, <1>8, <1>9 DEF StoreType
<1>11. Live(u) = Live(t)
  BY <1>2, <1>7 DEF Live
<1>12. ASSUME NEW r \in Live(t),
              NEW h \in t.blocks[r].cstart .. LastHypercall(t.blocks[r]) + 1
       PROVE  Patched(t, u, r, h)
  <2>1. h \in Host /\ h \in Nat
    BY BlockWords, SizesAssumption DEF Host
  <2>2. \A s \in slots : h \in Restored(t.blocks[s]) => s = r
    BY <2>1, BlockWords, BodiesApart
  <2>3. r \in Slot
    BY DEF Live
  <2>4. CASE doomed(h)
    <3>1. owner(h) = r /\ r \in slots /\ h \in Restored(t.blocks[r])
      BY <1>4, <2>1, <2>2, <2>4
    <3>2. u.code[h] = word(h)
      BY <1>5, <2>1, <2>4
    <3>3. Exit(u, r, u.code[h]) /\ (h = LastHypercall(t.blocks[r]) => ~ u.code[h].cond)
      BY <1>4, <2>1, <2>4, <3>1, <3>2 DEF Exit
    <3> QED  BY <3>1, <3>3 DEF Patched
  <2>5. CASE ~ doomed(h)
    <3>1. u.code[h] = t.code[h]
      BY <1>5, <2>1, <2>5
    <3>2. r \notin slots => u.blocks[r].type = t.blocks[r].type
      BY <1>7, <2>3
    <3>3. r \in slots => t.code[h].kind # "b"
      <4>1. ASSUME r \in slots  PROVE h \notin Restored(t.blocks[r])
        BY <2>5, <4>1
      <4>2. h \in Body(t.blocks[r]) \/ h = LastHypercall(t.blocks[r]) + 1
        BY <2>1, BlockWords DEF Body
      <4> QED  BY <4>1, <4>2, BlockWords
    <3> QED  BY <3>1, <3>2, <3>3 DEF Patched
  <2> QED  BY <2>4, <2>5
<1>13. WellFormed(u, m)
  BY <1>5, <1>7, <1>10, <1>11, <1>12, PatchedWellFormed DEF Live
<1>14. /\ \A r \in slots : u.blocks[r].type = "BB"
       /\ \A r \in Slot \ slots : u.blocks[r].type = t.blocks[r].type
       /\ \A r \in Slot : SamePlace(u.blocks[r], t.blocks[r])
  BY <1>2, <1>7
<1> QED  BY <1>6, <1>10, <1>11, <1>13, <1>14 DEF u

-----------------------------------------------------------------------------
(* The clearing functions: the blocks left stand alone, and a guest in a   *)
(* block that was emptied is in the words it abandoned.                    *)

AtWord(t, h) ==
  \/ \E s \in Live(t) : h \in Body(t.blocks[s])
  \/ \E s \in Slot : Abandoned(t, h, s)

LEMMA ClearSlotsKeeps ==
  ASSUME NEW t \in StoreType, NEW m \in Image, WellFormed(t, m), NEW doomed \in SUBSET Slot
  PROVE  LET u == ClearSlots(t, doomed)
         IN /\ u \in StoreType /\ WellFormed(u, m) /\ Groups(u) = {}
            /\ \A h \in Host : AtWord(t, h) => AtWord(u, h)
<1> DEFINE v == Unlink(t, Groups(t))
           u == ClearSlots(t, doomed)
<1>1. Groups(t) \in SUBSET Live(t)
  BY DEF Groups, Live
<1>2. /\ v \in StoreType /\ WellFormed(v, m) /\ Live(v) = Live(t)
      /\ \A r \in Slot : SamePlace(v.blocks[r], t.blocks[r])
      /\ Groups(t) = {} => v.code = t.code
      /\ \A r \in Groups(t) : v.blocks[r].type = "BB"
      /\ \A r \in Slot \ Groups(t) : v.blocks[r].type = t.blocks[r].type
  BY <1>1, UnlinkKeeps
<1>3. Groups(v) = {}
  BY <1>2 DEF Groups
<1>4. u = [v EXCEPT !.blocks = [s \in Slot |-> IF s \in doomed THEN NullBlock ELSE v.blocks[s]]]
  BY DEF ClearSlots
<1> HIDE DEF u, v
<1>5. v = [blocks |-> v.blocks, code |-> v.code, free |-> v.free,
           exec |-> v.exec, wprot |-> v.wprot] /\ v.blocks \in [Slot -> Block]
  BY <1>2 DEF StoreType
<1>6. /\ u.blocks = [s \in Slot |-> IF s \in doomed THEN NullBlock ELSE v.blocks[s]]
      /\ u.code = v.code /\ u.free = v.free /\ u.exec = v.exec /\ u.wprot = v.wprot
      /\ u = [blocks |-> u.blocks, code |-> u.code, free |-> u.free,
              exec |-> u.exec, wprot |-> u.wprot]
  BY <1>4, <1>5
<1>7. NullBlock \in Block /\ NullBlock.type = "INVALID"
  BY SizesAssumption DEF NullBlock, Block, BlockType, NoHandler
<1>8. u.blocks \in [Slot -> Block]
  BY <1>5, <1>6, <1>7
<1>9. u \in StoreType
  BY <1>2, <1>6, <1>8 DEF StoreType
<1>10. Live(u) = Live(v) \ doomed /\ \A s \in Live(u) : u.blocks[s] = v.blocks[s]
  BY <1>6, <1>7 DEF Live
<1>11. Groups(u) = {}
  BY <1>3, <1>6, <1>7 DEF Groups
<1>12. \A s \in Live(v) : \A w : Exit(v, s, w) => w.kind = "svc" /\ w.arg = s
  BY <1>3 DEF Exit, Groups, Live
<1>13. WellFormed(u, m)
  <2>1. ASSUME NEW s \in Live(u)  PROVE WellFormedCode(u, s)
    <3>1. s \in Live(v) /\ u.blocks[s] = v.blocks[s] /\ WellFormedCode(v, s)
      BY <1>2, <1>10 DEF WellFormed
    <3>2. \A w : Exit(v, s, w) => Exit(u, s, w)
      BY <1>12, <3>1 DEF Exit
    <3> QED  BY <1>6, <3>1, <3>2 DEF WellFormedCode
  <2>2. \A s \in Live(u) : WellFormedGuest(u, m, s)
    BY <1>2, <1>10 DEF WellFormed, WellFormedGuest
  <2>3. \A r, s \in Live(u) : r # s => Apart(u.blocks[r], u.blocks[s])
    BY <1>2, <1>10 DEF WellFormed
  <2> QED  BY <2>1, <2>2, <2>3 DEF WellFormed
<1>14. ASSUME NEW h \in Host, NEW s \in Live(t), h \in Body(t.blocks[s])
       PROVE  AtWord(u, h)
  <2>1. s \in Live(v) /\ s \in Slot /\ h \in Body(v.blocks[s])
    BY <1>2, <1>14 DEF Live, Body, SamePlace, LastHypercall
  <2>2. CASE s \in Live(u)
    BY <1>10, <2>1, <2>2 DEF AtWord
  <2>3. CASE s \notin Live(u)
    <3> DEFINE last == LastHypercall(v.blocks[s])
    <3>1. /\ last \in h .. PoolSize - 1 /\ last \in Body(v.blocks[s])
          /\ \A x \in h .. last : x \in Body(v.blocks[s])
      BY <1>2, <2>1, BlockWords, SizesAssumption DEF Body, Host
    <3>2. v.blocks[s].type # "GB"
      BY <1>3, <2>1 DEF Groups
    <3>3. \A x \in h .. last :
            \/ v.code[x].kind = "copy"
            \/ v.code[x].kind = "svc" /\ v.code[x].arg = s
      BY <1>2, <2>1, <3>1, <3>2, BlockWords
    <3>4. v.code[last].kind # "copy" /\ ~ v.code[last].cond
      BY <1>2, <2>1, BlockWords
    <3> HIDE DEF last
    <3>5. h \in Int /\ last \in Int
      BY <3>1, SizesAssumption DEF Host
    <3>6. /\ last \in h .. PoolSize - 1
          /\ v.code[last].kind = "svc" /\ v.code[last].arg = s /\ ~ v.code[last].cond
          /\ \A x \in h .. last - 1 :
               \/ v.code[x].kind = "copy"
               \/ v.code[x].kind = "svc" /\ v.code[x].arg = s
      BY <3>1, <3>3, <3>4, <3>5
    <3> QED  BY <1>6, <1>11, <2>1, <2>3, <3>6 DEF Abandoned, AtWord
  <2> QED  BY <2>2, <2>3
<1>15. ASSUME NEW h \in Host, NEW s \in Slot, Abandoned(t, h, s)
       PROVE  AtWord(u, h)
  <2>1. u.code = t.code /\ s \notin Live(u)
    BY <1>2, <1>6, <1>10, <1>15 DEF Abandoned
  <2> QED  BY <1>11, <1>15, <2>1 DEF Abandoned, AtWord
<1>16. \A h \in Host : AtWord(t, h) => AtWord(u, h)
  BY <1>14, <1>15 DEF AtWord
<1> QED  BY <1>9, <1>11, <1>13, <1>16 DEF u

(* A handler that clears keeps the store, or leaves no block linked.       *)
Cleared(t, u, m) ==
  /\ u \in StoreType /\ WellFormed(u, m)
  /\ u = t \/ Groups(u) = {}
  /\ \A h \in Host : AtWord(t, h) => AtWord(u, h)

LEMMA ClearAddressKeeps ==
  ASSUME NEW t \in StoreType, NEW m \in Image, WellFormed(t, m), NEW a
  PROVE  Cleared(t, ClearAddress(t, a), m)
<1> DEFINE doomed == {s \in Slot : t.blocks[s].gstart <= a /\ a <= t.blocks[s].gend}
<1>1. ClearAddress(t, a) = IF ~ ExecBit(t, a) THEN t ELSE ClearSlots(t, doomed)
  BY DEF ClearAddress
<1>2. doomed \in SUBSET Slot
  OBVIOUS
<1> HIDE DEF doomed
<1> QED  BY <1>1, <1>2, ClearSlotsKeeps DEF Cleared

LEMMA ClearRangeKeeps ==
  ASSUME NEW t \in StoreType, NEW m \in Image, WellFormed(t, m), NEW a, NEW z
  PROVE  Cleared(t, ClearRange(t, a, z), m)
<1> DEFINE doomed == {s \in Slot : \/ t.blocks[s].gstart \in a .. z
                                   \/ t.blocks[s].gend \in a .. z}
<1>1. ClearRange(t, a, z) = IF ~ ExecBit(t, a) /\ ~ ExecBit(t, z) THEN t
                            ELSE ClearSlots(t, doomed)
  BY DEF ClearRange
<1>2. doomed \in SUBSET Slot
  OBVIOUS
<1> HIDE DEF doomed
<1> QED  BY <1>1, <1>2, ClearSlotsKeeps DEF Cleared

(* A store of no blocks is well formed for any guest.                      *)
LEMMA EmptyStoreKeeps ==
  /\ EmptyStore \in StoreType /\ Live(EmptyStore) = {}
  /\ \A t \in StoreType : ClearAll(t) \in StoreType /\ Live(ClearAll(t)) = {}
<1>1. NullBlock \in Block /\ NullBlock.type = "INVALID"
  BY SizesAssumption DEF NullBlock, Block, BlockType, NoHandler
<1>2. EmptyWord \in Word
  BY DEF EmptyWord, Word
<1>3. 0 \in Host
  BY SizesAssumption DEF Host
<1>4. EmptyStore \in StoreType
  BY <1>1, <1>2, <1>3 DEF EmptyStore, StoreType
<1>5. Live(EmptyStore) = {}
  BY <1>1 DEF EmptyStore, Live
<1>6. ASSUME NEW t \in StoreType
      PROVE  ClearAll(t) \in StoreType /\ Live(ClearAll(t)) = {}
  <2>1. ClearAll(t) = [blocks |-> EmptyStore.blocks, code |-> EmptyStore.code, free |-> 0,
                       exec |-> t.exec, wprot |-> t.wprot]
    <3>1. t = [blocks |-> t.blocks, code |-> t.code, free |-> t.free,
               exec |-> t.exec, wprot |-> t.wprot]
      BY DEF StoreType
    <3> DEFINE u == ClearAll(t)
    <3>2. u = [t EXCEPT !.blocks = EmptyStore.blocks, !.code = EmptyStore.code, !.free = 0]
      BY DEF ClearAll
    <3> HIDE DEF u
    <3>3. /\ u.blocks = EmptyStore.blocks /\ u.code = EmptyStore.code /\ u.free = 0
          /\ u.exec = t.exec /\ u.wprot = t.wprot
          /\ u = [blocks |-> u.blocks, code |-> u.code, free |-> u.free,
                  exec |-> u.exec, wprot |-> u.wprot]
      BY <3>1, <3>2
    <3> QED  BY <3>3 DEF u
  <2> QED  BY <1>3, <1>4, <1>5, <2>1 DEF StoreType, Live
<1> QED  BY <1>4, <1>5, <1>6

LEMMA NoBlocksWellFormed ==
  ASSUME NEW t, NEW m, Live(t) = {}
  PROVE  WellFormed(t, m)
BY DEF WellFormed

(* Write protection plays no part in the shape of the store.               *)
LEMMA UnprotectKeeps ==
  ASSUME NEW t \in StoreType, NEW m, NEW pages \in SUBSET Nat
  PROVE  LET u == [t EXCEPT !.wprot = pages]
         IN /\ u \in StoreType /\ u.blocks = t.blocks
            /\ Live(u) = Live(t) /\ Groups(u) = Groups(t)
            /\ WellFormed(t, m) => WellFormed(u, m)
            /\ \A h : AtWord(t, h) => AtWord(u, h)
<1> DEFINE u == [t EXCEPT !.wprot = pages]
<1>1. u = [blocks |-> t.blocks, code |-> t.code, free |-> t.free,
           exec |-> t.exec, wprot |-> pages]
  BY DEF StoreType
<1> HIDE DEF u
<1>2. u \in StoreType
  BY <1>1 DEF StoreType
<1>3. u.blocks = t.blocks /\ u.code = t.code /\ u.free = t.free
  BY <1>1
<1>4. Live(u) = Live(t) /\ Groups(u) = Groups(t)
  BY <1>3 DEF Live, Groups
<1>5. WellFormed(t, m) => WellFormed(u, m)
  BY <1>3, <1>4 DEF WellFormed, WellFormedCode, WellFormedGuest, Exit
<1>6. \A h : AtWord(t, h) => AtWord(u, h)
  BY <1>3, <1>4 DEF AtWord, Abandoned
<1> QED  BY <1>2, <1>3, <1>4, <1>5, <1>6 DEF u

(* The store is as well formed for another image with the same last word.  *)
LEMMA SameLastWord ==
  ASSUME NEW t \in StoreType, NEW m \in Image, NEW n \in Image,
         n[NumAddr - 1] = m[NumAddr - 1], WellFormed(t, m)
  PROVE  WellFormed(t, n)
<1>1. \A s \in Live(t) : WellFormedGuest(t, m, s) => WellFormedGuest(t, n, s)
  <2> SUFFICES ASSUME NEW s \in Live(t), WellFormedGuest(t, m, s)
               PROVE  WellFormedGuest(t, n, s)
    OBVIOUS
  <2>1. t.blocks[s].gend \in 0 .. NumAddr - 1
    BY DEF WellFormedGuest, Addr
  <2>2. t.blocks[s].gend < NumAddr - 1 \/ t.blocks[s].gend = NumAddr - 1
    BY <2>1, SizesAssumption
  <2> QED  BY <2>2 DEF WellFormedGuest
<1> QED  BY <1>1 DEF WellFormed

-----------------------------------------------------------------------------
(* findBlockIndexNumber names the block that a word of it is in.           *)
LEMMA FindIndexFacts ==
  ASSUME NEW t \in StoreType, NEW m, WellFormed(t, m),
         NEW s \in Live(t), NEW h \in Body(t.blocks[s])
  PROVE  FindIndex(t, h) = s
<1> DEFINE b == t.blocks[s]
           last == LastHypercall(b)
           exit(x) == t.code[x].kind \in {"svc", "b"}
           first == IF h < last /\ t.code[last - 1].kind # "copy" THEN last - 1 ELSE last
<1>1. /\ b.cstart \in Nat /\ last \in Nat /\ b.cstart <= last /\ last + 1 \in Host
      /\ \A x \in Body(b) : x \in Restored(b) \/ t.code[x].kind = "copy"
      /\ \A x \in Body(b) : t.code[x].kind \in {"copy", "svc", "b"}
      /\ \A x \in Body(b) : t.code[x].kind = "svc" => t.code[x].arg = s
      /\ t.code[last].kind # "copy"
      /\ t.code[last + 1].kind = "index" /\ t.code[last + 1].arg = s
  BY BlockWords
<1>2. /\ Body(b) = b.cstart .. last
      /\ Restored(b) \subseteq {last, last - 1}
  BY DEF Body, Restored
<1> HIDE DEF last, b
<1>3. h \in b.cstart .. last
  BY <1>2 DEF b
<1>4. first \in h .. last /\ first \in h .. PoolSize - 1
  BY <1>1, <1>3, SizesAssumption DEF Host
<1>5. exit(first) /\ \A x \in h .. first - 1 : ~ exit(x)
  <2>1. first \in Body(b)
    BY <1>1, <1>2, <1>3, <1>4
  <2>2. exit(first)
    BY <1>1, <2>1
  <2>3. ASSUME NEW x \in h .. first - 1  PROVE ~ exit(x)
    <3>1. x \in Body(b)
      BY <1>1, <1>2, <1>3, <1>4
    <3>2. x # last /\ (x = last - 1 => t.code[last - 1].kind = "copy")
      BY <1>1, <1>3, <1>4
    <3>3. t.code[x].kind = "copy"
      BY <1>1, <1>2, <3>1, <3>2
    <3> QED  BY <3>3
  <2> QED  BY <2>2, <2>3
<1>6. first = last - 1 \/ first = last
  OBVIOUS
<1> HIDE DEF first
<1>7. ExitsAt(t, h) = first
  <2> DEFINE P(x) == exit(x) /\ \A y \in h .. x - 1 : ~ exit(y)
  <2>1. P(first)
    BY <1>5
  <2>2. \A x \in h .. PoolSize - 1 : P(x) => x = first
    BY <1>1, <1>3, <1>4, <1>5
  <2>3. ExitsAt(t, h) = CHOOSE x \in h .. PoolSize - 1 : P(x)
    BY DEF ExitsAt
  <2> HIDE DEF P
  <2> QED  BY <1>4, <2>1, <2>2, <2>3
<1>8. FindIndex(t, h) = IF t.code[first].kind = "svc" THEN t.code[first].arg
                        ELSE IF t.code[first + 1].kind = "b" THEN t.code[first + 2].arg
                        ELSE t.code[first + 1].arg
  BY <1>7 DEF FindIndex
<1>9. first \in Body(b) /\ last \in Body(b)
  BY <1>1, <1>2, <1>3, <1>4
<1>10. CASE first = last
  BY <1>1, <1>8, <1>9, <1>10
<1>11. CASE first = last - 1
  <2>1. first + 1 = last /\ first + 2 = last + 1
    BY <1>1, <1>11
  <2> QED  BY <1>1, <1>8, <1>9, <2>1
<1> QED  BY <1>6, <1>10, <1>11

(* irq() and dabtTranslationFault unlink the block they came from.         *)
LEMMA UnlinkOwnerKeeps ==
  ASSUME NEW t \in StoreType, NEW m \in Image, WellFormed(t, m), NEW entry \in Slot,
         NEW s \in Live(t), NEW h \in Body(t.blocks[s])
  PROVE  LET u == UnlinkOwner(t, entry, h)
         IN /\ u \in StoreType /\ WellFormed(u, m) /\ s \in Live(u)
            /\ Body(u.blocks[s]) = Body(t.blocks[s])
            /\ u.blocks[s].type = "GB" => u = t /\ t.blocks[entry].type # "GB"
<1>1. FindIndex(t, h) = s
  BY FindIndexFacts
<1>2. CASE t.blocks[entry].type # "GB"
  BY <1>2 DEF UnlinkOwner
<1>3. CASE t.blocks[entry].type = "GB"
  <2>1. UnlinkOwner(t, entry, h) = Unlink(t, {s})
    BY <1>1, <1>3 DEF UnlinkOwner
  <2>2. {s} \in SUBSET Live(t) /\ s \in Slot
    BY DEF Live
  <2> DEFINE u == Unlink(t, {s})
  <2>3. /\ u \in StoreType /\ WellFormed(u, m) /\ s \in Live(u)
        /\ SamePlace(u.blocks[s], t.blocks[s]) /\ u.blocks[s].type = "BB"
    BY <2>2, UnlinkKeeps
  <2> QED  BY <2>1, <2>3 DEF SamePlace, Body, LastHypercall
<1> QED  BY <1>2, <1>3
=============================================================================
