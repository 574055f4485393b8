------------------------ MODULE BlockFaithfulProofs ------------------------
(***************************************************************************)
(* Translations are faithful, for every guest that keeps off the flaws of  *)
(* the translation store: its live blocks are what guest memory holds, and *)
(* every change of that memory finds and clears them.  From there: aborts  *)
(* are precise, block execution implements the guest's machine, and the    *)
(* hypervisor survives.                                                    *)
(***************************************************************************)
EXTENDS BlockExecutionProofs

(* The guests these proofs are about: memory holds one of the images M, and *)
(* privileged code begins blocks at the addresses E.                       *)
LastInstr(m, a) == m[BlockEnd(m, a)]
Extent(m, a) == a .. BlockEnd(m, a)
Remapped(m, r) == [a \in Addr |-> IF a \in Range(r) THEN r.image ELSE m[a]]

Images(M) ==
  /\ M \subseteq Image /\ Program \in M /\ Spaces \subseteq M
  /\ \A m \in M : /\ \A s \in Stores : Written(m, s) \in M
                  /\ \A r \in Remaps : Remapped(m, r) \in M

(* The guest goes on behind these.                                         *)
GoesOnAfter(i) == TwoHypercalls(i) \/ Decode[i].op \in {"crit", "cps", "mmu", "strt"}

Starts(M, E) ==
  /\ E \subseteq Addr /\ {EntryPoint, IrqVector, AbtVector, SvcVector} \subseteq E
  /\ ReturnAddrs \subseteq E \cup UserAddr
  /\ \A m \in M, a \in E :
       /\ IsBranch(LastInstr(m, a)) => Decode[LastInstr(m, a)].target \in E
       /\ GoesOnAfter(LastInstr(m, a)) => BlockEnd(m, a) + 1 \in E
       /\ "translation" \in Aborts => a .. BlockEnd(m, a) - 1 \subseteq E
  /\ \A m \in M, a \in UserAddr :
       /\ Decode[m[a]].op = "mem" => a + 1 \in UserAddr
       /\ Decode[m[a]].op = "svc" => a + 1 \in E \cup UserAddr

(* A block lies within a page.                                             *)
OnePageEach(M, E) == \A m \in M, a \in E : \A x \in Extent(m, a) : Page(x) = Page(a)

(* A store clears each word it writes, and an unprivileged store of        *)
(* privileged code does not write code.                                    *)
StoresClear(M, E) ==
  /\ \A s \in Stores : s.words = 1 \/ (s.words = 2 /\ s.each)
  /\ \A m \in M, a \in E : Decode[LastInstr(m, a)].op = "strt" =>
       \A s \in Stores, n \in M, b \in E : s.words = 1 => s.addr \notin Extent(n, b)

(* An edit of a page table is of whole pages, at most two of them.         *)
RemapsWhole ==
  \A r \in Remaps : \A x \in Range(r) :
    /\ Page(x) \in {Page(r.first), Page(r.last)}
    /\ \A a \in Addr : Page(a) = Page(x) => a \in Range(r)

(* F are the lengths the pool is filled to between two blocks: a block     *)
(* whose last word, its index, is the last of the pool has two hypercalls. *)
Fills(M, E, F) ==
  /\ F \subseteq Nat /\ 0 \in F
  /\ \A f \in F, m \in M, a \in E :
       LET n == BlockLength(m, a) IN
       /\ f + n < PoolSize => f + n \in F
       /\ f + n >= PoolSize => n \in F
       /\ f + n = PoolSize => TwoHypercalls(LastInstr(m, a))

Behaves(M, E) ==
  /\ Images(M) /\ Starts(M, E)
  /\ OnePageEach(M, E) /\ StoresClear(M, E) /\ RemapsWhole

-----------------------------------------------------------------------------
(* The invariant, of a store t and guest memory m.                         *)

(* Where the word of a hypercall w of block b may be linked to.            *)
Goal(m, b, w) ==
  IF w.cond \/ ~ Decode[m[b.gend]].cond THEN Decode[m[b.gend]].target ELSE b.gend + 1

LinkOf(t, m, b, w, v) ==
  /\ v.kind = "b" /\ v.cond = w.cond /\ IsBranch(m[b.gend])
  /\ \E u \in Live(t) : t.blocks[u].cstart = v.arg /\ t.blocks[u].gstart = Goal(m, b, w)

FaithfulWord(t, m, s, k) ==
  LET w == BlockWord(m, t.blocks[s].gstart, s, k)
      v == t.code[t.blocks[s].cstart + k]
  IN v = w \/ (w.kind = "svc" /\ LinkOf(t, m, t.blocks[s], w, v))

SameShape(b, m) ==
  /\ b.gend = BlockEnd(m, b.gstart) /\ b.csize = BlockLength(m, b.gstart)
  /\ b.handler = Decode[m[b.gend]].op

Guarded(t, b) == \A a \in b.gstart .. b.gend : Page(a) \in t.wprot /\ ExecBit(t, a)

FaithfulBlock(t, m, s) ==
  /\ SameShape(t.blocks[s], m) /\ Guarded(t, t.blocks[s])
  /\ \A k \in 0 .. t.blocks[s].csize - 1 : FaithfulWord(t, m, s, k)

Faithful(t, m, E) == \A s \in Live(t) : t.blocks[s].gstart \in E /\ FaithfulBlock(t, m, s)

(* oneHypercall is what it was set to when the block was scanned.          *)
Counted(t, m) == \A s \in Live(t) : t.blocks[s].one = ~ TwoHypercalls(m[t.blocks[s].gend])

(* A slot that was emptied has no words.                                   *)
Emptied(t) == \A s \in Slot \ Live(t) : t.blocks[s].cstart = Null

FaithfulInv(M, E) ==
  /\ PoolInv /\ mem \in M /\ Faithful(ts, mem, E) /\ Emptied(ts)
  /\ lr \in Addr => lr \in E \cup UserAddr
  /\ mode = "user" => pc \in UserAddr

-----------------------------------------------------------------------------
(* The end of a block.                                                     *)

LEMMA SameExtent ==
  ASSUME NEW m \in Image, NEW n \in Image, NEW a \in Addr,
         \A x \in Extent(m, a) : n[x] = m[x]
  PROVE  /\ BlockEnd(n, a) = BlockEnd(m, a) /\ BlockLength(n, a) = BlockLength(m, a)
         /\ n[BlockEnd(m, a)] = m[BlockEnd(m, a)]
         /\ \A s, k \in Nat : BlockWord(n, a, s, k) = BlockWord(m, a, s, k)
<1> DEFINE e == BlockEnd(m, a)
           f == BlockEnd(n, a)
<1>1. e \in a .. NumAddr - 1 /\ Replaced(m[e]) /\ \A x \in a .. e - 1 : ~ Replaced(m[x])
  BY BlockEndFacts
<1>2. f \in a .. NumAddr - 1 /\ Replaced(n[f]) /\ \A x \in a .. f - 1 : ~ Replaced(n[x])
  BY BlockEndFacts
<1>3. a \in Nat /\ NumAddr \in Nat BY SizesAssumption DEF Addr
<1>4. \A x \in a .. e : n[x] = m[x] BY DEF Extent
<1> HIDE DEF e, f
<1>5. f = e
  <2>1. ~ f < e BY <1>1, <1>2, <1>3, <1>4
  <2>2. ~ e < f BY <1>1, <1>2, <1>3, <1>4
  <2> QED BY <1>1, <1>2, <1>3, <2>1, <2>2
<1>6. n[e] = m[e] BY <1>1, <1>3, <1>4
<1>7. BlockLength(n, a) = BlockLength(m, a) BY <1>5, <1>6 DEF BlockLength, e, f
<1>8. ASSUME NEW s, NEW k \in Nat
      PROVE  BlockWord(n, a, s, k) = BlockWord(m, a, s, k)
  <2>1. CASE a + k < e
    <3>1. n[a + k] = m[a + k] BY <1>1, <1>3, <1>4, <2>1
    <3> QED BY <1>5, <2>1, <3>1 DEF BlockWord, e, f
  <2>2. CASE ~ (a + k < e) BY <1>5, <1>7, <2>2 DEF BlockWord, e, f
  <2> QED BY <2>1, <2>2
<1> QED BY <1>5, <1>6, <1>7, <1>8 DEF e, f

(* The words of a block, at their places.                                  *)
KindAt(m, a, s, k) ==
  LET n == BlockLength(m, a)
      e == BlockEnd(m, a)
      w == BlockWord(m, a, s, k)
  IN /\ n = e - a + (IF TwoHypercalls(m[e]) THEN 3 ELSE 2)
     /\ w.kind = "copy" <=> a + k < e
     /\ w.kind = "copy" => w = CopyWord(m[a + k])
     /\ w.kind = "svc" <=> k = n - 2 \/ (k = n - 3 /\ TwoHypercalls(m[e]))
     /\ k = n - 2 => w = SvcWord(s, FALSE)
     /\ k = n - 3 /\ TwoHypercalls(m[e]) => w = SvcWord(s, TRUE)
     /\ w.kind # "b"

LEMMA WordKinds ==
  ASSUME NEW m \in Image, NEW a \in Addr, NEW s \in Slot,
         NEW k \in 0 .. BlockLength(m, a) - 1
  PROVE  KindAt(m, a, s, k)
<1> DEFINE n == BlockLength(m, a)
           e == BlockEnd(m, a)
<1>1. e \in Nat /\ a \in Nat /\ a <= e
  BY BlockEndFacts, SizesAssumption DEF Addr
<1>2. n = e - a + (IF TwoHypercalls(m[e]) THEN 3 ELSE 2) BY DEF BlockLength
<1> HIDE DEF e, n
<1>3. BlockWord(m, a, s, k) = IF a + k < e THEN CopyWord(m[a + k])
                              ELSE IF k = n - 1 THEN IndexWord(s) ELSE SvcWord(s, k = n - 3)
  BY DEF BlockWord, e, n
<1>4. k \in Int /\ 0 <= k /\ k <= n - 1 BY <1>1, <1>2 DEF n
<1> DEFINE w == BlockWord(m, a, s, k)
<1>5. CASE a + k < e
  <2>1. w = CopyWord(m[a + k]) BY <1>3, <1>5
  <2>2. w.kind = "copy" BY <2>1 DEF CopyWord
  <2>3. k # n - 2 /\ ~ (k = n - 3 /\ TwoHypercalls(m[e])) BY <1>1, <1>2, <1>4, <1>5
  <2> QED BY <1>2, <1>5, <2>1, <2>2, <2>3 DEF KindAt, e, n
<1>6. CASE ~ (a + k < e) /\ k = n - 1
  <2>1. w = IndexWord(s) BY <1>3, <1>6
  <2>2. w.kind = "index" BY <2>1 DEF IndexWord
  <2>3. k # n - 2 /\ k # n - 3 BY <1>1, <1>2, <1>4, <1>6
  <2> QED BY <1>2, <1>6, <2>2, <2>3 DEF KindAt, e, n
<1>7. CASE ~ (a + k < e) /\ k # n - 1
  <2>1. w = SvcWord(s, k = n - 3) BY <1>3, <1>7
  <2>2. w.kind = "svc" /\ w.cond = (k = n - 3) BY <2>1 DEF SvcWord
  <2>3. k = n - 2 \/ (k = n - 3 /\ TwoHypercalls(m[e])) BY <1>1, <1>2, <1>4, <1>7
  <2>4. k = n - 2 => (k = n - 3) = FALSE BY <1>1, <1>2, <1>4
  <2>5. k = n - 3 => (k = n - 3) = TRUE OBVIOUS
  <2>6. k = n - 2 => w = SvcWord(s, FALSE) BY <2>1, <2>4
  <2>7. k = n - 3 => w = SvcWord(s, TRUE) BY <2>1, <2>5
  <2> QED BY <1>2, <1>7, <2>2, <2>3, <2>6, <2>7 DEF KindAt, e, n
<1> QED BY <1>5, <1>6, <1>7

(* A block that is the same in a store with at least the same pages        *)
(* guarded and the same blocks to link to stays faithful.                  *)
LEMMA KeptBlock ==
  ASSUME NEW t, NEW u, NEW m, NEW s, FaithfulBlock(t, m, s),
         SamePlace(u.blocks[s], t.blocks[s]),
         \A k \in 0 .. t.blocks[s].csize - 1 :
           u.code[t.blocks[s].cstart + k] = t.code[t.blocks[s].cstart + k],
         t.wprot \subseteq u.wprot, t.exec \subseteq u.exec,
         \A r \in Live(t) : r \in Live(u) /\ SamePlace(u.blocks[r], t.blocks[r])
  PROVE  FaithfulBlock(u, m, s)
<1> DEFINE b == t.blocks[s]
           c == u.blocks[s]
<1>1. /\ c.gstart = b.gstart /\ c.gend = b.gend /\ c.handler = b.handler
      /\ c.cstart = b.cstart /\ c.csize = b.csize
  BY DEF SamePlace
<1>2. SameShape(c, m) /\ Guarded(u, c)
  BY <1>1 DEF FaithfulBlock, SameShape, Guarded, ExecBit
<1>3. ASSUME NEW w, NEW v, LinkOf(t, m, b, w, v) PROVE LinkOf(u, m, c, w, v)
  <2>1. Goal(m, c, w) = Goal(m, b, w) BY <1>1 DEF Goal
  <2>2. PICK r \in Live(t) : t.blocks[r].cstart = v.arg /\ t.blocks[r].gstart = Goal(m, b, w)
    BY <1>3 DEF LinkOf
  <2>3. r \in Live(u) /\ u.blocks[r].cstart = v.arg /\ u.blocks[r].gstart = Goal(m, c, w)
    BY <2>1, <2>2 DEF SamePlace
  <2> QED BY <1>1, <1>3, <2>3 DEF LinkOf
<1>4. ASSUME NEW k \in 0 .. c.csize - 1 PROVE FaithfulWord(u, m, s, k)
  <2>1. FaithfulWord(t, m, s, k) /\ u.code[c.cstart + k] = t.code[b.cstart + k]
    BY <1>1 DEF FaithfulBlock
  <2>2. BlockWord(m, c.gstart, s, k) = BlockWord(m, b.gstart, s, k) BY <1>1
  <2> QED BY <1>3, <2>1, <2>2 DEF FaithfulWord
<1> QED BY <1>2, <1>4 DEF FaithfulBlock

(* scanArmBlock fills a slot with a faithful block, and keeps the others   *)
(* faithful or empties their slots.                                        *)
LEMMA ExecOfOnePage ==
  ASSUME NEW exec, NEW a, NEW e, Page(e) = Page(a)
  PROVE  SetExec(exec, a, e) = exec \cup {Page(a)}
BY DEF SetExec

LEMMA FillFaithful ==
  ASSUME NEW t \in StoreType, NEW M, NEW E, M \subseteq Image, E \subseteq Addr,
         OnePageEach(M, E), NEW m \in M, WellFormed(t, m), Faithful(t, m, E),
         NEW a \in E, NEW s \in Slot, s \notin Live(t)
  PROVE  Faithful(FillSlot(t, m, a, s), m, E)
<1> DEFINE u == FillSlot(t, m, a, s)
           e == BlockEnd(m, a)
           n == BlockLength(m, a)
           start == Start(t, m, a)
<1>0. m \in Image /\ a \in Addr OBVIOUS
<1>1. /\ u.blocks[s].type = "BB" /\ u.blocks[s].gstart = a /\ u.blocks[s].gend = e
      /\ u.blocks[s].cstart = start /\ u.blocks[s].csize = n
      /\ u.blocks[s].handler = Decode[m[e]].op
      /\ \A r \in Slot \ {s} : u.blocks[r] = IF ReachesEnd(t, n) THEN NullBlock ELSE t.blocks[r]
  BY <1>0, FillSlotBlocks
<1>2. /\ \A h \in start .. start + n - 1 : u.code[h] = BlockWord(m, a, s, h - start)
      /\ ~ ReachesEnd(t, n) => \A h \in 0 .. t.free - 1 : u.code[h] = t.code[h]
  BY <1>0, FillSlotCode
<1>3. start \in Nat /\ n \in Nat /\ e \in a .. NumAddr - 1
  BY <1>0, FillSlotStart, BlockLengthFacts, BlockEndFacts, SizesAssumption
<1>4. u.exec = t.exec \cup {Page(a)} /\ u.wprot = t.wprot \cup {Page(x) : x \in a .. e}
  <2>1. Page(e) = Page(a) /\ a \in Int
    BY <1>3, SizesAssumption DEF OnePageEach, Extent, Addr
  <2>2. SetExec(t.exec, a, e) = t.exec \cup {Page(a)} BY <2>1, ExecOfOnePage
  <2>3. u.exec = SetExec(t.exec, a, e) /\ u.wprot = WriteProtect(t.wprot, a, e) BY DEF FillSlot
  <2> QED BY <2>2, <2>3 DEF WriteProtect
<1>5. \A x \in a .. e : Page(x) = Page(a) BY DEF OnePageEach, Extent
<1> HIDE DEF u, e, n, start
<1>6. FaithfulBlock(u, m, s)
  <2>1. SameShape(u.blocks[s], m) BY <1>1 DEF SameShape, e, n
  <2>2. Guarded(u, u.blocks[s]) BY <1>1, <1>4, <1>5 DEF Guarded, ExecBit
  <2>3. ASSUME NEW k \in 0 .. n - 1 PROVE FaithfulWord(u, m, s, k)
    <3>1. start + k \in start .. start + n - 1 /\ (start + k) - start = k BY <1>3
    <3>2. u.code[start + k] = BlockWord(m, a, s, k) BY <1>2, <3>1
    <3> QED BY <1>1, <3>2 DEF FaithfulWord
  <2> QED BY <1>1, <2>1, <2>2, <2>3 DEF FaithfulBlock
<1>7. ASSUME NEW r \in Live(u), r # s
      PROVE  u.blocks[r].gstart \in E /\ FaithfulBlock(u, m, r)
  <2>1. ~ ReachesEnd(t, n) BY <1>1, <1>7 DEF Live, NullBlock
  <2>2. \A v \in Live(t) : v # s /\ u.blocks[v] = t.blocks[v] /\ v \in Live(u)
    BY <1>1, <2>1 DEF Live
  <2>3. r \in Live(t) /\ u.blocks[r] = t.blocks[r] BY <1>1, <1>7, <2>1 DEF Live
  <2>4. /\ t.blocks[r].cstart \in Nat /\ t.blocks[r].csize \in Nat
        /\ t.blocks[r].cstart + t.blocks[r].csize <= t.free /\ t.free \in Nat
    BY <2>3, SizesAssumption DEF WellFormed, WellFormedCode, StoreType, Block, Live, Host
  <2>5. ASSUME NEW k \in 0 .. t.blocks[r].csize - 1
        PROVE  u.code[t.blocks[r].cstart + k] = t.code[t.blocks[r].cstart + k]
    <3>1. t.blocks[r].cstart + k \in 0 .. t.free - 1 BY <2>4
    <3> QED BY <1>2, <2>1, <3>1
  <2>6. FaithfulBlock(t, m, r) /\ t.blocks[r].gstart \in E BY <2>3 DEF Faithful
  <2>7. t.wprot \subseteq u.wprot /\ t.exec \subseteq u.exec BY <1>4
  <2>8. \A v \in Live(t) : v \in Live(u) /\ SamePlace(u.blocks[v], t.blocks[v])
    BY <2>2 DEF SamePlace
  <2> QED BY <2>3, <2>5, <2>6, <2>7, <2>8, KeptBlock
<1>8. u.blocks[s].gstart \in E BY <1>1
<1> QED BY <1>6, <1>7, <1>8 DEF Faithful, u

LEMMA FillCounted ==
  ASSUME NEW t \in StoreType, NEW m \in Image, NEW a \in Addr, NEW s \in Slot, s \notin Live(t),
         Counted(t, m),
         t.free + BlockLength(m, a) = PoolSize => TwoHypercalls(LastInstr(m, a))
  PROVE  Counted(FillSlot(t, m, a, s), m)
<1> DEFINE u == FillSlot(t, m, a, s)
           e == BlockEnd(m, a)
           n == BlockLength(m, a)
<1>1. /\ u.blocks \in [Slot -> Block] /\ u.blocks[s].gend = e
      /\ u.blocks[s].one <=> OneHypercall(t, m, a)
      /\ \A r \in Slot \ {s} : u.blocks[r] = IF ReachesEnd(t, n) THEN NullBlock ELSE t.blocks[r]
  BY FillSlotBlocks
<1>2. OneHypercall(t, m, a) <=> ~ TwoHypercalls(m[e]) BY DEF OneHypercall, LastInstr
<1> HIDE DEF u, e, n
<1>3. u.blocks[s].one \in BOOLEAN BY <1>1 DEF Block
<1>4. u.blocks[s].one = ~ TwoHypercalls(m[u.blocks[s].gend]) BY <1>1, <1>2, <1>3
<1>5. ASSUME NEW r \in Live(u), r # s PROVE r \in Live(t) /\ u.blocks[r] = t.blocks[r]
  BY <1>1, <1>5 DEF Live, NullBlock
<1> QED BY <1>4, <1>5 DEF Counted, u

(* getBlockInfo finds the block of the address asked for.                  *)
LEMMA ProbeFinds ==
  ASSUME NEW t, NEW a \in Addr, Probe(t, a) \in Slot
  PROVE  /\ Probe(t, a) \in Hash(a) .. StoreSize - 1 /\ ProbeStops(t, a, Probe(t, a))
         /\ \A r \in Hash(a) .. Probe(t, a) - 1 : ~ ProbeStops(t, a, r)
         /\ Found(t, a) => t.blocks[Probe(t, a)].gstart = a
<1> DEFINE S == {s \in Hash(a) .. StoreSize - 1 : ProbeStops(t, a, s)}
<1>1. Hash(a) \in Nat /\ StoreSize \in Nat
  BY SizesAssumption DEF Hash, Addr
<1>2. S # {}
  <2> SUFFICES ASSUME S = {} PROVE FALSE OBVIOUS
  <2>1. Probe(t, a) = StoreSize BY DEF Probe
  <2> QED BY <1>1, <2>1 DEF Slot
<1>3. S \in SUBSET Nat BY <1>1
<1>4. PICK x \in S : \A y \in S : x <= y BY <1>2, <1>3, LeastNatural
<1>5. \A r \in Hash(a) .. x - 1 : ~ ProbeStops(t, a, r)
  BY <1>1, <1>4
<1>6. /\ Probe(t, a) \in Hash(a) .. StoreSize - 1 /\ ProbeStops(t, a, Probe(t, a))
      /\ \A r \in Hash(a) .. Probe(t, a) - 1 : ~ ProbeStops(t, a, r)
  BY <1>4, <1>5 DEF Probe
<1>7. Found(t, a) => t.blocks[Probe(t, a)].gstart = a
  BY <1>6 DEF Found, Live, ProbeStops
<1> QED BY <1>6, <1>7

(* linkBlock puts the branch of the guest's instruction into a block.      *)
LEMMA LinkFaithful ==
  ASSUME NEW t \in StoreType, NEW E, NEW m \in Image, WellFormed(t, m), E \subseteq Addr,
         Faithful(t, m, E), NEW s \in Live(t), NEW host \in Body(t.blocks[s]),
         t.code[host].kind = "svc", IsBranch(m[t.blocks[s].gend]), NEW next \in Addr,
         next = Goal(m, t.blocks[s], t.code[host])
  PROVE  LET u == Link(t, m, next, host, s)
         IN Faithful(u, m, E) /\ (Counted(t, m) => Counted(u, m)) /\ u.free = t.free
<1> DEFINE u == Link(t, m, next, host, s)
           v == Probe(t, next)
           b == t.blocks[s]
           jump == JumpWord(t.blocks[v].cstart, LinkCondition(b, m, host))
<1>1. CASE ~ Found(t, next) BY <1>1 DEF Link
<1>2. CASE Found(t, next)
  <2>1. v \in Live(t) /\ t.blocks[v].gstart = next
    BY <1>2, ProbeFinds DEF Found, Live
  <2>2. u = [t EXCEPT !.code = [@ EXCEPT ![host] = jump],
                      !.blocks = [r \in Slot |-> IF r \in GroupOfLink(s, v)
                                       THEN [@[r] EXCEPT !.type = "GB"] ELSE @[r]]]
    BY <1>2 DEF Link
  <2> HIDE DEF v
  <2>3. t.code \in [Host -> Word] /\ t.blocks \in [Slot -> Block] BY DEF StoreType
  <2>4. host \in Host /\ host \in Nat
    BY BlockWords, SizesAssumption DEF Body, Host
  <2>5. /\ \A h \in Host : u.code[h] = IF h = host THEN jump ELSE t.code[h]
        /\ u.wprot = t.wprot /\ u.exec = t.exec /\ u.free = t.free
    BY <2>2, <2>3 DEF StoreType
  <2>6. ASSUME NEW r \in Slot
        PROVE  /\ SamePlace(u.blocks[r], t.blocks[r])
               /\ r \in Live(u) <=> r \in Live(t)
    <3>1. t.blocks[r] \in Block BY <2>3
    <3>2. u.blocks[r] = IF r \in GroupOfLink(s, v) THEN [t.blocks[r] EXCEPT !.type = "GB"]
                                                  ELSE t.blocks[r]
      BY <2>2, <2>3 DEF StoreType
    <3>3. r \in GroupOfLink(s, v) => r \in Live(t) BY <2>1 DEF GroupOfLink
    <3> QED BY <3>1, <3>2, <3>3 DEF SamePlace, Live, Block
  <2> HIDE DEF u, jump
  <2>7. ASSUME NEW r \in Live(t) PROVE FaithfulBlock(u, m, r)
    <3> DEFINE c == t.blocks[r]
    <3>1. FaithfulBlock(t, m, r) /\ c.gstart \in Addr /\ r \in Slot BY DEF Faithful, Live
    <3>2. /\ c.cstart \in Nat /\ c.csize \in Nat /\ LastHypercall(c) = c.cstart + c.csize - 2
          /\ LastHypercall(c) + 1 \in Host /\ LastHypercall(c) \in Nat
      BY BlockWords
    <3>3. SamePlace(u.blocks[r], c) /\ \A q \in Live(t) : q \in Live(u) /\ SamePlace(u.blocks[q], t.blocks[q])
      BY <2>6 DEF Live
    <3>4. CASE r # s
      <4>1. host \notin c.cstart .. LastHypercall(c) + 1 BY <3>4, BodiesApart
      <4>2. ASSUME NEW k \in 0 .. c.csize - 1 PROVE u.code[c.cstart + k] = t.code[c.cstart + k]
        <5>1. c.cstart + k \in c.cstart .. LastHypercall(c) + 1 /\ c.cstart + k \in Host
          BY <3>2, SizesAssumption DEF Host
        <5> QED BY <2>5, <4>1, <5>1
      <4> QED BY <2>5, <3>1, <3>3, <4>2, KeptBlock
    <3>5. CASE r = s
      <4> DEFINE n == BlockLength(m, c.gstart)
      <4>1. c.csize = n /\ c.gend = BlockEnd(m, c.gstart) BY <3>1 DEF FaithfulBlock, SameShape
      <4>2. /\ u.blocks[s].gstart = c.gstart /\ u.blocks[s].gend = c.gend /\ u.blocks[s].handler = c.handler
            /\ u.blocks[s].cstart = c.cstart /\ u.blocks[s].csize = c.csize
        BY <3>3, <3>5 DEF SamePlace
      <4>3. SameShape(u.blocks[s], m) /\ Guarded(u, u.blocks[s])
        BY <2>5, <3>1, <3>5, <4>2 DEF FaithfulBlock, SameShape, Guarded, ExecBit
      <4>4. ASSUME NEW w, NEW x, LinkOf(t, m, c, w, x) PROVE LinkOf(u, m, u.blocks[s], w, x)
        <5>1. Goal(m, u.blocks[s], w) = Goal(m, c, w) BY <4>2 DEF Goal
        <5>2. PICK q \in Live(t) : t.blocks[q].cstart = x.arg /\ t.blocks[q].gstart = Goal(m, c, w)
          BY <4>4 DEF LinkOf
        <5>3. q \in Live(u) /\ u.blocks[q].cstart = x.arg /\ u.blocks[q].gstart = Goal(m, u.blocks[s], w)
          BY <3>3, <5>1, <5>2 DEF SamePlace
        <5> QED BY <4>2, <4>4, <5>3 DEF LinkOf
      <4>5. ASSUME NEW k \in 0 .. c.csize - 1 PROVE FaithfulWord(u, m, s, k)
        <5> DEFINE w == BlockWord(m, c.gstart, s, k)
                   x == t.code[c.cstart + k]
        <5>1. x = w \/ (w.kind = "svc" /\ LinkOf(t, m, c, w, x)) BY <3>1, <3>5 DEF FaithfulBlock, FaithfulWord
        <5>2. BlockWord(m, u.blocks[s].gstart, s, k) = w BY <4>2
        <5>3. c.cstart + k \in Host BY <3>2, SizesAssumption DEF Host
        <5> HIDE DEF w
        <5>4. CASE c.cstart + k # host
          <6>1. u.code[u.blocks[s].cstart + k] = x BY <2>5, <4>2, <5>3, <5>4
          <6> QED BY <4>4, <5>1, <5>2, <6>1 DEF FaithfulWord
        <5>5. CASE c.cstart + k = host
          <6>1. u.code[u.blocks[s].cstart + k] = jump BY <2>5, <4>2, <5>3, <5>5
          <6>2. x = w /\ w.kind = "svc" BY <5>1, <5>5 DEF LinkOf
          <6>3. k \in 0 .. n - 1 BY <4>1
          <6>4. /\ k = n - 2 \/ (k = n - 3 /\ TwoHypercalls(m[c.gend]))
                /\ k = n - 2 => w = SvcWord(s, FALSE)
                /\ k = n - 3 /\ TwoHypercalls(m[c.gend]) => w = SvcWord(s, TRUE)
            <7>1. PICK a \in Addr : a = c.gstart BY <3>1
            <7>2. s \in Slot /\ k \in 0 .. BlockLength(m, a) - 1 BY <3>1, <3>5, <6>3, <7>1
            <7>3. /\ BlockWord(m, a, s, k).kind = "svc" <=>
                       k = BlockLength(m, a) - 2 \/ (k = BlockLength(m, a) - 3 /\ TwoHypercalls(m[BlockEnd(m, a)]))
                  /\ k = BlockLength(m, a) - 2 => BlockWord(m, a, s, k) = SvcWord(s, FALSE)
                  /\ k = BlockLength(m, a) - 3 /\ TwoHypercalls(m[BlockEnd(m, a)]) =>
                       BlockWord(m, a, s, k) = SvcWord(s, TRUE)
              <8>1. KindAt(m, a, s, k) BY <7>2, WordKinds
              <8> QED BY <8>1 DEF KindAt
            <7> QED BY <4>1, <6>2, <7>1, <7>3 DEF w
          <6>5. LastHypercall(c) = c.cstart + n - 2 BY <3>2, <4>1
          <6> HIDE DEF n
          <6>6. LinkCondition(c, m, host) = w.cond
            <7>1. CASE k = n - 2
              <8>1. w.cond = FALSE BY <6>4, <7>1 DEF SvcWord
              <8>2. host = LastHypercall(c) BY <3>2, <4>1, <5>5, <6>5, <7>1
              <8>3. LinkCondition(c, m, host) = FALSE BY <8>2 DEF LinkCondition
              <8> QED BY <8>1, <8>3
            <7>2. CASE k # n - 2 /\ k = n - 3 /\ TwoHypercalls(m[c.gend])
              <8>1. w.cond = TRUE BY <6>4, <7>2 DEF SvcWord
              <8>2. host # LastHypercall(c) BY <3>2, <4>1, <5>5, <6>5, <7>2
              <8>3. Decode[m[c.gend]].cond = TRUE
                <9>1. m[c.gend] \in Instr BY <3>1, <4>1, BlockEndFacts, SizesAssumption DEF Image, Addr
                <9>2. Decode[m[c.gend]].cond \in BOOLEAN BY <9>1, DecodeAssumption DEF Decoding
                <9> QED BY <7>2, <9>2 DEF TwoHypercalls
              <8>4. LinkCondition(c, m, host) = TRUE BY <8>2, <8>3 DEF LinkCondition
              <8> QED BY <8>1, <8>4
            <7> QED BY <6>4, <7>1, <7>2
          <6>7. jump.kind = "b" /\ jump.cond = w.cond /\ jump.arg = t.blocks[v].cstart
            BY <3>5, <6>6 DEF jump, JumpWord
          <6>8. Goal(m, u.blocks[s], w) = next
            <7>1. t.code[host] = w BY <5>5, <6>2
            <7> QED BY <3>5, <4>2, <7>1 DEF Goal
          <6>9. v \in Live(u) /\ u.blocks[v].cstart = t.blocks[v].cstart /\ u.blocks[v].gstart = next
            BY <2>1, <3>3 DEF SamePlace
          <6>10. LinkOf(u, m, u.blocks[s], w, jump)
            BY <3>5, <4>2, <6>7, <6>8, <6>9 DEF LinkOf
          <6> QED BY <5>2, <6>1, <6>2, <6>10 DEF FaithfulWord
        <5> QED BY <5>4, <5>5
      <4> QED BY <3>5, <4>2, <4>3, <4>5 DEF FaithfulBlock
    <3> QED BY <3>4, <3>5
  <2>8. \A r \in Live(u) : r \in Live(t) /\ u.blocks[r].gstart = t.blocks[r].gstart
                           /\ u.blocks[r].gend = t.blocks[r].gend /\ u.blocks[r].one = t.blocks[r].one
    BY <2>6 DEF Live, SamePlace
  <2> QED BY <2>5, <2>7, <2>8 DEF Faithful, Counted, u
<1> QED BY <1>1, <1>2

(* unlinkBlock puts the very hypercalls back that the scanner put there,   *)
(* when it knows how many there are.                                       *)
LEMMA UnlinkedWords ==
  ASSUME NEW t \in StoreType, NEW m, WellFormed(t, m), NEW slots \in SUBSET Live(t),
         NEW r \in Live(t), NEW h \in t.blocks[r].cstart .. LastHypercall(t.blocks[r]) + 1
  PROVE  Unlink(t, slots).code[h] =
           IF r \in slots /\ h \in Restored(t.blocks[r])
           THEN SvcWord(r, h # LastHypercall(t.blocks[r]) /\ t.code[h].cond)
           ELSE t.code[h]
<1> DEFINE u == Unlink(t, slots)
           doomed == \E s \in slots : h \in Restored(t.blocks[s])
           owner == CHOOSE s \in slots : h \in Restored(t.blocks[s])
<1>1. h \in Host /\ h \in Nat
  BY BlockWords, SizesAssumption DEF Host
<1>2. u.code[h] = IF doomed THEN SvcWord(owner, h # LastHypercall(t.blocks[owner]) /\ t.code[h].cond)
                  ELSE t.code[h]
  BY <1>1 DEF Unlink, StoreType
<1>3. \A s \in slots : h \in Restored(t.blocks[s]) => s = r
  BY <1>1, BlockWords, BodiesApart
<1>4. doomed => owner \in slots /\ h \in Restored(t.blocks[owner]) OBVIOUS
<1> HIDE DEF owner, u
<1>5. doomed <=> r \in slots /\ h \in Restored(t.blocks[r]) BY <1>3
<1>6. doomed => owner = r BY <1>3, <1>4
<1> QED BY <1>2, <1>5, <1>6 DEF u

LEMMA UnlinkFaithful ==
  ASSUME NEW t \in StoreType, NEW E, NEW m \in Image, WellFormed(t, m), E \subseteq Addr,
         Faithful(t, m, E), Counted(t, m), NEW slots \in SUBSET Live(t)
  PROVE  LET u == Unlink(t, slots)
         IN Faithful(u, m, E) /\ Counted(u, m) /\ u.free = t.free
            /\ u.wprot = t.wprot /\ u.exec = t.exec
<1> DEFINE u == Unlink(t, slots)
<1>1. /\ Live(u) = Live(t) /\ \A r \in Slot : SamePlace(u.blocks[r], t.blocks[r])
  BY UnlinkKeeps
<1>2. u.free = t.free /\ u.wprot = t.wprot /\ u.exec = t.exec BY DEF Unlink, StoreType
<1>3. \A r \in Live(t), h \in Int : h \in t.blocks[r].cstart .. LastHypercall(t.blocks[r]) + 1 =>
        u.code[h] = IF r \in slots /\ h \in Restored(t.blocks[r])
                    THEN SvcWord(r, h # LastHypercall(t.blocks[r]) /\ t.code[h].cond)
                    ELSE t.code[h]
  BY UnlinkedWords
<1> HIDE DEF u
<1>4. ASSUME NEW r \in Live(t) PROVE FaithfulBlock(u, m, r)
  <2> DEFINE c == t.blocks[r]
  <2>1. FaithfulBlock(t, m, r) /\ r \in Slot BY DEF Faithful, Live
  <2>2. PICK a \in Addr : a = c.gstart BY DEF Faithful
  <2> DEFINE n == BlockLength(m, a)
  <2>3. /\ c.csize = n /\ c.gend = BlockEnd(m, a) /\ n \in Nat
        /\ c.one = ~ TwoHypercalls(m[BlockEnd(m, a)])
    BY <2>1, <2>2, BlockLengthFacts DEF FaithfulBlock, SameShape, Counted
  <2>4. /\ c.cstart \in Nat /\ LastHypercall(c) = c.cstart + n - 2
    BY <2>3, BlockWords
  <2>5. /\ u.blocks[r].gstart = a /\ u.blocks[r].gend = c.gend /\ u.blocks[r].handler = c.handler
        /\ u.blocks[r].cstart = c.cstart /\ u.blocks[r].csize = n
    BY <1>1, <2>1, <2>2, <2>3 DEF SamePlace
  <2>6. SameShape(u.blocks[r], m) /\ Guarded(u, u.blocks[r])
    BY <1>2, <2>1, <2>2, <2>3, <2>5 DEF FaithfulBlock, SameShape, Guarded, ExecBit
  <2>7. ASSUME NEW w, NEW x, LinkOf(t, m, c, w, x) PROVE LinkOf(u, m, u.blocks[r], w, x)
    <3>1. Goal(m, u.blocks[r], w) = Goal(m, c, w) BY <2>5 DEF Goal
    <3>2. PICK q \in Live(t) : t.blocks[q].cstart = x.arg /\ t.blocks[q].gstart = Goal(m, c, w)
      BY <2>7 DEF LinkOf
    <3>3. q \in Live(u) /\ u.blocks[q].cstart = x.arg /\ u.blocks[q].gstart = Goal(m, u.blocks[r], w)
      BY <1>1, <3>1, <3>2 DEF SamePlace, Live
    <3> QED BY <2>5, <2>7, <3>3 DEF LinkOf
  <2>8. ASSUME NEW k \in 0 .. n - 1 PROVE FaithfulWord(u, m, r, k)
    <3> DEFINE w == BlockWord(m, a, r, k)
               h == c.cstart + k
               x == t.code[h]
    <3>1. x = w \/ (w.kind = "svc" /\ LinkOf(t, m, c, w, x))
      BY <2>1, <2>2, <2>3 DEF FaithfulBlock, FaithfulWord
    <3>2. h \in Int /\ h \in c.cstart .. LastHypercall(c) + 1 BY <2>3, <2>4
    <3>3. u.code[h] = IF r \in slots /\ h \in Restored(c)
                      THEN SvcWord(r, h # LastHypercall(c) /\ x.cond) ELSE x
      BY <1>3, <3>2
    <3> HIDE DEF c
    <3>4. /\ k = n - 2 => w = SvcWord(r, FALSE)
          /\ k = n - 3 /\ TwoHypercalls(m[BlockEnd(m, a)]) => w = SvcWord(r, TRUE)
      BY <2>1, WordKinds DEF KindAt
    <3> HIDE DEF w, n, x
    <3>5. CASE ~ (r \in slots /\ h \in Restored(c))
      <4>1. u.code[h] = x BY <3>3, <3>5
      <4> QED BY <2>5, <2>7, <3>1, <4>1 DEF FaithfulWord, w, c
    <3>6. CASE r \in slots /\ h \in Restored(c) /\ k = n - 2
      <4>1. h = LastHypercall(c) BY <2>3, <2>4, <3>6 DEF n
      <4>2. (h # LastHypercall(c) /\ x.cond) = FALSE BY <4>1
      <4>3. u.code[h] = w BY <3>3, <3>4, <3>6, <4>2
      <4> QED BY <2>5, <4>3 DEF FaithfulWord, w
    <3>7. CASE r \in slots /\ h \in Restored(c) /\ k # n - 2
      <4>1. h # LastHypercall(c) BY <2>3, <2>4, <3>7 DEF n
      <4>2. ~ c.one /\ h = LastHypercall(c) - 1 BY <3>7, <4>1 DEF Restored
      <4>3. k = n - 3 BY <2>3, <2>4, <4>2 DEF n
      <4>4. TwoHypercalls(m[BlockEnd(m, a)]) BY <2>3, <4>2
      <4>5. w = SvcWord(r, TRUE) BY <3>4, <4>3, <4>4
      <4>6. w.cond = TRUE BY <4>5 DEF SvcWord
      <4>7. x.cond = TRUE BY <3>1, <4>6 DEF LinkOf
      <4>8. (h # LastHypercall(c) /\ x.cond) = TRUE BY <4>1, <4>7
      <4>9. u.code[h] = w BY <3>3, <3>7, <4>5, <4>8
      <4> QED BY <2>5, <4>9 DEF FaithfulWord, w
    <3> QED BY <3>5, <3>6, <3>7
  <2> QED BY <2>3, <2>5, <2>6, <2>8 DEF FaithfulBlock
<1>5. \A r \in Live(u) : r \in Live(t) /\ u.blocks[r].gstart = t.blocks[r].gstart
                         /\ u.blocks[r].gend = t.blocks[r].gend /\ u.blocks[r].one = t.blocks[r].one
  BY <1>1 DEF Live, SamePlace
<1> QED BY <1>1, <1>2, <1>4, <1>5 DEF Faithful, Counted, u

-----------------------------------------------------------------------------
(* The clearing functions.                                                 *)

ClearedFrom(u, t, m, E) ==
  /\ Faithful(u, m, E) /\ Counted(u, m)
  /\ u.free = t.free /\ u.wprot = t.wprot /\ u.exec = t.exec
  /\ \A r \in Live(u) : r \in Live(t) /\ SamePlace(u.blocks[r], t.blocks[r])

NoCodeAt(t, a) == \A r \in Live(t) : a \notin t.blocks[r].gstart .. t.blocks[r].gend

LEMMA ClearSlotsFaithful ==
  ASSUME NEW t \in StoreType, NEW E, NEW m \in Image, WellFormed(t, m), E \subseteq Addr,
         Faithful(t, m, E), Counted(t, m), NEW doomed \in SUBSET Slot
  PROVE  LET u == ClearSlots(t, doomed)
         IN ClearedFrom(u, t, m, E) /\ Live(u) = Live(t) \ doomed
<1> DEFINE v == Unlink(t, Groups(t))
           u == ClearSlots(t, doomed)
<1>1. Groups(t) \in SUBSET Live(t) BY DEF Groups, Live
<1>2. /\ v \in StoreType /\ WellFormed(v, m) /\ Live(v) = Live(t)
      /\ \A r \in Slot : SamePlace(v.blocks[r], t.blocks[r])
      /\ \A r \in Groups(t) : v.blocks[r].type = "BB"
      /\ \A r \in Slot \ Groups(t) : v.blocks[r].type = t.blocks[r].type
  BY <1>1, UnlinkKeeps
<1>3. /\ Faithful(v, m, E) /\ Counted(v, m) /\ v.free = t.free
      /\ v.wprot = t.wprot /\ v.exec = t.exec
  BY <1>1, UnlinkFaithful
<1>4. u = [v EXCEPT !.blocks = [s \in Slot |-> IF s \in doomed THEN NullBlock ELSE v.blocks[s]]]
  BY DEF ClearSlots
<1> HIDE DEF u, v
<1>5. /\ \A s \in Slot : u.blocks[s] = IF s \in doomed THEN NullBlock ELSE v.blocks[s]
      /\ u.code = v.code /\ u.free = v.free /\ u.wprot = v.wprot /\ u.exec = v.exec
  BY <1>2, <1>4 DEF StoreType
<1>6. Live(u) = Live(t) \ doomed
  BY <1>2, <1>5 DEF Live, NullBlock
<1>7. ASSUME NEW r \in Live(u)
      PROVE  r \in Live(t) /\ r \in Slot /\ r \in Live(v) /\ u.blocks[r] = v.blocks[r] /\ v.blocks[r].type # "GB"
  BY <1>2, <1>5, <1>6 DEF Live, Groups
<1>8. ASSUME NEW r \in Live(u) PROVE FaithfulBlock(u, m, r)
  <2>1. FaithfulBlock(v, m, r) /\ r \in Slot BY <1>3, <1>7 DEF Faithful
  <2>2. SameShape(u.blocks[r], m) /\ Guarded(u, u.blocks[r])
    BY <1>5, <1>7, <2>1 DEF FaithfulBlock, Guarded, ExecBit
  <2>3. ASSUME NEW k \in 0 .. u.blocks[r].csize - 1 PROVE FaithfulWord(u, m, r, k)
    <3> DEFINE b == v.blocks[r]
               x == v.code[b.cstart + k]
               w == BlockWord(m, b.gstart, r, k)
    <3>1. x = w \/ LinkOf(v, m, b, w, x) BY <1>7, <2>1 DEF FaithfulBlock, FaithfulWord
    <3>2. x.kind # "b"
      <4>1. /\ b.cstart \in Nat /\ b.csize \in Nat /\ LastHypercall(b) = b.cstart + b.csize - 2
            /\ \A h \in Body(b) : v.code[h].kind = "b" => b.type = "GB"
            /\ v.code[LastHypercall(b) + 1].kind = "index"
        BY <1>2, <1>7, BlockWords
      <4>2. k \in Nat /\ k <= b.csize - 1 BY <1>7, <4>1
      <4>3. b.cstart + k \in Body(b) \/ b.cstart + k = LastHypercall(b) + 1
        BY <4>1, <4>2 DEF Body
      <4> QED BY <1>7, <4>1, <4>3
    <3>3. x = w BY <3>1, <3>2 DEF LinkOf
    <3> QED BY <1>5, <1>7, <3>3 DEF FaithfulWord
  <2> QED BY <2>2, <2>3 DEF FaithfulBlock
<1>9. Faithful(u, m, E) BY <1>3, <1>7, <1>8 DEF Faithful
<1>10. Counted(u, m) BY <1>3, <1>7 DEF Counted
<1>11. \A r \in Live(u) : r \in Live(t) /\ SamePlace(u.blocks[r], t.blocks[r])
  BY <1>2, <1>7
<1> QED BY <1>3, <1>5, <1>6, <1>9, <1>10, <1>11 DEF ClearedFrom, u

LEMMA ClearedSelf ==
  ASSUME NEW t, NEW m, NEW E, Faithful(t, m, E), Counted(t, m)
  PROVE  ClearedFrom(t, t, m, E)
BY DEF ClearedFrom, SamePlace

LEMMA ClearAddressFaithful ==
  ASSUME NEW t \in StoreType, NEW E, NEW m \in Image, WellFormed(t, m), E \subseteq Addr,
         Faithful(t, m, E), Counted(t, m), NEW a \in Int
  PROVE  ClearedFrom(ClearAddress(t, a), t, m, E) /\ NoCodeAt(ClearAddress(t, a), a)
<1> DEFINE doomed == {s \in Slot : t.blocks[s].gstart <= a /\ a <= t.blocks[s].gend}
<1>1. CASE ~ ExecBit(t, a)
  <2>1. ClearAddress(t, a) = t BY <1>1 DEF ClearAddress
  <2>2. NoCodeAt(t, a) BY <1>1 DEF NoCodeAt, Faithful, FaithfulBlock, Guarded
  <2> QED BY <2>1, <2>2, ClearedSelf
<1>2. CASE ExecBit(t, a)
  <2>1. ClearAddress(t, a) = ClearSlots(t, doomed) BY <1>2 DEF ClearAddress
  <2>2. doomed \in SUBSET Slot OBVIOUS
  <2> HIDE DEF doomed
  <2>3. /\ ClearedFrom(ClearSlots(t, doomed), t, m, E)
        /\ Live(ClearSlots(t, doomed)) = Live(t) \ doomed
    BY <2>2, ClearSlotsFaithful
  <2>4. NoCodeAt(ClearSlots(t, doomed), a)
    <3> SUFFICES ASSUME NEW r \in Live(ClearSlots(t, doomed)),
                        a \in t.blocks[r].gstart .. t.blocks[r].gend
                 PROVE FALSE
      BY <2>3 DEF NoCodeAt, ClearedFrom, SamePlace
    <3>1. r \in Slot /\ r \notin doomed BY <2>3 DEF Live
    <3>2. t.blocks[r].gstart \in Int /\ t.blocks[r].gend \in Int
      BY <3>1, SizesAssumption DEF StoreType, Block, Addr, Null
    <3> QED BY <3>1, <3>2 DEF doomed
  <2> QED BY <2>1, <2>3, <2>4
<1> QED BY <1>1, <1>2

(* The bits of the first and the last page tell whether a range is cached. *)
LEMMA RangeCached ==
  ASSUME NEW t, NEW m, NEW E, RemapsWhole, NEW r \in Remaps, Faithful(t, m, E),
         ~ ExecBit(t, r.first), ~ ExecBit(t, r.last), NEW x \in Range(r)
  PROVE  NoCodeAt(t, x)
<1>1. Page(x) \in {Page(r.first), Page(r.last)} BY DEF RemapsWhole
<1>2. ~ ExecBit(t, x) BY <1>1 DEF ExecBit
<1> QED BY <1>2 DEF NoCodeAt, Faithful, FaithfulBlock, Guarded

LEMMA ClearRangeFaithful ==
  ASSUME NEW t \in StoreType, NEW M, NEW E, M \subseteq Image, E \subseteq Addr,
         OnePageEach(M, E), RemapsWhole, NEW m \in M, WellFormed(t, m),
         Faithful(t, m, E), Counted(t, m), NEW r \in Remaps
  PROVE  LET u == ClearRange(t, r.first, r.last)
         IN ClearedFrom(u, t, m, E) /\ \A x \in Range(r) : NoCodeAt(u, x)
<1> DEFINE doomed == {s \in Slot : \/ t.blocks[s].gstart \in r.first .. r.last
                                   \/ t.blocks[s].gend \in r.first .. r.last}
           u == ClearRange(t, r.first, r.last)
<1>1. CASE ~ ExecBit(t, r.first) /\ ~ ExecBit(t, r.last)
  <2>1. u = t BY <1>1 DEF ClearRange
  <2> QED BY <1>1, <2>1, ClearedSelf, RangeCached
<1>2. CASE ~ (~ ExecBit(t, r.first) /\ ~ ExecBit(t, r.last))
  <2>1. u = ClearSlots(t, doomed) BY <1>2 DEF ClearRange
  <2>2. doomed \in SUBSET Slot OBVIOUS
  <2> HIDE DEF doomed, u
  <2>3. ClearedFrom(u, t, m, E) /\ Live(u) = Live(t) \ doomed
    BY <2>1, <2>2, ClearSlotsFaithful
  <2>4. ASSUME NEW x \in Range(r), NEW s \in Live(u),
               x \in t.blocks[s].gstart .. t.blocks[s].gend
        PROVE FALSE
    <3>1. s \in Slot /\ s \notin doomed /\ s \in Live(t) BY <2>3 DEF Live
    <3>2. t.blocks[s].gstart \in E /\ t.blocks[s].gend = BlockEnd(m, t.blocks[s].gstart)
      BY <3>1 DEF Faithful, FaithfulBlock, SameShape
    <3>3. Page(x) = Page(t.blocks[s].gstart) BY <2>4, <3>2 DEF OnePageEach, Extent
    <3>4. t.blocks[s].gstart \in Range(r) BY <3>2, <3>3 DEF RemapsWhole
    <3> QED BY <3>1, <3>4 DEF doomed, Range
  <2>5. \A x \in Range(r) : NoCodeAt(u, x)
    BY <2>3, <2>4 DEF NoCodeAt, ClearedFrom, SamePlace
  <2> QED BY <2>3, <2>5 DEF u
<1> QED BY <1>1, <1>2

-----------------------------------------------------------------------------
(* Changes of guest memory, and of its protection.                         *)

(* What changes in guest memory outside the live blocks changes nothing    *)
(* for them.                                                               *)
LEMMA ChangeElsewhere ==
  ASSUME NEW t, NEW E, E \subseteq Addr, NEW m \in Image, NEW n \in Image,
         Faithful(t, m, E),
         \A s \in Live(t), x \in Addr : x \in t.blocks[s].gstart .. t.blocks[s].gend => n[x] = m[x]
  PROVE  Faithful(t, n, E) /\ (Counted(t, m) => Counted(t, n))
<1>1. ASSUME NEW s \in Live(t)
      PROVE  FaithfulBlock(t, n, s) /\ n[t.blocks[s].gend] = m[t.blocks[s].gend]
  <2> DEFINE b == t.blocks[s]
  <2>1. FaithfulBlock(t, m, s) /\ s \in Slot BY DEF Faithful, Live
  <2>2. PICK a \in Addr : a = b.gstart BY DEF Faithful
  <2>3. b.gend = BlockEnd(m, a) /\ b.csize = BlockLength(m, a)
    BY <2>1, <2>2 DEF FaithfulBlock, SameShape
  <2>4. \A x \in Extent(m, a) : n[x] = m[x]
    <3>1. \A x \in Extent(m, a) : x \in Addr
      BY BlockEndFacts, SizesAssumption DEF Extent, Addr
    <3> QED BY <2>2, <2>3, <3>1 DEF Extent
  <2>5. /\ BlockEnd(n, a) = BlockEnd(m, a) /\ BlockLength(n, a) = BlockLength(m, a)
        /\ n[BlockEnd(m, a)] = m[BlockEnd(m, a)]
        /\ \A k \in Nat : BlockWord(n, a, s, k) = BlockWord(m, a, s, k)
    <3>1. s \in Nat BY <2>1, SizesAssumption DEF Slot
    <3> QED BY <2>4, <3>1, SameExtent
  <2>6. n[b.gend] = m[b.gend] BY <2>3, <2>5
  <2>7. SameShape(b, n) BY <2>1, <2>2, <2>3, <2>5 DEF FaithfulBlock, SameShape
  <2>8. ASSUME NEW w, NEW v, LinkOf(t, m, b, w, v) PROVE LinkOf(t, n, b, w, v)
    BY <2>6, <2>8 DEF LinkOf, Goal
  <2>9. ASSUME NEW k \in 0 .. b.csize - 1 PROVE FaithfulWord(t, n, s, k)
    <3>1. k \in Nat
      BY <2>3, BlockLengthFacts
    <3>2. BlockWord(n, b.gstart, s, k) = BlockWord(m, b.gstart, s, k)
      BY <2>2, <2>5, <3>1
    <3>3. FaithfulWord(t, m, s, k) BY <2>1 DEF FaithfulBlock
    <3> QED BY <2>8, <3>2, <3>3 DEF FaithfulWord
  <2> QED BY <2>1, <2>6, <2>7, <2>9 DEF FaithfulBlock
<1> QED BY <1>1 DEF Faithful, Counted

(* The guards may change, as long as every live block keeps its own.       *)
LEMMA SameBlocks ==
  ASSUME NEW t, NEW u, NEW m, NEW E, u.blocks = t.blocks, u.code = t.code,
         Faithful(t, m, E), \A s \in Live(t) : Guarded(u, t.blocks[s])
  PROVE  Faithful(u, m, E) /\ (Counted(t, m) => Counted(u, m))
<1>1. Live(u) = Live(t) BY DEF Live
<1>2. ASSUME NEW s \in Live(t) PROVE FaithfulBlock(u, m, s)
  <2>1. FaithfulBlock(t, m, s) BY DEF Faithful
  <2>2. \A k : FaithfulWord(t, m, s, k) => FaithfulWord(u, m, s, k)
    BY <1>1 DEF FaithfulWord, LinkOf
  <2> QED BY <2>1, <2>2 DEF FaithfulBlock
<1> QED BY <1>1, <1>2 DEF Faithful, Counted

(* The pages of a range lose their protection; no block has code in it.    *)
LEMMA UnprotectFaithful ==
  ASSUME NEW t \in StoreType, NEW M, NEW E, M \subseteq Image, E \subseteq Addr,
         RemapsWhole, NEW m \in M, Faithful(t, m, E), NEW r \in Remaps,
         \A x \in Range(r) : NoCodeAt(t, x), NEW u,
         u.blocks = t.blocks, u.code = t.code, u.exec = t.exec,
         u.wprot = t.wprot \ {Page(a) : a \in Range(r)}
  PROVE  Faithful(u, m, E) /\ (Counted(t, m) => Counted(u, m))
<1>1. ASSUME NEW s \in Live(t) PROVE Guarded(u, t.blocks[s])
  <2> DEFINE b == t.blocks[s]
  <2>1. Guarded(t, b) /\ b.gstart \in Addr /\ b.gend = BlockEnd(m, b.gstart)
    BY DEF Faithful, FaithfulBlock, SameShape
  <2>2. ASSUME NEW a \in b.gstart .. b.gend PROVE Page(a) \in u.wprot /\ ExecBit(u, a)
    <3>1. a \in Addr BY <2>1, BlockEndFacts, SizesAssumption DEF Addr
    <3>2. a \notin Range(r) BY DEF NoCodeAt
    <3>3. \A x \in Range(r) : Page(x) # Page(a) BY <3>1, <3>2 DEF RemapsWhole
    <3> QED BY <2>1, <3>3 DEF Guarded, ExecBit
  <2> QED BY <2>2 DEF Guarded
<1> QED BY <1>1, SameBlocks

-----------------------------------------------------------------------------
(* A store that is sound for guest memory m, and the words it is filled to. *)

Sound(t, m, E) ==
  t \in StoreType /\ WellFormed(t, m) /\ Faithful(t, m, E) /\ Emptied(t)

Room(t, m, F) == Counted(t, m) /\ t.free \in F

(* No function of the store gives words to a slot it empties.              *)
LEMMA FillEmptied ==
  ASSUME NEW t \in StoreType, NEW m \in Image, NEW a \in Addr, NEW s \in Slot, Emptied(t)
  PROVE  Emptied(FillSlot(t, m, a, s))
<1> DEFINE u == FillSlot(t, m, a, s)
<1>1. /\ u.blocks[s].type = "BB"
      /\ \A r \in Slot \ {s} : u.blocks[r] =
            IF ReachesEnd(t, BlockLength(m, a)) THEN NullBlock ELSE t.blocks[r]
  BY FillSlotBlocks
<1> HIDE DEF u
<1> QED BY <1>1 DEF Emptied, Live, NullBlock, u

LEMMA LinkEmptied ==
  ASSUME NEW t \in StoreType, NEW m \in Image, WellFormed(t, m), NEW next,
         NEW s \in Live(t), NEW host \in Body(t.blocks[s]), t.code[host].kind = "svc",
         Emptied(t)
  PROVE  Emptied(Link(t, m, next, host, s))
<1> DEFINE u == Link(t, m, next, host, s)
<1>1. Live(u) = Live(t) BY LinkKeeps
<1>2. \A r \in Slot : u.blocks[r].cstart = t.blocks[r].cstart
  <2>1. CASE ~ Found(t, next) BY <2>1 DEF Link
  <2>2. CASE Found(t, next)
    <3>1. u.blocks = [r \in Slot |-> IF r \in GroupOfLink(s, Probe(t, next))
                                     THEN [t.blocks[r] EXCEPT !.type = "GB"]
                                     ELSE t.blocks[r]]
      BY <2>2 DEF Link, StoreType
    <3>2. \A r \in Slot : t.blocks[r] \in Block BY DEF StoreType
    <3> QED BY <3>1, <3>2 DEF Block
  <2> QED BY <2>1, <2>2
<1> HIDE DEF u
<1> QED BY <1>1, <1>2 DEF Emptied, u

LEMMA UnlinkEmptied ==
  ASSUME NEW t \in StoreType, NEW m \in Image, WellFormed(t, m),
         NEW slots \in SUBSET Live(t), Emptied(t)
  PROVE  Emptied(Unlink(t, slots))
BY UnlinkKeeps DEF Emptied, SamePlace

LEMMA ClearSlotsEmptied ==
  ASSUME NEW t \in StoreType, NEW m \in Image, WellFormed(t, m), NEW doomed, Emptied(t)
  PROVE  Emptied(ClearSlots(t, doomed))
<1> DEFINE v == Unlink(t, Groups(t))
           u == ClearSlots(t, doomed)
<1>1. Groups(t) \in SUBSET Live(t) BY DEF Groups, Live
<1>2. v \in StoreType /\ Emptied(v) BY <1>1, UnlinkKeeps, UnlinkEmptied
<1>3. u = [v EXCEPT !.blocks = [s \in Slot |-> IF s \in doomed THEN NullBlock ELSE v.blocks[s]]]
  BY DEF ClearSlots
<1> HIDE DEF u, v
<1>4. \A s \in Slot : u.blocks[s] = IF s \in doomed THEN NullBlock ELSE v.blocks[s]
  BY <1>2, <1>3 DEF StoreType
<1> QED BY <1>2, <1>4 DEF Emptied, Live, NullBlock, u

LEMMA ClearingEmptied ==
  ASSUME NEW t \in StoreType, NEW m \in Image, WellFormed(t, m), Emptied(t), NEW a, NEW z
  PROVE  Emptied(ClearAddress(t, a)) /\ Emptied(ClearRange(t, a, z))
BY ClearSlotsEmptied DEF ClearAddress, ClearRange

(* A scan keeps the store sound, and counts the hypercalls of the block.   *)
LEMMA ScanSound ==
  ASSUME NEW M, NEW E, Behaves(M, E), NEW m \in M, NEW t, Sound(t, m, E),
         NEW a \in E, Probe(t, a) \in Slot
  PROVE  LET u == Scan(t, m, a)
         IN Sound(u, m, E) /\ \A F : Fills(M, E, F) /\ Room(t, m, F) => Room(u, m, F)
<1> DEFINE u == Scan(t, m, a)
           s == Probe(t, a)
<1>1. /\ M \subseteq Image /\ E \subseteq Addr /\ OnePageEach(M, E)
      /\ m \in Image /\ a \in Addr
      /\ t \in StoreType /\ WellFormed(t, m) /\ Faithful(t, m, E) /\ Emptied(t)
  BY DEF Behaves, Images, Starts, Sound
<1>2. CASE Found(t, a) BY <1>2 DEF Scan
<1>3. CASE ~ Found(t, a)
  <2>1. u = FillSlot(t, m, a, s) /\ s \notin Live(t) BY <1>3 DEF Scan, Found
  <2> HIDE DEF u, s
  <2>2. s \in Slot BY DEF s
  <2>3. u \in StoreType /\ WellFormed(u, m)
    BY <1>1, <2>1, <2>2, FillSlotType, FillSlotWellFormed
  <2>4. Faithful(u, m, E) BY <1>1, <2>1, <2>2, FillFaithful
  <2>5. Emptied(u) BY <1>1, <2>1, <2>2, FillEmptied
  <2>6. ASSUME NEW F, Fills(M, E, F), Room(t, m, F) PROVE Room(u, m, F)
    <3> DEFINE n == BlockLength(m, a)
    <3>1. /\ t.free + n < PoolSize => t.free + n \in F
          /\ t.free + n >= PoolSize => n \in F
          /\ t.free + n = PoolSize => TwoHypercalls(LastInstr(m, a))
      BY <2>6 DEF Fills, Room
    <3>2. n \in Nat /\ t.free \in Int
      BY <1>1, BlockLengthFacts, SizesAssumption DEF StoreType, Host
    <3>3. u.free = Start(t, m, a) + n
      BY <1>1, <2>1, <2>2, FillSlotBlocks
    <3>4. Counted(u, m)
      BY <1>1, <2>1, <2>2, <2>6, <3>1, FillCounted DEF Room
    <3> HIDE DEF n
    <3>5. u.free \in F
      <4>1. CASE ReachesEnd(t, n)
        <5>1. u.free = n BY <3>2, <3>3, <4>1 DEF Start, n
        <5> QED BY <3>1, <4>1, <5>1 DEF ReachesEnd
      <4>2. CASE ~ ReachesEnd(t, n)
        <5>1. u.free = t.free + n BY <3>3, <4>2 DEF Start, n
        <5>2. t.free + n < PoolSize BY <3>2, <4>2, SizesAssumption DEF ReachesEnd
        <5> QED BY <3>1, <5>1, <5>2
      <4> QED BY <4>1, <4>2
    <3> QED BY <3>4, <3>5 DEF Room
  <2> QED BY <2>3, <2>4, <2>5, <2>6 DEF Sound, u
<1> QED BY <1>1, <1>2, <1>3 DEF Sound

-----------------------------------------------------------------------------
(* The steps of block execution.                                           *)

(* What a step leaves: a faithful store, and with the count of hypercalls. *)
Advances(M, E) ==
  /\ FaithfulInv(M, E)'
  /\ \A F : Fills(M, E, F) /\ Room(ts, mem, F) => Room(ts, mem, F)'

LEMMA InvSound ==
  ASSUME NEW M, NEW E, Behaves(M, E), FaithfulInv(M, E)
  PROVE  /\ Sound(ts, mem, E) /\ mem \in M /\ mem \in Image /\ PoolInv
         /\ M \subseteq Image /\ E \subseteq Addr /\ RemapsWhole /\ OnePageEach(M, E)
         /\ mode \in {"priv", "user"}
BY DEF Behaves, Images, Starts, FaithfulInv, PoolInv, TypeOK, Sound

LEMMA SoundStep ==
  ASSUME NEW M, NEW E, PoolInv', mem' \in M, Sound(ts', mem', E),
         lr' \in Addr => lr' \in E \cup UserAddr,
         mode' = "user" => pc' \in UserAddr,
         \A F : Fills(M, E, F) /\ Room(ts, mem, F) => Room(ts', mem', F)
  PROVE  Advances(M, E)
BY DEF Advances, FaithfulInv, Sound, Room, Faithful, Emptied, Live, FaithfulBlock, SameShape,
   Guarded, FaithfulWord, LinkOf, Goal, Counted, ExecBit

LEMMA EnterSound ==
  ASSUME NEW M, NEW E, Behaves(M, E), mem' \in M, NEW t, Sound(t, mem', E),
         Sound(ts, mem', E) \/ Live(t) = {}, NEW a \in E, EnterBlock(t, a)
  PROVE  /\ Sound(ts', mem', E)
         /\ mode' = "priv" \/ (mode' = mode /\ pc' = pc)
         /\ \A F : /\ Fills(M, E, F) /\ Room(t, mem', F)
                   /\ Room(ts, mem', F) \/ Live(t) = {}
                   => Room(ts', mem', F)
<1> DEFINE u == Scan(t, mem', a)
           s == Probe(t, a)
<1>1. CASE s \in Slot
  <2>1. Sound(u, mem', E) /\ \A F : Fills(M, E, F) /\ Room(t, mem', F) => Room(u, mem', F)
    BY <1>1, ScanSound
  <2>2. ts' = u /\ mode' = "priv" BY <1>1 DEF EnterBlock
  <2> HIDE DEF u
  <2> QED BY <2>1, <2>2
<1>2. CASE s \notin Slot
  <2>1. Live(t) # {}
    BY <1>2, ProbeEmpty DEF Behaves, Starts
  <2>2. ts' = ts /\ mode' = mode /\ pc' = pc BY <1>2 DEF EnterBlock
  <2> QED BY <2>1, <2>2
<1> QED BY <1>1, <1>2

(* A store a handler may enter the next block from.                        *)
Ready(u, M, E) ==
  /\ Sound(u, mem', E)
  /\ \A F : Fills(M, E, F) /\ Room(ts, mem, F) => Room(u, mem', F)

LEMMA EnterAdvances ==
  ASSUME NEW M, NEW E, Behaves(M, E), PoolInv', mem' \in M, NEW t, Ready(t, M, E),
         Ready(ts, M, E) \/ Live(t) = {}, NEW a \in E, EnterBlock(t, a),
         mode = "user" => pc \in UserAddr,
         lr' \in Addr => lr' \in E \cup UserAddr
  PROVE  Advances(M, E)
<1>1. /\ Sound(ts', mem', E)
      /\ mode' = "priv" \/ (mode' = mode /\ pc' = pc)
      /\ \A F : /\ Fills(M, E, F) /\ Room(t, mem', F)
                /\ Room(ts, mem', F) \/ Live(t) = {}
                => Room(ts', mem', F)
  BY EnterSound DEF Ready
<1>2. \A F : Fills(M, E, F) /\ Room(ts, mem, F) => Room(ts', mem', F)
  BY <1>1 DEF Ready
<1>3. mode' = "user" => pc' \in UserAddr BY <1>1
<1> QED BY <1>1, <1>2, <1>3, SoundStep

LEMMA NextAdvances ==
  ASSUME NEW M, NEW E, Behaves(M, E), FaithfulInv(M, E), PoolInv', mem' \in M, mode = "priv",
         NEW t, Ready(t, M, E), NEW linked, Ready(linked, M, E),
         Ready(ts, M, E) \/ (Live(t) = {} /\ Live(linked) = {}),
         NEW next \in E, NEW i, NextBlock(t, linked, next, i)
  PROVE  Advances(M, E)
<1>1. CASE DeliverInterrupt(t, next, i)
  <2>1. EnterBlock(t, IrqVector) /\ lr' = next /\ IrqVector \in E
    BY <1>1 DEF DeliverInterrupt, Behaves, Starts
  <2> QED BY <2>1, EnterAdvances
<1>2. CASE NoInterrupt(i) /\ EnterBlock(linked, next)
  <2>1. EnterBlock(linked, next) /\ lr' = lr BY <1>2 DEF NoInterrupt
  <2>2. lr' \in Addr => lr' \in E \cup UserAddr BY <2>1 DEF FaithfulInv
  <2> QED BY <2>1, <2>2, EnterAdvances
<1> QED BY <1>1, <1>2 DEF NextBlock

LEMMA SameReady ==
  ASSUME NEW M, NEW E, Behaves(M, E), FaithfulInv(M, E), mem' = mem
  PROVE  Ready(ts, M, E)
BY InvSound DEF Ready

(* The hypercall the guest is at, and where it goes from there.            *)
LEMMA HypercallGoal ==
  ASSUME NEW M, NEW E, Behaves(M, E), FaithfulInv(M, E), NEW op, AtHypercall(op)
  PROVE  /\ mode = "priv" /\ Word0.kind = "svc" /\ Word0.arg \in Live(ts)
         /\ pc \in Body(This) /\ This.gstart \in E /\ This.gend = BlockEnd(mem, This.gstart)
         /\ Decode[EndInstr].op = op /\ EndInstr = LastInstr(mem, This.gstart)
         /\ op \in {"crit", "cps", "mmu", "strt"} => This.gend + 1 \in E
         /\ op = "branch" => /\ Decode[EndInstr].target \in E
                             /\ Decode[EndInstr].cond => This.gend + 1 \in E
<1>1. /\ mode = "priv" /\ Word0.kind = "svc" /\ Word0.arg \in Live(ts) /\ pc \in Body(This)
      /\ This.handler = op
  BY HypercallFacts DEF FaithfulInv, AtHypercall
<1>2. /\ This.gstart \in E /\ This.gend = BlockEnd(mem, This.gstart)
      /\ This.handler = Decode[mem[This.gend]].op
  BY <1>1 DEF FaithfulInv, Faithful, FaithfulBlock, SameShape, This
<1>3. Decode[EndInstr].op = op /\ EndInstr = LastInstr(mem, This.gstart)
  BY <1>1, <1>2 DEF EndInstr, LastInstr
<1>4. PICK a \in E : a = This.gstart BY <1>2
<1>5. /\ IsBranch(LastInstr(mem, a)) => Decode[LastInstr(mem, a)].target \in E
      /\ GoesOnAfter(LastInstr(mem, a)) => BlockEnd(mem, a) + 1 \in E
  BY DEF Behaves, Starts, FaithfulInv
<1>6. op \in {"crit", "cps", "mmu", "strt"} => This.gend + 1 \in E
  BY <1>2, <1>3, <1>4, <1>5 DEF GoesOnAfter
<1>7. op = "branch" => /\ Decode[EndInstr].target \in E
                       /\ Decode[EndInstr].cond => This.gend + 1 \in E
  BY <1>2, <1>3, <1>4, <1>5 DEF GoesOnAfter, TwoHypercalls, IsBranch
<1> QED BY <1>1, <1>2, <1>3, <1>6, <1>7

(* linkBlock leaves a store the next block may be entered from.            *)
LEMMA BranchReady ==
  ASSUME NEW M, NEW E, Behaves(M, E), FaithfulInv(M, E), BranchHypercall
  PROVE  LET next == IF Taken THEN Decode[EndInstr].target ELSE This.gend + 1
             linked == IF IsBranch(EndInstr) THEN Link(ts, mem, next, pc, Word0.arg) ELSE ts
         IN /\ next \in E /\ mem' = mem /\ Ready(linked, M, E)
            /\ NextBlock(ts, linked, next, iBit)
<1> DEFINE next == IF Taken THEN Decode[EndInstr].target ELSE This.gend + 1
           linked == IF IsBranch(EndInstr) THEN Link(ts, mem, next, pc, Word0.arg) ELSE ts
<1>1. /\ AtHypercall("branch") /\ mem' = mem /\ NextBlock(ts, linked, next, iBit)
  BY DEF BranchHypercall
<1>2. /\ mode = "priv" /\ Word0.kind = "svc" /\ Word0.arg \in Live(ts)
      /\ pc \in Body(This) /\ Decode[EndInstr].op = "branch"
      /\ Decode[EndInstr].target \in E
      /\ Decode[EndInstr].cond => This.gend + 1 \in E
  BY <1>1, HypercallGoal
<1>3. next \in E BY <1>2 DEF Taken
<1>4. next = Goal(mem, This, Word0) BY DEF Goal, Taken, EndInstr
<1> HIDE DEF next
<1>5. linked = Link(ts, mem, next, pc, Word0.arg) BY <1>2 DEF IsBranch
<1>6. /\ Sound(ts, mem, E) /\ mem \in M /\ mem \in Image /\ E \subseteq Addr /\ PoolInv
  BY InvSound
<1>7. Ready(linked, M, E)
  <2>1. /\ ts \in StoreType /\ WellFormed(ts, mem) /\ Faithful(ts, mem, E) /\ Emptied(ts)
        /\ pc \in Body(ts.blocks[Word0.arg]) /\ ts.code[pc].kind = "svc"
        /\ IsBranch(mem[ts.blocks[Word0.arg].gend]) /\ next \in Addr
        /\ next = Goal(mem, ts.blocks[Word0.arg], ts.code[pc])
    BY <1>2, <1>3, <1>4, <1>6 DEF Sound, This, Word0, EndInstr, IsBranch
  <2>2. /\ Faithful(linked, mem, E) /\ (Counted(ts, mem) => Counted(linked, mem))
        /\ linked.free = ts.free
    BY <1>2, <1>5, <1>6, <2>1, LinkFaithful
  <2>3. linked \in StoreType /\ WellFormed(linked, mem) /\ Emptied(linked)
    BY <1>2, <1>5, <1>6, <2>1, LinkKeeps, LinkEmptied
  <2> QED BY <1>1, <2>2, <2>3 DEF Ready, Sound, Room
<1> HIDE DEF linked
<1> QED BY <1>1, <1>3, <1>7 DEF linked, next

LEMMA BranchAdvances ==
  ASSUME NEW M, NEW E, Behaves(M, E), FaithfulInv(M, E), PoolInv', BranchHypercall
  PROVE  Advances(M, E)
<1>1. PICK next, linked :
        /\ next \in E /\ mem' = mem /\ Ready(linked, M, E)
        /\ NextBlock(ts, linked, next, iBit)
  BY BranchReady
<1>2. mode = "priv" BY HypercallGoal DEF BranchHypercall
<1> QED BY <1>1, <1>2, SameReady, InvSound, NextAdvances

LEMMA EmulateAdvances ==
  ASSUME NEW M, NEW E, Behaves(M, E), FaithfulInv(M, E), PoolInv',
         EmulateHypercall \/ SetMaskHypercall
  PROVE  Advances(M, E)
<1>1. PICK op \in {"crit", "cps"}, i \in BOOLEAN :
        AtHypercall(op) /\ mem' = mem /\ NextBlock(ts, ts, This.gend + 1, i)
  <2>1. iBit \in BOOLEAN BY DEF FaithfulInv, PoolInv, TypeOK
  <2> QED BY <2>1 DEF EmulateHypercall, SetMaskHypercall
<1>2. mode = "priv" /\ This.gend + 1 \in E BY <1>1, HypercallGoal
<1>3. Ready(ts, M, E) /\ mem \in M BY <1>1, SameReady, InvSound
<1> QED BY <1>1, <1>2, <1>3, NextAdvances

LEMMA DisableMMUReady ==
  ASSUME NEW M, NEW E, Behaves(M, E), FaithfulInv(M, E), DisableMMUHypercall
  PROVE  \E t : /\ Ready(t, M, E) /\ Live(t) = {}
               /\ mem' \in M /\ This.gend + 1 \in E /\ mode = "priv"
               /\ NextBlock(t, t, This.gend + 1, iBit)
<1> DEFINE t == [ClearAll(ts) EXCEPT !.wprot = {}]
<1>1. /\ AtHypercall("mmu") /\ mem' \in Spaces \cup {mem}
      /\ NextBlock(t, t, This.gend + 1, iBit)
  BY DEF DisableMMUHypercall
<1>2. mode = "priv" /\ This.gend + 1 \in E BY <1>1, HypercallGoal
<1>3. ts \in StoreType /\ mem' \in M
  BY <1>1, InvSound DEF Sound, Behaves, Images
<1>4. ClearAll(ts) \in StoreType /\ Live(ClearAll(ts)) = {} BY <1>3, EmptyStoreKeeps
<1>5. /\ t \in StoreType /\ Live(t) = {} /\ t.blocks = ClearAll(ts).blocks
      /\ t.free = ClearAll(ts).free
  <2>1. {} \in SUBSET Nat OBVIOUS
  <2>2. t \in StoreType /\ Live(t) = {} /\ t.blocks = ClearAll(ts).blocks
    BY <1>4, <2>1, UnprotectKeeps
  <2> QED BY <1>4, <2>2 DEF StoreType
<1>6. /\ ClearAll(ts).free = 0 /\ ClearAll(ts).blocks = [s \in Slot |-> NullBlock]
  BY <1>3 DEF ClearAll, StoreType, EmptyStore
<1> HIDE DEF t
<1>7. Ready(t, M, E)
  <2>1. WellFormed(t, mem') BY <1>5, NoBlocksWellFormed
  <2>2. Faithful(t, mem', E) /\ Counted(t, mem') BY <1>5 DEF Faithful, Counted
  <2>3. Emptied(t) BY <1>5, <1>6 DEF Emptied, NullBlock
  <2>4. \A F : Fills(M, E, F) => t.free \in F BY <1>5, <1>6 DEF Fills
  <2> QED BY <1>5, <2>1, <2>2, <2>3, <2>4 DEF Ready, Sound, Room
<1> QED BY <1>1, <1>2, <1>3, <1>5, <1>7

LEMMA DisableMMUAdvances ==
  ASSUME NEW M, NEW E, Behaves(M, E), FaithfulInv(M, E), PoolInv', DisableMMUHypercall
  PROVE  Advances(M, E)
BY DisableMMUReady, NextAdvances

(* Guest memory changes where no live block has code.                      *)
LEMMA ChangeReady ==
  ASSUME NEW M, NEW E, M \subseteq Image, E \subseteq Addr,
         NEW m \in M, mem' \in M, NEW u, Sound(u, m, E), WellFormed(u, mem'),
         \A F : Fills(M, E, F) /\ Room(ts, mem, F) => Room(u, m, F),
         \A x \in Addr : mem'[x] = m[x] \/ NoCodeAt(u, x)
  PROVE  Ready(u, M, E)
<1>1. \A s \in Live(u), x \in Addr :
        x \in u.blocks[s].gstart .. u.blocks[s].gend => mem'[x] = m[x]
  BY DEF NoCodeAt
<1>2. Faithful(u, mem', E) /\ (Counted(u, m) => Counted(u, mem'))
  <2>1. Faithful(u, m, E) /\ m \in Image /\ mem' \in Image BY DEF Sound
  <2> QED BY <1>1, <2>1, ChangeElsewhere
<1> QED BY <1>2 DEF Ready, Sound, Room

LEMMA StoreHypercallReady ==
  ASSUME NEW M, NEW E, Behaves(M, E), FaithfulInv(M, E), StoreHypercall
  PROVE  /\ Ready(ts, M, E) /\ mem' \in M /\ This.gend + 1 \in E /\ mode = "priv"
         /\ NextBlock(ts, ts, This.gend + 1, iBit)
<1>1. AtHypercall("strt") /\ NextBlock(ts, ts, This.gend + 1, iBit)
  BY DEF StoreHypercall
<1>2. PICK s \in Stores : s.words = 1 /\ mem' = Written(mem, s)
  BY DEF StoreHypercall
<1>3. /\ mode = "priv" /\ This.gend + 1 \in E /\ This.gstart \in E
      /\ Decode[LastInstr(mem, This.gstart)].op = "strt"
  BY <1>1, HypercallGoal
<1>4. /\ Sound(ts, mem, E) /\ mem \in M /\ mem \in Image /\ M \subseteq Image /\ E \subseteq Addr
  BY InvSound
<1>5. mem' \in M BY <1>2, <1>4 DEF Behaves, Images
<1>6. \A n \in M, b \in E : s.addr \notin Extent(n, b)
  BY <1>2, <1>3, <1>4 DEF Behaves, StoresClear
<1>7. NoCodeAt(ts, s.addr)
  BY <1>4, <1>6 DEF NoCodeAt, Sound, Faithful, FaithfulBlock, SameShape, Extent
<1>8. \A x \in Addr : mem'[x] = mem[x] \/ NoCodeAt(ts, x)
  <2>1. s.addr \in Int BY GuestAssumption, SizesAssumption DEF StoreOp, Addr
  <2>2. \A x \in s.addr .. s.addr + s.words - 1 : x = s.addr BY <1>2, <2>1
  <2> QED BY <1>2, <1>7, <2>2 DEF Written
<1>9. WellFormed(ts, mem')
  BY <1>2, <1>4, WrittenFacts, SameLastWord DEF Sound
<1>10. Ready(ts, M, E) BY <1>4, <1>5, <1>8, <1>9, ChangeReady
<1> QED BY <1>1, <1>3, <1>5, <1>10

LEMMA StoreHypercallAdvances ==
  ASSUME NEW M, NEW E, Behaves(M, E), FaithfulInv(M, E), PoolInv', StoreHypercall
  PROVE  Advances(M, E)
BY StoreHypercallReady, NextAdvances

LEMMA ReturnAdvances ==
  ASSUME NEW M, NEW E, Behaves(M, E), FaithfulInv(M, E), PoolInv', ReturnHypercall
  PROVE  Advances(M, E)
<1>1. AtHypercall("eret") /\ mem' = mem
  BY DEF ReturnHypercall
<1>2. PICK a \in ({lr} \cup ReturnAddrs) \cap Addr :
        \/ DeliverInterrupt(ts, a, spsr)
        \/ a \notin UserAddr /\ NoInterrupt(spsr) /\ EnterBlock(ts, a)
        \/ a \in UserAddr /\ NoInterrupt(spsr) /\ EnterUserMode(a)
  BY DEF ReturnHypercall
<1>3. a \in E \cup UserAddr BY DEF Behaves, Starts, FaithfulInv
<1>4. mode = "priv" BY <1>1, HypercallGoal
<1>5. Ready(ts, M, E) /\ mem \in M BY <1>1, SameReady, InvSound
<1>6. CASE DeliverInterrupt(ts, a, spsr)
  <2>1. EnterBlock(ts, IrqVector) /\ lr' = a /\ IrqVector \in E
    BY <1>6 DEF DeliverInterrupt, Behaves, Starts
  <2> QED BY <1>1, <1>3, <1>4, <1>5, <2>1, EnterAdvances
<1>7. CASE a \notin UserAddr /\ NoInterrupt(spsr) /\ EnterBlock(ts, a)
  <2>1. NextBlock(ts, ts, a, spsr) /\ a \in E BY <1>3, <1>7 DEF NextBlock
  <2> QED BY <1>1, <1>4, <1>5, <2>1, NextAdvances
<1>8. CASE a \in UserAddr /\ NoInterrupt(spsr) /\ EnterUserMode(a)
  <2>1. ts' = ts /\ pc' = a /\ lr' = lr BY <1>8 DEF EnterUserMode, NoInterrupt
  <2>2. lr' \in Addr => lr' \in E \cup UserAddr BY <2>1 DEF FaithfulInv
  <2> QED BY <1>1, <1>5, <1>8, <2>1, <2>2, SoundStep DEF Ready
<1> QED BY <1>2, <1>6, <1>7, <1>8

(* A step that leaves the store and guest memory alone.                    *)
LEMMA SameAdvances ==
  ASSUME NEW M, NEW E, Behaves(M, E), FaithfulInv(M, E), PoolInv', ts' = ts, mem' = mem,
         lr' = lr, mode' = "user" => pc' \in UserAddr
  PROVE  Advances(M, E)
<1>1. lr' \in Addr => lr' \in E \cup UserAddr BY DEF FaithfulInv
<1> QED BY <1>1, SameReady, InvSound, SoundStep DEF Ready

LEMMA DieAdvances ==
  ASSUME NEW M, NEW E, Behaves(M, E), FaithfulInv(M, E), PoolInv', NEW how, Die(how)
  PROVE  Advances(M, E)
<1>1. ts' = ts /\ mem' = mem /\ lr' = lr /\ mode' = mode /\ pc' = pc BY DEF Die, guest
<1> QED BY <1>1, SameAdvances DEF FaithfulInv

LEMMA HypercallAdvances ==
  ASSUME NEW M, NEW E, Behaves(M, E), FaithfulInv(M, E), PoolInv', Hypercall
  PROVE  Advances(M, E)
<1>1. CASE BadHypercall
  <2>1. Die("nullHandler") \/ Die("svcHandler") BY <1>1 DEF BadHypercall
  <2> QED BY <2>1, DieAdvances
<1> QED BY <1>1, BranchAdvances, EmulateAdvances, DisableMMUAdvances, StoreHypercallAdvances,
           ReturnAdvances DEF Hypercall

(* Words that do not trap.                                                 *)
LEMMA StepAdvances ==
  ASSUME NEW M, NEW E, Behaves(M, E), FaithfulInv(M, E), PoolInv',
         FallThrough \/ JumpToBlock \/ UserStep
  PROVE  Advances(M, E)
<1>1. /\ ts' = ts /\ mem' = mem /\ lr' = lr /\ mode' = mode
      /\ mode = "user" => pc' \in UserAddr
  BY DEF FallThrough, JumpToBlock, UserStep, Stay, guest, Priv
<1> QED BY <1>1, SameAdvances

(* Clearing keeps a store sound.                                           *)
LEMMA ClearAddressSound ==
  ASSUME NEW M, NEW E, Behaves(M, E), NEW m \in M, NEW t, Sound(t, m, E), Counted(t, m),
         NEW a \in Int
  PROVE  LET u == ClearAddress(t, a)
         IN /\ Sound(u, m, E) /\ Counted(u, m) /\ u.free = t.free
            /\ NoCodeAt(u, a) /\ \A x : NoCodeAt(t, x) => NoCodeAt(u, x)
<1> DEFINE u == ClearAddress(t, a)
<1>1. m \in Image /\ E \subseteq Addr BY DEF Behaves, Images, Starts
<1>2. ClearedFrom(u, t, m, E) /\ NoCodeAt(u, a)
  BY <1>1, ClearAddressFaithful DEF Sound
<1>3. u \in StoreType /\ WellFormed(u, m)
  BY <1>1, ClearAddressKeeps DEF Sound, Cleared
<1>4. Emptied(u) BY <1>1, ClearingEmptied DEF Sound
<1> HIDE DEF u
<1>5. \A x : NoCodeAt(t, x) => NoCodeAt(u, x)
  BY <1>2 DEF ClearedFrom, NoCodeAt, SamePlace
<1> QED BY <1>2, <1>3, <1>4, <1>5 DEF ClearedFrom, Sound, u

LEMMA StoreAdvances ==
  ASSUME NEW M, NEW E, Behaves(M, E), FaithfulInv(M, E), Counted(ts, mem), PoolInv', Store
  PROVE  Advances(M, E)
<1>1. AtMemoryAccess /\ pc' = pc + 1 /\ lr' = lr /\ mode' = mode
  BY DEF Store, Stay
<1>2. PICK s \in Stores :
        mem' = Written(mem, s) /\ ts' = IF Faults(s) THEN ClearStored(ts, s) ELSE ts
  BY DEF Store
<1>3. /\ Sound(ts, mem, E) /\ mem \in M /\ mem \in Image /\ M \subseteq Image /\ E \subseteq Addr
      /\ PoolInv
  BY InvSound
<1>4. mem' \in M /\ mem' \in Image BY <1>2, <1>3 DEF Behaves, Images
<1>5. s.addr \in Int /\ (s.words = 1 \/ (s.words = 2 /\ s.each))
  BY GuestAssumption, SizesAssumption DEF StoreOp, Addr, Behaves, StoresClear
<1>6. \A x \in s.addr .. s.addr + s.words - 1 : x = s.addr \/ (s.words = 2 /\ x = s.addr + 1)
  BY <1>5
<1>7. /\ Sound(ts', mem, E) /\ Counted(ts', mem) /\ ts'.free = ts.free
      /\ \A x \in s.addr .. s.addr + s.words - 1 : NoCodeAt(ts', x)
  <2>1. CASE ~ Faults(s)
    <3>1. ts' = ts BY <1>2, <2>1
    <3>2. \A x \in s.addr .. s.addr + s.words - 1 : NoCodeAt(ts, x)
      BY <1>3, <2>1 DEF Faults, NoCodeAt, Sound, Faithful, FaithfulBlock, Guarded
    <3> QED BY <1>3, <3>1, <3>2
  <2>2. CASE Faults(s)
    <3> DEFINE once == ClearAddress(ts, s.addr)
               twice == ClearAddress(once, s.addr + 1)
    <3>1. /\ Sound(once, mem, E) /\ Counted(once, mem) /\ once.free = ts.free
          /\ NoCodeAt(once, s.addr)
      BY <1>3, <1>5, ClearAddressSound
    <3> HIDE DEF once
    <3>2. /\ Sound(twice, mem, E) /\ Counted(twice, mem) /\ twice.free = once.free
          /\ NoCodeAt(twice, s.addr + 1) /\ NoCodeAt(twice, s.addr)
      BY <1>3, <1>5, <3>1, ClearAddressSound
    <3> HIDE DEF twice
    <3>3. ts' = IF s.each /\ s.words = 2 THEN twice ELSE once
      BY <1>2, <2>2 DEF ClearStored, once, twice
    <3> QED BY <1>5, <1>6, <3>1, <3>2, <3>3
  <2> QED BY <2>1, <2>2
<1>8. \A x \in Addr : mem'[x] = mem[x] \/ NoCodeAt(ts', x)
  BY <1>2, <1>7 DEF Written
<1>9. WellFormed(ts', mem') BY DEF PoolInv
<1>10. Ready(ts', M, E)
  <2>1. \A F : Fills(M, E, F) /\ Room(ts, mem, F) => Room(ts', mem, F) BY <1>7 DEF Room
  <2> QED BY <1>3, <1>4, <1>7, <1>8, <1>9, <2>1, ChangeReady
<1>11. mode' = "user" => pc' \in UserAddr
  BY <1>1, <1>3 DEF AtMemoryAccess, Behaves, Starts, FaithfulInv
<1>12. lr' \in Addr => lr' \in E \cup UserAddr BY <1>1 DEF FaithfulInv
<1> QED BY <1>4, <1>10, <1>11, <1>12, SoundStep DEF Ready

LEMMA EditPageTableAdvances ==
  ASSUME NEW M, NEW E, Behaves(M, E), FaithfulInv(M, E), Counted(ts, mem), PoolInv', EditPageTable
  PROVE  Advances(M, E)
<1>1. mode = "priv" /\ pc' = pc + 1 /\ lr' = lr /\ mode' = mode
  BY DEF EditPageTable, Stay
<1>2. PICK r \in Remaps :
        /\ mem' = [a \in Addr |-> IF a \in Range(r) THEN r.image ELSE mem[a]]
        /\ ts' = [ClearRange(ts, r.first, r.last)
                    EXCEPT !.wprot = @ \ {Page(a) : a \in Range(r)}]
  BY DEF EditPageTable
<1>3. /\ Sound(ts, mem, E) /\ mem \in M /\ mem \in Image /\ M \subseteq Image /\ E \subseteq Addr
      /\ PoolInv /\ RemapsWhole /\ OnePageEach(M, E)
  BY InvSound
<1>4. mem' = Remapped(mem, r) BY <1>2 DEF Remapped
<1>5. mem' \in M /\ mem' \in Image BY <1>3, <1>4 DEF Behaves, Images
<1> DEFINE t == ClearRange(ts, r.first, r.last)
           pages == t.wprot \ {Page(a) : a \in Range(r)}
<1>6. ClearedFrom(t, ts, mem, E) /\ \A x \in Range(r) : NoCodeAt(t, x)
  BY <1>3, ClearRangeFaithful DEF Sound
<1>7. t \in StoreType /\ WellFormed(t, mem)
  BY <1>3, ClearRangeKeeps DEF Sound, Cleared
<1>8. Emptied(t) BY <1>3, ClearingEmptied DEF Sound
<1>9. ts' = [t EXCEPT !.wprot = pages] BY <1>2
<1> HIDE DEF t
<1>10. pages \in SUBSET Nat BY <1>7 DEF StoreType
<1>11. /\ ts' \in StoreType /\ ts'.blocks = t.blocks /\ WellFormed(ts', mem)
       /\ Live(ts') = Live(t)
  BY <1>7, <1>9, <1>10, UnprotectKeeps
<1>12. ts'.code = t.code /\ ts'.exec = t.exec /\ ts'.wprot = pages /\ ts'.free = t.free
  BY <1>7, <1>9 DEF StoreType
<1>13. Faithful(ts', mem, E) /\ Counted(ts', mem)
  BY <1>3, <1>6, <1>7, <1>11, <1>12, UnprotectFaithful DEF ClearedFrom
<1>14. Emptied(ts') BY <1>8, <1>11 DEF Emptied
<1>15. \A x \in Range(r) : NoCodeAt(ts', x) BY <1>6, <1>11 DEF NoCodeAt
<1>16. \A x \in Addr : mem'[x] = mem[x] \/ NoCodeAt(ts', x)
  BY <1>4, <1>15 DEF Remapped
<1>17. WellFormed(ts', mem') BY DEF PoolInv
<1>18. Ready(ts', M, E)
  <2>1. \A F : Fills(M, E, F) /\ Room(ts, mem, F) => Room(ts', mem, F)
    BY <1>6, <1>12, <1>13 DEF Room, ClearedFrom
  <2>2. Sound(ts', mem, E) BY <1>11, <1>13, <1>14 DEF Sound
  <2> QED BY <1>3, <1>5, <1>16, <1>17, <2>1, <2>2, ChangeReady
<1>19. lr' \in Addr => lr' \in E \cup UserAddr BY <1>1 DEF FaithfulInv
<1> QED BY <1>1, <1>5, <1>18, <1>19, SoundStep DEF Ready

LEMMA AcknowledgeAdvances ==
  ASSUME NEW M, NEW E, Behaves(M, E), FaithfulInv(M, E), PoolInv', Acknowledge
  PROVE  Advances(M, E)
<1>1. ts' = ts /\ mem' = mem /\ lr' = lr /\ mode' = "priv"
  BY DEF Acknowledge, Stay
<1> QED BY <1>1, SameAdvances

-----------------------------------------------------------------------------
(* Aborts, service calls and interrupts.                                   *)

(* hostpcToGuestpc and irq() unlink a live block, or none.                 *)
LEMMA OwnerSound ==
  ASSUME NEW M, NEW E, Behaves(M, E), FaithfulInv(M, E), Counted(ts, mem), mode = "priv"
  PROVE  LET u == UnlinkOwner(ts, entry, pc)
         IN Sound(u, mem, E) /\ Counted(u, mem) /\ u.free = ts.free
<1> DEFINE u == UnlinkOwner(ts, entry, pc)
<1>1. Sound(ts, mem, E) /\ mem \in Image /\ E \subseteq Addr /\ PoolInv BY InvSound
<1>2. CASE ts.blocks[entry].type = "GB"
  <2>1. u = Unlink(ts, {FindIndex(ts, pc)}) BY <1>2 DEF UnlinkOwner
  <2>2. Groups(ts) # {} BY <1>1, <1>2 DEF Groups, PoolInv, TypeOK
  <2>3. PICK s \in Live(ts) : pc \in Body(ts.blocks[s])
    BY <1>1, <2>2, LocatedUnfold DEF PoolInv, LocatedAt, Abandoned
  <2>4. FindIndex(ts, pc) = s BY <1>1, <2>3, FindIndexFacts DEF Sound
  <2>5. {s} \in SUBSET Live(ts) OBVIOUS
  <2>6. u = Unlink(ts, {s}) BY <2>1, <2>4
  <2> HIDE DEF u
  <2>7. Faithful(u, mem, E) /\ Counted(u, mem) /\ u.free = ts.free
    BY <1>1, <2>5, <2>6, UnlinkFaithful DEF Sound
  <2>8. u \in StoreType /\ WellFormed(u, mem) /\ Emptied(u)
    BY <1>1, <2>5, <2>6, UnlinkKeeps, UnlinkEmptied DEF Sound
  <2> QED BY <2>7, <2>8 DEF Sound, u
<1>3. CASE ts.blocks[entry].type # "GB"
  <2>1. u = ts BY <1>3 DEF UnlinkOwner
  <2> QED BY <1>1, <2>1
<1> QED BY <1>2, <1>3

(* A host address that is mapped back is mapped to an address of a block.  *)
LEMMA GuestPCInBlock ==
  ASSUME NEW M, NEW E, Behaves(M, E), FaithfulInv(M, E), mode = "priv",
         "translation" \in Aborts, GuestPC(ts, mem, entry, pc) # Null
  PROVE  GuestPC(ts, mem, entry, pc) \in E
<1> DEFINE q == OwnerOf(ts, entry, pc)
           b == ts.blocks[q]
           a == GuestPC(ts, mem, entry, pc)
<1>1. /\ Sound(ts, mem, E) /\ mem \in M /\ mem \in Image /\ E \subseteq Addr /\ PoolInv
      /\ pc \in Host /\ pc \in Nat
  BY InvSound, SizesAssumption DEF PoolInv, TypeOK, Host
<1>2. q \in Slot BY <1>1, OwnerUnlinked
<1>3. a = IF pc = b.cstart THEN b.gstart ELSE Rescan(mem, b, pc) BY DEF GuestPC
<1> HIDE DEF q, a
<1>4. CASE q \notin Live(ts)
  <2>1. b.cstart = Null /\ b.type = "INVALID" BY <1>1, <1>2, <1>4 DEF Sound, Emptied, Live
  <2>2. pc # b.cstart BY <1>1, <2>1 DEF Null
  <2>3. Rescan(mem, b, pc) = Null BY <2>1 DEF Rescan
  <2> QED BY <1>3, <2>2, <2>3 DEF a
<1>5. CASE q \in Live(ts)
  <2>1. b.gstart \in E /\ b.cstart \in Nat
    BY <1>1, <1>5, BlockWords DEF Sound, Faithful
  <2>2. PICK g \in E : g = b.gstart BY <2>1
  <2>3. g .. BlockEnd(mem, g) - 1 \subseteq E BY <1>1 DEF Behaves, Starts
  <2>4. g \in Int BY <1>1, SizesAssumption DEF Addr
  <2>5. CASE pc = b.cstart BY <1>3, <2>1, <2>5 DEF a
  <2>6. CASE pc # b.cstart
    <3> DEFINE offset == IF pc < b.cstart THEN 0 ELSE pc - b.cstart
    <3>1. a = IF b.type # "INVALID" /\ g + offset < BlockEnd(mem, g) THEN g + offset ELSE Null
      BY <1>3, <2>2, <2>6 DEF Rescan
    <3>2. offset \in Nat BY <1>1, <2>1
    <3>3. a # Null BY DEF a
    <3>4. BlockEnd(mem, g) \in Int BY <1>1, BlockEndFacts, SizesAssumption DEF Addr
    <3> HIDE DEF offset
    <3>5. a = g + offset /\ g + offset < BlockEnd(mem, g) BY <3>1, <3>3
    <3>6. a \in g .. BlockEnd(mem, g) - 1 BY <2>4, <3>2, <3>4, <3>5
    <3> QED BY <2>3, <3>6 DEF a
  <2> QED BY <2>5, <2>6
<1> QED BY <1>4, <1>5

(* An exception is delivered from a store that is sound and counted.       *)
LEMMA ExceptionAdvances ==
  ASSUME NEW M, NEW E, Behaves(M, E), FaithfulInv(M, E), PoolInv', mem' = mem,
         NEW t, Sound(t, mem, E), Counted(ts, mem) => Counted(t, mem) /\ t.free = ts.free,
         NEW vector \in E, EnterBlock(t, vector), lr' \in Addr => lr' \in E \cup UserAddr
  PROVE  Advances(M, E)
<1>1. Ready(ts, M, E) /\ mem' \in M BY SameReady, InvSound
<1>2. Ready(t, M, E) BY DEF Ready, Room
<1> QED BY <1>1, <1>2, EnterAdvances DEF FaithfulInv

LEMMA TranslationFaultAdvances ==
  ASSUME NEW M, NEW E, Behaves(M, E), FaithfulInv(M, E), Counted(ts, mem), PoolInv',
         TranslationFault
  PROVE  Advances(M, E)
<1>1. AbtVector \in E /\ Sound(ts, mem, E) /\ mode \in {"priv", "user"}
  BY InvSound DEF Behaves, Starts
<1>2. CASE mode = "user"
  <2>1. DeliverDataAbort(ts, pc) BY <1>2 DEF TranslationFault
  <2>2. EnterBlock(ts, AbtVector) /\ mem' = mem /\ lr' = pc BY <2>1 DEF DeliverDataAbort
  <2>3. lr' \in UserAddr BY <1>2, <2>2 DEF FaithfulInv
  <2> QED BY <1>1, <2>2, <2>3, ExceptionAdvances
<1>3. CASE mode = "priv"
  <2> DEFINE a == GuestPC(ts, mem, entry, pc)
             u == UnlinkOwner(ts, entry, pc)
  <2>1. CASE a = Null
    <3>1. Die("rescanDied") BY <1>3, <2>1 DEF TranslationFault
    <3> QED BY <3>1, DieAdvances
  <2>2. CASE a # Null
    <3>1. DeliverDataAbort(u, a) /\ "translation" \in Aborts BY <1>3, <2>2 DEF TranslationFault
    <3>2. a \in E BY <1>3, <2>2, <3>1, GuestPCInBlock
    <3>3. Sound(u, mem, E) /\ Counted(u, mem) /\ u.free = ts.free BY <1>3, OwnerSound
    <3> HIDE DEF a, u
    <3>4. EnterBlock(u, AbtVector) /\ mem' = mem /\ lr' = a BY <3>1 DEF DeliverDataAbort
    <3> QED BY <1>1, <3>2, <3>3, <3>4, ExceptionAdvances
  <2> QED BY <2>1, <2>2
<1> QED BY <1>1, <1>2, <1>3

LEMMA PermissionFaultAdvances ==
  ASSUME NEW M, NEW E, Behaves(M, E), FaithfulInv(M, E), PoolInv', PermissionFault
  PROVE  Advances(M, E)
<1>1. AbtVector \in E /\ Sound(ts, mem, E) /\ mode \in {"priv", "user"} /\ PoolInv
  BY InvSound DEF Behaves, Starts
<1>2. /\ EnterBlock(ts, AbtVector) /\ mem' = mem
      /\ lr' = IF mode = "user" THEN pc ELSE HostAddress(pc)
  BY DEF PermissionFault, DeliverDataAbort
<1>3. lr' \in Addr => lr' \in UserAddr
  <2>1. CASE mode = "user" BY <1>2, <2>1 DEF FaithfulInv
  <2>2. CASE mode = "priv"
    <3>1. pc \in Nat BY <1>1, <2>2, SizesAssumption DEF PoolInv, TypeOK, Host
    <3> QED BY <1>2, <2>2, <3>1, SizesAssumption DEF HostAddress, Addr
  <2> QED BY <1>1, <2>1, <2>2
<1> QED BY <1>1, <1>2, <1>3, ExceptionAdvances

LEMMA ServiceCallAdvances ==
  ASSUME NEW M, NEW E, Behaves(M, E), FaithfulInv(M, E), PoolInv', ServiceCall
  PROVE  Advances(M, E)
<1>1. SvcVector \in E /\ Sound(ts, mem, E) /\ mem \in M
  BY InvSound DEF Behaves, Starts
<1>2. /\ EnterBlock(ts, SvcVector) /\ mem' = mem /\ lr' = pc + 1
      /\ mode = "user" /\ Decode[mem[pc]].op = "svc"
  BY DEF ServiceCall
<1>3. lr' \in E \cup UserAddr BY <1>1, <1>2 DEF Behaves, Starts, FaithfulInv
<1> QED BY <1>1, <1>2, <1>3, ExceptionAdvances

LEMMA InterruptAdvances ==
  ASSUME NEW M, NEW E, Behaves(M, E), FaithfulInv(M, E), Counted(ts, mem), PoolInv',
         TimerIrq \/ UartIrq
  PROVE  Advances(M, E)
<1>1. CASE UartIrq
  <2>1. ts' = ts /\ mem' = mem /\ lr' = lr /\ mode' = mode /\ pc' = pc
    BY <1>1 DEF UartIrq, ThrowInterrupt, Stay
  <2> QED BY <2>1, SameAdvances DEF FaithfulInv
<1>2. CASE TimerIrq /\ InGroup /\ mode = "user"
  <2>1. Die("irqScanOutsideStore") BY <1>2 DEF TimerIrq
  <2> QED BY <2>1, DieAdvances
<1>3. CASE TimerIrq /\ ~ (InGroup /\ mode = "user")
  <2>1. /\ ts' = UnlinkOwner(ts, entry, pc)
        /\ mem' = mem /\ lr' = lr /\ mode' = mode /\ pc' = pc
    BY <1>3 DEF TimerIrq, ThrowInterrupt, Stay
  <2>2. CASE mode = "user"
    <3>1. ts' = ts BY <1>3, <2>1, <2>2 DEF UnlinkOwner, InGroup
    <3> QED BY <2>1, <3>1, SameAdvances DEF FaithfulInv
  <2>3. CASE mode = "priv"
    <3>1. Sound(ts', mem, E) /\ Counted(ts', mem) /\ ts'.free = ts.free
      BY <2>1, <2>3, OwnerSound
    <3>2. \A F : Fills(M, E, F) /\ Room(ts, mem, F) => Room(ts', mem', F)
      BY <2>1, <3>1 DEF Room
    <3>3. mem' \in M /\ Sound(ts', mem', E) BY <2>1, <3>1, InvSound
    <3>4. (lr' \in Addr => lr' \in E \cup UserAddr) /\ (mode' = "user" => pc' \in UserAddr)
      BY <2>1 DEF FaithfulInv
    <3> QED BY <3>2, <3>3, <3>4, SoundStep
  <2> QED BY <2>2, <2>3, InvSound
<1> QED BY <1>1, <1>2, <1>3

-----------------------------------------------------------------------------
(* Every step keeps the store faithful, as long as the count of hypercalls *)
(* is right.                                                               *)
LEMMA NextAdvancesAll ==
  ASSUME NEW M, NEW E, Behaves(M, E), FaithfulInv(M, E), Counted(ts, mem), [Next]_vars
  PROVE  Advances(M, E)
<1>1. PoolInv BY DEF FaithfulInv
<1>2. PoolInv'
  <2>1. ASSUME GuestStep PROVE PoolInv'
    BY <1>1, <2>1, HypercallKeeps, FallThroughKeeps, JumpToBlockKeeps, UserStepKeeps, StoreKeeps,
       EditPageTableKeeps, AcknowledgeKeeps, TranslationFaultKeeps, PermissionFaultKeeps,
       ServiceCallKeeps DEF GuestStep
  <2> QED  BY <1>1, <2>1, TimerIrqKeeps, UartIrqKeeps, StutterKeeps DEF Next
<1>3. ASSUME GuestStep PROVE Advances(M, E)
  BY <1>2, <1>3, HypercallAdvances, StepAdvances, StoreAdvances, EditPageTableAdvances,
     AcknowledgeAdvances, TranslationFaultAdvances, PermissionFaultAdvances, ServiceCallAdvances
     DEF GuestStep
<1>4. ASSUME UNCHANGED vars PROVE Advances(M, E)
  <2>1. ts' = ts /\ mem' = mem /\ lr' = lr /\ mode' = mode /\ pc' = pc BY <1>4 DEF vars
  <2> QED BY <1>2, <2>1, SameAdvances DEF FaithfulInv
<1> QED BY <1>2, <1>3, <1>4, InterruptAdvances DEF Next

(* The loader begins with a faithful store of one block.                   *)
LEMMA InitFaithful ==
  ASSUME NEW M, NEW E, Behaves(M, E), Init
  PROVE  /\ FaithfulInv(M, E)
         /\ \A F : Fills(M, E, F) => Room(ts, mem, F)
<1> DEFINE s == Hash(EntryPoint)
           t == FillSlot(EmptyStore, Program, EntryPoint, s)
           n == BlockLength(Program, EntryPoint)
<1>1. /\ M \subseteq Image /\ E \subseteq Addr /\ OnePageEach(M, E) /\ Program \in M
      /\ EntryPoint \in E /\ EntryPoint \in Addr /\ Program \in Image /\ EntryPoint \in Int
  <2>1. EntryPoint \in Addr /\ Program \in Image /\ EntryPoint \in Int
    BY GuestAssumption, SizesAssumption DEF Addr
  <2> QED BY <2>1 DEF Behaves, Images, Starts
<1>2. s \in Slot BY <1>1, SizesAssumption DEF Hash, Slot, Addr
<1>3. EmptyStore \in StoreType /\ Live(EmptyStore) = {} /\ WellFormed(EmptyStore, Program)
  BY EmptyStoreKeeps, NoBlocksWellFormed
<1>4. mem = Program /\ ts = t /\ lr = EntryPoint /\ mode = "priv"
  BY DEF Init, Booted
<1>5. Faithful(EmptyStore, Program, E) /\ Counted(EmptyStore, Program)
  BY <1>3 DEF Faithful, Counted
<1>6. Emptied(EmptyStore) BY DEF Emptied, EmptyStore, NullBlock
<1> HIDE DEF s
<1>7. Faithful(t, Program, E) /\ Emptied(t)
  BY <1>1, <1>2, <1>3, <1>5, <1>6, FillFaithful, FillEmptied
<1>8. ASSUME NEW F, Fills(M, E, F) PROVE Room(t, Program, F)
  <2>1. n \in Nat /\ n < PoolSize /\ EmptyStore.free = 0
    BY <1>1, BlockLengthFacts, SizesAssumption DEF EmptyStore
  <2>2. n \in F
    <3>1. 0 + n < PoolSize => 0 + n \in F BY <1>1, <1>8 DEF Fills
    <3> HIDE DEF n
    <3> QED BY <2>1, <3>1
  <2>3. Start(EmptyStore, Program, EntryPoint) = 0 BY <2>1 DEF Start
  <2>4. t.free = Start(EmptyStore, Program, EntryPoint) + n
    BY <1>1, <1>2, <1>3, FillSlotBlocks
  <2> HIDE DEF t
  <2>5. t.free = n BY <2>1, <2>3, <2>4
  <2>6. EmptyStore.free + n # PoolSize BY <2>1
  <2>7. Counted(t, Program)
    BY <1>1, <1>2, <1>3, <1>5, <2>6, FillCounted DEF t
  <2> QED BY <2>2, <2>5, <2>7 DEF Room
<1>9. PoolInv BY InitKeeps
<1> QED BY <1>1, <1>4, <1>7, <1>8, <1>9 DEF FaithfulInv

-----------------------------------------------------------------------------
(* Theorems.                                                               *)

LEMMA CountedIsKept == HypercallCountKept <=> Counted(ts, mem)
BY DEF HypercallCountKept, Counted

(* oneHypercall tells unlinkBlock the number of hypercalls of every live   *)
(* block, whatever was filled, linked, unlinked and cleared before, when   *)
(* no block of one hypercall ends with the pool: then alone does           *)
(* addInstructionToBlock lose it.                                          *)
THEOREM HypercallsAreCounted ==
  ASSUME NEW M, NEW E, NEW F, Behaves(M, E), Fills(M, E, F)
  PROVE  Spec => []HypercallCountKept
<1> DEFINE Inv == FaithfulInv(M, E) /\ Room(ts, mem, F)
<1>1. Init => Inv BY InitFaithful
<1>2. Inv /\ [Next]_vars => Inv'
  <2> SUFFICES ASSUME Inv, [Next]_vars PROVE Inv' OBVIOUS
  <2>1. Advances(M, E) BY NextAdvancesAll DEF Room
  <2> QED BY <2>1 DEF Advances
<1>3. Inv => HypercallCountKept BY CountedIsKept DEF Room
<1> HIDE DEF Inv
<1> QED BY <1>1, <1>2, <1>3, PTL DEF Spec

LEMMA FaithfulInvariant ==
  ASSUME NEW M, NEW E, Behaves(M, E)
  PROVE  Spec /\ []HypercallCountKept => []FaithfulInv(M, E)
<1> DEFINE Inv == FaithfulInv(M, E)
<1>1. Init => Inv BY InitFaithful
<1>2. Inv /\ HypercallCountKept /\ [Next]_vars => Inv'
  <2> SUFFICES ASSUME Inv, HypercallCountKept, [Next]_vars PROVE Inv' OBVIOUS
  <2>1. Advances(M, E) BY CountedIsKept, NextAdvancesAll
  <2> QED BY <2>1 DEF Advances
<1> HIDE DEF Inv
<1>3. Spec /\ []HypercallCountKept => []Inv BY <1>1, <1>2, PTL DEF Spec
<1> QED BY <1>3 DEF Inv

LEMMA FaithfulImplies ==
  ASSUME NEW M, NEW E, Behaves(M, E), FaithfulInv(M, E)
  PROVE  BlockFaithful /\ CodeIsGuarded /\ RangeNeverCached
<1>1. Faithful(ts, mem, E) BY DEF FaithfulInv
<1>2. BlockFaithful
  <2> SUFFICES ASSUME NEW s \in Live(ts)
               PROVE  LET b == ts.blocks[s] IN
                      /\ b.gend = BlockEnd(mem, b.gstart) /\ b.csize = BlockLength(mem, b.gstart)
                      /\ b.handler = Decode[mem[b.gend]].op
                      /\ \A k \in 0 .. b.csize - 1 :
                           LET w == BlockWord(mem, b.gstart, s, k)
                               v == ts.code[b.cstart + k]
                           IN v = w \/ (w.kind = "svc" /\ LinkedTo(b, w, v))
    BY DEF BlockFaithful
  <2>1. FaithfulBlock(ts, mem, s) BY <1>1 DEF Faithful
  <2>2. \A w, v : LinkOf(ts, mem, ts.blocks[s], w, v) => LinkedTo(ts.blocks[s], w, v)
    BY DEF LinkOf, LinkedTo, Goal, Successor
  <2> QED BY <2>1, <2>2 DEF FaithfulBlock, SameShape, FaithfulWord
<1>3. CodeIsGuarded
  BY <1>1 DEF CodeIsGuarded, Faithful, FaithfulBlock, Guarded
<1>4. RangeNeverCached
  <2> SUFFICES ASSUME NEW r \in Remaps, ~ ExecBit(ts, r.first), ~ ExecBit(ts, r.last),
                      NEW s \in Live(ts)
               PROVE  Range(r) \cap ts.blocks[s].gstart .. ts.blocks[s].gend = {}
    BY DEF RangeNeverCached
  <2>1. \A x \in Range(r) : NoCodeAt(ts, x) BY <1>1, RangeCached DEF Behaves
  <2> QED BY <2>1 DEF NoCodeAt
<1> QED BY <1>2, <1>3, <1>4

(* The code cache holds what guest memory holds: whatever stores, edits of *)
(* page tables, switches of the MMU, links, unlinks, aborts, interrupts    *)
(* and wraps of the pool came before, a live block is the translation of   *)
(* its guest instructions, and a patched hypercall goes where they go.     *)
THEOREM TranslationsAreFaithful ==
  ASSUME NEW M, NEW E, Behaves(M, E)
  PROVE  Spec /\ []HypercallCountKept => []BlockFaithful
<1>1. FaithfulInv(M, E) => BlockFaithful BY FaithfulImplies
<1> QED BY <1>1, FaithfulInvariant, PTL

(* A store to a word that a live block translates always traps and finds   *)
(* the execution bit that makes the handler clear the block.               *)
THEOREM TranslatedCodeIsGuarded ==
  ASSUME NEW M, NEW E, Behaves(M, E)
  PROVE  Spec /\ []HypercallCountKept => []CodeIsGuarded
<1>1. FaithfulInv(M, E) => CodeIsGuarded BY FaithfulImplies
<1> QED BY <1>1, FaithfulInvariant, PTL

(* When clearTranslationsByAddressRange clears nothing, from the bits of   *)
(* the first and the last page, there is nothing of the range to clear.    *)
THEOREM UntranslatedRangesAreSkipped ==
  ASSUME NEW M, NEW E, Behaves(M, E)
  PROVE  Spec /\ []HypercallCountKept => []RangeNeverCached
<1>1. FaithfulInv(M, E) => RangeNeverCached BY FaithfulImplies
<1> QED BY <1>1, FaithfulInvariant, PTL

-----------------------------------------------------------------------------
(* Where the guest is.                                                     *)

AtAccess(m, x) == Decode[m[x]].op = "mem"

(* Code that loads or stores does not write or remap the block it is in.   *)
KeepsOffItself(M, E) ==
  \A m \in M, a \in E : (\E x \in Extent(m, a) : AtAccess(m, x)) =>
    /\ \A s \in Stores : Extent(m, a) \cap s.addr .. s.addr + s.words - 1 = {}
    /\ \A r \in Remaps : Extent(m, a) \cap Range(r) = {}

(* No access of a block may abort behind one that clears translations.     *)
AbortsFirst(M, E) ==
  "translation" \in Aborts =>
    \/ Stores = {} /\ Remaps = {}
    \/ \A m \in M, a \in E : \A x, y \in Extent(m, a) :
         AtAccess(m, x) /\ AtAccess(m, y) => x = y

Orderly(M, E) == KeepsOffItself(M, E) /\ AbortsFirst(M, E) /\ "permission" \notin Aborts

(* The guest address of the word h of block b.                             *)
AddressIn(b, h) ==
  IF b.gstart + h - b.cstart < b.gend THEN b.gstart + h - b.cstart ELSE b.gend

GuestAt(t, way, h) ==
  LET S == {s \in Live(t) : h \in Body(t.blocks[s])}
  IN IF way = "user" THEN h
     ELSE IF S = {} THEN Null
     ELSE AddressIn(t.blocks[CHOOSE s \in S : TRUE], h)

NoAccessFrom(m, b, h) == \A x \in b.gstart + h - b.cstart .. b.gend : ~ AtAccess(m, x)

(* The guest is in a live block.  As long as it may abort there, the block *)
(* is the one it was entered at, or that one is a group block.             *)
InBlock(t, m, s, e, h) ==
  /\ s \in Live(t) /\ h \in Body(t.blocks[s])
  /\ "translation" \in Aborts =>
       s = e \/ t.blocks[e].type = "GB" \/ NoAccessFrom(m, t.blocks[s], h)

Placed == Priv => \E s \in Live(ts) : InBlock(ts, mem, s, entry, pc)

LEMMA PlacedUnfold ==
  /\ GuestAddress = GuestAt(ts, mode, pc) /\ GuestAddress' = GuestAt(ts', mode', pc')
  /\ Placed' <=> (died' = "none" /\ mode' = "priv" =>
                     \E s \in Live(ts') : InBlock(ts', mem', s, entry', pc'))
BY DEF GuestAddress, GuestAt, Here, AddressIn, Placed, InBlock, NoAccessFrom, AtAccess, Live,
       Body, LastHypercall, Priv, Running

(* A word of a live block has one guest address.                           *)
LEMMA AddressOfWord ==
  ASSUME NEW t \in StoreType, NEW m, WellFormed(t, m), NEW s \in Live(t),
         NEW h \in Body(t.blocks[s])
  PROVE  GuestAt(t, "priv", h) = AddressIn(t.blocks[s], h)
<1> DEFINE S == {r \in Live(t) : h \in Body(t.blocks[r])}
<1>1. ASSUME NEW r \in S PROVE r = s
  <2>1. h \in Body(t.blocks[r]) /\ r \in Live(t) OBVIOUS
  <2>2. h \in t.blocks[s].cstart .. LastHypercall(t.blocks[s]) + 1 BY BlockWords DEF Body
  <2> QED BY <2>1, <2>2, BodiesApart
<1>2. s \in S OBVIOUS
<1>3. S # {} /\ (CHOOSE r \in S : TRUE) = s BY <1>1, <1>2
<1>4. GuestAt(t, "priv", h) = IF S = {} THEN Null ELSE AddressIn(t.blocks[CHOOSE r \in S : TRUE], h)
  BY DEF GuestAt
<1> HIDE DEF S
<1> QED BY <1>3, <1>4

(* What the words of a live block stand for.                               *)
StandsFor(t, m, E, s, h) ==
  LET b == t.blocks[s]
        v == t.code[h]
        x == AddressIn(b, h)
    IN /\ b.gstart \in E /\ b.gend = BlockEnd(m, b.gstart)
       /\ b.handler = Decode[m[b.gend]].op
       /\ x \in Extent(m, b.gstart) /\ v.kind \in {"copy", "svc", "b"}
       /\ v.kind = "copy" => /\ x = b.gstart + h - b.cstart /\ x < b.gend
                             /\ v.instr = m[x] /\ ~ Replaced(m[x])
                             /\ h + 1 \in Body(b) /\ AddressIn(b, h + 1) = x + 1
       /\ v.kind \in {"svc", "b"} => x = b.gend
       /\ v.kind \in {"svc", "b"} /\ v.cond =>
            h + 1 \in Body(b) /\ AddressIn(b, h + 1) = b.gend
       /\ v.kind = "svc" => v.arg = s
       /\ v.kind = "b" =>
            /\ b.type = "GB" /\ IsBranch(m[b.gend])
            /\ \E u \in Live(t) : /\ t.blocks[u].cstart = v.arg
                                  /\ t.blocks[u].gstart = Goal(m, b, v)

LEMMA WordAt ==
  ASSUME NEW m \in Image, NEW E, E \subseteq Addr, NEW t, Sound(t, m, E),
         NEW s \in Live(t), NEW h \in Body(t.blocks[s])
  PROVE  StandsFor(t, m, E, s, h)
<1> DEFINE b == t.blocks[s]
           v == t.code[h]
           a == b.gstart
           e == BlockEnd(m, a)
           n == BlockLength(m, a)
           k == h - b.cstart
           w == BlockWord(m, a, s, k)
           two == TwoHypercalls(m[e])
<1>1. /\ a \in E /\ b.gend = e /\ b.csize = n /\ b.handler = Decode[m[e]].op
      /\ \A j \in 0 .. n - 1 : FaithfulWord(t, m, s, j)
  BY DEF Sound, Faithful, FaithfulBlock, SameShape
<1>2. /\ b.cstart \in Nat /\ LastHypercall(b) = b.cstart + b.csize - 2 /\ b.csize \in Nat
      /\ v.kind \in {"copy", "svc", "b"} /\ (v.kind = "svc" => v.arg = s)
      /\ (v.kind = "b" => b.type = "GB")
      /\ Body(b) = b.cstart .. LastHypercall(b)
  BY BlockWords DEF Sound, Body
<1>3. /\ a \in Addr /\ a \in Nat /\ e \in Nat /\ a <= e
      /\ \A x \in a .. e - 1 : ~ Replaced(m[x])
  <2>1. a \in Addr BY <1>1
  <2> HIDE DEF a
  <2> QED BY <2>1, BlockEndFacts, SizesAssumption DEF Addr
<1>4. s \in Slot BY DEF Live
<1> HIDE DEF b, e, n
<1>5. /\ h \in b.cstart .. b.cstart + n - 2 /\ h \in Int /\ n \in Nat
  BY <1>1, <1>2 DEF b
<1>6. k \in 0 .. n - 1 /\ k \in 0 .. n - 2 /\ b.cstart + k = h BY <1>2, <1>5
<1>7. v = w \/ (w.kind = "svc" /\ LinkOf(t, m, b, w, v))
  BY <1>1, <1>6 DEF FaithfulWord, b, n
<1>8. /\ n = e - a + (IF two THEN 3 ELSE 2)
      /\ w.kind = "copy" <=> a + k < e
      /\ w.kind = "copy" => w = CopyWord(m[a + k])
      /\ w.kind = "svc" <=> k = n - 2 \/ (k = n - 3 /\ two)
      /\ k = n - 2 => w = SvcWord(s, FALSE)
      /\ k = n - 3 /\ two => w = SvcWord(s, TRUE)
      /\ w.kind # "b"
  <2>1. KindAt(m, a, s, k) BY <1>3, <1>4, <1>6, WordKinds DEF n
  <2> QED BY <2>1 DEF KindAt, e, n
<1> HIDE DEF k
<1>9. k \in Int /\ h = b.cstart + k /\ b.gstart + h - b.cstart = a + k
  <2>1. k \in Int /\ h = b.cstart + k BY <1>6
  <2>2. b.cstart \in Int /\ b.gstart \in Int BY <1>2, <1>3 DEF b
  <2> QED BY <2>1, <2>2 DEF b
<1>10. AddressIn(b, h) = IF a + k < e THEN a + k ELSE e
  BY <1>1, <1>9 DEF AddressIn, b
<1>11. AddressIn(b, h + 1) = IF a + k + 1 < e THEN a + k + 1 ELSE e
  <2>1. b.cstart \in Int /\ b.gstart \in Int /\ k \in Int /\ h = b.cstart + k
    BY <1>2, <1>3, <1>9 DEF b
  <2>2. b.gstart + (h + 1) - b.cstart = a + k + 1 BY <2>1
  <2> QED BY <1>1, <2>2 DEF AddressIn, b
<1>12. Body(b) = b.cstart .. b.cstart + n - 2 BY <1>1, <1>2 DEF b
<1> DEFINE x == AddressIn(b, h)
<1>13. CASE v.kind = "copy"
  <2>1. v = w BY <1>7, <1>13 DEF LinkOf
  <2>2. a + k < e /\ v = CopyWord(m[a + k]) BY <1>8, <1>13, <2>1
  <2>3. v.instr = m[a + k] BY <2>2 DEF CopyWord
  <2>4. x = a + k /\ AddressIn(b, h + 1) = a + k + 1 BY <1>3, <1>9, <1>10, <1>11, <2>2
  <2>5. h + 1 \in b.cstart .. b.cstart + n - 2
    <3>1. n >= e - a + 2 BY <1>3, <1>8
    <3>2. k + 1 <= n - 2 /\ k >= 0 BY <1>3, <1>5, <1>6, <1>9, <2>2, <3>1
    <3>3. b.cstart \in Int /\ h = b.cstart + k /\ k \in Int /\ n \in Int BY <1>2, <1>5, <1>9 DEF b
    <3> QED BY <3>2, <3>3
  <2>6. a + k \in a .. e - 1 BY <1>3, <1>6, <1>9, <2>2
  <2>7. ~ Replaced(m[a + k]) BY <1>3, <2>6
  <2>8. x \in Extent(m, a) BY <2>4, <2>6, <1>3 DEF Extent, e
  <2>9. x = b.gstart + h - b.cstart BY <1>9, <2>4
  <2> QED BY <1>1, <1>2, <1>12, <1>13, <2>2, <2>3, <2>4, <2>5, <2>7, <2>8, <2>9 DEF StandsFor, b, e
<1>14. CASE v.kind \in {"svc", "b"}
  <2>1. w.kind = "svc" /\ v.cond = w.cond BY <1>7, <1>8, <1>14 DEF LinkOf
  <2>2. k = n - 2 \/ (k = n - 3 /\ two) BY <1>8, <2>1
  <2>3. ~ a + k < e BY <1>3, <1>8, <2>2, <1>9
  <2>4. x = e BY <1>10, <2>3
  <2>5. x \in Extent(m, a) BY <1>3, <2>4 DEF Extent, e
  <2>6. ASSUME v.cond PROVE h + 1 \in Body(b) /\ AddressIn(b, h + 1) = e
    <3>1. k # n - 2
      <4> SUFFICES ASSUME k = n - 2 PROVE FALSE OBVIOUS
      <4>1. w = SvcWord(s, FALSE) BY <1>8
      <4>2. w.cond = FALSE BY <4>1 DEF SvcWord
      <4> QED BY <2>1, <2>6, <4>2
    <3>2. k = n - 3 BY <2>2, <3>1
    <3>3. h + 1 \in b.cstart .. b.cstart + n - 2 BY <1>2, <1>5, <1>9, <3>2 DEF b
    <3>4. ~ a + k + 1 < e BY <1>3, <1>9, <2>3
    <3> QED BY <1>11, <1>12, <3>3, <3>4
  <2>7. ASSUME v.kind = "b"
        PROVE  /\ IsBranch(m[e])
               /\ \E u \in Live(t) : t.blocks[u].cstart = v.arg /\ t.blocks[u].gstart = Goal(m, b, v)
    <3>1. LinkOf(t, m, b, w, v) BY <1>7, <1>8, <2>7
    <3>2. Goal(m, b, v) = Goal(m, b, w) BY <2>1 DEF Goal
    <3> QED BY <1>1, <3>1, <3>2 DEF LinkOf, b, e
  <2> QED BY <1>1, <1>2, <1>14, <2>4, <2>5, <2>6, <2>7 DEF StandsFor, b, e
<1> QED BY <1>2, <1>13, <1>14 DEF b

-----------------------------------------------------------------------------
(* The steps of block execution are those of the guest's machine.          *)

Follows == Placed' /\ (died' # "probeOverrun" => [Machine!Next]_(Machine!vars))

(* The slot a scan finds or fills holds the block of the address asked for. *)
LEMMA ScannedBlock ==
  ASSUME NEW t \in StoreType, NEW m \in Image, NEW a \in Addr, Probe(t, a) \in Slot
  PROVE  Scan(t, m, a).blocks[Probe(t, a)].gstart = a
<1>1. CASE Found(t, a) BY <1>1, ProbeFinds DEF Scan
<1>2. CASE ~ Found(t, a)
  <2> DEFINE s == Probe(t, a)
  <2>1. Scan(t, m, a) = FillSlot(t, m, a, s) /\ s \in Slot BY <1>2 DEF Scan
  <2> HIDE DEF s
  <2>2. FillSlot(t, m, a, s).blocks[s].gstart = a BY <2>1, FillSlotBlocks
  <2> QED BY <2>1, <2>2 DEF s
<1> QED BY <1>1, <1>2

(* A guest that enters the block of a is at a.                             *)
LEMMA EnterPlaced ==
  ASSUME NEW M, NEW E, Behaves(M, E), mem' \in M, NEW t, Sound(t, mem', E), NEW a \in E,
         EnterBlock(t, a)
  PROVE  Placed' /\ (died' # "probeOverrun" => GuestAddress' = a)
<1> DEFINE s == Probe(t, a)
           u == Scan(t, mem', a)
           b == u.blocks[s]
<1>1. CASE s \notin Slot
  <2>1. died' = "probeOverrun" BY <1>1 DEF EnterBlock
  <2> QED BY <2>1, PlacedUnfold
<1>2. CASE s \in Slot
  <2>1. ts' = u /\ entry' = s /\ pc' = b.cstart /\ mode' = "priv" BY <1>2 DEF EnterBlock
  <2>2. mem' \in Image /\ a \in Addr /\ t \in StoreType /\ WellFormed(t, mem')
    BY DEF Behaves, Images, Starts, Sound
  <2>3. u \in StoreType /\ WellFormed(u, mem') /\ s \in Live(u) /\ b.cstart \in Body(b)
    BY <1>2, <2>2, ScanKeeps
  <2>4. b.gstart = a BY <1>2, <2>2, ScannedBlock
  <2>5. Sound(u, mem', E) BY <1>2, ScanSound
  <2> HIDE DEF u, s
  <2>6. b.gend = BlockEnd(mem', a) /\ b.cstart \in Nat
    BY <2>3, <2>4, <2>5, BlockWords DEF Sound, Faithful, FaithfulBlock, SameShape
  <2>7. a \in Int /\ a <= b.gend /\ b.gend \in Int
    BY <2>2, <2>6, BlockEndFacts, SizesAssumption DEF Addr
  <2>8. AddressIn(b, b.cstart) = a BY <2>4, <2>6, <2>7 DEF AddressIn
  <2>9. GuestAt(u, "priv", b.cstart) = a BY <2>3, <2>8, AddressOfWord
  <2>10. InBlock(ts', mem', s, entry', pc') BY <2>1, <2>3 DEF InBlock
  <2> QED BY <2>1, <2>3, <2>9, <2>10, PlacedUnfold
<1> QED BY <1>1, <1>2

(* softwareInterrupt ends with the instruction done, or the interrupt taken. *)
LEMMA NextFollows ==
  ASSUME NEW M, NEW E, Behaves(M, E), mem' \in M, NEW t, Sound(t, mem', E),
         NEW linked, Sound(linked, mem', E), NEW next \in E, NEW i,
         NextBlock(t, linked, next, i)
  PROVE  Placed' /\ (died' # "probeOverrun" => Machine!Complete(next, i))
<1>1. CASE DeliverInterrupt(t, next, i)
  <2>1. /\ Pending(i) /\ ~ i /\ irqPending' = FALSE
        /\ lr' = next /\ spsr' = i /\ iBit' = TRUE /\ EnterBlock(t, IrqVector)
    BY <1>1 DEF DeliverInterrupt
  <2>2. IrqVector \in E BY DEF Behaves, Starts
  <2>3. Placed' /\ (died' # "probeOverrun" => GuestAddress' = IrqVector)
    BY <2>1, <2>2, EnterPlaced
  <2> QED BY <2>1, <2>3 DEF Machine!Complete, Pending
<1>2. CASE NoInterrupt(i) /\ EnterBlock(linked, next)
  <2>1. irqPending' = Pending(i) /\ iBit' = i /\ lr' = lr /\ spsr' = spsr
    BY <1>2 DEF NoInterrupt
  <2>2. Placed' /\ (died' # "probeOverrun" => GuestAddress' = next)
    BY <1>2, EnterPlaced
  <2> QED BY <2>1, <2>2 DEF Machine!Complete, Pending
<1> QED BY <1>1, <1>2 DEF NextBlock

(* A hypercall stands for the instruction that ends the block.             *)
LEMMA HypercallPlace ==
  ASSUME NEW M, NEW E, Behaves(M, E), FaithfulInv(M, E), NEW op, AtHypercall(op)
  PROVE  GuestAddress = This.gend /\ mem[GuestAddress] = EndInstr /\ Decode[EndInstr].op = op
<1>1. /\ mode = "priv" /\ Word0.kind = "svc" /\ Word0.arg \in Live(ts) /\ pc \in Body(This)
      /\ Decode[EndInstr].op = op
  BY HypercallGoal
<1>2. Sound(ts, mem, E) /\ mem \in Image /\ E \subseteq Addr BY InvSound
<1>3. AddressIn(ts.blocks[Word0.arg], pc) = ts.blocks[Word0.arg].gend
  <2>1. StandsFor(ts, mem, E, Word0.arg, pc) BY <1>1, <1>2, WordAt DEF This
  <2>2. ts.code[pc].kind = "svc" BY <1>1 DEF Word0
  <2> QED BY <2>1, <2>2 DEF StandsFor
<1>4. GuestAt(ts, "priv", pc) = AddressIn(ts.blocks[Word0.arg], pc)
  BY <1>1, <1>2, AddressOfWord DEF This, Sound
<1> QED BY <1>1, <1>3, <1>4, PlacedUnfold DEF This, EndInstr

LEMMA BranchFollows ==
  ASSUME NEW M, NEW E, Behaves(M, E), FaithfulInv(M, E), BranchHypercall
  PROVE  Follows
<1> DEFINE next == IF Taken THEN Decode[EndInstr].target ELSE This.gend + 1
<1>1. PICK linked :
        /\ next \in E /\ mem' = mem /\ Ready(linked, M, E) /\ NextBlock(ts, linked, next, iBit)
  BY BranchReady
<1>2. mem[GuestAddress] = EndInstr /\ GuestAddress = This.gend /\ Decode[EndInstr].op = "branch"
  BY HypercallPlace DEF BranchHypercall
<1>3. line' = line BY DEF BranchHypercall
<1>4. Sound(ts, mem', E) /\ Sound(linked, mem', E) /\ mem' \in M
  BY <1>1, SameReady, InvSound DEF Ready
<1>5. next = Decode[EndInstr].target \/ (Decode[EndInstr].cond /\ next = GuestAddress + 1)
  BY <1>2 DEF Taken
<1> HIDE DEF next
<1>6. Placed' /\ (died' # "probeOverrun" => Machine!Complete(next, iBit))
  BY <1>1, <1>4, NextFollows
<1>7. Machine!Complete(next, iBit) => Machine!Branch
  BY <1>1, <1>2, <1>3, <1>5 DEF Machine!Branch, Machine!Now
<1> QED BY <1>6, <1>7 DEF Follows, Machine!Next

LEMMA EmulateFollows ==
  ASSUME NEW M, NEW E, Behaves(M, E), FaithfulInv(M, E), EmulateHypercall \/ SetMaskHypercall
  PROVE  Follows
<1>1. /\ mem' = mem /\ line' = line
      /\ \/ AtHypercall("crit") /\ NextBlock(ts, ts, This.gend + 1, iBit)
         \/ AtHypercall("cps") /\ \E i \in BOOLEAN : NextBlock(ts, ts, This.gend + 1, i)
  BY DEF EmulateHypercall, SetMaskHypercall
<1>2. Sound(ts, mem', E) /\ mem' \in M BY <1>1, SameReady, InvSound DEF Ready
<1>3. CASE AtHypercall("crit") /\ NextBlock(ts, ts, This.gend + 1, iBit)
  <2>1. /\ GuestAddress = This.gend /\ Decode[mem[GuestAddress]].op = "crit"
        /\ This.gend + 1 \in E
    BY <1>3, HypercallPlace, HypercallGoal
  <2>2. Placed' /\ (died' # "probeOverrun" => Machine!Complete(This.gend + 1, iBit))
    BY <1>2, <1>3, <2>1, NextFollows
  <2>3. Machine!Complete(This.gend + 1, iBit) => Machine!Straight
    BY <1>1, <2>1 DEF Machine!Straight, Machine!Now
  <2> QED BY <2>2, <2>3 DEF Follows, Machine!Next
<1>4. CASE AtHypercall("cps") /\ \E i \in BOOLEAN : NextBlock(ts, ts, This.gend + 1, i)
  <2>1. /\ GuestAddress = This.gend /\ Decode[mem[GuestAddress]].op = "cps"
        /\ This.gend + 1 \in E
    BY <1>4, HypercallPlace, HypercallGoal
  <2>2. PICK i \in BOOLEAN : NextBlock(ts, ts, This.gend + 1, i) BY <1>4
  <2>3. Placed' /\ (died' # "probeOverrun" => Machine!Complete(This.gend + 1, i))
    BY <1>2, <2>1, <2>2, NextFollows
  <2>4. Machine!Complete(This.gend + 1, i) => Machine!SetMask
    BY <1>1, <2>1 DEF Machine!SetMask, Machine!Now
  <2> QED BY <2>3, <2>4 DEF Follows, Machine!Next
<1> QED BY <1>1, <1>3, <1>4

LEMMA DisableMMUFollows ==
  ASSUME NEW M, NEW E, Behaves(M, E), FaithfulInv(M, E), DisableMMUHypercall
  PROVE  Follows
<1>1. PICK t : /\ Ready(t, M, E) /\ mem' \in M /\ This.gend + 1 \in E
               /\ NextBlock(t, t, This.gend + 1, iBit)
  BY DisableMMUReady
<1>2. GuestAddress = This.gend /\ Decode[mem[GuestAddress]].op = "mmu"
  BY HypercallPlace DEF DisableMMUHypercall
<1>3. Placed' /\ (died' # "probeOverrun" => Machine!Complete(This.gend + 1, iBit))
  BY <1>1, NextFollows DEF Ready
<1>4. Machine!Complete(This.gend + 1, iBit) => Machine!SwitchMMU
  BY <1>2 DEF Machine!SwitchMMU, Machine!Now, DisableMMUHypercall
<1> QED BY <1>3, <1>4 DEF Follows, Machine!Next

LEMMA WrittenMachine == \A m, s : Machine!Written(m, s) = Written(m, s)
BY DEF Machine!Written, Written, Addr

LEMMA StoreHypercallFollows ==
  ASSUME NEW M, NEW E, Behaves(M, E), FaithfulInv(M, E), StoreHypercall
  PROVE  Follows
<1>1. /\ Ready(ts, M, E) /\ mem' \in M /\ This.gend + 1 \in E
      /\ NextBlock(ts, ts, This.gend + 1, iBit)
  BY StoreHypercallReady
<1>2. GuestAddress = This.gend /\ Decode[mem[GuestAddress]].op = "strt"
  BY HypercallPlace DEF StoreHypercall
<1>3. line' = line /\ \E s \in Stores : mem' = Machine!Written(mem, s)
  BY WrittenMachine DEF StoreHypercall
<1>4. Placed' /\ (died' # "probeOverrun" => Machine!Complete(This.gend + 1, iBit))
  BY <1>1, NextFollows DEF Ready
<1>5. Machine!Complete(This.gend + 1, iBit) => Machine!Store
  BY <1>2, <1>3 DEF Machine!Store, Machine!Now
<1> QED BY <1>4, <1>5 DEF Follows, Machine!Next

LEMMA ReturnFollows ==
  ASSUME NEW M, NEW E, Behaves(M, E), FaithfulInv(M, E), ReturnHypercall
  PROVE  Follows
<1>1. AtHypercall("eret") /\ mem' = mem /\ line' = line BY DEF ReturnHypercall
<1>2. PICK a \in ({lr} \cup ReturnAddrs) \cap Addr :
        \/ DeliverInterrupt(ts, a, spsr)
        \/ a \notin UserAddr /\ NoInterrupt(spsr) /\ EnterBlock(ts, a)
        \/ a \in UserAddr /\ NoInterrupt(spsr) /\ EnterUserMode(a)
  BY DEF ReturnHypercall
<1>3. Decode[mem[GuestAddress]].op = "eret" BY <1>1, HypercallPlace
<1>4. Sound(ts, mem', E) /\ mem' \in M BY <1>1, SameReady, InvSound DEF Ready
<1>5. a \in E \cup UserAddr BY DEF Behaves, Starts, FaithfulInv
<1>6. Placed' /\ (died' # "probeOverrun" => Machine!Complete(a, spsr))
  <2>1. CASE DeliverInterrupt(ts, a, spsr)
    <3>1. /\ Pending(spsr) /\ ~ spsr /\ irqPending' = FALSE
          /\ lr' = a /\ spsr' = spsr /\ iBit' = TRUE /\ EnterBlock(ts, IrqVector)
      BY <2>1 DEF DeliverInterrupt
    <3>2. IrqVector \in E BY DEF Behaves, Starts
    <3>3. Placed' /\ (died' # "probeOverrun" => GuestAddress' = IrqVector)
      BY <1>4, <3>1, <3>2, EnterPlaced
    <3> QED BY <3>1, <3>3 DEF Machine!Complete, Pending
  <2>2. CASE a \notin UserAddr /\ NoInterrupt(spsr) /\ EnterBlock(ts, a)
    <3>1. a \in E /\ NextBlock(ts, ts, a, spsr) BY <1>5, <2>2 DEF NextBlock
    <3> QED BY <1>4, <3>1, NextFollows
  <2>3. CASE a \in UserAddr /\ NoInterrupt(spsr) /\ EnterUserMode(a)
    <3>1. /\ irqPending' = Pending(spsr) /\ iBit' = spsr /\ lr' = lr /\ spsr' = spsr
          /\ pc' = a /\ mode' = "user"
      BY <2>3 DEF NoInterrupt, EnterUserMode
    <3>2. Placed' /\ GuestAddress' = a BY <3>1, PlacedUnfold DEF GuestAt
    <3> QED BY <3>1, <3>2 DEF Machine!Complete, Pending
  <2> QED BY <1>2, <2>1, <2>2, <2>3
<1>7. Machine!Complete(a, spsr) => Machine!ExceptionReturn
  BY <1>1, <1>2, <1>3 DEF Machine!ExceptionReturn, Machine!Now
<1> QED BY <1>6, <1>7 DEF Follows, Machine!Next

(* A hypervisor that dies leaves the guest where it is.                    *)
LEMMA DieFollows ==
  ASSUME NEW how \in Deaths \ {"none"}, Die(how)
  PROVE  Follows
<1>1. /\ died' # "none" /\ ts' = ts /\ pc' = pc /\ mode' = mode
      /\ mem' = mem /\ iBit' = iBit /\ line' = line /\ irqPending' = irqPending
      /\ lr' = lr /\ spsr' = spsr
  BY DEF Die, guest
<1>2. Placed' /\ GuestAddress' = GuestAddress BY <1>1, PlacedUnfold
<1> QED BY <1>1, <1>2 DEF Follows, Machine!vars

LEMMA HypercallFollows ==
  ASSUME NEW M, NEW E, Behaves(M, E), FaithfulInv(M, E), Hypercall
  PROVE  Follows
<1>1. CASE BadHypercall
  <2>1. Die("nullHandler") \/ Die("svcHandler") BY <1>1 DEF BadHypercall
  <2> QED BY <2>1, DieFollows DEF Deaths
<1> QED BY <1>1, BranchFollows, EmulateFollows, DisableMMUFollows, StoreHypercallFollows,
           ReturnFollows DEF Hypercall

-----------------------------------------------------------------------------
(* Words that do not trap.                                                 *)

(* The block the guest is in, its word and its address.                    *)
LEMMA PlaceOfGuest ==
  ASSUME NEW M, NEW E, Behaves(M, E), FaithfulInv(M, E), Placed, Priv
  PROVE  \E s \in Live(ts) :
           /\ InBlock(ts, mem, s, entry, pc) /\ pc \in Body(ts.blocks[s])
           /\ GuestAddress = AddressIn(ts.blocks[s], pc)
<1>1. PICK s \in Live(ts) : InBlock(ts, mem, s, entry, pc) BY DEF Placed
<1>2. Sound(ts, mem, E) /\ mode = "priv" BY InvSound DEF Priv
<1>3. pc \in Body(ts.blocks[s]) BY <1>1 DEF InBlock
<1>4. GuestAt(ts, "priv", pc) = AddressIn(ts.blocks[s], pc)
  BY <1>2, <1>3, AddressOfWord DEF Sound
<1> QED BY <1>1, <1>2, <1>3, <1>4, PlacedUnfold

(* The guest goes on in its block.                                         *)
LEMMA NextInBlock ==
  ASSUME NEW m \in Image, NEW E, E \subseteq Addr, NEW t, Sound(t, m, E), NEW s, NEW e, NEW h,
         InBlock(t, m, s, e, h),
         t.code[h].kind = "copy" \/ (t.code[h].kind \in {"svc", "b"} /\ t.code[h].cond)
  PROVE  InBlock(t, m, s, e, h + 1) /\ h \in Int
<1> DEFINE b == t.blocks[s]
<1>1. s \in Live(t) /\ h \in Body(b) BY DEF InBlock
<1>2. h + 1 \in Body(b) /\ b.gstart \in E BY <1>1, WordAt DEF StandsFor
<1>3. b.cstart \in Int /\ LastHypercall(b) \in Int BY <1>1, BlockWords DEF Sound
<1>4. h \in Int /\ b.gstart \in Int
  <2>1. h \in Int BY <1>1, <1>3 DEF Body
  <2>2. b.gstart \in Addr BY <1>2
  <2> QED BY <2>1, <2>2, SizesAssumption DEF Addr
<1>5. b.gend \in Int BY <1>1, SizesAssumption DEF Sound, StoreType, Block, Addr, Null, Live
<1>6. NoAccessFrom(m, b, h) => NoAccessFrom(m, b, h + 1)
  <2> DEFINE x == b.gstart + h - b.cstart
             y == b.gstart + (h + 1) - b.cstart
  <2>1. x \in Int /\ y = x + 1 BY <1>3, <1>4
  <2>2. NoAccessFrom(m, b, h) <=> \A z \in x .. b.gend : ~ AtAccess(m, z) BY DEF NoAccessFrom
  <2>3. NoAccessFrom(m, b, h + 1) <=> \A z \in y .. b.gend : ~ AtAccess(m, z)
    BY DEF NoAccessFrom
  <2> HIDE DEF x, y
  <2>4. y .. b.gend \subseteq x .. b.gend BY <1>5, <2>1
  <2> QED BY <2>2, <2>3, <2>4
<1> HIDE DEF b
<1> QED BY <1>1, <1>2, <1>4, <1>6 DEF InBlock, b

(* A linked block was entered from a group.                                *)
LEMMA LinkedFromGroup ==
  ASSUME NEW M, NEW E, Behaves(M, E), FaithfulInv(M, E), mode = "priv",
         NEW s \in Live(ts), pc \in Body(ts.blocks[s]), ts.blocks[s].type = "GB"
  PROVE  ts.blocks[entry].type = "GB"
<1>1. ts \in StoreType /\ WellFormed(ts, mem) /\ PoolInv BY InvSound DEF Sound
<1>2. Groups(ts) # {} BY DEF Groups, Live
<1>3. PICK r \in Live(ts) : /\ pc \in Body(ts.blocks[r])
                            /\ ts.blocks[r].type = "GB" => ts.blocks[entry].type = "GB"
  BY <1>1, <1>2, LocatedUnfold DEF PoolInv, LocatedAt, Abandoned
<1>4. pc \in ts.blocks[s].cstart .. LastHypercall(ts.blocks[s]) + 1
  BY <1>1, BlockWords DEF Body
<1>5. r = s BY <1>1, <1>3, <1>4, BodiesApart
<1> QED BY <1>3, <1>5

(* An instruction that goes straight on, with nothing owed at its end.     *)
LEMMA GoesStraight ==
  ASSUME irqPending \in BOOLEAN, NEW next, GuestAddress' = next,
         iBit' = iBit, irqPending' = irqPending, lr' = lr, spsr' = spsr
  PROVE  Machine!Complete(next, iBit)
<1>1. (irqPending \/ (line /\ iBit /\ ~ iBit)) = irqPending OBVIOUS
<1> QED BY <1>1 DEF Machine!Complete

LEMMA FallThroughFollows ==
  ASSUME NEW M, NEW E, Behaves(M, E), FaithfulInv(M, E), Placed, FallThrough
  PROVE  Follows
<1>1. /\ Priv /\ mode = "priv" /\ pc' = pc + 1
      /\ Word0.kind = "copy" \/ (Word0.kind \in {"svc", "b"} /\ Word0.cond)
      /\ ts' = ts /\ mem' = mem /\ iBit' = iBit /\ line' = line /\ irqPending' = irqPending
      /\ lr' = lr /\ spsr' = spsr /\ mode' = mode /\ entry' = entry /\ died' = died
  BY DEF FallThrough, Priv, Stay, guest
<1>2. PICK s \in Live(ts) :
        /\ InBlock(ts, mem, s, entry, pc) /\ pc \in Body(ts.blocks[s])
        /\ GuestAddress = AddressIn(ts.blocks[s], pc)
  BY <1>1, PlaceOfGuest
<1> DEFINE b == ts.blocks[s]
<1>3. Sound(ts, mem, E) /\ mem \in Image /\ E \subseteq Addr /\ irqPending \in BOOLEAN
  BY InvSound DEF PoolInv, TypeOK
<1>4. InBlock(ts, mem, s, entry, pc + 1)
  BY <1>1, <1>2, <1>3, NextInBlock DEF Word0
<1>5. Placed' BY <1>1, <1>4, PlacedUnfold
<1>6. GuestAddress' = AddressIn(b, pc + 1)
  <2>1. GuestAt(ts, "priv", pc + 1) = AddressIn(b, pc + 1)
    BY <1>3, <1>4, AddressOfWord DEF Sound, InBlock
  <2> QED BY <1>1, <2>1, PlacedUnfold
<1>7. StandsFor(ts, mem, E, s, pc) /\ GuestAddress = AddressIn(b, pc)
  BY <1>2, <1>3, WordAt
<1> HIDE DEF b
<1>8. CASE Word0.kind = "copy"
  <2>1. /\ ~ Replaced(mem[GuestAddress]) /\ GuestAddress' = GuestAddress + 1
        /\ GuestAddress \in Extent(mem, b.gstart) /\ b.gstart \in E
        /\ GuestAddress < b.gend /\ b.gend = BlockEnd(mem, b.gstart)
    BY <1>6, <1>8, <1>7 DEF StandsFor, Word0, b
  <2>2. GuestAddress \in Addr
    <3>1. b.gend \in Addr /\ b.gstart \in Addr
      <4>1. b.gstart \in Addr BY <1>3, <2>1
      <4>2. PICK a \in Addr : a = b.gstart BY <4>1
      <4>3. BlockEnd(mem, a) \in a .. NumAddr - 1 BY <1>3, BlockEndFacts
      <4> QED BY <2>1, <4>2, <4>3, SizesAssumption DEF Addr
    <3> QED BY <2>1, <3>1, SizesAssumption DEF Extent, Addr
  <2>3. Decode[mem[GuestAddress]].op \in {"safe", "mem"}
    BY <1>3, <2>1, <2>2, DecodeAssumption DEF Image, Decoding, Replaced, CopiedOp
  <2>4. Machine!Complete(GuestAddress + 1, iBit)
    BY <1>1, <1>3, <2>1, GoesStraight
  <2>5. Machine!Straight BY <1>1, <2>3, <2>4 DEF Machine!Straight, Machine!Now
  <2> QED BY <1>5, <2>5 DEF Follows, Machine!Next
<1>9. CASE Word0.kind \in {"svc", "b"} /\ Word0.cond
  <2>1. GuestAddress' = b.gend /\ GuestAddress = b.gend
    BY <1>6, <1>9, <1>7 DEF StandsFor, Word0, b
  <2> QED BY <1>1, <1>5, <2>1 DEF Follows, Machine!vars
<1> QED BY <1>1, <1>8, <1>9

LEMMA JumpFollows ==
  ASSUME NEW M, NEW E, Behaves(M, E), FaithfulInv(M, E), Placed, JumpToBlock
  PROVE  Follows
<1>1. /\ Priv /\ mode = "priv" /\ pc' = Word0.arg /\ Word0.kind = "b"
      /\ ts' = ts /\ mem' = mem /\ iBit' = iBit /\ line' = line /\ irqPending' = irqPending
      /\ lr' = lr /\ spsr' = spsr /\ mode' = mode /\ entry' = entry /\ died' = died
  BY DEF JumpToBlock, Priv, Stay, guest
<1>2. PICK s \in Live(ts) :
        pc \in Body(ts.blocks[s]) /\ GuestAddress = AddressIn(ts.blocks[s], pc)
  BY <1>1, PlaceOfGuest
<1> DEFINE b == ts.blocks[s]
<1>3. Sound(ts, mem, E) /\ mem \in Image /\ E \subseteq Addr /\ irqPending \in BOOLEAN
  BY InvSound DEF PoolInv, TypeOK
<1>4. /\ GuestAddress = b.gend /\ b.type = "GB" /\ IsBranch(mem[b.gend])
      /\ \E u \in Live(ts) : ts.blocks[u].cstart = Word0.arg
                             /\ ts.blocks[u].gstart = Goal(mem, b, Word0)
  <2>1. StandsFor(ts, mem, E, s, pc) BY <1>2, <1>3, WordAt
  <2> QED BY <1>1, <1>2, <2>1 DEF StandsFor, Word0
<1>5. PICK u \in Live(ts) : ts.blocks[u].cstart = Word0.arg
                            /\ ts.blocks[u].gstart = Goal(mem, b, Word0)
  BY <1>4
<1>6. Word0.arg \in Body(ts.blocks[u]) /\ ts.blocks[u].cstart \in Nat
  BY <1>3, <1>5, BlockWords DEF Sound, Body
<1>7. ts.blocks[entry].type = "GB" BY <1>1, <1>2, <1>4, LinkedFromGroup
<1>8. InBlock(ts, mem, u, entry, Word0.arg) BY <1>6, <1>7 DEF InBlock
<1>9. Placed' BY <1>1, <1>8, PlacedUnfold
<1>10. GuestAddress' = Goal(mem, b, Word0)
  <2> DEFINE c == ts.blocks[u]
  <2>1. GuestAt(ts, "priv", Word0.arg) = AddressIn(c, Word0.arg)
    BY <1>3, <1>6, AddressOfWord DEF Sound
  <2>2. c.gstart \in E /\ c.gend = BlockEnd(mem, c.gstart)
    <3>1. StandsFor(ts, mem, E, u, Word0.arg) BY <1>3, <1>6, WordAt
    <3> QED BY <3>1 DEF StandsFor
  <2>3. c.gstart \in Addr BY <1>3, <2>2
  <2>4. c.gstart \in Int /\ c.gend \in Int /\ c.gstart <= c.gend
    BY <1>3, <2>2, <2>3, BlockEndFacts, SizesAssumption DEF Addr
  <2>5. AddressIn(c, c.cstart) = c.gstart BY <1>6, <2>4 DEF AddressIn
  <2> QED BY <1>1, <1>5, <2>1, <2>5, PlacedUnfold
<1>11. Machine!Complete(Goal(mem, b, Word0), iBit) BY <1>1, <1>3, <1>10, GoesStraight
<1>12. Machine!Branch
  BY <1>1, <1>4, <1>11 DEF Machine!Branch, Machine!Now, Goal, IsBranch
<1> QED BY <1>9, <1>12 DEF Follows, Machine!Next

LEMMA UserStepFollows ==
  ASSUME NEW M, NEW E, Behaves(M, E), FaithfulInv(M, E), UserStep
  PROVE  Follows
<1>1. /\ mode = "user"
      /\ ts' = ts /\ mem' = mem /\ iBit' = iBit /\ line' = line /\ irqPending' = irqPending
      /\ lr' = lr /\ spsr' = spsr /\ mode' = mode /\ entry' = entry /\ died' = died
  BY DEF UserStep, Stay, guest
<1>2. \/ Decode[mem[pc]].op \in {"safe", "mem"} /\ pc' = pc + 1
      \/ /\ IsBranch(mem[pc])
         /\ pc' \in {Decode[mem[pc]].target}
                      \cup IF Decode[mem[pc]].cond THEN {pc + 1} ELSE {}
  BY DEF UserStep
<1>3. GuestAddress = pc /\ GuestAddress' = pc' /\ Placed' BY <1>1, PlacedUnfold DEF GuestAt
<1>4. irqPending \in BOOLEAN BY DEF FaithfulInv, PoolInv, TypeOK
<1>5. Machine!Complete(pc', iBit)
  BY <1>1, <1>3, <1>4 DEF Machine!Complete
<1>6. Machine!Straight \/ Machine!Branch
  BY <1>1, <1>2, <1>3, <1>5 DEF Machine!Straight, Machine!Branch, Machine!Now, IsBranch
<1> QED BY <1>3, <1>6 DEF Follows, Machine!Next

-----------------------------------------------------------------------------
(* Loads and stores.                                                       *)

LEMMA AccessPlace ==
  ASSUME NEW M, NEW E, Behaves(M, E), FaithfulInv(M, E), Placed, AtMemoryAccess, mode = "priv"
  PROVE  \E s \in Live(ts) :
           LET b == ts.blocks[s] IN
           /\ Word0.kind = "copy" /\ b.gstart \in E /\ b.gend = BlockEnd(mem, b.gstart)
           /\ GuestAddress \in Extent(mem, b.gstart) /\ AtAccess(mem, GuestAddress)
           /\ GuestAddress \in Addr /\ b.gstart + (pc + 1) - b.cstart = GuestAddress + 1
           /\ GuestAddress = b.gstart + pc - b.cstart /\ GuestAddress < b.gend
           /\ pc \in Body(b) /\ pc + 1 \in Body(b) /\ AddressIn(b, pc + 1) = GuestAddress + 1
           /\ "translation" \in Aborts => s = entry \/ ts.blocks[entry].type = "GB"
<1>1. Priv /\ Word0.kind = "copy" /\ Decode[Word0.instr].op = "mem" BY DEF AtMemoryAccess
<1>2. PICK s \in Live(ts) :
        /\ InBlock(ts, mem, s, entry, pc) /\ pc \in Body(ts.blocks[s])
        /\ GuestAddress = AddressIn(ts.blocks[s], pc)
  BY <1>1, PlaceOfGuest
<1> DEFINE b == ts.blocks[s]
<1>3. Sound(ts, mem, E) /\ mem \in Image /\ E \subseteq Addr BY InvSound
<1>4. StandsFor(ts, mem, E, s, pc) BY <1>2, <1>3, WordAt
<1>5. /\ b.gstart \in E /\ b.gend = BlockEnd(mem, b.gstart)
      /\ GuestAddress \in Extent(mem, b.gstart)
      /\ GuestAddress = b.gstart + pc - b.cstart /\ GuestAddress < b.gend
      /\ Word0.instr = mem[GuestAddress]
      /\ pc + 1 \in Body(b) /\ AddressIn(b, pc + 1) = GuestAddress + 1
  BY <1>1, <1>2, <1>4 DEF StandsFor, Word0
<1>6. AtAccess(mem, GuestAddress) BY <1>1, <1>5 DEF AtAccess
<1>7. b.gstart \in Addr /\ b.gend \in Addr /\ GuestAddress \in Addr
  <2>1. PICK a \in Addr : a = b.gstart BY <1>3, <1>5
  <2>2. BlockEnd(mem, a) \in a .. NumAddr - 1 BY <1>3, BlockEndFacts
  <2> QED BY <1>5, <2>1, <2>2, SizesAssumption DEF Extent, Addr
<1>8. b.gstart \in Int /\ b.gend \in Int /\ GuestAddress \in Int BY <1>7, SizesAssumption DEF Addr
<1>9. ~ NoAccessFrom(mem, b, pc)
  <2>1. GuestAddress \in GuestAddress .. b.gend BY <1>5, <1>8
  <2> QED BY <1>5, <1>6, <2>1 DEF NoAccessFrom
<1>10. "translation" \in Aborts => s = entry \/ ts.blocks[entry].type = "GB"
  BY <1>2, <1>9 DEF InBlock
<1>11. b.gstart + (pc + 1) - b.cstart = GuestAddress + 1
  <2>1. b.cstart \in Int /\ pc \in Int BY <1>2, <1>3, BlockWords DEF Sound, Body
  <2> QED BY <1>5, <1>8, <2>1
<1> QED BY <1>1, <1>2, <1>5, <1>6, <1>7, <1>10, <1>11

(* A block is spared when what is cleared is not of it.                    *)
Spares(t, u, s) == s \in Live(u) /\ SamePlace(u.blocks[s], t.blocks[s])

LEMMA ClearAddressSpares ==
  ASSUME NEW t \in StoreType, NEW E, NEW m \in Image, WellFormed(t, m), E \subseteq Addr,
         Faithful(t, m, E), Counted(t, m), NEW s \in Live(t), NEW a \in Int,
         a \notin t.blocks[s].gstart .. t.blocks[s].gend
  PROVE  Spares(t, ClearAddress(t, a), s)
<1> DEFINE doomed == {r \in Slot : t.blocks[r].gstart <= a /\ a <= t.blocks[r].gend}
           u == ClearSlots(t, doomed)
<1>1. CASE ~ ExecBit(t, a) BY <1>1 DEF ClearAddress, Spares, SamePlace
<1>2. CASE ExecBit(t, a)
  <2>1. ClearAddress(t, a) = u BY <1>2 DEF ClearAddress
  <2>2. doomed \in SUBSET Slot OBVIOUS
  <2>3. s \notin doomed
    <3>1. s \in Slot BY DEF Live
    <3>2. t.blocks[s].gstart \in Int /\ t.blocks[s].gend \in Int
      BY <3>1, SizesAssumption DEF StoreType, Block, Addr, Null
    <3> QED BY <3>2
  <2> HIDE DEF doomed
  <2>4. ClearedFrom(u, t, m, E) /\ Live(u) = Live(t) \ doomed BY <2>2, ClearSlotsFaithful
  <2> HIDE DEF u
  <2> QED BY <2>1, <2>3, <2>4 DEF ClearedFrom, Spares
<1> QED BY <1>1, <1>2

LEMMA ClearRangeSpares ==
  ASSUME NEW t \in StoreType, NEW E, NEW m \in Image, WellFormed(t, m), E \subseteq Addr,
         Faithful(t, m, E), Counted(t, m), NEW s \in Live(t), NEW a, NEW z,
         t.blocks[s].gstart \notin a .. z, t.blocks[s].gend \notin a .. z
  PROVE  Spares(t, ClearRange(t, a, z), s)
<1> DEFINE doomed == {r \in Slot : t.blocks[r].gstart \in a .. z \/ t.blocks[r].gend \in a .. z}
           u == ClearSlots(t, doomed)
<1>1. CASE ~ ExecBit(t, a) /\ ~ ExecBit(t, z) BY <1>1 DEF ClearRange, Spares, SamePlace
<1>2. CASE ExecBit(t, a) \/ ExecBit(t, z)
  <2>1. ClearRange(t, a, z) = u BY <1>2 DEF ClearRange
  <2>2. doomed \in SUBSET Slot OBVIOUS
  <2>3. s \notin doomed OBVIOUS
  <2> HIDE DEF doomed
  <2>4. ClearedFrom(u, t, m, E) /\ Live(u) = Live(t) \ doomed BY <2>2, ClearSlotsFaithful
  <2> HIDE DEF u
  <2> QED BY <2>1, <2>3, <2>4 DEF ClearedFrom, Spares
<1> QED BY <1>1, <1>2

(* After an access the guest is in the same block, at the next address.    *)
LEMMA MovesOn ==
  ASSUME PoolInv', mode = "priv", Stay, pc' = pc + 1, NEW s \in Live(ts), Spares(ts, ts', s),
         pc + 1 \in Body(ts.blocks[s]),
         "translation" \in Aborts =>
           \/ s = entry \/ ts'.blocks[entry].type = "GB"
           \/ NoAccessFrom(mem', ts.blocks[s], pc + 1)
  PROVE  Placed' /\ GuestAddress' = AddressIn(ts.blocks[s], pc + 1)
<1>1. ts' \in StoreType /\ WellFormed(ts', mem') BY DEF PoolInv, TypeOK
<1>2. mode' = "priv" /\ entry' = entry BY DEF Stay
<1> DEFINE b == ts.blocks[s]
           c == ts'.blocks[s]
<1>3. s \in Live(ts') /\ SamePlace(c, b) BY DEF Spares
<1>4. /\ pc' \in Body(c) /\ AddressIn(c, pc') = AddressIn(b, pc + 1)
      /\ NoAccessFrom(mem', c, pc') <=> NoAccessFrom(mem', b, pc + 1)
  BY <1>3 DEF SamePlace, Body, LastHypercall, AddressIn, NoAccessFrom
<1>5. InBlock(ts', mem', s, entry', pc') BY <1>2, <1>3, <1>4 DEF InBlock
<1> HIDE DEF c
<1>6. GuestAt(ts', "priv", pc') = AddressIn(c, pc') BY <1>1, <1>3, <1>4, AddressOfWord DEF c
<1> QED BY <1>2, <1>3, <1>4, <1>5, <1>6, PlacedUnfold

(* No access follows the one of a block that may abort.                    *)
LEMMA LastAccess ==
  ASSUME NEW M, NEW E, Behaves(M, E), AbortsFirst(M, E), "translation" \in Aborts,
         Stores # {} \/ Remaps # {},
         NEW m \in M, NEW n, NEW b, b.gstart \in E, b.gend = BlockEnd(m, b.gstart),
         NEW x \in Extent(m, b.gstart), AtAccess(m, x), x \in Int,
         \A y \in Extent(m, b.gstart) : n[y] = m[y],
         NEW h, b.gstart + h - b.cstart = x + 1
  PROVE  NoAccessFrom(n, b, h)
<1>1. \A y \in Extent(m, b.gstart) : AtAccess(m, y) => x = y BY DEF AbortsFirst
<1>2. b.gstart \in Addr /\ m \in Image BY DEF Behaves, Images, Starts
<1>3. b.gstart \in Int /\ b.gend \in Int
  <2>1. PICK a \in Addr : a = b.gstart BY <1>2
  <2>2. BlockEnd(m, a) \in a .. NumAddr - 1 BY <1>2, BlockEndFacts
  <2> QED BY <2>1, <2>2, SizesAssumption DEF Addr
<1>4. x >= b.gstart BY <1>3 DEF Extent
<1>5. \A y \in x + 1 .. b.gend : y \in Extent(m, b.gstart) /\ y # x
  BY <1>3, <1>4 DEF Extent
<1> QED BY <1>1, <1>5 DEF NoAccessFrom, AtAccess

LEMMA StoreFollows ==
  ASSUME NEW M, NEW E, Behaves(M, E), Orderly(M, E), FaithfulInv(M, E), Counted(ts, mem),
         Placed, PoolInv', Store
  PROVE  Follows
<1>1. /\ AtMemoryAccess /\ pc' = pc + 1 /\ Stay
      /\ iBit' = iBit /\ line' = line /\ irqPending' = irqPending /\ lr' = lr /\ spsr' = spsr
  BY DEF Store
<1>2. PICK r \in Stores :
        mem' = Written(mem, r) /\ ts' = IF Faults(r) THEN ClearStored(ts, r) ELSE ts
  BY DEF Store
<1>3. /\ Sound(ts, mem, E) /\ mem \in M /\ mem \in Image /\ E \subseteq Addr
      /\ mode \in {"priv", "user"} /\ irqPending \in BOOLEAN
  BY InvSound DEF PoolInv, TypeOK
<1>4. r.addr \in Int /\ (r.words = 1 \/ (r.words = 2 /\ r.each))
  BY GuestAssumption, SizesAssumption DEF StoreOp, Addr, Behaves, StoresClear
<1>5. ASSUME Placed', AtAccess(mem, GuestAddress), GuestAddress' = GuestAddress + 1
      PROVE  Follows
  <2>1. Machine!Complete(GuestAddress + 1, iBit) BY <1>1, <1>3, <1>5, GoesStraight
  <2>2. mem' = Machine!Written(mem, r) BY <1>2, WrittenMachine
  <2>3. Machine!Store BY <1>1, <1>5, <2>1, <2>2 DEF Machine!Store, Machine!Now, AtAccess
  <2> QED BY <1>5, <2>3 DEF Follows, Machine!Next
<1>6. CASE mode = "user"
  <2>1. mode' = "user" /\ Decode[mem[pc]].op = "mem" BY <1>1, <1>6 DEF Stay, AtMemoryAccess
  <2>2. Placed' /\ GuestAddress = pc /\ GuestAddress' = pc'
    BY <1>6, <2>1, PlacedUnfold DEF GuestAt
  <2> QED BY <1>1, <1>5, <2>1, <2>2 DEF AtAccess
<1>7. CASE mode = "priv"
  <2>1. PICK s \in Live(ts) :
          LET b == ts.blocks[s] IN
           /\ Word0.kind = "copy" /\ b.gstart \in E /\ b.gend = BlockEnd(mem, b.gstart)
           /\ GuestAddress \in Extent(mem, b.gstart) /\ AtAccess(mem, GuestAddress)
           /\ GuestAddress \in Addr /\ b.gstart + (pc + 1) - b.cstart = GuestAddress + 1
           /\ GuestAddress = b.gstart + pc - b.cstart /\ GuestAddress < b.gend
           /\ pc \in Body(b) /\ pc + 1 \in Body(b) /\ AddressIn(b, pc + 1) = GuestAddress + 1
           /\ "translation" \in Aborts => s = entry \/ ts.blocks[entry].type = "GB"
    BY <1>1, <1>7, AccessPlace
  <2> DEFINE b == ts.blocks[s]
  <2>2. Extent(mem, b.gstart) \cap r.addr .. r.addr + r.words - 1 = {}
    BY <1>3, <2>1 DEF Orderly, KeepsOffItself
  <2>3. /\ r.addr \notin b.gstart .. b.gend
        /\ r.words = 2 => r.addr + 1 \notin b.gstart .. b.gend
    BY <1>4, <2>1, <2>2 DEF Extent
  <2>4. Spares(ts, ts', s)
    <3>1. CASE ~ Faults(r)
      <4>1. ts' = ts BY <1>2, <3>1
      <4> QED BY <4>1 DEF Spares, SamePlace
    <3>2. CASE Faults(r)
      <4> DEFINE once == ClearAddress(ts, r.addr)
                 twice == ClearAddress(once, r.addr + 1)
      <4>1. Sound(once, mem, E) /\ Counted(once, mem)
        BY <1>3, <1>4, ClearAddressSound
      <4>2. Spares(ts, once, s) BY <1>3, <1>4, <2>3, ClearAddressSpares DEF Sound
      <4> HIDE DEF once
      <4>3. ASSUME r.words = 2 PROVE Spares(once, twice, s)
        <5>1. s \in Live(once) /\ r.addr + 1 \notin once.blocks[s].gstart .. once.blocks[s].gend
          BY <2>3, <4>2, <4>3 DEF Spares, SamePlace
        <5>2. r.addr + 1 \in Int BY <1>4
        <5> QED BY <1>3, <4>1, <5>1, <5>2, ClearAddressSpares DEF Sound
      <4> HIDE DEF twice
      <4>4. ts' = IF r.each /\ r.words = 2 THEN twice ELSE once
        BY <1>2, <3>2 DEF ClearStored, once, twice
      <4> QED BY <4>2, <4>3, <4>4 DEF Spares, SamePlace
    <3> QED BY <3>1, <3>2
  <2>5. \A x \in Extent(mem, b.gstart) : mem'[x] = mem[x]
    <3>1. PICK a \in Addr : a = b.gstart BY <1>3, <2>1
    <3>2. Extent(mem, a) \subseteq Addr BY <1>3, BlockEndFacts, SizesAssumption DEF Extent, Addr
    <3> QED BY <1>2, <2>2, <3>1, <3>2 DEF Written
  <2>6. "translation" \in Aborts => NoAccessFrom(mem', b, pc + 1)
    <3>1. GuestAddress \in Int BY <2>1, SizesAssumption DEF Addr
    <3> SUFFICES ASSUME "translation" \in Aborts PROVE NoAccessFrom(mem', b, pc + 1) OBVIOUS
    <3>2. AbortsFirst(M, E) /\ Stores # {} BY <1>2 DEF Orderly
    <3> QED BY <1>3, <2>1, <2>5, <3>1, <3>2, LastAccess
  <2>7. Placed' /\ GuestAddress' = AddressIn(b, pc + 1)
    BY <1>1, <1>7, <2>1, <2>4, <2>6, MovesOn
  <2> QED BY <1>5, <2>1, <2>7
<1> QED BY <1>3, <1>6, <1>7

LEMMA RemappedMachine ==
  \A m, r : Machine!Remapped(m, r) = [a \in Addr |-> IF a \in Range(r) THEN r.image ELSE m[a]]
BY DEF Machine!Remapped, Range, Addr

LEMMA EditPageTableFollows ==
  ASSUME NEW M, NEW E, Behaves(M, E), Orderly(M, E), FaithfulInv(M, E), Counted(ts, mem),
         Placed, PoolInv', EditPageTable
  PROVE  Follows
<1>1. /\ AtMemoryAccess /\ mode = "priv" /\ pc' = pc + 1 /\ Stay
      /\ iBit' = iBit /\ line' = line /\ irqPending' = irqPending /\ lr' = lr /\ spsr' = spsr
  BY DEF EditPageTable
<1>2. PICK r \in Remaps :
        /\ mem' = [a \in Addr |-> IF a \in Range(r) THEN r.image ELSE mem[a]]
        /\ ts' = [ClearRange(ts, r.first, r.last)
                    EXCEPT !.wprot = @ \ {Page(a) : a \in Range(r)}]
  BY DEF EditPageTable
<1>3. /\ Sound(ts, mem, E) /\ mem \in M /\ mem \in Image /\ E \subseteq Addr
      /\ irqPending \in BOOLEAN
  BY InvSound DEF PoolInv, TypeOK
<1>4. PICK s \in Live(ts) :
        LET b == ts.blocks[s] IN
        /\ Word0.kind = "copy" /\ b.gstart \in E /\ b.gend = BlockEnd(mem, b.gstart)
        /\ GuestAddress \in Extent(mem, b.gstart) /\ AtAccess(mem, GuestAddress)
        /\ GuestAddress \in Addr /\ b.gstart + (pc + 1) - b.cstart = GuestAddress + 1
        /\ GuestAddress = b.gstart + pc - b.cstart /\ GuestAddress < b.gend
        /\ pc \in Body(b) /\ pc + 1 \in Body(b) /\ AddressIn(b, pc + 1) = GuestAddress + 1
        /\ "translation" \in Aborts => s = entry \/ ts.blocks[entry].type = "GB"
  BY <1>1, AccessPlace
<1> DEFINE b == ts.blocks[s]
           t == ClearRange(ts, r.first, r.last)
<1>5. Extent(mem, b.gstart) \cap Range(r) = {}
  BY <1>3, <1>4 DEF Orderly, KeepsOffItself
<1>6. Extent(mem, b.gstart) \subseteq Addr /\ b.gstart \in Extent(mem, b.gstart)
      /\ b.gend \in Extent(mem, b.gstart)
  <2>1. PICK a \in Addr : a = b.gstart BY <1>3, <1>4
  <2>2. BlockEnd(mem, a) \in a .. NumAddr - 1 BY <1>3, BlockEndFacts
  <2> QED BY <1>4, <2>1, <2>2, SizesAssumption DEF Extent, Addr
<1>7. Spares(ts, t, s)
  <2>1. b.gstart \notin r.first .. r.last /\ b.gend \notin r.first .. r.last
    BY <1>5, <1>6 DEF Range
  <2> QED BY <1>3, <2>1, ClearRangeSpares DEF Sound
<1>8. t \in StoreType BY <1>3, ClearRangeKeeps DEF Sound, Cleared
<1>9. Spares(ts, ts', s)
  <2> HIDE DEF t
  <2>1. ts'.blocks = t.blocks BY <1>2, <1>8 DEF StoreType, t
  <2> QED BY <1>7, <2>1 DEF Spares, Live
<1>10. \A x \in Extent(mem, b.gstart) : mem'[x] = mem[x] BY <1>2, <1>5, <1>6
<1>11. "translation" \in Aborts => NoAccessFrom(mem', b, pc + 1)
  <2>1. GuestAddress \in Int BY <1>4, SizesAssumption DEF Addr
  <2> SUFFICES ASSUME "translation" \in Aborts PROVE NoAccessFrom(mem', b, pc + 1) OBVIOUS
  <2>2. AbortsFirst(M, E) /\ Remaps # {} BY <1>2 DEF Orderly
  <2> QED BY <1>3, <1>4, <1>10, <2>1, <2>2, LastAccess
<1>12. Placed' /\ GuestAddress' = GuestAddress + 1
  BY <1>1, <1>4, <1>9, <1>11, MovesOn
<1>13. Machine!Complete(GuestAddress + 1, iBit) BY <1>1, <1>3, <1>12, GoesStraight
<1>14. mem' = Machine!Remapped(mem, r) BY <1>2, RemappedMachine
<1>15. Machine!EditPageTable
  BY <1>1, <1>4, <1>13, <1>14 DEF Machine!EditPageTable, Machine!Now, AtAccess
<1> QED BY <1>12, <1>15 DEF Follows, Machine!Next

LEMMA AcknowledgeFollows ==
  ASSUME NEW M, NEW E, Behaves(M, E), FaithfulInv(M, E), Placed, PoolInv', Acknowledge
  PROVE  Follows
<1>1. /\ AtMemoryAccess /\ mode = "priv" /\ pc' = pc + 1 /\ Stay /\ line' = FALSE
      /\ mem' = mem /\ iBit' = iBit /\ irqPending' = irqPending /\ lr' = lr /\ spsr' = spsr
      /\ ts' = ts
  BY DEF Acknowledge
<1>2. PICK s \in Live(ts) :
        LET b == ts.blocks[s] IN
        /\ AtAccess(mem, GuestAddress)
        /\ pc + 1 \in Body(b) /\ AddressIn(b, pc + 1) = GuestAddress + 1
        /\ "translation" \in Aborts => s = entry \/ ts.blocks[entry].type = "GB"
  BY <1>1, AccessPlace
<1>3. Spares(ts, ts', s) BY <1>1 DEF Spares, SamePlace
<1>4. "translation" \in Aborts => s = entry \/ ts'.blocks[entry].type = "GB" BY <1>1, <1>2
<1>5. Placed' /\ GuestAddress' = GuestAddress + 1 BY <1>1, <1>2, <1>3, <1>4, MovesOn
<1>6. Machine!Acknowledge
  BY <1>1, <1>2, <1>5 DEF Machine!Acknowledge, Machine!Now, AtAccess
<1> QED BY <1>5, <1>6 DEF Follows, Machine!Next

-----------------------------------------------------------------------------
(* Aborts, service calls and interrupts.                                   *)

(* The handler maps the host address back to the instruction that faulted. *)
LEMMA MapsBack ==
  ASSUME NEW M, NEW E, Behaves(M, E), FaithfulInv(M, E), Placed, AtMemoryAccess, mode = "priv",
         "translation" \in Aborts
  PROVE  GuestPC(ts, mem, entry, pc) = GuestAddress /\ GuestAddress \in Addr
<1>1. PICK s \in Live(ts) :
        LET b == ts.blocks[s] IN
        /\ b.gend = BlockEnd(mem, b.gstart) /\ GuestAddress \in Addr
        /\ GuestAddress = b.gstart + pc - b.cstart /\ GuestAddress < b.gend
        /\ pc \in Body(b) /\ b.gstart \in E
        /\ s = entry \/ ts.blocks[entry].type = "GB"
  BY AccessPlace
<1> DEFINE b == ts.blocks[s]
<1>2. Sound(ts, mem, E) /\ E \subseteq Addr BY InvSound
<1>3. OwnerOf(ts, entry, pc) = s
  <2>1. FindIndex(ts, pc) = s BY <1>1, <1>2, FindIndexFacts DEF Sound
  <2> QED BY <1>1, <2>1 DEF OwnerOf
<1>4. GuestPC(ts, mem, entry, pc) = IF pc = b.cstart THEN b.gstart ELSE Rescan(mem, b, pc)
  BY <1>3 DEF GuestPC
<1>5. b.cstart \in Int /\ b.type # "INVALID" /\ pc \in Int /\ b.cstart <= pc
  BY <1>1, <1>2, BlockWords DEF Sound, Body, Live
<1>6. b.gstart \in Int
  <2>1. b.gstart \in Addr BY <1>1, <1>2
  <2> QED BY <2>1, SizesAssumption DEF Addr
<1>7. CASE pc = b.cstart
  <2>1. GuestAddress = b.gstart BY <1>1, <1>5, <1>6, <1>7
  <2> QED BY <1>1, <1>4, <1>7, <2>1
<1>8. CASE pc # b.cstart
  <2>1. b.gstart + (pc - b.cstart) = GuestAddress BY <1>1, <1>5, <1>6
  <2>2. ~ pc < b.cstart BY <1>5
  <2>3. Rescan(mem, b, pc) = GuestAddress BY <1>1, <1>5, <2>1, <2>2 DEF Rescan
  <2> QED BY <1>1, <1>4, <1>8, <2>3
<1> QED BY <1>7, <1>8

(* A data abort is delivered, or the hypervisor meets the end of the table. *)
LEMMA AbortFollows ==
  ASSUME NEW M, NEW E, Behaves(M, E), Orderly(M, E), FaithfulInv(M, E), Counted(ts, mem),
         Placed, TranslationFault \/ PermissionFault
  PROVE  Follows /\ lr' = GuestAddress /\ died' # "rescanDied"
<1>1. TranslationFault /\ AtMemoryAccess /\ "translation" \in Aborts
  BY DEF TranslationFault, PermissionFault, Orderly
<1>2. /\ Sound(ts, mem, E) /\ mem \in M /\ mem \in Image /\ mode \in {"priv", "user"}
      /\ AbtVector \in E /\ died = "none"
  BY <1>1, InvSound DEF Behaves, Starts, AtMemoryAccess, Priv, Running
<1>3. PICK t : DeliverDataAbort(t, GuestAddress) /\ Sound(t, mem, E) /\ AtAccess(mem, GuestAddress)
  <2>1. CASE mode = "user"
    <3>1. GuestAddress = pc BY <2>1, PlacedUnfold DEF GuestAt
    <3>2. DeliverDataAbort(ts, pc) BY <1>1, <2>1 DEF TranslationFault
    <3>3. AtAccess(mem, pc) BY <1>1, <2>1 DEF AtMemoryAccess, AtAccess
    <3> QED BY <1>2, <3>1, <3>2, <3>3
  <2>2. CASE mode = "priv"
    <3>1. GuestPC(ts, mem, entry, pc) = GuestAddress /\ GuestAddress \in Addr
      BY <1>1, <2>2, MapsBack
    <3>2. GuestAddress # Null BY <3>1, SizesAssumption DEF Addr, Null
    <3>3. DeliverDataAbort(UnlinkOwner(ts, entry, pc), GuestAddress)
      BY <1>1, <2>2, <3>1, <3>2 DEF TranslationFault
    <3>4. Sound(UnlinkOwner(ts, entry, pc), mem, E) BY <2>2, OwnerSound
    <3>5. AtAccess(mem, GuestAddress) BY <1>1, <2>2, AccessPlace
    <3> QED BY <3>3, <3>4, <3>5
  <2> QED BY <1>2, <2>1, <2>2
<1>4. /\ lr' = GuestAddress /\ spsr' = iBit /\ iBit' = TRUE
      /\ mem' = mem /\ line' = line /\ irqPending' = irqPending /\ EnterBlock(t, AbtVector)
  BY <1>3 DEF DeliverDataAbort
<1>5. Sound(t, mem', E) /\ mem' \in M BY <1>2, <1>3, <1>4
<1>6. Placed' /\ (died' # "probeOverrun" => GuestAddress' = AbtVector)
  BY <1>2, <1>4, <1>5, EnterPlaced
<1>7. died' # "rescanDied" BY <1>2, <1>4 DEF EnterBlock
<1>8. died' # "probeOverrun" => Machine!DataAbort
  BY <1>3, <1>4, <1>6 DEF Machine!DataAbort, Machine!Exception, Machine!Now, AtAccess
<1> QED BY <1>4, <1>6, <1>7, <1>8 DEF Follows, Machine!Next

LEMMA ServiceCallFollows ==
  ASSUME NEW M, NEW E, Behaves(M, E), FaithfulInv(M, E), ServiceCall
  PROVE  Follows
<1>1. /\ mode = "user" /\ Decode[mem[pc]].op = "svc"
      /\ lr' = pc + 1 /\ spsr' = iBit /\ iBit' = TRUE
      /\ mem' = mem /\ line' = line /\ irqPending' = irqPending /\ EnterBlock(ts, SvcVector)
  BY DEF ServiceCall
<1>2. Sound(ts, mem', E) /\ mem' \in M /\ SvcVector \in E
  BY <1>1, SameReady, InvSound DEF Ready, Behaves, Starts
<1>3. GuestAddress = pc BY <1>1, PlacedUnfold DEF GuestAt
<1>4. Placed' /\ (died' # "probeOverrun" => GuestAddress' = SvcVector)
  BY <1>1, <1>2, EnterPlaced
<1>5. died' # "probeOverrun" => Machine!ServiceCall
  BY <1>1, <1>3, <1>4 DEF Machine!ServiceCall, Machine!Exception, Machine!Now
<1> QED BY <1>4, <1>5 DEF Follows, Machine!Next

(* irq() unlinks the block the guest is in, and leaves the guest there.    *)
LEMMA OwnerSpares ==
  ASSUME NEW M, NEW E, Behaves(M, E), FaithfulInv(M, E), mode = "priv",
         NEW s \in Live(ts), pc \in Body(ts.blocks[s])
  PROVE  LET u == UnlinkOwner(ts, entry, pc)
         IN /\ Spares(ts, u, s)
            /\ ts.blocks[entry].type = "GB" => s = entry \/ u.blocks[entry].type = "GB"
<1> DEFINE u == UnlinkOwner(ts, entry, pc)
<1>1. Sound(ts, mem, E) /\ mem \in Image /\ entry \in Slot BY InvSound DEF PoolInv, TypeOK
<1>2. CASE ts.blocks[entry].type # "GB" BY <1>2 DEF UnlinkOwner, Spares, SamePlace
<1>3. CASE ts.blocks[entry].type = "GB"
  <2>1. FindIndex(ts, pc) = s BY <1>1, FindIndexFacts DEF Sound
  <2>2. u = Unlink(ts, {s}) BY <1>3, <2>1 DEF UnlinkOwner
  <2>3. {s} \in SUBSET Live(ts) /\ s \in Slot BY DEF Live
  <2> HIDE DEF u
  <2>4. /\ Live(u) = Live(ts) /\ \A r \in Slot : SamePlace(u.blocks[r], ts.blocks[r])
        /\ \A r \in Slot \ {s} : u.blocks[r].type = ts.blocks[r].type
    BY <1>1, <2>2, <2>3, UnlinkKeeps DEF Sound
  <2> QED BY <1>1, <1>3, <2>3, <2>4 DEF Spares, u
<1> QED BY <1>2, <1>3

LEMMA InterruptFollows ==
  ASSUME NEW M, NEW E, Behaves(M, E), FaithfulInv(M, E), Placed, PoolInv', TimerIrq \/ UartIrq
  PROVE  Follows
<1>1. CASE TimerIrq /\ InGroup /\ mode = "user"
  <2>1. Die("irqScanOutsideStore") BY <1>1 DEF TimerIrq
  <2> QED BY <2>1, DieFollows DEF Deaths
<1>2. CASE UartIrq \/ ~ (InGroup /\ mode = "user")
  <2>1. /\ line' = TRUE /\ irqPending' = (irqPending \/ ~ iBit) /\ Running
        /\ mem' = mem /\ iBit' = iBit /\ lr' = lr /\ spsr' = spsr
        /\ pc' = pc /\ mode' = mode /\ entry' = entry /\ died' = died
        /\ ts' = ts \/ ts' = UnlinkOwner(ts, entry, pc)
    BY <1>2 DEF TimerIrq, UartIrq, ThrowInterrupt, Stay
  <2>2. mode \in {"priv", "user"} BY InvSound
  <2>3. Placed' /\ GuestAddress' = GuestAddress
    <3>1. CASE mode = "user" BY <2>1, <3>1, PlacedUnfold DEF GuestAt
    <3>2. CASE mode = "priv"
      <4>1. Priv BY <2>1, <3>2 DEF Priv
      <4>2. PICK s \in Live(ts) :
              /\ InBlock(ts, mem, s, entry, pc) /\ pc \in Body(ts.blocks[s])
              /\ GuestAddress = AddressIn(ts.blocks[s], pc)
        BY <4>1, PlaceOfGuest
      <4> DEFINE b == ts.blocks[s]
                 c == ts'.blocks[s]
      <4>3. /\ Spares(ts, ts', s)
            /\ ts.blocks[entry].type = "GB" => s = entry \/ ts'.blocks[entry].type = "GB"
        <5>1. CASE ts' = ts BY <5>1 DEF Spares, SamePlace
        <5>2. CASE ts' = UnlinkOwner(ts, entry, pc) BY <3>2, <4>2, <5>2, OwnerSpares
        <5> QED BY <2>1, <5>1, <5>2
      <4>4. /\ s \in Live(ts') /\ pc \in Body(c) /\ AddressIn(c, pc) = AddressIn(b, pc)
            /\ NoAccessFrom(mem', b, pc) => NoAccessFrom(mem', c, pc)
        BY <4>2, <4>3 DEF Spares, SamePlace, Body, LastHypercall, AddressIn, NoAccessFrom
      <4>5. InBlock(ts', mem', s, entry', pc')
        BY <2>1, <4>2, <4>3, <4>4 DEF InBlock
      <4>6. ts' \in StoreType /\ WellFormed(ts', mem') BY DEF PoolInv, TypeOK
      <4> HIDE DEF c
      <4>7. GuestAt(ts', "priv", pc) = AddressIn(c, pc) BY <4>4, <4>6, AddressOfWord DEF c
      <4> QED BY <2>1, <3>2, <4>2, <4>4, <4>5, <4>7, PlacedUnfold
    <3> QED BY <2>2, <3>1, <3>2
  <2>4. Machine!Raise BY <2>1, <2>3 DEF Machine!Raise
  <2> QED BY <2>3, <2>4 DEF Follows, Machine!Next
<1> QED BY <1>1, <1>2

(* Every step of block execution is a step of the guest's machine, or none *)
(* of it, and leaves the guest in a live block.                            *)
LEMMA NextFollowsAll ==
  ASSUME NEW M, NEW E, Behaves(M, E), Orderly(M, E), FaithfulInv(M, E), Counted(ts, mem),
         Placed, [Next]_vars
  PROVE  Follows
<1>1. PoolInv'
  <2>1. FaithfulInv(M, E)' BY NextAdvancesAll DEF Advances
  <2> QED BY <2>1 DEF FaithfulInv
<1>2. ASSUME GuestStep PROVE Follows
  BY <1>1, <1>2, HypercallFollows, FallThroughFollows, JumpFollows, UserStepFollows,
     StoreFollows, EditPageTableFollows, AcknowledgeFollows, AbortFollows, ServiceCallFollows
     DEF GuestStep
<1>3. ASSUME UNCHANGED vars PROVE Follows
  <2>1. /\ ts' = ts /\ mem' = mem /\ entry' = entry /\ mode' = mode /\ pc' = pc
        /\ died' = died /\ iBit' = iBit /\ line' = line /\ irqPending' = irqPending
        /\ lr' = lr /\ spsr' = spsr
    BY <1>3 DEF vars
  <2>2. Placed' BY <2>1, PlacedUnfold DEF Placed, Priv, Running
  <2>3. GuestAddress' = GuestAddress BY <2>1, PlacedUnfold
  <2> QED BY <2>1, <2>2, <2>3 DEF Follows, Machine!vars
<1> QED BY <1>1, <1>2, <1>3, InterruptFollows DEF Next

(* The loader leaves the guest at its entry point.                         *)
LEMMA InitFollows ==
  ASSUME NEW M, NEW E, Behaves(M, E), Init
  PROVE  Placed /\ Machine!Init
<1> DEFINE s == Hash(EntryPoint)
           t == FillSlot(EmptyStore, Program, EntryPoint, s)
           b == t.blocks[s]
<1>1. EntryPoint \in Addr /\ Program \in Image /\ EntryPoint \in Int
  BY GuestAssumption, SizesAssumption DEF Addr
<1>2. s \in Slot BY <1>1, SizesAssumption DEF Hash, Slot, Addr
<1>3. EmptyStore \in StoreType /\ Live(EmptyStore) = {} /\ WellFormed(EmptyStore, Program)
  BY EmptyStoreKeeps, NoBlocksWellFormed
<1>4. mem = Program /\ ts = t /\ mode = "priv" /\ entry = s /\ pc = b.cstart
  BY DEF Init, Booted
<1>5. FaithfulInv(M, E) BY InitFaithful
<1>6. Sound(ts, mem, E) BY <1>5, InvSound
<1> HIDE DEF s
<1>7. /\ t.blocks[s].gstart = EntryPoint /\ s \in Live(t)
      /\ t.blocks[s].csize = BlockLength(Program, EntryPoint)
  BY <1>1, <1>2, <1>3, FillSlotBlocks DEF Live
<1> HIDE DEF t
<1>8. b.cstart \in Body(b) /\ b.cstart \in Nat
  BY <1>4, <1>6, <1>7, BlockWords DEF Sound, Body
<1>9. b.gend \in Int /\ EntryPoint <= b.gend
  <2>1. b.gend = BlockEnd(Program, EntryPoint)
    BY <1>4, <1>6, <1>7 DEF Sound, Faithful, FaithfulBlock, SameShape
  <2> QED BY <1>1, <2>1, BlockEndFacts, SizesAssumption DEF Addr
<1>10. AddressIn(b, b.cstart) = EntryPoint BY <1>1, <1>7, <1>8, <1>9 DEF AddressIn
<1>11. GuestAt(ts, "priv", pc) = EntryPoint
  BY <1>4, <1>6, <1>7, <1>8, <1>10, AddressOfWord DEF Sound
<1>12. InBlock(ts, mem, s, entry, pc) BY <1>4, <1>7, <1>8 DEF InBlock
<1>13. GuestAddress = EntryPoint BY <1>4, <1>11, PlacedUnfold
<1> QED BY <1>4, <1>7, <1>12, <1>13 DEF Placed, Machine!Init, Init

LEMMA PlacedInvariant ==
  ASSUME NEW M, NEW E, Behaves(M, E), Orderly(M, E)
  PROVE  Spec /\ []HypercallCountKept => [](FaithfulInv(M, E) /\ Placed)
<1> DEFINE Inv == FaithfulInv(M, E) /\ Placed
<1>1. Init => Inv BY InitFaithful, InitFollows
<1>2. Inv /\ HypercallCountKept /\ [Next]_vars => Inv'
  <2> SUFFICES ASSUME Inv, HypercallCountKept, [Next]_vars PROVE Inv' OBVIOUS
  <2>1. Advances(M, E) BY CountedIsKept, NextAdvancesAll
  <2>2. Follows BY CountedIsKept, NextFollowsAll
  <2> QED BY <2>1, <2>2 DEF Advances, Follows
<1> HIDE DEF Inv
<1>3. Spec /\ []HypercallCountKept => []Inv BY <1>1, <1>2, PTL DEF Spec
<1> QED BY <1>3 DEF Inv

(* A data abort of the guest is delivered with the address of the very     *)
(* instruction that faulted, however its block came to be linked, unlinked *)
(* or moved, when no access of a block may abort behind one that clears    *)
(* translations and the guest handles no permission fault.                 *)
THEOREM AbortsArePrecise ==
  ASSUME NEW M, NEW E, Behaves(M, E), Orderly(M, E)
  PROVE  Spec /\ []HypercallCountKept => AbortIsPrecise
<1> DEFINE Inv == FaithfulInv(M, E) /\ Placed
           Precise == (TranslationFault \/ PermissionFault) /\ Running' => lr' = GuestAddress
<1>1. Inv /\ HypercallCountKept /\ [Next]_vars => [Precise]_vars
  BY CountedIsKept, AbortFollows
<1>2. Spec /\ []HypercallCountKept => []Inv BY PlacedInvariant
<1> HIDE DEF Inv, Precise
<1>3. Spec /\ []HypercallCountKept => [][Precise]_vars BY <1>1, <1>2, PTL DEF Spec
<1> QED BY <1>3 DEF AbortIsPrecise, Precise

(* The guest cannot tell the code cache from the machine: every behaviour  *)
(* of block execution in which no probe runs off the block store is one of *)
(* the machine the guest believes it runs on, exactly as it interleaves    *)
(* with interrupts, aborts and changes of its own code.                    *)
THEOREM BlockExecutionImplementsMachine ==
  ASSUME NEW M, NEW E, Behaves(M, E), Orderly(M, E)
  PROVE  Spec /\ []HypercallCountKept /\ [](died # "probeOverrun") => ImplementsGuestMachine
<1> DEFINE Inv == FaithfulInv(M, E) /\ Placed
           Fits == died # "probeOverrun"
<1>1. Init => Machine!Init BY InitFollows
<1>2. Inv /\ HypercallCountKept /\ Fits' /\ [Next]_vars => [Machine!Next]_(Machine!vars)
  BY CountedIsKept, NextFollowsAll DEF Follows
<1>3. Spec /\ []HypercallCountKept => []Inv BY PlacedInvariant
<1> HIDE DEF Inv, Fits
<1>4. Spec /\ []HypercallCountKept /\ []Fits => Machine!Init /\ [][Machine!Next]_(Machine!vars)
  BY <1>1, <1>2, <1>3, PTL DEF Spec
<1> QED BY <1>4 DEF ImplementsGuestMachine, Machine!Spec, Fits

-----------------------------------------------------------------------------
(* The hypervisor survives.                                                *)

(* No two blocks have the same hash: none is displaced in the block store. *)
HomesApart(E) == \A a, b \in E : Hash(a) = Hash(b) => a = b

(* Privileged code makes no service call, and the timer, whose interrupt   *)
(* looks for a block in the code cache, meets no user code.                *)
Served(M, E) ==
  /\ \A m \in M, a \in E : Decode[LastInstr(m, a)].op # "svc"
  /\ "GPT1" \in Irqs => UserAddr = {}

AtHome(t, E) ==
  \A s \in Live(t) : t.blocks[s].gstart \in E /\ s = Hash(t.blocks[s].gstart)

LEMMA ProbeHome ==
  ASSUME NEW E, E \subseteq Addr, HomesApart(E), NEW t, AtHome(t, E), NEW a \in E
  PROVE  Probe(t, a) = Hash(a) /\ Probe(t, a) \in Slot
<1> DEFINE h == Hash(a)
<1>1. a \in Addr OBVIOUS
<1>2. h \in 0 .. StoreSize - 1 /\ h \in Nat /\ StoreSize \in Nat
  BY <1>1, SizesAssumption DEF Hash, Addr
<1>3. ProbeStops(t, a, h)
  <2>1. CASE h \in Live(t) BY <2>1 DEF AtHome, HomesApart, ProbeStops
  <2>2. CASE h \notin Live(t) BY <1>2, <2>2 DEF Live, Slot, ProbeStops
  <2> QED BY <2>1, <2>2
<1> HIDE DEF h
<1>4. h \in h .. StoreSize - 1 /\ \A r \in h .. h - 1 : ~ ProbeStops(t, a, r) BY <1>2
<1>5. Probe(t, a) \in h .. StoreSize - 1 /\ \A r \in h .. Probe(t, a) - 1 : ~ ProbeStops(t, a, r)
  BY <1>3, <1>4 DEF Probe, h
<1>6. Probe(t, a) = h BY <1>2, <1>3, <1>5
<1> QED BY <1>2, <1>6 DEF h, Slot

(* A scan fills the slot of the hash.                                      *)
LEMMA ScanHome ==
  ASSUME NEW E, E \subseteq Addr, HomesApart(E), NEW t, AtHome(t, E), NEW m, NEW a \in E
  PROVE  AtHome(Scan(t, m, a), E)
<1> DEFINE s == Probe(t, a)
           u == FillSlot(t, m, a, s)
<1>1. CASE Found(t, a) BY <1>1 DEF Scan
<1>2. CASE ~ Found(t, a)
  <2>1. Scan(t, m, a) = u BY <1>2 DEF Scan
  <2>2. s = Hash(a) BY ProbeHome
  <2> HIDE DEF s
  <2>3. ASSUME NEW r \in Live(u) PROVE u.blocks[r].gstart \in E /\ r = Hash(u.blocks[r].gstart)
    <3>1. CASE r = s
      <4>1. r \in Slot BY DEF Live
      <4>2. u.blocks[r].gstart = a BY <3>1, <4>1 DEF FillSlot
      <4> QED BY <2>2, <3>1, <4>2
    <3>2. CASE r # s
      <4>1. r \in Slot /\ u.blocks[r].type # "INVALID" BY DEF Live
      <4>2. u.blocks[r] = t.blocks[r] \/ u.blocks[r] = NullBlock BY <3>2, <4>1 DEF FillSlot
      <4>3. u.blocks[r] = t.blocks[r] BY <4>1, <4>2 DEF NullBlock
      <4>4. r \in Live(t) BY <4>1, <4>3 DEF Live
      <4> QED BY <4>3, <4>4 DEF AtHome
    <3> QED BY <3>1, <3>2
  <2> HIDE DEF u
  <2> QED BY <2>1, <2>3 DEF AtHome
<1> QED BY <1>1, <1>2

LEMMA EnterHome ==
  ASSUME NEW E, E \subseteq Addr, HomesApart(E), NEW t, AtHome(t, E), NEW a \in E,
         EnterBlock(t, a)
  PROVE  AtHome(ts', E) /\ died' = died
<1>1. Probe(t, a) \in Slot BY ProbeHome
<1>2. ts' = Scan(t, mem', a) /\ died' = died BY <1>1 DEF EnterBlock
<1> QED BY <1>2, ScanHome

LEMMA NextHome ==
  ASSUME NEW E, E \subseteq Addr, HomesApart(E), IrqVector \in E, NEW t, AtHome(t, E),
         NEW linked, AtHome(linked, E), NEW next \in E, NEW i, NextBlock(t, linked, next, i)
  PROVE  AtHome(ts', E) /\ died' = died
<1>1. EnterBlock(t, IrqVector) \/ EnterBlock(linked, next)
  BY DEF NextBlock, DeliverInterrupt
<1> QED BY <1>1, EnterHome

(* Blocks that stay where they are stay at home.                           *)
LEMMA SpareHome ==
  ASSUME NEW E, NEW t, AtHome(t, E), NEW u,
         \A s \in Live(u) : s \in Live(t) /\ SamePlace(u.blocks[s], t.blocks[s])
  PROVE  AtHome(u, E)
BY DEF AtHome, SamePlace

LEMMA LinkHome ==
  ASSUME NEW t \in StoreType, NEW m \in Image, WellFormed(t, m), NEW next,
         NEW s \in Live(t), NEW host \in Body(t.blocks[s]), t.code[host].kind = "svc",
         NEW E, AtHome(t, E)
  PROVE  AtHome(Link(t, m, next, host, s), E)
<1> DEFINE u == Link(t, m, next, host, s)
<1>1. Live(u) = Live(t) BY LinkKeeps
<1>2. \A r \in Slot : u.blocks[r].gstart = t.blocks[r].gstart
  <2>1. CASE ~ Found(t, next) BY <2>1 DEF Link
  <2>2. CASE Found(t, next)
    <3>1. u.blocks = [r \in Slot |-> IF r \in GroupOfLink(s, Probe(t, next))
                                     THEN [t.blocks[r] EXCEPT !.type = "GB"]
                                     ELSE t.blocks[r]]
      BY <2>2 DEF Link, StoreType
    <3>2. \A r \in Slot : t.blocks[r] \in Block BY DEF StoreType
    <3> QED BY <3>1, <3>2 DEF Block
  <2> QED BY <2>1, <2>2
<1> HIDE DEF u
<1>3. \A r \in Live(t) : r \in Slot BY DEF Live
<1> QED BY <1>1, <1>2, <1>3 DEF AtHome, u

(* A step that leaves every block at home and the hypervisor alive.        *)
Survives(E) == AtHome(ts', E) /\ died' = died

(* What the lemmas below assume of the guest and of the state.             *)
Alive(M, E) ==
  /\ Behaves(M, E) /\ HomesApart(E) /\ Served(M, E)
  /\ FaithfulInv(M, E) /\ AtHome(ts, E)

LEMMA HypercallSurvives ==
  ASSUME NEW M, NEW E, Alive(M, E), Placed, Hypercall
  PROVE  Survives(E)
<1>1. /\ Behaves(M, E) /\ FaithfulInv(M, E) /\ HomesApart(E) /\ AtHome(ts, E)
      /\ E \subseteq Addr /\ IrqVector \in E /\ Served(M, E)
  BY DEF Alive, Behaves, Starts
<1>2. Sound(ts, mem, E) /\ mem \in M /\ mem \in Image BY <1>1, InvSound
<1>3. CASE BranchHypercall
  <2> DEFINE next == IF Taken THEN Decode[EndInstr].target ELSE This.gend + 1
             linked == IF IsBranch(EndInstr) THEN Link(ts, mem, next, pc, Word0.arg) ELSE ts
  <2>1. next \in E /\ NextBlock(ts, linked, next, iBit) BY <1>1, <1>3, BranchReady
  <2>2. /\ Word0.kind = "svc" /\ Word0.arg \in Live(ts) /\ pc \in Body(ts.blocks[Word0.arg])
        /\ ts.code[pc].kind = "svc"
    BY <1>1, <1>3, HypercallGoal DEF BranchHypercall, This, Word0
  <2> HIDE DEF next
  <2>3. AtHome(Link(ts, mem, next, pc, Word0.arg), E)
    BY <1>1, <1>2, <2>2, LinkHome DEF Sound
  <2>4. AtHome(linked, E) BY <1>1, <2>3
  <2> HIDE DEF linked
  <2> QED BY <1>1, <2>1, <2>4, NextHome DEF Survives
<1>4. CASE EmulateHypercall \/ SetMaskHypercall \/ StoreHypercall
  <2>1. PICK op \in {"crit", "cps", "strt"}, i \in {TRUE, FALSE, iBit} :
          AtHypercall(op) /\ NextBlock(ts, ts, This.gend + 1, i)
    BY <1>4 DEF EmulateHypercall, SetMaskHypercall, StoreHypercall
  <2>2. This.gend + 1 \in E BY <1>1, <2>1, HypercallGoal
  <2> QED BY <1>1, <2>1, <2>2, NextHome DEF Survives
<1>5. CASE DisableMMUHypercall
  <2> DEFINE t == [ClearAll(ts) EXCEPT !.wprot = {}]
  <2>1. AtHypercall("mmu") /\ NextBlock(t, t, This.gend + 1, iBit)
    BY <1>5 DEF DisableMMUHypercall
  <2>2. t.blocks = EmptyStore.blocks BY <1>2 DEF ClearAll, Sound, StoreType
  <2> HIDE DEF t
  <2>3. AtHome(t, E) BY <2>2 DEF AtHome, Live, EmptyStore, NullBlock
  <2>4. This.gend + 1 \in E BY <1>1, <2>1, HypercallGoal
  <2> QED BY <1>1, <2>1, <2>3, <2>4, NextHome DEF Survives
<1>6. CASE ReturnHypercall
  <2>1. PICK a \in ({lr} \cup ReturnAddrs) \cap Addr :
          \/ DeliverInterrupt(ts, a, spsr)
          \/ a \notin UserAddr /\ NoInterrupt(spsr) /\ EnterBlock(ts, a)
          \/ a \in UserAddr /\ NoInterrupt(spsr) /\ EnterUserMode(a)
    BY <1>6 DEF ReturnHypercall
  <2>2. a \in E \cup UserAddr BY <1>1, <2>1 DEF Behaves, Starts, FaithfulInv
  <2>3. CASE DeliverInterrupt(ts, a, spsr)
    <3>1. EnterBlock(ts, IrqVector) BY <2>3 DEF DeliverInterrupt
    <3> QED BY <1>1, <3>1, EnterHome DEF Survives
  <2>4. CASE a \notin UserAddr /\ EnterBlock(ts, a)
    BY <1>1, <2>2, <2>4, EnterHome DEF Survives
  <2>5. CASE EnterUserMode(a) BY <1>1, <2>5 DEF EnterUserMode, Survives
  <2> QED BY <2>1, <2>3, <2>4, <2>5
<1>7. ~ BadHypercall
  <2> SUFFICES ASSUME BadHypercall PROVE FALSE OBVIOUS
  <2>1. Priv /\ Word0.kind = "svc" /\ (Word0.arg \notin Live(ts) \/ AtHypercall("svc"))
    BY DEF BadHypercall
  <2>2. PICK s \in Live(ts) :
          pc \in Body(ts.blocks[s]) /\ GuestAddress = AddressIn(ts.blocks[s], pc)
    BY <1>1, <2>1, PlaceOfGuest
  <2>3. Word0.arg = s
    <3>1. StandsFor(ts, mem, E, s, pc) BY <1>1, <1>2, <2>2, WordAt
    <3>2. ts.code[pc].kind = "svc" BY <2>1 DEF Word0
    <3> QED BY <3>1, <3>2 DEF StandsFor, Word0
  <2>4. AtHypercall("svc") BY <2>1, <2>2, <2>3
  <2>5. /\ Decode[EndInstr].op = "svc" /\ EndInstr = LastInstr(mem, This.gstart)
        /\ This.gstart \in E
    BY <1>1, <2>4, HypercallGoal
  <2> QED BY <1>1, <1>2, <2>5 DEF Served
<1> QED BY <1>3, <1>4, <1>5, <1>6, <1>7 DEF Hypercall

(* A store and a page table edit only empty slots.                         *)
LEMMA ChangeSurvives ==
  ASSUME NEW M, NEW E, Alive(M, E), Counted(ts, mem), Store \/ EditPageTable
  PROVE  Survives(E)
<1>1. /\ Behaves(M, E) /\ FaithfulInv(M, E) /\ AtHome(ts, E) /\ E \subseteq Addr
  BY DEF Alive, Behaves, Starts
<1>2. /\ Sound(ts, mem, E) /\ mem \in M /\ mem \in Image /\ M \subseteq Image
      /\ OnePageEach(M, E) /\ RemapsWhole
  BY <1>1, InvSound
<1>3. died' = died BY DEF Store, EditPageTable, Stay
<1>4. CASE Store
  <2>1. PICK s \in Stores : ts' = IF Faults(s) THEN ClearStored(ts, s) ELSE ts
    BY <1>4 DEF Store
  <2>2. s.addr \in Int BY GuestAssumption, SizesAssumption DEF StoreOp, Addr
  <2> DEFINE once == ClearAddress(ts, s.addr)
             twice == ClearAddress(once, s.addr + 1)
  <2>3. Counted(ts, mem) OBVIOUS
  <2>4. /\ Sound(once, mem, E) /\ Counted(once, mem)
    BY <1>1, <1>2, <2>2, <2>3, ClearAddressSound
  <2>5. \A r \in Live(once) : r \in Live(ts) /\ SamePlace(once.blocks[r], ts.blocks[r])
    BY <1>1, <1>2, <2>2, <2>3, ClearAddressFaithful DEF ClearedFrom, Sound
  <2>6. AtHome(once, E) BY <1>1, <2>5, SpareHome
  <2> HIDE DEF once
  <2>7. s.addr + 1 \in Int BY <2>2
  <2>8. \A r \in Live(twice) : r \in Live(once) /\ SamePlace(twice.blocks[r], once.blocks[r])
    BY <1>1, <1>2, <2>4, <2>7, ClearAddressFaithful DEF ClearedFrom, Sound
  <2>9. AtHome(twice, E) BY <2>6, <2>8, SpareHome
  <2> HIDE DEF twice
  <2>10. ts' \in {once, twice, ts} BY <2>1 DEF ClearStored, once, twice
  <2> QED BY <1>1, <1>3, <2>6, <2>9, <2>10 DEF Survives
<1>5. CASE EditPageTable
  <2>1. PICK r \in Remaps :
          ts' = [ClearRange(ts, r.first, r.last) EXCEPT !.wprot = @ \ {Page(a) : a \in Range(r)}]
    BY <1>5 DEF EditPageTable
  <2> DEFINE t == ClearRange(ts, r.first, r.last)
  <2>2. \A s \in Live(t) : s \in Live(ts) /\ SamePlace(t.blocks[s], ts.blocks[s])
    BY <1>1, <1>2, ClearRangeFaithful DEF ClearedFrom, Sound
  <2>3. t \in StoreType BY <1>2, ClearRangeKeeps DEF Sound, Cleared
  <2>4. AtHome(t, E) BY <1>1, <2>2, SpareHome
  <2>5. ts'.blocks = t.blocks BY <2>1, <2>3 DEF StoreType
  <2> HIDE DEF t
  <2> QED BY <1>3, <2>4, <2>5 DEF Survives, AtHome, Live
<1> QED BY <1>4, <1>5

LEMMA OwnerHome ==
  ASSUME NEW M, NEW E, Behaves(M, E), FaithfulInv(M, E), AtHome(ts, E), mode = "priv"
  PROVE  AtHome(UnlinkOwner(ts, entry, pc), E)
<1> DEFINE u == UnlinkOwner(ts, entry, pc)
<1>1. Sound(ts, mem, E) /\ mem \in Image /\ PoolInv BY InvSound
<1>2. CASE ts.blocks[entry].type = "GB"
  <2>1. u = Unlink(ts, {FindIndex(ts, pc)}) BY <1>2 DEF UnlinkOwner
  <2>2. Groups(ts) # {} BY <1>1, <1>2 DEF Groups, PoolInv, TypeOK
  <2>3. PICK s \in Live(ts) : pc \in Body(ts.blocks[s])
    BY <1>1, <2>2, LocatedUnfold DEF PoolInv, LocatedAt, Abandoned
  <2>4. FindIndex(ts, pc) = s BY <1>1, <2>3, FindIndexFacts DEF Sound
  <2>5. {s} \in SUBSET Live(ts) OBVIOUS
  <2>6. u = Unlink(ts, {s}) BY <2>1, <2>4
  <2> HIDE DEF u
  <2>7. Live(u) = Live(ts) /\ \A r \in Slot : SamePlace(u.blocks[r], ts.blocks[r])
    BY <1>1, <2>5, <2>6, UnlinkKeeps DEF Sound
  <2>8. \A r \in Live(u) : r \in Live(ts) /\ SamePlace(u.blocks[r], ts.blocks[r])
    BY <2>7 DEF Live
  <2> QED BY <2>8, SpareHome DEF u
<1>3. CASE ts.blocks[entry].type # "GB" BY <1>3 DEF UnlinkOwner
<1> QED BY <1>2, <1>3

LEMMA ExceptionSurvives ==
  ASSUME NEW M, NEW E, Alive(M, E), Orderly(M, E), Placed, Counted(ts, mem),
         TranslationFault \/ PermissionFault \/ ServiceCall
  PROVE  Survives(E)
<1>1. /\ Behaves(M, E) /\ FaithfulInv(M, E) /\ HomesApart(E) /\ AtHome(ts, E)
      /\ E \subseteq Addr /\ AbtVector \in E /\ SvcVector \in E /\ mode \in {"priv", "user"}
  BY InvSound DEF Alive, Behaves, Starts
<1>2. CASE ServiceCall
  <2>1. EnterBlock(ts, SvcVector) BY <1>2 DEF ServiceCall
  <2> QED BY <1>1, <2>1, EnterHome DEF Survives
<1>3. CASE TranslationFault \/ PermissionFault
  <2>1. TranslationFault BY <1>3 DEF PermissionFault, Orderly
  <2>2. died' # "rescanDied" BY <1>1, <1>3, AbortFollows
  <2>3. PICK t \in {ts, UnlinkOwner(ts, entry, pc)} :
          EnterBlock(t, AbtVector) /\ (t = ts \/ mode = "priv")
    BY <1>1, <2>1, <2>2 DEF TranslationFault, DeliverDataAbort, Die
  <2>4. AtHome(t, E) BY <1>1, <2>3, OwnerHome
  <2> QED BY <1>1, <2>3, <2>4, EnterHome DEF Survives
<1> QED BY <1>2, <1>3

LEMMA InterruptSurvives ==
  ASSUME NEW M, NEW E, Alive(M, E), TimerIrq \/ UartIrq
  PROVE  Survives(E)
<1>1. /\ Behaves(M, E) /\ FaithfulInv(M, E) /\ AtHome(ts, E) /\ Served(M, E)
      /\ mode \in {"priv", "user"}
  BY InvSound DEF Alive
<1>2. CASE UartIrq BY <1>1, <1>2 DEF UartIrq, Stay, Survives
<1>3. CASE TimerIrq
  <2>1. mode = "priv" BY <1>1, <1>3 DEF TimerIrq, Served, FaithfulInv
  <2>2. ts' = UnlinkOwner(ts, entry, pc) /\ died' = died BY <1>3, <2>1 DEF TimerIrq, Stay
  <2>3. AtHome(UnlinkOwner(ts, entry, pc), E) BY <1>1, <2>1, OwnerHome
  <2> QED BY <2>2, <2>3 DEF Survives
<1> QED BY <1>2, <1>3

LEMMA NextSurvives ==
  ASSUME NEW M, NEW E, Alive(M, E), Orderly(M, E), Placed, Counted(ts, mem), [Next]_vars
  PROVE  Survives(E)
<1>1. ASSUME FallThrough \/ JumpToBlock \/ UserStep \/ Acknowledge \/ UNCHANGED vars
      PROVE  Survives(E)
  <2>1. ts' = ts /\ died' = died
    BY <1>1 DEF FallThrough, JumpToBlock, UserStep, Acknowledge, Stay, vars
  <2> QED BY <2>1 DEF Survives, Alive
<1> QED BY <1>1, HypercallSurvives, ChangeSurvives, ExceptionSurvives, InterruptSurvives
        DEF Next, GuestStep

(* The hypervisor never meets a hypercall of an emptied slot, the end of   *)
(* its block store or a host address it cannot place, whatever the guest   *)
(* stores, remaps, switches and is interrupted by, when its blocks have    *)
(* distinct hashes, its privileged code makes no service call and the      *)
(* timer meets no user code.                                               *)
THEOREM HypervisorSurvivesGuests ==
  ASSUME NEW M, NEW E, Behaves(M, E), Orderly(M, E), HomesApart(E), Served(M, E)
  PROVE  Spec /\ []HypercallCountKept => []HypervisorSurvives
<1> DEFINE Inv == FaithfulInv(M, E) /\ Placed
           Home == AtHome(ts, E) /\ HypervisorSurvives
<1>1. Init => Home
  <2> SUFFICES ASSUME Init PROVE Home OBVIOUS
  <2> DEFINE s == Hash(EntryPoint)
  <2>1. EntryPoint \in E /\ ts = FillSlot(EmptyStore, Program, EntryPoint, s) /\ died = "none"
    BY DEF Init, Booted, Behaves, Starts
  <2>2. Live(EmptyStore) = {} BY EmptyStoreKeeps
  <2>3. ASSUME NEW r \in Live(ts) PROVE r = s /\ ts.blocks[r].gstart = EntryPoint
    <3>1. r \in Slot /\ ts.blocks[r].type # "INVALID" BY DEF Live
    <3>2. r # s => ts.blocks[r] = NullBlock
      BY <2>1, <3>1 DEF FillSlot, EmptyStore
    <3>3. r = s BY <3>1, <3>2 DEF NullBlock
    <3>4. ts.blocks[s].gstart = EntryPoint BY <2>1, <3>1, <3>3 DEF FillSlot
    <3> QED BY <3>3, <3>4
  <2> QED BY <2>1, <2>3 DEF AtHome, HypervisorSurvives
<1>2. Inv /\ Home /\ HypercallCountKept /\ [Next]_vars => Home'
  <2> SUFFICES ASSUME Inv, Home, HypercallCountKept, [Next]_vars PROVE Home' OBVIOUS
  <2>1. Survives(E) BY CountedIsKept, NextSurvives DEF Alive
  <2> QED BY <2>1 DEF Survives, HypervisorSurvives, AtHome, Live
<1>3. Spec /\ []HypercallCountKept => []Inv BY PlacedInvariant
<1>4. Home => HypervisorSurvives OBVIOUS
<1> HIDE DEF Inv, Home
<1> QED BY <1>1, <1>2, <1>3, <1>4, PTL DEF Spec

(* The same with nothing left to suppose of the behaviour: a guest whose   *)
(* blocks have distinct hashes, none of them of one hypercall and ending   *)
(* with the pool, runs on the hypervisor as on its own machine.            *)
COROLLARY UndisplacedGuestsNeverNotice ==
  ASSUME NEW M, NEW E, NEW F, Behaves(M, E), Orderly(M, E), HomesApart(E), Served(M, E),
         Fills(M, E, F)
  PROVE  Spec => ImplementsGuestMachine
<1>1. Spec => []HypercallCountKept BY HypercallsAreCounted
<1>2. Spec /\ []HypercallCountKept => []HypervisorSurvives BY HypervisorSurvivesGuests
<1>3. HypervisorSurvives => died # "probeOverrun" BY DEF HypervisorSurvives
<1>4. Spec /\ []HypercallCountKept /\ [](died # "probeOverrun") => ImplementsGuestMachine
  BY BlockExecutionImplementsMachine
<1> QED BY <1>1, <1>2, <1>3, <1>4, PTL

=============================================================================
