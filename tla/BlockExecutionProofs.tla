------------------------ MODULE BlockExecutionProofs ------------------------
(***************************************************************************)
(* Block execution keeps PoolInv, for every value of the constants.  From  *)
(* it follow the type of the state, that a block that stands alone holds   *)
(* no branch, and that a timer interrupt that is owed finds the guest in a *)
(* block without one.                                                      *)
(***************************************************************************)
EXTENDS BlockExecution, TranslationStoreProofs

(* The condition of Located for a store u, the slot e of the block the     *)
(* guest was last entered at, and R15 = h.                                 *)
LocatedAt(u, e, h) ==
  \/ \E s \in Live(u) : /\ h \in Body(u.blocks[s])
                        /\ u.blocks[s].type = "GB" => u.blocks[e].type = "GB"
  \/ \E s \in Slot : Abandoned(u, h, s)

StandsAlone(u, h) ==
  \A s \in Live(u) : h \in Body(u.blocks[s]) => u.blocks[s].type = "BB"

LEMMA LocatedUnfold == Located <=> (mode = "priv" => LocatedAt(ts, entry, pc))
BY DEF Located, LocatedAt, InLiveBlock, InAbandonedBlock, InGroup

LEMMA LocatedUnfoldPrime == Located' <=> (mode' = "priv" => LocatedAt(ts', entry', pc'))
BY DEF Located, LocatedAt, InLiveBlock, InAbandonedBlock, InGroup

LEMMA PendingUnfold ==
  PendingUnlinked <=> ((irqPending /\ ~ iBit /\ mode = "priv") => StandsAlone(ts, pc))
BY DEF PendingUnlinked, StandsAlone, Here

LEMMA PendingUnfoldPrime ==
  PendingUnlinked' <=> ((irqPending' /\ ~ iBit' /\ mode' = "priv") => StandsAlone(ts', pc'))
BY DEF PendingUnlinked, StandsAlone, Here

-----------------------------------------------------------------------------
(* Where the guest is.                                                     *)

(* From a word that does not leave its block, the guest goes to the next.  *)
LEMMA NextWord ==
  ASSUME PoolInv, mode = "priv",
         \/ Word0.kind = "copy"
         \/ Word0.kind \in {"svc", "b"} /\ Word0.cond
  PROVE  /\ pc + 1 \in Host
         /\ \/ \E s \in Live(ts) : pc \in Body(ts.blocks[s]) /\ pc + 1 \in Body(ts.blocks[s])
            \/ \E s \in Slot : Abandoned(ts, pc + 1, s)
<1>1. ts \in StoreType /\ WellFormed(ts, mem) /\ pc \in Host /\ pc \in Nat
  BY SizesAssumption DEF PoolInv, TypeOK, Host
<1>2. LocatedAt(ts, entry, pc)
  BY LocatedUnfold DEF PoolInv
<1>3. CASE \E s \in Live(ts) : pc \in Body(ts.blocks[s])
  <2>1. PICK s \in Live(ts) : pc \in Body(ts.blocks[s])
    BY <1>3
  <2> DEFINE last == LastHypercall(ts.blocks[s])
  <2>2. /\ ts.blocks[s].cstart \in Nat /\ last \in Nat /\ last + 1 \in Host
        /\ ts.code[last].kind # "copy" /\ ~ ts.code[last].cond
    BY <1>1, BlockWords
  <2>3. Body(ts.blocks[s]) = ts.blocks[s].cstart .. last
    BY DEF Body
  <2> HIDE DEF last
  <2>4. pc # last
    BY <2>2 DEF Word0
  <2>5. pc + 1 \in Body(ts.blocks[s]) /\ pc + 1 \in Host
    BY <1>1, <2>1, <2>2, <2>3, <2>4, SizesAssumption DEF Host
  <2> QED  BY <2>1, <2>5
<1>4. CASE \E s \in Slot : Abandoned(ts, pc, s)
  <2>1. PICK s \in Slot : Abandoned(ts, pc, s)
    BY <1>4
  <2>2. PICK last \in pc .. PoolSize - 1 :
          /\ ts.code[last].kind = "svc" /\ ts.code[last].arg = s /\ ~ ts.code[last].cond
          /\ \A x \in pc .. last - 1 :
               \/ ts.code[x].kind = "copy"
               \/ ts.code[x].kind = "svc" /\ ts.code[x].arg = s
    BY <2>1 DEF Abandoned
  <2>3. pc # last
    BY <2>2 DEF Word0
  <2>4. last \in pc + 1 .. PoolSize - 1 /\ pc + 1 \in Host
    BY <1>1, <2>2, <2>3, SizesAssumption DEF Host
  <2>5. \A x \in pc + 1 .. last - 1 : x \in pc .. last - 1
    BY <1>1, <2>4
  <2>6. Groups(ts) = {} /\ s \notin Live(ts)
    BY <2>1 DEF Abandoned
  <2>7. Abandoned(ts, pc + 1, s)
    BY <2>2, <2>4, <2>5, <2>6 DEF Abandoned
  <2> QED  BY <2>4, <2>7
<1> QED  BY <1>2, <1>3, <1>4 DEF LocatedAt

(* A step to word p that may clear the store loses neither the place of    *)
(* the guest nor the way back of a pending interrupt.                      *)
LEMMA MoveKeeps ==
  ASSUME PoolInv, mode = "priv", NEW p \in Host, NEW u \in StoreType,
         \/ \E s \in Live(ts) : pc \in Body(ts.blocks[s]) /\ p \in Body(ts.blocks[s])
         \/ \E s \in Slot : Abandoned(ts, p, s),
         u.blocks = ts.blocks \/ Groups(u) = {},
         AtWord(ts, p) => AtWord(u, p)
  PROVE  LocatedAt(u, entry, p) /\ (StandsAlone(ts, pc) => StandsAlone(u, p))
<1>1. ts \in StoreType /\ WellFormed(ts, mem)
  BY DEF PoolInv, TypeOK
<1>2. AtWord(u, p)
  BY DEF AtWord
<1>3. CASE Groups(u) = {}
  <2>1. \A s \in Live(u) : u.blocks[s].type = "BB"
    BY <1>3 DEF Groups, Live, StoreType, Block, BlockType
  <2> QED  BY <1>2, <2>1 DEF AtWord, LocatedAt, StandsAlone
<1>4. CASE u.blocks = ts.blocks /\ Groups(u) # {}
  <2>1. Groups(ts) # {} /\ Live(u) = Live(ts)
    BY <1>4 DEF Groups, Live
  <2>2. PICK s \in Live(ts) : pc \in Body(ts.blocks[s]) /\ p \in Body(ts.blocks[s])
    BY <2>1 DEF Abandoned
  <2>3. ASSUME NEW r \in Live(ts), pc \in Body(ts.blocks[r]) \/ p \in Body(ts.blocks[r])
        PROVE  r = s
    <3>1. \A h : h \in Body(ts.blocks[r]) => h \in ts.blocks[r].cstart .. LastHypercall(ts.blocks[r]) + 1
      BY <1>1, BlockWords DEF Body
    <3> QED  BY <1>1, <2>2, <2>3, <3>1, BodiesApart
  <2>4. ts.blocks[s].type = "GB" => ts.blocks[entry].type = "GB"
    <3>1. LocatedAt(ts, entry, pc)
      BY LocatedUnfold DEF PoolInv
    <3>2. \A r \in Slot : ~ Abandoned(ts, pc, r)
      BY <2>1 DEF Abandoned
    <3>3. PICK r \in Live(ts) :
            /\ pc \in Body(ts.blocks[r])
            /\ ts.blocks[r].type = "GB" => ts.blocks[entry].type = "GB"
      BY <3>1, <3>2 DEF LocatedAt
    <3> QED  BY <2>3, <3>3
  <2> QED  BY <1>4, <2>1, <2>2, <2>3, <2>4 DEF LocatedAt, StandsAlone
<1> QED  BY <1>3, <1>4

-----------------------------------------------------------------------------
(* Entering a block (scanBlock), and the end of a hypercall.               *)

(* A table without blocks has room for any address.                        *)
LEMMA ProbeEmpty ==
  ASSUME NEW t, Live(t) = {}, NEW a \in Addr
  PROVE  Probe(t, a) \in Slot
<1>1. Hash(a) \in Slot
  BY SizesAssumption DEF Hash, Slot, Addr
<1>2. \A s \in Slot : ProbeStops(t, a, s)
  BY DEF Live, ProbeStops
<1>3. Hash(a) \in Hash(a) .. StoreSize - 1
  BY <1>1, SizesAssumption DEF Slot
<1>4. \A r \in Hash(a) .. Hash(a) - 1 : ~ ProbeStops(t, a, r)
  BY <1>1, SizesAssumption DEF Slot
<1>5. Probe(t, a) \in Hash(a) .. StoreSize - 1
  BY <1>1, <1>2, <1>3, <1>4 DEF Probe
<1> QED  BY <1>1, <1>5, SizesAssumption DEF Slot

(* A scan keeps the store well formed, and finds or fills the slot probed. *)
LEMMA ScanKeeps ==
  ASSUME NEW t \in StoreType, NEW m \in Image, WellFormed(t, m), NEW a \in Addr,
         Probe(t, a) \in Slot
  PROVE  LET u == Scan(t, m, a)
             s == Probe(t, a)
         IN /\ u \in StoreType /\ WellFormed(u, m)
            /\ s \in Live(u) /\ u.blocks[s].cstart \in Body(u.blocks[s])
            /\ u.blocks[s].cstart \in Host
<1> DEFINE u == Scan(t, m, a)
           s == Probe(t, a)
<1>1. u \in StoreType /\ WellFormed(u, m) /\ s \in Live(u)
  <2>1. CASE Found(t, a)
    BY <2>1 DEF Scan, Found
  <2>2. CASE ~ Found(t, a)
    <3>1. u = FillSlot(t, m, a, s) /\ s \notin Live(t)
      BY <2>2 DEF Scan, Found
    <3> HIDE DEF u, s
    <3>2. s \in Slot
      BY DEF s
    <3> QED  BY <3>1, <3>2, FillSlotType, FillSlotWellFormed, FilledBlock
  <2> QED  BY <2>1, <2>2
<1> HIDE DEF u, s
<1>2. u.blocks[s].cstart \in Body(u.blocks[s]) /\ u.blocks[s].cstart \in Host
  BY <1>1, BlockWords, SizesAssumption DEF Body, Host
<1> QED  BY <1>1, <1>2 DEF u, s

(* What entering the block of a leaves behind.                             *)
LEMMA EnterBlockKeeps ==
  ASSUME TypeOK, Located, mem' \in Image,
         NEW t \in StoreType, WellFormed(t, mem'), NEW a \in Addr,
         WellFormed(ts, mem') \/ Live(t) = {},
         EnterBlock(t, a)
  PROVE  /\ ts' \in StoreType /\ WellFormed(ts', mem')
         /\ mode' \in {"priv", "user"} /\ entry' \in Slot /\ died' \in Deaths
         /\ pc' \in IF mode' = "priv" THEN Host ELSE Addr
         /\ Located'
<1> DEFINE u == Scan(t, mem', a)
           s == Probe(t, a)
<1>1. CASE s \in Slot
  <2>1. /\ u \in StoreType /\ WellFormed(u, mem')
        /\ s \in Live(u) /\ u.blocks[s].cstart \in Body(u.blocks[s])
        /\ u.blocks[s].cstart \in Host
    BY <1>1, ScanKeeps
  <2>2. /\ ts' = u /\ entry' = s /\ pc' = u.blocks[s].cstart
        /\ mode' = "priv" /\ died' = died
    BY <1>1 DEF EnterBlock
  <2> HIDE DEF u, s
  <2>3. LocatedAt(ts', entry', pc')
    BY <2>1, <2>2 DEF LocatedAt
  <2>4. Located'
    BY <2>3, LocatedUnfoldPrime
  <2> QED  BY <1>1, <2>1, <2>2, <2>4 DEF TypeOK, s
<1>2. CASE s \notin Slot
  <2>1. /\ died' = "probeOverrun" /\ ts' = ts /\ entry' = entry /\ pc' = pc /\ mode' = mode
    BY <1>2 DEF EnterBlock
  <2>2. WellFormed(ts', mem')
    BY <1>2, <2>1, ProbeEmpty
  <2>3. Located'
    BY <2>1, LocatedUnfold, LocatedUnfoldPrime
  <2> QED  BY <2>1, <2>2, <2>3 DEF TypeOK, Deaths
<1> QED  BY <1>1, <1>2

LEMMA NextBlockKeeps ==
  ASSUME PoolInv, mode = "priv", mem' \in Image, line' \in BOOLEAN,
         NEW t \in StoreType, WellFormed(t, mem'),
         NEW linked \in StoreType, WellFormed(linked, mem'),
         WellFormed(ts, mem') \/ (Live(t) = {} /\ Live(linked) = {}),
         NEW next \in Addr, NEW i \in BOOLEAN,
         NextBlock(t, linked, next, i)
  PROVE  PoolInv'
<1> USE DEF PoolInv
<1>1. TypeOK /\ Located
  OBVIOUS
<1>2. IrqVector \in Addr /\ next \in Int
  BY GuestAssumption, SizesAssumption DEF Addr
<1>3. CASE DeliverInterrupt(t, next, i)
  <2>1. /\ ts' \in StoreType /\ WellFormed(ts', mem')
        /\ mode' \in {"priv", "user"} /\ entry' \in Slot /\ died' \in Deaths
        /\ pc' \in IF mode' = "priv" THEN Host ELSE Addr
        /\ Located'
    BY <1>1, <1>2, <1>3, EnterBlockKeeps DEF DeliverInterrupt
  <2>2. irqPending' = FALSE /\ lr' = next /\ spsr' = i /\ iBit' = TRUE
    BY <1>3 DEF DeliverInterrupt
  <2>3. TypeOK'
    BY <1>2, <2>1, <2>2 DEF TypeOK
  <2>4. PendingUnlinked'
    BY <2>2, PendingUnfoldPrime
  <2> QED  BY <2>1, <2>3, <2>4
<1>4. CASE NoInterrupt(i) /\ EnterBlock(linked, next)
  <2>1. /\ ts' \in StoreType /\ WellFormed(ts', mem')
        /\ mode' \in {"priv", "user"} /\ entry' \in Slot /\ died' \in Deaths
        /\ pc' \in IF mode' = "priv" THEN Host ELSE Addr
        /\ Located'
    BY <1>1, <1>4, EnterBlockKeeps
  <2>2. /\ irqPending' = Pending(i) /\ iBit' = i /\ lr' = lr /\ spsr' = spsr
        /\ ~ (Pending(i) /\ ~ i)
    BY <1>4 DEF NoInterrupt
  <2>3. Pending(i) \in BOOLEAN
    BY <1>1 DEF Pending, TypeOK
  <2>4. TypeOK'
    BY <1>1, <2>1, <2>2, <2>3 DEF TypeOK
  <2>5. PendingUnlinked'
    BY <2>2, PendingUnfoldPrime
  <2> QED  BY <2>1, <2>4, <2>5
<1> QED  BY <1>3, <1>4 DEF NextBlock

-----------------------------------------------------------------------------
(* Hypercalls.                                                             *)

(* The block a hypercall names is the one the guest is in.                 *)
LEMMA HypercallFacts ==
  ASSUME PoolInv, NEW op, AtHypercall(op)
  PROVE  /\ mode = "priv" /\ Word0.kind = "svc" /\ Word0.arg \in Live(ts)
         /\ pc \in Body(This) /\ This.gend \in Addr /\ EndInstr \in Instr
         /\ This.gend < NumAddr - 1 \/ Decode[EndInstr].op = op
<1>1. /\ mode = "priv" /\ Word0.kind = "svc" /\ Word0.arg \in Live(ts) /\ This.handler = op
  BY DEF AtHypercall, Priv
<1>2. ts \in StoreType /\ WellFormed(ts, mem) /\ mem \in Image /\ pc \in Host /\ pc \in Int
  BY <1>1, SizesAssumption DEF PoolInv, TypeOK, Host
<1>3. LocatedAt(ts, entry, pc)
  BY <1>1, LocatedUnfold DEF PoolInv
<1>4. \A s \in Slot : ~ Abandoned(ts, pc, s)
  <2> SUFFICES ASSUME NEW s \in Slot, Abandoned(ts, pc, s)  PROVE FALSE
    OBVIOUS
  <2>1. PICK last \in pc .. PoolSize - 1 :
          /\ ts.code[last].kind = "svc" /\ ts.code[last].arg = s /\ ~ ts.code[last].cond
          /\ \A x \in pc .. last - 1 :
               \/ ts.code[x].kind = "copy"
               \/ ts.code[x].kind = "svc" /\ ts.code[x].arg = s
    BY DEF Abandoned
  <2>2. pc = last \/ pc \in pc .. last - 1
    BY <1>2, <2>1, SizesAssumption DEF Host
  <2>3. Word0.arg = s
    BY <1>1, <2>1, <2>2 DEF Word0
  <2> QED  BY <1>1, <2>3 DEF Abandoned
<1>5. PICK s \in Live(ts) : pc \in Body(ts.blocks[s])
  BY <1>3, <1>4 DEF LocatedAt
<1>6. Word0.arg = s
  BY <1>1, <1>2, <1>5, BlockWords DEF Word0
<1>7. WellFormedGuest(ts, mem, s)
  BY <1>2 DEF WellFormed
<1>8. This.gend \in Addr /\ (This.gend < NumAddr - 1 \/ Decode[EndInstr].op = op)
  BY <1>1, <1>6, <1>7 DEF WellFormedGuest, This, EndInstr
<1>9. EndInstr \in Instr
  BY <1>2, <1>8 DEF EndInstr, Image
<1> QED  BY <1>1, <1>5, <1>6, <1>8, <1>9 DEF This

(* A handler that lets the guest go on has a word to go on to.             *)
LEMMA GoesOn ==
  ASSUME PoolInv, NEW op \in ReplacedOp, AtHypercall(op), op # "eret",
         op = "branch" => Decode[EndInstr].cond
  PROVE  This.gend + 1 \in Addr
<1>1. /\ This.gend \in Addr
      /\ This.gend < NumAddr - 1 \/ Decode[EndInstr].op = op
  BY HypercallFacts
<1>2. ASSUME This.gend = NumAddr - 1  PROVE FALSE
  <2>1. Leaves(EndInstr)
    BY <1>2 DEF EndInstr, PoolInv, TypeOK, Image
  <2> QED  BY <1>1, <1>2, <2>1, SizesAssumption DEF Leaves, IsBranch
<1> QED  BY <1>1, <1>2, SizesAssumption DEF Addr

LEMMA BranchHypercallKeeps ==
  ASSUME PoolInv, BranchHypercall
  PROVE  PoolInv'
<1> DEFINE next == IF Taken THEN Decode[EndInstr].target ELSE This.gend + 1
           linked == IF IsBranch(EndInstr) THEN Link(ts, mem, next, pc, Word0.arg) ELSE ts
<1>1. /\ AtHypercall("branch") /\ mem' = mem /\ line' = line
      /\ NextBlock(ts, linked, next, iBit)
  BY DEF BranchHypercall
<1>2. /\ mode = "priv" /\ Word0.kind = "svc" /\ Word0.arg \in Live(ts)
      /\ pc \in Body(This) /\ EndInstr \in Instr
  BY <1>1, HypercallFacts
<1>3. /\ mem \in Image /\ line \in BOOLEAN /\ iBit \in BOOLEAN
      /\ ts \in StoreType /\ WellFormed(ts, mem)
  BY DEF PoolInv, TypeOK
<1>4. next \in Addr
  <2>1. Decode[EndInstr].target \in Addr
    BY <1>2, DecodeAssumption DEF Decoding
  <2>2. ~ Taken => Decode[EndInstr].cond
    BY DEF Taken
  <2>3. ~ Taken => This.gend + 1 \in Addr
    BY <1>1, <2>2, GoesOn DEF ReplacedOp
  <2> QED  BY <2>1, <2>3
<1> HIDE DEF next
<1>5. linked \in StoreType /\ WellFormed(linked, mem)
  BY <1>2, <1>3, LinkKeeps DEF This, Word0
<1> HIDE DEF linked
<1> QED  BY <1>1, <1>2, <1>3, <1>4, <1>5, NextBlockKeeps

LEMMA EmulateHypercallKeeps ==
  ASSUME PoolInv, EmulateHypercall
  PROVE  PoolInv'
<1>1. /\ AtHypercall("crit") /\ mem' = mem /\ line' = line
      /\ NextBlock(ts, ts, This.gend + 1, iBit)
  BY DEF EmulateHypercall
<1>2. This.gend + 1 \in Addr /\ mode = "priv"
  BY <1>1, GoesOn, HypercallFacts DEF ReplacedOp
<1>3. /\ mem \in Image /\ line \in BOOLEAN /\ iBit \in BOOLEAN
      /\ ts \in StoreType /\ WellFormed(ts, mem)
  BY DEF PoolInv, TypeOK
<1> QED  BY <1>1, <1>2, <1>3, NextBlockKeeps

LEMMA SetMaskHypercallKeeps ==
  ASSUME PoolInv, SetMaskHypercall
  PROVE  PoolInv'
<1>1. AtHypercall("cps") /\ mem' = mem /\ line' = line
  BY DEF SetMaskHypercall
<1>2. PICK i \in BOOLEAN : NextBlock(ts, ts, This.gend + 1, i)
  BY DEF SetMaskHypercall
<1>3. This.gend + 1 \in Addr /\ mode = "priv"
  BY <1>1, GoesOn, HypercallFacts DEF ReplacedOp
<1>4. mem \in Image /\ line \in BOOLEAN /\ ts \in StoreType /\ WellFormed(ts, mem)
  BY DEF PoolInv, TypeOK
<1> QED  BY <1>1, <1>2, <1>3, <1>4, NextBlockKeeps

LEMMA DisableMMUHypercallKeeps ==
  ASSUME PoolInv, DisableMMUHypercall
  PROVE  PoolInv'
<1> DEFINE t == [ClearAll(ts) EXCEPT !.wprot = {}]
<1>1. /\ AtHypercall("mmu") /\ mem' \in Spaces \cup {mem} /\ line' = line
      /\ NextBlock(t, t, This.gend + 1, iBit)
  BY DEF DisableMMUHypercall
<1>2. This.gend + 1 \in Addr /\ mode = "priv"
  BY <1>1, GoesOn, HypercallFacts DEF ReplacedOp
<1>3. mem \in Image /\ line \in BOOLEAN /\ iBit \in BOOLEAN /\ ts \in StoreType
  BY DEF PoolInv, TypeOK
<1>4. mem' \in Image
  BY <1>1, <1>3, GuestAssumption
<1>5. ClearAll(ts) \in StoreType /\ Live(ClearAll(ts)) = {}
  BY <1>3, EmptyStoreKeeps
<1>6. t \in StoreType /\ Live(t) = {}
  <2>1. {} \in SUBSET Nat
    OBVIOUS
  <2> QED  BY <1>5, <2>1, UnprotectKeeps
<1> HIDE DEF t
<1>7. WellFormed(t, mem')
  BY <1>6, NoBlocksWellFormed
<1> QED  BY <1>1, <1>2, <1>3, <1>4, <1>6, <1>7, NextBlockKeeps

(* A store of the guest leaves the last word of its image alone.           *)
LEMMA WrittenFacts ==
  ASSUME NEW m \in Image, NEW s \in Stores
  PROVE  Written(m, s) \in Image /\ Written(m, s)[NumAddr - 1] = m[NumAddr - 1]
<1>1. s.addr \in Addr /\ s.words \in Nat /\ s.instr \in Instr /\ s.addr + s.words < NumAddr
  BY GuestAssumption DEF StoreOp
<1>2. NumAddr - 1 \in Addr /\ NumAddr - 1 \notin s.addr .. s.addr + s.words - 1
  BY <1>1, SizesAssumption DEF Addr
<1>3. Written(m, s) \in [Addr -> Instr]
  BY <1>1 DEF Written, Image
<1>4. Written(m, s)[NumAddr - 1] = m[NumAddr - 1]
  BY <1>2 DEF Written
<1> QED  BY <1>3, <1>4 DEF Image

LEMMA StoreHypercallKeeps ==
  ASSUME PoolInv, StoreHypercall
  PROVE  PoolInv'
<1>1. AtHypercall("strt") /\ line' = line /\ NextBlock(ts, ts, This.gend + 1, iBit)
  BY DEF StoreHypercall
<1>2. PICK s \in Stores : mem' = Written(mem, s)
  BY DEF StoreHypercall
<1>3. This.gend + 1 \in Addr /\ mode = "priv"
  BY <1>1, GoesOn, HypercallFacts DEF ReplacedOp
<1>4. /\ mem \in Image /\ line \in BOOLEAN /\ iBit \in BOOLEAN
      /\ ts \in StoreType /\ WellFormed(ts, mem)
  BY DEF PoolInv, TypeOK
<1>5. mem' \in Image /\ WellFormed(ts, mem')
  BY <1>2, <1>4, WrittenFacts, SameLastWord
<1> QED  BY <1>1, <1>3, <1>4, <1>5, NextBlockKeeps

LEMMA ReturnHypercallKeeps ==
  ASSUME PoolInv, ReturnHypercall
  PROVE  PoolInv'
<1>1. AtHypercall("eret") /\ mem' = mem /\ line' = line
  BY DEF ReturnHypercall
<1>2. PICK a \in Addr :
        \/ DeliverInterrupt(ts, a, spsr)
        \/ a \notin UserAddr /\ NoInterrupt(spsr) /\ EnterBlock(ts, a)
        \/ a \in UserAddr /\ NoInterrupt(spsr) /\ EnterUserMode(a)
  BY DEF ReturnHypercall
<1>3. mode = "priv"
  BY <1>1, HypercallFacts
<1>4. /\ mem \in Image /\ line \in BOOLEAN /\ spsr \in BOOLEAN
      /\ ts \in StoreType /\ WellFormed(ts, mem)
  BY DEF PoolInv, TypeOK
<1>5. CASE \/ DeliverInterrupt(ts, a, spsr)
           \/ a \notin UserAddr /\ NoInterrupt(spsr) /\ EnterBlock(ts, a)
  <2>1. NextBlock(ts, ts, a, spsr)
    BY <1>5 DEF NextBlock
  <2> QED  BY <1>1, <1>3, <1>4, <2>1, NextBlockKeeps
<1>6. CASE a \in UserAddr /\ NoInterrupt(spsr) /\ EnterUserMode(a)
  <2>1. /\ pc' = a /\ mode' = "user" /\ ts' = ts /\ entry' = entry /\ died' = died
        /\ irqPending' = Pending(spsr) /\ iBit' = spsr /\ lr' = lr /\ spsr' = spsr
    BY <1>6 DEF EnterUserMode, NoInterrupt
  <2>2. TypeOK'
    BY <1>1, <1>4, <2>1 DEF PoolInv, TypeOK, Pending
  <2>3. Located' /\ PendingUnlinked'
    BY <2>1, LocatedUnfoldPrime, PendingUnfoldPrime
  <2> QED  BY <1>1, <1>4, <2>1, <2>2, <2>3 DEF PoolInv
<1> QED  BY <1>2, <1>5, <1>6

LEMMA DieKeeps ==
  ASSUME PoolInv, NEW how \in Deaths, Die(how)
  PROVE  PoolInv'
<1>1. /\ died' = how /\ ts' = ts /\ pc' = pc /\ mode' = mode /\ entry' = entry
      /\ mem' = mem /\ iBit' = iBit /\ line' = line /\ irqPending' = irqPending
      /\ lr' = lr /\ spsr' = spsr
  BY DEF Die, guest
<1>2. TypeOK'
  BY <1>1 DEF PoolInv, TypeOK
<1>3. Located' /\ (PendingUnlinked => PendingUnlinked')
  BY <1>1, LocatedUnfold, LocatedUnfoldPrime, PendingUnfold, PendingUnfoldPrime DEF PoolInv
<1> QED  BY <1>1, <1>2, <1>3 DEF PoolInv

LEMMA HypercallKeeps ==
  ASSUME PoolInv, Hypercall
  PROVE  PoolInv'
<1>1. CASE BadHypercall
  <2>1. Die("nullHandler") \/ Die("svcHandler")
    BY <1>1 DEF BadHypercall
  <2> QED  BY <2>1, DieKeeps DEF Deaths
<1> QED
  BY <1>1, BranchHypercallKeeps, EmulateHypercallKeeps, SetMaskHypercallKeeps,
     DisableMMUHypercallKeeps, StoreHypercallKeeps, ReturnHypercallKeeps DEF Hypercall

-----------------------------------------------------------------------------
(* Words that do not trap, loads and stores.                               *)

(* A word executed, or a memory access emulated, in privileged mode.       *)
LEMMA WordKeeps ==
  ASSUME PoolInv, mode = "priv", NEW p \in Host, pc' = p,
         \/ \E s \in Live(ts) : pc \in Body(ts.blocks[s]) /\ p \in Body(ts.blocks[s])
         \/ \E s \in Slot : Abandoned(ts, p, s),
         ts' \in StoreType, ts'.blocks = ts.blocks \/ Groups(ts') = {},
         AtWord(ts, p) => AtWord(ts', p),
         mem' \in Image, WellFormed(ts', mem'), line' \in BOOLEAN,
         iBit' = iBit, irqPending' = irqPending, lr' = lr, spsr' = spsr,
         mode' = mode, entry' = entry, died' = died
  PROVE  PoolInv'
<1>1. LocatedAt(ts', entry, p) /\ (StandsAlone(ts, pc) => StandsAlone(ts', p))
  BY MoveKeeps
<1>2. TypeOK'
  BY DEF PoolInv, TypeOK
<1>3. Located'
  BY <1>1, LocatedUnfoldPrime
<1>4. PendingUnlinked => PendingUnlinked'
  BY <1>1, PendingUnfold, PendingUnfoldPrime
<1> QED  BY <1>2, <1>3, <1>4 DEF PoolInv

(* The same in user mode, where the store matters to nothing.              *)
LEMMA UserWordKeeps ==
  ASSUME PoolInv, mode = "user", pc' \in Addr,
         ts' \in StoreType, mem' \in Image, WellFormed(ts', mem'), line' \in BOOLEAN,
         iBit' = iBit, irqPending' = irqPending, lr' = lr, spsr' = spsr,
         mode' = mode, entry' = entry, died' = died
  PROVE  PoolInv'
<1>1. TypeOK'
  BY DEF PoolInv, TypeOK
<1>2. Located' /\ PendingUnlinked'
  BY LocatedUnfoldPrime, PendingUnfoldPrime
<1> QED  BY <1>1, <1>2 DEF PoolInv

LEMMA FallThroughKeeps ==
  ASSUME PoolInv, FallThrough
  PROVE  PoolInv'
<1>1. /\ mode = "priv" /\ pc' = pc + 1
      /\ \/ Word0.kind = "copy"
         \/ Word0.kind \in {"svc", "b"} /\ Word0.cond
      /\ ts' = ts /\ mem' = mem /\ iBit' = iBit /\ line' = line /\ irqPending' = irqPending
      /\ lr' = lr /\ spsr' = spsr /\ mode' = mode /\ entry' = entry /\ died' = died
  BY DEF FallThrough, Priv, Stay, guest
<1>2. /\ ts \in StoreType /\ mem \in Image /\ WellFormed(ts, mem) /\ line \in BOOLEAN
  BY DEF PoolInv, TypeOK
<1> QED  BY <1>1, <1>2, NextWord, WordKeeps

LEMMA JumpToBlockKeeps ==
  ASSUME PoolInv, JumpToBlock
  PROVE  PoolInv'
<1>1. /\ mode = "priv" /\ pc' = Word0.arg /\ Word0.kind = "b"
      /\ ts' = ts /\ mem' = mem /\ iBit' = iBit /\ line' = line /\ irqPending' = irqPending
      /\ lr' = lr /\ spsr' = spsr /\ mode' = mode /\ entry' = entry /\ died' = died
  BY DEF JumpToBlock, Priv, Stay, guest
<1>2. /\ ts \in StoreType /\ WellFormed(ts, mem) /\ pc \in Int /\ pc \in Host
  BY <1>1, SizesAssumption DEF PoolInv, TypeOK, Host
<1>3. \A s \in Slot : ~ Abandoned(ts, pc, s)
  <2> SUFFICES ASSUME NEW s \in Slot, Abandoned(ts, pc, s)  PROVE FALSE
    OBVIOUS
  <2>1. PICK last \in pc .. PoolSize - 1 :
          /\ ts.code[last].kind = "svc" /\ ts.code[last].arg = s /\ ~ ts.code[last].cond
          /\ \A x \in pc .. last - 1 :
               \/ ts.code[x].kind = "copy"
               \/ ts.code[x].kind = "svc" /\ ts.code[x].arg = s
    BY DEF Abandoned
  <2>2. pc = last \/ pc \in pc .. last - 1
    BY <1>2, <2>1, SizesAssumption DEF Host
  <2> QED  BY <1>1, <2>1, <2>2 DEF Word0
<1>4. PICK s \in Live(ts) :
        /\ pc \in Body(ts.blocks[s])
        /\ ts.blocks[s].type = "GB" => ts.blocks[entry].type = "GB"
  BY <1>1, <1>3, LocatedUnfold DEF PoolInv, LocatedAt
<1>5. /\ ts.blocks[s].type = "GB"
      /\ \E u \in Live(ts) : Word0.arg = ts.blocks[u].cstart
  BY <1>1, <1>2, <1>4, BlockWords DEF Word0
<1>6. PICK u \in Live(ts) : Word0.arg = ts.blocks[u].cstart
  BY <1>5
<1>7. Word0.arg \in Host /\ Word0.arg \in Body(ts.blocks[u])
  BY <1>2, <1>6, BlockWords, SizesAssumption DEF Body, Host
<1>8. LocatedAt(ts', entry', pc')
  BY <1>1, <1>4, <1>5, <1>7 DEF LocatedAt
<1>9. PendingUnlinked => PendingUnlinked'
  <2>1. ~ StandsAlone(ts, pc)
    BY <1>4, <1>5 DEF StandsAlone
  <2> QED  BY <1>1, <2>1, PendingUnfold, PendingUnfoldPrime
<1>10. TypeOK'
  BY <1>1, <1>7 DEF PoolInv, TypeOK
<1> QED  BY <1>1, <1>2, <1>8, <1>9, <1>10, LocatedUnfoldPrime DEF PoolInv

LEMMA UserStepKeeps ==
  ASSUME PoolInv, UserStep
  PROVE  PoolInv'
<1>1. /\ mode = "user" /\ pc' \in UserAddr
      /\ ts' = ts /\ mem' = mem /\ iBit' = iBit /\ line' = line /\ irqPending' = irqPending
      /\ lr' = lr /\ spsr' = spsr /\ mode' = mode /\ entry' = entry /\ died' = died
  BY DEF UserStep, Stay, guest
<1>2. /\ ts \in StoreType /\ mem \in Image /\ WellFormed(ts, mem) /\ line \in BOOLEAN
  BY DEF PoolInv, TypeOK
<1> QED  BY <1>1, <1>2, GuestAssumption, UserWordKeeps

(* User code that loads or stores is followed by another guest word.       *)
LEMMA AfterAccess ==
  ASSUME PoolInv, AtMemoryAccess
  PROVE  /\ mode = "user" => pc + 1 \in Addr
         /\ mode = "priv" => Word0.kind = "copy"
         /\ mode \in {"priv", "user"}
<1>1. mode \in {"priv", "user"} /\ mem \in Image
  BY DEF PoolInv, TypeOK
<1>2. ASSUME mode = "user"  PROVE pc + 1 \in Addr
  <2>1. pc \in Addr /\ Decode[mem[pc]].op = "mem"
    BY <1>2 DEF PoolInv, TypeOK, AtMemoryAccess
  <2>2. pc # NumAddr - 1
    BY <1>1, <2>1 DEF Image, Leaves, IsBranch
  <2> QED  BY <2>1, <2>2, SizesAssumption DEF Addr
<1>3. mode = "priv" => Word0.kind = "copy"
  BY DEF AtMemoryAccess
<1> QED  BY <1>1, <1>2, <1>3

(* A memory access goes on with the next word, from a store it may clear.  *)
LEMMA AccessKeeps ==
  ASSUME PoolInv, AtMemoryAccess, pc' = pc + 1,
         ts' \in StoreType, ts'.blocks = ts.blocks \/ Groups(ts') = {},
         \A h \in Host : AtWord(ts, h) => AtWord(ts', h),
         mem' \in Image, WellFormed(ts', mem'), line' \in BOOLEAN,
         iBit' = iBit, irqPending' = irqPending, lr' = lr, spsr' = spsr, Stay
  PROVE  PoolInv'
<1>1. mode' = mode /\ entry' = entry /\ died' = died
  BY DEF Stay
<1>2. CASE mode = "user"
  BY <1>1, <1>2, AfterAccess, UserWordKeeps
<1>3. CASE mode = "priv"
  <2>1. Word0.kind = "copy"
    BY <1>3, AfterAccess
  <2> QED  BY <1>1, <1>3, <2>1, NextWord, WordKeeps
<1> QED  BY <1>2, <1>3, AfterAccess

LEMMA StoreKeeps ==
  ASSUME PoolInv, Store
  PROVE  PoolInv'
<1>1. /\ AtMemoryAccess /\ pc' = pc + 1 /\ iBit' = iBit /\ line' = line
      /\ irqPending' = irqPending /\ lr' = lr /\ spsr' = spsr /\ Stay
  BY DEF Store
<1>2. PICK s \in Stores :
        mem' = Written(mem, s) /\ ts' = IF Faults(s) THEN ClearStored(ts, s) ELSE ts
  BY DEF Store
<1>3. ts \in StoreType /\ mem \in Image /\ WellFormed(ts, mem) /\ line \in BOOLEAN
  BY DEF PoolInv, TypeOK
<1>4. mem' \in Image /\ WellFormed(ts, mem')
  BY <1>2, <1>3, WrittenFacts, SameLastWord
<1>5. Cleared(ts, ts', mem')
  <2> DEFINE once == ClearAddress(ts, s.addr)
             twice == ClearAddress(once, s.addr + 1)
  <2>1. Cleared(ts, once, mem')
    BY <1>3, <1>4, ClearAddressKeeps
  <2> HIDE DEF once
  <2>2. Cleared(once, twice, mem')
    BY <1>4, <2>1, ClearAddressKeeps DEF Cleared
  <2> HIDE DEF twice
  <2>3. Cleared(ts, twice, mem')
    BY <2>1, <2>2 DEF Cleared
  <2>4. Cleared(ts, ts, mem')
    BY <1>3, <1>4 DEF Cleared
  <2>5. ts' \in {ts, once, twice}
    BY <1>2 DEF ClearStored, once, twice
  <2> QED  BY <2>1, <2>3, <2>4, <2>5
<1> QED  BY <1>1, <1>3, <1>4, <1>5, AccessKeeps DEF Cleared

LEMMA EditPageTableKeeps ==
  ASSUME PoolInv, EditPageTable
  PROVE  PoolInv'
<1>1. /\ AtMemoryAccess /\ pc' = pc + 1 /\ iBit' = iBit /\ line' = line
      /\ irqPending' = irqPending /\ lr' = lr /\ spsr' = spsr /\ Stay
  BY DEF EditPageTable
<1>2. PICK r \in Remaps :
        /\ mem' = [a \in Addr |-> IF a \in Range(r) THEN r.image ELSE mem[a]]
        /\ ts' = [ClearRange(ts, r.first, r.last)
                    EXCEPT !.wprot = @ \ {Page(a) : a \in Range(r)}]
  BY DEF EditPageTable
<1>3. ts \in StoreType /\ mem \in Image /\ WellFormed(ts, mem) /\ line \in BOOLEAN
  BY DEF PoolInv, TypeOK
<1>4. mem' \in Image /\ mem'[NumAddr - 1] = mem[NumAddr - 1]
  <2>1. r.first \in Int /\ r.last \in Int /\ r.last < NumAddr - 1 /\ r.image \in Instr
    BY <1>2, GuestAssumption, SizesAssumption DEF RemapOp, Addr
  <2>2. NumAddr - 1 \in Addr /\ NumAddr - 1 \notin Range(r)
    BY <2>1, SizesAssumption DEF Addr, Range
  <2> QED  BY <1>2, <1>3, <2>1, <2>2 DEF Image
<1>5. WellFormed(ts, mem')
  BY <1>3, <1>4, SameLastWord
<1> DEFINE t == ClearRange(ts, r.first, r.last)
           pages == t.wprot \ {Page(a) : a \in Range(r)}
<1>6. Cleared(ts, t, mem')
  BY <1>3, <1>4, <1>5, ClearRangeKeeps
<1>7. ts' = [t EXCEPT !.wprot = pages]
  BY <1>2
<1> HIDE DEF t
<1>8. t \in StoreType /\ pages \in SUBSET Nat
  BY <1>6 DEF Cleared, StoreType
<1> HIDE DEF pages
<1>9. /\ ts' \in StoreType /\ ts'.blocks = t.blocks
      /\ Groups(ts') = Groups(t)
      /\ WellFormed(t, mem') => WellFormed(ts', mem')
      /\ \A h : AtWord(t, h) => AtWord(ts', h)
  BY <1>7, <1>8, UnprotectKeeps
<1> QED  BY <1>1, <1>3, <1>4, <1>6, <1>9, AccessKeeps DEF Cleared

LEMMA AcknowledgeKeeps ==
  ASSUME PoolInv, Acknowledge
  PROVE  PoolInv'
<1>1. /\ AtMemoryAccess /\ pc' = pc + 1 /\ iBit' = iBit /\ line' = FALSE
      /\ irqPending' = irqPending /\ lr' = lr /\ spsr' = spsr /\ Stay
      /\ mem' = mem /\ ts' = ts
  BY DEF Acknowledge
<1>2. ts \in StoreType /\ mem \in Image /\ WellFormed(ts, mem)
  BY DEF PoolInv, TypeOK
<1> QED  BY <1>1, <1>2, AccessKeeps

-----------------------------------------------------------------------------
(* Aborts, service calls and interrupts.                                   *)

(* A handler that throws an exception masks interrupts, and enters a block *)
(* of its vector from a well-formed store.                                 *)
LEMMA ExceptionKeeps ==
  ASSUME PoolInv, NEW t \in StoreType, WellFormed(t, mem), NEW vector \in Addr,
         mem' = mem, line' = line, irqPending' = irqPending,
         lr' \in Int, spsr' = iBit, iBit' = TRUE, EnterBlock(t, vector)
  PROVE  PoolInv'
<1>1. TypeOK /\ Located /\ WellFormed(ts, mem) /\ mem \in Image
  BY DEF PoolInv, TypeOK
<1>2. /\ ts' \in StoreType /\ WellFormed(ts', mem')
      /\ mode' \in {"priv", "user"} /\ entry' \in Slot /\ died' \in Deaths
      /\ pc' \in IF mode' = "priv" THEN Host ELSE Addr
      /\ Located'
  BY <1>1, EnterBlockKeeps
<1>3. TypeOK'
  BY <1>1, <1>2 DEF TypeOK
<1>4. PendingUnlinked'
  BY PendingUnfoldPrime
<1> QED  BY <1>2, <1>3, <1>4 DEF PoolInv

(* hostpcToGuestpc leaves a well-formed store, in which the block it was   *)
(* called from stands alone.                                               *)
LEMMA OwnerUnlinked ==
  ASSUME PoolInv, mode = "priv"
  PROVE  LET u == UnlinkOwner(ts, entry, pc)
         IN /\ u \in StoreType /\ WellFormed(u, mem)
            /\ LocatedAt(u, entry, pc) /\ StandsAlone(u, pc)
            /\ OwnerOf(ts, entry, pc) \in Slot
<1> DEFINE u == UnlinkOwner(ts, entry, pc)
<1>1. /\ ts \in StoreType /\ mem \in Image /\ WellFormed(ts, mem) /\ entry \in Slot
      /\ LocatedAt(ts, entry, pc)
  BY LocatedUnfold DEF PoolInv, TypeOK
<1>2. CASE \E s \in Live(ts) : /\ pc \in Body(ts.blocks[s])
                               /\ ts.blocks[s].type = "GB" => ts.blocks[entry].type = "GB"
  <2>1. PICK s \in Live(ts) : /\ pc \in Body(ts.blocks[s])
                              /\ ts.blocks[s].type = "GB" => ts.blocks[entry].type = "GB"
    BY <1>2
  <2>2. /\ u \in StoreType /\ WellFormed(u, mem) /\ s \in Live(u)
        /\ pc \in Body(u.blocks[s])
        /\ u.blocks[s].type = "GB" => u = ts /\ ts.blocks[entry].type # "GB"
    BY <1>1, <2>1, UnlinkOwnerKeeps
  <2>3. u.blocks[s].type # "GB"
    BY <2>1, <2>2
  <2>4. u.blocks[s].type = "BB"
    BY <2>2, <2>3 DEF StoreType, Block, BlockType, Live
  <2>5. ASSUME NEW r \in Live(u), pc \in Body(u.blocks[r])  PROVE r = s
    <3>1. pc \in u.blocks[r].cstart .. LastHypercall(u.blocks[r]) + 1
      BY <2>2, <2>5, BlockWords DEF Body
    <3> QED  BY <2>2, <3>1, BodiesApart
  <2>6. OwnerOf(ts, entry, pc) \in Slot
    BY <1>1, <2>1, FindIndexFacts DEF OwnerOf, Live
  <2> QED  BY <2>2, <2>4, <2>5, <2>6 DEF LocatedAt, StandsAlone
<1>3. CASE \E s \in Slot : Abandoned(ts, pc, s)
  <2>1. Groups(ts) = {}
    BY <1>3 DEF Abandoned
  <2>2. ts.blocks[entry].type # "GB"
    BY <1>1, <2>1 DEF Groups
  <2>3. u = ts /\ OwnerOf(ts, entry, pc) = entry
    BY <2>2 DEF UnlinkOwner, OwnerOf
  <2>4. StandsAlone(ts, pc)
    BY <1>1, <2>1 DEF StandsAlone, Groups, Live, StoreType, Block, BlockType
  <2> QED  BY <1>1, <2>3, <2>4
<1> QED  BY <1>1, <1>2, <1>3 DEF LocatedAt

(* A guest address is a number, whatever block it is mapped back from.     *)
LEMMA GuestPCType ==
  ASSUME NEW t \in StoreType, NEW m, NEW e, NEW h \in Host, OwnerOf(t, e, h) \in Slot
  PROVE  GuestPC(t, m, e, h) \in Int
<1> DEFINE b == t.blocks[OwnerOf(t, e, h)]
<1>1. b \in Block
  BY DEF StoreType
<1>2. b.gstart \in Int /\ b.cstart \in Int /\ h \in Int
  BY <1>1, SizesAssumption DEF Block, Addr, Host, Null
<1>3. GuestPC(t, m, e, h) = IF h = b.cstart THEN b.gstart ELSE Rescan(m, b, h)
  BY DEF GuestPC
<1> HIDE DEF b
<1>4. Rescan(m, b, h) \in Int
  BY <1>2 DEF Rescan, Null
<1> QED  BY <1>2, <1>3, <1>4

LEMMA TranslationFaultKeeps ==
  ASSUME PoolInv, TranslationFault
  PROVE  PoolInv'
<1>1. /\ ts \in StoreType /\ WellFormed(ts, mem) /\ mode \in {"priv", "user"}
      /\ AbtVector \in Addr
  BY GuestAssumption DEF PoolInv, TypeOK
<1>2. CASE mode = "user"
  <2>1. DeliverDataAbort(ts, pc) /\ pc \in Int
    BY <1>2, SizesAssumption DEF TranslationFault, PoolInv, TypeOK, Addr
  <2> QED  BY <1>1, <2>1, ExceptionKeeps DEF DeliverDataAbort
<1>3. CASE mode = "priv"
  <2> DEFINE a == GuestPC(ts, mem, entry, pc)
  <2>1. CASE a = Null
    <3>1. Die("rescanDied")
      BY <1>3, <2>1 DEF TranslationFault
    <3> QED  BY <3>1, DieKeeps DEF Deaths
  <2>2. CASE a # Null
    <3>1. DeliverDataAbort(UnlinkOwner(ts, entry, pc), a)
      BY <1>3, <2>2 DEF TranslationFault
    <3>2. /\ UnlinkOwner(ts, entry, pc) \in StoreType
          /\ WellFormed(UnlinkOwner(ts, entry, pc), mem)
          /\ OwnerOf(ts, entry, pc) \in Slot
      BY <1>3, OwnerUnlinked
    <3>3. pc \in Host
      BY <1>3 DEF PoolInv, TypeOK
    <3>4. a \in Int
      BY <1>1, <3>2, <3>3, GuestPCType
    <3> HIDE DEF a
    <3> QED  BY <1>1, <3>1, <3>2, <3>4, ExceptionKeeps DEF DeliverDataAbort
  <2> QED  BY <2>1, <2>2
<1> QED  BY <1>1, <1>2, <1>3

LEMMA PermissionFaultKeeps ==
  ASSUME PoolInv, PermissionFault
  PROVE  PoolInv'
<1> DEFINE a == IF mode = "user" THEN pc ELSE HostAddress(pc)
<1>1. /\ ts \in StoreType /\ WellFormed(ts, mem) /\ AbtVector \in Addr
  BY GuestAssumption DEF PoolInv, TypeOK
<1>2. DeliverDataAbort(ts, a)
  BY DEF PermissionFault
<1>3. a \in Int
  BY SizesAssumption DEF PoolInv, TypeOK, HostAddress, Addr, Host
<1> HIDE DEF a
<1> QED  BY <1>1, <1>2, <1>3, ExceptionKeeps DEF DeliverDataAbort

LEMMA ServiceCallKeeps ==
  ASSUME PoolInv, ServiceCall
  PROVE  PoolInv'
<1>1. /\ ts \in StoreType /\ WellFormed(ts, mem) /\ SvcVector \in Addr /\ pc + 1 \in Int
  BY GuestAssumption, SizesAssumption DEF PoolInv, TypeOK, ServiceCall, Addr
<1>2. /\ lr' = pc + 1 /\ spsr' = iBit /\ iBit' = TRUE
      /\ mem' = mem /\ line' = line /\ irqPending' = irqPending
      /\ EnterBlock(ts, SvcVector)
  BY DEF ServiceCall
<1> QED  BY <1>1, <1>2, ExceptionKeeps

LEMMA TimerIrqKeeps ==
  ASSUME PoolInv, TimerIrq
  PROVE  PoolInv'
<1>1. CASE InGroup /\ mode = "user"
  <2>1. Die("irqScanOutsideStore")
    BY <1>1 DEF TimerIrq
  <2> QED  BY <2>1, DieKeeps DEF Deaths
<1>2. CASE ~ (InGroup /\ mode = "user")
  <2>1. /\ line' = TRUE /\ irqPending' = (irqPending \/ ~ iBit)
        /\ mem' = mem /\ iBit' = iBit /\ lr' = lr /\ spsr' = spsr
        /\ ts' = UnlinkOwner(ts, entry, pc)
        /\ pc' = pc /\ mode' = mode /\ entry' = entry /\ died' = died
    BY <1>2 DEF TimerIrq, ThrowInterrupt, Stay
  <2>2. mode \in {"priv", "user"} /\ TypeOK /\ WellFormed(ts, mem)
    BY DEF PoolInv, TypeOK
  <2>3. CASE mode = "user"
    <3>1. ts' = ts
      BY <1>2, <2>1, <2>3 DEF UnlinkOwner, InGroup
    <3>2. TypeOK'
      BY <2>1, <2>2, <3>1 DEF TypeOK
    <3>3. Located' /\ PendingUnlinked'
      BY <2>1, <2>3, LocatedUnfoldPrime, PendingUnfoldPrime
    <3> QED  BY <2>1, <2>2, <3>1, <3>2, <3>3 DEF PoolInv
  <2>4. CASE mode = "priv"
    <3>1. /\ ts' \in StoreType /\ WellFormed(ts', mem)
          /\ LocatedAt(ts', entry, pc) /\ StandsAlone(ts', pc)
      BY <2>1, <2>4, OwnerUnlinked
    <3>2. TypeOK'
      BY <2>1, <2>2, <3>1 DEF TypeOK
    <3>3. Located' /\ PendingUnlinked'
      BY <2>1, <3>1, LocatedUnfoldPrime, PendingUnfoldPrime
    <3> QED  BY <2>1, <3>1, <3>2, <3>3 DEF PoolInv
  <2> QED  BY <2>2, <2>3, <2>4
<1> QED  BY <1>1, <1>2

LEMMA UartIrqKeeps ==
  ASSUME PoolInv, UartIrq
  PROVE  PoolInv'
<1>1. /\ "UART3" \in Irqs /\ line' = TRUE /\ irqPending' = (irqPending \/ ~ iBit)
      /\ mem' = mem /\ iBit' = iBit /\ lr' = lr /\ spsr' = spsr
      /\ ts' = ts /\ pc' = pc /\ mode' = mode /\ entry' = entry /\ died' = died
  BY DEF UartIrq, ThrowInterrupt, Stay
<1>2. TypeOK'
  BY <1>1 DEF PoolInv, TypeOK
<1>3. Located'
  BY <1>1, LocatedUnfold, LocatedUnfoldPrime DEF PoolInv
<1> QED  BY <1>1, <1>2, <1>3 DEF PoolInv

-----------------------------------------------------------------------------
(* The loader translates the first block into an empty store.              *)
LEMMA InitKeeps ==
  ASSUME Init
  PROVE  PoolInv
<1> DEFINE s == Hash(EntryPoint)
<1>1. Program \in Image /\ EntryPoint \in Addr /\ EntryPoint \in Int
  BY GuestAssumption, SizesAssumption DEF Addr
<1>2. s \in Slot
  BY <1>1, SizesAssumption DEF Hash, Slot, Addr
<1>3. EmptyStore \in StoreType /\ Live(EmptyStore) = {} /\ WellFormed(EmptyStore, Program)
  BY EmptyStoreKeeps, NoBlocksWellFormed
<1>4. /\ mem = Program /\ ts = FillSlot(EmptyStore, Program, EntryPoint, s)
      /\ pc = ts.blocks[s].cstart /\ entry = s /\ mode = "priv"
      /\ iBit = TRUE /\ line = FALSE /\ irqPending = FALSE
      /\ lr = EntryPoint /\ spsr = TRUE /\ died = "none"
  BY DEF Init, Booted
<1> HIDE DEF s
<1>5. ts \in StoreType /\ WellFormed(ts, mem) /\ s \in Live(ts)
  BY <1>1, <1>2, <1>3, <1>4, FillSlotType, FillSlotWellFormed, FilledBlock
<1>6. pc \in Body(ts.blocks[s]) /\ pc \in Host
  BY <1>4, <1>5, BlockWords, SizesAssumption DEF Body, Host
<1>7. TypeOK
  BY <1>1, <1>2, <1>4, <1>5, <1>6 DEF TypeOK, Deaths
<1>8. Located
  BY <1>4, <1>5, <1>6, LocatedUnfold DEF LocatedAt
<1>9. PendingUnlinked
  BY <1>4, PendingUnfold
<1> QED  BY <1>5, <1>7, <1>8, <1>9 DEF PoolInv

LEMMA StutterKeeps ==
  ASSUME PoolInv, UNCHANGED vars
  PROVE  PoolInv'
<1>1. /\ ts' = ts /\ pc' = pc /\ mode' = mode /\ entry' = entry /\ died' = died
      /\ mem' = mem /\ iBit' = iBit /\ line' = line /\ irqPending' = irqPending
      /\ lr' = lr /\ spsr' = spsr
  BY DEF vars
<1>2. TypeOK'
  BY <1>1 DEF PoolInv, TypeOK
<1>3. Located' /\ (PendingUnlinked => PendingUnlinked')
  BY <1>1, LocatedUnfold, LocatedUnfoldPrime, PendingUnfold, PendingUnfoldPrime DEF PoolInv
<1> QED  BY <1>1, <1>2, <1>3 DEF PoolInv

(* The shape of the translation store, and the place of the guest in it,   *)
(* are what the C code believes them to be in every reachable state.       *)
THEOREM PoolInvariant == Spec => []PoolInv
<1>1. Init => PoolInv
  BY InitKeeps
<1>2. PoolInv /\ [Next]_vars => PoolInv'
  <2>1. ASSUME PoolInv, GuestStep  PROVE PoolInv'
    BY <2>1, HypercallKeeps, FallThroughKeeps, JumpToBlockKeeps, UserStepKeeps, StoreKeeps,
       EditPageTableKeeps, AcknowledgeKeeps, TranslationFaultKeeps, PermissionFaultKeeps,
       ServiceCallKeeps DEF GuestStep
  <2> QED  BY <2>1, TimerIrqKeeps, UartIrqKeeps, StutterKeeps DEF Next
<1> QED  BY <1>1, <1>2, PTL DEF Spec

(* Every variable keeps the type of its C counterpart: no slot number,     *)
(* pool index or guest address ever leaves its table.                      *)
THEOREM TypeCorrect == Spec => []TypeOK
<1>1. PoolInv => TypeOK
  BY DEF PoolInv
<1> QED  BY <1>1, PoolInvariant, PTL

(* A block of type BB contains no branch to another block, so the clearing *)
(* functions and irq() miss no link when they unlink group blocks only.    *)
THEOREM LinksAreInGroups == Spec => []LinkedIsGroup
<1>1. PoolInv => LinkedIsGroup
  <2> SUFFICES ASSUME PoolInv, NEW s \in Live(ts), ts.blocks[s].type = "BB",
                      NEW h \in Body(ts.blocks[s])
               PROVE  ts.code[h].kind # "b"
    BY DEF LinkedIsGroup
  <2> QED  BY BlockWords DEF PoolInv, TypeOK
<1> QED  BY <1>1, PoolInvariant, PTL

(* Without the serial port, whose interrupts irq() does not unlink for, an *)
(* interrupt that is owed always finds the guest in a block whose only     *)
(* ways out are hypercalls.                                                *)
THEOREM PendingInterruptsComeBack ==
  ASSUME "UART3" \notin Irqs
  PROVE  Spec => []PendingComesBack
<1>1. PoolInv => PendingComesBack
  <2> SUFFICES ASSUME PoolInv, irqPending, ~ iBit, mode = "priv",
                      NEW s \in Here, NEW h \in Body(ts.blocks[s])
               PROVE  ts.code[h].kind # "b"
    BY DEF PendingComesBack
  <2>1. s \in Live(ts) /\ ts.blocks[s].type = "BB"
    BY DEF PoolInv, PendingUnlinked, Here
  <2> QED  BY <2>1, BlockWords DEF PoolInv, TypeOK
<1> QED  BY <1>1, PoolInvariant, PTL
=============================================================================
