-------------------------- MODULE TranslationStore --------------------------
(***************************************************************************)
(* The translation store of the hypervisor: the table of basic blocks, the *)
(* pool of translated code they own, and the bitmap of guest pages that    *)
(* were ever translated (guestManager/basicBlockStore.c,                   *)
(* guestManager/translationStore.c), with the functions that fill, link    *)
(* and map it back (instructionEmu/scanner.c, blockLinker.c and            *)
(* translator/translator.c).                                               *)
(*                                                                         *)
(* Some operators are preceded by a mutated form of them, with a mistake    *)
(* the C function could well have made; nothing uses it but the checks     *)
(* that the properties can tell it from the original.                      *)
(*                                                                         *)
(* The module has no variables.  A translation store is a record           *)
(*   [blocks, code, free, exec, wprot]                                     *)
(* and each C function is an operator from store to store, so that a       *)
(* handler that calls several of them is one action that composes them.    *)
(*                                                                         *)
(* Guest memory is a function m from word addresses to instruction names;  *)
(* Decode gives what the scanner and the handlers need of an instruction.  *)
(* A guest instruction that is copied or patched is one word of the pool:  *)
(* the PC-patching sequences and the link-register prologue of a           *)
(* branch-with-link only make a block longer.                              *)
(***************************************************************************)
EXTENDS Integers

CONSTANTS
  NumAddr,      \* guest words, at addresses 0 .. NumAddr - 1
  PageSize,     \* guest words per small page
  FirstPage,    \* number of the page of guest address 0
  PagesPerByte, \* pages per byte of the execution bitmap
  StoreSize,    \* slots of the basic block store
  PoolSize,     \* words of the code cache pool
  Instr,        \* names of guest instructions
  Decode        \* what the decoder says of each of them

Addr == 0 .. NumAddr - 1
Slot == 0 .. StoreSize - 1
Host == 0 .. PoolSize - 1

Null == -1      \* a C null pointer, and the fields of a zeroed slot

(* Instructions the scanner copies, and those it replaces by a hypercall.  *)
CopiedOp   == {"safe", "mem"}
ReplacedOp == {"branch", "crit", "cps", "mmu", "strt", "eret", "svc"}
NoHandler  == "none"

Decoding == [op : CopiedOp \cup ReplacedOp, cond : BOOLEAN, target : Addr]

ASSUME SizesAssumption ==
  /\ NumAddr \in Nat \ {0}   /\ PageSize \in Nat \ {0}
  /\ FirstPage \in Nat       /\ PagesPerByte \in Nat \ {0}
  /\ StoreSize \in Nat \ {0} /\ PoolSize \in Nat \ {0}

ASSUME DecodeAssumption == Decode \in [Instr -> Decoding]

Replaced(i) == Decode[i].op \in ReplacedOp
IsBranch(i) == Decode[i].op = "branch"

(* A guest image: whatever it holds, the last word leaves for elsewhere.   *)
Leaves(i) == Decode[i].op = "eret" \/ (IsBranch(i) /\ ~ Decode[i].cond)
Image == {m \in [Addr -> Instr] : Leaves(m[NumAddr - 1])}

(* The longest block fits in the pool.                                     *)
ASSUME PoolAssumption == PoolSize > NumAddr + 3

-----------------------------------------------------------------------------
(* Words of the pool.  A copied word remembers the guest word it stands    *)
(* for; arg is the slot number of a hypercall or of the index word, and    *)
(* the target of a branch; cond tells a conditional word from an AL one.   *)

Word == [kind : {"empty", "copy", "svc", "b", "index"},
         arg : Int, cond : BOOLEAN, instr : Instr \cup {NoHandler}]

EmptyWord      == [kind |-> "empty", arg |-> 0, cond |-> FALSE, instr |-> NoHandler]
CopyWord(i)    == [kind |-> "copy", arg |-> 0, cond |-> FALSE, instr |-> i]
SvcWord(s, c)  == [kind |-> "svc", arg |-> s, cond |-> c, instr |-> NoHandler]
JumpWord(h, c) == [kind |-> "b", arg |-> h, cond |-> c, instr |-> NoHandler]
IndexWord(s)   == [kind |-> "index", arg |-> s, cond |-> FALSE, instr |-> NoHandler]

(* A slot of the basic block store.  BB is a block that stands alone, GB   *)
(* one that branches to another block or is branched to.                   *)
BlockType == {"INVALID", "BB", "GB"}

Block == [type : BlockType, gstart : Addr \cup {Null}, gend : Addr \cup {Null},
          cstart : Host \cup {Null}, csize : Nat,
          handler : ReplacedOp \cup {NoHandler}, one : BOOLEAN]

NullBlock == [type |-> "INVALID", gstart |-> Null, gend |-> Null,
              cstart |-> Null, csize |-> 0, handler |-> NoHandler, one |-> FALSE]

Page(a) == FirstPage + a \div PageSize

StoreType == [blocks : [Slot -> Block], code : [Host -> Word], free : Host,
              exec : SUBSET Nat, wprot : SUBSET Nat]

EmptyStore == [blocks |-> [s \in Slot |-> NullBlock],
               code |-> [h \in Host |-> EmptyWord],
               free |-> 0, exec |-> {}, wprot |-> {}]

Live(t) == {s \in Slot : t.blocks[s].type # "INVALID"}
Groups(t) == {s \in Slot : t.blocks[s].type = "GB"}

(* Position of the hypercall, or of the last of two, of a block: the word  *)
(* before the block index.                                                 *)
LastHypercall(b) == b.cstart + b.csize - 2

(* The words a block executes.                                             *)
Body(b) == b.cstart .. LastHypercall(b)

-----------------------------------------------------------------------------
(* getBlockInfo: open addressing from the hash of the address.  The probe  *)
(* does not wrap: StoreSize stands for having run off the end of the table.*)

Hash(a) == a % StoreSize

ProbeStopsAtEmpty(t, a, s) == t.blocks[s].type = "INVALID"
ProbeStops(t, a, s) == t.blocks[s].type = "INVALID" \/ t.blocks[s].gstart = a

Probe(t, a) ==
  IF \E s \in Hash(a) .. StoreSize - 1 : ProbeStops(t, a, s)
  THEN CHOOSE s \in Hash(a) .. StoreSize - 1 :
         /\ ProbeStops(t, a, s)
         /\ \A r \in Hash(a) .. s - 1 : ~ ProbeStops(t, a, r)
  ELSE StoreSize

Found(t, a) == Probe(t, a) \in Live(t)

(* isExecBitSet and setExecBitmap: only the first and the last page of a   *)
(* block are entered.  For the last one the code reads the byte numbered   *)
(* by the bit index, sets the bit in it, and stores it in the right byte.  *)

ExecBit(t, a) == Page(a) \in t.exec

ByteOf(p) == p \div PagesPerByte
BitOf(p)  == p % PagesPerByte
PagesOfByte(y, bits) == {y * PagesPerByte + b : b \in bits}

SetExecAssigns(exec, first, last) ==
  {x \in exec : ByteOf(x) # ByteOf(Page(first))} \cup {Page(first)}

SetExec(exec, first, last) ==
  LET p == Page(first)
      q == Page(last)
      withFirst == exec \cup {p}
      readBits == {b \in 0 .. PagesPerByte - 1 : BitOf(q) * PagesPerByte + b \in withFirst}
      others == {x \in withFirst : ByteOf(x) # ByteOf(q)}
  IN IF p = q \/ BitOf(q) \in readBits
     THEN withFirst
     ELSE others \cup PagesOfByte(ByteOf(q), readBits \cup {BitOf(q)})

(* guestWriteProtect over the words of a block: every page it touches.     *)
WriteProtectShort(wprot, first, last) == wprot \cup {Page(a) : a \in first .. last - 1}
WriteProtect(wprot, first, last) == wprot \cup {Page(a) : a \in first .. last}

-----------------------------------------------------------------------------
(* scanArmBlock: the block of a guest address runs to the first            *)
(* instruction that must be replaced.                                      *)

BlockEnd(m, a) ==
  CHOOSE e \in a .. NumAddr - 1 :
    Replaced(m[e]) /\ \A x \in a .. e - 1 : ~ Replaced(m[x])

TwoHypercalls(i) == IsBranch(i) /\ Decode[i].cond

BlockLength(m, a) ==
  LET e == BlockEnd(m, a) IN e - a + IF TwoHypercalls(m[e]) THEN 3 ELSE 2

BlockWord(m, a, s, k) ==
  LET e == BlockEnd(m, a)
      n == BlockLength(m, a)
  IN IF a + k < e THEN CopyWord(m[a + k])
     ELSE IF k = n - 1 THEN IndexWord(s)
     ELSE SvcWord(s, k = n - 3)

(* addInstructionToBlock moves a block that reaches the end of the pool to *)
(* its front, and zeroes every other slot.  oneHypercall is not put back,  *)
(* so it survives only when a later word sets it again: not when the last  *)
(* word, the block index, is the one that reaches the end.                 *)
ReachesEndLate(t, n) == t.free + n > PoolSize
ReachesEnd(t, n) == t.free + n >= PoolSize

OneHypercallNotRestored(t, m, a) ==
  ~ TwoHypercalls(m[BlockEnd(m, a)]) /\ ~ ReachesEnd(t, BlockLength(m, a))
OneHypercall(t, m, a) ==
  ~ TwoHypercalls(m[BlockEnd(m, a)]) /\ t.free + BlockLength(m, a) # PoolSize

FillSlot(t, m, a, s) ==
  LET e == BlockEnd(m, a)
      n == BlockLength(m, a)
      wraps == ReachesEnd(t, n)
      start == IF wraps THEN 0 ELSE t.free
      block == [type |-> "BB", gstart |-> a, gend |-> e, cstart |-> start, csize |-> n,
                handler |-> Decode[m[e]].op, one |-> OneHypercall(t, m, a)]
  IN [blocks |-> [r \in Slot |-> IF r = s THEN block
                                 ELSE IF wraps THEN NullBlock
                                 ELSE t.blocks[r]],
      code |-> [h \in Host |->
                  IF h \in start .. start + n - 1 THEN BlockWord(m, a, s, h - start)
                  ELSE IF wraps /\ h >= t.free THEN BlockWord(m, a, s, h - t.free)
                  ELSE t.code[h]],
      free |-> start + n,
      exec |-> SetExec(t.exec, a, e),
      wprot |-> WriteProtect(t.wprot, a, e)]

(* scanBlock: a hit leaves the store alone, a miss translates the block.   *)
Scan(t, m, a) == IF Found(t, a) THEN t ELSE FillSlot(t, m, a, Probe(t, a))

-----------------------------------------------------------------------------
(* linkBlock: the hypercall just executed, at host, becomes a branch to    *)
(* the block of guest address next, when that has been translated.         *)
LinkConditionOfBlock(b, m, host) == Decode[m[b.gend]].cond
LinkCondition(b, m, host) == host # LastHypercall(b) /\ Decode[m[b.gend]].cond

GroupOfLinkNext(s, next) == {next}
GroupOfLink(s, next) == {s, next}

Link(t, m, next, host, s) ==
  IF ~ Found(t, next) THEN t
  ELSE LET u == Probe(t, next)
           jump == JumpWord(t.blocks[u].cstart, LinkCondition(t.blocks[s], m, host))
       IN [t EXCEPT
            !.code = [@ EXCEPT ![host] = jump],
            !.blocks = [r \in Slot |-> IF r \in GroupOfLink(s, u)
                                       THEN [@[r] EXCEPT !.type = "GB"]
                                       ELSE @[r]]]

(* unlinkBlock on every slot of a set: put the hypercalls back.            *)
RestoredLast(b) == {LastHypercall(b)}
Restored(b) == {LastHypercall(b)} \cup IF b.one THEN {} ELSE {LastHypercall(b) - 1}

Unlink(t, slots) ==
  LET hypercall(s, h) == SvcWord(s, h # LastHypercall(t.blocks[s]) /\ t.code[h].cond)
      owner(h) == CHOOSE s \in slots : h \in Restored(t.blocks[s])
  IN [t EXCEPT
       !.code = [h \in Host |-> IF \E s \in slots : h \in Restored(t.blocks[s])
                                THEN hypercall(owner(h), h)
                                ELSE @[h]],
       !.blocks = [s \in Slot |-> IF s \in slots THEN [@[s] EXCEPT !.type = "BB"] ELSE @[s]]]

(* The common loop of the two clearing functions: group blocks are         *)
(* unlinked, and the slots of the doomed blocks are zeroed.                *)
ClearSlotsLinked(t, doomed) ==
  [t EXCEPT !.blocks = [s \in Slot |-> IF s \in doomed THEN NullBlock ELSE @[s]]]

ClearSlots(t, doomed) ==
  LET unlinked == Unlink(t, Groups(t))
  IN [unlinked EXCEPT !.blocks = [s \in Slot |-> IF s \in doomed THEN NullBlock ELSE @[s]]]

(* clearTranslationsByAddress *)
ClearAddressShort(t, a) ==
  IF ~ ExecBit(t, a) THEN t
  ELSE ClearSlots(t, {s \in Slot : t.blocks[s].gstart <= a /\ a < t.blocks[s].gend})
ClearAddress(t, a) ==
  IF ~ ExecBit(t, a) THEN t
  ELSE ClearSlots(t, {s \in Slot : t.blocks[s].gstart <= a /\ a <= t.blocks[s].gend})

(* clearTranslationsByAddressRange *)
ClearRange(t, first, last) ==
  IF ~ ExecBit(t, first) /\ ~ ExecBit(t, last) THEN t
  ELSE ClearSlots(t, {s \in Slot : \/ t.blocks[s].gstart \in first .. last
                                   \/ t.blocks[s].gend \in first .. last})

(* clearTranslationsAll *)
ClearAllButBlocks(t) == [t EXCEPT !.code = EmptyStore.code, !.free = 0]
ClearAll(t) == [t EXCEPT !.blocks = EmptyStore.blocks, !.code = EmptyStore.code, !.free = 0]

-----------------------------------------------------------------------------
(* findBlockIndexNumber: the slot of the block that the word at host is    *)
(* in, read off the words that follow it.                                  *)

ExitsAt(t, host) ==
  CHOOSE h \in host .. PoolSize - 1 :
    /\ t.code[h].kind \in {"svc", "b"}
    /\ \A x \in host .. h - 1 : t.code[x].kind \notin {"svc", "b"}

FindIndex(t, host) ==
  LET h == ExitsAt(t, host)
  IN IF t.code[h].kind = "svc" THEN t.code[h].arg
     ELSE IF t.code[h + 1].kind = "b" THEN t.code[h + 2].arg
     ELSE t.code[h + 1].arg

(* rescanBlock: the guest address of the word at host, found by scanning   *)
(* block b again; Null where the scan dies.                                *)
RescanEarly(m, b, host) ==
  IF b.type # "INVALID" /\ host > b.cstart /\ b.gstart + host - b.cstart <= BlockEnd(m, b.gstart)
  THEN b.gstart + host - b.cstart - 1
  ELSE Null

Rescan(m, b, host) ==
  LET offset == IF host < b.cstart THEN 0 ELSE host - b.cstart
  IN IF b.type # "INVALID" /\ b.gstart + offset < BlockEnd(m, b.gstart)
     THEN b.gstart + offset
     ELSE Null

(* hostpcToGuestpc: the slot it decides the host address belongs to, the   *)
(* store it leaves, and the guest address it returns.                      *)
OwnerIsEntry(t, entry, host) == entry
OwnerOf(t, entry, host) ==
  IF t.blocks[entry].type = "GB" THEN FindIndex(t, host) ELSE entry

UnlinkEntry(t, entry, host) ==
  IF t.blocks[entry].type = "GB" THEN Unlink(t, {entry}) ELSE t
UnlinkOwner(t, entry, host) ==
  IF t.blocks[entry].type = "GB" THEN Unlink(t, {FindIndex(t, host)}) ELSE t

GuestPC(t, m, entry, host) ==
  LET b == t.blocks[OwnerOf(t, entry, host)]
  IN IF host = b.cstart THEN b.gstart ELSE Rescan(m, b, host)

-----------------------------------------------------------------------------
(* What every function above keeps, whatever guest memory holds.           *)

(* A way out of the block of slot s: its hypercall, or once it is linked a *)
(* branch to a live block.                                                 *)
Exit(t, s, w) ==
  \/ w.kind = "svc" /\ w.arg = s
  \/ /\ w.kind = "b" /\ t.blocks[s].type = "GB"
     /\ \E u \in Live(t) : w.arg = t.blocks[u].cstart

(* Copied words, then one or two ways out, then the number of the slot.    *)
WellFormedCode(t, s) ==
  LET b == t.blocks[s]
      last == LastHypercall(b)
  IN /\ b.cstart \in Nat /\ b.csize >= 2 /\ b.cstart + b.csize <= t.free
     /\ b.one \/ b.csize > 2 \/ b.cstart = 0
     /\ \A h \in b.cstart .. last - 2 : t.code[h].kind = "copy"
     /\ \/ last = b.cstart
        \/ t.code[last - 1].kind = "copy"
        \/ ~ b.one /\ Exit(t, s, t.code[last - 1])
     /\ Exit(t, s, t.code[last]) /\ ~ t.code[last].cond
     /\ t.code[last + 1].kind = "index" /\ t.code[last + 1].arg = s

(* The guest has a word after the block, when it may go on there.          *)
WellFormedGuest(t, m, s) ==
  LET b == t.blocks[s]
  IN /\ b.gstart \in Addr /\ b.gend \in Addr /\ b.handler \in ReplacedOp
     /\ b.gend < NumAddr - 1 \/ b.handler = Decode[m[b.gend]].op

Apart(b, c) == b.cstart + b.csize <= c.cstart \/ c.cstart + c.csize <= b.cstart

WellFormed(t, m) ==
  /\ \A s \in Live(t) : WellFormedCode(t, s) /\ WellFormedGuest(t, m, s)
  /\ \A r, s \in Live(t) : r # s => Apart(t.blocks[r], t.blocks[s])

(* The words from h to the last hypercall of a block whose slot s has been *)
(* emptied; nothing is linked any more.                                    *)
Abandoned(t, h, s) ==
  /\ Groups(t) = {} /\ s \notin Live(t)
  /\ \E last \in h .. PoolSize - 1 :
       /\ t.code[last].kind = "svc" /\ t.code[last].arg = s /\ ~ t.code[last].cond
       /\ \A x \in h .. last - 1 :
            \/ t.code[x].kind = "copy"
            \/ t.code[x].kind = "svc" /\ t.code[x].arg = s
=============================================================================
