--------------------------- MODULE ShadowTables ---------------------------
(***************************************************************************)
(* The memory manager.  The guest never runs on its own page tables but on *)
(* two shadow tables, one for its privileged and one for its user mode,    *)
(* filled on demand from the guest's tables when an access faults.  The    *)
(* pages that hold a guest table in use, or translated code, are write     *)
(* protected in the shadow tables, so that a store to them faults and is   *)
(* emulated.  Modelled: addressing.c, shadowMap.c, pageTable.c,            *)
(* pageTableInfo.c, memoryProtection.c, the fault handlers, the store to   *)
(* memory, and the coprocessor registers that switch tables.               *)
(*                                                                         *)
(* A DIE_NOW anywhere stops the hypervisor.  A guest always runs in the    *)
(* processor's user mode, so only the user half of a shadow entry's        *)
(* permission matters.                                                     *)
(***************************************************************************)
EXTENDS GuestMmu, FiniteSets, SequencesExt

CONSTANTS
  DeviceMegabytes,  \* physical megabytes outside the memory
  HypervisorMemory, \* physical megabytes the hypervisor lives in
  HostMegabytes,    \* virtual megabytes with pages of the hypervisor's own
  HostDomain,       \* HYPERVISOR_ACCESS_DOMAIN
  MaxCopies,        \* bound: records of the same table at the same megabyte
  CodeRanges,       \* runs of pages that a basic block of the guest spans
  StoreSizes,       \* sizes of the stores that are emulated
  Guest             \* what the guest does, of "ttbr", "actlr" and "boot"

ASSUME BoundAssumption == MaxCopies \in Nat \ {0}

VARIABLES
  mm,            \* the memory manager's own state, see TypeOK
  guestPhysical  \* base of the guest's first level table, or NoBase

vars == <<first, second, ttbr, enabled, privileged, dacr, mm, guestPhysical>>

Modes == {"user", "priv"}

ActiveIn(priv) == IF priv THEN "priv" ELSE "user"
shadowActive   == ActiveIn(privileged)

-----------------------------------------------------------------------------
(* A shadow table maps a megabyte as a section, or by the small pages of a  *)
(* table of its own.                                                        *)

NoPages == [o \in Offsets |-> Fault]

FreshTable == [m \in Megabytes |->
  IF m \in HostMegabytes THEN [type |-> "table", dom |-> HostDomain, page |-> NoPages]
                         ELSE Fault]

(* splitSectionToSmallPages: the pages of a shadow entry.                   *)
Split(e) ==
  IF e.type = "section"
    THEN [o \in Offsets |-> [type |-> "page", frame |-> PageAt(e.mb, o), ap |-> e.ap]]
    ELSE e.page

ShadowPage(table, v) ==
  LET e == table[Megabyte(v)] IN
  IF e.type = "fault" THEN Fault ELSE Split(e)[Offset(v)]

(* Where the walk of the shadow entry ends for guest code (user rights).    *)
Granted(p, write) == p.ap = "rw_rw" \/ (p.ap = "rw_ro" /\ ~ write)

(* The small pages that may be written become read only.                    *)
WriteProtect(table, pages) ==
  [m \in Megabytes |->
     IF table[m].type = "fault" \/ \A v \in pages : Megabyte(v) # m THEN table[m]
     ELSE [type |-> "table", dom |-> table[m].dom,
           page |-> [o \in Offsets |-> LET p == Split(table[m])[o] IN
                       IF PageAt(m, o) \in pages /\ p.type = "page" /\ p.ap = "rw_rw"
                         THEN [p EXCEPT !.ap = "rw_ro"] ELSE p]]]

GuestWriteProtect(m, pages) ==
  [m EXCEPT !.user = WriteProtect(@, pages), !.priv = WriteProtect(@, pages)]

Before(v, w) == v[1] < w[1] \/ (v[1] = w[1] /\ v[2] <= w[2])
Start(range) == CHOOSE v \in range : \A w \in range : Before(v, w)

(* writeProtectRange: the first level entry is the one of the range's start *)
(* for every page of the range.                                             *)
StartOnly(range) == {Start(range)}
RangeFrom(range) == {PageAt(Megabyte(Start(range)), Offset(v)) : v \in range}

Die(m) == [m EXCEPT !.alive = FALSE]

(* A shadow table gets a first level entry, an entry a small page.          *)
Put(m, t, mb, e)  == [m EXCEPT ![t] = [@ EXCEPT ![mb] = e]]
PutPage(e, o, p)  == [e EXCEPT !.page = [@ EXCEPT ![o] = p]]

(* mapAccessPermissionBits, for a mapping made while the guest is in mode t.*)
MapAccessPermissionBits(t, ap, dom) ==
  CASE dacr[dom] = "none"    -> "rw_no"
    [] dacr[dom] = "manager" -> "rw_rw"
    [] OTHER ->
       CASE ap = "no_no" -> "rw_no"
         [] ap = "rw_no" -> IF t = "priv" THEN "rw_rw" ELSE "rw_no"
         [] ap = "rw_ro" -> IF t = "priv" THEN "rw_rw" ELSE "rw_ro"
         [] ap = "rw_rw" -> "rw_rw"
         [] ap = "ro_no" -> IF t = "priv" THEN "rw_ro" ELSE "rw_no"
         [] ap = "deprecated" -> IF t = "priv" THEN "rw_rw" ELSE "rw_ro"
         [] OTHER -> "rw_ro"

-----------------------------------------------------------------------------
(* Mapping on demand.                                                       *)

SetPermissions(e, ap) ==
  IF e.type = "section" THEN [e EXCEPT !.ap = ap]
  ELSE [e EXCEPT !.page = [o \in Offsets |->
          IF @[o].type = "page" THEN [@[o] EXCEPT !.ap = ap] ELSE @[o]]]

BaseIn(g) == guestPhysical # NoBase /\ Megabyte(guestPhysical) = g.mb

(* The guest's tables in a section, at the pages of megabyte mb.            *)
TablesIn(m, mb, g) ==
  (IF BaseIn(g) THEN {PageAt(mb, Offset(guestPhysical))} ELSE {})
    \cup {PageAt(mb, Offset(i.table.frame)) :
            i \in {j \in Range(m.gptInfo) : Megabyte(j.table.frame) = g.mb}}

(* mapAPBitsSection: the guest's permissions on every page of the megabyte, *)
(* and write protection again for the tables that live in it.               *)
MapAPBitsSection(m, t, mb, g) ==
  LET e == SetPermissions(m[t][mb], MapAccessPermissionBits(t, g.ap, g.dom))
  IN GuestWriteProtect([Put(m, t, mb, e) EXCEPT !.guestVirtual =
                          IF BaseIn(g) THEN PageAt(mb, Offset(guestPhysical)) ELSE @],
                       TablesIn(m, mb, g))

ShadowMapAnySection(m, t, mb, g) ==
  LET entry == [type |-> "section", mb |-> g.mb, ap |-> "rw_no", dom |-> g.dom]
  IN IF g.mb \in HypervisorMemory THEN Die(m)
     ELSE MapAPBitsSection(Put(m, t, mb, entry), t, mb, g)

ShadowMapSection(m, t, mb, g) ==
  LET device == g.mb \in DeviceMegabytes
      entry  == [type |-> "section", mb |-> g.mb, ap |-> "rw_no", dom |-> g.dom]
      m1     == Put(m, t, mb, entry)
  IN IF g.mb \in HypervisorMemory \/ (device /\ m[t][mb].type # "fault") THEN Die(m)
     ELSE IF device THEN m1
     ELSE MapAPBitsSection(m1, t, mb, g)

MappedInUserTable(m, f) ==
  {v \in Pages : LET p == ShadowPage(m.user, v) IN p.type = "page" /\ p.frame = f}

(* The pages of the shadow tables that map frame f, as shadowMapPageTable   *)
(* looks for them: megabytes of the hypervisor's domain are passed over,    *)
(* and the user table's domain decides for both.                            *)
MappedAt(m, f) ==
  {v \in Pages : /\ m.user[Megabyte(v)].type # "fault" => m.user[Megabyte(v)].dom # HostDomain
                 /\ \E t \in Modes : LET p == ShadowPage(m[t], v)
                                     IN p.type = "page" /\ p.frame = f}

(* Nothing in the code bounds the list; a table mapped in both shadow       *)
(* tables has two records, and only one of them is ever removed.            *)
AddPageTableInfo(m, mb, table) ==
  LET new == [mb |-> mb, table |-> table] IN
  IF Cardinality({i \in DOMAIN m.gptInfo : m.gptInfo[i] = new}) >= MaxCopies THEN m
  ELSE [m EXCEPT !.gptInfo = Append(@, new)]

ShadowMapPageTable(m, t, mb, g) ==
  LET entry == [type |-> "table", dom |-> g.dom, page |-> NoPages]
      m1 == AddPageTableInfo(Put(m, t, mb, entry), mb, g.table)
  IN GuestWriteProtect(m1, MappedAt(m1, g.table.frame))

(* A first level entry of the guest that is a table, before its page.       *)
EnsureTable(m, t, mb, g) ==
  CASE m[t][mb].type = "fault"   -> ShadowMapPageTable(m, t, mb, g)
    [] m[t][mb].type = "section" -> Die(m)
    [] OTHER -> IF \E i \in Range(m.gptInfo) : i.mb = mb THEN m
                ELSE AddPageTableInfo(m, mb, g.table)

ShadowMapSmallPage(m, t, v, p, dom) ==
  LET device == Megabyte(p.frame) \in DeviceMegabytes
      entry  == [type |-> "page", frame |-> p.frame,
                 ap |-> MapAccessPermissionBits(t, p.ap, dom)]
      old    == m[t][Megabyte(v)].page[Offset(v)]
  IN IF \/ Megabyte(p.frame) \in HypervisorMemory
        \/ device /\ old.type # "fault"
        \/ p.frame = guestPhysical
        \/ m.gptInfo = <<>>
        \/ \E i \in Range(m.gptInfo) : i.table.frame = p.frame /\ i.table.at = 0
       THEN Die(m)
       ELSE Put(m, t, Megabyte(v), PutPage(m[t][Megabyte(v)], Offset(v), entry))

(* Whether shadowMap finds a mapping of the guest, and what it does then.   *)
CanShadowMap(v) == guestPhysical \in Bases /\ Walk(guestPhysical, v).type = "page"

ShadowMap(m, t, v) ==
  LET mb == Megabyte(v)
      g  == first[guestPhysical][mb]
  IN IF guestPhysical \notin Bases THEN Die(m)
     ELSE CASE g.type = "section" -> ShadowMapSection(m, t, mb, g)
            [] g.type = "table" ->
                 LET m1 == EnsureTable(m, t, mb, g)
                     p  == second[g.table][Offset(v)]
                 IN IF m1.alive /\ p.type = "page" THEN ShadowMapSmallPage(m1, t, v, p, g.dom) ELSE m1
            [] OTHER -> m

-----------------------------------------------------------------------------
(* Unmapping, and the edits of a guest table that the hypervisor sees.      *)

ClearTranslationsWithin(m, pages) ==
  [m EXCEPT !.blocks = {b \in @ : ~ DOMAIN b \subseteq pages}]

(* clearTranslationsByAddressRange over the pages of a set.                 *)
ClearTranslations(m, pages) ==
  [m EXCEPT !.blocks = {b \in @ : DOMAIN b \cap pages = {}}]

PagesOf(mb) == {PageAt(mb, o) : o \in Offsets}

Forgets(m, mb) == m.guestVirtual # NoBase /\ Megabyte(m.guestVirtual) = mb

ShadowUnmapSection(m, t, mb, g) ==
  IF m[t][mb].type = "fault" THEN m
  ELSE IF g.mb \in DeviceMegabytes \cup HypervisorMemory \/ Forgets(m, mb) THEN Die(m)
  ELSE ClearTranslations(Put(m, t, mb, Fault), PagesOf(mb))

ShadowUnmapUsedTable(m, t, mb) ==
  IF m[t][mb].type = "fault" \/ t = "user" THEN m
  ELSE ClearTranslations(Put(m, t, mb, Fault), PagesOf(mb))

ShadowUnmapPageTable(m, t, mb) ==
  LET e == m[t][mb]
      hidden == \E o \in Offsets : /\ e.page[o].type = "page"
                                   /\ Megabyte(e.page[o].frame) \in HypervisorMemory
  IN IF e.type = "fault" THEN m
     ELSE IF e.type = "section" \/ hidden \/ Forgets(m, mb) THEN Die(m)
     ELSE ClearTranslations(Put(m, t, mb, Fault), PagesOf(mb))

ShadowUnmapSmallPage(m, t, v, frame) ==
  LET e == m[t][Megabyte(v)] IN
  IF e.type = "fault" THEN m
  ELSE IF e.type = "section" THEN Die(m)
  ELSE IF e.page[Offset(v)].type = "fault" THEN m
  ELSE IF Megabyte(frame) \in DeviceMegabytes \cup HypervisorMemory \/ m.guestVirtual = v THEN Die(m)
  ELSE ClearTranslations(Put(m, t, Megabyte(v), PutPage(e, Offset(v), Fault)), {v})

(* The search of the list stops at the first record of those it looks for.  *)
Earliest(S) == {i \in S : \A j \in S : i <= j}
Found(S)    == CHOOSE i \in Earliest(S) : TRUE

(* removePageTableInfo looks for the record whose entry is at the address   *)
(* of the store, a virtual one, where the record has the physical address.  *)
RemovePageTableInfo(m, v, mb) ==
  LET found == {i \in DOMAIN m.gptInfo : m.gptInfo[i].mb = mb}
  IN IF v = guestPhysical /\ Earliest(found) # {}
       THEN [m EXCEPT !.gptInfo = RemoveAt(@, Found(found))] ELSE m

EditAttributesSection(m, t, mb, old, new) ==
  IF m[t][mb].type = "fault" THEN m
  ELSE IF old.mb # new.mb THEN Die(m)
  ELSE LET m1 == IF old.dom = new.dom THEN m
                 ELSE Put(m, t, mb, [m[t][mb] EXCEPT !.dom = new.dom])
       IN IF old.ap = new.ap THEN m1 ELSE MapAPBitsSection(m1, t, mb, new)

(* The hypervisor finds the physical address of the entry in the guest's    *)
(* own table, which it can only for pages the guest maps by a section.      *)
CanLocate(m, v) ==
  m.guestVirtual # NoBase /\ first[guestPhysical][Megabyte(v)].type = "section"

(* pageTableEdit of a first level entry, through the page v.                *)
EditFirst(m, v, mb, new) ==
  LET old == first[guestPhysical][mb] IN
  IF old = new THEN m
  ELSE IF ~ CanLocate(m, v) THEN Die(m)
  ELSE CASE old.type = "fault" -> m
         [] old.type = "table" /\ new.type = "fault" ->
              ShadowUnmapPageTable(ShadowUnmapPageTable(RemovePageTableInfo(m, v, mb),
                "priv", mb), "user", mb)
         [] old.type = "section" /\ new.type = "fault" ->
              ShadowUnmapSection(ShadowUnmapSection(m, "priv", mb, old), "user", mb, old)
         [] old.type = "section" /\ new.type = "section" ->
              EditAttributesSection(EditAttributesSection(m, "priv", mb, old, new),
                "user", mb, old, new)
         [] OTHER -> Die(m)

(* pageTableEdit of a second level entry: the first record of the table, if *)
(* there is one, tells the megabyte it maps.                                *)
EditSecond(m, v, t, o, new) ==
  LET old == second[t][o]
      recs == {i \in DOMAIN m.gptInfo : m.gptInfo[i].table = t}
      mb  == m.gptInfo[Found(recs)].mb
  IN IF Earliest(recs) = {} \/ old = new THEN m
     ELSE IF ~ CanLocate(m, v) THEN Die(m)
     ELSE CASE old.type = "fault" -> m
            [] old.type = "page" /\ new.type = "fault" ->
                 ShadowUnmapSmallPage(ShadowUnmapSmallPage(m, "user", PageAt(mb, o), old.frame),
                   "priv", PageAt(mb, o), old.frame)
            [] OTHER -> IF m.user[mb].type = "fault" /\ m.priv[mb].type = "fault"
                          THEN m ELSE Die(m)

-----------------------------------------------------------------------------
(* Actions.                                                                 *)

Become(m) == mm' = IF m.alive THEN m ELSE Die(mm)

(* privToUserAddressing and userToPrivAddressing: the page of the guest's   *)
(* table is mapped in the other shadow table.  With the guest's MMU off     *)
(* there is no other shadow table to switch to.                             *)
SwitchAddressing(m, priv) ==
  LET t == ActiveIn(priv) IN
  IF ~ enabled THEN Die(m)
  ELSE IF m.guestVirtual = NoBase \/ m[t][Megabyte(m.guestVirtual)].type # "fault" THEN m
  ELSE IF ~ CanShadowMap(m.guestVirtual) THEN Die(m)
  ELSE ShadowMap(m, t, m.guestVirtual)

(* guestChangeMode *)
GuestChangeMode(m, priv) ==
  /\ Become(IF priv = privileged THEN m ELSE SwitchAddressing(m, priv))
  /\ privileged' = IF mm'.alive THEN priv ELSE privileged

ChangeMode ==
  /\ mm.alive
  /\ \E priv \in BOOLEAN : priv # privileged /\ GuestChangeMode(mm, priv)
  /\ UNCHANGED <<first, second, ttbr, enabled, dacr, guestPhysical>>

EmptyTablesOnly(m) == [m EXCEPT !.user = FreshTable, !.priv = FreshTable]

EmptyTables(m) == [m EXCEPT !.user = FreshTable, !.priv = FreshTable, !.gptInfo = <<>>]

(* guestSetPageTableBase *)
GuestSetPageTableBase(b) ==
  LET m == [mm EXCEPT !.guestVirtual = NoBase] IN
  /\ guestPhysical' = b
  /\ mm' = IF enabled THEN EmptyTables(m) ELSE m

WriteTTBR0(b) == GuestSetPageTableBase(b) /\ ttbr' = b

(* The case of the auxiliary control register falls through to the one of   *)
(* the table base, with the value written, which is no table of the guest.  *)
WriteACTLR == GuestSetPageTableBase(NoBase) /\ UNCHANGED ttbr

WriteTableBase ==
  /\ mm.alive /\ privileged
  /\ enabled => "ttbr" \in Guest
  /\ (\E b \in Bases : WriteTTBR0(b)) \/ ("actlr" \in Guest /\ WriteACTLR)
  /\ UNCHANGED <<first, second, enabled, privileged, dacr>>

EnableMMU ==
  /\ mm.alive /\ privileged /\ ~ enabled
  /\ IF guestPhysical = NoBase
       THEN mm' = Die(mm) /\ UNCHANGED enabled
       ELSE mm' = EmptyTables(mm) /\ enabled' = TRUE
  /\ UNCHANGED <<first, second, ttbr, privileged, dacr, guestPhysical>>

DisableMMU ==
  /\ mm.alive /\ privileged /\ enabled
  /\ enabled' = FALSE /\ guestPhysical' = NoBase
  /\ mm' = [EmptyTables(mm) EXCEPT !.guestVirtual = NoBase, !.blocks = {}]
  /\ UNCHANGED <<first, second, ttbr, privileged, dacr>>

(* changeGuestDACR: manager access becomes client access in the processor;  *)
(* no permission in the shadow tables changes.                              *)
WriteDACR ==
  /\ mm.alive /\ privileged
  /\ dacr' \in Dacrs
  /\ UNCHANGED <<first, second, ttbr, enabled, privileged, mm, guestPhysical>>

(* deliverDataAbort *)
DeliverDataAbort ==
  /\ GuestChangeMode(mm, TRUE)
  /\ UNCHANGED <<first, second, ttbr, enabled, dacr, guestPhysical>>

(* dabtTranslationFault: the access is tried again once it is mapped.       *)
TranslationFault(v, write) ==
  /\ mm.alive /\ enabled
  /\ ShadowPage(mm[shadowActive], v).type = "fault"
  /\ IF guestPhysical \in Bases /\ ~ CanShadowMap(v)
       THEN DeliverDataAbort
       ELSE /\ Become(ShadowMap(mm, shadowActive, v))
            /\ UNCHANGED <<first, second, ttbr, enabled, privileged, dacr, guestPhysical>>

Present(v) == mm.alive /\ enabled /\ ShadowPage(mm[shadowActive], v).type = "page"

Reached(v) == ShadowPage(mm[shadowActive], v)

DomainOpen(v) ==
  LET d == mm[shadowActive][Megabyte(v)].dom IN
  IF d = HostDomain THEN TRUE ELSE dacr[d] # "none"

(* A domain without access: the fault is not handled.                       *)
DomainFault(v) ==
  /\ Present(v) /\ ~ DomainOpen(v)
  /\ mm' = Die(mm)
  /\ UNCHANGED <<first, second, ttbr, enabled, privileged, dacr, guestPhysical>>

(* The processor lets the store through.                                    *)
DirectStore(v) ==
  /\ Present(v) /\ DomainOpen(v)
  /\ Granted(Reached(v), TRUE)
  /\ Write(Reached(v).frame)
  /\ UNCHANGED <<ttbr, enabled, privileged, dacr, mm, guestPhysical>>

ShouldDataAbortRead(v, write) == ~ MayAccess(Walk(guestPhysical, v), privileged, FALSE)

(* shouldDataAbort, for the guest's own entry of the page.                  *)
ShouldDataAbort(v, write) == ~ MayAccess(Walk(guestPhysical, v), privileged, write)

PermissionFault(v, write) ==
  /\ Present(v) /\ DomainOpen(v)
  /\ ~ Granted(Reached(v), write)

(* shouldDataAbort cannot be asked about a domain without access, nor       *)
(* without the guest's tables.                                              *)
CanDecide(v) ==
  /\ guestPhysical \in Bases
  /\ Walk(guestPhysical, v).type = "page" => dacr[Walk(guestPhysical, v).dom] # "none"

PermissionAbort(v, write) ==
  /\ PermissionFault(v, write)
  /\ IF CanDecide(v)
       THEN ShouldDataAbort(v, write) /\ DeliverDataAbort
       ELSE mm' = Die(mm) /\ UNCHANGED <<first, second, ttbr, enabled, privileged, dacr, guestPhysical>>

(* The store itself, after pageTableEdit; the hypervisor maps the page      *)
(* again if the edit has removed it.                                        *)
StoreValue(m, v) ==
  IF m.alive /\ ShadowPage(m[shadowActive], v).type = "fault"
    THEN ShadowMap(m, shadowActive, v) ELSE m

(* dabtPermissionFault and storeSdram: the store is emulated.  Only a word  *)
(* is compared with the places of the tables.                               *)
EmulatedStore(v, size) ==
  LET f  == Reached(v).frame
      m0 == ClearTranslations(mm, {v})
      Finish(m) == Become(StoreValue(m, v))
  IN
  /\ PermissionFault(v, TRUE) /\ CanDecide(v) /\ ~ ShouldDataAbort(v, TRUE)
  /\ \/ /\ f \in Bases /\ UNCHANGED second
        /\ \E mb \in Megabytes : \E e \in FirstEntries[f][mb] :
             /\ Finish(IF f = guestPhysical /\ size = "word" THEN EditFirst(m0, v, mb, e) ELSE m0)
             /\ first' = IF mm'.alive THEN [first EXCEPT ![f][mb] = e] ELSE first
     \/ /\ UNCHANGED first
        /\ \E t \in {t \in Tables : t.frame = f} : \E o \in Offsets : \E e \in SecondEntries[t][o] :
             /\ Finish(IF size = "word" THEN EditSecond(m0, v, t, o, e) ELSE m0)
             /\ second' = IF mm'.alive THEN [second EXCEPT ![t][o] = e] ELSE second
     \/ Finish(m0) /\ UNCHANGED <<first, second>>
  /\ UNCHANGED <<ttbr, enabled, privileged, dacr, guestPhysical>>

(* With the guest's MMU off every store faults and is emulated.             *)
PhysicalStore(v) ==
  /\ mm.alive /\ ~ enabled
  /\ Write(v)
  /\ mm' = ClearTranslations(mm, {v})
  /\ UNCHANGED <<ttbr, enabled, privileged, dacr, guestPhysical>>

(* scanBlock, for a block over the pages of range: the code is translated   *)
(* and its pages write protected.  User code runs in place.                 *)
ScanBlock(range) ==
  /\ mm.alive /\ privileged
  /\ IF enabled
       THEN /\ \A v \in range : Present(v) /\ DomainOpen(v)
            /\ mm' = [GuestWriteProtect(mm, RangeFrom(range)) EXCEPT
                        !.blocks = @ \cup {[v \in range |-> Reached(v).frame]}]
       ELSE /\ "boot" \in Guest
            /\ mm' = [mm EXCEPT !.blocks = @ \cup {[v \in range |-> v]}]
  /\ UNCHANGED <<first, second, ttbr, enabled, privileged, dacr, guestPhysical>>

Init ==
  /\ GuestInit
  /\ guestPhysical = NoBase
  /\ mm = [user |-> FreshTable, priv |-> FreshTable, gptInfo |-> <<>>,
           guestVirtual |-> NoBase, blocks |-> {}, alive |-> TRUE]

Next ==
  \/ ChangeMode \/ WriteTableBase \/ EnableMMU \/ DisableMMU \/ WriteDACR
  \/ \E v \in Pages :
       \/ DirectStore(v) \/ PhysicalStore(v) \/ DomainFault(v)
       \/ \E size \in StoreSizes : EmulatedStore(v, size)
       \/ \E write \in BOOLEAN : TranslationFault(v, write) \/ PermissionAbort(v, write)
  \/ \E range \in CodeRanges : ScanBlock(range)

Spec == Init /\ [][Next]_vars

-----------------------------------------------------------------------------
(* Properties.                                                              *)

ShadowPages == {Fault} \cup [type : {"page"}, frame : Nat \X Offsets, ap : Permissions]

ShadowEntries ==
  {Fault} \cup [type : {"section"}, mb : Nat, ap : Permissions, dom : Domains \cup {HostDomain}]
          \cup [type : {"table"}, dom : Domains \cup {HostDomain}, page : [Offsets -> ShadowPages]]

(* The state the memory manager keeps: its shadow tables, the records of    *)
(* second level tables, where it last saw the guest's table mapped, and the *)
(* translated blocks with the frames their code came from.  With the guest's*)
(* MMU off there is nothing in the shadow tables.                           *)
TypeOK ==
  /\ guestPhysical \in Bases \cup {NoBase}
  /\ enabled \in BOOLEAN /\ privileged \in BOOLEAN
  /\ mm.user \in [Megabytes -> ShadowEntries]
  /\ mm.priv \in [Megabytes -> ShadowEntries]
  /\ mm.gptInfo \in Seq([mb : Megabytes, table : Tables])
  /\ mm.guestVirtual \in Pages \cup {NoBase}
  /\ mm.alive \in BOOLEAN
  /\ ~ enabled => mm.user = FreshTable /\ mm.priv = FreshTable /\ mm.gptInfo = <<>>

InUse == {guestPhysical} \cup {i.table.frame : i \in Range(mm.gptInfo)}

(* A page table the memory manager knows of is never writable for the guest *)
(* through a shadow table, at any of its addresses: every edit faults.      *)
TablesProtected ==
  mm.alive => \A t \in Modes, v \in Pages :
    LET p == ShadowPage(mm[t], v)
    IN p.type = "page" /\ p.frame \in InUse => ~ Granted(p, TRUE)

(* What a shadow table maps is what the guest's own tables map, and it      *)
(* allows guest code no access that they and the domain register forbid.    *)
ShadowAgrees ==
  mm.alive /\ enabled => \A t \in Modes, v \in Pages :
    LET p == ShadowPage(mm[t], v)
        g == Walk(guestPhysical, v)
    IN p.type = "page" /\ guestPhysical \in Bases =>
         /\ g.type = "page" /\ g.frame = p.frame
         /\ \A write \in BOOLEAN :
              Granted(p, write) /\ dacr[g.dom] # "none" => MayAccess(g, t = "priv", write)

(* No device is reached without the hypervisor.                             *)
DevicesTrapped ==
  \A t \in Modes, v \in Pages : LET p == ShadowPage(mm[t], v) IN
    p.type = "page" /\ Megabyte(p.frame) \in DeviceMegabytes => ~ Granted(p, FALSE)

(* Translated code is code the guest still maps there.                      *)
CodeFollowsTable ==
  mm.alive /\ enabled /\ guestPhysical \in Bases =>
    \A b \in mm.blocks : \A v \in DOMAIN b :
      Walk(guestPhysical, v).type = "page" /\ Walk(guestPhysical, v).frame = b[v]

(* No guest store reaches translated code without a fault.                  *)
CodeWriteProtected ==
  mm.alive => \A t \in Modes, v \in Pages : LET p == ShadowPage(mm[t], v) IN
    (p.type = "page" /\ \E b \in mm.blocks : p.frame \in Range(b)) => ~ Granted(p, TRUE)

(* Every store of the guest reaches what its own unit would let it reach,   *)
(* and every other aborts.                                                  *)
ImplementsGuestMmu == GuestSpec
=============================================================================
