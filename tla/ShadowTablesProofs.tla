------------------------- MODULE ShadowTablesProofs -------------------------
EXTENDS ShadowTables, FiniteSetTheorems, SequenceTheorems, TLAPS

ShadowTable == [Megabytes -> ShadowEntries]
Record      == [mb : Megabytes, table : Tables]

MMState(m) ==
  m \in [user : ShadowTable, priv : ShadowTable, gptInfo : Seq(Record),
         guestVirtual : Pages \cup {NoBase}, blocks : {m.blocks}, alive : BOOLEAN]

-----------------------------------------------------------------------------
LEMMA EntryCases ==
  ASSUME NEW e \in ShadowEntries
  PROVE  /\ e.type \in {"fault", "section", "table"}
         /\ e.type = "fault" => e = Fault
         /\ e.type = "section" =>
              e \in [type : {"section"}, mb : Nat, ap : Permissions, dom : Domains \cup {HostDomain}]
         /\ e.type = "table" =>
              e \in [type : {"table"}, dom : Domains \cup {HostDomain}, page : [Offsets -> ShadowPages]]
BY DEF ShadowEntries, Fault

LEMMA PageCases ==
  ASSUME NEW p \in ShadowPages
  PROVE  /\ p.type \in {"fault", "page"}
         /\ p.type = "fault" => p = Fault
         /\ p.type = "page" => p \in [type : {"page"}, frame : Nat \X Offsets, ap : Permissions]
BY DEF ShadowPages, Fault

LEMMA FaultIsEntry == Fault \in ShadowEntries /\ Fault.type = "fault" /\ Fault \in ShadowPages
BY DEF ShadowEntries, ShadowPages, Fault

LEMMA FreshType == FreshTable \in ShadowTable
<1>1. NoPages \in [Offsets -> ShadowPages]
  BY FaultIsEntry DEF NoPages
<1> QED BY <1>1, FaultIsEntry DEF FreshTable, ShadowTable, ShadowEntries

LEMMA SplitType ==
  ASSUME NEW e \in ShadowEntries, e.type # "fault"
  PROVE  Split(e) \in [Offsets -> ShadowPages]
<1>1. CASE e.type = "section"
  <2>1. e \in [type : {"section"}, mb : Nat, ap : Permissions, dom : Domains \cup {HostDomain}]
    BY <1>1, EntryCases
  <2> QED BY <1>1, <2>1 DEF Split, PageAt, ShadowPages
<1>2. CASE e.type = "table"
  <2>1. e \in [type : {"table"}, dom : Domains \cup {HostDomain}, page : [Offsets -> ShadowPages]]
    BY <1>2, EntryCases
  <2> QED BY <1>2, <2>1 DEF Split
<1> QED BY <1>1, <1>2, EntryCases

LEMMA PagePair ==
  ASSUME NEW v \in Pages
  PROVE  Megabyte(v) \in Megabytes /\ Offset(v) \in Offsets /\ v = PageAt(Megabyte(v), Offset(v))
BY DEF Pages, Megabyte, Offset, PageAt

LEMMA WriteProtectType ==
  ASSUME NEW table \in ShadowTable, NEW pages
  PROVE  WriteProtect(table, pages) \in ShadowTable
<1> DEFINE Out(m) ==
      IF table[m].type = "fault" \/ \A v \in pages : Megabyte(v) # m THEN table[m]
      ELSE [type |-> "table", dom |-> table[m].dom,
            page |-> [o \in Offsets |-> LET p == Split(table[m])[o] IN
                       IF PageAt(m, o) \in pages /\ p.type = "page" /\ p.ap = "rw_rw"
                         THEN [p EXCEPT !.ap = "rw_ro"] ELSE p]]
<1> SUFFICES ASSUME NEW m \in Megabytes PROVE Out(m) \in ShadowEntries
  BY DEF WriteProtect, ShadowTable
<1>0. table[m] \in ShadowEntries BY DEF ShadowTable
<1>1. CASE table[m].type = "fault" \/ \A v \in pages : Megabyte(v) # m
  BY <1>0, <1>1
<1>2. CASE ~ (table[m].type = "fault" \/ \A v \in pages : Megabyte(v) # m)
  <2>1. Split(table[m]) \in [Offsets -> ShadowPages] BY <1>0, <1>2, SplitType
  <2>2. ASSUME NEW o \in Offsets, NEW p \in ShadowPages
        PROVE  (IF PageAt(m, o) \in pages /\ p.type = "page" /\ p.ap = "rw_rw"
                  THEN [p EXCEPT !.ap = "rw_ro"] ELSE p) \in ShadowPages
    <3>1. p.type = "page" => [p EXCEPT !.ap = "rw_ro"] \in ShadowPages
      <4> HAVE p.type = "page"
      <4>1. p \in [type : {"page"}, frame : Nat \X Offsets, ap : Permissions] BY PageCases
      <4> QED BY <4>1 DEF ShadowPages, Permissions
    <3> QED BY <3>1
  <2>3. table[m].dom \in Domains \cup {HostDomain}
    BY <1>0, <1>2, EntryCases
  <2> QED BY <1>2, <2>1, <2>2, <2>3 DEF ShadowEntries
<1> QED BY <1>1, <1>2

(* What protecting pages does to the page a table maps at v.                *)
Protects(q, p, v, pages) ==
  /\ q.type = p.type
  /\ q.type = "page" => /\ q.frame = p.frame
                        /\ q.ap = "rw_rw" => p.ap = "rw_rw" /\ v \notin pages

LEMMA WriteProtectPage ==
  ASSUME NEW table \in ShadowTable, NEW pages, NEW v \in Pages
  PROVE  Protects(ShadowPage(WriteProtect(table, pages), v), ShadowPage(table, v), v, pages)
<1> DEFINE m == Megabyte(v)
           o == Offset(v)
           p == ShadowPage(table, v)
           q == ShadowPage(WriteProtect(table, pages), v)
           w == [type |-> "table", dom |-> table[m].dom,
            page |-> [x \in Offsets |-> LET r == Split(table[m])[x] IN
                       IF PageAt(m, x) \in pages /\ r.type = "page" /\ r.ap = "rw_rw"
                         THEN [r EXCEPT !.ap = "rw_ro"] ELSE r]]
<1>0. m \in Megabytes /\ o \in Offsets /\ v = PageAt(m, o) BY PagePair
<1>1. table[m] \in ShadowEntries BY <1>0 DEF ShadowTable
<1>2. CASE table[m].type = "fault" \/ \A x \in pages : Megabyte(x) # m
  <2>1. WriteProtect(table, pages)[m] = table[m] BY <1>0, <1>2 DEF WriteProtect
  <2>2. q = p BY <2>1 DEF ShadowPage
  <2>3. p.type = "page" => v \notin pages
    <3>1. CASE table[m].type = "fault" BY <3>1, FaultIsEntry DEF ShadowPage
    <3> QED BY <3>1, <1>2
  <2> QED BY <2>2, <2>3 DEF Protects
<1>3. CASE ~ (table[m].type = "fault" \/ \A x \in pages : Megabyte(x) # m)
  <2>1. WriteProtect(table, pages)[m] = w BY <1>0, <1>3 DEF WriteProtect
  <2>2. p = Split(table[m])[o] BY <1>3 DEF ShadowPage
  <2>3. q = w.page[o] BY <2>1 DEF ShadowPage, Split
  <2>4. q = IF v \in pages /\ p.type = "page" /\ p.ap = "rw_rw" THEN [p EXCEPT !.ap = "rw_ro"] ELSE p
    BY <1>0, <2>2, <2>3
  <2>5. p \in ShadowPages BY <1>0, <1>1, <1>3, <2>2, SplitType
  <2> SUFFICES Protects(q, p, v, pages) OBVIOUS
  <2> HIDE DEF p, q
  <2>6. CASE p.type = "page"
    <3>1. p \in [type : {"page"}, frame : Nat \X Offsets, ap : Permissions] BY <2>5, <2>6, PageCases
    <3> QED BY <2>4, <2>6, <3>1 DEF Protects
  <2>7. CASE p.type # "page"
    <3> QED BY <2>4, <2>7 DEF Protects
  <2> QED BY <2>6, <2>7
<1> QED BY <1>2, <1>3

(* ... and to its entries.                                                  *)
LEMMA WriteProtectEntry ==
  ASSUME NEW table \in ShadowTable, NEW pages, NEW m \in Megabytes
  PROVE  LET e == table[m]
             f == WriteProtect(table, pages)[m]
         IN /\ f.type = "fault" <=> e.type = "fault"
            /\ f.type = "section" => f = e
            /\ e.type # "fault" => f.dom = e.dom
BY DEF WriteProtect

-----------------------------------------------------------------------------
(* The record of the memory manager.                                        *)

LEMMA DieState ==
  ASSUME NEW m, MMState(m)
  PROVE  MMState(Die(m)) /\ ~ Die(m).alive
BY DEF MMState, Die

SameRecords(n, m) == n.gptInfo = m.gptInfo /\ n.alive = m.alive

(* Writing one first level entry of a shadow table.                         *)
LEMMA SetEntry ==
  ASSUME NEW m, MMState(m), NEW t \in Modes, NEW k \in Megabytes, NEW e \in ShadowEntries,
         NEW n, n = Put(m, t, k, e)
  PROVE  /\ MMState(n) /\ SameRecords(n, m) /\ n.guestVirtual = m.guestVirtual
         /\ n[t][k] = e
         /\ \A u \in Modes, j \in Megabytes : u # t \/ j # k => n[u][j] = m[u][j]
<1>1. m.user \in ShadowTable /\ m.priv \in ShadowTable BY DEF MMState
<1>2. CASE t = "user"
  <2>1. [m.user EXCEPT ![k] = e] \in ShadowTable BY <1>1 DEF ShadowTable
  <2> QED BY <1>1, <1>2, <2>1 DEF MMState, SameRecords, Modes, ShadowTable, Put
<1>3. CASE t = "priv"
  <2>1. [m.priv EXCEPT ![k] = e] \in ShadowTable BY <1>1 DEF ShadowTable
  <2> QED BY <1>1, <1>3, <2>1 DEF MMState, SameRecords, Modes, ShadowTable, Put
<1> QED BY <1>2, <1>3 DEF Modes

LEMMA SetVirtual ==
  ASSUME NEW m, MMState(m), NEW x \in Pages \cup {NoBase}
  PROVE  LET n == [m EXCEPT !.guestVirtual = x]
         IN /\ MMState(n) /\ SameRecords(n, m)
            /\ \A u \in Modes : n[u] = m[u]
BY DEF MMState, SameRecords, Modes

LEMMA TableOfState ==
  ASSUME NEW m, MMState(m), NEW t \in Modes
  PROVE  m[t] \in ShadowTable
BY DEF MMState, Modes

LEMMA EntryOfState ==
  ASSUME NEW m, MMState(m), NEW t \in Modes, NEW k \in Megabytes
  PROVE  m[t][k] \in ShadowEntries
BY TableOfState DEF ShadowTable

LEMMA GuestWriteProtectState ==
  ASSUME NEW m, MMState(m), NEW pages
  PROVE  LET n == GuestWriteProtect(m, pages)
         IN /\ MMState(n) /\ SameRecords(n, m) /\ n.guestVirtual = m.guestVirtual
            /\ \A t \in Modes : n[t] = WriteProtect(m[t], pages)
<1>1. m.user \in ShadowTable /\ m.priv \in ShadowTable BY DEF MMState
<1>2. WriteProtect(m.user, pages) \in ShadowTable /\ WriteProtect(m.priv, pages) \in ShadowTable
  BY <1>1, WriteProtectType
<1> QED BY <1>1, <1>2 DEF MMState, GuestWriteProtect, SameRecords, Modes

(* Unmapping takes translations away and nothing else.                      *)
LEMMA ClearState ==
  ASSUME NEW m, MMState(m), NEW pages
  PROVE  LET n == ClearTranslations(m, pages)
         IN /\ MMState(n) /\ SameRecords(n, m) /\ n.guestVirtual = m.guestVirtual
            /\ \A t \in Modes : n[t] = m[t]
BY DEF MMState, ClearTranslations, SameRecords, Modes

-----------------------------------------------------------------------------
(* What the guest may be assumed to have in its tables.                     *)

GuestTypeOK ==
  /\ first \in [Bases -> [Megabytes -> GuestFirstEntries]]
  /\ \A b \in Bases, k \in Megabytes : first[b][k] \in FirstEntries[b][k]
  /\ second \in [Tables -> [Offsets -> GuestSecondEntries]]
  /\ guestPhysical \in Bases \cup {NoBase}

LEMMA GuestEntryCases ==
  ASSUME NEW g \in GuestFirstEntries
  PROVE  /\ g.type \in {"fault", "section", "table"}
         /\ g.type = "section" => g.mb \in Nat /\ g.ap \in Permissions /\ g.dom \in Domains
         /\ g.type = "table" => g.table \in Tables /\ g.dom \in Domains
BY DEF GuestFirstEntries, Fault

LEMMA GuestPageCases ==
  ASSUME NEW p \in GuestSecondEntries
  PROVE  /\ p.type \in {"fault", "page"}
         /\ p.type = "page" => p.frame \in Nat \X Offsets /\ p.ap \in Permissions
BY DEF GuestSecondEntries, Fault

LEMMA FrameOfTable ==
  ASSUME NEW t \in Tables
  PROVE  t.frame \in Nat \X Offsets /\ Megabyte(t.frame) \in Nat /\ Offset(t.frame) \in Offsets
BY GuestAssumption DEF Megabyte, Offset

LEMMA FrameOfBase ==
  ASSUME NEW b \in Bases
  PROVE  b \in Nat \X Offsets /\ Megabyte(b) \in Nat /\ Offset(b) \in Offsets /\ b # NoBase
BY GuestAssumption DEF Megabyte, Offset, NoBase

LEMMA PermissionsMapped ==
  ASSUME NEW t, NEW ap, NEW dom
  PROVE  MapAccessPermissionBits(t, ap, dom) \in {"rw_no", "rw_ro", "rw_rw"}
BY DEF MapAccessPermissionBits

LEMMA RecordsOfState ==
  ASSUME NEW m, MMState(m), NEW i \in Range(m.gptInfo)
  PROVE  i \in Record /\ i.table \in Tables /\ i.mb \in Megabytes
<1>1. m.gptInfo \in Seq(Record) BY DEF MMState
<1>2. PICK k \in DOMAIN m.gptInfo : i = m.gptInfo[k] BY DEF Range
<1>3. m.gptInfo[k] \in Record BY <1>1
<1>4. i \in Record BY <1>2, <1>3
<1> QED BY <1>4 DEF Record

-----------------------------------------------------------------------------
(* The safety of a memory manager m for the first level table row.          *)

InUseOf(m) == {guestPhysical} \cup {i.table.frame : i \in Range(m.gptInfo)}

SafePage(m, p) == p.type = "page" /\ p.frame \in InUseOf(m) => p.ap # "rw_rw"

Protected(m) == \A t \in Modes, v \in Pages : SafePage(m, ShadowPage(m[t], v))

SectionPages(e, g) ==
  \A o \in Offsets : Split(e)[o].type = "page" => Split(e)[o].frame = PageAt(g.mb, o)

EntryFollows(m, e, g, k) ==
  e.type # "fault" =>
    /\ e.dom # HostDomain
    /\ \/ g.type = "section" /\ SectionPages(e, g)
       \/ g.type = "table" /\ e.type = "table" /\ \E i \in Range(m.gptInfo) : i.mb = k

Follows(m, row) == \A t \in Modes, k \in Megabytes : EntryFollows(m, m[t][k], row[k], k)

LEMMA PageOfEntry ==
  ASSUME NEW table, NEW k \in Megabytes, NEW o \in Offsets, table[k].type # "fault"
  PROVE  ShadowPage(table, PageAt(k, o)) = Split(table[k])[o]
BY DEF ShadowPage, PageAt, Megabyte, Offset

LEMMA PageAtPage ==
  ASSUME NEW k \in Megabytes, NEW o \in Offsets
  PROVE  PageAt(k, o) \in Pages /\ Megabyte(PageAt(k, o)) = k /\ Offset(PageAt(k, o)) = o
BY DEF PageAt, Pages, Megabyte, Offset

LEMMA GuestWriteProtectPage ==
  ASSUME NEW m, MMState(m), NEW pages, NEW t \in Modes, NEW v \in Pages
  PROVE  Protects(ShadowPage(GuestWriteProtect(m, pages)[t], v), ShadowPage(m[t], v), v, pages)
<1>1. GuestWriteProtect(m, pages)[t] = WriteProtect(m[t], pages) BY GuestWriteProtectState
<1>2. m[t] \in ShadowTable BY TableOfState
<1> QED BY <1>1, <1>2, WriteProtectPage

LEMMA GuestWriteProtectFollows ==
  ASSUME NEW m, MMState(m), NEW pages, NEW row, Follows(m, row)
  PROVE  Follows(GuestWriteProtect(m, pages), row)
<1> DEFINE n == GuestWriteProtect(m, pages)
<1> SUFFICES ASSUME NEW t \in Modes, NEW k \in Megabytes, n[t][k].type # "fault"
             PROVE  EntryFollows(n, n[t][k], row[k], k)
  BY DEF Follows, EntryFollows
<1>1. SameRecords(n, m) /\ n[t] = WriteProtect(m[t], pages) /\ m[t] \in ShadowTable
  BY GuestWriteProtectState, TableOfState
<1> DEFINE e == m[t][k]
           f == n[t][k]
<1>2. /\ e.type # "fault" /\ f.dom = e.dom
      /\ f.type = "section" => f = e
  BY <1>1, WriteProtectEntry
<1>3. EntryFollows(m, e, row[k], k) BY DEF Follows
<1>4. f.dom # HostDomain BY <1>2, <1>3 DEF EntryFollows
<1>5. CASE row[k].type = "section" /\ SectionPages(e, row[k])
  <2>1. ASSUME NEW o \in Offsets, Split(f)[o].type = "page"
        PROVE  Split(f)[o].frame = PageAt(row[k].mb, o)
    <3>1. Protects(ShadowPage(n[t], PageAt(k, o)), ShadowPage(m[t], PageAt(k, o)), PageAt(k, o), pages)
      BY GuestWriteProtectPage, PageAtPage
    <3>2. ShadowPage(n[t], PageAt(k, o)) = Split(f)[o] /\ ShadowPage(m[t], PageAt(k, o)) = Split(e)[o]
      BY <1>2, PageOfEntry
    <3> QED BY <1>5, <2>1, <3>1, <3>2 DEF Protects, SectionPages
  <2> QED BY <1>4, <1>5, <2>1 DEF EntryFollows, SectionPages
<1>6. CASE row[k].type = "table" /\ e.type = "table" /\ \E i \in Range(m.gptInfo) : i.mb = k
  <2>1. f \in ShadowEntries BY <1>1, GuestWriteProtectState, EntryOfState
  <2>2. f.type = "table" BY <1>2, <1>6, <2>1, EntryCases
  <2> QED BY <1>1, <1>4, <1>6, <2>2 DEF EntryFollows, SameRecords
<1> QED BY <1>2, <1>3, <1>5, <1>6 DEF EntryFollows

-----------------------------------------------------------------------------
(* mapAPBitsSection                                                         *)

LEMMA SetPermissionsType ==
  ASSUME NEW e \in ShadowEntries, e.type # "fault", NEW ap \in Permissions,
         NEW f, f = SetPermissions(e, ap)
  PROVE  /\ f \in ShadowEntries /\ f.type = e.type /\ f.dom = e.dom
         /\ \A o \in Offsets : /\ Split(f)[o].type = Split(e)[o].type
                               /\ Split(f)[o].type = "page" => Split(f)[o].frame = Split(e)[o].frame
<1>1. CASE e.type = "section"
  <2>1. e \in [type : {"section"}, mb : Nat, ap : Permissions, dom : Domains \cup {HostDomain}]
    BY <1>1, EntryCases
  <2>2. f = [e EXCEPT !.ap = ap] BY <1>1 DEF SetPermissions
  <2>3. f \in [type : {"section"}, mb : Nat, ap : Permissions, dom : Domains \cup {HostDomain}]
    BY <2>1, <2>2
  <2>4. f.mb = e.mb /\ f.dom = e.dom /\ f.type = "section" BY <2>1, <2>2
  <2> QED BY <1>1, <2>3, <2>4 DEF Split, ShadowEntries
<1>2. CASE e.type = "table"
  <2> DEFINE pg == [o \in Offsets |->
               IF e.page[o].type = "page" THEN [e.page[o] EXCEPT !.ap = ap] ELSE e.page[o]]
  <2>1. e \in [type : {"table"}, dom : Domains \cup {HostDomain}, page : [Offsets -> ShadowPages]]
    BY <1>2, EntryCases
  <2>2. f = [e EXCEPT !.page = pg] BY <1>2 DEF SetPermissions
  <2>3. ASSUME NEW o \in Offsets
        PROVE  /\ pg[o] \in ShadowPages /\ pg[o].type = e.page[o].type
               /\ pg[o].type = "page" => pg[o].frame = e.page[o].frame
    <3>1. e.page[o] \in ShadowPages BY <2>1
    <3>2. CASE e.page[o].type = "page"
      <4>1. e.page[o] \in [type : {"page"}, frame : Nat \X Offsets, ap : Permissions]
        BY <3>1, <3>2, PageCases
      <4>2. pg[o] = [e.page[o] EXCEPT !.ap = ap] BY <3>2
      <4> HIDE DEF pg
      <4> QED BY <4>1, <4>2 DEF ShadowPages
    <3>3. CASE e.page[o].type # "page" BY <3>1, <3>3
    <3> QED BY <3>2, <3>3
  <2>4. pg \in [Offsets -> ShadowPages] BY <2>3
  <2> HIDE DEF pg
  <2>5. /\ f \in [type : {"table"}, dom : Domains \cup {HostDomain}, page : [Offsets -> ShadowPages]]
        /\ f.page = pg /\ f.dom = e.dom /\ f.type = "table"
    BY <2>1, <2>2, <2>4
  <2>6. Split(f) = pg /\ Split(e) = e.page BY <1>2, <2>5 DEF Split
  <2> QED BY <1>2, <2>3, <2>5, <2>6 DEF ShadowEntries
<1> QED BY <1>1, <1>2, EntryCases

(* mapAPBitsSection before it protects anything.                            *)
Set(m, t, k, g) ==
  [Put(m, t, k, SetPermissions(m[t][k], MapAccessPermissionBits(t, g.ap, g.dom)))
     EXCEPT !.guestVirtual = IF BaseIn(g) THEN PageAt(k, Offset(guestPhysical)) ELSE @]

LEMMA MapAPBitsSectionIs ==
  ASSUME NEW m, NEW t, NEW k, NEW g
  PROVE  MapAPBitsSection(m, t, k, g) = GuestWriteProtect(Set(m, t, k, g), TablesIn(m, k, g))
BY DEF MapAPBitsSection, Set

LEMMA TablesInPages ==
  ASSUME NEW m, MMState(m), NEW k \in Megabytes, NEW g, guestPhysical \in Bases \cup {NoBase}
  PROVE  TablesIn(m, k, g) \in SUBSET Pages
<1>1. guestPhysical # NoBase => PageAt(k, Offset(guestPhysical)) \in Pages BY FrameOfBase, PageAtPage
<1>2. \A i \in Range(m.gptInfo) : PageAt(k, Offset(i.table.frame)) \in Pages
  BY RecordsOfState, FrameOfTable, PageAtPage
<1> QED BY <1>1, <1>2 DEF TablesIn, BaseIn

LEMMA SetState ==
  ASSUME NEW m, MMState(m), NEW t \in Modes, NEW k \in Megabytes, m[t][k].type # "fault",
         NEW g, guestPhysical \in Bases \cup {NoBase}
  PROVE  LET n == Set(m, t, k, g)
             ap == MapAccessPermissionBits(t, g.ap, g.dom)
         IN /\ MMState(n) /\ SameRecords(n, m)
            /\ n[t][k] = SetPermissions(m[t][k], ap) /\ ap \in Permissions
            /\ \A u \in Modes, j \in Megabytes : u # t \/ j # k => n[u][j] = m[u][j]
<1> DEFINE ap == MapAccessPermissionBits(t, g.ap, g.dom)
           e == SetPermissions(m[t][k], ap)
           x == IF BaseIn(g) THEN PageAt(k, Offset(guestPhysical)) ELSE m.guestVirtual
           m1 == Put(m, t, k, e)
<1>1. ap \in Permissions BY PermissionsMapped DEF Permissions
<1>2. e \in ShadowEntries BY <1>1, SetPermissionsType, EntryOfState
<1>3. x \in Pages \cup {NoBase}
  <2>1. m.guestVirtual \in Pages \cup {NoBase} BY DEF MMState
  <2> QED BY <2>1, FrameOfBase, PageAtPage DEF BaseIn
<1>4. Set(m, t, k, g) = [m1 EXCEPT !.guestVirtual = x]
  <2>1. t # "guestVirtual" BY DEF Modes
  <2>2. t \in DOMAIN m /\ "guestVirtual" \in DOMAIN m BY DEF MMState, Modes
  <2>3. m1.guestVirtual = m.guestVirtual
    <3> HIDE DEF e
    <3> QED BY <2>1, <2>2 DEF Put
  <2> QED BY <2>3 DEF Set
<1>8. m1 = Put(m, t, k, e) OBVIOUS
<1> HIDE DEF e, x, ap, m1
<1>5. MMState(m1) /\ SameRecords(m1, m) /\ m1[t][k] = e
      /\ \A u \in Modes, j \in Megabytes : u # t \/ j # k => m1[u][j] = m[u][j]
  BY <1>2, <1>8, SetEntry
<1>6. MMState([m1 EXCEPT !.guestVirtual = x]) /\ SameRecords([m1 EXCEPT !.guestVirtual = x], m1)
      /\ \A u \in Modes : [m1 EXCEPT !.guestVirtual = x][u] = m1[u]
  BY <1>3, <1>5, SetVirtual
<1>7. e = SetPermissions(m[t][k], ap) BY DEF e
<1> QED BY <1>1, <1>4, <1>5, <1>6, <1>7 DEF SameRecords, ap

LEMMA MapAPBitsType ==
  ASSUME NEW m, MMState(m), NEW t \in Modes, NEW k \in Megabytes, m[t][k].type # "fault",
         NEW g, guestPhysical \in Bases \cup {NoBase}, NEW n, n = MapAPBitsSection(m, t, k, g)
  PROVE  MMState(n) /\ SameRecords(n, m)
<1> DEFINE m1 == Set(m, t, k, g)
           pages == TablesIn(m, k, g)
<1>1. MMState(m1) /\ SameRecords(m1, m) BY SetState
<1>2. pages \in SUBSET Pages BY TablesInPages
<1>3. n = GuestWriteProtect(m1, pages) BY MapAPBitsSectionIs
<1> HIDE DEF m1, pages
<1> QED BY <1>1, <1>2, <1>3, GuestWriteProtectState DEF SameRecords

LEMMA ShadowPageType ==
  ASSUME NEW m, MMState(m), NEW u \in Modes, NEW v \in Pages
  PROVE  ShadowPage(m[u], v) \in ShadowPages
<1>1. m[u][Megabyte(v)] \in ShadowEntries BY PagePair, EntryOfState
<1> QED BY <1>1, PagePair, SplitType, FaultIsEntry DEF ShadowPage

LEMMA MapAPBitsSafe ==
  ASSUME NEW m, MMState(m), NEW t \in Modes, NEW k \in Megabytes, m[t][k].type # "fault",
         NEW g, guestPhysical \in Bases \cup {NoBase}, NEW n, n = MapAPBitsSection(m, t, k, g),
         NEW row, Follows(m, row), row[k].type = "section", row[k].mb = g.mb,
         \A u \in Modes, v \in Pages : u # t \/ Megabyte(v) # k => SafePage(m, ShadowPage(m[u], v))
  PROVE  Protected(n) /\ Follows(n, row)
<1> DEFINE m1 == Set(m, t, k, g)
           pages == TablesIn(m, k, g)
           ap == MapAccessPermissionBits(t, g.ap, g.dom)
           e == m[t][k]
           f == m1[t][k]
<1>1. /\ MMState(m1) /\ SameRecords(m1, m)
      /\ f = SetPermissions(e, ap) /\ ap \in Permissions
      /\ \A u \in Modes, j \in Megabytes : u # t \/ j # k => m1[u][j] = m[u][j]
  BY SetState
<1>2. pages \in SUBSET Pages BY TablesInPages
<1>3. n = GuestWriteProtect(m1, pages) BY MapAPBitsSectionIs
<1>4. e \in ShadowEntries BY EntryOfState
<1>5. pages = TablesIn(m, k, g) OBVIOUS
<1> HIDE DEF m1, pages, ap
<1>6. /\ f \in ShadowEntries /\ f.type = e.type /\ f.dom = e.dom
      /\ \A o \in Offsets : /\ Split(f)[o].type = Split(e)[o].type
                            /\ Split(f)[o].type = "page" => Split(f)[o].frame = Split(e)[o].frame
  BY <1>1, <1>4, SetPermissionsType
<1>7. EntryFollows(m, e, row[k], k) BY DEF Follows
<1>8. SectionPages(e, row[k]) /\ e.dom # HostDomain BY <1>7 DEF EntryFollows
<1>9. SectionPages(f, row[k]) BY <1>6, <1>8 DEF SectionPages
<1>10. Follows(m1, row)
  <2> SUFFICES ASSUME NEW u \in Modes, NEW j \in Megabytes PROVE EntryFollows(m1, m1[u][j], row[j], j)
    BY DEF Follows
  <2>1. CASE u = t /\ j = k BY <2>1, <1>6, <1>8, <1>9 DEF EntryFollows
  <2>2. CASE ~ (u = t /\ j = k)
    <3>1. m1[u][j] = m[u][j] BY <2>2, <1>1
    <3>2. EntryFollows(m, m[u][j], row[j], j) BY DEF Follows
    <3> QED BY <3>1, <3>2, <1>1 DEF EntryFollows, SameRecords
  <2> QED BY <2>1, <2>2
<1>11. Follows(n, row) BY <1>1, <1>2, <1>3, <1>10, GuestWriteProtectFollows
<1>12. ASSUME NEW u \in Modes, NEW v \in Pages PROVE SafePage(n, ShadowPage(n[u], v))
  <2> DEFINE q == ShadowPage(n[u], v)
             p == ShadowPage(m1[u], v)
  <2>1. Protects(q, p, v, pages) BY <1>1, <1>2, <1>3, GuestWriteProtectPage
  <2>2. InUseOf(n) = InUseOf(m) BY <1>1, <1>2, <1>3, GuestWriteProtectState DEF SameRecords, InUseOf
  <2>3. p \in ShadowPages BY <1>1, ShadowPageType
  <2>4. Megabyte(v) \in Megabytes /\ Offset(v) \in Offsets /\ v = PageAt(Megabyte(v), Offset(v)) BY PagePair
  <2>5. CASE u = t /\ Megabyte(v) = k
    <3>1. p = Split(f)[Offset(v)] BY <2>4, <2>5, <1>6, PageOfEntry
    <3>2. p.type = "page" => p.frame = PageAt(g.mb, Offset(v)) BY <1>9, <2>4, <3>1 DEF SectionPages
    <3>3. ASSUME p.type = "page", p.frame \in InUseOf(m) PROVE v \in pages
      <4>1. p.frame \in Nat \X Offsets BY <2>3, <3>3, PageCases
      <4>2. Megabyte(p.frame) = g.mb /\ Offset(p.frame) = Offset(v)
        BY <3>2, <3>3 DEF PageAt, Megabyte, Offset
      <4>3. CASE p.frame = guestPhysical
        <5>1. guestPhysical # NoBase BY <4>1, <4>3 DEF NoBase
        <5> QED BY <1>5, <2>4, <2>5, <4>2, <4>3, <5>1 DEF TablesIn, BaseIn
      <4>4. CASE \E i \in Range(m.gptInfo) : p.frame = i.table.frame
        <5>1. PICK i \in Range(m.gptInfo) : p.frame = i.table.frame BY <4>4
        <5> QED BY <1>5, <2>4, <2>5, <4>2, <5>1 DEF TablesIn, BaseIn
      <4> QED BY <3>3, <4>3, <4>4 DEF InUseOf
    <3> QED BY <2>1, <2>2, <3>3 DEF SafePage, Protects
  <2>6. CASE ~ (u = t /\ Megabyte(v) = k)
    <3>1. p = ShadowPage(m[u], v) BY <2>4, <2>6, <1>1 DEF ShadowPage
    <3>2. SafePage(m, p) BY <2>6, <3>1
    <3> QED BY <2>1, <2>2, <3>2 DEF SafePage, Protects
  <2> QED BY <2>5, <2>6
<1> QED BY <1>11, <1>12 DEF Protected

-----------------------------------------------------------------------------
(* Mapping.                                                                 *)

Safe(m, row) == m.alive => Protected(m) /\ Follows(m, row)

(* No page of the hypervisor's own in the shadow tables, and its domain is  *)
(* not one of the guest's.                                                  *)
NoHostPages == HostMegabytes = {} /\ HostDomain \notin Domains

(* A second level table begins where its page does.                         *)
TablesAtPageStart == \A t \in Tables : t.at = 0

LEMMA DieSafe ==
  ASSUME NEW m, MMState(m), NEW row
  PROVE  MMState(Die(m)) /\ ~ Die(m).alive /\ Safe(Die(m), row)
BY DieState DEF Safe

(* A first level entry whose pages are safe may replace any other.          *)
LEMMA PutSafe ==
  ASSUME NEW m, MMState(m), NEW t \in Modes, NEW k \in Megabytes, NEW e \in ShadowEntries,
         NEW n, n = Put(m, t, k, e), NEW row, Follows(m, row), EntryFollows(m, e, row[k], k)
  PROVE  /\ Follows(n, row)
         /\ \A u \in Modes, v \in Pages : u # t \/ Megabyte(v) # k =>
              ShadowPage(n[u], v) = ShadowPage(m[u], v)
         /\ InUseOf(n) = InUseOf(m)
<1>1. /\ SameRecords(n, m) /\ n[t][k] = e
      /\ \A u \in Modes, j \in Megabytes : u # t \/ j # k => n[u][j] = m[u][j]
  BY SetEntry
<1>2. ASSUME NEW u \in Modes, NEW j \in Megabytes PROVE EntryFollows(n, n[u][j], row[j], j)
  <2>1. CASE u = t /\ j = k BY <1>1, <2>1 DEF EntryFollows, SameRecords
  <2>2. CASE ~ (u = t /\ j = k)
    <3>1. EntryFollows(m, m[u][j], row[j], j) BY DEF Follows
    <3> QED BY <1>1, <2>2, <3>1 DEF EntryFollows, SameRecords
  <2> QED BY <2>1, <2>2
<1>3. ASSUME NEW u \in Modes, NEW v \in Pages, u # t \/ Megabyte(v) # k
      PROVE  ShadowPage(n[u], v) = ShadowPage(m[u], v)
  BY <1>1, <1>3, PagePair DEF ShadowPage
<1> QED BY <1>1, <1>2, <1>3 DEF Follows, InUseOf, SameRecords

LEMMA SectionEntry ==
  ASSUME NEW g \in GuestFirstEntries, g.type = "section",
         NEW e, e = [type |-> "section", mb |-> g.mb, ap |-> "rw_no", dom |-> g.dom]
  PROVE  /\ e \in ShadowEntries /\ e.type = "section" /\ e.dom \in Domains
         /\ \A o \in Offsets : /\ Split(e)[o].ap = "rw_no"
                               /\ Split(e)[o].frame = PageAt(g.mb, o)
         /\ NoHostPages => \A m, k : EntryFollows(m, e, g, k)
<1>1. g.mb \in Nat /\ g.dom \in Domains BY GuestEntryCases
<1>2. e \in ShadowEntries BY <1>1 DEF ShadowEntries, Permissions
<1>3. \A o \in Offsets : Split(e)[o].ap = "rw_no" /\ Split(e)[o].frame = PageAt(g.mb, o)
  BY DEF Split
<1> QED BY <1>1, <1>2, <1>3 DEF EntryFollows, SectionPages, NoHostPages

LEMMA ShadowMapSectionType ==
  ASSUME NEW m, MMState(m), NEW t \in Modes, NEW k \in Megabytes,
         NEW g \in GuestFirstEntries, g.type = "section", guestPhysical \in Bases \cup {NoBase},
         NEW n, n = ShadowMapSection(m, t, k, g)
  PROVE  MMState(n) /\ n.gptInfo = m.gptInfo /\ (n.alive => m.alive)
<1> DEFINE e == [type |-> "section", mb |-> g.mb, ap |-> "rw_no", dom |-> g.dom]
           m1 == Put(m, t, k, e)
<1>1. e \in ShadowEntries /\ e.type = "section" BY SectionEntry
<1>2. \/ n = Die(m)
      \/ n = m1
      \/ n = MapAPBitsSection(m1, t, k, g)
  BY DEF ShadowMapSection
<1> HIDE DEF e
<1>3. MMState(m1) /\ SameRecords(m1, m) /\ m1[t][k] = e BY <1>1, SetEntry
<1> HIDE DEF m1
<1>4. CASE n = Die(m)
  <2>1. Die(m).gptInfo = m.gptInfo BY DEF Die, MMState
  <2> QED BY <1>4, <2>1, DieState
<1>5. CASE n = m1 BY <1>3, <1>5 DEF SameRecords
<1>6. CASE n = MapAPBitsSection(m1, t, k, g) BY <1>1, <1>3, <1>6, MapAPBitsType DEF SameRecords
<1> QED BY <1>2, <1>4, <1>5, <1>6

LEMMA ShadowMapSectionSafe ==
  ASSUME NEW m, MMState(m), NEW t \in Modes, NEW k \in Megabytes,
         NEW g \in GuestFirstEntries, g.type = "section", guestPhysical \in Bases \cup {NoBase},
         NEW n, n = ShadowMapSection(m, t, k, g), NoHostPages,
         NEW row, Safe(m, row), row[k] = g
  PROVE  Safe(n, row)
<1> SUFFICES ASSUME n.alive PROVE Protected(n) /\ Follows(n, row) BY DEF Safe
<1>0. Protected(m) /\ Follows(m, row) BY ShadowMapSectionType DEF Safe
<1> DEFINE e == [type |-> "section", mb |-> g.mb, ap |-> "rw_no", dom |-> g.dom]
           m1 == Put(m, t, k, e)
<1>1. /\ e \in ShadowEntries /\ e.type = "section"
      /\ \A o \in Offsets : Split(e)[o].ap = "rw_no"
      /\ EntryFollows(m, e, g, k)
  BY SectionEntry
<1>2. n = m1 \/ n = MapAPBitsSection(m1, t, k, g)
  BY DieState DEF ShadowMapSection
<1> HIDE DEF e
<1>3. MMState(m1) /\ SameRecords(m1, m) /\ m1[t][k] = e BY <1>1, SetEntry
<1>4. /\ Follows(m1, row) /\ InUseOf(m1) = InUseOf(m)
      /\ \A u \in Modes, v \in Pages : u # t \/ Megabyte(v) # k =>
           ShadowPage(m1[u], v) = ShadowPage(m[u], v)
  BY <1>0, <1>1, PutSafe
<1> HIDE DEF m1
<1>5. \A u \in Modes, v \in Pages : u # t \/ Megabyte(v) # k => SafePage(m1, ShadowPage(m1[u], v))
  BY <1>0, <1>4 DEF Protected, SafePage
<1>6. CASE n = m1
  <2> SUFFICES ASSUME NEW v \in Pages, Megabyte(v) = k PROVE SafePage(m1, ShadowPage(m1[t], v))
    BY <1>4, <1>5, <1>6 DEF Protected
  <2>1. ShadowPage(m1[t], v) = Split(e)[Offset(v)] BY <1>1, <1>3 DEF ShadowPage
  <2> QED BY <1>1, <2>1, PagePair DEF SafePage
<1>7. CASE n = MapAPBitsSection(m1, t, k, g)
  BY <1>1, <1>3, <1>4, <1>5, <1>7, MapAPBitsSafe
<1> QED BY <1>2, <1>6, <1>7

LEMMA AppendRange ==
  ASSUME NEW s \in Seq(Record), NEW x \in Record
  PROVE  Range(Append(s, x)) = Range(s) \cup {x} /\ Append(s, x) \in Seq(Record)
<1>1. /\ DOMAIN Append(s, x) = 1 .. Len(s) + 1 /\ DOMAIN s = 1 .. Len(s) /\ Len(s) \in Nat
      /\ Append(s, x) \in Seq(Record)
      /\ Append(s, x)[Len(s) + 1] = x
      /\ \A i \in 1 .. Len(s) : Append(s, x)[i] = s[i]
  OBVIOUS
<1>2. \A i \in 1 .. Len(s) + 1 : i \in 1 .. Len(s) \/ i = Len(s) + 1 BY <1>1
<1>3. 1 .. Len(s) \subseteq 1 .. Len(s) + 1 /\ Len(s) + 1 \in 1 .. Len(s) + 1 BY <1>1
<1> QED BY <1>1, <1>2, <1>3 DEF Range

LEMMA AddPageTableInfoState ==
  ASSUME NEW m, MMState(m), NEW k \in Megabytes, NEW table \in Tables,
         NEW n, n = AddPageTableInfo(m, k, table)
  PROVE  /\ MMState(n) /\ n.alive = m.alive /\ n.guestVirtual = m.guestVirtual
         /\ \A u \in Modes : n[u] = m[u]
         /\ Range(n.gptInfo) = Range(m.gptInfo) \cup {[mb |-> k, table |-> table]}
<1> DEFINE new == [mb |-> k, table |-> table]
           old == {i \in DOMAIN m.gptInfo : m.gptInfo[i] = new}
<1>1. new \in Record /\ m.gptInfo \in Seq(Record) BY DEF Record, MMState
<1>2. CASE Cardinality(old) >= MaxCopies
  <2>1. n = m BY <1>2 DEF AddPageTableInfo
  <2>2. old # {}
    <3> SUFFICES ASSUME old = {} PROVE FALSE OBVIOUS
    <3>1. Cardinality(old) = 0 BY FS_EmptySet
    <3> HIDE DEF old
    <3> QED BY <1>2, <3>1, BoundAssumption
  <2>3. new \in Range(m.gptInfo) BY <2>2 DEF Range
  <2> QED BY <2>1, <2>3
<1>3. CASE ~ (Cardinality(old) >= MaxCopies)
  <2>1. n = [m EXCEPT !.gptInfo = Append(m.gptInfo, new)] BY <1>3 DEF AddPageTableInfo
  <2>2. Append(m.gptInfo, new) \in Seq(Record) /\ Range(Append(m.gptInfo, new)) = Range(m.gptInfo) \cup {new}
    BY <1>1, AppendRange
  <2> HIDE DEF new
  <2>3. MMState(n) /\ n.gptInfo = Append(m.gptInfo, new) /\ n.alive = m.alive
        /\ n.guestVirtual = m.guestVirtual /\ \A u \in Modes : n[u] = m[u]
    BY <2>1, <2>2 DEF MMState, Modes
  <2> QED BY <2>2, <2>3 DEF new
<1> QED BY <1>2, <1>3

LEMMA TableEntry ==
  ASSUME NEW dom \in Domains, NEW e, e = [type |-> "table", dom |-> dom, page |-> NoPages]
  PROVE  /\ e \in ShadowEntries /\ e.type = "table" /\ e.dom = dom
         /\ \A o \in Offsets : Split(e)[o].type = "fault"
BY FaultIsEntry DEF ShadowEntries, NoPages, Split

LEMMA MappedInPages ==
  ASSUME NEW m, NEW f PROVE MappedAt(m, f) \in SUBSET Pages
BY DEF MappedAt

LEMMA ShadowMapPageTableType ==
  ASSUME NEW m, MMState(m), NEW t \in Modes, NEW k \in Megabytes,
         NEW g \in GuestFirstEntries, g.type = "table", NEW n, n = ShadowMapPageTable(m, t, k, g)
  PROVE  MMState(n) /\ n.alive = m.alive /\ n[t][k].type = "table"
<1> DEFINE e == [type |-> "table", dom |-> g.dom, page |-> NoPages]
           m0 == Put(m, t, k, e)
           m1 == AddPageTableInfo(m0, k, g.table)
           pages == MappedAt(m1, g.table.frame)
<1>0. g.dom \in Domains /\ g.table \in Tables BY GuestEntryCases
<1>1. e \in ShadowEntries /\ e.type = "table" BY <1>0, TableEntry
<1>2. n = GuestWriteProtect(m1, pages) BY DEF ShadowMapPageTable
<1>3. pages \in SUBSET Pages BY MappedInPages
<1> HIDE DEF e, pages
<1>4. MMState(m0) /\ SameRecords(m0, m) /\ m0[t][k] = e BY <1>1, SetEntry
<1> HIDE DEF m0
<1>5. MMState(m1) /\ m1.alive = m0.alive /\ m1[t] = m0[t] BY <1>0, <1>4, AddPageTableInfoState
<1> HIDE DEF m1
<1>6. MMState(n) /\ SameRecords(n, m1) /\ n[t] = WriteProtect(m1[t], pages)
  BY <1>2, <1>3, <1>5, GuestWriteProtectState
<1>7. m1[t] \in ShadowTable BY <1>5, TableOfState
<1>8. n[t][k].type # "fault" /\ (n[t][k].type = "section" => n[t][k] = m1[t][k])
  BY <1>1, <1>3, <1>4, <1>5, <1>6, <1>7, WriteProtectEntry
<1>9. n[t][k] \in ShadowEntries BY <1>6, EntryOfState
<1> QED BY <1>1, <1>4, <1>5, <1>6, <1>8, <1>9, EntryCases DEF SameRecords

LEMMA ShadowMapPageTableSafe ==
  ASSUME NEW m, MMState(m), NEW t \in Modes, NEW k \in Megabytes,
         NEW g \in GuestFirstEntries, g.type = "table", NEW n, n = ShadowMapPageTable(m, t, k, g),
         NoHostPages, NEW row, Safe(m, row), row[k] = g
  PROVE  Safe(n, row)
<1> DEFINE e == [type |-> "table", dom |-> g.dom, page |-> NoPages]
           m0 == AddPageTableInfo(m, k, g.table)
           m1 == AddPageTableInfo(Put(m, t, k, e), k, g.table)
           new == [mb |-> k, table |-> g.table]
           f == g.table.frame
           pages == MappedAt(m1, f)
<1> SUFFICES ASSUME n.alive PROVE Protected(n) /\ Follows(n, row) BY DEF Safe
<1>0. g.dom \in Domains /\ g.table \in Tables BY GuestEntryCases
<1>1. /\ e \in ShadowEntries /\ e.type = "table" /\ e.dom = g.dom
      /\ \A o \in Offsets : Split(e)[o].type = "fault"
  BY <1>0, TableEntry
<1>2. n = GuestWriteProtect(m1, pages) BY DEF ShadowMapPageTable
<1>3. pages \in SUBSET Pages BY MappedInPages
<1>4. Protected(m) /\ Follows(m, row) BY ShadowMapPageTableType DEF Safe
<1>5. pages = MappedAt(m1, f) /\ new.mb = k /\ new.table = g.table OBVIOUS
<1> HIDE DEF e, pages
<1> DEFINE mp == Put(m, t, k, e)
<1>6. /\ MMState(mp) /\ SameRecords(mp, m) /\ mp[t][k] = e
      /\ \A u \in Modes, j \in Megabytes : u # t \/ j # k => mp[u][j] = m[u][j]
  BY <1>1, SetEntry
<1>7. /\ MMState(m1) /\ \A u \in Modes : m1[u] = mp[u]
      /\ Range(m1.gptInfo) = Range(mp.gptInfo) \cup {new}
  BY <1>0, <1>6, AddPageTableInfoState
<1> HIDE DEF m1, mp
<1> HIDE DEF new
<1>12. Range(m1.gptInfo) = Range(m.gptInfo) \cup {new} BY <1>6, <1>7 DEF SameRecords
<1>8. InUseOf(m1) = InUseOf(m) \cup {f}
  <2>1. {i.table.frame : i \in Range(m1.gptInfo)} =
          {i.table.frame : i \in Range(m.gptInfo)} \cup {new.table.frame}
    BY <1>12
  <2> QED BY <1>5, <2>1 DEF InUseOf
<1>9. Follows(m1, row)
  <2> SUFFICES ASSUME NEW u \in Modes, NEW j \in Megabytes PROVE EntryFollows(m1, m1[u][j], row[j], j)
    BY DEF Follows
  <2>1. CASE u = t /\ j = k
    <3>1. m1[u][j] = e BY <1>6, <1>7, <2>1
    <3>2. new \in Range(m1.gptInfo) /\ new.mb = k BY <1>5, <1>7
    <3> QED BY <1>0, <1>1, <2>1, <3>1, <3>2 DEF EntryFollows, NoHostPages
  <2>2. CASE ~ (u = t /\ j = k)
    <3>1. m1[u][j] = m[u][j] BY <2>2, <1>6, <1>7
    <3>2. EntryFollows(m, m[u][j], row[j], j) BY <1>4 DEF Follows
    <3>3. \A i \in Range(m.gptInfo) : i \in Range(m1.gptInfo) BY <1>6, <1>7 DEF SameRecords
    <3> QED BY <3>1, <3>2, <3>3 DEF EntryFollows
  <2> QED BY <2>1, <2>2
<1>10. Follows(n, row) BY <1>2, <1>3, <1>7, <1>9, GuestWriteProtectFollows
<1>11. ASSUME NEW u \in Modes, NEW v \in Pages PROVE SafePage(n, ShadowPage(n[u], v))
  <2> DEFINE q == ShadowPage(n[u], v)
             p == ShadowPage(m1[u], v)
  <2>1. Protects(q, p, v, pages) BY <1>2, <1>3, <1>7, GuestWriteProtectPage
  <2>2. InUseOf(n) = InUseOf(m) \cup {f}
    <3>1. SameRecords(n, m1) BY <1>2, <1>3, <1>7, GuestWriteProtectState
    <3>2. InUseOf(n) = InUseOf(m1) BY <3>1 DEF SameRecords, InUseOf
    <3> QED BY <1>8, <3>2
  <2>3. ASSUME p.type = "page", p.frame = f PROVE v \in pages
    <3>1. Megabyte(v) \in Megabytes BY PagePair
    <3>2. "user" \in Modes BY DEF Modes
    <3>3. EntryFollows(m1, m1["user"][Megabyte(v)], row[Megabyte(v)], Megabyte(v))
      BY <1>9, <3>1, <3>2 DEF Follows
    <3>4. m1.user[Megabyte(v)].type # "fault" => m1.user[Megabyte(v)].dom # HostDomain
      BY <3>3 DEF EntryFollows
    <3> QED BY <1>5, <2>3, <3>4 DEF MappedAt
  <2>4. ASSUME p.type = "page", p.frame \in InUseOf(m) PROVE p.ap # "rw_rw"
    <3>1. Megabyte(v) \in Megabytes /\ Offset(v) \in Offsets BY PagePair
    <3>2. CASE u = t /\ Megabyte(v) = k
      <4>1. m1[u][Megabyte(v)] = e BY <1>6, <1>7, <3>1, <3>2
      <4>2. p = Split(e)[Offset(v)] BY <1>1, <4>1 DEF ShadowPage
      <4> QED BY <1>1, <2>4, <3>1, <4>2
    <3>3. CASE ~ (u = t /\ Megabyte(v) = k)
      <4>1. p = ShadowPage(m[u], v) BY <1>6, <1>7, <3>1, <3>3 DEF ShadowPage
      <4> QED BY <1>4, <2>4, <4>1 DEF Protected, SafePage
    <3> QED BY <3>2, <3>3
  <2> QED BY <2>1, <2>2, <2>3, <2>4 DEF SafePage, Protects
<1> QED BY <1>10, <1>11 DEF Protected

LEMMA EnsureTableType ==
  ASSUME NEW m, MMState(m), NEW t \in Modes, NEW k \in Megabytes,
         NEW g \in GuestFirstEntries, g.type = "table", NEW n, n = EnsureTable(m, t, k, g)
  PROVE  MMState(n) /\ (n.alive => m.alive /\ n[t][k].type = "table")
<1>1. m[t][k].type \in {"fault", "section", "table"} BY EntryOfState, EntryCases
<1>2. CASE m[t][k].type = "fault"
  <2>1. n = ShadowMapPageTable(m, t, k, g) BY <1>2 DEF EnsureTable
  <2> QED BY <2>1, ShadowMapPageTableType
<1>3. CASE m[t][k].type = "section"
  <2>1. n = Die(m) BY <1>3 DEF EnsureTable
  <2> QED BY <2>1, DieState
<1>4. CASE m[t][k].type = "table"
  <2>1. n = m \/ n = AddPageTableInfo(m, k, g.table) BY <1>4 DEF EnsureTable
  <2>2. g.table \in Tables BY GuestEntryCases
  <2> QED BY <1>4, <2>1, <2>2, AddPageTableInfoState
<1> QED BY <1>1, <1>2, <1>3, <1>4

LEMMA EnsureTableSafe ==
  ASSUME NEW m, MMState(m), NEW t \in Modes, NEW k \in Megabytes,
         NEW g \in GuestFirstEntries, g.type = "table", NEW n, n = EnsureTable(m, t, k, g),
         NoHostPages, NEW row, Safe(m, row), row[k] = g
  PROVE  Safe(n, row)
<1>1. m[t][k].type \in {"fault", "section", "table"} BY EntryOfState, EntryCases
<1>2. CASE m[t][k].type = "fault"
  <2>1. n = ShadowMapPageTable(m, t, k, g) BY <1>2 DEF EnsureTable
  <2> QED BY <2>1, ShadowMapPageTableSafe
<1>3. CASE m[t][k].type = "section"
  <2>1. n = Die(m) BY <1>3 DEF EnsureTable
  <2> QED BY <2>1, DieSafe
<1>4. CASE m[t][k].type = "table"
  <2> SUFFICES ASSUME n.alive PROVE Protected(n) /\ Follows(n, row) BY DEF Safe
  <2>1. Protected(m) /\ Follows(m, row) BY EnsureTableType DEF Safe
  <2>2. \E i \in Range(m.gptInfo) : i.mb = k
    <3>1. EntryFollows(m, m[t][k], row[k], k) BY <2>1 DEF Follows
    <3> QED BY <1>4, <3>1 DEF EntryFollows
  <2>3. n = m BY <1>4, <2>2 DEF EnsureTable
  <2> QED BY <2>1, <2>3
<1> QED BY <1>1, <1>2, <1>3, <1>4

LEMMA PutPageType ==
  ASSUME NEW e \in ShadowEntries, e.type = "table", NEW o \in Offsets, NEW p \in ShadowPages,
         NEW f, f = PutPage(e, o, p)
  PROVE  /\ f \in ShadowEntries /\ f.type = "table" /\ f.dom = e.dom
         /\ Split(f)[o] = p /\ \A x \in Offsets : x # o => Split(f)[x] = Split(e)[x]
<1>1. e \in [type : {"table"}, dom : Domains \cup {HostDomain}, page : [Offsets -> ShadowPages]]
  BY EntryCases
<1>2. [e.page EXCEPT ![o] = p] \in [Offsets -> ShadowPages] BY <1>1
<1>3. /\ f \in [type : {"table"}, dom : Domains \cup {HostDomain}, page : [Offsets -> ShadowPages]]
      /\ f.page = [e.page EXCEPT ![o] = p] /\ f.dom = e.dom /\ f.type = "table"
  BY <1>1, <1>2 DEF PutPage
<1>4. Split(f) = f.page /\ Split(e) = e.page BY <1>3 DEF Split
<1>5. f.page[o] = p /\ \A x \in Offsets : x # o => f.page[x] = e.page[x] BY <1>1, <1>3
<1> QED BY <1>3, <1>4, <1>5 DEF ShadowEntries

LEMMA ShadowMapSmallPageType ==
  ASSUME NEW m, MMState(m), NEW t \in Modes, NEW v \in Pages, m[t][Megabyte(v)].type = "table",
         NEW p \in GuestSecondEntries, p.type = "page", NEW dom,
         NEW n, n = ShadowMapSmallPage(m, t, v, p, dom)
  PROVE  MMState(n) /\ (n.alive => m.alive)
<1> DEFINE k == Megabyte(v)
           entry == [type |-> "page", frame |-> p.frame, ap |-> MapAccessPermissionBits(t, p.ap, dom)]
           e == PutPage(m[t][k], Offset(v), entry)
<1>1. entry \in ShadowPages
  BY GuestPageCases, PermissionsMapped DEF ShadowPages, Permissions
<1>2. k \in Megabytes /\ Offset(v) \in Offsets BY PagePair
<1>3. m[t][k] \in ShadowEntries BY <1>2, EntryOfState
<1>4. e \in ShadowEntries
  <2> HIDE DEF entry
  <2> QED BY <1>1, <1>2, <1>3, PutPageType
<1>5. n = Die(m) \/ n = Put(m, t, k, e) BY DEF ShadowMapSmallPage
<1> HIDE DEF e
<1> QED BY <1>2, <1>4, <1>5, DieState, SetEntry DEF SameRecords

LEMMA ShadowMapSmallPageSafe ==
  ASSUME NEW m, MMState(m), NEW t \in Modes, NEW v \in Pages, m[t][Megabyte(v)].type = "table",
         NEW p \in GuestSecondEntries, p.type = "page", NEW dom,
         NEW n, n = ShadowMapSmallPage(m, t, v, p, dom),
         TablesAtPageStart, NEW row, Safe(m, row), row[Megabyte(v)].type = "table"
  PROVE  Safe(n, row)
<1> DEFINE k == Megabyte(v)
           o == Offset(v)
           entry == [type |-> "page", frame |-> p.frame, ap |-> MapAccessPermissionBits(t, p.ap, dom)]
           e == PutPage(m[t][k], o, entry)
<1> SUFFICES ASSUME n.alive PROVE Protected(n) /\ Follows(n, row) BY DEF Safe
<1>0. Protected(m) /\ Follows(m, row) BY ShadowMapSmallPageType DEF Safe
<1>1. entry \in ShadowPages
  BY GuestPageCases, PermissionsMapped DEF ShadowPages, Permissions
<1>2. k \in Megabytes /\ o \in Offsets BY PagePair
<1>3. m[t][k] \in ShadowEntries BY <1>2, EntryOfState
<1>4. n = Put(m, t, k, e) BY DieState DEF ShadowMapSmallPage
<1>5. p.frame \notin InUseOf(m)
  <2>1. /\ p.frame # guestPhysical
        /\ \A i \in Range(m.gptInfo) : ~ (i.table.frame = p.frame /\ i.table.at = 0)
    BY DieState DEF ShadowMapSmallPage
  <2>2. \A i \in Range(m.gptInfo) : i.table.at = 0 BY RecordsOfState DEF TablesAtPageStart
  <2> QED BY <2>1, <2>2 DEF InUseOf
<1>6. entry.frame = p.frame OBVIOUS
<1> HIDE DEF entry
<1>7. /\ e \in ShadowEntries /\ e.type = "table" /\ e.dom = m[t][k].dom
      /\ Split(e)[o] = entry /\ \A x \in Offsets : x # o => Split(e)[x] = Split(m[t][k])[x]
  BY <1>1, <1>2, <1>3, PutPageType
<1>8. EntryFollows(m, e, row[k], k)
  <2>1. EntryFollows(m, m[t][k], row[k], k) BY <1>0, <1>2 DEF Follows
  <2> QED BY <1>7, <2>1 DEF EntryFollows
<1> HIDE DEF e
<1>9. MMState(n) /\ SameRecords(n, m) /\ n[t][k] = e BY <1>2, <1>4, <1>7, SetEntry
<1>10. /\ Follows(n, row) /\ InUseOf(n) = InUseOf(m)
       /\ \A u \in Modes, w \in Pages : u # t \/ Megabyte(w) # k =>
            ShadowPage(n[u], w) = ShadowPage(m[u], w)
  BY <1>0, <1>2, <1>4, <1>7, <1>8, PutSafe
<1>11. ASSUME NEW u \in Modes, NEW w \in Pages PROVE SafePage(n, ShadowPage(n[u], w))
  <2>1. SafePage(m, ShadowPage(m[u], w)) BY <1>0 DEF Protected
  <2>2. CASE u # t \/ Megabyte(w) # k BY <1>10, <2>1, <2>2 DEF SafePage
  <2>3. CASE u = t /\ Megabyte(w) = k
    <3>1. ShadowPage(n[u], w) = Split(e)[Offset(w)] BY <1>7, <1>9, <2>3 DEF ShadowPage
    <3>2. ShadowPage(m[u], w) = Split(m[t][k])[Offset(w)] BY <2>3 DEF ShadowPage
    <3>3. Offset(w) \in Offsets BY PagePair
    <3>4. CASE Offset(w) = o BY <1>5, <1>6, <1>7, <1>10, <3>1, <3>4 DEF SafePage
    <3>5. CASE Offset(w) # o BY <1>7, <1>10, <2>1, <3>1, <3>2, <3>3, <3>5 DEF SafePage
    <3> QED BY <3>4, <3>5
  <2> QED BY <2>2, <2>3
<1> QED BY <1>10, <1>11 DEF Protected

(* The guest's first level table, or nothing without one.                   *)
Row == IF guestPhysical \in Bases THEN first[guestPhysical] ELSE [k \in Megabytes |-> Fault]

LEMMA ShadowMapType ==
  ASSUME NEW m, MMState(m), NEW t \in Modes, NEW v \in Pages, GuestTypeOK,
         NEW n, n = ShadowMap(m, t, v)
  PROVE  MMState(n) /\ (n.alive => m.alive)
<1> DEFINE k == Megabyte(v)
           g == first[guestPhysical][k]
           p == second[g.table][Offset(v)]
           m1 == EnsureTable(m, t, k, g)
<1>1. k \in Megabytes /\ Offset(v) \in Offsets BY PagePair
<1>2. CASE guestPhysical \notin Bases BY <1>2, DieState DEF ShadowMap
<1>3. CASE guestPhysical \in Bases
  <2>1. g \in GuestFirstEntries BY <1>1, <1>3 DEF GuestTypeOK
  <2>2. CASE g.type = "section"
    <3>1. n = ShadowMapSection(m, t, k, g) BY <1>3, <2>2 DEF ShadowMap
    <3> QED BY <1>1, <1>3, <2>1, <2>2, <3>1, ShadowMapSectionType
  <2>3. CASE g.type = "table"
    <3>1. MMState(m1) /\ (m1.alive => m.alive /\ m1[t][k].type = "table")
      BY <1>1, <2>1, <2>3, EnsureTableType
    <3>2. p \in GuestSecondEntries BY <1>1, <2>1, <2>3, GuestEntryCases DEF GuestTypeOK
    <3>3. n = IF m1.alive /\ p.type = "page" THEN ShadowMapSmallPage(m1, t, v, p, g.dom) ELSE m1
      BY <1>3, <2>3 DEF ShadowMap
    <3> HIDE DEF m1, p
    <3> QED BY <3>1, <3>2, <3>3, ShadowMapSmallPageType
  <2>4. CASE g.type \notin {"section", "table"}
    <3>1. n = m BY <1>3, <2>4 DEF ShadowMap
    <3> QED BY <3>1
  <2> QED BY <2>2, <2>3, <2>4
<1> QED BY <1>2, <1>3

LEMMA ShadowMapSafe ==
  ASSUME NEW m, MMState(m), NEW t \in Modes, NEW v \in Pages, GuestTypeOK,
         NEW n, n = ShadowMap(m, t, v), NoHostPages, TablesAtPageStart, Safe(m, Row)
  PROVE  Safe(n, Row)
<1> DEFINE k == Megabyte(v)
           g == first[guestPhysical][k]
           p == second[g.table][Offset(v)]
           m1 == EnsureTable(m, t, k, g)
<1>1. k \in Megabytes /\ Offset(v) \in Offsets BY PagePair
<1>2. CASE guestPhysical \notin Bases BY <1>2, DieSafe DEF ShadowMap
<1>3. CASE guestPhysical \in Bases
  <2>1. g \in GuestFirstEntries BY <1>1, <1>3 DEF GuestTypeOK
  <2>0. Row[k] = g BY <1>3 DEF Row
  <2>2. CASE g.type = "section"
    <3>1. n = ShadowMapSection(m, t, k, g) BY <1>3, <2>2 DEF ShadowMap
    <3> QED BY <1>1, <1>3, <2>0, <2>1, <2>2, <3>1, ShadowMapSectionSafe
  <2>3. CASE g.type = "table"
    <3>1. MMState(m1) /\ (m1.alive => m.alive /\ m1[t][k].type = "table")
      BY <1>1, <2>1, <2>3, EnsureTableType
    <3>2. p \in GuestSecondEntries BY <1>1, <2>1, <2>3, GuestEntryCases DEF GuestTypeOK
    <3>3. n = IF m1.alive /\ p.type = "page" THEN ShadowMapSmallPage(m1, t, v, p, g.dom) ELSE m1
      BY <1>3, <2>3 DEF ShadowMap
    <3>4. Safe(m1, Row) BY <1>1, <2>0, <2>1, <2>3, EnsureTableSafe
    <3>5. Row[Megabyte(v)].type = "table" BY <2>0, <2>3
    <3> HIDE DEF m1, p
    <3> QED BY <3>1, <3>2, <3>3, <3>4, <3>5, ShadowMapSmallPageSafe
  <2>4. CASE g.type \notin {"section", "table"}
    <3>1. n = m BY <1>3, <2>4 DEF ShadowMap
    <3> QED BY <3>1
  <2> QED BY <2>2, <2>3, <2>4
<1> QED BY <1>2, <1>3

-----------------------------------------------------------------------------
(* Unmapping.                                                               *)

(* n is m, with less mapped in table t at megabyte k, or dead.              *)
Unmapped(n, m, t, k) ==
  /\ MMState(n)
  /\ n.alive =>
       /\ m.alive /\ n.gptInfo = m.gptInfo
       /\ \A u \in Modes, j \in Megabytes : u # t \/ j # k => n[u][j] = m[u][j]
       /\ \A v \in Pages : ShadowPage(n[t], v) = ShadowPage(m[t], v) \/ ShadowPage(n[t], v) = Fault
       /\ n[t][k].type \in {m[t][k].type, "fault"}
       /\ n[t][k].type # "fault" => n[t][k].dom = m[t][k].dom

LEMMA UnmappedSame ==
  ASSUME NEW m, MMState(m), NEW t \in Modes, NEW k \in Megabytes
  PROVE  Unmapped(m, m, t, k) /\ Unmapped(Die(m), m, t, k)
BY DieState DEF Unmapped

LEMMA UnmappedEntry ==
  ASSUME NEW m, MMState(m), NEW t \in Modes, NEW k \in Megabytes, NEW pages,
         NEW n, n = ClearTranslations(Put(m, t, k, Fault), pages)
  PROVE  Unmapped(n, m, t, k) /\ n[t][k].type = "fault"
<1> DEFINE m1 == Put(m, t, k, Fault)
<1>1. /\ MMState(m1) /\ SameRecords(m1, m) /\ m1[t][k] = Fault
      /\ \A u \in Modes, j \in Megabytes : u # t \/ j # k => m1[u][j] = m[u][j]
  BY SetEntry, FaultIsEntry
<1> HIDE DEF m1
<1>2. MMState(n) /\ SameRecords(n, m1) /\ \A u \in Modes : n[u] = m1[u]
  BY <1>1, ClearState DEF m1
<1>3. \A v \in Pages : ShadowPage(n[t], v) = ShadowPage(m[t], v) \/ ShadowPage(n[t], v) = Fault
  BY <1>1, <1>2, PagePair, FaultIsEntry DEF ShadowPage
<1> QED BY <1>1, <1>2, <1>3, FaultIsEntry DEF Unmapped, SameRecords

LEMMA UnmappedPage ==
  ASSUME NEW m, MMState(m), NEW t \in Modes, NEW v \in Pages, m[t][Megabyte(v)].type = "table",
         NEW pages,
         NEW n, n = ClearTranslations(Put(m, t, Megabyte(v), PutPage(m[t][Megabyte(v)], Offset(v), Fault)), pages)
  PROVE  Unmapped(n, m, t, Megabyte(v))
<1> DEFINE k == Megabyte(v)
           e == PutPage(m[t][k], Offset(v), Fault)
           m1 == Put(m, t, k, e)
<1>0. k \in Megabytes /\ Offset(v) \in Offsets /\ m[t][k] \in ShadowEntries BY PagePair, EntryOfState
<1>1. /\ e \in ShadowEntries /\ e.type = "table" /\ e.dom = m[t][k].dom
      /\ Split(e)[Offset(v)] = Fault
      /\ \A x \in Offsets : x # Offset(v) => Split(e)[x] = Split(m[t][k])[x]
  BY <1>0, FaultIsEntry, PutPageType
<1> HIDE DEF e
<1>2. /\ MMState(m1) /\ SameRecords(m1, m) /\ m1[t][k] = e
      /\ \A u \in Modes, j \in Megabytes : u # t \/ j # k => m1[u][j] = m[u][j]
  BY <1>0, <1>1, SetEntry
<1> HIDE DEF m1
<1>3. MMState(n) /\ SameRecords(n, m1) /\ \A u \in Modes : n[u] = m1[u]
  BY <1>2, ClearState DEF m1, e
<1>4. ASSUME NEW w \in Pages
      PROVE  ShadowPage(n[t], w) = ShadowPage(m[t], w) \/ ShadowPage(n[t], w) = Fault
  <2>1. CASE Megabyte(w) = k
    <3>1. ShadowPage(n[t], w) = Split(e)[Offset(w)] BY <1>1, <1>2, <1>3, <2>1 DEF ShadowPage
    <3>2. ShadowPage(m[t], w) = Split(m[t][k])[Offset(w)] BY <2>1 DEF ShadowPage
    <3> QED BY <1>1, <3>1, <3>2, PagePair
  <2>2. CASE Megabyte(w) # k BY <1>2, <1>3, <2>2, PagePair DEF ShadowPage
  <2> QED BY <2>1, <2>2
<1> QED BY <1>1, <1>2, <1>3, <1>4 DEF Unmapped, SameRecords

LEMMA UnmappedSafe ==
  ASSUME NEW m, MMState(m), NEW t \in Modes, NEW k \in Megabytes, NEW n, Unmapped(n, m, t, k),
         NEW row, Safe(m, row)
  PROVE  Safe(n, row)
<1> SUFFICES ASSUME n.alive PROVE Protected(n) /\ Follows(n, row) BY DEF Safe
<1>1. Protected(m) /\ Follows(m, row) BY DEF Safe, Unmapped
<1>2. /\ n.gptInfo = m.gptInfo /\ InUseOf(n) = InUseOf(m)
      /\ \A u \in Modes, j \in Megabytes : u # t \/ j # k => n[u][j] = m[u][j]
      /\ \A v \in Pages : ShadowPage(n[t], v) = ShadowPage(m[t], v) \/ ShadowPage(n[t], v) = Fault
      /\ n[t][k].type \in {m[t][k].type, "fault"}
      /\ n[t][k].type # "fault" => n[t][k].dom = m[t][k].dom
  BY DEF Unmapped, InUseOf
<1>3. ASSUME NEW u \in Modes, NEW v \in Pages PROVE SafePage(n, ShadowPage(n[u], v))
  <2>1. SafePage(m, ShadowPage(m[u], v)) BY <1>1 DEF Protected
  <2>2. ShadowPage(n[u], v) = ShadowPage(m[u], v) \/ ShadowPage(n[u], v) = Fault
    BY <1>2, PagePair DEF ShadowPage
  <2> QED BY <1>2, <2>1, <2>2, FaultIsEntry DEF SafePage
<1>4. ASSUME NEW u \in Modes, NEW j \in Megabytes PROVE EntryFollows(n, n[u][j], row[j], j)
  <2> DEFINE e == m[u][j]
             f == n[u][j]
  <2>1. EntryFollows(m, e, row[j], j) BY <1>1 DEF Follows
  <2>2. CASE u # t \/ j # k BY <1>2, <2>1, <2>2 DEF EntryFollows
  <2>3. CASE u = t /\ j = k
    <3> SUFFICES ASSUME f.type # "fault" PROVE EntryFollows(n, f, row[j], j) BY DEF EntryFollows
    <3>1. f.type = e.type /\ f.dom = e.dom /\ e.type # "fault" BY <1>2, <2>3
    <3>2. SectionPages(e, row[j]) => SectionPages(f, row[j])
      <4> SUFFICES ASSUME SectionPages(e, row[j]), NEW o \in Offsets, Split(f)[o].type = "page"
                   PROVE  Split(f)[o].frame = PageAt(row[j].mb, o)
        BY DEF SectionPages
      <4>1. ShadowPage(n[u], PageAt(j, o)) = Split(f)[o] /\ ShadowPage(m[u], PageAt(j, o)) = Split(e)[o]
        BY <3>1, PageOfEntry
      <4>2. Split(f)[o] = Split(e)[o] BY <1>2, <2>3, <4>1, PageAtPage, FaultIsEntry
      <4> QED BY <4>2 DEF SectionPages
    <3> QED BY <1>2, <2>1, <3>1, <3>2 DEF EntryFollows
  <2> QED BY <2>2, <2>3
<1> QED BY <1>3, <1>4 DEF Protected, Follows

-----------------------------------------------------------------------------
(* Records of second level tables, found and removed.                       *)

LEMMA FoundIn ==
  ASSUME NEW S, Earliest(S) # {}
  PROVE  Found(S) \in S
<1> DEFINE E == Earliest(S)
<1>1. E # {} OBVIOUS
<1>2. (CHOOSE i \in E : TRUE) \in E
  <2> HIDE DEF E
  <2> QED BY <1>1
<1> QED BY <1>2 DEF Earliest, Found

LEMMA RemoveAtRange ==
  ASSUME NEW s \in Seq(Record), NEW i \in DOMAIN s
  PROVE  /\ RemoveAt(s, i) \in Seq(Record)
         /\ Range(RemoveAt(s, i)) \subseteq Range(s)
         /\ \A j \in DOMAIN s : j # i => s[j] \in Range(RemoveAt(s, i))
<1> DEFINE a == SubSeq(s, 1, i - 1)
           b == SubSeq(s, i + 1, Len(s))
           r == RemoveAt(s, i)
<1>1. Len(s) \in Nat /\ i \in 1 .. Len(s) /\ DOMAIN s = 1 .. Len(s) OBVIOUS
<1>2. a \in Seq(Record) /\ Len(a) = i - 1 /\ \A j \in 1 .. i - 1 : a[j] = s[j] BY <1>1
<1>3. b \in Seq(Record) /\ Len(b) = Len(s) - i /\ \A j \in 1 .. Len(s) - i : b[j] = s[i + j] BY <1>1
<1>4. r = a \o b BY DEF RemoveAt
<1> HIDE DEF a, b, r
<1>5. /\ r \in Seq(Record) /\ Len(r) = Len(s) - 1
      /\ \A j \in 1 .. Len(s) - 1 : r[j] = IF j <= i - 1 THEN a[j] ELSE b[j - (i - 1)]
  <2>1. /\ r \in Seq(Record) /\ Len(r) = Len(a) + Len(b)
        /\ \A j \in 1 .. Len(a) + Len(b) : r[j] = IF j <= Len(a) THEN a[j] ELSE b[j - Len(a)]
    BY <1>2, <1>3, <1>4, ConcatProperties
  <2> QED BY <1>1, <1>2, <1>3, <2>1
<1>6. DOMAIN r = 1 .. Len(s) - 1 BY <1>1, <1>5
<1>7. \A j \in 1 .. Len(s) - 1 : r[j] = IF j < i THEN s[j] ELSE s[j + 1]
  <2> SUFFICES ASSUME NEW j \in 1 .. Len(s) - 1 PROVE r[j] = IF j < i THEN s[j] ELSE s[j + 1]
    OBVIOUS
  <2>1. CASE j < i BY <1>1, <1>2, <1>5, <2>1
  <2>2. CASE ~ (j < i)
    <3>1. j - (i - 1) \in 1 .. Len(s) - i /\ i + (j - (i - 1)) = j + 1 BY <1>1, <2>2
    <3>2. b[j - (i - 1)] = s[j + 1] BY <1>3, <3>1
    <3> QED BY <1>1, <1>5, <2>2, <3>2
  <2> QED BY <2>1, <2>2
<1>8. \A j \in 1 .. Len(s) - 1 : r[j] \in Range(s)
  <2> TAKE j \in 1 .. Len(s) - 1
  <2>1. j \in DOMAIN s /\ j + 1 \in DOMAIN s BY <1>1
  <2> QED BY <1>7, <2>1 DEF Range
<1>9. ASSUME NEW j \in DOMAIN s, j # i PROVE s[j] \in Range(r)
  <2>1. CASE j < i
    <3>1. j \in 1 .. Len(s) - 1 BY <1>1, <2>1
    <3> QED BY <1>6, <1>7, <2>1, <3>1 DEF Range
  <2>2. CASE j > i
    <3>1. j - 1 \in 1 .. Len(s) - 1 /\ ~ (j - 1 < i) /\ (j - 1) + 1 = j BY <1>1, <2>2
    <3>2. r[j - 1] = s[j] BY <1>7, <3>1
    <3> QED BY <1>6, <3>1, <3>2 DEF Range
  <2> QED BY <1>1, <1>9, <2>1, <2>2
<1> QED BY <1>5, <1>6, <1>8, <1>9 DEF Range, r

LEMMA RemoveRecordState ==
  ASSUME NEW m, MMState(m), NEW v, NEW k \in Megabytes, NEW n, n = RemovePageTableInfo(m, v, k)
  PROVE  /\ MMState(n) /\ n.alive = m.alive /\ \A u \in Modes : n[u] = m[u]
         /\ Range(n.gptInfo) \subseteq Range(m.gptInfo)
         /\ \A i \in Range(m.gptInfo) : i.mb # k => i \in Range(n.gptInfo)
<1> DEFINE found == {i \in DOMAIN m.gptInfo : m.gptInfo[i].mb = k}
           x == Found(found)
<1>1. m.gptInfo \in Seq(Record) BY DEF MMState
<1>2. CASE v = guestPhysical /\ Earliest(found) # {}
  <2>1. n = [m EXCEPT !.gptInfo = RemoveAt(m.gptInfo, x)] BY <1>2 DEF RemovePageTableInfo
  <2>2. x \in found BY <1>2, FoundIn
  <2>3. x \in DOMAIN m.gptInfo /\ m.gptInfo[x].mb = k BY <2>2
  <2> HIDE DEF x, found
  <2>4. /\ RemoveAt(m.gptInfo, x) \in Seq(Record)
        /\ Range(RemoveAt(m.gptInfo, x)) \subseteq Range(m.gptInfo)
        /\ \A j \in DOMAIN m.gptInfo : j # x => m.gptInfo[j] \in Range(RemoveAt(m.gptInfo, x))
    BY <1>1, <2>3, RemoveAtRange
  <2>5. MMState(n) /\ n.alive = m.alive /\ n.gptInfo = RemoveAt(m.gptInfo, x) /\ \A u \in Modes : n[u] = m[u]
    BY <2>1, <2>4 DEF MMState, Modes
  <2>6. \A i \in Range(m.gptInfo) : i.mb # k => i \in Range(n.gptInfo)
    BY <2>3, <2>4, <2>5 DEF Range
  <2> QED BY <2>4, <2>5, <2>6
<1>3. CASE ~ (v = guestPhysical /\ Earliest(found) # {})
  <2>1. n = m BY <1>3 DEF RemovePageTableInfo
  <2> QED BY <2>1
<1> QED BY <1>2, <1>3

-----------------------------------------------------------------------------
(* The unmapping operations only unmap.                                     *)

LEMMA UnmapSectionUnmaps ==
  ASSUME NEW m, MMState(m), NEW t \in Modes, NEW k \in Megabytes, NEW g,
         NEW n, n = ShadowUnmapSection(m, t, k, g)
  PROVE  Unmapped(n, m, t, k) /\ (n.alive => n[t][k].type = "fault")
<1>1. CASE m[t][k].type = "fault"
  <2>1. n = m BY <1>1 DEF ShadowUnmapSection
  <2> QED BY <1>1, <2>1, UnmappedSame
<1>2. CASE m[t][k].type # "fault"
  <2>1. n = Die(m) \/ n = ClearTranslations(Put(m, t, k, Fault), PagesOf(k))
    BY <1>2 DEF ShadowUnmapSection
  <2>2. CASE n = Die(m) BY <2>2, UnmappedSame, DieState
  <2>3. CASE n = ClearTranslations(Put(m, t, k, Fault), PagesOf(k)) BY <2>3, UnmappedEntry
  <2> QED BY <2>1, <2>2, <2>3
<1> QED BY <1>1, <1>2

LEMMA UnmapPageTableUnmaps ==
  ASSUME NEW m, MMState(m), NEW t \in Modes, NEW k \in Megabytes,
         NEW n, n = ShadowUnmapPageTable(m, t, k)
  PROVE  Unmapped(n, m, t, k) /\ (n.alive => n[t][k].type = "fault")
<1>1. CASE m[t][k].type = "fault"
  <2>1. n = m BY <1>1 DEF ShadowUnmapPageTable
  <2> QED BY <1>1, <2>1, UnmappedSame
<1>2. CASE m[t][k].type # "fault"
  <2>1. n = Die(m) \/ n = ClearTranslations(Put(m, t, k, Fault), PagesOf(k))
    BY <1>2 DEF ShadowUnmapPageTable
  <2>2. CASE n = Die(m) BY <2>2, UnmappedSame, DieState
  <2>3. CASE n = ClearTranslations(Put(m, t, k, Fault), PagesOf(k)) BY <2>3, UnmappedEntry
  <2> QED BY <2>1, <2>2, <2>3
<1> QED BY <1>1, <1>2

LEMMA UnmapSmallPageUnmaps ==
  ASSUME NEW m, MMState(m), NEW t \in Modes, NEW v \in Pages, NEW frame,
         NEW n, n = ShadowUnmapSmallPage(m, t, v, frame)
  PROVE  Unmapped(n, m, t, Megabyte(v))
<1> DEFINE k == Megabyte(v)
           e == m[t][k]
           c == ClearTranslations(Put(m, t, k, PutPage(e, Offset(v), Fault)), {v})
<1>1. k \in Megabytes /\ e \in ShadowEntries BY PagePair, EntryOfState
<1>2. CASE e.type = "table"
  <2>1. Unmapped(c, m, t, k) BY <1>2, UnmappedPage
  <2>2. n \in {m, Die(m), c} BY <1>2 DEF ShadowUnmapSmallPage
  <2> QED BY <1>1, <2>1, <2>2, UnmappedSame
<1>3. CASE e.type # "table"
  <2>1. n \in {m, Die(m)} BY <1>1, <1>3, EntryCases DEF ShadowUnmapSmallPage
  <2> QED BY <1>1, <2>1, UnmappedSame
<1> QED BY <1>2, <1>3

(* Both shadow tables lose a megabyte whose guest entry changes, after the  *)
(* records of that megabyte alone were touched.                             *)
LEMMA UnmappedBothSafe ==
  ASSUME NEW m, MMState(m), NEW k \in Megabytes, NEW row \in [Megabytes -> GuestFirstEntries],
         Safe(m, row), NEW new,
         NEW m1, MMState(m1), m1.alive = m.alive, \A u \in Modes : m1[u] = m[u],
         Range(m1.gptInfo) \subseteq Range(m.gptInfo),
         \A i \in Range(m.gptInfo) : i.mb # k => i \in Range(m1.gptInfo),
         NEW m2, Unmapped(m2, m1, "priv", k), m2.alive => m2["priv"][k].type = "fault",
         NEW n, Unmapped(n, m2, "user", k), n.alive => n["user"][k].type = "fault"
  PROVE  Safe(n, [row EXCEPT ![k] = new])
<1> SUFFICES ASSUME n.alive PROVE Protected(n) /\ Follows(n, [row EXCEPT ![k] = new]) BY DEF Safe
<1>1. m2.alive /\ m1.alive /\ m.alive /\ n.gptInfo = m1.gptInfo BY DEF Unmapped
<1>2. Protected(m) /\ Follows(m, row) BY <1>1 DEF Safe
<1>3. \A u \in Modes, v \in Pages :
        ShadowPage(n[u], v) = ShadowPage(m[u], v) \/ ShadowPage(n[u], v) = Fault
  <2> SUFFICES ASSUME NEW u \in Modes, NEW v \in Pages
               PROVE  ShadowPage(n[u], v) = ShadowPage(m[u], v) \/ ShadowPage(n[u], v) = Fault
    OBVIOUS
  <2>1. ShadowPage(m2[u], v) = ShadowPage(m1[u], v) \/ ShadowPage(m2[u], v) = Fault
    BY <1>1, PagePair DEF Unmapped, ShadowPage, Modes
  <2>2. ShadowPage(n[u], v) = ShadowPage(m2[u], v) \/ ShadowPage(n[u], v) = Fault
    BY <1>1, PagePair DEF Unmapped, ShadowPage, Modes
  <2> QED BY <2>1, <2>2
<1>4. InUseOf(n) \subseteq InUseOf(m) BY <1>1 DEF InUseOf
<1>5. ASSUME NEW u \in Modes, NEW v \in Pages PROVE SafePage(n, ShadowPage(n[u], v))
  <2>1. SafePage(m, ShadowPage(m[u], v)) BY <1>2 DEF Protected
  <2> QED BY <1>3, <1>4, <2>1, FaultIsEntry DEF SafePage
<1>6. n["user"][k].type = "fault" /\ n["priv"][k].type = "fault"
  BY <1>1 DEF Unmapped, Modes
<1>7. ASSUME NEW u \in Modes, NEW j \in Megabytes
      PROVE  EntryFollows(n, n[u][j], [row EXCEPT ![k] = new][j], j)
  <2>1. CASE j = k BY <1>6, <2>1 DEF EntryFollows, Modes
  <2>2. CASE j # k
    <3>1. n[u][j] = m[u][j] BY <1>1, <2>2 DEF Unmapped, Modes
    <3>2. EntryFollows(m, m[u][j], row[j], j) BY <1>2 DEF Follows
    <3>3. [row EXCEPT ![k] = new][j] = row[j] BY <2>2
    <3>4. \A i \in Range(m.gptInfo) : i.mb = j => i \in Range(n.gptInfo) BY <1>1, <2>2
    <3> QED BY <3>1, <3>2, <3>3, <3>4 DEF EntryFollows
  <2> QED BY <2>1, <2>2
<1> QED BY <1>5, <1>7 DEF Protected, Follows

-----------------------------------------------------------------------------
(* Edits of a guest table.                                                  *)

(* The domain of a shadow entry follows the guest's.                        *)
SetDomain(m, t, k, old, new) ==
  IF old.dom = new.dom THEN m ELSE Put(m, t, k, [m[t][k] EXCEPT !.dom = new.dom])

LEMMA EditAttributesIs ==
  ASSUME NEW m, NEW t, NEW k, NEW old, NEW new
  PROVE  EditAttributesSection(m, t, k, old, new) =
           IF m[t][k].type = "fault" THEN m
           ELSE IF old.mb # new.mb THEN Die(m)
           ELSE IF old.ap = new.ap THEN SetDomain(m, t, k, old, new)
           ELSE MapAPBitsSection(SetDomain(m, t, k, old, new), t, k, new)
BY DEF EditAttributesSection, SetDomain

LEMMA DomainEntry ==
  ASSUME NEW e \in ShadowEntries, e.type # "fault", NEW d \in Domains,
         NEW f, f = [e EXCEPT !.dom = d]
  PROVE  f \in ShadowEntries /\ f.type = e.type /\ f.dom = d /\ Split(f) = Split(e)
<1>1. CASE e.type = "section"
  <2>1. e \in [type : {"section"}, mb : Nat, ap : Permissions, dom : Domains \cup {HostDomain}]
    BY <1>1, EntryCases
  <2>2. /\ f \in [type : {"section"}, mb : Nat, ap : Permissions, dom : Domains \cup {HostDomain}]
        /\ f.type = "section" /\ f.dom = d /\ f.mb = e.mb /\ f.ap = e.ap
    BY <2>1
  <2> QED BY <1>1, <2>2 DEF ShadowEntries, Split
<1>2. CASE e.type = "table"
  <2>1. e \in [type : {"table"}, dom : Domains \cup {HostDomain}, page : [Offsets -> ShadowPages]]
    BY <1>2, EntryCases
  <2>2. /\ f \in [type : {"table"}, dom : Domains \cup {HostDomain}, page : [Offsets -> ShadowPages]]
        /\ f.type = "table" /\ f.dom = d /\ f.page = e.page
    BY <2>1
  <2> QED BY <1>2, <2>2 DEF ShadowEntries, Split
<1> QED BY <1>1, <1>2, EntryCases

LEMMA SetDomainState ==
  ASSUME NEW m, MMState(m), NEW t \in Modes, NEW k \in Megabytes, m[t][k].type # "fault",
         NEW old, NEW new \in GuestFirstEntries, new.type = "section",
         NEW n, n = SetDomain(m, t, k, old, new)
  PROVE  /\ MMState(n) /\ SameRecords(n, m) /\ n[t][k].type = m[t][k].type
         /\ Split(n[t][k]) = Split(m[t][k])
         /\ n[t][k].dom \in {m[t][k].dom, new.dom} /\ new.dom \in Domains
         /\ \A u \in Modes, j \in Megabytes : u # t \/ j # k => n[u][j] = m[u][j]
<1>0. new.dom \in Domains BY GuestEntryCases
<1>1. CASE n = m BY <1>0, <1>1 DEF SameRecords
<1>2. CASE n = Put(m, t, k, [m[t][k] EXCEPT !.dom = new.dom])
  <2> DEFINE e == [m[t][k] EXCEPT !.dom = new.dom]
  <2>1. m[t][k] \in ShadowEntries BY EntryOfState
  <2>2. e \in ShadowEntries /\ e.type = m[t][k].type /\ e.dom = new.dom /\ Split(e) = Split(m[t][k])
    BY <1>0, <2>1, DomainEntry
  <2> HIDE DEF e
  <2>3. n = Put(m, t, k, e) BY <1>2 DEF e
  <2> QED BY <1>0, <2>2, <2>3, SetEntry
<1> QED BY <1>1, <1>2 DEF SetDomain

LEMMA EditAttributesType ==
  ASSUME NEW m, MMState(m), NEW t \in Modes, NEW k \in Megabytes, guestPhysical \in Bases \cup {NoBase},
         NEW old, NEW new \in GuestFirstEntries, new.type = "section",
         NEW n, n = EditAttributesSection(m, t, k, old, new)
  PROVE  MMState(n) /\ n.gptInfo = m.gptInfo /\ (n.alive => m.alive)
<1> DEFINE m1 == SetDomain(m, t, k, old, new)
<1>1. CASE m[t][k].type = "fault"
  <2>1. n = m BY <1>1 DEF EditAttributesSection
  <2> QED BY <2>1
<1>2. CASE m[t][k].type # "fault"
  <2>1. MMState(m1) /\ SameRecords(m1, m) /\ m1[t][k].type # "fault" BY <1>2, SetDomainState
  <2>2. n = Die(m) \/ n = m1 \/ n = MapAPBitsSection(m1, t, k, new) BY <1>2, EditAttributesIs
  <2> HIDE DEF m1
  <2>3. CASE n = Die(m)
    <3>1. n.gptInfo = m.gptInfo BY <2>3 DEF Die, MMState
    <3> QED BY <2>3, <3>1, DieState
  <2>4. CASE n = m1 BY <2>1, <2>4 DEF SameRecords
  <2>5. CASE n = MapAPBitsSection(m1, t, k, new)
    <3>1. MMState(n) /\ SameRecords(n, m1) BY <2>1, <2>5, MapAPBitsType
    <3> QED BY <2>1, <3>1 DEF SameRecords
  <2> QED BY <2>2, <2>3, <2>4, <2>5
<1> QED BY <1>1, <1>2

LEMMA EditAttributesSafe ==
  ASSUME NEW m, MMState(m), NEW t \in Modes, NEW k \in Megabytes, guestPhysical \in Bases \cup {NoBase},
         NEW old, NEW new \in GuestFirstEntries, new.type = "section",
         NEW n, n = EditAttributesSection(m, t, k, old, new), NoHostPages,
         NEW row, Safe(m, row), row[k].type = "section", row[k].mb = old.mb
  PROVE  Safe(n, row)
<1> DEFINE m1 == SetDomain(m, t, k, old, new)
<1>1. CASE m[t][k].type = "fault"
  <2>1. n = m BY <1>1 DEF EditAttributesSection
  <2> QED BY <2>1
<1>2. CASE m[t][k].type # "fault" /\ old.mb # new.mb
  <2>1. n = Die(m) BY <1>2 DEF EditAttributesSection
  <2> QED BY <2>1, DieSafe
<1>3. CASE m[t][k].type # "fault" /\ old.mb = new.mb
  <2> SUFFICES ASSUME n.alive PROVE Protected(n) /\ Follows(n, row) BY DEF Safe
  <2>0. Protected(m) /\ Follows(m, row) BY EditAttributesType DEF Safe
  <2>1. /\ MMState(m1) /\ SameRecords(m1, m) /\ m1[t][k].type = m[t][k].type
        /\ Split(m1[t][k]) = Split(m[t][k])
        /\ m1[t][k].dom \in {m[t][k].dom, new.dom} /\ new.dom \in Domains
        /\ \A u \in Modes, j \in Megabytes : u # t \/ j # k => m1[u][j] = m[u][j]
    BY <1>3, SetDomainState
  <2>2. n = m1 \/ n = MapAPBitsSection(m1, t, k, new) BY <1>3, EditAttributesIs
  <2> HIDE DEF m1
  <2>3. ASSUME NEW u \in Modes, NEW v \in Pages PROVE ShadowPage(m1[u], v) = ShadowPage(m[u], v)
    BY <2>1, PagePair DEF ShadowPage
  <2>4. InUseOf(m1) = InUseOf(m) BY <2>1 DEF InUseOf, SameRecords
  <2>5. Protected(m1)
    <3> SUFFICES ASSUME NEW u \in Modes, NEW v \in Pages PROVE SafePage(m1, ShadowPage(m1[u], v))
      BY DEF Protected
    <3>1. SafePage(m, ShadowPage(m[u], v)) BY <2>0 DEF Protected
    <3> QED BY <2>3, <2>4, <3>1 DEF SafePage
  <2>6. Follows(m1, row)
    <3> SUFFICES ASSUME NEW u \in Modes, NEW j \in Megabytes PROVE EntryFollows(m1, m1[u][j], row[j], j)
      BY DEF Follows
    <3>1. EntryFollows(m, m[u][j], row[j], j) BY <2>0 DEF Follows
    <3>2. CASE u = t /\ j = k
      <4>1. SectionPages(m[t][k], row[k]) /\ m[t][k].dom # HostDomain
        BY <1>3, <3>1, <3>2 DEF EntryFollows
      <4>2. SectionPages(m1[t][k], row[k]) BY <2>1, <4>1 DEF SectionPages
      <4>3. m1[t][k].dom # HostDomain BY <2>1, <4>1 DEF NoHostPages
      <4> QED BY <3>2, <4>2, <4>3 DEF EntryFollows
    <3>3. CASE ~ (u = t /\ j = k)
      <4>1. m1[u][j] = m[u][j] /\ m1.gptInfo = m.gptInfo BY <2>1, <3>3 DEF SameRecords
      <4> QED BY <3>1, <4>1 DEF EntryFollows
    <3> QED BY <3>2, <3>3
  <2>7. CASE n = m1 BY <2>5, <2>6, <2>7
  <2>8. CASE n = MapAPBitsSection(m1, t, k, new)
    <3>1. m1[t][k].type # "fault" /\ row[k].mb = new.mb BY <1>3, <2>1
    <3>2. \A u \in Modes, v \in Pages : SafePage(m1, ShadowPage(m1[u], v)) BY <2>5 DEF Protected
    <3> QED BY <2>1, <2>6, <2>8, <3>1, <3>2, MapAPBitsSafe
  <2> QED BY <2>2, <2>7, <2>8
<1> QED BY <1>1, <1>2, <1>3

(* A change of the guest's entry of a megabyte that neither shadow table    *)
(* maps, or that keeps what its section maps.                               *)
LEMMA RowChangeSafe ==
  ASSUME NEW m, NEW k \in Megabytes, NEW row \in [Megabytes -> GuestFirstEntries], Safe(m, row),
         NEW new,
         m.alive => \/ \A u \in Modes : m[u][k].type = "fault"
                    \/ row[k].type = "section" /\ new.type = "section" /\ row[k].mb = new.mb
  PROVE  Safe(m, [row EXCEPT ![k] = new])
<1> SUFFICES ASSUME m.alive PROVE Protected(m) /\ Follows(m, [row EXCEPT ![k] = new]) BY DEF Safe
<1>1. Protected(m) /\ Follows(m, row) BY DEF Safe
<1>2. ASSUME NEW u \in Modes, NEW j \in Megabytes
      PROVE  EntryFollows(m, m[u][j], [row EXCEPT ![k] = new][j], j)
  <2>1. EntryFollows(m, m[u][j], row[j], j) BY <1>1 DEF Follows
  <2>2. CASE j # k
    <3>1. [row EXCEPT ![k] = new][j] = row[j] BY <2>2
    <3> QED BY <2>1, <3>1
  <2>3. CASE j = k
    <3>1. [row EXCEPT ![k] = new][j] = new BY <2>3
    <3>2. CASE m[u][k].type = "fault" BY <2>3, <3>2 DEF EntryFollows
    <3>3. CASE m[u][k].type # "fault"
      <4>1. row[k].type = "section" /\ new.type = "section" /\ row[k].mb = new.mb BY <3>3
      <4>2. SectionPages(m[u][k], row[k]) => SectionPages(m[u][k], new) BY <4>1 DEF SectionPages
      <4> QED BY <2>1, <2>3, <3>1, <4>1, <4>2 DEF EntryFollows
    <3> QED BY <3>2, <3>3
  <2> QED BY <2>2, <2>3
<1> QED BY <1>1, <1>2 DEF Follows

LEMMA StoreValueType ==
  ASSUME NEW m, MMState(m), NEW v \in Pages, GuestTypeOK, NEW n, n = StoreValue(m, v)
  PROVE  MMState(n) /\ (n.alive => m.alive)
<1>1. shadowActive \in Modes BY DEF shadowActive, ActiveIn, Modes
<1>2. n = m \/ n = ShadowMap(m, shadowActive, v) BY DEF StoreValue
<1> QED BY <1>1, <1>2, ShadowMapType

LEMMA StoreValueSafe ==
  ASSUME NEW m, MMState(m), NEW v \in Pages, GuestTypeOK, NEW n, n = StoreValue(m, v),
         NoHostPages, TablesAtPageStart, Safe(m, Row)
  PROVE  Safe(n, Row)
<1>1. shadowActive \in Modes BY DEF shadowActive, ActiveIn, Modes
<1>2. n = m \/ n = ShadowMap(m, shadowActive, v) BY DEF StoreValue
<1> QED BY <1>1, <1>2, ShadowMapSafe

LEMMA RowType ==
  ASSUME GuestTypeOK, guestPhysical \in Bases
  PROVE  Row = first[guestPhysical] /\ Row \in [Megabytes -> GuestFirstEntries]
BY DEF Row, GuestTypeOK

(* What pageTableEdit does of a first level entry, case by case.            *)
LEMMA EditFirstCases ==
  ASSUME NEW m, NEW v, NEW k, NEW new, NEW n, n = EditFirst(m, v, k, new), NEW old,
         old = first[guestPhysical][k]
  PROVE  \/ n = m /\ (old = new \/ old.type = "fault")
         \/ n = Die(m)
         \/ /\ CanLocate(m, v) /\ old.type = "table" /\ new.type = "fault"
            /\ n = ShadowUnmapPageTable(ShadowUnmapPageTable(RemovePageTableInfo(m, v, k),
                     "priv", k), "user", k)
         \/ /\ CanLocate(m, v) /\ old.type = "section" /\ new.type = "fault"
            /\ n = ShadowUnmapSection(ShadowUnmapSection(m, "priv", k, old), "user", k, old)
         \/ /\ CanLocate(m, v) /\ old.type = "section" /\ new.type = "section"
            /\ n = EditAttributesSection(EditAttributesSection(m, "priv", k, old, new),
                     "user", k, old, new)
<1>1. CASE old = new \/ ~ CanLocate(m, v) BY <1>1 DEF EditFirst
<1>2. CASE old # new /\ CanLocate(m, v)
  <2>1. CASE old.type = "fault" BY <1>2, <2>1 DEF EditFirst
  <2>2. CASE old.type = "table" /\ new.type = "fault" BY <1>2, <2>2 DEF EditFirst
  <2>3. CASE old.type = "section" /\ new.type = "fault" BY <1>2, <2>3 DEF EditFirst
  <2>4. CASE old.type = "section" /\ new.type = "section" BY <1>2, <2>4 DEF EditFirst
  <2>5. CASE /\ old.type # "fault"
             /\ ~ (old.type = "table" /\ new.type = "fault")
             /\ ~ (old.type = "section" /\ new.type = "fault")
             /\ ~ (old.type = "section" /\ new.type = "section")
    <3>1. n = Die(m) BY <1>2, <2>5 DEF EditFirst
    <3> QED BY <3>1
  <2> QED BY <2>1, <2>2, <2>3, <2>4, <2>5
<1> QED BY <1>1, <1>2

LEMMA EditFirstType ==
  ASSUME NEW m, MMState(m), NEW v \in Pages, NEW k \in Megabytes, NEW new \in GuestFirstEntries,
         GuestTypeOK, NEW n, n = EditFirst(m, v, k, new)
  PROVE  MMState(n) /\ (n.alive => m.alive)
<1> DEFINE old == first[guestPhysical][k]
           m1 == RemovePageTableInfo(m, v, k)
           m2 == ShadowUnmapPageTable(m1, "priv", k)
           m3 == ShadowUnmapSection(m, "priv", k, old)
           m4 == EditAttributesSection(m, "priv", k, old, new)
<1>0. "priv" \in Modes /\ "user" \in Modes /\ guestPhysical \in Bases \cup {NoBase}
  BY DEF Modes, GuestTypeOK
<1>1. CASE n = m BY <1>1
<1>2. CASE n = Die(m) BY <1>2, DieState
<1>3. CASE n = ShadowUnmapPageTable(m2, "user", k)
  <2>1. MMState(m1) /\ m1.alive = m.alive BY RemoveRecordState
  <2>2. Unmapped(m2, m1, "priv", k) BY <1>0, <2>1, UnmapPageTableUnmaps
  <2>3. MMState(m2) /\ (m2.alive => m1.alive) BY <2>2 DEF Unmapped
  <2> HIDE DEF m1, m2
  <2>4. Unmapped(n, m2, "user", k) BY <1>0, <1>3, <2>3, UnmapPageTableUnmaps
  <2> QED BY <2>1, <2>3, <2>4 DEF Unmapped
<1>4. CASE n = ShadowUnmapSection(m3, "user", k, old)
  <2>1. Unmapped(m3, m, "priv", k) BY <1>0, UnmapSectionUnmaps
  <2>2. MMState(m3) /\ (m3.alive => m.alive) BY <2>1 DEF Unmapped
  <2> HIDE DEF m3
  <2>3. Unmapped(n, m3, "user", k) BY <1>0, <1>4, <2>2, UnmapSectionUnmaps
  <2> QED BY <2>2, <2>3 DEF Unmapped
<1>5. CASE new.type = "section" /\ n = EditAttributesSection(m4, "user", k, old, new)
  <2>1. MMState(m4) /\ (m4.alive => m.alive) BY <1>0, <1>5, EditAttributesType
  <2> HIDE DEF m4, old
  <2> QED BY <1>0, <1>5, <2>1, EditAttributesType
<1> QED BY <1>1, <1>2, <1>3, <1>4, <1>5, EditFirstCases

(* The guest never unmaps a megabyte through which it may write its first   *)
(* level table.                                                             *)
MayBeWritten(e) == Permitted(e.ap, TRUE, TRUE) \/ \E d \in Dacrs : d[e.dom] = "manager"

HomeStaysMapped ==
  \A b \in Bases, k \in Megabytes :
    (\E e \in FirstEntries[b][k] :
       e.type = "section" /\ e.mb = Megabyte(b) /\ MayBeWritten(e)) =>
      \A e \in FirstEntries[b][k] : e.type # "fault"

(* A store the guest's own tables let through goes through an entry that    *)
(* may be written.                                                          *)
LEMMA AccessWrites ==
  ASSUME dacr \in Dacrs, NEW v \in Pages, MayAccess(Walk(guestPhysical, v), privileged, TRUE),
         NEW g, g = first[guestPhysical][Megabyte(v)], g.type = "section"
  PROVE  MayBeWritten(g)
<1>1. Walk(guestPhysical, v).ap = g.ap /\ Walk(guestPhysical, v).dom = g.dom BY DEF Walk
<1>2. Permitted(g.ap, privileged, TRUE) => Permitted(g.ap, TRUE, TRUE) BY DEF Permitted
<1> QED BY <1>1, <1>2 DEF MayAccess, MayBeWritten

LEMMA StoreStays ==
  ASSUME NEW m, NEW v, m.alive => ShadowPage(m[shadowActive], v).type # "fault"
  PROVE  StoreValue(m, v) = m
BY DEF StoreValue

LEMMA UnmappedElsewhere ==
  ASSUME NEW m, NEW t \in Modes, NEW k \in Megabytes, NEW n, Unmapped(n, m, t, k), n.alive,
         NEW u \in Modes, NEW v \in Pages, Megabyte(v) # k
  PROVE  m.alive /\ ShadowPage(n[u], v) = ShadowPage(m[u], v)
BY PagePair DEF Unmapped, ShadowPage

(* A store to a page of the guest's first level table, with the edit it     *)
(* makes: the shadow tables follow the new row.                             *)
LEMMA EditFirstSafe ==
  ASSUME NEW m, MMState(m), NEW v \in Pages, NEW k \in Megabytes,
         GuestTypeOK, guestPhysical \in Bases, NEW new \in FirstEntries[guestPhysical][k],
         NEW n, n = EditFirst(m, v, k, new), NEW row, row = Row,
         NoHostPages, TablesAtPageStart, HomeStaysMapped, Safe(m, Row),
         ShadowPage(m[shadowActive], v).type = "page",
         ShadowPage(m[shadowActive], v).frame = guestPhysical,
         dacr \in Dacrs, MayAccess(Walk(guestPhysical, v), privileged, TRUE)
  PROVE  Safe(StoreValue(n, v), [row EXCEPT ![k] = new])
<1> DEFINE old == first[guestPhysical][k]
           act == shadowActive
           m1 == RemovePageTableInfo(m, v, k)
           m2 == ShadowUnmapPageTable(m1, "priv", k)
           m3 == ShadowUnmapSection(m, "priv", k, old)
           m4 == EditAttributesSection(m, "priv", k, old, new)
<1>0. /\ "priv" \in Modes /\ "user" \in Modes /\ act \in Modes /\ guestPhysical \in Bases \cup {NoBase}
      /\ row = first[guestPhysical] /\ row[k] = old /\ row \in [Megabytes -> GuestFirstEntries]
      /\ new \in GuestFirstEntries /\ old \in FirstEntries[guestPhysical][k]
      /\ Megabyte(v) \in Megabytes
  BY RowType, GuestAssumption, PagePair DEF Modes, GuestTypeOK, shadowActive, ActiveIn
<1>1. ASSUME m.alive, CanLocate(m, v), k = Megabyte(v)
      PROVE  old.type = "section" /\ new.type # "fault"
  <2>1. row[k].type = "section" BY <1>0, <1>1 DEF CanLocate
  <2>2. EntryFollows(m, m[act][k], row[k], k) BY <1>0, <1>1 DEF Safe, Follows
  <2>3. m[act][k].type # "fault" BY <1>1, FaultIsEntry DEF ShadowPage
  <2>4. SectionPages(m[act][k], row[k]) BY <2>1, <2>2, <2>3 DEF EntryFollows
  <2>5. ShadowPage(m[act], v) = Split(m[act][k])[Offset(v)] BY <1>1, <2>3 DEF ShadowPage
  <2>6. guestPhysical = PageAt(row[k].mb, Offset(v)) BY <2>4, <2>5, PagePair DEF SectionPages
  <2>7. row[k].mb = Megabyte(guestPhysical) BY <2>6 DEF PageAt, Megabyte
  <2>8. MayBeWritten(row[k]) BY <1>0, <1>1, <2>1, AccessWrites
  <2> QED BY <1>0, <2>1, <2>7, <2>8 DEF HomeStaysMapped
<1>2. ASSUME NEW x, ~ x.alive PROVE Safe(StoreValue(x, v), [row EXCEPT ![k] = new])
  BY <1>2, StoreStays DEF Safe
<1>3. CASE n = m /\ (old = new \/ old.type = "fault")
  <2>1. StoreValue(n, v) = m BY <1>3, StoreStays
  <2>2. CASE old = new
    <3>1. [row EXCEPT ![k] = new] = row BY <1>0, <2>2
    <3> QED BY <2>1, <3>1
  <2>3. CASE old.type = "fault"
    <3>1. ASSUME m.alive, NEW u \in Modes PROVE m[u][k].type = "fault"
      <4>1. EntryFollows(m, m[u][k], row[k], k) BY <3>1 DEF Safe, Follows
      <4> QED BY <1>0, <2>3, <4>1 DEF EntryFollows
    <3>2. Safe(m, row) OBVIOUS
    <3> QED BY <1>0, <2>1, <3>1, <3>2, RowChangeSafe
  <2> QED BY <1>3, <2>2, <2>3
<1>4. CASE n = Die(m) BY <1>2, <1>4, DieState
<1>5. CASE /\ CanLocate(m, v) /\ old.type = "table" /\ new.type = "fault"
           /\ n = ShadowUnmapPageTable(m2, "user", k)
  <2> SUFFICES ASSUME n.alive PROVE Safe(StoreValue(n, v), [row EXCEPT ![k] = new]) BY <1>2
  <2>1. /\ MMState(m1) /\ m1.alive = m.alive /\ \A u \in Modes : m1[u] = m[u]
        /\ Range(m1.gptInfo) \subseteq Range(m.gptInfo)
        /\ \A i \in Range(m.gptInfo) : i.mb # k => i \in Range(m1.gptInfo)
    BY RemoveRecordState
  <2> HIDE DEF m1
  <2>2. Unmapped(m2, m1, "priv", k) /\ (m2.alive => m2["priv"][k].type = "fault")
    BY <1>0, <2>1, UnmapPageTableUnmaps
  <2> HIDE DEF m2
  <2>9. MMState(m2) BY <2>2 DEF Unmapped
  <2>3. Unmapped(n, m2, "user", k) /\ (n.alive => n["user"][k].type = "fault")
    BY <1>0, <1>5, <2>9, UnmapPageTableUnmaps
  <2>4. m.alive BY <2>1, <2>2, <2>3 DEF Unmapped
  <2>5. Megabyte(v) # k BY <1>1, <1>5, <2>4
  <2>6. ShadowPage(n[act], v) = ShadowPage(m[act], v)
    BY <1>0, <2>1, <2>2, <2>3, <2>5, UnmappedElsewhere
  <2>7. StoreValue(n, v) = n BY <2>6, StoreStays
  <2>8. Safe(m, row) OBVIOUS
  <2> QED BY <1>0, <2>1, <2>2, <2>3, <2>7, <2>8, UnmappedBothSafe
<1>6. CASE /\ CanLocate(m, v) /\ old.type = "section" /\ new.type = "fault"
           /\ n = ShadowUnmapSection(m3, "user", k, old)
  <2> SUFFICES ASSUME n.alive PROVE Safe(StoreValue(n, v), [row EXCEPT ![k] = new]) BY <1>2
  <2>2. Unmapped(m3, m, "priv", k) /\ (m3.alive => m3["priv"][k].type = "fault")
    BY <1>0, UnmapSectionUnmaps
  <2> HIDE DEF m3
  <2>9. MMState(m3) BY <2>2 DEF Unmapped
  <2> HIDE DEF old
  <2>3. Unmapped(n, m3, "user", k) /\ (n.alive => n["user"][k].type = "fault")
    BY <1>0, <1>6, <2>9, UnmapSectionUnmaps
  <2>4. m.alive BY <2>2, <2>3 DEF Unmapped
  <2>5. Megabyte(v) # k BY <1>1, <1>6, <2>4
  <2>6. ShadowPage(n[act], v) = ShadowPage(m[act], v)
    BY <1>0, <2>2, <2>3, <2>5, UnmappedElsewhere
  <2>7. StoreValue(n, v) = n BY <2>6, StoreStays
  <2>8. Safe(m, row) OBVIOUS
  <2> QED BY <1>0, <2>2, <2>3, <2>7, <2>8, UnmappedBothSafe
<1>7. CASE /\ CanLocate(m, v) /\ old.type = "section" /\ new.type = "section"
           /\ n = EditAttributesSection(m4, "user", k, old, new)
  <2>0. Safe(m, row) OBVIOUS
  <2>1. MMState(m4) /\ (m4.alive => m.alive) BY <1>0, <1>7, EditAttributesType
  <2>2. Safe(m4, row) BY <1>0, <1>7, <2>0, EditAttributesSafe
  <2>3. CASE old.mb = new.mb
    <3> HIDE DEF m4, old
    <3>1. Safe(n, row) BY <1>0, <1>7, <2>1, <2>2, EditAttributesSafe
    <3>2. MMState(n) BY <1>0, <1>7, <2>1, EditAttributesType
    <3>3. Safe(StoreValue(n, v), row) BY <3>1, <3>2, StoreValueSafe
    <3>4. row[k].type = "section" /\ row[k].mb = new.mb BY <1>0, <1>7, <2>3 DEF old
    <3> QED BY <1>0, <1>7, <3>3, <3>4, RowChangeSafe
  <2>4. CASE old.mb # new.mb
    <3> SUFFICES ASSUME n.alive PROVE Safe(StoreValue(n, v), [row EXCEPT ![k] = new]) BY <1>2
    <3>1. m4["user"][k].type = "fault" /\ n = m4
      BY <1>7, <2>1, <2>4, DieState DEF EditAttributesSection
    <3>2. m["priv"][k].type = "fault" /\ m4 = m
      BY <2>4, <3>1, DieState DEF EditAttributesSection
    <3>3. StoreValue(n, v) = m BY <3>1, <3>2, StoreStays
    <3>4. \A u \in Modes : m[u][k].type = "fault" BY <3>1, <3>2 DEF Modes
    <3> QED BY <1>0, <2>0, <3>3, <3>4, RowChangeSafe
  <2> QED BY <2>3, <2>4
<1> QED BY <1>3, <1>4, <1>5, <1>6, <1>7, EditFirstCases

LEMMA EditSecondCases ==
  ASSUME NEW m, MMState(m), NEW v, NEW t \in Tables, NEW o \in Offsets, NEW new,
         GuestTypeOK, NEW n, n = EditSecond(m, v, t, o, new)
  PROVE  \/ n \in {m, Die(m)}
         \/ \E w \in Pages : \E f :
              n = ShadowUnmapSmallPage(ShadowUnmapSmallPage(m, "user", w, f), "priv", w, f)
<1> DEFINE old == second[t][o]
           recs == {i \in DOMAIN m.gptInfo : m.gptInfo[i].table = t}
           k == m.gptInfo[Found(recs)].mb
<1>1. CASE Earliest(recs) = {} \/ old = new \/ ~ CanLocate(m, v) \/ old.type = "fault"
  <2>1. CASE Earliest(recs) = {} \/ old = new
    <3>1. n = m BY <2>1 DEF EditSecond
    <3> QED BY <3>1
  <2>2. CASE Earliest(recs) # {} /\ old # new /\ ~ CanLocate(m, v)
    <3>1. n = Die(m) BY <2>2 DEF EditSecond
    <3> QED BY <3>1
  <2>3. CASE Earliest(recs) # {} /\ old # new /\ CanLocate(m, v) /\ old.type = "fault"
    <3>1. n = m BY <2>3 DEF EditSecond
    <3> QED BY <3>1
  <2> QED BY <1>1, <2>1, <2>2, <2>3
<1>2. CASE Earliest(recs) # {} /\ old # new /\ CanLocate(m, v) /\ old.type # "fault"
  <2>0. old.type = "page" BY <1>2, GuestPageCases DEF GuestTypeOK
  <2>1. CASE new.type = "fault"
    <3>1. n = ShadowUnmapSmallPage(ShadowUnmapSmallPage(m, "user", PageAt(k, o), old.frame),
                "priv", PageAt(k, o), old.frame)
      BY <1>2, <2>0, <2>1 DEF EditSecond
    <3> DEFINE x == Found(recs)
    <3>2. x \in recs BY <1>2, FoundIn
    <3>3. m.gptInfo \in Seq(Record) /\ x \in DOMAIN m.gptInfo BY <3>2 DEF MMState
    <3> HIDE DEF x
    <3>4. m.gptInfo[x] \in Record BY <3>3
    <3>5. k \in Megabytes BY <3>4 DEF Record, x
    <3>6. PageAt(k, o) \in Pages BY <3>5, PageAtPage
    <3> QED BY <3>1, <3>6
  <2>2. CASE new.type # "fault"
    <3>1. n \in {m, Die(m)} BY <1>2, <2>2 DEF EditSecond
    <3> QED BY <3>1
  <2> QED BY <2>1, <2>2
<1> QED BY <1>1, <1>2

LEMMA EditSecondType ==
  ASSUME NEW m, MMState(m), NEW v, NEW t \in Tables, NEW o \in Offsets, NEW new,
         GuestTypeOK, NEW n, n = EditSecond(m, v, t, o, new)
  PROVE  MMState(n) /\ \A row : Safe(m, row) => Safe(n, row)
<1>1. CASE n \in {m, Die(m)} BY <1>1, DieSafe
<1>2. ASSUME NEW w \in Pages, NEW f,
             n = ShadowUnmapSmallPage(ShadowUnmapSmallPage(m, "user", w, f), "priv", w, f)
      PROVE  MMState(n) /\ \A row : Safe(m, row) => Safe(n, row)
  <2> DEFINE m1 == ShadowUnmapSmallPage(m, "user", w, f)
  <2>0. "priv" \in Modes /\ "user" \in Modes /\ Megabyte(w) \in Megabytes BY PagePair DEF Modes
  <2>1. Unmapped(m1, m, "user", Megabyte(w)) BY <2>0, UnmapSmallPageUnmaps
  <2>2. MMState(m1) BY <2>1 DEF Unmapped
  <2>3. \A row : Safe(m, row) => Safe(m1, row) BY <2>0, <2>1, UnmappedSafe
  <2>4. n = ShadowUnmapSmallPage(m1, "priv", w, f) BY <1>2
  <2> HIDE DEF m1
  <2>5. Unmapped(n, m1, "priv", Megabyte(w)) BY <2>0, <2>2, <2>4, UnmapSmallPageUnmaps
  <2>6. \A row : Safe(m1, row) => Safe(n, row) BY <2>0, <2>2, <2>5, UnmappedSafe
  <2> QED BY <2>3, <2>5, <2>6 DEF Unmapped
<1> QED BY <1>1, <1>2, EditSecondCases

-----------------------------------------------------------------------------
(* The steps.                                                               *)

Fresh(m) == m.user = FreshTable /\ m.priv = FreshTable /\ m.gptInfo = <<>>

TypeInv ==
  /\ GuestTypeOK /\ MMState(mm)
  /\ enabled \in BOOLEAN /\ privileged \in BOOLEAN
  /\ ~ enabled => Fresh(mm)

SafeInv == Safe(mm, Row)

(* What the proof of SafeInv assumes of the guest.                          *)
Assumed ==
  NoHostPages /\ TablesAtPageStart /\ HomeStaysMapped /\ StoreSizes \subseteq {"word"}

LEMMA WriteType ==
  ASSUME GuestTypeOK, NEW f, Write(f), guestPhysical' = guestPhysical
  PROVE  GuestTypeOK'
<1>1. CASE WriteFirst(f)
  <2>1. PICK k \in Megabytes : \E e \in FirstEntries[f][k] : first' = [first EXCEPT ![f][k] = e]
    BY <1>1 DEF WriteFirst
  <2>2. PICK e \in FirstEntries[f][k] : first' = [first EXCEPT ![f][k] = e] BY <2>1
  <2>3. f \in Bases /\ second' = second BY <1>1 DEF WriteFirst
  <2>4. e \in GuestFirstEntries BY <2>2, <2>3, GuestAssumption
  <2>5. \A b \in Bases, j \in Megabytes :
          first'[b][j] = IF b = f /\ j = k THEN e ELSE first[b][j]
    BY <2>2 DEF GuestTypeOK
  <2>6. first' \in [Bases -> [Megabytes -> GuestFirstEntries]]
    BY <2>2, <2>3, <2>4 DEF GuestTypeOK
  <2> QED BY <2>2, <2>3, <2>5, <2>6 DEF GuestTypeOK
<1>2. CASE WriteSecond(f)
  <2>1. PICK t \in Tables, o \in Offsets : \E e \in SecondEntries[t][o] :
          second' = [second EXCEPT ![t][o] = e]
    BY <1>2 DEF WriteSecond
  <2>2. PICK e \in SecondEntries[t][o] : second' = [second EXCEPT ![t][o] = e] BY <2>1
  <2>3. e \in GuestSecondEntries BY <2>2, GuestAssumption
  <2>4. second' \in [Tables -> [Offsets -> GuestSecondEntries]]
    BY <2>2, <2>3 DEF GuestTypeOK
  <2>5. first' = first BY <1>2 DEF WriteSecond
  <2> QED BY <2>4, <2>5 DEF GuestTypeOK
<1>3. CASE WriteData BY <1>3 DEF WriteData, GuestTypeOK
<1> QED BY <1>1, <1>2, <1>3 DEF Write

LEMMA BecomeState ==
  ASSUME MMState(mm), NEW m, MMState(m), Become(m)
  PROVE  /\ MMState(mm') /\ (mm' = m \/ (mm' = Die(mm) /\ ~ mm'.alive))
         /\ \A row : Safe(m, row) => Safe(mm', row)
BY DieState DEF Become, Safe

LEMMA DieFresh ==
  ASSUME NEW m, MMState(m), Fresh(m) PROVE Fresh(Die(m))
BY DEF Fresh, Die, MMState

LEMMA SwitchState ==
  ASSUME TypeInv, NEW priv \in BOOLEAN, NEW n, n = SwitchAddressing(mm, priv)
  PROVE  /\ MMState(n) /\ (~ enabled => n = Die(mm))
         /\ NoHostPages /\ TablesAtPageStart /\ SafeInv => Safe(n, Row)
<1> DEFINE t == ActiveIn(priv)
           v == mm.guestVirtual
<1>1. t \in Modes /\ MMState(mm) /\ GuestTypeOK BY DEF ActiveIn, Modes, TypeInv
<1>2. CASE n \in {mm, Die(mm)} BY <1>1, <1>2, DieSafe DEF SwitchAddressing, SafeInv, Safe
<1>3. CASE enabled /\ v # NoBase /\ n = ShadowMap(mm, t, v)
  <2>1. v \in Pages BY <1>1, <1>3 DEF MMState
  <2> QED BY <1>1, <1>3, <2>1, ShadowMapType, ShadowMapSafe DEF SafeInv
<1> QED BY <1>2, <1>3 DEF SwitchAddressing

LEMMA FreshSafe ==
  ASSUME NoHostPages, NEW m, m.user = FreshTable, m.priv = FreshTable, NEW row
  PROVE  Safe(m, row)
<1>1. \A t \in Modes : m[t] = FreshTable BY DEF Modes
<1>2. \A k \in Megabytes : FreshTable[k] = Fault BY DEF FreshTable, NoHostPages
<1>3. \A v \in Pages : ShadowPage(FreshTable, v) = Fault
  BY <1>2, PagePair, FaultIsEntry DEF ShadowPage
<1>4. Protected(m) BY <1>1, <1>3, FaultIsEntry DEF Protected, SafePage
<1>5. Follows(m, row) BY <1>1, <1>2, FaultIsEntry DEF Follows, EntryFollows
<1> QED BY <1>4, <1>5 DEF Safe

(* The same of the next state, where the table base may be another.         *)
LEMMA FreshSafeNext ==
  ASSUME NoHostPages, mm'.user = FreshTable, mm'.priv = FreshTable
  PROVE  SafeInv'
<1>1. \A t \in Modes : mm'[t] = FreshTable BY DEF Modes
<1>2. \A k \in Megabytes : FreshTable[k] = Fault BY DEF FreshTable, NoHostPages
<1>3. \A v \in Pages : ShadowPage(FreshTable, v) = Fault
  BY <1>2, PagePair, FaultIsEntry DEF ShadowPage
<1>4. Protected(mm)' BY <1>1, <1>3, FaultIsEntry DEF Protected, SafePage
<1>5. Follows(mm, Row)' BY <1>1, <1>2, FaultIsEntry DEF Follows, EntryFollows
<1> QED BY <1>4, <1>5 DEF SafeInv, Safe

LEMMA Carried ==
  ASSUME guestPhysical' = guestPhysical, NEW row, row = Row', Safe(mm', row)
  PROVE  SafeInv'
<1>1. Protected(mm') => Protected(mm)'
  BY DEF Protected, SafePage, InUseOf
<1>2. Follows(mm', row) => Follows(mm, Row)'
  BY DEF Follows
<1> QED BY <1>1, <1>2 DEF SafeInv, Safe

(* A step that leaves the guest's own tables and the table base alone.      *)
LEMMA Quiet ==
  ASSUME TypeInv, UNCHANGED <<first, second, enabled, guestPhysical>>, MMState(mm'),
         privileged' \in BOOLEAN, ~ enabled => Fresh(mm')
  PROVE  TypeInv' /\ (Safe(mm', Row) => SafeInv')
<1>1. GuestTypeOK' BY DEF TypeInv, GuestTypeOK
<1>2. MMState(mm)' BY DEF MMState
<1>3. (~ enabled => Fresh(mm))' BY DEF Fresh
<1>4. Row = Row' BY DEF Row
<1>5. Safe(mm', Row) => SafeInv' BY <1>4, Carried
<1> QED BY <1>1, <1>2, <1>3, <1>5 DEF TypeInv

LEMMA GuestChangeModeStep ==
  ASSUME TypeInv, NEW priv \in BOOLEAN, GuestChangeMode(mm, priv),
         UNCHANGED <<first, second, enabled, guestPhysical>>
  PROVE  TypeInv' /\ (Assumed /\ SafeInv => SafeInv')
<1> DEFINE n == IF priv = privileged THEN mm ELSE SwitchAddressing(mm, priv)
<1>0. MMState(mm) /\ (~ enabled => Fresh(mm)) BY DEF TypeInv
<1>1. /\ MMState(n) /\ (~ enabled => n \in {mm, Die(mm)})
      /\ NoHostPages /\ TablesAtPageStart /\ SafeInv => Safe(n, Row)
  <2>1. CASE priv = privileged BY <1>0, <2>1 DEF SafeInv
  <2>2. CASE priv # privileged BY <2>2, SwitchState
  <2> QED BY <2>1, <2>2
<1>2. Become(n) /\ privileged' \in BOOLEAN BY DEF GuestChangeMode, TypeInv
<1> HIDE DEF n
<1>3. MMState(mm') /\ mm' \in {n, Die(mm)} /\ \A row : Safe(n, row) => Safe(mm', row)
  BY <1>0, <1>1, <1>2, BecomeState
<1>4. ~ enabled => Fresh(mm') BY <1>0, <1>1, <1>3, DieFresh
<1> QED BY <1>1, <1>2, <1>3, <1>4, Quiet DEF Assumed

LEMMA ChangeModeStep ==
  ASSUME TypeInv, ChangeMode
  PROVE  TypeInv' /\ (Assumed /\ SafeInv => SafeInv')
BY GuestChangeModeStep DEF ChangeMode

LEMMA DeliverDataAbortStep ==
  ASSUME TypeInv, DeliverDataAbort
  PROVE  TypeInv' /\ (Assumed /\ SafeInv => SafeInv')
BY GuestChangeModeStep DEF DeliverDataAbort

LEMMA DieStep ==
  ASSUME TypeInv, mm' = Die(mm), UNCHANGED <<first, second, enabled, privileged, guestPhysical>>
  PROVE  TypeInv' /\ (Assumed /\ SafeInv => SafeInv')
<1>1. MMState(mm) /\ (~ enabled => Fresh(mm)) /\ privileged \in BOOLEAN BY DEF TypeInv
<1>2. MMState(mm') /\ Safe(mm', Row) BY <1>1, DieSafe
<1>3. ~ enabled => Fresh(mm') BY <1>1, DieFresh
<1> QED BY <1>1, <1>2, <1>3, Quiet

LEMMA EmptyState ==
  ASSUME NEW m, MMState(m), NEW n, n = EmptyTables(m)
  PROVE  MMState(n) /\ Fresh(n)
<1>1. <<>> \in Seq(Record) OBVIOUS
<1>2. /\ n.user = FreshTable /\ n.priv = FreshTable /\ n.gptInfo = <<>>
      /\ n.guestVirtual = m.guestVirtual /\ n.blocks = m.blocks /\ n.alive = m.alive
      /\ n \in [user : {n.user}, priv : {n.priv}, gptInfo : {n.gptInfo},
                guestVirtual : {n.guestVirtual}, blocks : {n.blocks}, alive : {n.alive}]
  BY DEF MMState, EmptyTables
<1> QED BY <1>1, <1>2, FreshType DEF MMState, Fresh


(* The tables are emptied, or the guest's MMU is off.                       *)
LEMMA FreshStep ==
  ASSUME TypeInv, MMState(mm'), Fresh(mm'), UNCHANGED <<first, second>>,
         guestPhysical' \in Bases \cup {NoBase}, enabled' \in BOOLEAN, privileged' \in BOOLEAN
  PROVE  TypeInv' /\ (Assumed /\ SafeInv => SafeInv')
<1>1. GuestTypeOK' BY DEF TypeInv, GuestTypeOK
<1>2. MMState(mm)' BY DEF MMState
<1>3. Fresh(mm)' BY DEF Fresh
<1>4. Assumed => SafeInv' BY FreshSafeNext DEF Assumed, Fresh
<1> QED BY <1>1, <1>2, <1>3, <1>4 DEF TypeInv

LEMMA VirtualState ==
  ASSUME NEW m, MMState(m), NEW n, n = [m EXCEPT !.guestVirtual = NoBase]
  PROVE  MMState(n) /\ (Fresh(m) => Fresh(n))
BY DEF MMState, Fresh

LEMMA BlocksState ==
  ASSUME NEW m, MMState(m), NEW b, NEW n, n = [m EXCEPT !.blocks = b]
  PROVE  /\ MMState(n) /\ SameRecords(n, m) /\ (Fresh(m) => Fresh(n))
         /\ \A t \in Modes : n[t] = m[t]
BY DEF MMState, Fresh, SameRecords, Modes

LEMMA WriteTableBaseStep ==
  ASSUME TypeInv, WriteTableBase
  PROVE  TypeInv' /\ (Assumed /\ SafeInv => SafeInv')
<1> DEFINE m == [mm EXCEPT !.guestVirtual = NoBase]
<1>1. PICK b \in Bases \cup {NoBase} : GuestSetPageTableBase(b)
  BY DEF WriteTableBase, WriteTTBR0, WriteACTLR
<1>2. MMState(m) /\ (~ enabled => Fresh(m)) BY VirtualState DEF TypeInv
<1>3. mm' = (IF enabled THEN EmptyTables(m) ELSE m) /\ guestPhysical' = b
  BY <1>1 DEF GuestSetPageTableBase
<1> HIDE DEF m
<1>4. MMState(mm') /\ Fresh(mm') BY <1>2, <1>3, EmptyState
<1> QED BY <1>3, <1>4, FreshStep DEF WriteTableBase, TypeInv

LEMMA EnableMMUStep ==
  ASSUME TypeInv, EnableMMU
  PROVE  TypeInv' /\ (Assumed /\ SafeInv => SafeInv')
<1>1. CASE guestPhysical = NoBase BY <1>1, DieStep DEF EnableMMU
<1>2. CASE guestPhysical # NoBase
  <2>1. MMState(mm') /\ Fresh(mm') BY <1>2, EmptyState DEF EnableMMU, TypeInv
  <2> QED BY <1>2, <2>1, FreshStep DEF EnableMMU, TypeInv, GuestTypeOK
<1> QED BY <1>1, <1>2

LEMMA DisableMMUStep ==
  ASSUME TypeInv, DisableMMU
  PROVE  TypeInv' /\ (Assumed /\ SafeInv => SafeInv')
<1> DEFINE m1 == EmptyTables(mm)
<1>1. mm' = [m1 EXCEPT !.guestVirtual = NoBase, !.blocks = {}] BY DEF DisableMMU
<1>2. MMState(m1) /\ Fresh(m1) BY EmptyState DEF TypeInv
<1> HIDE DEF m1
<1>3. MMState(mm') /\ Fresh(mm') BY <1>1, <1>2 DEF MMState, Fresh
<1> QED BY <1>3, FreshStep DEF DisableMMU, TypeInv

LEMMA WriteDACRStep ==
  ASSUME TypeInv, WriteDACR
  PROVE  TypeInv' /\ (Assumed /\ SafeInv => SafeInv')
<1>1. MMState(mm) /\ (~ enabled => Fresh(mm)) /\ privileged \in BOOLEAN BY DEF TypeInv
<1>2. MMState(mm') /\ (~ enabled => Fresh(mm')) /\ (SafeInv => Safe(mm', Row))
  BY <1>1 DEF WriteDACR, SafeInv
<1> QED BY <1>1, <1>2, Quiet DEF WriteDACR

LEMMA TranslationFaultStep ==
  ASSUME TypeInv, NEW v \in Pages, NEW write, TranslationFault(v, write)
  PROVE  TypeInv' /\ (Assumed /\ SafeInv => SafeInv')
<1>1. CASE DeliverDataAbort BY <1>1, DeliverDataAbortStep
<1>2. CASE /\ Become(ShadowMap(mm, shadowActive, v))
           /\ UNCHANGED <<first, second, ttbr, enabled, privileged, dacr, guestPhysical>>
  <2> DEFINE n == ShadowMap(mm, shadowActive, v)
  <2>1. shadowActive \in Modes /\ MMState(mm) /\ GuestTypeOK /\ privileged \in BOOLEAN /\ enabled
    BY DEF shadowActive, ActiveIn, Modes, TypeInv, TranslationFault
  <2>2. MMState(n) BY <2>1, ShadowMapType
  <2>3. Assumed /\ SafeInv => Safe(n, Row) BY <2>1, ShadowMapSafe DEF Assumed, SafeInv
  <2>4. Become(n) BY <1>2
  <2> HIDE DEF n
  <2>5. MMState(mm') /\ \A row : Safe(n, row) => Safe(mm', row) BY <2>1, <2>2, <2>4, BecomeState
  <2> QED BY <1>2, <2>1, <2>3, <2>5, Quiet
<1> QED BY <1>1, <1>2 DEF TranslationFault

LEMMA DomainFaultStep ==
  ASSUME TypeInv, NEW v, DomainFault(v)
  PROVE  TypeInv' /\ (Assumed /\ SafeInv => SafeInv')
BY DieStep DEF DomainFault

LEMMA PermissionAbortStep ==
  ASSUME TypeInv, NEW v, NEW write, PermissionAbort(v, write)
  PROVE  TypeInv' /\ (Assumed /\ SafeInv => SafeInv')
BY DieStep, DeliverDataAbortStep DEF PermissionAbort

(* A store that the processor lets through reaches no table in use.         *)
LEMMA DirectStoreStep ==
  ASSUME TypeInv, NEW v \in Pages, DirectStore(v)
  PROVE  TypeInv' /\ (Assumed /\ SafeInv => SafeInv')
<1> DEFINE p == Reached(v)
<1>1. /\ MMState(mm) /\ GuestTypeOK /\ shadowActive \in Modes
      /\ Write(p.frame) /\ Granted(p, TRUE) /\ p.type = "page" /\ mm.alive
      /\ UNCHANGED <<enabled, privileged, mm, guestPhysical>>
  BY DEF TypeInv, DirectStore, Present, Reached, shadowActive, ActiveIn, Modes
<1>2. TypeInv'
  <2>1. GuestTypeOK' BY <1>1, WriteType
  <2>2. MMState(mm)' /\ (~ enabled => Fresh(mm))' BY <1>1 DEF MMState, Fresh, TypeInv
  <2> QED BY <1>1, <2>1, <2>2 DEF TypeInv
<1>3. ASSUME SafeInv PROVE SafeInv'
  <2>1. SafePage(mm, p) BY <1>1, <1>3 DEF SafeInv, Safe, Protected, Reached
  <2>2. p.ap = "rw_rw" BY <1>1 DEF Granted
  <2>3. p.frame # guestPhysical BY <1>1, <2>1, <2>2 DEF SafePage, InUseOf
  <2>4. guestPhysical \in Bases => first'[guestPhysical] = first[guestPhysical]
    BY <1>1, <2>3 DEF Write, WriteFirst, WriteSecond, WriteData, GuestTypeOK
  <2>5. Row' = Row BY <1>1, <2>4 DEF Row
  <2>6. Safe(mm', Row) BY <1>1, <1>3 DEF SafeInv
  <2> QED BY <1>1, <2>5, <2>6, Carried
<1> QED BY <1>2, <1>3

LEMMA PhysicalStoreStep ==
  ASSUME TypeInv, NEW v \in Pages, PhysicalStore(v)
  PROVE  TypeInv' /\ (Assumed /\ SafeInv => SafeInv')
<1>1. /\ MMState(mm) /\ GuestTypeOK /\ Fresh(mm) /\ ~ enabled
      /\ UNCHANGED <<enabled, privileged, guestPhysical>>
  BY DEF TypeInv, PhysicalStore
<1>2. mm' = ClearTranslations(mm, {v}) BY DEF PhysicalStore
<1>3. MMState(mm') /\ Fresh(mm')
  <2>1. /\ MMState(mm') /\ SameRecords(mm', mm) /\ \A t \in Modes : mm'[t] = mm[t]
    BY <1>1, <1>2, ClearState
  <2>2. mm'["user"] = mm["user"] /\ mm'["priv"] = mm["priv"] BY <2>1 DEF Modes
  <2> QED BY <1>1, <2>1, <2>2 DEF Fresh, SameRecords
<1>4. GuestTypeOK' BY <1>1, WriteType DEF PhysicalStore
<1>5. TypeInv'
  <2>1. MMState(mm)' /\ Fresh(mm)' BY <1>3 DEF MMState, Fresh
  <2> QED BY <1>1, <1>4, <2>1 DEF TypeInv
<1>6. Assumed => SafeInv' BY <1>3, FreshSafeNext DEF Assumed, Fresh
<1> QED BY <1>5, <1>6

LEMMA ScanBlockStep ==
  ASSUME TypeInv, NEW range, ScanBlock(range)
  PROVE  TypeInv' /\ (Assumed /\ SafeInv => SafeInv')
<1>0. MMState(mm) /\ privileged \in BOOLEAN BY DEF TypeInv
<1>1. CASE enabled
  <2> DEFINE pages == RangeFrom(range)
             n == GuestWriteProtect(mm, pages)
             b == mm.blocks \cup {[v \in range |-> Reached(v).frame]}
  <2>1. MMState(n) /\ SameRecords(n, mm) BY <1>0, GuestWriteProtectState
  <2>2. mm' = [n EXCEPT !.blocks = b]
    <3>1. n.blocks = mm.blocks BY <1>0 DEF GuestWriteProtect, MMState
    <3> QED BY <1>1, <3>1 DEF ScanBlock
  <2>3. ASSUME SafeInv PROVE Safe(n, Row)
    <3> SUFFICES ASSUME mm.alive PROVE Protected(n) /\ Follows(n, Row)
      BY <2>1 DEF Safe, SameRecords
    <3>1. Protected(mm) /\ Follows(mm, Row) BY <2>3 DEF SafeInv, Safe
    <3>2. Follows(n, Row) BY <1>0, <3>1, GuestWriteProtectFollows
    <3>3. ASSUME NEW t \in Modes, NEW v \in Pages PROVE SafePage(n, ShadowPage(n[t], v))
      <4>1. Protects(ShadowPage(n[t], v), ShadowPage(mm[t], v), v, pages)
        BY <1>0, GuestWriteProtectPage
      <4>2. SafePage(mm, ShadowPage(mm[t], v)) BY <3>1 DEF Protected
      <4> HIDE DEF n, pages
      <4> QED BY <2>1, <4>1, <4>2 DEF SafePage, Protects, InUseOf, SameRecords
    <3> QED BY <3>2, <3>3 DEF Protected
  <2> HIDE DEF n, b
  <2>4. /\ MMState(mm') /\ SameRecords(mm', n) /\ \A t \in Modes : mm'[t] = n[t]
    BY <2>1, <2>2, BlocksState
  <2>5. Safe(n, Row) => Safe(mm', Row)
    BY <2>4 DEF Safe, Protected, Follows, SafePage, InUseOf, EntryFollows, SameRecords
  <2> QED BY <1>0, <1>1, <2>3, <2>4, <2>5, Quiet DEF ScanBlock
<1>2. CASE ~ enabled
  <2> DEFINE b == mm.blocks \cup {[v \in range |-> v]}
  <2>1. mm' = [mm EXCEPT !.blocks = b] BY <1>2 DEF ScanBlock
  <2> HIDE DEF b
  <2>2. MMState(mm') /\ Fresh(mm') BY <1>0, <1>2, <2>1, BlocksState DEF TypeInv
  <2> QED BY <2>2, FreshStep DEF ScanBlock, TypeInv, GuestTypeOK
<1> QED BY <1>1, <1>2

(* The end of an emulated store: m is the state after the guest's table was *)
(* edited, and the value is stored only if the hypervisor survives.         *)
LEMMA StoredState ==
  ASSUME TypeInv, enabled, UNCHANGED <<enabled, privileged, guestPhysical>>,
         NEW v \in Pages, NEW m, MMState(m), Become(StoreValue(m, v)), GuestTypeOK'
  PROVE  /\ TypeInv' /\ (mm'.alive => mm' = StoreValue(m, v))
         /\ ~ mm'.alive => SafeInv'
<1> DEFINE n == StoreValue(m, v)
<1>1. MMState(mm) /\ GuestTypeOK /\ privileged \in BOOLEAN BY DEF TypeInv
<1>2. MMState(n) BY <1>1, StoreValueType
<1> HIDE DEF n
<1>3. MMState(mm') /\ (mm' = n \/ (mm' = Die(mm) /\ ~ mm'.alive)) BY <1>1, <1>2, BecomeState DEF n
<1>4. MMState(mm)' BY <1>3 DEF MMState
<1> QED BY <1>1, <1>3, <1>4 DEF TypeInv, SafeInv, Safe, n

LEMMA EntryWritten ==
  ASSUME GuestTypeOK, NEW f \in Bases, NEW k \in Megabytes, NEW e \in FirstEntries[f][k],
         first' = [first EXCEPT ![f][k] = e], UNCHANGED <<second, guestPhysical>>
  PROVE  GuestTypeOK'
BY WriteType DEF Write, WriteFirst

LEMMA SecondWritten ==
  ASSUME GuestTypeOK, NEW t \in Tables, NEW o \in Offsets, NEW e \in SecondEntries[t][o],
         second' = [second EXCEPT ![t][o] = e], UNCHANGED <<first, guestPhysical>>
  PROVE  GuestTypeOK'
<1>1. WriteSecond(t.frame)
  <2>1. t \in {x \in Tables : x.frame = t.frame} OBVIOUS
  <2> QED BY <2>1 DEF WriteSecond
<1> QED BY <1>1, WriteType DEF Write

LEMMA SameTablesSafe ==
  ASSUME NEW m, NEW n, SameRecords(n, m), \A t \in Modes : n[t] = m[t], NEW row, Safe(m, row)
  PROVE  Safe(n, row)
BY DEF Safe, Protected, Follows, SafePage, InUseOf, EntryFollows, SameRecords

LEMMA EmulatedStoreStep ==
  ASSUME TypeInv, dacr \in Dacrs, NEW v \in Pages, NEW size \in StoreSizes, EmulatedStore(v, size)
  PROVE  TypeInv' /\ (Assumed /\ SafeInv => SafeInv')
<1> DEFINE p == Reached(v)
           f == p.frame
           m0 == ClearTranslations(mm, {v})
<1>1. /\ MMState(mm) /\ GuestTypeOK /\ shadowActive \in Modes /\ enabled
      /\ p.type = "page" /\ mm.alive /\ guestPhysical \in Bases
      /\ UNCHANGED <<enabled, privileged, guestPhysical>>
      /\ MayAccess(Walk(guestPhysical, v), privileged, TRUE)
  BY DEF TypeInv, EmulatedStore, PermissionFault, CanDecide, Present, Reached, shadowActive,
         ActiveIn, Modes, ShouldDataAbort
<1>2. /\ MMState(m0) /\ SameRecords(m0, mm) /\ \A t \in Modes : m0[t] = mm[t]
  BY <1>1, ClearState
<1>3. ShadowPage(m0[shadowActive], v) = p BY <1>1, <1>2 DEF Reached
<1>4. SafeInv => Safe(m0, Row) BY <1>2, SameTablesSafe DEF SafeInv
<1>5. \/ /\ f \in Bases /\ UNCHANGED second
         /\ \E k \in Megabytes : \E e \in FirstEntries[f][k] :
              /\ Become(StoreValue(IF f = guestPhysical /\ size = "word"
                                     THEN EditFirst(m0, v, k, e) ELSE m0, v))
              /\ first' = IF mm'.alive THEN [first EXCEPT ![f][k] = e] ELSE first
      \/ /\ UNCHANGED first
         /\ \E t \in {t \in Tables : t.frame = f} : \E o \in Offsets : \E e \in SecondEntries[t][o] :
              /\ Become(StoreValue(IF size = "word" THEN EditSecond(m0, v, t, o, e) ELSE m0, v))
              /\ second' = IF mm'.alive THEN [second EXCEPT ![t][o] = e] ELSE second
      \/ Become(StoreValue(m0, v)) /\ UNCHANGED <<first, second>>
  BY DEF EmulatedStore
<1> HIDE DEF m0, p
<1>6. ASSUME UNCHANGED <<first, second>> PROVE GuestTypeOK'
  BY <1>1, <1>6 DEF GuestTypeOK
<1>7. ASSUME f \in Bases, UNCHANGED second, NEW k \in Megabytes, NEW e \in FirstEntries[f][k],
             Become(StoreValue(IF f = guestPhysical /\ size = "word"
                                 THEN EditFirst(m0, v, k, e) ELSE m0, v)),
             first' = IF mm'.alive THEN [first EXCEPT ![f][k] = e] ELSE first
      PROVE  TypeInv' /\ (Assumed /\ SafeInv => SafeInv')
  <2> DEFINE n == IF f = guestPhysical /\ size = "word" THEN EditFirst(m0, v, k, e) ELSE m0
  <2>1. e \in GuestFirstEntries BY <1>7, GuestAssumption
  <2>2. MMState(n) BY <1>1, <1>2, <2>1, EditFirstType
  <2>3. GuestTypeOK' BY <1>1, <1>6, <1>7, EntryWritten
  <2>4. /\ TypeInv' /\ (mm'.alive => mm' = StoreValue(n, v))
        /\ ~ mm'.alive => SafeInv'
    <3> HIDE DEF n
    <3> QED BY <1>1, <1>7, <2>2, <2>3, StoredState DEF n
  <2>5. ASSUME Assumed, SafeInv, mm'.alive, f = guestPhysical PROVE SafeInv'
    <3>1. size = "word" BY <2>5 DEF Assumed
    <3>2. mm' = StoreValue(EditFirst(m0, v, k, e), v) BY <2>4, <2>5, <3>1
    <3>3. Safe(mm', [Row EXCEPT ![k] = e])
      BY <1>1, <1>2, <1>3, <1>4, <1>7, <2>5, <3>2, EditFirstSafe DEF Assumed
    <3>4. [Row EXCEPT ![k] = e] = Row' BY <1>1, <1>7, <2>5 DEF Row, GuestTypeOK
    <3> QED BY <1>1, <3>3, <3>4, Carried
  <2>6. ASSUME Assumed, SafeInv, mm'.alive, f # guestPhysical PROVE SafeInv'
    <3>1. mm' = m0 BY <1>3, <1>1, <2>4, <2>6, StoreStays
    <3>2. Row' = Row BY <1>1, <1>7, <2>6 DEF Row, GuestTypeOK
    <3> QED BY <1>1, <1>4, <2>6, <3>1, <3>2, Carried
  <2> QED BY <2>4, <2>5, <2>6
<1>8. ASSUME UNCHANGED first, NEW t \in Tables, NEW o \in Offsets, NEW e \in SecondEntries[t][o],
             Become(StoreValue(IF size = "word" THEN EditSecond(m0, v, t, o, e) ELSE m0, v)),
             second' = IF mm'.alive THEN [second EXCEPT ![t][o] = e] ELSE second
      PROVE  TypeInv' /\ (Assumed /\ SafeInv => SafeInv')
  <2> DEFINE n == IF size = "word" THEN EditSecond(m0, v, t, o, e) ELSE m0
  <2>1. MMState(n) /\ (SafeInv => Safe(n, Row)) BY <1>1, <1>2, <1>4, EditSecondType
  <2> HIDE DEF n
  <2>2. GuestTypeOK' BY <1>1, <1>6, <1>8, SecondWritten
  <2>3. /\ TypeInv' /\ (mm'.alive => mm' = StoreValue(n, v))
        /\ ~ mm'.alive => SafeInv'
    BY <1>1, <1>8, <2>1, <2>2, StoredState DEF n
  <2>4. ASSUME Assumed, SafeInv, mm'.alive PROVE SafeInv'
    <3>1. Safe(mm', Row) BY <1>1, <2>1, <2>3, <2>4, StoreValueSafe DEF Assumed
    <3>2. Row' = Row BY <1>1, <1>8 DEF Row
    <3> QED BY <1>1, <3>1, <3>2, Carried
  <2> QED BY <2>3, <2>4
<1>9. ASSUME Become(StoreValue(m0, v)), UNCHANGED <<first, second>>
      PROVE  TypeInv' /\ (Assumed /\ SafeInv => SafeInv')
  <2>1. TypeInv' /\ (mm'.alive => mm' = StoreValue(m0, v)) /\ (~ mm'.alive => SafeInv')
    BY <1>1, <1>2, <1>6, <1>9, StoredState
  <2>2. ASSUME SafeInv, mm'.alive PROVE SafeInv'
    <3>1. mm' = m0 BY <1>1, <1>3, <2>1, <2>2, StoreStays
    <3>2. Row' = Row BY <1>1, <1>9 DEF Row
    <3> QED BY <1>1, <1>4, <2>2, <3>1, <3>2, Carried
  <2> QED BY <2>1, <2>2
<1> QED BY <1>5, <1>7, <1>8, <1>9

-----------------------------------------------------------------------------
(* The theorems.                                                            *)

(* The domain register only ever holds what the guest writes into it.       *)
LEMMA DacrStep ==
  ASSUME dacr \in Dacrs, [Next]_vars
  PROVE  dacr' \in Dacrs
BY DEF Next, vars, ChangeMode, WriteTableBase, EnableMMU, DisableMMU, WriteDACR, DirectStore,
       PhysicalStore, DomainFault, EmulatedStore, TranslationFault, PermissionAbort, ScanBlock,
       DeliverDataAbort

LEMMA InitInv == Init => TypeInv /\ (Assumed => SafeInv)
<1> SUFFICES ASSUME Init PROVE TypeInv /\ (Assumed => SafeInv) OBVIOUS
<1>1. \A S : S # {} => Blank(S) \in S
  <2> SUFFICES ASSUME NEW S, S # {} PROVE Blank(S) \in S OBVIOUS
  <2>1. \E e \in S : e = Fault \/ Fault \notin S OBVIOUS
  <2> QED BY <2>1 DEF Blank
<1>2. \A b \in Bases, k \in Megabytes : Blank(FirstEntries[b][k]) \in FirstEntries[b][k]
  BY <1>1, GuestAssumption
<1>3. \A t \in Tables, o \in Offsets : Blank(SecondEntries[t][o]) \in SecondEntries[t][o]
  BY <1>1, GuestAssumption
<1> HIDE DEF Blank
<1>4. first = [b \in Bases |-> [k \in Megabytes |-> Blank(FirstEntries[b][k])]]
  BY DEF Init, GuestInit
<1>5. second = [t \in Tables |-> [o \in Offsets |-> Blank(SecondEntries[t][o])]]
  BY DEF Init, GuestInit
<1>6. \A b \in Bases, k \in Megabytes :
        first[b][k] \in FirstEntries[b][k] /\ first[b][k] \in GuestFirstEntries
  BY <1>2, <1>4, GuestAssumption
<1>7. \A t \in Tables, o \in Offsets : second[t][o] \in GuestSecondEntries
  BY <1>3, <1>5, GuestAssumption
<1>8. GuestTypeOK BY <1>4, <1>5, <1>6, <1>7 DEF GuestTypeOK, Init
<1>9. MMState(mm) /\ Fresh(mm) BY FreshType DEF Init, MMState, Fresh
<1> QED BY <1>8, <1>9, FreshSafe DEF TypeInv, SafeInv, Fresh, Assumed, Init, GuestInit

LEMMA StutterStep ==
  ASSUME TypeInv, UNCHANGED vars
  PROVE  TypeInv' /\ (Assumed /\ SafeInv => SafeInv')
<1>1. MMState(mm) /\ privileged \in BOOLEAN /\ (~ enabled => Fresh(mm)) BY DEF TypeInv
<1>2. MMState(mm') /\ (~ enabled => Fresh(mm')) /\ (SafeInv => Safe(mm', Row))
  BY <1>1 DEF vars, SafeInv
<1> QED BY <1>1, <1>2, Quiet DEF vars

LEMMA StepInv ==
  ASSUME TypeInv, dacr \in Dacrs, [Next]_vars
  PROVE  TypeInv' /\ (Assumed /\ SafeInv => SafeInv')
<1>1. CASE ChangeMode BY <1>1, ChangeModeStep
<1>2. CASE WriteTableBase BY <1>2, WriteTableBaseStep
<1>3. CASE EnableMMU BY <1>3, EnableMMUStep
<1>4. CASE DisableMMU BY <1>4, DisableMMUStep
<1>5. CASE WriteDACR BY <1>5, WriteDACRStep
<1>6. CASE \E v \in Pages : DirectStore(v) BY <1>6, DirectStoreStep
<1>7. CASE \E v \in Pages : PhysicalStore(v) BY <1>7, PhysicalStoreStep
<1>8. CASE \E v \in Pages : DomainFault(v) BY <1>8, DomainFaultStep
<1>9. CASE \E v \in Pages, size \in StoreSizes : EmulatedStore(v, size)
  BY <1>9, EmulatedStoreStep
<1>10. CASE \E v \in Pages, write \in BOOLEAN : TranslationFault(v, write)
  BY <1>10, TranslationFaultStep
<1>11. CASE \E v \in Pages, write \in BOOLEAN : PermissionAbort(v, write)
  BY <1>11, PermissionAbortStep
<1>12. CASE \E range \in CodeRanges : ScanBlock(range) BY <1>12, ScanBlockStep
<1>13. CASE UNCHANGED vars BY <1>13, StutterStep
<1> QED BY <1>1, <1>2, <1>3, <1>4, <1>5, <1>6, <1>7, <1>8, <1>9, <1>10, <1>11, <1>12, <1>13
        DEF Next

LEMMA TypeInvImplies == TypeInv => TypeOK
BY DEF TypeInv, TypeOK, GuestTypeOK, MMState, Fresh, ShadowTable, Record

LEMMA SafeInvImplies == SafeInv => TablesProtected
BY DEF SafeInv, Safe, Protected, SafePage, InUseOf, InUse, TablesProtected, Granted

(* The type invariant, for every guest: whatever it writes into its tables  *)
(* and registers, the shadow tables stay tables, the records point at       *)
(* tables of the guest, and nothing is mapped while its MMU is off.         *)
THEOREM TypeCorrect == Spec => []TypeOK
<1> DEFINE Inv == TypeInv /\ dacr \in Dacrs
<1>1. Init => Inv BY InitInv DEF Init, GuestInit
<1>2. Inv /\ [Next]_vars => Inv' BY StepInv, DacrStep
<1>3. Inv => TypeOK BY TypeInvImplies
<1> QED BY <1>1, <1>2, <1>3, PTL DEF Spec

(* No guest store reaches a page table in use without the hypervisor, if    *)
(* the hypervisor has no pages of its own in the shadow tables, second level*)
(* tables begin at pages, tables are written by words, and the guest never  *)
(* unmaps a megabyte through which it may write its first level table.      *)
THEOREM TablesStayProtected == Assumed => (Spec => []TablesProtected)
<1> SUFFICES ASSUME Assumed PROVE Spec => []TablesProtected OBVIOUS
<1> DEFINE Inv == TypeInv /\ dacr \in Dacrs /\ SafeInv
<1>1. Init => Inv BY InitInv DEF Init, GuestInit
<1>2. Inv /\ [Next]_vars => Inv' BY StepInv, DacrStep
<1>3. Inv => TablesProtected BY SafeInvImplies
<1> QED BY <1>1, <1>2, <1>3, PTL DEF Spec

=============================================================================
