----------------------- MODULE ShadowAgreementProofs -----------------------
(***************************************************************************)
(* The shadow tables agree with the guest's own, so that the memory manager *)
(* implements the memory management unit the guest believes it has.        *)
(***************************************************************************)
EXTENDS ShadowTablesProofs, WellFoundedInduction

(* What the proofs assume of the guest, beside Assumed.  A second level     *)
(* table maps one megabyte only.                                            *)
OnePlace ==
  \A b, c \in Bases, j, k \in Megabytes :
    \A e \in FirstEntries[b][j], f \in FirstEntries[c][k] :
      e.type = "table" /\ f.type = "table" /\ e.table = f.table => j = k

(* No domain is ever one of a manager.                                      *)
ClientOnly == \A d \in Dacrs, x \in Domains : d[x] # "manager"

(* The reserved permission is not used.                                     *)
NoDeprecated ==
  /\ \A b \in Bases, k \in Megabytes : \A e \in FirstEntries[b][k] :
       e.type = "section" => e.ap # "deprecated"
  /\ \A t \in Tables, o \in Offsets : \A e \in SecondEntries[t][o] :
       e.type = "page" => e.ap # "deprecated"

(* Devices are mapped by sections only, that keep their permission.         *)
DevicesKept ==
  /\ \A b \in Bases, k \in Megabytes : \A e, f \in FirstEntries[b][k] :
       /\ e.type = "section" /\ f.type = "section" /\ e.mb = f.mb
       /\ e.mb \in DeviceMegabytes
       => e.ap = f.ap
  /\ \A t \in Tables, o \in Offsets : \A e \in SecondEntries[t][o] :
       e.type = "page" => Megabyte(e.frame) \notin DeviceMegabytes

Obedient == Assumed /\ OnePlace /\ ClientOnly /\ NoDeprecated

-----------------------------------------------------------------------------
(* Agreement of a memory manager m with the guest's first level table row   *)
(* and its second level tables sec.                                         *)

GuestPage(g, sec, o) ==
  CASE g.type = "section" -> [type |-> "page", frame |-> PageAt(g.mb, o), ap |-> g.ap]
    [] g.type = "table" /\ sec[g.table][o].type = "page" -> sec[g.table][o]
    [] OTHER -> Fault

PageAgrees(t, p, w) ==
  p.type = "page" =>
    /\ w.type = "page" /\ p.frame = w.frame
    /\ \A write \in BOOLEAN : Granted(p, write) => Permitted(w.ap, t = "priv", write)
    /\ DevicesKept /\ Megabyte(p.frame) \in DeviceMegabytes => ~ Granted(p, FALSE)

RecordOf(k, g) == [mb |-> k, table |-> g.table]

EntryAgrees(m, t, e, g, k, sec) ==
  e.type # "fault" =>
    /\ g.type # "fault" /\ e.dom = g.dom
    /\ \A o \in Offsets : PageAgrees(t, Split(e)[o], GuestPage(g, sec, o))
    /\ g.type = "table" => e.type = "table" /\ RecordOf(k, g) \in Range(m.gptInfo)

Agrees(m, row, sec) == \A t \in Modes, k \in Megabytes : EntryAgrees(m, t, m[t][k], row[k], k, sec)

(* Every record is of a table at a megabyte where the guest may use it.     *)
Placed(m) ==
  \A i \in Range(m.gptInfo) : \E b \in Bases : \E e \in FirstEntries[b][i.mb] :
    e.type = "table" /\ e.table = i.table

Agree(m, row, sec) == m.alive => Agrees(m, row, sec) /\ Placed(m)

(* Second level tables the guest can have.                                  *)
SecondOK(sec) ==
  /\ sec \in [Tables -> [Offsets -> GuestSecondEntries]]
  /\ \A t \in Tables, o \in Offsets : sec[t][o] \in SecondEntries[t][o]

(* ... and first level tables.                                              *)
RowOK(row) ==
  /\ row \in [Megabytes -> GuestFirstEntries]
  /\ \A k \in Megabytes : row[k].type # "fault" => \E b \in Bases : row[k] \in FirstEntries[b][k]

-----------------------------------------------------------------------------
(* The permissions of a mapping are at most the guest's.                    *)

LEMMA MappedPermission ==
  ASSUME dacr \in Dacrs, ClientOnly, NEW dom \in Domains,
         NEW ap \in Permissions, ap # "deprecated", NEW t \in Modes,
         NEW p, p.ap = MapAccessPermissionBits(t, ap, dom), NEW write \in BOOLEAN, Granted(p, write)
  PROVE  Permitted(ap, t = "priv", write)
<1>1. dacr[dom] # "manager" BY DEF ClientOnly
<1>2. dacr[dom] # "none" BY DEF MapAccessPermissionBits, Granted
<1>3. p.ap = CASE ap = "no_no" -> "rw_no"
               [] ap = "rw_no" -> IF t = "priv" THEN "rw_rw" ELSE "rw_no"
               [] ap = "rw_ro" -> IF t = "priv" THEN "rw_rw" ELSE "rw_ro"
               [] ap = "rw_rw" -> "rw_rw"
               [] ap = "ro_no" -> IF t = "priv" THEN "rw_ro" ELSE "rw_no"
               [] OTHER -> "rw_ro"
  BY <1>1, <1>2 DEF MapAccessPermissionBits
<1> QED BY <1>3 DEF Granted, Permitted, Permissions, Modes

(* What protecting pages leaves of the page a table maps at v.              *)
Lowers(q, p) ==
  /\ q.type = p.type
  /\ q.type = "page" => /\ q.frame = p.frame
                        /\ q.ap = p.ap \/ (p.ap = "rw_rw" /\ q.ap = "rw_ro")

LEMMA LoweredAgrees ==
  ASSUME NEW t, NEW p, NEW q, NEW w, Lowers(q, p), PageAgrees(t, p, w)
  PROVE  PageAgrees(t, q, w)
BY DEF Lowers, PageAgrees, Granted

LEMMA WriteProtectLowers ==
  ASSUME NEW table \in ShadowTable, NEW pages, NEW v \in Pages
  PROVE  Lowers(ShadowPage(WriteProtect(table, pages), v), ShadowPage(table, v))
<1> DEFINE m == Megabyte(v)
           o == Offset(v)
           p == ShadowPage(table, v)
           q == ShadowPage(WriteProtect(table, pages), v)
           w == [type |-> "table", dom |-> table[m].dom,
            page |-> [x \in Offsets |-> LET r == Split(table[m])[x] IN
                       IF PageAt(m, x) \in pages /\ r.type = "page" /\ r.ap = "rw_rw"
                         THEN [r EXCEPT !.ap = "rw_ro"] ELSE r]]
<1>0. m \in Megabytes /\ o \in Offsets /\ v = PageAt(m, o) BY PagePair
<1>1. table[m] \in ShadowEntries BY <1>0 DEF ShadowTable
<1>2. CASE table[m].type = "fault" \/ \A x \in pages : Megabyte(x) # m
  <2>1. WriteProtect(table, pages)[m] = table[m] BY <1>0, <1>2 DEF WriteProtect
  <2>2. q = p BY <2>1 DEF ShadowPage
  <2> QED BY <2>2 DEF Lowers
<1>3. CASE ~ (table[m].type = "fault" \/ \A x \in pages : Megabyte(x) # m)
  <2>1. WriteProtect(table, pages)[m] = w BY <1>0, <1>3 DEF WriteProtect
  <2>2. p = Split(table[m])[o] BY <1>3 DEF ShadowPage
  <2>3. q = w.page[o] BY <2>1 DEF ShadowPage, Split
  <2>4. q = IF v \in pages /\ p.type = "page" /\ p.ap = "rw_rw" THEN [p EXCEPT !.ap = "rw_ro"] ELSE p
    BY <1>0, <2>2, <2>3
  <2>5. p \in ShadowPages BY <1>0, <1>1, <1>3, <2>2, SplitType
  <2> SUFFICES Lowers(q, p) OBVIOUS
  <2> HIDE DEF p, q
  <2>6. CASE p.type = "page"
    <3>1. p \in [type : {"page"}, frame : Nat \X Offsets, ap : Permissions] BY <2>5, <2>6, PageCases
    <3> QED BY <2>4, <2>6, <3>1 DEF Lowers
  <2>7. CASE p.type # "page" BY <2>4, <2>7 DEF Lowers
  <2> QED BY <2>6, <2>7
<1> QED BY <1>2, <1>3

LEMMA GuestWriteProtectLowers ==
  ASSUME NEW m, MMState(m), NEW pages, NEW t \in Modes, NEW v \in Pages
  PROVE  Lowers(ShadowPage(GuestWriteProtect(m, pages)[t], v), ShadowPage(m[t], v))
<1>1. GuestWriteProtect(m, pages)[t] = WriteProtect(m[t], pages) BY GuestWriteProtectState
<1>2. m[t] \in ShadowTable BY TableOfState
<1> QED BY <1>1, <1>2, WriteProtectLowers

(* The entries of n agree with whatever those of m agree with, but the one  *)
(* of table t for megabyte k.                                               *)
OthersAgree(n, m, t, k, sec) ==
  \A u \in Modes, j \in Megabytes : u # t \/ j # k =>
    \A g : EntryAgrees(m, u, m[u][j], g, j, sec) => EntryAgrees(n, u, n[u][j], g, j, sec)

LEMMA GuestWriteProtectEntry ==
  ASSUME NEW m, MMState(m), NEW pages, NEW t \in Modes, NEW k \in Megabytes, NEW g, NEW sec,
         EntryAgrees(m, t, m[t][k], g, k, sec), NEW n, n = GuestWriteProtect(m, pages)
  PROVE  EntryAgrees(n, t, n[t][k], g, k, sec)
<1> SUFFICES ASSUME n[t][k].type # "fault" PROVE EntryAgrees(n, t, n[t][k], g, k, sec)
  BY DEF EntryAgrees
<1>1. SameRecords(n, m) /\ n[t] = WriteProtect(m[t], pages) /\ m[t] \in ShadowTable /\ MMState(n)
  BY GuestWriteProtectState, TableOfState
<1>8. \A v \in Pages : Lowers(ShadowPage(n[t], v), ShadowPage(m[t], v)) BY GuestWriteProtectLowers
<1> DEFINE e == m[t][k]
           f == n[t][k]
<1>2. /\ e.type # "fault" /\ f.dom = e.dom
      /\ f.type = "section" => f = e
  BY <1>1, WriteProtectEntry
<1>4. ASSUME NEW o \in Offsets PROVE PageAgrees(t, Split(f)[o], GuestPage(g, sec, o))
  <2>1. Lowers(ShadowPage(n[t], PageAt(k, o)), ShadowPage(m[t], PageAt(k, o))) BY <1>8, PageAtPage
  <2>2. ShadowPage(n[t], PageAt(k, o)) = Split(f)[o] /\ ShadowPage(m[t], PageAt(k, o)) = Split(e)[o]
    BY <1>2, PageOfEntry
  <2>3. PageAgrees(t, Split(e)[o], GuestPage(g, sec, o)) BY <1>2 DEF EntryAgrees
  <2> QED BY <2>1, <2>2, <2>3, LoweredAgrees
<1>5. e.type = "table" => f.type = "table"
  <2>1. f \in ShadowEntries BY <1>1, EntryOfState
  <2> QED BY <1>2, <2>1, EntryCases
<1> QED BY <1>1, <1>2, <1>4, <1>5 DEF EntryAgrees, SameRecords

LEMMA GuestWriteProtectAgrees ==
  ASSUME NEW m, MMState(m), NEW pages, NEW row, NEW sec, Agrees(m, row, sec)
  PROVE  Agrees(GuestWriteProtect(m, pages), row, sec)
BY GuestWriteProtectEntry DEF Agrees

(* A first level entry that agrees may replace any other.                   *)
LEMMA PutAgrees ==
  ASSUME NEW m, MMState(m), NEW t \in Modes, NEW k \in Megabytes, NEW e \in ShadowEntries,
         NEW n, n = Put(m, t, k, e), NEW row, NEW sec,
         \A u \in Modes, j \in Megabytes :
           u # t \/ j # k => EntryAgrees(m, u, m[u][j], row[j], j, sec),
         EntryAgrees(m, t, e, row[k], k, sec)
  PROVE  Agrees(n, row, sec)
<1>1. /\ SameRecords(n, m) /\ n[t][k] = e
      /\ \A u \in Modes, j \in Megabytes : u # t \/ j # k => n[u][j] = m[u][j]
  BY SetEntry
<1>2. ASSUME NEW u \in Modes, NEW j \in Megabytes PROVE EntryAgrees(n, u, n[u][j], row[j], j, sec)
  <2>1. CASE u = t /\ j = k BY <1>1, <2>1 DEF EntryAgrees, SameRecords
  <2>2. CASE ~ (u = t /\ j = k)
    <3>1. EntryAgrees(m, u, m[u][j], row[j], j, sec) BY <2>2
    <3> QED BY <1>1, <2>2, <3>1 DEF EntryAgrees, SameRecords
  <2> QED BY <2>1, <2>2
<1> QED BY <1>2 DEF Agrees

-----------------------------------------------------------------------------
(* Mapping keeps the agreement.                                             *)

LEMMA SetPermissionsSets ==
  ASSUME NEW e \in ShadowEntries, e.type # "fault", NEW ap \in Permissions,
         NEW f, f = SetPermissions(e, ap), NEW o \in Offsets, Split(f)[o].type = "page"
  PROVE  Split(f)[o].ap = ap
<1>1. CASE e.type = "section"
  <2>1. e \in [type : {"section"}, mb : Nat, ap : Permissions, dom : Domains \cup {HostDomain}]
    BY <1>1, EntryCases
  <2>2. f = [e EXCEPT !.ap = ap] BY <1>1 DEF SetPermissions
  <2>3. f.type = "section" /\ f.ap = ap BY <2>1, <2>2
  <2> QED BY <2>3 DEF Split
<1>2. CASE e.type = "table"
  <2> DEFINE pg == [x \in Offsets |->
               IF e.page[x].type = "page" THEN [e.page[x] EXCEPT !.ap = ap] ELSE e.page[x]]
  <2>1. e \in [type : {"table"}, dom : Domains \cup {HostDomain}, page : [Offsets -> ShadowPages]]
    BY <1>2, EntryCases
  <2>2. f = [e EXCEPT !.page = pg] BY <1>2 DEF SetPermissions
  <2>3. f.type = "table" /\ f.page = pg
    <3> HIDE DEF pg
    <3> QED BY <2>1, <2>2
  <2>4. Split(f)[o] = pg[o] BY <2>3 DEF Split
  <2>5. e.page[o] \in ShadowPages BY <2>1
  <2>6. CASE e.page[o].type = "page"
    <3>1. e.page[o] \in [type : {"page"}, frame : Nat \X Offsets, ap : Permissions]
      BY <2>5, <2>6, PageCases
    <3>2. pg[o] = [e.page[o] EXCEPT !.ap = ap] BY <2>6
    <3> HIDE DEF pg
    <3> QED BY <2>4, <3>1, <3>2
  <2>7. CASE e.page[o].type # "page" BY <2>4, <2>7
  <2> QED BY <2>6, <2>7
<1> QED BY <1>1, <1>2, EntryCases

LEMMA MapAPBitsEntry ==
  ASSUME NEW m, MMState(m), NEW t \in Modes, NEW k \in Megabytes, m[t][k].type # "fault",
         NEW g \in GuestFirstEntries, g.type = "section", g.ap # "deprecated",
         guestPhysical \in Bases \cup {NoBase}, dacr \in Dacrs, ClientOnly,
         DevicesKept => g.mb \notin DeviceMegabytes,
         NEW n, n = MapAPBitsSection(m, t, k, g), NEW sec,
         SectionPages(m[t][k], g), m[t][k].dom = g.dom
  PROVE  EntryAgrees(n, t, n[t][k], g, k, sec) /\ OthersAgree(n, m, t, k, sec)
<1> DEFINE m1 == Set(m, t, k, g)
           ap == MapAccessPermissionBits(t, g.ap, g.dom)
           e == m[t][k]
           f == m1[t][k]
<1>1. /\ MMState(m1) /\ SameRecords(m1, m)
      /\ f = SetPermissions(e, ap) /\ ap \in Permissions
      /\ \A u \in Modes, j \in Megabytes : u # t \/ j # k => m1[u][j] = m[u][j]
  BY SetState
<1>3. n = GuestWriteProtect(m1, TablesIn(m, k, g)) BY MapAPBitsSectionIs
<1>4. e \in ShadowEntries /\ g.ap \in Permissions /\ g.dom \in Domains
  BY EntryOfState, GuestEntryCases
<1>5. ap = MapAccessPermissionBits(t, g.ap, g.dom) OBVIOUS
<1> HIDE DEF m1, ap
<1>6. /\ f \in ShadowEntries /\ f.type = e.type /\ f.dom = e.dom
      /\ \A o \in Offsets : /\ Split(f)[o].type = Split(e)[o].type
                            /\ Split(f)[o].type = "page" => Split(f)[o].frame = Split(e)[o].frame
  BY <1>1, <1>4, SetPermissionsType
<1>7. ASSUME NEW o \in Offsets PROVE PageAgrees(t, Split(f)[o], GuestPage(g, sec, o))
  <2> DEFINE p == Split(f)[o]
             w == GuestPage(g, sec, o)
  <2> SUFFICES ASSUME p.type = "page" PROVE PageAgrees(t, p, w) BY DEF PageAgrees
  <2>1. w.type = "page" /\ w.frame = PageAt(g.mb, o) /\ w.ap = g.ap BY DEF GuestPage
  <2>2. p.frame = PageAt(g.mb, o) BY <1>6 DEF SectionPages
  <2>3. p.ap = ap BY <1>1, <1>4, SetPermissionsSets
  <2>4. \A write \in BOOLEAN : Granted(p, write) => Permitted(g.ap, t = "priv", write)
    BY <1>4, <1>5, <2>3, MappedPermission
  <2>5. Megabyte(p.frame) = g.mb BY <2>2 DEF Megabyte, PageAt
  <2> QED BY <2>1, <2>2, <2>4, <2>5 DEF PageAgrees
<1>8. EntryAgrees(m1, t, f, g, k, sec)
  <2>1. g.type # "fault" /\ g.type # "table" OBVIOUS
  <2> QED BY <1>6, <1>7, <2>1 DEF EntryAgrees
<1>9. OthersAgree(m1, m, t, k, sec) BY <1>1 DEF OthersAgree, EntryAgrees, SameRecords
<1>10. \A u \in Modes, j \in Megabytes : \A h :
         EntryAgrees(m1, u, m1[u][j], h, j, sec) => EntryAgrees(n, u, n[u][j], h, j, sec)
  BY <1>1, <1>3, GuestWriteProtectEntry
<1> QED BY <1>8, <1>9, <1>10 DEF OthersAgree

(* Records and the places they are at.                                      *)
LEMMA PlacedSame ==
  ASSUME NEW m, NEW n, Range(n.gptInfo) \subseteq Range(m.gptInfo), Placed(m)
  PROVE  Placed(n)
BY DEF Placed

LEMMA ShadowMapSectionAgrees ==
  ASSUME NEW m, MMState(m), NEW t \in Modes, NEW k \in Megabytes,
         NEW g \in GuestFirstEntries, g.type = "section", g.ap # "deprecated",
         guestPhysical \in Bases \cup {NoBase}, dacr \in Dacrs, ClientOnly,
         NEW n, n = ShadowMapSection(m, t, k, g),
         NEW row, NEW sec, Agree(m, row, sec), row[k] = g
  PROVE  Agree(n, row, sec)
<1> SUFFICES ASSUME n.alive PROVE Agrees(n, row, sec) /\ Placed(n) BY DEF Agree
<1>0. MMState(n) /\ n.gptInfo = m.gptInfo /\ m.alive BY ShadowMapSectionType
<1>9. Agrees(m, row, sec) /\ Placed(m) /\ Placed(n) BY <1>0, PlacedSame DEF Agree
<1> DEFINE e == [type |-> "section", mb |-> g.mb, ap |-> "rw_no", dom |-> g.dom]
           m1 == Put(m, t, k, e)
<1>1. /\ e \in ShadowEntries /\ e.type = "section" /\ e.dom = g.dom
      /\ \A o \in Offsets : Split(e)[o].ap = "rw_no" /\ Split(e)[o].frame = PageAt(g.mb, o)
  BY SectionEntry
<1>2. n = m1 \/ (n = MapAPBitsSection(m1, t, k, g) /\ g.mb \notin DeviceMegabytes)
  BY DieState DEF ShadowMapSection
<1> HIDE DEF e
<1>3. /\ MMState(m1) /\ SameRecords(m1, m) /\ m1[t][k] = e
      /\ \A u \in Modes, j \in Megabytes : u # t \/ j # k => m1[u][j] = m[u][j]
  BY <1>1, SetEntry
<1>4. EntryAgrees(m, t, e, row[k], k, sec)
  <2>1. ASSUME NEW o \in Offsets PROVE PageAgrees(t, Split(e)[o], GuestPage(g, sec, o))
    <3>1. ~ Granted(Split(e)[o], TRUE) /\ ~ Granted(Split(e)[o], FALSE) BY <1>1 DEF Granted
    <3> QED BY <1>1, <3>1 DEF PageAgrees, GuestPage
  <2>2. row[k].type # "fault" /\ row[k].type # "table" OBVIOUS
  <2> QED BY <1>1, <2>1, <2>2 DEF EntryAgrees
<1>5. Agrees(m1, row, sec) BY <1>1, <1>4, <1>9, PutAgrees DEF Agrees
<1>6. CASE n = m1 BY <1>5, <1>6, <1>9
<1>7. CASE n = MapAPBitsSection(m1, t, k, g) /\ g.mb \notin DeviceMegabytes
  <2>1. SectionPages(m1[t][k], g) /\ m1[t][k].dom = g.dom /\ m1[t][k].type # "fault"
    BY <1>1, <1>3 DEF SectionPages
  <2> HIDE DEF m1
  <2>2. EntryAgrees(n, t, n[t][k], g, k, sec) /\ OthersAgree(n, m1, t, k, sec)
    BY <1>3, <1>7, <1>9, <2>1, MapAPBitsEntry
  <2>3. Agrees(n, row, sec) BY <1>5, <2>2 DEF Agrees, OthersAgree
  <2> QED BY <1>9, <2>3
<1> QED BY <1>2, <1>6, <1>7

(* A record more.                                                           *)
LEMMA AddPageTableInfoAgrees ==
  ASSUME NEW m, MMState(m), NEW k \in Megabytes, NEW g \in GuestFirstEntries, g.type = "table",
         NEW b \in Bases, g \in FirstEntries[b][k],
         NEW n, n = AddPageTableInfo(m, k, g.table), NEW row, NEW sec
  PROVE  /\ Agrees(m, row, sec) => Agrees(n, row, sec)
         /\ Placed(m) => Placed(n)
         /\ RecordOf(k, g) \in Range(n.gptInfo) /\ Range(m.gptInfo) \subseteq Range(n.gptInfo)
<1>0. g.table \in Tables BY GuestEntryCases
<1>1. /\ \A u \in Modes : n[u] = m[u]
      /\ Range(n.gptInfo) = Range(m.gptInfo) \cup {RecordOf(k, g)}
  BY <1>0, AddPageTableInfoState DEF RecordOf
<1>2. Agrees(m, row, sec) => Agrees(n, row, sec) BY <1>1 DEF Agrees, EntryAgrees
<1>3. RecordOf(k, g).mb = k /\ RecordOf(k, g).table = g.table BY DEF RecordOf
<1>4. Placed(m) => Placed(n)
  <2> SUFFICES ASSUME Placed(m), NEW i \in Range(n.gptInfo)
               PROVE  \E c \in Bases : \E e \in FirstEntries[c][i.mb] :
                        e.type = "table" /\ e.table = i.table
    BY DEF Placed
  <2>1. CASE i \in Range(m.gptInfo) BY <2>1 DEF Placed
  <2>2. CASE i = RecordOf(k, g) BY <1>3, <2>2
  <2> QED BY <1>1, <2>1, <2>2
<1> QED BY <1>1, <1>2, <1>4

LEMMA ShadowMapPageTableAgrees ==
  ASSUME NEW m, MMState(m), NEW t \in Modes, NEW k \in Megabytes,
         NEW g \in GuestFirstEntries, g.type = "table", NEW b \in Bases, g \in FirstEntries[b][k],
         NEW n, n = ShadowMapPageTable(m, t, k, g),
         NEW row, NEW sec, Agree(m, row, sec), row[k] = g
  PROVE  /\ Agree(n, row, sec) /\ n.alive = m.alive
         /\ RecordOf(k, g) \in Range(n.gptInfo) /\ Range(m.gptInfo) \subseteq Range(n.gptInfo)
<1> DEFINE e == [type |-> "table", dom |-> g.dom, page |-> NoPages]
           mp == Put(m, t, k, e)
           m0 == AddPageTableInfo(m, k, g.table)
           m1 == AddPageTableInfo(mp, k, g.table)
           pages == MappedAt(m1, g.table.frame)
<1>0. g.dom \in Domains /\ g.table \in Tables BY GuestEntryCases
<1>1. /\ e \in ShadowEntries /\ e.type = "table" /\ e.dom = g.dom
      /\ \A o \in Offsets : Split(e)[o].type = "fault"
  BY <1>0, TableEntry
<1>2. n = GuestWriteProtect(m1, pages) BY DEF ShadowMapPageTable
<1> HIDE DEF e, pages
<1>3. MMState(mp) /\ SameRecords(mp, m) BY <1>1, SetEntry
<1>4. /\ MMState(m1) /\ m1.alive = m.alive /\ Range(m.gptInfo) \subseteq Range(m1.gptInfo)
      /\ RecordOf(k, g) \in Range(m1.gptInfo)
  <2>1. /\ MMState(m1) /\ m1.alive = mp.alive
        /\ Range(m1.gptInfo) = Range(mp.gptInfo) \cup {RecordOf(k, g)}
    <3> HIDE DEF mp
    <3> QED BY <1>0, <1>3, AddPageTableInfoState DEF RecordOf
  <2> HIDE DEF m1, mp
  <2> QED BY <1>3, <2>1 DEF SameRecords
<1>5. ASSUME m.alive PROVE Agrees(m1, row, sec) /\ Placed(m1)
  <2>1. Agrees(m, row, sec) /\ Placed(m) BY <1>5 DEF Agree
  <2>2. /\ mp[t][k] = e
        /\ \A u \in Modes, j \in Megabytes : u # t \/ j # k => mp[u][j] = m[u][j]
    BY <1>1, SetEntry
  <2>3. Placed(mp) BY <1>3, <2>1 DEF SameRecords, Placed
  <2>4. \A u \in Modes : m1[u] = mp[u]
    <3> HIDE DEF mp
    <3> QED BY <1>0, <1>3, AddPageTableInfoState
  <2>5. Placed(m1)
    <3> HIDE DEF mp
    <3> QED BY <1>3, <2>3, AddPageTableInfoAgrees
  <2> HIDE DEF m1, mp
  <2>6. ASSUME NEW u \in Modes, NEW j \in Megabytes
        PROVE  EntryAgrees(m1, u, m1[u][j], row[j], j, sec)
    <3>1. CASE u = t /\ j = k
      <4>1. m1[u][j] = e BY <2>2, <2>4, <3>1
      <4>2. \A o \in Offsets : PageAgrees(t, Split(e)[o], GuestPage(g, sec, o))
        BY <1>1 DEF PageAgrees
      <4> QED BY <1>1, <1>4, <3>1, <4>1, <4>2 DEF EntryAgrees
    <3>2. CASE ~ (u = t /\ j = k)
      <4>1. m1[u][j] = m[u][j] BY <2>2, <2>4, <3>2
      <4>2. EntryAgrees(m, u, m[u][j], row[j], j, sec) BY <2>1 DEF Agrees
      <4> QED BY <1>4, <4>1, <4>2 DEF EntryAgrees
    <3> QED BY <3>1, <3>2
  <2> QED BY <2>5, <2>6 DEF Agrees
<1> HIDE DEF m1
<1>6. MMState(n) /\ SameRecords(n, m1) BY <1>2, <1>4, GuestWriteProtectState
<1>7. m.alive => Agrees(n, row, sec) BY <1>2, <1>4, <1>5, GuestWriteProtectAgrees
<1>8. m.alive => Placed(n) BY <1>5, <1>6 DEF SameRecords, Placed
<1> QED BY <1>4, <1>6, <1>7, <1>8 DEF SameRecords, Agree

LEMMA EnsureTableAgrees ==
  ASSUME NEW m, MMState(m), NEW t \in Modes, NEW k \in Megabytes,
         NEW g \in GuestFirstEntries, g.type = "table", NEW b \in Bases, g \in FirstEntries[b][k],
         NEW n, n = EnsureTable(m, t, k, g), NEW row, NEW sec, Agree(m, row, sec), row[k] = g
  PROVE  Agree(n, row, sec)
<1>1. m[t][k].type \in {"fault", "section", "table"} BY EntryOfState, EntryCases
<1>2. CASE m[t][k].type = "fault"
  <2>1. n = ShadowMapPageTable(m, t, k, g) BY <1>2 DEF EnsureTable
  <2> QED BY <2>1, ShadowMapPageTableAgrees
<1>3. CASE m[t][k].type = "section"
  <2>1. n = Die(m) BY <1>3 DEF EnsureTable
  <2> QED BY <2>1, DieState DEF Agree
<1>4. CASE m[t][k].type = "table"
  <2> SUFFICES ASSUME n.alive PROVE Agree(n, row, sec) BY DEF Agree
  <2>1. m.alive BY EnsureTableType
  <2>2. EntryAgrees(m, t, m[t][k], g, k, sec) BY <2>1 DEF Agree, Agrees
  <2>3. RecordOf(k, g) \in Range(m.gptInfo) /\ RecordOf(k, g).mb = k
    BY <1>4, <2>2 DEF EntryAgrees, RecordOf
  <2>4. n = m BY <1>4, <2>3 DEF EnsureTable
  <2> QED BY <2>4
<1> QED BY <1>1, <1>2, <1>3, <1>4

LEMMA ShadowMapSmallPageAgrees ==
  ASSUME NEW m, MMState(m), NEW t \in Modes, NEW v \in Pages, m[t][Megabyte(v)].type = "table",
         NEW p \in GuestSecondEntries, p.type = "page", p.ap # "deprecated",
         DevicesKept => Megabyte(p.frame) \notin DeviceMegabytes,
         NEW dom \in Domains, dacr \in Dacrs, ClientOnly,
         NEW n, n = ShadowMapSmallPage(m, t, v, p, dom),
         NEW row, NEW sec, Agree(m, row, sec),
         row[Megabyte(v)].type = "table", sec[row[Megabyte(v)].table][Offset(v)] = p
  PROVE  Agree(n, row, sec)
<1> DEFINE k == Megabyte(v)
           o == Offset(v)
           ap == MapAccessPermissionBits(t, p.ap, dom)
           entry == [type |-> "page", frame |-> p.frame, ap |-> ap]
           old == m[t][k]
           e == PutPage(old, o, entry)
<1> SUFFICES ASSUME n.alive PROVE Agrees(n, row, sec) /\ Placed(n) BY DEF Agree
<1>0. Agrees(m, row, sec) /\ Placed(m) BY ShadowMapSmallPageType DEF Agree
<1>2. k \in Megabytes /\ o \in Offsets BY PagePair
<1>3. old \in ShadowEntries BY <1>2, EntryOfState
<1>4. n = Put(m, t, k, e) BY DieState DEF ShadowMapSmallPage
<1>5. p.frame \in Nat \X Offsets /\ p.ap \in Permissions BY GuestPageCases
<1>6. entry \in ShadowPages BY <1>5, PermissionsMapped DEF ShadowPages, Permissions
<1>7. entry.frame = p.frame /\ entry.type = "page" /\ entry.ap = MapAccessPermissionBits(t, p.ap, dom)
  OBVIOUS
<1> HIDE DEF entry, ap
<1>8. /\ e \in ShadowEntries /\ e.type = "table" /\ e.dom = old.dom
      /\ Split(e)[o] = entry /\ \A x \in Offsets : x # o => Split(e)[x] = Split(old)[x]
  BY <1>2, <1>3, <1>6, PutPageType
<1> HIDE DEF e
<1>9. EntryAgrees(m, t, old, row[k], k, sec) BY <1>0, <1>2 DEF Agrees
<1>10. GuestPage(row[k], sec, o) = p BY DEF GuestPage
<1>11. PageAgrees(t, entry, p)
  <2>1. \A write \in BOOLEAN : Granted(entry, write) => Permitted(p.ap, t = "priv", write)
    BY <1>5, <1>7, MappedPermission
  <2> QED BY <1>7, <2>1 DEF PageAgrees
<1>12. EntryAgrees(m, t, e, row[k], k, sec)
  <2>1. ASSUME NEW x \in Offsets PROVE PageAgrees(t, Split(e)[x], GuestPage(row[k], sec, x))
    <3>1. CASE x = o BY <1>8, <1>10, <1>11, <3>1
    <3>2. CASE x # o BY <1>8, <1>9, <3>2 DEF EntryAgrees
    <3> QED BY <3>1, <3>2
  <2> QED BY <1>8, <1>9, <2>1 DEF EntryAgrees
<1>13. Agrees(n, row, sec)
  <2>1. \A u \in Modes, j \in Megabytes : EntryAgrees(m, u, m[u][j], row[j], j, sec)
    BY <1>0 DEF Agrees
  <2> HIDE DEF k, old
  <2> QED BY <1>2, <1>4, <1>8, <1>12, <2>1, PutAgrees
<1>14. SameRecords(n, m) BY <1>2, <1>4, <1>8, SetEntry
<1> QED BY <1>0, <1>13, <1>14 DEF SameRecords, Placed

(* What the proofs of agreement assume of the guest's second level tables.  *)
LEMMA GuestEntryOK ==
  ASSUME GuestTypeOK, guestPhysical \in Bases, NEW k \in Megabytes,
         NEW g, g = first[guestPhysical][k]
  PROVE  /\ g \in GuestFirstEntries /\ g \in FirstEntries[guestPhysical][k] /\ Row[k] = g
         /\ NoDeprecated /\ g.type = "section" => g.ap # "deprecated"
BY DEF GuestTypeOK, Row, NoDeprecated

LEMMA ShadowMapAgrees ==
  ASSUME NEW m, MMState(m), NEW t \in Modes, NEW v \in Pages, GuestTypeOK, SecondOK(second),
         dacr \in Dacrs, ClientOnly, NoDeprecated,
         NEW n, n = ShadowMap(m, t, v), NEW sec, Agree(m, Row, sec),
         sec = second \/ Row[Megabyte(v)].type = "section"
  PROVE  Agree(n, Row, sec)
<1> DEFINE k == Megabyte(v)
           g == first[guestPhysical][k]
           p == second[g.table][Offset(v)]
           m1 == EnsureTable(m, t, k, g)
<1>1. k \in Megabytes /\ Offset(v) \in Offsets BY PagePair
<1>2. CASE guestPhysical \notin Bases BY <1>2, DieState DEF ShadowMap, Agree
<1>3. CASE guestPhysical \in Bases
  <2>1. /\ g \in GuestFirstEntries /\ g \in FirstEntries[guestPhysical][k] /\ Row[k] = g
        /\ g.type = "section" => g.ap # "deprecated"
    BY <1>1, <1>3, GuestEntryOK
  <2>2. CASE g.type = "section"
    <3>1. n = ShadowMapSection(m, t, k, g) BY <1>3, <2>2 DEF ShadowMap
    <3> QED BY <1>1, <1>3, <2>1, <2>2, <3>1, ShadowMapSectionAgrees
  <2>3. CASE g.type = "table"
    <3>1. MMState(m1) /\ (m1.alive => m.alive /\ m1[t][k].type = "table")
      BY <1>1, <2>1, <2>3, EnsureTableType
    <3>2. g.table \in Tables /\ g.dom \in Domains BY <2>1, <2>3, GuestEntryCases
    <3>3. p \in GuestSecondEntries /\ p \in SecondEntries[g.table][Offset(v)]
      BY <1>1, <3>2 DEF SecondOK
    <3>4. n = IF m1.alive /\ p.type = "page" THEN ShadowMapSmallPage(m1, t, v, p, g.dom) ELSE m1
      BY <1>3, <2>3 DEF ShadowMap
    <3>5. Agree(m1, Row, sec) BY <1>1, <1>3, <2>1, <2>3, EnsureTableAgrees
    <3>6. p.type = "page" => /\ p.ap # "deprecated"
                             /\ DevicesKept => Megabyte(p.frame) \notin DeviceMegabytes
      BY <1>1, <3>2, <3>3 DEF NoDeprecated, DevicesKept
    <3>7. /\ Row[Megabyte(v)].type = "table"
          /\ sec[Row[Megabyte(v)].table][Offset(v)] = p
      BY <2>1, <2>3
    <3> HIDE DEF m1, p
    <3> QED BY <3>1, <3>2, <3>3, <3>4, <3>5, <3>6, <3>7, ShadowMapSmallPageAgrees
  <2>4. CASE g.type \notin {"section", "table"}
    <3>1. n = m BY <1>3, <2>4 DEF ShadowMap
    <3> QED BY <3>1
  <2> QED BY <2>2, <2>3, <2>4
<1> QED BY <1>2, <1>3

-----------------------------------------------------------------------------
(* Unmapping keeps the agreement.                                           *)

LEMMA UnmappedAgrees ==
  ASSUME NEW m, MMState(m), NEW t \in Modes, NEW k \in Megabytes, NEW n, Unmapped(n, m, t, k),
         NEW row, NEW sec, Agree(m, row, sec)
  PROVE  Agree(n, row, sec)
<1> SUFFICES ASSUME n.alive PROVE Agrees(n, row, sec) /\ Placed(n) BY DEF Agree
<1>1. Agrees(m, row, sec) /\ Placed(m) BY DEF Agree, Unmapped
<1>2. /\ n.gptInfo = m.gptInfo
      /\ \A u \in Modes, j \in Megabytes : u # t \/ j # k => n[u][j] = m[u][j]
      /\ \A v \in Pages : ShadowPage(n[t], v) = ShadowPage(m[t], v) \/ ShadowPage(n[t], v) = Fault
      /\ n[t][k].type \in {m[t][k].type, "fault"}
      /\ n[t][k].type # "fault" => n[t][k].dom = m[t][k].dom
  BY DEF Unmapped
<1>3. ASSUME NEW u \in Modes, NEW j \in Megabytes PROVE EntryAgrees(n, u, n[u][j], row[j], j, sec)
  <2> DEFINE e == m[u][j]
             f == n[u][j]
  <2>1. EntryAgrees(m, u, e, row[j], j, sec) BY <1>1 DEF Agrees
  <2>2. CASE u # t \/ j # k BY <1>2, <2>1, <2>2 DEF EntryAgrees
  <2>3. CASE u = t /\ j = k
    <3> SUFFICES ASSUME f.type # "fault" PROVE EntryAgrees(n, u, f, row[j], j, sec) BY DEF EntryAgrees
    <3>1. f.type = e.type /\ f.dom = e.dom /\ e.type # "fault" BY <1>2, <2>3
    <3>2. ASSUME NEW o \in Offsets PROVE PageAgrees(u, Split(f)[o], GuestPage(row[j], sec, o))
      <4>1. ShadowPage(n[u], PageAt(j, o)) = Split(f)[o] /\ ShadowPage(m[u], PageAt(j, o)) = Split(e)[o]
        BY <3>1, PageOfEntry
      <4>2. Split(f)[o] = Split(e)[o] \/ Split(f)[o] = Fault BY <1>2, <2>3, <4>1, PageAtPage
      <4>3. PageAgrees(u, Split(e)[o], GuestPage(row[j], sec, o)) BY <2>1, <3>1 DEF EntryAgrees
      <4> QED BY <4>2, <4>3, FaultIsEntry DEF PageAgrees
    <3> QED BY <1>2, <2>1, <3>1, <3>2 DEF EntryAgrees
  <2> QED BY <2>2, <2>3
<1> QED BY <1>1, <1>2, <1>3 DEF Agrees, Placed

(* A change of the guest's entry of a megabyte, where the shadow tables     *)
(* agree with the new one.                                                  *)
LEMMA RowChangeAgrees ==
  ASSUME NEW m, NEW k \in Megabytes, NEW row \in [Megabytes -> GuestFirstEntries], NEW sec,
         Agree(m, row, sec), NEW new,
         m.alive => \A u \in Modes : EntryAgrees(m, u, m[u][k], new, k, sec)
  PROVE  Agree(m, [row EXCEPT ![k] = new], sec)
<1> SUFFICES ASSUME m.alive PROVE Agrees(m, [row EXCEPT ![k] = new], sec) /\ Placed(m) BY DEF Agree
<1>1. Agrees(m, row, sec) /\ Placed(m) BY DEF Agree
<1>2. [row EXCEPT ![k] = new][k] = new /\ \A j \in Megabytes : j # k => [row EXCEPT ![k] = new][j] = row[j]
  OBVIOUS
<1> QED BY <1>1, <1>2 DEF Agrees

(* Both shadow tables lose a megabyte whose guest entry changes.            *)
LEMMA UnmappedBothAgrees ==
  ASSUME NEW m, MMState(m), NEW k \in Megabytes, NEW row \in [Megabytes -> GuestFirstEntries],
         NEW sec, Agree(m, row, sec), NEW new,
         NEW m1, MMState(m1), m1.alive = m.alive, \A u \in Modes : m1[u] = m[u],
         Range(m1.gptInfo) \subseteq Range(m.gptInfo),
         \A i \in Range(m.gptInfo) : i.mb # k => i \in Range(m1.gptInfo),
         NEW m2, Unmapped(m2, m1, "priv", k), m2.alive => m2["priv"][k].type = "fault",
         NEW n, Unmapped(n, m2, "user", k), n.alive => n["user"][k].type = "fault"
  PROVE  Agree(n, [row EXCEPT ![k] = new], sec)
<1> SUFFICES ASSUME n.alive PROVE Agrees(n, [row EXCEPT ![k] = new], sec) /\ Placed(n)
  BY DEF Agree
<1>1. m2.alive /\ m1.alive /\ m.alive /\ n.gptInfo = m1.gptInfo BY DEF Unmapped
<1>2. Agrees(m, row, sec) /\ Placed(m) BY <1>1 DEF Agree
<1>3. n["user"][k].type = "fault" /\ n["priv"][k].type = "fault"
  BY <1>1 DEF Unmapped, Modes
<1>4. ASSUME NEW u \in Modes, NEW j \in Megabytes
      PROVE  EntryAgrees(n, u, n[u][j], [row EXCEPT ![k] = new][j], j, sec)
  <2>1. CASE j = k BY <1>3, <2>1 DEF EntryAgrees, Modes
  <2>2. CASE j # k
    <3>1. n[u][j] = m[u][j] BY <1>1, <2>2 DEF Unmapped, Modes
    <3>2. EntryAgrees(m, u, m[u][j], row[j], j, sec) BY <1>2 DEF Agrees
    <3>3. [row EXCEPT ![k] = new][j] = row[j] BY <2>2
    <3>4. RecordOf(j, row[j]) \in Range(m.gptInfo) => RecordOf(j, row[j]) \in Range(n.gptInfo)
      BY <1>1, <2>2 DEF RecordOf
    <3> QED BY <3>1, <3>2, <3>3, <3>4 DEF EntryAgrees
  <2> QED BY <2>1, <2>2
<1> QED BY <1>1, <1>2, <1>4, PlacedSame DEF Agrees

-----------------------------------------------------------------------------
(* Edits of the guest's first level table keep the agreement.               *)

(* Both shadow tables map what they mapped.                                 *)
SamePages(n, m) ==
  \A u \in Modes, v \in Pages : ShadowPage(n[u], v).type = ShadowPage(m[u], v).type

LEMMA EditAttributesAgrees ==
  ASSUME NEW m, MMState(m), NEW t \in Modes, NEW k \in Megabytes,
         guestPhysical \in Bases \cup {NoBase}, dacr \in Dacrs, ClientOnly,
         NEW old \in GuestFirstEntries, NEW new \in GuestFirstEntries,
         old.type = "section", new.type = "section", new.ap # "deprecated",
         DevicesKept /\ old.mb = new.mb /\ old.mb \in DeviceMegabytes => old.ap = new.ap,
         NEW n, n = EditAttributesSection(m, t, k, old, new), n.alive,
         NEW sec, EntryAgrees(m, t, m[t][k], old, k, sec)
  PROVE  /\ EntryAgrees(n, t, n[t][k], new, k, sec) /\ OthersAgree(n, m, t, k, sec)
         /\ SamePages(n, m)
<1> DEFINE m1 == SetDomain(m, t, k, old, new)
           e == m[t][k]
<1>1. CASE e.type = "fault"
  <2>1. n = m BY <1>1 DEF EditAttributesSection
  <2> QED BY <1>1, <2>1 DEF EntryAgrees, OthersAgree, SamePages
<1>2. CASE e.type # "fault"
  <2>1. /\ MMState(m1) /\ SameRecords(m1, m) /\ m1[t][k].type = e.type
        /\ Split(m1[t][k]) = Split(e)
        /\ \A u \in Modes, j \in Megabytes : u # t \/ j # k => m1[u][j] = m[u][j]
    BY <1>2, SetDomainState
  <2>2. old.mb = new.mb BY <1>2, DieState DEF EditAttributesSection
  <2>3. n = IF old.ap = new.ap THEN m1 ELSE MapAPBitsSection(m1, t, k, new)
    BY <1>2, <2>2, EditAttributesIs
  <2>4. e.dom = old.dom /\ \A o \in Offsets : PageAgrees(t, Split(e)[o], GuestPage(old, sec, o))
    BY <1>2 DEF EntryAgrees
  <2>5. m1[t][k].dom = new.dom
    <3>1. CASE old.dom = new.dom BY <2>4, <3>1 DEF SetDomain
    <3>2. CASE old.dom # new.dom
      <4>1. new.dom \in Domains BY GuestEntryCases
      <4> DEFINE f == [e EXCEPT !.dom = new.dom]
      <4>2. f \in ShadowEntries /\ f.dom = new.dom BY <1>2, <4>1, EntryOfState, DomainEntry
      <4>3. m1 = Put(m, t, k, f) BY <3>2 DEF SetDomain
      <4> HIDE DEF f, m1
      <4>4. m1[t][k] = f BY <4>2, <4>3, SetEntry
      <4> QED BY <4>2, <4>4
    <3> QED BY <3>1, <3>2
  <2> HIDE DEF m1
  <2>6. OthersAgree(m1, m, t, k, sec) BY <2>1 DEF OthersAgree, EntryAgrees, SameRecords
  <2>7. SamePages(m1, m)
    <3> SUFFICES ASSUME NEW u \in Modes, NEW v \in Pages
                 PROVE  ShadowPage(m1[u], v).type = ShadowPage(m[u], v).type
      BY DEF SamePages
    <3> QED BY <2>1, PagePair DEF ShadowPage
  <2>8. CASE old.ap = new.ap
    <3>1. \A o \in Offsets : GuestPage(new, sec, o) = GuestPage(old, sec, o)
      BY <2>2, <2>8 DEF GuestPage
    <3>2. EntryAgrees(m1, t, m1[t][k], new, k, sec)
      BY <2>1, <2>4, <2>5, <3>1 DEF EntryAgrees
    <3> QED BY <2>3, <2>6, <2>7, <2>8, <3>2
  <2>9. CASE old.ap # new.ap
    <3>1. SectionPages(m1[t][k], new)
      <4> SUFFICES ASSUME NEW o \in Offsets, Split(e)[o].type = "page"
                   PROVE  Split(e)[o].frame = PageAt(new.mb, o)
        BY <2>1 DEF SectionPages
      <4>1. PageAgrees(t, Split(e)[o], GuestPage(old, sec, o)) BY <2>4
      <4> QED BY <2>2, <4>1 DEF PageAgrees, GuestPage
    <3>2. EntryAgrees(n, t, n[t][k], new, k, sec) /\ OthersAgree(n, m1, t, k, sec)
      BY <1>2, <2>1, <2>2, <2>3, <2>5, <2>9, <3>1, MapAPBitsEntry
    <3>3. OthersAgree(n, m, t, k, sec) BY <2>6, <3>2 DEF OthersAgree
    <3>4. SamePages(n, m1)
      <4> DEFINE m2 == Set(m1, t, k, new)
                 ap == MapAccessPermissionBits(t, new.ap, new.dom)
      <4>1. /\ MMState(m2) /\ m2[t][k] = SetPermissions(m1[t][k], ap) /\ ap \in Permissions
            /\ \A u \in Modes, j \in Megabytes : u # t \/ j # k => m2[u][j] = m1[u][j]
        <5>1. MMState(m1) /\ m1[t][k].type # "fault" BY <1>2, <2>1
        <5> HIDE DEF e
        <5> QED BY <5>1, SetState
      <4>2. n = GuestWriteProtect(m2, TablesIn(m1, k, new)) BY <2>3, <2>9, MapAPBitsSectionIs
      <4> HIDE DEF m2, ap
      <4>3. m1[t][k] \in ShadowEntries BY <2>1, EntryOfState
      <4>4. /\ m2[t][k].type = m1[t][k].type
            /\ \A o \in Offsets : Split(m2[t][k])[o].type = Split(m1[t][k])[o].type
        BY <1>2, <2>1, <4>1, <4>3, SetPermissionsType
      <4> SUFFICES ASSUME NEW u \in Modes, NEW v \in Pages
                   PROVE  ShadowPage(n[u], v).type = ShadowPage(m1[u], v).type
        BY DEF SamePages
      <4>5. ShadowPage(n[u], v).type = ShadowPage(m2[u], v).type
        BY <4>1, <4>2, GuestWriteProtectLowers DEF Lowers
      <4>6. ShadowPage(m2[u], v).type = ShadowPage(m1[u], v).type
        BY <4>1, <4>4, PagePair DEF ShadowPage
      <4> QED BY <4>5, <4>6
    <3> QED BY <2>7, <3>2, <3>3, <3>4 DEF SamePages
  <2> QED BY <2>8, <2>9
<1> QED BY <1>1, <1>2

(* The first level table with one entry changed.                            *)
SetEntryOf(row, k, new) == [row EXCEPT ![k] = new]

(* The store after an edit finds its page still mapped.                     *)
Stored(n, v, row, sec) ==
  Agree(StoreValue(n, v), row, sec) /\ (n.alive => StoreValue(n, v) = n)

(* A store to a page of the guest's first level table, with the edit it     *)
(* makes.                                                                   *)
LEMMA EditFirstAgrees ==
  ASSUME NEW m, MMState(m), NEW v \in Pages, NEW k \in Megabytes,
         GuestTypeOK, guestPhysical \in Bases, NEW new \in FirstEntries[guestPhysical][k],
         NEW n, n = EditFirst(m, v, k, new), NEW row, row = Row,
         HomeStaysMapped, ClientOnly, NoDeprecated, Safe(m, Row), NEW sec, Agree(m, row, sec),
         ShadowPage(m[shadowActive], v).type = "page",
         ShadowPage(m[shadowActive], v).frame = guestPhysical,
         dacr \in Dacrs, MayAccess(Walk(guestPhysical, v), privileged, TRUE)
  PROVE  Stored(n, v, SetEntryOf(row, k, new), sec)
<1> USE DEF SetEntryOf, Stored
<1> DEFINE old == first[guestPhysical][k]
           act == shadowActive
           m1 == RemovePageTableInfo(m, v, k)
           m2 == ShadowUnmapPageTable(m1, "priv", k)
           m3 == ShadowUnmapSection(m, "priv", k, old)
           m4 == EditAttributesSection(m, "priv", k, old, new)
           row2 == SetEntryOf(row, k, new)
<1>0. /\ "priv" \in Modes /\ "user" \in Modes /\ act \in Modes /\ guestPhysical \in Bases \cup {NoBase}
      /\ row = first[guestPhysical] /\ row[k] = old /\ row \in [Megabytes -> GuestFirstEntries]
      /\ new \in GuestFirstEntries /\ old \in FirstEntries[guestPhysical][k]
      /\ Megabyte(v) \in Megabytes /\ old \in GuestFirstEntries
  BY RowType, GuestAssumption, PagePair DEF Modes, GuestTypeOK, shadowActive, ActiveIn
<1>1. ASSUME m.alive, CanLocate(m, v), k = Megabyte(v)
      PROVE  old.type = "section" /\ new.type # "fault"
  <2>1. row[k].type = "section" BY <1>0, <1>1 DEF CanLocate
  <2>2. EntryFollows(m, m[act][k], row[k], k) BY <1>0, <1>1 DEF Safe, Follows
  <2>3. m[act][k].type # "fault" BY <1>1, FaultIsEntry DEF ShadowPage
  <2>4. SectionPages(m[act][k], row[k]) BY <2>1, <2>2, <2>3 DEF EntryFollows
  <2>5. ShadowPage(m[act], v) = Split(m[act][k])[Offset(v)] BY <1>1, <2>3 DEF ShadowPage
  <2>6. guestPhysical = PageAt(row[k].mb, Offset(v)) BY <2>4, <2>5, PagePair DEF SectionPages
  <2>7. row[k].mb = Megabyte(guestPhysical) BY <2>6 DEF PageAt, Megabyte
  <2>8. MayBeWritten(row[k]) BY <1>0, <1>1, <2>1, AccessWrites
  <2> QED BY <1>0, <2>1, <2>7, <2>8 DEF HomeStaysMapped
<1>2. ASSUME ~ n.alive PROVE Agree(StoreValue(n, v), row2, sec)
  BY <1>2, StoreStays DEF Agree
<1>3. CASE n = m /\ (old = new \/ old.type = "fault")
  <2>1. StoreValue(n, v) = m BY <1>3, StoreStays
  <2>2. CASE old = new
    <3>1. row2 = row BY <1>0, <2>2
    <3> QED BY <1>3, <2>1, <3>1
  <2>3. CASE old.type = "fault"
    <3>1. ASSUME m.alive, NEW u \in Modes PROVE EntryAgrees(m, u, m[u][k], new, k, sec)
      <4>1. EntryAgrees(m, u, m[u][k], row[k], k, sec) BY <3>1 DEF Agree, Agrees
      <4> QED BY <1>0, <2>3, <4>1 DEF EntryAgrees
    <3> QED BY <1>0, <1>3, <2>1, <3>1, RowChangeAgrees
  <2> QED BY <1>3, <2>2, <2>3
<1>4. CASE n = Die(m) BY <1>2, <1>4, DieState
<1>5. CASE /\ CanLocate(m, v) /\ old.type = "table" /\ new.type = "fault"
           /\ n = ShadowUnmapPageTable(m2, "user", k)
  <2> SUFFICES ASSUME n.alive PROVE Agree(StoreValue(n, v), row2, sec) /\ StoreValue(n, v) = n BY <1>2
  <2>1. /\ MMState(m1) /\ m1.alive = m.alive /\ \A u \in Modes : m1[u] = m[u]
        /\ Range(m1.gptInfo) \subseteq Range(m.gptInfo)
        /\ \A i \in Range(m.gptInfo) : i.mb # k => i \in Range(m1.gptInfo)
    BY RemoveRecordState
  <2> HIDE DEF m1
  <2>2. Unmapped(m2, m1, "priv", k) /\ (m2.alive => m2["priv"][k].type = "fault")
    BY <1>0, <2>1, UnmapPageTableUnmaps
  <2> HIDE DEF m2
  <2>9. MMState(m2) BY <2>2 DEF Unmapped
  <2>3. Unmapped(n, m2, "user", k) /\ (n.alive => n["user"][k].type = "fault")
    BY <1>0, <1>5, <2>9, UnmapPageTableUnmaps
  <2>4. m.alive BY <2>1, <2>2, <2>3 DEF Unmapped
  <2>5. Megabyte(v) # k BY <1>1, <1>5, <2>4
  <2>6. ShadowPage(n[act], v) = ShadowPage(m[act], v)
    BY <1>0, <2>1, <2>2, <2>3, <2>5, UnmappedElsewhere
  <2>7. StoreValue(n, v) = n BY <2>6, StoreStays
  <2>8. Agree(n, row2, sec)
    <3>1. row \in [Megabytes -> GuestFirstEntries] BY <1>0
    <3> HIDE DEF old, act
    <3> QED BY <2>1, <2>2, <2>3, <2>9, <3>1, UnmappedBothAgrees
  <2> QED BY <2>7, <2>8
<1>6. CASE /\ CanLocate(m, v) /\ old.type = "section" /\ new.type = "fault"
           /\ n = ShadowUnmapSection(m3, "user", k, old)
  <2> SUFFICES ASSUME n.alive PROVE Agree(StoreValue(n, v), row2, sec) /\ StoreValue(n, v) = n BY <1>2
  <2>2. Unmapped(m3, m, "priv", k) /\ (m3.alive => m3["priv"][k].type = "fault")
    BY <1>0, UnmapSectionUnmaps
  <2> HIDE DEF m3
  <2>9. MMState(m3) BY <2>2 DEF Unmapped
  <2> HIDE DEF old
  <2>3. Unmapped(n, m3, "user", k) /\ (n.alive => n["user"][k].type = "fault")
    BY <1>0, <1>6, <2>9, UnmapSectionUnmaps
  <2>4. m.alive BY <2>2, <2>3 DEF Unmapped
  <2>5. Megabyte(v) # k BY <1>1, <1>6, <2>4
  <2>6. ShadowPage(n[act], v) = ShadowPage(m[act], v)
    BY <1>0, <2>2, <2>3, <2>5, UnmappedElsewhere
  <2>7. StoreValue(n, v) = n BY <2>6, StoreStays
  <2> QED BY <1>0, <2>2, <2>3, <2>7, UnmappedBothAgrees
<1>7. CASE /\ CanLocate(m, v) /\ old.type = "section" /\ new.type = "section"
           /\ n = EditAttributesSection(m4, "user", k, old, new)
  <2> SUFFICES ASSUME n.alive PROVE Agree(StoreValue(n, v), row2, sec) /\ StoreValue(n, v) = n BY <1>2
  <2>1. MMState(m4) /\ (m4.alive => m.alive) BY <1>0, <1>7, EditAttributesType
  <2>2. MMState(n) /\ (n.alive => m4.alive) BY <1>0, <1>7, <2>1, EditAttributesType
  <2>3. m4.gptInfo = m.gptInfo /\ n.gptInfo = m4.gptInfo
    BY <1>0, <1>7, <2>1, EditAttributesType
  <2>4. new.ap # "deprecated" BY <1>7 DEF NoDeprecated
  <2>5. DevicesKept /\ old.mb = new.mb /\ old.mb \in DeviceMegabytes => old.ap = new.ap
    BY <1>0, <1>7 DEF DevicesKept
  <2>6. Agrees(m, row, sec) /\ Placed(m) BY <2>1, <2>2 DEF Agree
  <2> HIDE DEF old
  <2>7. /\ EntryAgrees(m4, "priv", m4["priv"][k], new, k, sec)
        /\ OthersAgree(m4, m, "priv", k, sec) /\ SamePages(m4, m)
    <3>1. EntryAgrees(m, "priv", m["priv"][k], old, k, sec) BY <1>0, <2>6 DEF Agrees
    <3>2. m4 = EditAttributesSection(m, "priv", k, old, new) /\ m4.alive BY <2>2
    <3> HIDE DEF m4
    <3>3. /\ old \in GuestFirstEntries /\ new \in GuestFirstEntries /\ "priv" \in Modes
          /\ old.type = "section" /\ new.type = "section"
          /\ guestPhysical \in Bases \cup {NoBase}
      BY <1>0, <1>7
    <3> QED BY <2>4, <2>5, <3>1, <3>2, <3>3, EditAttributesAgrees
  <2> HIDE DEF m4
  <2>8. EntryAgrees(m4, "user", m4["user"][k], old, k, sec)
    <3>1. EntryAgrees(m, "user", m["user"][k], old, k, sec) BY <1>0, <2>6 DEF Agrees
    <3> QED BY <1>0, <2>7, <3>1 DEF OthersAgree
  <2>9. /\ EntryAgrees(n, "user", n["user"][k], new, k, sec)
        /\ OthersAgree(n, m4, "user", k, sec) /\ SamePages(n, m4)
    BY <1>0, <1>7, <2>1, <2>4, <2>5, <2>8, EditAttributesAgrees
  <2>10. EntryAgrees(n, "priv", n["priv"][k], new, k, sec)
    BY <1>0, <2>7, <2>9 DEF OthersAgree
  <2>11. ASSUME NEW u \in Modes, NEW j \in Megabytes PROVE EntryAgrees(n, u, n[u][j], row2[j], j, sec)
    <3>1. CASE j = k BY <1>0, <2>9, <2>10, <3>1 DEF Modes
    <3>2. CASE j # k
      <4>1. EntryAgrees(m, u, m[u][j], row[j], j, sec) BY <2>6 DEF Agrees
      <4>2. EntryAgrees(m4, u, m4[u][j], row[j], j, sec) BY <2>7, <3>2, <4>1 DEF OthersAgree
      <4>3. EntryAgrees(n, u, n[u][j], row[j], j, sec) BY <2>9, <3>2, <4>2 DEF OthersAgree
      <4> QED BY <1>0, <3>2, <4>3
    <3> QED BY <3>1, <3>2
  <2>12. Placed(n) BY <2>3, <2>6 DEF Placed
  <2>13. StoreValue(n, v) = n
    <3>1. ShadowPage(n[act], v).type = "page" BY <1>0, <2>7, <2>9 DEF SamePages
    <3> QED BY <3>1, StoreStays
  <2> HIDE DEF row2
  <2> QED BY <2>11, <2>12, <2>13 DEF Agree, Agrees
<1> QED BY <1>3, <1>4, <1>5, <1>6, <1>7, EditFirstCases, DieState, StoreStays

-----------------------------------------------------------------------------
(* Edits of a second level table keep the agreement.                        *)

LEMMA LeastNatural ==
  ASSUME NEW S \in SUBSET Nat, S # {}
  PROVE  \E n \in S : \A k \in S : n <= k
<1> DEFINE R == OpToRel(<, Nat)
<1>1. IsWellFoundedOn(R, Nat) BY NatLessThanWellFounded
<1>2. \E x \in S : \A y \in S : ~ (<<y, x>> \in R)
  <2> HIDE DEF R
  <2> QED BY <1>1, WFMin
<1>3. \A x, y \in Nat : <<y, x>> \notin R => x <= y BY DEF OpToRel
<1> QED BY <1>2, <1>3

(* The records of a table are found.                                        *)
LEMMA RecordsFound ==
  ASSUME NEW m, MMState(m), NEW t, NEW i \in Range(m.gptInfo), i.table = t
  PROVE  Earliest({x \in DOMAIN m.gptInfo : m.gptInfo[x].table = t}) # {}
<1> DEFINE recs == {x \in DOMAIN m.gptInfo : m.gptInfo[x].table = t}
<1>1. PICK x \in DOMAIN m.gptInfo : m.gptInfo[x] = i BY DEF Range
<1>2. m.gptInfo \in Seq(Record) BY DEF MMState
<1>3. DOMAIN m.gptInfo \subseteq Nat BY <1>2
<1>4. recs # {} /\ recs \in SUBSET Nat BY <1>1, <1>3
<1> HIDE DEF recs
<1>5. \E n \in recs : \A k \in recs : n <= k BY <1>4, LeastNatural
<1>6. Earliest(recs) # {} BY <1>5 DEF Earliest
<1> QED BY <1>6 DEF recs

(* A change of one entry of a second level table, where the shadow tables   *)
(* agree with the new one.                                                  *)
LEMMA SecondChangeAgrees ==
  ASSUME NEW n, NEW row, NEW sec \in [Tables -> [Offsets -> GuestSecondEntries]],
         \A j \in Megabytes : row[j].type = "table" => row[j].table \in Tables,
         Agree(n, row, sec), NEW t \in Tables, NEW o \in Offsets, NEW new \in GuestSecondEntries,
         \A u \in Modes, j \in Megabytes :
           /\ n.alive /\ n[u][j].type # "fault" /\ row[j].type = "table" /\ row[j].table = t
           => PageAgrees(u, Split(n[u][j])[o], IF new.type = "page" THEN new ELSE Fault)
  PROVE  Agree(n, row, [sec EXCEPT ![t][o] = new])
<1> DEFINE sec2 == [sec EXCEPT ![t][o] = new]
<1> SUFFICES ASSUME n.alive, NEW u \in Modes, NEW j \in Megabytes
             PROVE  EntryAgrees(n, u, n[u][j], row[j], j, sec2)
  BY DEF Agree, Agrees
<1>1. EntryAgrees(n, u, n[u][j], row[j], j, sec) BY DEF Agree, Agrees
<1>2. \A x \in Tables, y \in Offsets : sec2[x][y] = IF x = t /\ y = o THEN new ELSE sec[x][y]
  OBVIOUS
<1> HIDE DEF sec2
<1> SUFFICES ASSUME n[u][j].type # "fault", NEW y \in Offsets
             PROVE  PageAgrees(u, Split(n[u][j])[y], GuestPage(row[j], sec2, y))
  BY <1>1 DEF EntryAgrees
<1>3. PageAgrees(u, Split(n[u][j])[y], GuestPage(row[j], sec, y)) BY <1>1 DEF EntryAgrees
<1>4. CASE row[j].type = "table" /\ row[j].table = t /\ y = o
  <2>1. GuestPage(row[j], sec2, y) = IF new.type = "page" THEN new ELSE Fault
    BY <1>2, <1>4 DEF GuestPage
  <2> QED BY <1>4, <2>1
<1>5. CASE ~ (row[j].type = "table" /\ row[j].table = t /\ y = o)
  <2>1. GuestPage(row[j], sec2, y) = GuestPage(row[j], sec, y) BY <1>2, <1>5 DEF GuestPage
  <2> QED BY <1>3, <2>1
<1> QED BY <1>4, <1>5

(* A small page that both shadow tables lose.                               *)
LEMMA UnmapSmallPageCuts ==
  ASSUME NEW m, MMState(m), NEW t \in Modes, NEW v \in Pages, NEW frame,
         NEW n, n = ShadowUnmapSmallPage(m, t, v, frame), n.alive
  PROVE  ShadowPage(n[t], v).type = "fault"
<1> DEFINE k == Megabyte(v)
           e == m[t][k]
           f == PutPage(e, Offset(v), Fault)
           c == ClearTranslations(Put(m, t, k, f), {v})
<1>0. k \in Megabytes /\ Offset(v) \in Offsets /\ e \in ShadowEntries BY PagePair, EntryOfState
<1>1. CASE e.type = "table"
  <2>1. CASE e.page[Offset(v)].type = "fault"
    <3>1. n = m BY <1>1, <2>1 DEF ShadowUnmapSmallPage
    <3>2. ShadowPage(m[t], v) = e.page[Offset(v)] BY <1>1 DEF ShadowPage, Split
    <3> QED BY <2>1, <3>1, <3>2
  <2>2. CASE e.page[Offset(v)].type # "fault"
    <3>1. n = c BY <1>1, <2>2, DieState DEF ShadowUnmapSmallPage
    <3>2. f \in ShadowEntries /\ f.type = "table" /\ Split(f)[Offset(v)] = Fault
      BY <1>0, <1>1, FaultIsEntry, PutPageType
    <3> HIDE DEF f
    <3> DEFINE p == Put(m, t, k, f)
    <3>3. MMState(p) /\ p[t][k] = f BY <1>0, <3>2, SetEntry
    <3> HIDE DEF p
    <3>4. n[t] = p[t] BY <3>1, <3>3, ClearState DEF p
    <3> QED BY <3>2, <3>3, <3>4, FaultIsEntry DEF ShadowPage
  <2> QED BY <2>1, <2>2
<1>2. CASE e.type = "fault"
  <2>1. n = m BY <1>2 DEF ShadowUnmapSmallPage
  <2> QED BY <1>2, <2>1, FaultIsEntry DEF ShadowPage
<1>3. CASE e.type = "section"
  <2>1. n = Die(m) BY <1>3 DEF ShadowUnmapSmallPage
  <2> QED BY <2>1, DieState
<1> QED BY <1>0, <1>1, <1>2, <1>3, EntryCases

(* The second level tables with one entry changed.                          *)
SetPage(sec, t, o, new) == [sec EXCEPT ![t][o] = new]

LEMMA EditSecondAgrees ==
  ASSUME NEW m, MMState(m), NEW v, NEW t \in Tables, NEW o \in Offsets,
         NEW new \in GuestSecondEntries, GuestTypeOK, OnePlace,
         NEW n, n = EditSecond(m, v, t, o, new), NEW row \in [Megabytes -> GuestFirstEntries],
         RowOK(row), Agree(m, row, second)
  PROVE  /\ Agree(n, row, second) /\ Agree(n, row, SetPage(second, t, o, new))
         /\ n.alive => m.alive /\ (n = m \/ CanLocate(m, v))
<1> DEFINE sec2 == SetPage(second, t, o, new)
           old == second[t][o]
           recs == {i \in DOMAIN m.gptInfo : m.gptInfo[i].table = t}
           x == Found(recs)
           mb == m.gptInfo[x].mb
           w == PageAt(mb, o)
           m1 == ShadowUnmapSmallPage(m, "user", w, old.frame)
           m2 == ShadowUnmapSmallPage(m1, "priv", w, old.frame)
<1>0. /\ second \in [Tables -> [Offsets -> GuestSecondEntries]] /\ old \in GuestSecondEntries
      /\ \A j \in Megabytes : row[j].type = "table" => row[j].table \in Tables
      /\ "user" \in Modes /\ "priv" \in Modes
  BY GuestEntryCases DEF GuestTypeOK, Modes
<1> SUFFICES ASSUME n.alive
             PROVE  /\ Agree(n, row, second) /\ Agree(n, row, sec2)
                    /\ m.alive /\ (n = m \/ CanLocate(m, v))
  BY DEF Agree
<1>1. ASSUME NEW u \in Modes, NEW j \in Megabytes, m.alive,
             m[u][j].type # "fault", row[j].type = "table", row[j].table = t
      PROVE  /\ Earliest(recs) # {} /\ mb = j
             /\ PageAgrees(u, Split(m[u][j])[o], GuestPage(row[j], second, o))
  <2>1. EntryAgrees(m, u, m[u][j], row[j], j, second) /\ Placed(m) BY <1>1 DEF Agree, Agrees
  <2>2. RecordOf(j, row[j]) \in Range(m.gptInfo) /\ RecordOf(j, row[j]).table = t
    BY <1>1, <2>1 DEF EntryAgrees, RecordOf
  <2>3. Earliest(recs) # {}
    <3>1. PICK r \in Range(m.gptInfo) : r.table = t BY <2>2
    <3>2. MMState(m) OBVIOUS
    <3> QED BY ONLY <3>1, <3>2, RecordsFound
  <2>4. x \in recs BY <2>3, FoundIn
  <2>5. x \in DOMAIN m.gptInfo /\ m.gptInfo[x].table = t /\ m.gptInfo[x] \in Range(m.gptInfo)
    BY <2>4 DEF Range
  <2> HIDE DEF x
  <2>6. mb \in Megabytes BY <2>5, RecordsOfState
  <2>7. \E b \in Bases : \E e \in FirstEntries[b][mb] : e.type = "table" /\ e.table = t
    BY <2>1, <2>5 DEF Placed
  <2>8. \E c \in Bases : row[j] \in FirstEntries[c][j] BY <1>1 DEF RowOK
  <2>9. mb = j BY <1>1, <2>6, <2>7, <2>8 DEF OnePlace
  <2> QED BY <1>1, <2>1, <2>3, <2>9 DEF EntryAgrees
<1>2. ASSUME n = m,
             \A u \in Modes, j \in Megabytes :
               /\ m[u][j].type # "fault" /\ row[j].type = "table" /\ row[j].table = t
               => PageAgrees(u, Split(m[u][j])[o], IF new.type = "page" THEN new ELSE Fault)
      PROVE  Agree(n, row, second) /\ Agree(n, row, sec2) /\ m.alive /\ (n = m \/ CanLocate(m, v))
  BY <1>0, <1>2, SecondChangeAgrees DEF SetPage
<1>3. CASE Earliest(recs) = {} \/ old = new
  <2>1. n = m BY <1>3 DEF EditSecond
  <2>2. CASE old = new
    <3>1. sec2 = second BY <1>0, <2>2 DEF SetPage
    <3> QED BY <2>1, <3>1
  <2>3. CASE Earliest(recs) = {}
    <3> HIDE DEF recs
    <3> QED BY <1>1, <1>2, <2>1, <2>3
  <2> QED BY <1>3, <2>2, <2>3
<1>4. CASE Earliest(recs) # {} /\ old # new /\ ~ CanLocate(m, v)
  <2>1. n = Die(m) BY <1>4 DEF EditSecond
  <2> QED BY <2>1, DieState
<1>5. CASE Earliest(recs) # {} /\ old # new /\ CanLocate(m, v) /\ old.type = "fault"
  <2>1. n = m BY <1>5 DEF EditSecond
  <2>2. ASSUME NEW u \in Modes, NEW j \in Megabytes,
               m[u][j].type # "fault", row[j].type = "table", row[j].table = t
        PROVE  PageAgrees(u, Split(m[u][j])[o], IF new.type = "page" THEN new ELSE Fault)
    <3>1. PageAgrees(u, Split(m[u][j])[o], GuestPage(row[j], second, o)) BY <1>1, <2>1, <2>2
    <3>2. GuestPage(row[j], second, o) = Fault BY <1>5, <2>2 DEF GuestPage
    <3> QED BY <3>1, <3>2, FaultIsEntry DEF PageAgrees
  <2> QED BY <1>2, <2>1, <2>2
<1>6. CASE Earliest(recs) # {} /\ old # new /\ CanLocate(m, v) /\ old.type = "page" /\ new.type = "fault"
  <2>1. n = m2 BY <1>6 DEF EditSecond
  <2>2. w \in Pages /\ Megabyte(w) = mb /\ mb \in Megabytes
    <3>1. x \in recs BY <1>6, FoundIn
    <3>2. x \in DOMAIN m.gptInfo /\ m.gptInfo[x] \in Range(m.gptInfo) BY <3>1 DEF Range
    <3>3. mb \in Megabytes BY <3>2, RecordsOfState
    <3> QED BY <3>3, PageAtPage
  <2> HIDE DEF x, recs, mb
  <2>3. Unmapped(m1, m, "user", mb) BY <1>0, <2>2, UnmapSmallPageUnmaps
  <2>4. MMState(m1) BY <2>3 DEF Unmapped
  <2>5. m1.alive => ShadowPage(m1["user"], w).type = "fault" BY <1>0, <2>2, UnmapSmallPageCuts
  <2>6. Agree(m1, row, second) BY <1>0, <2>2, <2>3, UnmappedAgrees
  <2> HIDE DEF m1, w
  <2>7. Unmapped(n, m1, "priv", mb) BY <1>0, <2>1, <2>2, <2>4, UnmapSmallPageUnmaps
  <2>8. ShadowPage(n["priv"], w).type = "fault" BY <1>0, <2>1, <2>2, <2>4, UnmapSmallPageCuts
  <2>9. Agree(n, row, second) BY <1>0, <2>2, <2>4, <2>6, <2>7, UnmappedAgrees
  <2>10. m1.alive /\ m.alive BY <2>3, <2>7 DEF Unmapped
  <2>11. ShadowPage(n["user"], w).type = "fault"
    BY <2>2, <2>5, <2>7, <2>10 DEF Unmapped, Modes, ShadowPage
  <2>12. ASSUME NEW u \in Modes, NEW j \in Megabytes,
                n[u][j].type # "fault", row[j].type = "table", row[j].table = t
         PROVE  PageAgrees(u, Split(n[u][j])[o], IF new.type = "page" THEN new ELSE Fault)
    <3>1. m1[u][j].type # "fault" BY <2>7, <2>12 DEF Unmapped
    <3>2. m[u][j].type # "fault" BY <2>3, <2>10, <3>1 DEF Unmapped
    <3>3. mb = j BY <1>1, <2>10, <2>12, <3>2
    <3>4. ShadowPage(n[u], PageAt(j, o)) = Split(n[u][j])[o] BY <2>12, PageOfEntry
    <3>5. PageAt(j, o) = w BY <3>3 DEF w
    <3>6. Split(n[u][j])[o].type = "fault" BY <2>8, <2>11, <3>4, <3>5 DEF Modes
    <3> QED BY <3>6 DEF PageAgrees
  <2>13. Agree(n, row, sec2) BY <1>0, <2>9, <2>12, SecondChangeAgrees DEF SetPage
  <2> QED BY <1>6, <2>9, <2>10, <2>13
<1>7. CASE Earliest(recs) # {} /\ old # new /\ CanLocate(m, v) /\ old.type = "page" /\ new.type # "fault"
  <2>1. n = IF m.user[mb].type = "fault" /\ m.priv[mb].type = "fault" THEN m ELSE Die(m)
    BY <1>7 DEF EditSecond
  <2>2. n = m /\ m.user[mb].type = "fault" /\ m.priv[mb].type = "fault"
    <3> HIDE DEF mb
    <3> QED BY <2>1, DieState
  <2> HIDE DEF x, recs, mb
  <2>3. \A u \in Modes, j \in Megabytes :
          ~ (m[u][j].type # "fault" /\ row[j].type = "table" /\ row[j].table = t)
    BY <1>1, <2>2 DEF Modes
  <2> QED BY <1>2, <2>2, <2>3
<1> QED BY <1>0, <1>3, <1>4, <1>5, <1>6, <1>7, GuestPageCases

-----------------------------------------------------------------------------
(* The steps.                                                               *)

AgreeInv == Agree(mm, Row, second)

LEMMA RowIsOK == GuestTypeOK => RowOK(Row)
<1> SUFFICES ASSUME GuestTypeOK PROVE RowOK(Row) OBVIOUS
<1>1. Fault \in GuestFirstEntries /\ Fault.type = "fault" BY DEF GuestFirstEntries, Fault
<1>2. CASE guestPhysical \in Bases BY <1>2 DEF Row, RowOK, GuestTypeOK
<1>3. CASE guestPhysical \notin Bases BY <1>1, <1>3 DEF Row, RowOK
<1> QED BY <1>2, <1>3

LEMMA FreshAgrees ==
  ASSUME NoHostPages, NEW m, Fresh(m), NEW row, NEW sec
  PROVE  Agree(m, row, sec)
<1>1. \A t \in Modes : m[t] = FreshTable BY DEF Modes, Fresh
<1>2. \A k \in Megabytes : FreshTable[k] = Fault BY DEF FreshTable, NoHostPages
<1>3. Range(m.gptInfo) = {} BY DEF Fresh, Range
<1> QED BY <1>1, <1>2, <1>3, FaultIsEntry DEF Agree, Agrees, EntryAgrees, Placed

LEMMA BecomeAgrees ==
  ASSUME MMState(mm), NEW m, Become(m), NEW row, NEW sec, Agree(m, row, sec)
  PROVE  Agree(mm', row, sec)
BY DieState DEF Become, Agree

(* A step that leaves the guest's own tables and the table base alone.      *)
LEMMA QuietAgrees ==
  ASSUME UNCHANGED <<first, second, guestPhysical>>, Agree(mm', Row, second)
  PROVE  AgreeInv'
<1>1. Row' = Row BY DEF Row
<1> QED BY <1>1 DEF AgreeInv

LEMMA FreshAgreesNext ==
  ASSUME NoHostPages, Fresh(mm') PROVE AgreeInv'
<1>1. \A row, sec : Agree(mm', row, sec) BY FreshAgrees
<1> QED BY <1>1 DEF AgreeInv

LEMMA DieAgreesNext ==
  ASSUME TypeInv, mm' = Die(mm) PROVE AgreeInv'
BY DieState DEF AgreeInv, Agree, TypeInv

(* What every step of the proof is given.                                   *)
AgreeBase ==
  /\ Obedient
  /\ TypeInv /\ dacr \in Dacrs /\ SafeInv /\ SecondOK(second) /\ AgreeInv

LEMMA GuestChangeModeAgrees ==
  ASSUME AgreeBase, NEW priv \in BOOLEAN, GuestChangeMode(mm, priv),
         UNCHANGED <<first, second, guestPhysical>>
  PROVE  AgreeInv'
<1> DEFINE t == ActiveIn(priv)
           v == mm.guestVirtual
           n == IF priv = privileged THEN mm ELSE SwitchAddressing(mm, priv)
<1>1. t \in Modes /\ MMState(mm) /\ GuestTypeOK /\ Agree(mm, Row, second)
  BY DEF ActiveIn, Modes, TypeInv, AgreeBase, AgreeInv
<1>2. Become(n) BY DEF GuestChangeMode
<1>3. Agree(n, Row, second)
  <2>1. CASE n \in {mm, Die(mm)} BY <1>1, <2>1, DieState DEF Agree
  <2>2. CASE v # NoBase /\ n = ShadowMap(mm, t, v)
    <3>1. v \in Pages BY <1>1, <2>2 DEF MMState
    <3> QED BY <1>1, <2>2, <3>1, ShadowMapAgrees DEF AgreeBase, Obedient
  <2> QED BY <2>1, <2>2 DEF SwitchAddressing
<1> HIDE DEF n
<1> QED BY <1>1, <1>2, <1>3, BecomeAgrees, QuietAgrees

LEMMA TablesAgree ==
  ASSUME AgreeBase, WriteTableBase \/ EnableMMU \/ DisableMMU
  PROVE  AgreeInv'
<1>0. MMState(mm) /\ (~ enabled => Fresh(mm)) /\ NoHostPages
  BY DEF AgreeBase, TypeInv, Obedient, Assumed
<1>1. CASE WriteTableBase
  <2> DEFINE m == [mm EXCEPT !.guestVirtual = NoBase]
  <2>1. MMState(m) /\ (~ enabled => Fresh(m)) BY <1>0, VirtualState
  <2>2. mm' = IF enabled THEN EmptyTables(m) ELSE m
    BY <1>1 DEF WriteTableBase, WriteTTBR0, WriteACTLR, GuestSetPageTableBase
  <2> HIDE DEF m
  <2>3. Fresh(mm') BY <2>1, <2>2, EmptyState
  <2> QED BY <1>0, <2>3, FreshAgreesNext
<1>2. CASE EnableMMU
  <2>1. CASE guestPhysical = NoBase BY <1>2, <2>1, DieAgreesNext DEF EnableMMU, AgreeBase
  <2>2. CASE guestPhysical # NoBase
    <3>1. Fresh(mm') BY <1>0, <1>2, <2>2, EmptyState DEF EnableMMU
    <3> QED BY <1>0, <3>1, FreshAgreesNext
  <2> QED BY <2>1, <2>2
<1>3. CASE DisableMMU
  <2> DEFINE m == EmptyTables(mm)
  <2>1. mm' = [m EXCEPT !.guestVirtual = NoBase, !.blocks = {}] BY <1>3 DEF DisableMMU
  <2>2. MMState(m) /\ Fresh(m) BY <1>0, EmptyState
  <2> HIDE DEF m
  <2>3. Fresh(mm') BY <2>1, <2>2 DEF MMState, Fresh
  <2> QED BY <1>0, <2>3, FreshAgreesNext
<1> QED BY <1>1, <1>2, <1>3

LEMMA TranslationFaultAgrees ==
  ASSUME AgreeBase, NEW v \in Pages, NEW write, TranslationFault(v, write)
  PROVE  AgreeInv'
<1>1. CASE DeliverDataAbort BY <1>1, GuestChangeModeAgrees DEF DeliverDataAbort
<1>2. CASE /\ Become(ShadowMap(mm, shadowActive, v))
           /\ UNCHANGED <<first, second, ttbr, enabled, privileged, dacr, guestPhysical>>
  <2> DEFINE n == ShadowMap(mm, shadowActive, v)
  <2>1. shadowActive \in Modes /\ MMState(mm) /\ GuestTypeOK /\ Agree(mm, Row, second)
    BY DEF shadowActive, ActiveIn, Modes, TypeInv, AgreeBase, AgreeInv
  <2>2. Agree(n, Row, second) BY <2>1, ShadowMapAgrees DEF AgreeBase, Obedient
  <2> HIDE DEF n
  <2> QED BY <1>2, <2>1, <2>2, BecomeAgrees, QuietAgrees DEF n
<1> QED BY <1>1, <1>2 DEF TranslationFault

LEMMA PermissionAbortAgrees ==
  ASSUME AgreeBase, NEW v, NEW write, PermissionAbort(v, write)
  PROVE  AgreeInv'
<1>1. CASE DeliverDataAbort BY <1>1, GuestChangeModeAgrees DEF DeliverDataAbort
<1>2. CASE mm' = Die(mm) BY <1>2, DieAgreesNext DEF AgreeBase
<1> QED BY <1>1, <1>2 DEF PermissionAbort

LEMMA ScanBlockAgrees ==
  ASSUME AgreeBase, NEW range, ScanBlock(range)
  PROVE  AgreeInv'
<1>0. MMState(mm) /\ Agree(mm, Row, second) /\ NoHostPages /\ (~ enabled => Fresh(mm))
  BY DEF AgreeBase, TypeInv, Obedient, Assumed, AgreeInv
<1>1. CASE enabled
  <2> DEFINE n == GuestWriteProtect(mm, RangeFrom(range))
             b == mm.blocks \cup {[v \in range |-> Reached(v).frame]}
  <2>1. MMState(n) /\ SameRecords(n, mm) BY <1>0, GuestWriteProtectState
  <2>2. mm' = [n EXCEPT !.blocks = b]
    <3>1. n.blocks = mm.blocks BY <1>0 DEF GuestWriteProtect, MMState
    <3> QED BY <1>1, <3>1 DEF ScanBlock
  <2>3. Agree(n, Row, second)
    <3>1. n.gptInfo = mm.gptInfo /\ n.alive = mm.alive BY <2>1 DEF SameRecords
    <3> HIDE DEF n
    <3> QED BY <1>0, <3>1, GuestWriteProtectAgrees DEF Agree, Placed, n
  <2> HIDE DEF n, b
  <2>4. /\ MMState(mm') /\ SameRecords(mm', n) /\ \A t \in Modes : mm'[t] = n[t]
    BY <2>1, <2>2, BlocksState
  <2>5. Agree(mm', Row, second)
    BY <2>3, <2>4 DEF Agree, Agrees, EntryAgrees, Placed, SameRecords
  <2> QED BY <1>1, <2>5, QuietAgrees DEF ScanBlock
<1>2. CASE ~ enabled
  <2> DEFINE b == mm.blocks \cup {[v \in range |-> v]}
  <2>1. mm' = [mm EXCEPT !.blocks = b] BY <1>2 DEF ScanBlock
  <2> HIDE DEF b
  <2>2. Fresh(mm') BY <1>0, <1>2, <2>1, BlocksState
  <2> QED BY <1>0, <2>2, FreshAgreesNext
<1> QED BY <1>1, <1>2

LEMMA PhysicalStoreAgrees ==
  ASSUME AgreeBase, NEW v, PhysicalStore(v)
  PROVE  AgreeInv'
<1>0. MMState(mm) /\ NoHostPages /\ Fresh(mm)
  BY DEF AgreeBase, TypeInv, Obedient, Assumed, PhysicalStore
<1>1. mm' = ClearTranslations(mm, {v}) BY DEF PhysicalStore
<1>2. SameRecords(mm', mm) /\ \A t \in Modes : mm'[t] = mm[t] BY <1>0, <1>1, ClearState
<1>3. mm'["user"] = mm["user"] /\ mm'["priv"] = mm["priv"] BY <1>2 DEF Modes
<1>4. Fresh(mm') BY <1>0, <1>2, <1>3 DEF Fresh, SameRecords
<1> QED BY <1>0, <1>4, FreshAgreesNext

(* A store that the processor lets through reaches no table that a shadow   *)
(* table was filled from.                                                   *)
LEMMA DirectStoreAgrees ==
  ASSUME AgreeBase, NEW v \in Pages, DirectStore(v)
  PROVE  AgreeInv'
<1> DEFINE p == Reached(v)
<1>1. /\ MMState(mm) /\ GuestTypeOK /\ shadowActive \in Modes
      /\ Write(p.frame) /\ Granted(p, TRUE) /\ p.type = "page" /\ mm.alive
      /\ UNCHANGED <<mm, guestPhysical>> /\ Agree(mm, Row, second)
  BY DEF TypeInv, DirectStore, Present, Reached, shadowActive, ActiveIn, Modes, AgreeBase, AgreeInv
<1>2. p.frame \notin InUseOf(mm)
  <2>1. SafePage(mm, p) BY <1>1 DEF AgreeBase, SafeInv, Safe, Protected, Reached
  <2> QED BY <1>1, <2>1 DEF Granted, SafePage
<1>3. guestPhysical \in Bases => first'[guestPhysical] = first[guestPhysical]
  BY <1>1, <1>2 DEF Write, WriteFirst, WriteSecond, WriteData, GuestTypeOK, InUseOf
<1>4. Row' = Row BY <1>1, <1>3 DEF Row
<1>5. CASE UNCHANGED second BY <1>1, <1>4, <1>5 DEF AgreeInv
<1>6. CASE WriteSecond(p.frame)
  <2>1. PICK t \in {t \in Tables : t.frame = p.frame}, o \in Offsets :
          \E e \in SecondEntries[t][o] : second' = [second EXCEPT ![t][o] = e]
    BY <1>6 DEF WriteSecond
  <2>2. PICK e \in SecondEntries[t][o] : second' = [second EXCEPT ![t][o] = e] BY <2>1
  <2>3. t \in Tables /\ t.frame = p.frame /\ o \in Offsets /\ e \in GuestSecondEntries
    BY <2>1, <2>2, GuestAssumption
  <2>4. RowOK(Row) /\ second \in [Tables -> [Offsets -> GuestSecondEntries]]
    BY <1>1, RowIsOK DEF GuestTypeOK
  <2>5. \A j \in Megabytes : Row[j].type = "table" => Row[j].table \in Tables
    BY <2>4, GuestEntryCases DEF RowOK
  <2>6. ASSUME NEW u \in Modes, NEW j \in Megabytes,
               mm[u][j].type # "fault", Row[j].type = "table", Row[j].table = t
        PROVE  FALSE
    <3>1. EntryAgrees(mm, u, mm[u][j], Row[j], j, second) BY <1>1 DEF Agree, Agrees
    <3>2. RecordOf(j, Row[j]) \in Range(mm.gptInfo) /\ RecordOf(j, Row[j]).table = t
      BY <2>6, <3>1 DEF EntryAgrees, RecordOf
    <3>3. t.frame \in InUseOf(mm) BY <3>2 DEF InUseOf
    <3> QED BY <1>2, <2>3, <3>3
  <2>7. Agree(mm, Row, second') BY <1>1, <2>2, <2>3, <2>4, <2>5, <2>6, SecondChangeAgrees
  <2> QED BY <1>1, <1>4, <2>7 DEF AgreeInv
<1> QED BY <1>1, <1>5, <1>6 DEF Write, WriteFirst, WriteData

LEMMA EmulatedStoreAgrees ==
  ASSUME AgreeBase, NEW v \in Pages, NEW size \in StoreSizes, EmulatedStore(v, size)
  PROVE  AgreeInv'
<1> DEFINE p == Reached(v)
           f == p.frame
           m0 == ClearTranslations(mm, {v})
<1>0. /\ Assumed /\ OnePlace /\ ClientOnly /\ NoDeprecated /\ TypeInv /\ dacr \in Dacrs
      /\ SafeInv /\ SecondOK(second) /\ Agree(mm, Row, second) /\ HomeStaysMapped /\ size = "word"
  BY DEF AgreeBase, Obedient, AgreeInv, Assumed
<1>1. /\ MMState(mm) /\ GuestTypeOK /\ shadowActive \in Modes
      /\ p.type = "page" /\ mm.alive /\ guestPhysical \in Bases /\ guestPhysical' = guestPhysical
      /\ MayAccess(Walk(guestPhysical, v), privileged, TRUE)
      /\ Row = first[guestPhysical] /\ Row \in [Megabytes -> GuestFirstEntries]
  BY <1>0, RowType DEF TypeInv, EmulatedStore, PermissionFault, CanDecide, Present, Reached,
     shadowActive, ActiveIn, Modes, ShouldDataAbort
<1>2. /\ MMState(m0) /\ SameRecords(m0, mm) /\ \A t \in Modes : m0[t] = mm[t]
  BY <1>1, ClearState
<1>3. ShadowPage(m0[shadowActive], v) = p BY <1>1, <1>2 DEF Reached
<1>4. Safe(m0, Row) /\ Agree(m0, Row, second)
  <2>1. Safe(m0, Row) BY <1>0, <1>2, SameTablesSafe DEF SafeInv
  <2> HIDE DEF m0
  <2>2. Agree(m0, Row, second)
    BY <1>0, <1>2 DEF Agree, Agrees, EntryAgrees, Placed, SameRecords
  <2> QED BY <2>1, <2>2
<1>5. \/ /\ f \in Bases /\ UNCHANGED second
         /\ \E k \in Megabytes : \E e \in FirstEntries[f][k] :
              /\ Become(StoreValue(IF f = guestPhysical
                                     THEN EditFirst(m0, v, k, e) ELSE m0, v))
              /\ first' = IF mm'.alive THEN [first EXCEPT ![f][k] = e] ELSE first
      \/ /\ UNCHANGED first
         /\ \E t \in {t \in Tables : t.frame = f} : \E o \in Offsets : \E e \in SecondEntries[t][o] :
              /\ Become(StoreValue(EditSecond(m0, v, t, o, e), v))
              /\ second' = IF mm'.alive THEN [second EXCEPT ![t][o] = e] ELSE second
      \/ Become(StoreValue(m0, v)) /\ UNCHANGED <<first, second>>
  BY <1>0 DEF EmulatedStore
<1> HIDE DEF m0, p
<1> SUFFICES ASSUME mm'.alive PROVE AgreeInv' BY DEF AgreeInv, Agree
<1>6. ASSUME NEW n, Become(n) PROVE mm' = n BY <1>1, <1>6, DieState DEF Become
<1>7. ASSUME f \in Bases, UNCHANGED second, NEW k \in Megabytes, NEW e \in FirstEntries[f][k],
             Become(StoreValue(IF f = guestPhysical THEN EditFirst(m0, v, k, e) ELSE m0, v)),
             first' = [first EXCEPT ![f][k] = e]
      PROVE  AgreeInv'
  <2>1. CASE f = guestPhysical
    <3>1. mm' = StoreValue(EditFirst(m0, v, k, e), v) BY <1>6, <1>7, <2>1
    <3>2. Stored(EditFirst(m0, v, k, e), v, SetEntryOf(Row, k, e), second)
      BY <1>0, <1>1, <1>2, <1>3, <1>4, <1>7, <2>1, EditFirstAgrees
    <3>4. Agree(mm', SetEntryOf(Row, k, e), second) BY <3>1, <3>2 DEF Stored
    <3>3. SetEntryOf(Row, k, e) = Row' BY <1>1, <1>7, <2>1 DEF Row, GuestTypeOK, SetEntryOf
    <3> QED BY <1>7, <3>4, <3>3 DEF AgreeInv
  <2>2. CASE f # guestPhysical
    <3>1. mm' = StoreValue(m0, v) BY <1>6, <1>7, <2>2
    <3>2. mm' = m0 BY <1>1, <1>3, <3>1, StoreStays
    <3>3. Row' = Row BY <1>1, <1>7, <2>2 DEF Row, GuestTypeOK
    <3> QED BY <1>4, <1>7, <3>2, <3>3 DEF AgreeInv
  <2> QED BY <2>1, <2>2
<1>8. ASSUME UNCHANGED first, NEW t \in Tables, NEW o \in Offsets, NEW e \in SecondEntries[t][o],
             Become(StoreValue(EditSecond(m0, v, t, o, e), v)),
             second' = [second EXCEPT ![t][o] = e]
      PROVE  AgreeInv'
  <2> DEFINE n == EditSecond(m0, v, t, o, e)
  <2>1. mm' = StoreValue(n, v) BY <1>6, <1>8
  <2>2. e \in GuestSecondEntries /\ RowOK(Row) BY <1>1, <1>8, GuestAssumption, RowIsOK
  <2>3. MMState(n) BY <1>1, <1>2, EditSecondType
  <2>4. /\ Agree(n, Row, second')
        /\ n.alive => m0.alive /\ (n = m0 \/ CanLocate(m0, v))
    <3>1. n = EditSecond(m0, v, t, o, e) /\ second' = SetPage(second, t, o, e) BY <1>8 DEF SetPage
    <3>2. /\ Row \in [Megabytes -> GuestFirstEntries] /\ RowOK(Row) /\ e \in GuestSecondEntries
          /\ GuestTypeOK /\ OnePlace /\ MMState(m0) /\ Agree(m0, Row, second)
      BY <1>0, <1>1, <1>2, <1>4, <2>2
    <3> HIDE DEF n
    <3>3. /\ Agree(n, Row, second')
          /\ n.alive => m0.alive /\ (n = m0 \/ CanLocate(m0, v))
      <4>1. PICK z : z = m0 OBVIOUS
      <4>2. PICK row : row = Row OBVIOUS
      <4>3. PICK q : q = n OBVIOUS
      <4>4. /\ MMState(z) /\ GuestTypeOK /\ OnePlace /\ q = EditSecond(z, v, t, o, e)
            /\ row \in [Megabytes -> GuestFirstEntries] /\ RowOK(row) /\ Agree(z, row, second)
            /\ e \in GuestSecondEntries
        BY <3>1, <3>2, <4>1, <4>2, <4>3
      <4>5. Agree(q, row, SetPage(second, t, o, e)) BY <4>4, EditSecondAgrees
      <4>6. q.alive => z.alive /\ (q = z \/ CanLocate(z, v)) BY <4>4, EditSecondAgrees
      <4> QED BY <3>1, <4>1, <4>2, <4>3, <4>5, <4>6
    <3> QED BY <3>1, <3>3
  <2> HIDE DEF n
  <2>5. Agree(mm', Row, second')
    <3>1. CASE StoreValue(n, v) = n BY <2>1, <2>4, <3>1
    <3>2. CASE StoreValue(n, v) # n
      <4>1. n.alive /\ ShadowPage(n[shadowActive], v).type = "fault"
            /\ StoreValue(n, v) = ShadowMap(n, shadowActive, v)
        BY <3>2 DEF StoreValue
      <4>2. n # m0 BY <1>1, <1>3, <4>1
      <4>3. Row[Megabyte(v)].type = "section" BY <1>1, <2>4, <4>1, <4>2 DEF CanLocate
      <4> QED BY <1>0, <1>1, <2>1, <2>3, <2>4, <4>1, <4>3, ShadowMapAgrees
    <3> QED BY <3>1, <3>2
  <2>6. Row' = Row BY <1>1, <1>8 DEF Row
  <2> QED BY <2>5, <2>6 DEF AgreeInv
<1>9. ASSUME Become(StoreValue(m0, v)), UNCHANGED <<first, second>>
      PROVE  AgreeInv'
  <2>1. mm' = StoreValue(m0, v) BY <1>6, <1>9
  <2>2. mm' = m0 BY <1>1, <1>3, <2>1, StoreStays
  <2>3. Row' = Row BY <1>1, <1>9 DEF Row
  <2> QED BY <1>4, <1>9, <2>2, <2>3 DEF AgreeInv
<1> QED BY <1>5, <1>7, <1>8, <1>9

(* The guest's second level tables stay what the guest can have.            *)
LEMMA SecondStep ==
  ASSUME SecondOK(second), [Next]_vars
  PROVE  SecondOK(second)'
<1> DEFINE Edit == \E t \in Tables : \E o \in Offsets : \E e \in SecondEntries[t][o] :
                     second' = [second EXCEPT ![t][o] = e]
<1>1. UNCHANGED second \/ Edit
  <2>1. CASE UNCHANGED vars BY <2>1 DEF vars
  <2>2. CASE ChangeMode \/ WriteTableBase \/ EnableMMU \/ DisableMMU \/ WriteDACR
    BY <2>2 DEF ChangeMode, WriteTableBase, EnableMMU, DisableMMU, WriteDACR
  <2>3. ASSUME NEW f, Write(f) PROVE UNCHANGED second \/ Edit
    <3>1. CASE WriteFirst(f) BY <3>1 DEF WriteFirst
    <3>2. CASE WriteSecond(f) BY <3>2 DEF WriteSecond
    <3>3. CASE WriteData BY <3>3 DEF WriteData
    <3> QED BY <2>3, <3>1, <3>2, <3>3 DEF Write
  <2>4. ASSUME NEW v \in Pages, DirectStore(v) \/ PhysicalStore(v)
        PROVE  UNCHANGED second \/ Edit
    <3>1. \E f : Write(f) BY <2>4 DEF DirectStore, PhysicalStore
    <3> QED BY <2>3, <3>1
  <2>5. ASSUME NEW v \in Pages, DomainFault(v) PROVE UNCHANGED second
    BY <2>5 DEF DomainFault
  <2>6. ASSUME NEW v \in Pages, NEW size \in StoreSizes, EmulatedStore(v, size)
        PROVE  UNCHANGED second \/ Edit
    <3>1. \/ UNCHANGED second
          \/ \E t \in Tables : \E o \in Offsets : \E e \in SecondEntries[t][o] :
               second' = IF mm'.alive THEN [second EXCEPT ![t][o] = e] ELSE second
      BY <2>6 DEF EmulatedStore
    <3> QED BY <3>1
  <2>7. ASSUME NEW v \in Pages, NEW write \in BOOLEAN,
               TranslationFault(v, write) \/ PermissionAbort(v, write)
        PROVE  UNCHANGED second
    <3>1. DeliverDataAbort => UNCHANGED second BY DEF DeliverDataAbort
    <3>2. CASE TranslationFault(v, write) BY <3>1, <3>2 DEF TranslationFault
    <3>3. CASE PermissionAbort(v, write) BY <3>1, <3>3 DEF PermissionAbort
    <3> QED BY <2>7, <3>2, <3>3
  <2>8. ASSUME NEW range \in CodeRanges, ScanBlock(range) PROVE UNCHANGED second
    BY <2>8 DEF ScanBlock
  <2> HIDE DEF Edit
  <2> QED BY <2>1, <2>2, <2>4, <2>5, <2>6, <2>7, <2>8 DEF Next
<1>2. CASE UNCHANGED second BY <1>2
<1>3. ASSUME NEW t \in Tables, NEW o \in Offsets, NEW e \in SecondEntries[t][o],
             second' = [second EXCEPT ![t][o] = e]
      PROVE  SecondOK(second)'
  <2>1. e \in GuestSecondEntries BY <1>3, GuestAssumption
  <2>2. second' \in [Tables -> [Offsets -> GuestSecondEntries]] BY <1>3, <2>1 DEF SecondOK
  <2>3. \A x \in Tables, y \in Offsets :
          second'[x][y] = IF x = t /\ y = o THEN e ELSE second[x][y]
    BY <1>3 DEF SecondOK
  <2> QED BY <1>3, <2>2, <2>3 DEF SecondOK
<1> QED BY <1>1, <1>2, <1>3

(* The hypervisor's base of the guest's table is the guest's own.           *)
BaseInv == guestPhysical \in Bases => guestPhysical = ttbr

LEMMA BaseStep ==
  ASSUME BaseInv, [Next]_vars
  PROVE  BaseInv'
<1>1. NoBase \notin Bases BY FrameOfBase
<1> QED
  BY <1>1 DEF BaseInv, Next, vars, ChangeMode, WriteTableBase, WriteTTBR0, WriteACTLR,
     GuestSetPageTableBase, EnableMMU, DisableMMU, WriteDACR, DirectStore, PhysicalStore,
     DomainFault, EmulatedStore, TranslationFault, PermissionAbort, ScanBlock, DeliverDataAbort

LEMMA AgreeStep ==
  ASSUME AgreeBase, [Next]_vars
  PROVE  AgreeInv'
<1>1. CASE ChangeMode BY <1>1, GuestChangeModeAgrees DEF ChangeMode
<1>2. CASE WriteTableBase \/ EnableMMU \/ DisableMMU BY <1>2, TablesAgree
<1>3. CASE WriteDACR BY <1>3, QuietAgrees DEF WriteDACR, AgreeBase, AgreeInv
<1>4. CASE \E v \in Pages : DirectStore(v) BY <1>4, DirectStoreAgrees
<1>5. CASE \E v \in Pages : PhysicalStore(v) BY <1>5, PhysicalStoreAgrees
<1>6. CASE \E v \in Pages : DomainFault(v) BY <1>6, DieAgreesNext DEF DomainFault, AgreeBase
<1>7. CASE \E v \in Pages, size \in StoreSizes : EmulatedStore(v, size)
  BY <1>7, EmulatedStoreAgrees
<1>8. CASE \E v \in Pages, write \in BOOLEAN : TranslationFault(v, write)
  BY <1>8, TranslationFaultAgrees
<1>9. CASE \E v \in Pages, write \in BOOLEAN : PermissionAbort(v, write)
  BY <1>9, PermissionAbortAgrees
<1>10. CASE \E range \in CodeRanges : ScanBlock(range) BY <1>10, ScanBlockAgrees
<1>11. CASE UNCHANGED vars BY <1>11, QuietAgrees DEF vars, AgreeBase, AgreeInv
<1> QED BY <1>1, <1>2, <1>3, <1>4, <1>5, <1>6, <1>7, <1>8, <1>9, <1>10, <1>11 DEF Next

(* The inductive invariant.                                                 *)
ShadowInv ==
  TypeInv /\ dacr \in Dacrs /\ SafeInv /\ SecondOK(second) /\ AgreeInv /\ BaseInv

LEMMA ShadowInit ==
  ASSUME Obedient, Init
  PROVE  ShadowInv
<1>1. TypeInv /\ SafeInv /\ dacr \in Dacrs BY InitInv DEF Obedient, Init, GuestInit
<1>2. \A S : S # {} => Blank(S) \in S
  <2> SUFFICES ASSUME NEW S, S # {} PROVE Blank(S) \in S OBVIOUS
  <2>1. \E e \in S : e = Fault \/ Fault \notin S OBVIOUS
  <2> QED BY <2>1 DEF Blank
<1>3. SecondOK(second)
  <2>1. second = [t \in Tables |-> [o \in Offsets |-> Blank(SecondEntries[t][o])]]
    BY DEF Init, GuestInit
  <2> HIDE DEF Blank
  <2>2. \A t \in Tables, o \in Offsets : second[t][o] \in SecondEntries[t][o]
    BY <1>2, <2>1, GuestAssumption
  <2> QED BY <2>1, <2>2, GuestAssumption DEF SecondOK
<1>4. Fresh(mm) BY DEF Init, Fresh
<1>5. AgreeInv BY <1>4, FreshAgrees DEF AgreeInv, Obedient, Assumed
<1>6. BaseInv BY FrameOfBase DEF Init, BaseInv
<1> QED BY <1>1, <1>3, <1>5, <1>6 DEF ShadowInv

LEMMA ShadowStep ==
  ASSUME Obedient, ShadowInv, [Next]_vars
  PROVE  ShadowInv'
<1>1. AgreeBase BY DEF AgreeBase, ShadowInv
<1>2. TypeInv' /\ SafeInv' /\ dacr' \in Dacrs BY StepInv, DacrStep DEF ShadowInv, Obedient
<1>3. AgreeInv' BY <1>1, AgreeStep
<1>4. SecondOK(second)' /\ BaseInv' BY SecondStep, BaseStep DEF ShadowInv
<1> QED BY <1>2, <1>3, <1>4 DEF ShadowInv

-----------------------------------------------------------------------------
(* What the invariant says of a page that a shadow table maps.              *)

LEMMA WalkIsPage ==
  ASSUME GuestTypeOK, guestPhysical \in Bases, NEW v \in Pages,
         NEW g, g = Row[Megabyte(v)], NEW w, w = GuestPage(g, second, Offset(v)), w.type = "page",
         NEW e, e = Walk(guestPhysical, v)
  PROVE  e.type = "page" /\ e.frame = w.frame /\ e.ap = w.ap /\ e.dom = g.dom /\ e.dom \in Domains
<1>1. Megabyte(v) \in Megabytes /\ Offset(v) \in Offsets BY PagePair
<1>2. g = first[guestPhysical][Megabyte(v)] /\ g \in GuestFirstEntries
  BY <1>1 DEF Row, GuestTypeOK
<1>3. CASE g.type = "section"
  <2>1. e = [type |-> "page", frame |-> PageAt(g.mb, Offset(v)), ap |-> g.ap, dom |-> g.dom]
    BY <1>2, <1>3 DEF Walk
  <2>2. w = [type |-> "page", frame |-> PageAt(g.mb, Offset(v)), ap |-> g.ap] BY <1>3 DEF GuestPage
  <2>3. g.dom \in Domains BY <1>2, <1>3, GuestEntryCases
  <2> QED BY <2>1, <2>2, <2>3
<1>4. CASE g.type = "table"
  <2> DEFINE p == second[g.table][Offset(v)]
  <2>1. g.table \in Tables /\ g.dom \in Domains BY <1>2, <1>4, GuestEntryCases
  <2>2. p.type = "page" /\ w = p BY <1>4, FaultIsEntry DEF GuestPage
  <2>3. e = [type |-> "page", frame |-> p.frame, ap |-> p.ap, dom |-> g.dom]
    BY <1>2, <1>4, <2>2 DEF Walk
  <2> QED BY <2>1, <2>2, <2>3
<1>5. CASE g.type \notin {"section", "table"} BY <1>5, FaultIsEntry DEF GuestPage
<1> QED BY <1>3, <1>4, <1>5

LEMMA MappedPage ==
  ASSUME TypeInv, AgreeInv, mm.alive, NEW t \in Modes, NEW v \in Pages,
         NEW p, p = ShadowPage(mm[t], v), p.type = "page", NEW e, e = Walk(guestPhysical, v)
  PROVE  /\ guestPhysical \in Bases
         /\ PageAgrees(t, p, e) /\ e.type = "page" /\ e.frame = p.frame
         /\ e.dom = mm[t][Megabyte(v)].dom /\ e.dom \in Domains
<1> DEFINE k == Megabyte(v)
           o == Offset(v)
           w == GuestPage(Row[k], second, o)
<1>0. k \in Megabytes /\ o \in Offsets BY PagePair
<1>1. mm[t][k].type # "fault" /\ p = Split(mm[t][k])[o] BY FaultIsEntry DEF ShadowPage
<1>2. EntryAgrees(mm, t, mm[t][k], Row[k], k, second) BY <1>0 DEF AgreeInv, Agree, Agrees
<1>3. Row[k].type # "fault" /\ mm[t][k].dom = Row[k].dom /\ PageAgrees(t, p, w)
  BY <1>0, <1>1, <1>2 DEF EntryAgrees
<1>4. guestPhysical \in Bases BY <1>0, <1>3, FaultIsEntry DEF Row
<1>5. GuestTypeOK /\ w.type = "page" /\ p.frame = w.frame BY <1>3 DEF TypeInv, PageAgrees
<1> HIDE DEF w
<1>6. e.type = "page" /\ e.frame = w.frame /\ e.ap = w.ap /\ e.dom = Row[k].dom /\ e.dom \in Domains
  BY <1>4, <1>5, WalkIsPage DEF w
<1> QED BY <1>3, <1>4, <1>5, <1>6 DEF PageAgrees

LEMMA AgreeInvImplies ==
  ASSUME Obedient, ShadowInv
  PROVE  ShadowAgrees
<1> SUFFICES ASSUME mm.alive, NEW t \in Modes, NEW v \in Pages, NEW p, p = ShadowPage(mm[t], v),
                    p.type = "page", NEW g, g = Walk(guestPhysical, v)
             PROVE  /\ g.type = "page" /\ g.frame = p.frame
                    /\ \A write \in BOOLEAN :
                         Granted(p, write) /\ dacr[g.dom] # "none" => MayAccess(g, t = "priv", write)
  BY DEF ShadowAgrees
<1>1. TypeInv /\ AgreeInv /\ ClientOnly /\ dacr \in Dacrs BY DEF ShadowInv, Obedient
<1>2. PageAgrees(t, p, g) /\ g.type = "page" /\ g.frame = p.frame /\ g.dom \in Domains
  BY <1>1, MappedPage
<1>3. dacr[g.dom] \in {"none", "client"} BY <1>1, <1>2, GuestAssumption DEF ClientOnly
<1>4. ASSUME NEW write \in BOOLEAN, Granted(p, write), dacr[g.dom] # "none"
      PROVE  MayAccess(g, t = "priv", write)
  <2>1. dacr[g.dom] = "client" BY <1>3, <1>4
  <2>2. Permitted(g.ap, t = "priv", write) BY <1>2, <1>4, Zenon DEF PageAgrees
  <2> QED BY <1>2, <2>1, <2>2, Zenon DEF MayAccess
<1> QED BY <1>2, <1>4

(* The hypervisor keeps the shadow tables it had when it dies.              *)
LEMMA DeadKeeps ==
  ASSUME TypeInv, [Next]_vars, ~ mm'.alive
  PROVE  mm'.user = mm.user /\ mm'.priv = mm.priv
<1>0. MMState(mm) BY DEF TypeInv
<1>1. Die(mm).user = mm.user /\ Die(mm).priv = mm.priv BY <1>0 DEF MMState, Die
<1>2. ASSUME NEW m, Become(m) PROVE mm'.user = mm.user /\ mm'.priv = mm.priv
  BY <1>1, <1>2 DEF Become
<1>3. ASSUME NEW priv \in BOOLEAN, GuestChangeMode(mm, priv)
      PROVE  mm'.user = mm.user /\ mm'.priv = mm.priv
  BY <1>2, <1>3 DEF GuestChangeMode
<1>4. ASSUME mm.alive, mm' = Die(mm) \/ mm' = mm \/ mm'.alive = mm.alive
      PROVE  mm'.user = mm.user /\ mm'.priv = mm.priv
  BY <1>1, <1>4
<1>5. CASE ChangeMode BY <1>3, <1>5 DEF ChangeMode
<1>6. CASE WriteTableBase
  BY <1>0, <1>4, <1>6 DEF WriteTableBase, WriteTTBR0, WriteACTLR, GuestSetPageTableBase, EmptyTables, MMState
<1>7. CASE EnableMMU BY <1>0, <1>4, <1>7 DEF EnableMMU, EmptyTables, MMState
<1>8. CASE DisableMMU BY <1>0, <1>4, <1>8 DEF DisableMMU, EmptyTables, MMState
<1>9. CASE WriteDACR BY <1>4, <1>9 DEF WriteDACR
<1>10. CASE \E v \in Pages : DirectStore(v) BY <1>4, <1>10 DEF DirectStore, Present
<1>11. CASE \E v \in Pages : PhysicalStore(v)
  <2>1. PICK v \in Pages : PhysicalStore(v) BY <1>11
  <2>2. mm' = ClearTranslations(mm, {v}) /\ mm.alive BY <2>1 DEF PhysicalStore
  <2>3. SameRecords(mm', mm) BY <1>0, <2>2, ClearState
  <2> QED BY <1>4, <2>2, <2>3 DEF SameRecords
<1>12. CASE \E v \in Pages : DomainFault(v) BY <1>4, <1>12 DEF DomainFault, Present
<1>13. CASE \E v \in Pages, size \in StoreSizes : EmulatedStore(v, size)
  BY <1>2, <1>13 DEF EmulatedStore
<1>14. CASE \E v \in Pages, write \in BOOLEAN : TranslationFault(v, write)
  BY <1>2, <1>3, <1>14 DEF TranslationFault, DeliverDataAbort
<1>15. CASE \E v \in Pages, write \in BOOLEAN : PermissionAbort(v, write)
  BY <1>3, <1>4, <1>15 DEF PermissionAbort, PermissionFault, Present, DeliverDataAbort
<1>16. CASE \E range \in CodeRanges : ScanBlock(range)
  <2>1. PICK range \in CodeRanges : ScanBlock(range) BY <1>16
  <2> DEFINE n == GuestWriteProtect(mm, RangeFrom(range))
             b == mm.blocks \cup {[v \in range |-> Reached(v).frame]}
             c == mm.blocks \cup {[v \in range |-> v]}
  <2>2. MMState(n) /\ n.alive = mm.alive /\ n.blocks = mm.blocks
    BY <1>0, GuestWriteProtectState DEF SameRecords, GuestWriteProtect, MMState
  <2>3. mm' = [n EXCEPT !.blocks = b] \/ mm' = [mm EXCEPT !.blocks = c]
    BY <2>1, <2>2 DEF ScanBlock
  <2> HIDE DEF n, b, c
  <2>4. mm'.alive = mm.alive BY <1>0, <2>2, <2>3 DEF MMState
  <2> QED BY <1>4, <2>1, <2>4 DEF ScanBlock
<1>17. CASE UNCHANGED vars BY <1>17 DEF vars
<1> QED BY <1>5, <1>6, <1>7, <1>8, <1>9, <1>10, <1>11, <1>12, <1>13, <1>14, <1>15, <1>16, <1>17 DEF Next

Alive == mm.alive

LEMMA AliveDevices ==
  ASSUME DevicesKept, ShadowInv, Alive
  PROVE  DevicesTrapped
<1> SUFFICES ASSUME NEW t \in Modes, NEW v \in Pages, NEW p, p = ShadowPage(mm[t], v),
                    p.type = "page", Megabyte(p.frame) \in DeviceMegabytes
             PROVE  ~ Granted(p, FALSE)
  BY DEF DevicesTrapped
<1>1. PageAgrees(t, p, Walk(guestPhysical, v)) BY MappedPage DEF ShadowInv, Alive
<1> QED BY <1>1 DEF PageAgrees

LEMMA DeadDevices ==
  ASSUME ShadowInv, DevicesTrapped, [Next]_vars, ~ Alive'
  PROVE  DevicesTrapped'
<1>1. mm'.user = mm.user /\ mm'.priv = mm.priv BY DeadKeeps DEF ShadowInv, Alive
<1> QED BY <1>1 DEF DevicesTrapped, Modes

-----------------------------------------------------------------------------
(* What a shadow table maps is what the guest's own tables map, and it      *)
(* allows guest code no access that they and the domain register forbid: if *)
(* the guest's second level tables map one megabyte each, no domain is a    *)
(* manager's and the reserved permission is not used.                       *)
THEOREM ShadowTablesAgree == Obedient => (Spec => []ShadowAgrees)
<1> SUFFICES ASSUME Obedient PROVE Spec => []ShadowAgrees OBVIOUS
<1>1. Init => ShadowInv BY ShadowInit
<1>2. ShadowInv /\ [Next]_vars => ShadowInv' BY ShadowStep
<1>3. ShadowInv => ShadowAgrees BY AgreeInvImplies
<1> QED BY <1>1, <1>2, <1>3, PTL DEF Spec

(* No device is ever reached without the hypervisor, if moreover devices are*)
(* mapped by sections, and the guest never changes the permission of one.   *)
THEOREM DevicesStayTrapped == Obedient /\ DevicesKept => (Spec => []DevicesTrapped)
<1> SUFFICES ASSUME Obedient, DevicesKept PROVE Spec => []DevicesTrapped OBVIOUS
<1>1. Init => ShadowInv BY ShadowInit
<1>2. ShadowInv /\ [Next]_vars => ShadowInv' BY ShadowStep
<1>3. Init => Alive BY DEF Init, Alive
<1>4. ShadowInv /\ Alive => DevicesTrapped BY AliveDevices
<1>5. ShadowInv /\ DevicesTrapped /\ [Next]_vars /\ ~ Alive' => DevicesTrapped'
  BY DeadDevices
<1> QED BY <1>1, <1>2, <1>3, <1>4, <1>5, PTL DEF Spec

-----------------------------------------------------------------------------
(* Every step is one of the memory management unit the guest believes in.   *)

LEMMA StoreReaches ==
  ASSUME ShadowInv, mm.alive, enabled, NEW v \in Pages, Reached(v).type = "page",
         MayAccess(Walk(guestPhysical, v), privileged, TRUE), Write(Reached(v).frame),
         UNCHANGED <<ttbr, enabled, privileged, dacr>>
  PROVE  GuestNext
<1>1. shadowActive \in Modes /\ TypeInv /\ AgreeInv /\ BaseInv
  BY DEF shadowActive, ActiveIn, Modes, ShadowInv
<1>2. guestPhysical \in Bases /\ Walk(guestPhysical, v).frame = Reached(v).frame
  BY <1>1, MappedPage DEF Reached
<1>3. ttbr = guestPhysical BY <1>1, <1>2 DEF BaseInv
<1>4. FramesOf(v) = {Reached(v).frame} BY <1>2, <1>3 DEF FramesOf
<1>5. Store(v) BY <1>4 DEF Store
<1> QED BY <1>5 DEF GuestNext

LEMMA AbortDelivered ==
  ASSUME ShadowInv, enabled, NEW v \in Pages, NEW write \in BOOLEAN, DeliverDataAbort,
         guestPhysical \in Bases, ~ MayAccess(Walk(guestPhysical, v), privileged, write)
  PROVE  [GuestNext]_guestVars
<1>1. /\ privileged' = privileged \/ privileged' = TRUE
      /\ UNCHANGED <<first, second, ttbr, enabled, dacr>>
  BY DEF DeliverDataAbort, GuestChangeMode
<1>2. ttbr = guestPhysical BY DEF ShadowInv, BaseInv
<1>3. CASE privileged' = privileged BY <1>1, <1>3 DEF guestVars
<1>4. CASE privileged' = TRUE
  <2>1. Abort(v, write) BY <1>1, <1>2, <1>4 DEF Abort
  <2>2. CASE write = TRUE BY <2>1, <2>2 DEF GuestNext
  <2>3. CASE write = FALSE BY <2>1, <2>3 DEF GuestNext
  <2> QED BY <2>2, <2>3
<1> QED BY <1>1, <1>3, <1>4

LEMMA DirectStoreImplements ==
  ASSUME Obedient, ShadowInv, NEW v \in Pages, DirectStore(v)
  PROVE  GuestNext
<1> DEFINE t == shadowActive
           p == Reached(v)
           e == Walk(guestPhysical, v)
<1>1. /\ t \in Modes /\ TypeInv /\ AgreeInv /\ ClientOnly /\ dacr \in Dacrs
      /\ HostDomain \notin Domains /\ privileged \in BOOLEAN
  BY DEF shadowActive, ActiveIn, Modes, ShadowInv, Obedient, Assumed, NoHostPages, TypeInv
<1>2. p = ShadowPage(mm[t], v) /\ p.type = "page" /\ mm.alive /\ enabled /\ Granted(p, TRUE)
  BY DEF DirectStore, Present, Reached
<1>3. DomainOpen(v) /\ Write(p.frame) /\ UNCHANGED <<ttbr, enabled, privileged, dacr>>
  BY DEF DirectStore
<1> HIDE DEF p, e, t
<1>4. /\ guestPhysical \in Bases /\ PageAgrees(t, p, e) /\ e.type = "page"
      /\ e.dom = mm[t][Megabyte(v)].dom /\ e.dom \in Domains
  BY <1>1, <1>2, MappedPage DEF e
<1>5. dacr[e.dom] = "client"
  <2>1. dacr[e.dom] # "none" BY <1>1, <1>3, <1>4 DEF DomainOpen, t
  <2> QED BY <1>1, <1>4, <2>1, GuestAssumption DEF ClientOnly
<1>6. (t = "priv") = privileged BY <1>1 DEF shadowActive, ActiveIn, t
<1>7. Permitted(e.ap, t = "priv", TRUE) BY <1>2, <1>4, Zenon DEF PageAgrees
<1>8. MayAccess(e, privileged, TRUE) BY <1>4, <1>5, <1>6, <1>7, Zenon DEF MayAccess
<1> QED BY <1>2, <1>3, <1>8, StoreReaches DEF e, p

LEMMA EmulatedStoreImplements ==
  ASSUME ShadowInv, NEW v \in Pages, NEW size \in StoreSizes, EmulatedStore(v, size)
  PROVE  GuestNext
<1> DEFINE f == Reached(v).frame
<1>1. /\ Reached(v).type = "page" /\ mm.alive /\ enabled
      /\ MayAccess(Walk(guestPhysical, v), privileged, TRUE)
      /\ UNCHANGED <<ttbr, enabled, privileged, dacr>>
  BY DEF EmulatedStore, PermissionFault, Present, Reached, ShouldDataAbort
<1>2. \/ /\ f \in Bases /\ UNCHANGED second
         /\ \E k \in Megabytes : \E e \in FirstEntries[f][k] :
              first' = IF mm'.alive THEN [first EXCEPT ![f][k] = e] ELSE first
      \/ /\ UNCHANGED first
         /\ \E t \in {t \in Tables : t.frame = f} : \E o \in Offsets : \E e \in SecondEntries[t][o] :
              second' = IF mm'.alive THEN [second EXCEPT ![t][o] = e] ELSE second
      \/ UNCHANGED <<first, second>>
  BY DEF EmulatedStore
<1>3. Write(f)
  <2>1. CASE mm'.alive BY <1>2, <2>1 DEF Write, WriteFirst, WriteSecond, WriteData
  <2>2. CASE ~ mm'.alive BY <1>2, <2>2 DEF Write, WriteData
  <2> QED BY <2>1, <2>2
<1> QED BY <1>1, <1>3, StoreReaches

LEMMA StepImplements ==
  ASSUME Obedient, ShadowInv, [Next]_vars
  PROVE  [GuestNext]_guestVars
<1>0. privileged \in BOOLEAN BY DEF ShadowInv, TypeInv
<1>1. CASE ChangeMode
  <2>1. SetMode BY <1>0, <1>1 DEF ChangeMode, GuestChangeMode, SetMode
  <2> QED BY <2>1 DEF GuestNext
<1>2. CASE WriteTableBase
  BY <1>2 DEF WriteTableBase, WriteTTBR0, WriteACTLR, SetBase, GuestNext, guestVars
<1>3. CASE EnableMMU \/ DisableMMU
  BY <1>3 DEF EnableMMU, DisableMMU, SetEnabled, GuestNext, guestVars
<1>4. CASE WriteDACR BY <1>4 DEF WriteDACR, SetDacr, GuestNext
<1>5. CASE \E v \in Pages : DirectStore(v) BY <1>5, DirectStoreImplements
<1>6. CASE \E v \in Pages : PhysicalStore(v)
  <2>1. PICK v \in Pages : PhysicalStore(v) BY <1>6
  <2>2. Store(v) BY <2>1 DEF PhysicalStore, Store, FramesOf
  <2> QED BY <2>2 DEF GuestNext
<1>7. CASE \E v \in Pages : DomainFault(v) BY <1>7 DEF DomainFault, guestVars
<1>8. CASE \E v \in Pages, size \in StoreSizes : EmulatedStore(v, size)
  BY <1>8, EmulatedStoreImplements
<1>9. CASE \E v \in Pages, write \in BOOLEAN : TranslationFault(v, write)
  <2>1. PICK v \in Pages, write \in BOOLEAN : TranslationFault(v, write) BY <1>9
  <2>2. CASE guestPhysical \in Bases /\ ~ CanShadowMap(v)
    <3>1. enabled /\ DeliverDataAbort BY <2>1, <2>2 DEF TranslationFault
    <3>2. ~ MayAccess(Walk(guestPhysical, v), privileged, write)
      BY <2>2 DEF CanShadowMap, MayAccess
    <3> QED BY <2>2, <3>1, <3>2, AbortDelivered
  <2>3. CASE ~ (guestPhysical \in Bases /\ ~ CanShadowMap(v))
    BY <2>1, <2>3 DEF TranslationFault, guestVars
  <2> QED BY <2>2, <2>3
<1>10. CASE \E v \in Pages, write \in BOOLEAN : PermissionAbort(v, write)
  <2>1. PICK v \in Pages, write \in BOOLEAN : PermissionAbort(v, write) BY <1>10
  <2>2. CASE CanDecide(v)
    <3>1. enabled /\ DeliverDataAbort /\ guestPhysical \in Bases
      BY <2>1, <2>2 DEF PermissionAbort, PermissionFault, Present, CanDecide
    <3>2. ~ MayAccess(Walk(guestPhysical, v), privileged, write)
      BY <2>1, <2>2 DEF PermissionAbort, ShouldDataAbort
    <3> QED BY <3>1, <3>2, AbortDelivered
  <2>3. CASE ~ CanDecide(v) BY <2>1, <2>3 DEF PermissionAbort, guestVars
  <2> QED BY <2>2, <2>3
<1>11. CASE \E range \in CodeRanges : ScanBlock(range) BY <1>11 DEF ScanBlock, guestVars
<1>12. CASE UNCHANGED vars BY <1>12 DEF vars, guestVars
<1> QED
  BY <1>1, <1>2, <1>3, <1>4, <1>5, <1>6, <1>7, <1>8, <1>9, <1>10, <1>11, <1>12 DEF Next

(* The memory manager implements the memory management unit the guest       *)
(* believes it has: a store reaches the frame the guest's own tables map, or*)
(* aborts where they forbid it, as soon as the guest's tables say so.       *)
THEOREM ShadowImplementsGuestMmu == Obedient => (Spec => ImplementsGuestMmu)
<1> SUFFICES ASSUME Obedient PROVE Spec => ImplementsGuestMmu OBVIOUS
<1>1. Init => ShadowInv BY ShadowInit
<1>2. ShadowInv /\ [Next]_vars => ShadowInv' BY ShadowStep
<1>3. Init => GuestInit BY DEF Init
<1>4. ShadowInv /\ [Next]_vars => [GuestNext]_guestVars BY StepImplements
<1> QED BY <1>1, <1>2, <1>3, <1>4, PTL DEF Spec, ImplementsGuestMmu, GuestSpec

-----------------------------------------------------------------------------
(* Translated code.  Every step from m to n either keeps the pages of a     *)
(* block mapped to the same frames in the privileged table, or drops the    *)
(* block.                                                                   *)

PageKept(q, p) == p.type = "page" => q.type = "page" /\ q.frame = p.frame

CodePages(m) == {v \in Pages : \E b \in m.blocks : v \in DOMAIN b}

Kept(n, m) ==
  n.alive =>
    /\ m.alive /\ n.blocks \subseteq m.blocks
    /\ \A v \in CodePages(n) : PageKept(ShadowPage(n["priv"], v), ShadowPage(m["priv"], v))

LEMMA KeptSelf == ASSUME NEW m PROVE Kept(m, m)
BY DEF Kept, PageKept

LEMMA KeptDead == ASSUME NEW m, MMState(m), NEW n PROVE Kept(Die(m), n)
BY DieState DEF Kept

LEMMA KeptTwice ==
  ASSUME NEW m, NEW n, NEW x, Kept(n, m), Kept(x, n)
  PROVE  Kept(x, m)
<1> SUFFICES ASSUME x.alive
             PROVE  /\ m.alive /\ x.blocks \subseteq m.blocks
                    /\ \A v \in CodePages(x) :
                         PageKept(ShadowPage(x["priv"], v), ShadowPage(m["priv"], v))
  BY DEF Kept
<1>1. n.alive /\ m.alive /\ x.blocks \subseteq n.blocks /\ n.blocks \subseteq m.blocks BY DEF Kept
<1>2. ASSUME NEW v \in CodePages(x)
      PROVE  PageKept(ShadowPage(x["priv"], v), ShadowPage(m["priv"], v))
  <2>1. v \in CodePages(n) BY <1>1, <1>2 DEF CodePages
  <2>2. PageKept(ShadowPage(x["priv"], v), ShadowPage(n["priv"], v)) BY <1>2 DEF Kept
  <2>3. PageKept(ShadowPage(n["priv"], v), ShadowPage(m["priv"], v)) BY <1>1, <2>1 DEF Kept
  <2> QED BY <2>2, <2>3 DEF PageKept
<1> QED BY <1>1, <1>2

(* The operators that only map leave the blocks alone.                      *)
SameBlocks(n, m) == n.alive = m.alive /\ n.blocks = m.blocks

LEMMA PutBlocks ==
  ASSUME NEW m, MMState(m), NEW t \in Modes, NEW k, NEW e
  PROVE  SameBlocks(Put(m, t, k, e), m)
BY DEF MMState, Put, Modes, SameBlocks

LEMMA GuestWriteProtectBlocks ==
  ASSUME NEW m, MMState(m), NEW pages
  PROVE  SameBlocks(GuestWriteProtect(m, pages), m)
BY DEF MMState, GuestWriteProtect, SameBlocks

LEMMA AddPageTableInfoBlocks ==
  ASSUME NEW m, MMState(m), NEW k, NEW table
  PROVE  SameBlocks(AddPageTableInfo(m, k, table), m)
BY DEF MMState, AddPageTableInfo, SameBlocks

LEMMA RemovePageTableInfoBlocks ==
  ASSUME NEW m, MMState(m), NEW v, NEW k
  PROVE  SameBlocks(RemovePageTableInfo(m, v, k), m)
BY DEF MMState, RemovePageTableInfo, SameBlocks

LEMMA SetBlocks ==
  ASSUME NEW m, MMState(m), NEW t \in Modes, NEW k, NEW g
  PROVE  SameBlocks(Set(m, t, k, g), m)
<1> DEFINE e == SetPermissions(m[t][k], MapAccessPermissionBits(t, g.ap, g.dom))
           n == Put(m, t, k, e)
           x == IF BaseIn(g) THEN PageAt(k, Offset(guestPhysical)) ELSE n.guestVirtual
<1>1. Set(m, t, k, g) = [n EXCEPT !.guestVirtual = x] BY DEF Set
<1> HIDE DEF e, x
<1>2. SameBlocks(n, m) BY PutBlocks
<1>3. [n EXCEPT !.guestVirtual = x].alive = n.alive /\ [n EXCEPT !.guestVirtual = x].blocks = n.blocks
  BY DEF MMState, Put, Modes
<1> QED BY <1>1, <1>2, <1>3 DEF SameBlocks

LEMMA SameTablesKept ==
  ASSUME NEW m, NEW n, SameBlocks(n, m), n["priv"] = m["priv"]
  PROVE  Kept(n, m)
BY DEF SameBlocks, Kept, PageKept

(* One entry of a table changes.                                            *)
LEMMA EntryKept ==
  ASSUME NEW m, NEW n, SameBlocks(n, m), NEW t \in Modes, NEW k \in Megabytes,
         \A u \in Modes, j \in Megabytes : u # t \/ j # k => n[u][j] = m[u][j],
         m.alive /\ m[t][k].type # "fault" =>
           /\ n[t][k].type # "fault"
           /\ \A o \in Offsets : PageKept(Split(n[t][k])[o], Split(m[t][k])[o])
  PROVE  Kept(n, m)
<1> SUFFICES ASSUME n.alive, NEW v \in Pages
             PROVE  PageKept(ShadowPage(n["priv"], v), ShadowPage(m["priv"], v))
  BY DEF Kept, SameBlocks, CodePages
<1>1. Megabyte(v) \in Megabytes /\ Offset(v) \in Offsets /\ m.alive BY PagePair DEF SameBlocks
<1>2. CASE t = "priv" /\ k = Megabyte(v)
  BY <1>1, <1>2, FaultIsEntry DEF ShadowPage, PageKept
<1>3. CASE t # "priv" \/ k # Megabyte(v)
  <2>1. n["priv"][Megabyte(v)] = m["priv"][Megabyte(v)] BY <1>1, <1>3 DEF Modes
  <2> QED BY <2>1 DEF ShadowPage, PageKept
<1> QED BY <1>2, <1>3

LEMMA PutKept ==
  ASSUME NEW m, MMState(m), NEW t \in Modes, NEW k \in Megabytes, NEW e \in ShadowEntries,
         NEW n, n = Put(m, t, k, e), NEW old, old = m[t][k],
         e.type # "fault" \/ old.type = "fault",
         \A o \in Offsets : m.alive /\ old.type # "fault" => PageKept(Split(e)[o], Split(old)[o])
  PROVE  Kept(n, m)
<1>1. /\ n[t][k] = e /\ \A u \in Modes, j \in Megabytes : u # t \/ j # k => n[u][j] = m[u][j]
  BY SetEntry
<1>2. n.alive = m.alive /\ n.blocks = m.blocks BY PutBlocks DEF SameBlocks
<1> SUFFICES ASSUME n.alive, NEW v \in Pages
             PROVE  PageKept(ShadowPage(n["priv"], v), ShadowPage(m["priv"], v))
  BY <1>2 DEF Kept, CodePages
<1>3. Megabyte(v) \in Megabytes /\ Offset(v) \in Offsets /\ m.alive BY <1>2, PagePair
<1>4. CASE t = "priv" /\ k = Megabyte(v)
  BY <1>1, <1>3, <1>4, FaultIsEntry DEF ShadowPage, PageKept
<1>5. CASE t # "priv" \/ k # Megabyte(v)
  <2>1. n["priv"][Megabyte(v)] = m["priv"][Megabyte(v)] BY <1>1, <1>3, <1>5 DEF Modes
  <2> QED BY <2>1 DEF ShadowPage, PageKept
<1> QED BY <1>4, <1>5

LEMMA GuestWriteProtectKept ==
  ASSUME NEW m, MMState(m), NEW pages
  PROVE  Kept(GuestWriteProtect(m, pages), m)
<1>1. SameBlocks(GuestWriteProtect(m, pages), m) BY GuestWriteProtectBlocks
<1>2. "priv" \in Modes BY DEF Modes
<1>3. \A v \in Pages :
        Lowers(ShadowPage(GuestWriteProtect(m, pages)["priv"], v), ShadowPage(m["priv"], v))
  BY <1>2, GuestWriteProtectLowers
<1> QED BY <1>1, <1>3 DEF SameBlocks, Kept, Lowers, PageKept, CodePages

LEMMA MapAPBitsKept ==
  ASSUME NEW m, MMState(m), NEW t \in Modes, NEW k \in Megabytes, m[t][k].type # "fault",
         NEW g, guestPhysical \in Bases \cup {NoBase}
  PROVE  Kept(MapAPBitsSection(m, t, k, g), m)
<1> DEFINE n == Set(m, t, k, g)
           ap == MapAccessPermissionBits(t, g.ap, g.dom)
<1>1. /\ MMState(n) /\ n[t][k] = SetPermissions(m[t][k], ap) /\ ap \in Permissions
      /\ \A u \in Modes, j \in Megabytes : u # t \/ j # k => n[u][j] = m[u][j]
  BY SetState
<1>2. SameBlocks(n, m) BY SetBlocks
<1>3. MapAPBitsSection(m, t, k, g) = GuestWriteProtect(n, TablesIn(m, k, g)) BY MapAPBitsSectionIs
<1> HIDE DEF n, ap
<1>4. m[t][k] \in ShadowEntries BY EntryOfState
<1>5. /\ n[t][k].type = m[t][k].type
      /\ \A o \in Offsets :
           /\ Split(n[t][k])[o].type = Split(m[t][k])[o].type
           /\ Split(n[t][k])[o].type = "page" => Split(n[t][k])[o].frame = Split(m[t][k])[o].frame
  BY <1>1, <1>4, SetPermissionsType
<1>6. Kept(n, m) BY <1>1, <1>2, <1>5, EntryKept DEF PageKept
<1>7. Kept(GuestWriteProtect(n, TablesIn(m, k, g)), n) BY <1>1, GuestWriteProtectKept
<1> QED BY <1>3, <1>6, <1>7, KeptTwice

LEMMA ShadowMapSectionKept ==
  ASSUME NEW m, MMState(m), NEW t \in Modes, NEW k \in Megabytes,
         NEW g \in GuestFirstEntries, g.type = "section", guestPhysical \in Bases \cup {NoBase},
         NEW n, n = ShadowMapSection(m, t, k, g),
         NEW row, NEW sec, Agree(m, row, sec), row[k] = g
  PROVE  Kept(n, m)
<1> DEFINE e == [type |-> "section", mb |-> g.mb, ap |-> "rw_no", dom |-> g.dom]
           m1 == Put(m, t, k, e)
<1>1. /\ e \in ShadowEntries /\ e.type = "section"
      /\ \A o \in Offsets : Split(e)[o].type = "page" /\ Split(e)[o].frame = PageAt(g.mb, o)
  BY SectionEntry DEF Split
<1>2. n = Die(m) \/ n = m1 \/ n = MapAPBitsSection(m1, t, k, g) BY DEF ShadowMapSection
<1> HIDE DEF e
<1>3. /\ MMState(m1) /\ m1[t][k] = e
      /\ \A u \in Modes, j \in Megabytes : u # t \/ j # k => m1[u][j] = m[u][j]
  BY <1>1, SetEntry
<1>4. SameBlocks(m1, m) BY PutBlocks
<1>5. ASSUME m.alive, m[t][k].type # "fault", NEW o \in Offsets
      PROVE  PageKept(Split(e)[o], Split(m[t][k])[o])
  <2>1. EntryAgrees(m, t, m[t][k], g, k, sec) BY <1>5 DEF Agree, Agrees
  <2>2. PageAgrees(t, Split(m[t][k])[o], GuestPage(g, sec, o)) BY <1>5, <2>1 DEF EntryAgrees
  <2> QED BY <1>1, <2>2 DEF PageAgrees, GuestPage, PageKept
<1> HIDE DEF m1
<1>6. Kept(m1, m) BY <1>1, <1>3, <1>4, <1>5, EntryKept
<1>7. Kept(MapAPBitsSection(m1, t, k, g), m1) BY <1>1, <1>3, MapAPBitsKept
<1> QED BY <1>2, <1>6, <1>7, KeptTwice, KeptDead

LEMMA AddPageTableInfoKept ==
  ASSUME NEW m, MMState(m), NEW k \in Megabytes, NEW table \in Tables
  PROVE  Kept(AddPageTableInfo(m, k, table), m)
<1> DEFINE n == AddPageTableInfo(m, k, table)
<1>1. n["priv"] = m["priv"] BY AddPageTableInfoState DEF Modes
<1>2. SameBlocks(n, m) BY AddPageTableInfoBlocks
<1> HIDE DEF n
<1> QED BY <1>1, <1>2, SameTablesKept DEF n

LEMMA EnsureTableKept ==
  ASSUME NEW m, MMState(m), NEW t \in Modes, NEW k \in Megabytes,
         NEW g \in GuestFirstEntries, g.type = "table", NEW n, n = EnsureTable(m, t, k, g)
  PROVE  Kept(n, m)
<1>0. g.dom \in Domains /\ g.table \in Tables BY GuestEntryCases
<1>1. CASE m[t][k].type = "fault"
  <2> DEFINE e == [type |-> "table", dom |-> g.dom, page |-> NoPages]
             m1 == Put(m, t, k, e)
             m2 == AddPageTableInfo(m1, k, g.table)
             pages == MappedAt(m2, g.table.frame)
  <2>1. n = GuestWriteProtect(m2, pages) BY <1>1 DEF EnsureTable, ShadowMapPageTable
  <2>2. e \in ShadowEntries BY <1>0, TableEntry
  <2> HIDE DEF e, pages
  <2>3. MMState(m1) /\ \A u \in Modes, j \in Megabytes : u # t \/ j # k => m1[u][j] = m[u][j]
    BY <2>2, SetEntry
  <2>4. SameBlocks(m1, m) BY PutBlocks
  <2> HIDE DEF m1
  <2>5. Kept(m1, m) BY <1>1, <2>3, <2>4, EntryKept
  <2>6. Kept(m2, m1) /\ MMState(m2) BY <1>0, <2>3, AddPageTableInfoKept, AddPageTableInfoState
  <2> HIDE DEF m2
  <2>7. Kept(n, m2) BY <2>1, <2>6, GuestWriteProtectKept
  <2> QED BY <2>5, <2>6, <2>7, KeptTwice
<1>2. CASE m[t][k].type = "section"
  <2>1. n = Die(m) BY <1>2 DEF EnsureTable
  <2> QED BY <2>1, KeptDead
<1>3. CASE m[t][k].type \notin {"fault", "section"}
  <2>1. n = m \/ n = AddPageTableInfo(m, k, g.table) BY <1>3 DEF EnsureTable
  <2> QED BY <1>0, <2>1, AddPageTableInfoKept, KeptSelf
<1> QED BY <1>1, <1>2, <1>3

LEMMA ShadowMapSmallPageKept ==
  ASSUME NEW m, MMState(m), NEW t \in Modes, NEW v \in Pages, m[t][Megabyte(v)].type = "table",
         NEW p \in GuestSecondEntries, p.type = "page", NEW dom,
         NEW n, n = ShadowMapSmallPage(m, t, v, p, dom),
         NEW row, NEW sec, Agree(m, row, sec),
         row[Megabyte(v)].type = "table", sec[row[Megabyte(v)].table][Offset(v)] = p
  PROVE  Kept(n, m)
<1> DEFINE k == Megabyte(v)
           o == Offset(v)
           entry == [type |-> "page", frame |-> p.frame, ap |-> MapAccessPermissionBits(t, p.ap, dom)]
           old == m[t][k]
           e == PutPage(old, o, entry)
<1>1. k \in Megabytes /\ o \in Offsets BY PagePair
<1>2. old \in ShadowEntries BY <1>1, EntryOfState
<1>3. n = Die(m) \/ n = Put(m, t, k, e) BY DEF ShadowMapSmallPage
<1>4. p.frame \in Nat \X Offsets BY GuestPageCases
<1>5. entry \in ShadowPages /\ entry.type = "page" /\ entry.frame = p.frame
  BY <1>4, PermissionsMapped DEF ShadowPages, Permissions
<1> HIDE DEF entry
<1>6. /\ e \in ShadowEntries /\ e.type = "table"
      /\ Split(e)[o] = entry /\ \A x \in Offsets : x # o => Split(e)[x] = Split(old)[x]
  BY <1>1, <1>2, <1>5, PutPageType
<1> HIDE DEF e
<1>7. ASSUME m.alive, NEW x \in Offsets PROVE PageKept(Split(e)[x], Split(old)[x])
  <2>1. CASE x = o
    <3>1. EntryAgrees(m, t, old, row[k], k, sec) BY <1>1, <1>7 DEF Agree, Agrees
    <3>2. GuestPage(row[k], sec, o) = p BY DEF GuestPage
    <3>3. PageAgrees(t, Split(old)[o], p) BY <1>1, <3>1, <3>2 DEF EntryAgrees
    <3> QED BY <1>5, <1>6, <2>1, <3>3 DEF PageAgrees, PageKept
  <2>2. CASE x # o BY <1>6, <2>2 DEF PageKept
  <2> QED BY <2>1, <2>2
<1>8. CASE n = Put(m, t, k, e)
  <2>1. e.type # "fault" BY <1>6
  <2> HIDE DEF k, old
  <2>2. k \in Megabytes /\ old = m[t][k] BY <1>1 DEF old
  <2> QED BY <1>6, <1>7, <1>8, <2>1, <2>2, PutKept
<1> QED BY <1>3, <1>8, KeptDead

LEMMA ShadowMapKept ==
  ASSUME NEW m, MMState(m), NEW t \in Modes, NEW v \in Pages, GuestTypeOK, SecondOK(second),
         NEW n, n = ShadowMap(m, t, v), NEW sec, Agree(m, Row, sec),
         sec = second \/ Row[Megabyte(v)].type = "section"
  PROVE  Kept(n, m)
<1> DEFINE k == Megabyte(v)
           g == first[guestPhysical][k]
           p == second[g.table][Offset(v)]
           m1 == EnsureTable(m, t, k, g)
<1>1. k \in Megabytes /\ Offset(v) \in Offsets BY PagePair
<1>2. CASE guestPhysical \notin Bases BY <1>2, KeptDead DEF ShadowMap
<1>3. CASE guestPhysical \in Bases
  <2>1. g \in GuestFirstEntries /\ g \in FirstEntries[guestPhysical][k] /\ Row[k] = g
    BY <1>1, <1>3 DEF GuestTypeOK, Row
  <2>2. CASE g.type = "section"
    <3>1. n = ShadowMapSection(m, t, k, g) BY <1>3, <2>2 DEF ShadowMap
    <3> QED BY <1>1, <1>3, <2>1, <2>2, <3>1, ShadowMapSectionKept
  <2>3. CASE g.type = "table"
    <3>1. MMState(m1) /\ (m1.alive => m1[t][k].type = "table")
      BY <1>1, <2>1, <2>3, EnsureTableType
    <3>2. Kept(m1, m) BY <1>1, <2>1, <2>3, EnsureTableKept
    <3>3. p \in GuestSecondEntries BY <1>1, <2>1, <2>3, GuestEntryCases DEF SecondOK
    <3>4. n = IF m1.alive /\ p.type = "page" THEN ShadowMapSmallPage(m1, t, v, p, g.dom) ELSE m1
      BY <1>3, <2>3 DEF ShadowMap
    <3>5. Agree(m1, Row, sec) BY <1>1, <1>3, <2>1, <2>3, EnsureTableAgrees
    <3>6. /\ Row[Megabyte(v)].type = "table"
          /\ sec[Row[Megabyte(v)].table][Offset(v)] = p
      BY <2>1, <2>3
    <3> HIDE DEF m1, p
    <3>7. Kept(n, m1)
      <4>1. CASE m1.alive /\ p.type = "page"
        BY <3>1, <3>3, <3>4, <3>5, <3>6, <4>1, ShadowMapSmallPageKept
      <4>2. CASE ~ (m1.alive /\ p.type = "page") BY <3>4, <4>2, KeptSelf
      <4> QED BY <4>1, <4>2
    <3> QED BY <3>2, <3>7, KeptTwice
  <2>4. CASE g.type \notin {"section", "table"}
    <3>1. n = m BY <1>3, <2>4 DEF ShadowMap
    <3> QED BY <3>1, KeptSelf
  <2> QED BY <2>2, <2>3, <2>4
<1> QED BY <1>2, <1>3

(* Unmapping drops the blocks of what it unmaps.                            *)
LEMMA ClearKept ==
  ASSUME NEW m, MMState(m), NEW pages, NEW n, n = ClearTranslations(m, pages)
  PROVE  Kept(n, m) /\ \A v \in CodePages(n) : v \notin pages
<1>1. n["priv"] = m["priv"] /\ SameRecords(n, m) BY ClearState DEF Modes
<1>2. n.blocks = {b \in m.blocks : DOMAIN b \cap pages = {}} BY DEF ClearTranslations, MMState
<1> QED BY <1>1, <1>2 DEF Kept, PageKept, CodePages, SameRecords

LEMMA CutKept ==
  ASSUME NEW m, MMState(m), NEW t \in Modes, NEW k \in Megabytes, NEW e \in ShadowEntries,
         NEW pages, NEW n, n = ClearTranslations(Put(m, t, k, e), pages),
         \A o \in Offsets : PageAt(k, o) \in pages
                            \/ (m[t][k].type # "fault" /\ e.type # "fault" /\ Split(e)[o] = Split(m[t][k])[o])
  PROVE  Kept(n, m)
<1> DEFINE p == Put(m, t, k, e)
<1>1. /\ MMState(p) /\ p[t][k] = e
      /\ \A u \in Modes, j \in Megabytes : u # t \/ j # k => p[u][j] = m[u][j]
  BY SetEntry
<1>2. SameBlocks(p, m) BY PutBlocks
<1> HIDE DEF p
<1>3. Kept(n, p) /\ \A v \in CodePages(n) : v \notin pages BY <1>1, ClearKept DEF p
<1>4. n["priv"] = p["priv"] BY <1>1, ClearState DEF Modes, p
<1> SUFFICES ASSUME n.alive, NEW v \in CodePages(n)
             PROVE  ShadowPage(n["priv"], v) = ShadowPage(m["priv"], v)
  BY <1>2, <1>3 DEF Kept, SameBlocks, PageKept
<1>5. v \in Pages /\ v \notin pages BY <1>3 DEF CodePages
<1>6. Megabyte(v) \in Megabytes /\ Offset(v) \in Offsets /\ v = PageAt(Megabyte(v), Offset(v))
  BY <1>5, PagePair
<1>7. CASE t = "priv" /\ Megabyte(v) = k BY <1>1, <1>4, <1>5, <1>6, <1>7 DEF ShadowPage
<1>8. CASE ~ (t = "priv" /\ Megabyte(v) = k)
  <2>1. p["priv"][Megabyte(v)] = m["priv"][Megabyte(v)] BY <1>1, <1>6, <1>8 DEF Modes
  <2> QED BY <1>4, <2>1 DEF ShadowPage
<1> QED BY <1>7, <1>8

LEMMA UnmapKept ==
  ASSUME NEW m, MMState(m), NEW t \in Modes, NEW k \in Megabytes, NEW n,
         (\E g : n = ShadowUnmapSection(m, t, k, g)) \/ n = ShadowUnmapPageTable(m, t, k)
  PROVE  Kept(n, m)
<1>1. n \in {m, Die(m)} \/ n = ClearTranslations(Put(m, t, k, Fault), PagesOf(k))
  BY DEF ShadowUnmapSection, ShadowUnmapPageTable
<1>2. \A o \in Offsets : PageAt(k, o) \in PagesOf(k) BY DEF PagesOf
<1>3. CASE n = ClearTranslations(Put(m, t, k, Fault), PagesOf(k))
  BY <1>2, <1>3, CutKept, FaultIsEntry
<1> QED BY <1>1, <1>3, KeptSelf, KeptDead

LEMMA UnmapSmallPageKept ==
  ASSUME NEW m, MMState(m), NEW t \in Modes, NEW v \in Pages, NEW frame,
         NEW n, n = ShadowUnmapSmallPage(m, t, v, frame)
  PROVE  Kept(n, m)
<1> DEFINE k == Megabyte(v)
           e == m[t][k]
           f == PutPage(e, Offset(v), Fault)
<1>0. k \in Megabytes /\ Offset(v) \in Offsets /\ e \in ShadowEntries /\ v = PageAt(k, Offset(v))
  BY PagePair, EntryOfState
<1>1. \/ n \in {m, Die(m)}
      \/ e.type = "table" /\ n = ClearTranslations(Put(m, t, k, f), {v})
  BY <1>0, EntryCases DEF ShadowUnmapSmallPage
<1>2. CASE e.type = "table" /\ n = ClearTranslations(Put(m, t, k, f), {v})
  <2>1. /\ f \in ShadowEntries /\ f.type = "table"
        /\ \A x \in Offsets : x # Offset(v) => Split(f)[x] = Split(e)[x]
    BY <1>0, <1>2, FaultIsEntry, PutPageType
  <2> HIDE DEF f
  <2>2. \A o \in Offsets : PageAt(k, o) \in {v}
                           \/ (e.type # "fault" /\ f.type # "fault" /\ Split(f)[o] = Split(e)[o])
    BY <1>0, <1>2, <2>1
  <2> HIDE DEF k
  <2> QED BY <1>0, <1>2, <2>1, <2>2, CutKept
<1> QED BY <1>1, <1>2, KeptSelf, KeptDead

LEMMA EditAttributesKept ==
  ASSUME NEW m, MMState(m), NEW t \in Modes, NEW k \in Megabytes, guestPhysical \in Bases \cup {NoBase},
         NEW old, NEW new \in GuestFirstEntries, new.type = "section",
         NEW n, n = EditAttributesSection(m, t, k, old, new)
  PROVE  Kept(n, m)
<1> DEFINE m1 == SetDomain(m, t, k, old, new)
<1>1. n = IF m[t][k].type = "fault" THEN m
          ELSE IF old.mb # new.mb THEN Die(m)
          ELSE IF old.ap = new.ap THEN m1 ELSE MapAPBitsSection(m1, t, k, new)
  BY EditAttributesIs
<1>2. CASE m[t][k].type = "fault" BY <1>1, <1>2, KeptSelf
<1>3. CASE m[t][k].type # "fault"
  <2>1. MMState(m1) /\ m1[t][k].type # "fault" BY <1>3, SetDomainState
  <2>2. Kept(m1, m)
    <3>1. CASE old.dom = new.dom BY <3>1, KeptSelf DEF SetDomain
    <3>2. CASE old.dom # new.dom
      <4> DEFINE e == [m[t][k] EXCEPT !.dom = new.dom]
      <4>1. m[t][k] \in ShadowEntries /\ new.dom \in Domains BY EntryOfState, GuestEntryCases
      <4>2. e \in ShadowEntries /\ e.type = m[t][k].type /\ Split(e) = Split(m[t][k])
        BY <1>3, <4>1, DomainEntry
      <4>3. m1 = Put(m, t, k, e) BY <3>2 DEF SetDomain
      <4> HIDE DEF e, m1
      <4>4. \A o \in Offsets : PageKept(Split(e)[o], Split(m[t][k])[o]) BY <4>2 DEF PageKept
      <4> QED BY <1>3, <4>2, <4>3, <4>4, PutKept
    <3> QED BY <3>1, <3>2
  <2> HIDE DEF m1
  <2>3. Kept(MapAPBitsSection(m1, t, k, new), m1) BY <2>1, MapAPBitsKept
  <2> QED BY <1>1, <1>3, <2>2, <2>3, KeptTwice, KeptDead
<1> QED BY <1>2, <1>3

LEMMA EditFirstKept ==
  ASSUME NEW m, MMState(m), NEW v, NEW k \in Megabytes, NEW new \in GuestFirstEntries,
         GuestTypeOK, NEW n, n = EditFirst(m, v, k, new)
  PROVE  Kept(n, m)
<1> DEFINE old == first[guestPhysical][k]
           m1 == RemovePageTableInfo(m, v, k)
           m2 == ShadowUnmapPageTable(m1, "priv", k)
           m3 == ShadowUnmapSection(m, "priv", k, old)
           m4 == EditAttributesSection(m, "priv", k, old, new)
<1>0. "priv" \in Modes /\ "user" \in Modes /\ guestPhysical \in Bases \cup {NoBase}
  BY DEF Modes, GuestTypeOK
<1>1. CASE n = ShadowUnmapPageTable(m2, "user", k)
  <2>1. MMState(m1) /\ m1["priv"] = m["priv"] BY <1>0, RemoveRecordState
  <2>2. SameBlocks(m1, m) BY RemovePageTableInfoBlocks
  <2> HIDE DEF m1
  <2>3. Kept(m1, m) BY <2>1, <2>2, SameTablesKept
  <2>4. Kept(m2, m1) /\ MMState(m2) BY <1>0, <2>1, UnmapKept, UnmapPageTableUnmaps DEF Unmapped
  <2> HIDE DEF m2
  <2>5. Kept(n, m2) BY <1>0, <1>1, <2>4, UnmapKept
  <2> QED BY <2>3, <2>4, <2>5, KeptTwice
<1>2. CASE n = ShadowUnmapSection(m3, "user", k, old)
  <2>1. Kept(m3, m) /\ MMState(m3) BY <1>0, UnmapKept, UnmapSectionUnmaps DEF Unmapped
  <2> HIDE DEF m3
  <2>2. Kept(n, m3) BY <1>0, <1>2, <2>1, UnmapKept
  <2> QED BY <2>1, <2>2, KeptTwice
<1>3. CASE new.type = "section" /\ n = EditAttributesSection(m4, "user", k, old, new)
  <2>1. Kept(m4, m) /\ MMState(m4) BY <1>0, <1>3, EditAttributesKept, EditAttributesType
  <2> HIDE DEF m4
  <2>2. Kept(n, m4) BY <1>0, <1>3, <2>1, EditAttributesKept
  <2> QED BY <2>1, <2>2, KeptTwice
<1> QED BY <1>1, <1>2, <1>3, EditFirstCases, KeptSelf, KeptDead

LEMMA EditSecondKept ==
  ASSUME NEW m, MMState(m), NEW v, NEW t \in Tables, NEW o \in Offsets, NEW new,
         NEW n, n = EditSecond(m, v, t, o, new)
  PROVE  Kept(n, m)
<1> DEFINE old == second[t][o]
           recs == {i \in DOMAIN m.gptInfo : m.gptInfo[i].table = t}
           x == Found(recs)
           mb == m.gptInfo[x].mb
           w == PageAt(mb, o)
           m1 == ShadowUnmapSmallPage(m, "user", w, old.frame)
           m2 == ShadowUnmapSmallPage(m1, "priv", w, old.frame)
<1>1. n \in {m, Die(m)} \/ (n = m2 /\ Earliest(recs) # {})
  BY DEF EditSecond
<1>2. CASE n = m2 /\ Earliest(recs) # {}
  <2>1. x \in recs BY <1>2, FoundIn
  <2>2. x \in DOMAIN m.gptInfo /\ m.gptInfo[x] \in Range(m.gptInfo) BY <2>1 DEF Range
  <2>3. mb \in Megabytes BY <2>2, RecordsOfState
  <2>4. w \in Pages /\ "user" \in Modes /\ "priv" \in Modes BY <2>3, PageAtPage DEF Modes
  <2> HIDE DEF w
  <2>5. Kept(m1, m) /\ MMState(m1)
    BY <2>4, UnmapSmallPageKept, UnmapSmallPageUnmaps DEF Unmapped
  <2> HIDE DEF m1
  <2>6. Kept(n, m1) BY <1>2, <2>4, <2>5, UnmapSmallPageKept
  <2> QED BY <2>5, <2>6, KeptTwice
<1> QED BY <1>1, <1>2, KeptSelf, KeptDead

-----------------------------------------------------------------------------
(* While the guest's MMU is off there are no blocks; while it is on every   *)
(* page of a block is mapped in the privileged table, to the frame its code *)
(* came from.                                                               *)
CodeInv ==
  mm.alive =>
    /\ ~ enabled => mm.blocks = {}
    /\ enabled => \A b \in mm.blocks : \A v \in DOMAIN b :
         /\ v \in Pages /\ ShadowPage(mm["priv"], v).type = "page"
         /\ ShadowPage(mm["priv"], v).frame = b[v]

(* The guest changes its table base only with its MMU off, and runs no code *)
(* of its own before it has switched it on.                                 *)
SettledGuest == "ttbr" \notin Guest /\ "boot" \notin Guest /\ CodeRanges \subseteq SUBSET Pages

LEMMA KeptNext ==
  ASSUME CodeInv, Kept(mm', mm), enabled' = enabled
  PROVE  CodeInv'
<1> SUFFICES ASSUME mm'.alive
             PROVE  /\ ~ enabled => mm'.blocks = {}
                    /\ enabled => \A b \in mm'.blocks : \A v \in DOMAIN b :
                         /\ v \in Pages /\ ShadowPage(mm'["priv"], v).type = "page"
                         /\ ShadowPage(mm'["priv"], v).frame = b[v]
  BY DEF CodeInv
<1>1. mm.alive /\ mm'.blocks \subseteq mm.blocks BY DEF Kept
<1>2. ASSUME enabled, NEW b \in mm'.blocks, NEW v \in DOMAIN b
      PROVE  /\ v \in Pages /\ ShadowPage(mm'["priv"], v).type = "page"
             /\ ShadowPage(mm'["priv"], v).frame = b[v]
  <2>1. /\ v \in Pages /\ ShadowPage(mm["priv"], v).type = "page"
        /\ ShadowPage(mm["priv"], v).frame = b[v]
    BY <1>1, <1>2 DEF CodeInv
  <2>2. v \in CodePages(mm') BY <1>2, <2>1 DEF CodePages
  <2>3. PageKept(ShadowPage(mm'["priv"], v), ShadowPage(mm["priv"], v)) BY <2>2 DEF Kept
  <2> QED BY <2>1, <2>3 DEF PageKept
<1> QED BY <1>1, <1>2 DEF CodeInv

LEMMA BecomeKept ==
  ASSUME MMState(mm), NEW n, Become(n), Kept(n, mm)
  PROVE  Kept(mm', mm)
BY KeptDead DEF Become

LEMMA GuestChangeModeKept ==
  ASSUME AgreeBase, NEW priv \in BOOLEAN, GuestChangeMode(mm, priv)
  PROVE  Kept(mm', mm)
<1> DEFINE t == ActiveIn(priv)
           v == mm.guestVirtual
           n == IF priv = privileged THEN mm ELSE SwitchAddressing(mm, priv)
<1>1. /\ t \in Modes /\ MMState(mm) /\ GuestTypeOK /\ Agree(mm, Row, second) /\ SecondOK(second)
  BY DEF ActiveIn, Modes, TypeInv, AgreeBase, AgreeInv
<1>2. Become(n) BY DEF GuestChangeMode
<1>3. Kept(n, mm)
  <2>1. CASE n \in {mm, Die(mm)} BY <1>1, <2>1, KeptSelf, KeptDead
  <2>2. CASE v # NoBase /\ n = ShadowMap(mm, t, v)
    <3>1. v \in Pages BY <1>1, <2>2 DEF MMState
    <3> QED BY <1>1, <2>2, <3>1, ShadowMapKept
  <2> QED BY <2>1, <2>2 DEF SwitchAddressing
<1> HIDE DEF n
<1> QED BY <1>1, <1>2, <1>3, BecomeKept

LEMMA EmulatedStoreKept ==
  ASSUME AgreeBase, NEW v \in Pages, NEW size \in StoreSizes, EmulatedStore(v, size)
  PROVE  Kept(mm', mm)
<1> DEFINE p == Reached(v)
           f == p.frame
           m0 == ClearTranslations(mm, {v})
<1>0. /\ Assumed /\ OnePlace /\ ClientOnly /\ NoDeprecated /\ TypeInv /\ dacr \in Dacrs
      /\ SafeInv /\ SecondOK(second) /\ Agree(mm, Row, second) /\ HomeStaysMapped /\ size = "word"
  BY DEF AgreeBase, Obedient, AgreeInv, Assumed
<1>1. /\ MMState(mm) /\ GuestTypeOK /\ shadowActive \in Modes
      /\ p.type = "page" /\ guestPhysical \in Bases
      /\ MayAccess(Walk(guestPhysical, v), privileged, TRUE)
      /\ Row \in [Megabytes -> GuestFirstEntries]
  BY <1>0, RowType DEF TypeInv, EmulatedStore, PermissionFault, CanDecide, Present, Reached,
     shadowActive, ActiveIn, Modes, ShouldDataAbort
<1>2. /\ MMState(m0) /\ SameRecords(m0, mm) /\ \A t \in Modes : m0[t] = mm[t]
  BY <1>1, ClearState
<1>3. ShadowPage(m0[shadowActive], v) = p BY <1>1, <1>2 DEF Reached
<1>4. Kept(m0, mm) BY <1>1, ClearKept
<1>5. Safe(m0, Row) /\ Agree(m0, Row, second)
  <2>1. Safe(m0, Row) BY <1>0, <1>2, SameTablesSafe DEF SafeInv
  <2> HIDE DEF m0
  <2>2. Agree(m0, Row, second)
    BY <1>0, <1>2 DEF Agree, Agrees, EntryAgrees, Placed, SameRecords
  <2> QED BY <2>1, <2>2
<1>6. \/ \E k \in Megabytes : \E e \in FirstEntries[f][k] :
           Become(StoreValue(IF f = guestPhysical THEN EditFirst(m0, v, k, e) ELSE m0, v))
      \/ \E t \in Tables : \E o \in Offsets : \E e \in SecondEntries[t][o] :
           Become(StoreValue(EditSecond(m0, v, t, o, e), v))
      \/ Become(StoreValue(m0, v))
  BY <1>0 DEF EmulatedStore
<1> HIDE DEF m0, p
<1>7. StoreValue(m0, v) = m0 BY <1>1, <1>3, StoreStays
<1>8. CASE Become(m0) BY <1>1, <1>4, <1>8, BecomeKept
<1>9. ASSUME f = guestPhysical, NEW k \in Megabytes, NEW e \in FirstEntries[guestPhysical][k],
             Become(StoreValue(EditFirst(m0, v, k, e), v))
      PROVE  Kept(mm', mm)
  <2> DEFINE n == EditFirst(m0, v, k, e)
  <2>1. e \in GuestFirstEntries BY <1>1, <1>9, GuestAssumption
  <2>2. Kept(n, m0) BY <1>1, <1>2, <2>1, EditFirstKept
  <2>3. n.alive => StoreValue(n, v) = n
    <3>1. PICK z : z = m0 OBVIOUS
    <3>2. PICK row : row = Row OBVIOUS
    <3>3. PICK q : q = n OBVIOUS
    <3>4. /\ MMState(z) /\ GuestTypeOK /\ guestPhysical \in Bases
          /\ q = EditFirst(z, v, k, e) /\ row = Row
          /\ HomeStaysMapped /\ ClientOnly /\ NoDeprecated /\ Safe(z, Row)
          /\ Agree(z, row, second)
          /\ ShadowPage(z[shadowActive], v).type = "page"
          /\ ShadowPage(z[shadowActive], v).frame = guestPhysical
          /\ dacr \in Dacrs /\ MayAccess(Walk(guestPhysical, v), privileged, TRUE)
      BY <1>0, <1>1, <1>2, <1>3, <1>5, <1>9, <3>1, <3>2, <3>3
    <3>5. /\ Agree(StoreValue(q, v), SetEntryOf(row, k, e), second)
          /\ q.alive => StoreValue(q, v) = q
      <4> HIDE DEF n, f
      <4>1. Stored(q, v, SetEntryOf(row, k, e), second) BY <3>4, EditFirstAgrees
      <4> QED BY <4>1 DEF Stored
    <3> HIDE DEF n
    <3> QED BY <3>3, <3>5
  <2> HIDE DEF n
  <2>4. StoreValue(n, v) = n BY <2>3, StoreStays
  <2>5. Become(n) BY <1>9, <2>4 DEF n
  <2> QED BY <1>1, <1>4, <2>2, <2>5, KeptTwice, BecomeKept
<1>10. ASSUME NEW t \in Tables, NEW o \in Offsets, NEW e \in SecondEntries[t][o],
              Become(StoreValue(EditSecond(m0, v, t, o, e), v))
       PROVE  Kept(mm', mm)
  <2> DEFINE n == EditSecond(m0, v, t, o, e)
             s == SetPage(second, t, o, e)
  <2>1. e \in GuestSecondEntries /\ RowOK(Row) BY <1>1, <1>10, GuestAssumption, RowIsOK
  <2>2. MMState(n) BY <1>1, <1>2, EditSecondType
  <2>3. Kept(n, m0) BY <1>2, EditSecondKept
  <2>4. Agree(n, Row, s) /\ (n.alive => n = m0 \/ CanLocate(m0, v))
    <3>1. PICK z : z = m0 OBVIOUS
    <3>2. PICK row : row = Row OBVIOUS
    <3>3. PICK q : q = n OBVIOUS
    <3>4. /\ MMState(z) /\ GuestTypeOK /\ OnePlace /\ q = EditSecond(z, v, t, o, e)
          /\ row \in [Megabytes -> GuestFirstEntries] /\ RowOK(row) /\ Agree(z, row, second)
      BY <1>0, <1>1, <1>2, <1>5, <2>1, <3>1, <3>2, <3>3
    <3>5. Agree(q, row, SetPage(second, t, o, e)) BY <2>1, <3>4, EditSecondAgrees
    <3>6. q.alive => z.alive /\ (q = z \/ CanLocate(z, v)) BY <2>1, <3>4, EditSecondAgrees
    <3> HIDE DEF n
    <3> QED BY <3>1, <3>2, <3>3, <3>5, <3>6
  <2>5. Become(StoreValue(n, v)) BY <1>10
  <2> HIDE DEF n, s
  <2>6. Kept(StoreValue(n, v), n)
    <3>1. CASE StoreValue(n, v) = n BY <3>1, KeptSelf
    <3>2. CASE StoreValue(n, v) # n
      <4>1. n.alive /\ ShadowPage(n[shadowActive], v).type = "fault"
            /\ StoreValue(n, v) = ShadowMap(n, shadowActive, v)
        BY <3>2 DEF StoreValue
      <4>2. n # m0 BY <1>1, <1>3, <4>1
      <4>3. Row[Megabyte(v)].type = "section" BY <1>1, <2>4, <4>1, <4>2 DEF CanLocate, Row
      <4> QED BY <1>0, <1>1, <2>2, <2>4, <4>1, <4>3, ShadowMapKept
    <3> QED BY <3>1, <3>2
  <2> QED BY <1>1, <1>4, <2>3, <2>5, <2>6, KeptTwice, BecomeKept
<1> QED BY <1>6, <1>7, <1>8, <1>9, <1>10

LEMMA ScanBlockFollows ==
  ASSUME AgreeBase, CodeInv, SettledGuest, NEW range \in CodeRanges, ScanBlock(range)
  PROVE  CodeInv'
<1> DEFINE n == GuestWriteProtect(mm, RangeFrom(range))
           b == [v \in range |-> Reached(v).frame]
<1>1. MMState(mm) /\ mm.alive /\ privileged /\ enabled /\ enabled' = enabled /\ range \subseteq Pages
  BY DEF AgreeBase, TypeInv, ScanBlock, SettledGuest
<1>2. MMState(n) /\ SameBlocks(n, mm) BY <1>1, GuestWriteProtectState, GuestWriteProtectBlocks
<1>3. /\ mm' = [n EXCEPT !.blocks = mm.blocks \cup {b}]
      /\ \A v \in range : Present(v)
  BY <1>1, <1>2 DEF ScanBlock, SameBlocks
<1>4. \A v \in Pages : Lowers(ShadowPage(n["priv"], v), ShadowPage(mm["priv"], v))
  BY <1>1, GuestWriteProtectLowers DEF Modes
<1>5. \A v \in range : /\ ShadowPage(mm["priv"], v).type = "page"
                       /\ b[v] = ShadowPage(mm["priv"], v).frame
  BY <1>1, <1>3 DEF Present, Reached, shadowActive, ActiveIn
<1>6. DOMAIN b = range OBVIOUS
<1> HIDE DEF n, b
<1>7. mm'["priv"] = n["priv"] /\ mm'.blocks = mm.blocks \cup {b} /\ mm'.alive
  BY <1>1, <1>2, <1>3 DEF MMState, SameBlocks
<1> SUFFICES ASSUME NEW c \in mm'.blocks, NEW v \in DOMAIN c
             PROVE  /\ v \in Pages /\ ShadowPage(mm'["priv"], v).type = "page"
                    /\ ShadowPage(mm'["priv"], v).frame = c[v]
  BY <1>1, <1>7 DEF CodeInv
<1>8. /\ v \in Pages /\ ShadowPage(mm["priv"], v).type = "page"
      /\ ShadowPage(mm["priv"], v).frame = c[v]
  <2>1. CASE c = b BY <1>1, <1>5, <1>6, <2>1
  <2>2. CASE c \in mm.blocks BY <1>1, <2>2 DEF CodeInv
  <2> QED BY <1>7, <2>1, <2>2
<1> QED BY <1>4, <1>7, <1>8 DEF Lowers

LEMMA CodeStep ==
  ASSUME AgreeBase, CodeInv, SettledGuest, [Next]_vars
  PROVE  CodeInv'
<1>0. MMState(mm) /\ enabled \in BOOLEAN BY DEF AgreeBase, TypeInv
<1>1. CASE ChangeMode BY <1>1, GuestChangeModeKept, KeptNext DEF ChangeMode
<1>2. CASE WriteTableBase
  <2>1. ~ enabled /\ mm.alive /\ enabled' = enabled BY <1>2 DEF WriteTableBase, SettledGuest
  <2>2. mm' = [mm EXCEPT !.guestVirtual = NoBase]
    BY <1>2, <2>1 DEF WriteTableBase, WriteTTBR0, WriteACTLR, GuestSetPageTableBase
  <2>3. mm'.blocks = mm.blocks BY <1>0, <2>2 DEF MMState
  <2> QED BY <2>1, <2>3 DEF CodeInv
<1>3. CASE EnableMMU
  <2>1. mm.blocks = {} BY <1>3 DEF EnableMMU, CodeInv
  <2>2. CASE guestPhysical = NoBase BY <1>0, <1>3, <2>2, DieState DEF EnableMMU, CodeInv
  <2>3. CASE guestPhysical # NoBase
    <3>1. mm'.blocks = mm.blocks BY <1>0, <1>3, <2>3 DEF EnableMMU, EmptyTables, MMState
    <3> QED BY <1>3, <2>1, <2>3, <3>1 DEF EnableMMU, CodeInv
  <2> QED BY <2>2, <2>3
<1>4. CASE DisableMMU
  <2>1. mm'.blocks = {} /\ enabled' = FALSE BY <1>0, <1>4 DEF DisableMMU, EmptyTables, MMState
  <2> QED BY <2>1 DEF CodeInv
<1>5. CASE WriteDACR BY <1>5, KeptSelf, KeptNext DEF WriteDACR
<1>6. CASE \E v \in Pages : DirectStore(v) BY <1>6, KeptSelf, KeptNext DEF DirectStore
<1>7. CASE \E v \in Pages : PhysicalStore(v)
  BY <1>0, <1>7, ClearKept, KeptNext DEF PhysicalStore
<1>8. CASE \E v \in Pages : DomainFault(v)
  BY <1>0, <1>8, KeptDead, KeptNext DEF DomainFault
<1>9. CASE \E v \in Pages, size \in StoreSizes : EmulatedStore(v, size)
  BY <1>9, EmulatedStoreKept, KeptNext DEF EmulatedStore
<1>10. CASE \E v \in Pages, write \in BOOLEAN : TranslationFault(v, write)
  <2>1. PICK v \in Pages, write \in BOOLEAN : TranslationFault(v, write) BY <1>10
  <2>2. CASE DeliverDataAbort BY <2>2, GuestChangeModeKept, KeptNext DEF DeliverDataAbort
  <2>3. CASE Become(ShadowMap(mm, shadowActive, v)) /\ enabled' = enabled
    <3> DEFINE n == ShadowMap(mm, shadowActive, v)
    <3>1. /\ shadowActive \in Modes /\ GuestTypeOK /\ SecondOK(second) /\ Agree(mm, Row, second)
      BY DEF shadowActive, ActiveIn, Modes, TypeInv, AgreeBase, AgreeInv
    <3>2. Kept(n, mm) BY <1>0, <3>1, ShadowMapKept
    <3> HIDE DEF n
    <3>3. Kept(mm', mm) BY <1>0, <2>3, <3>2, BecomeKept DEF n
    <3> QED BY <2>3, <3>3, KeptNext
  <2> QED BY <2>1, <2>2, <2>3 DEF TranslationFault
<1>11. CASE \E v \in Pages, write \in BOOLEAN : PermissionAbort(v, write)
  <2>1. PICK v \in Pages, write \in BOOLEAN : PermissionAbort(v, write) BY <1>11
  <2>2. CASE DeliverDataAbort BY <2>2, GuestChangeModeKept, KeptNext DEF DeliverDataAbort
  <2>3. CASE mm' = Die(mm) /\ enabled' = enabled BY <1>0, <2>3, KeptDead, KeptNext
  <2> QED BY <2>1, <2>2, <2>3 DEF PermissionAbort
<1>12. CASE \E range \in CodeRanges : ScanBlock(range) BY <1>12, ScanBlockFollows
<1>13. CASE UNCHANGED vars BY <1>13, KeptSelf, KeptNext DEF vars
<1> QED
  BY <1>1, <1>2, <1>3, <1>4, <1>5, <1>6, <1>7, <1>8, <1>9, <1>10, <1>11, <1>12, <1>13 DEF Next

LEMMA CodeInvImplies ==
  ASSUME ShadowInv, CodeInv
  PROVE  CodeFollowsTable
<1> SUFFICES ASSUME mm.alive, enabled, NEW b \in mm.blocks, NEW v \in DOMAIN b
             PROVE  Walk(guestPhysical, v).type = "page" /\ Walk(guestPhysical, v).frame = b[v]
  BY DEF CodeFollowsTable
<1>1. v \in Pages /\ ShadowPage(mm["priv"], v).type = "page" /\ ShadowPage(mm["priv"], v).frame = b[v]
  BY DEF CodeInv
<1>2. TypeInv /\ AgreeInv /\ "priv" \in Modes BY DEF ShadowInv, Modes
<1> QED BY <1>1, <1>2, MappedPage

(* Translated code is code the guest still maps there: no edit of the       *)
(* guest's tables goes by without the blocks of the page being dropped.     *)
THEOREM CodeStaysMapped == Obedient /\ SettledGuest => (Spec => []CodeFollowsTable)
<1> SUFFICES ASSUME Obedient, SettledGuest PROVE Spec => []CodeFollowsTable OBVIOUS
<1>1. Init => ShadowInv /\ CodeInv BY ShadowInit DEF Init, CodeInv
<1>2. ShadowInv /\ [Next]_vars => ShadowInv' BY ShadowStep
<1>3. ShadowInv /\ CodeInv /\ [Next]_vars => CodeInv'
  BY CodeStep DEF AgreeBase, ShadowInv
<1>4. ShadowInv /\ CodeInv => CodeFollowsTable BY CodeInvImplies
<1> QED BY <1>1, <1>2, <1>3, <1>4, PTL DEF Spec

-----------------------------------------------------------------------------
(* Stores to translated code.  What the proof assumes of the guest's code.  *)
CodeAddresses == UNION CodeRanges

Leads(e, o) ==
  CASE e.type = "section" -> {[frame |-> PageAt(e.mb, o), ap |-> e.ap]}
    [] e.type = "table"   -> {[frame |-> p.frame, ap |-> p.ap] :
                                p \in {q \in SecondEntries[e.table][o] : q.type = "page"}}
    [] OTHER -> {}

(* The mappings of page v that the guest may make.                          *)
MappingsAt(v) ==
  UNION {UNION {Leads(e, Offset(v)) : e \in FirstEntries[b][Megabyte(v)]} : b \in Bases}

(* A page of code is mapped at one address.                                 *)
CodeAtOnePlace ==
  \A v \in CodeAddresses, w \in Pages :
    \A x \in MappingsAt(v), y \in MappingsAt(w) : x.frame = y.frame => v = w

(* ... where user code cannot write it.                                     *)
CodeNotOfUsers == \A v \in CodeAddresses : \A x \in MappingsAt(v) : ~ Permitted(x.ap, FALSE, TRUE)

(* A block goes on in the megabyte it starts in, or in pages that nobody    *)
(* can write.                                                               *)
CodeBeyondStart ==
  \A range \in CodeRanges : \A v \in range :
    \/ Megabyte(v) = Megabyte(Start(range))
    \/ \A x \in MappingsAt(v) : ~ Permitted(x.ap, TRUE, TRUE)

(* The permission of a section with code does not change while it is mapped.*)
CodeKeepsPermission ==
  \A b \in Bases, v \in CodeAddresses : \A e, f \in FirstEntries[b][Megabyte(v)] :
    e.type = "section" /\ f.type = "section" /\ e.mb = f.mb => e.ap = f.ap

(* A megabyte with code is mapped by sections, or by tables.                *)
CodeKeepsKind ==
  \A b, c \in Bases, v \in CodeAddresses :
    \A e \in FirstEntries[b][Megabyte(v)], f \in FirstEntries[c][Megabyte(v)] :
      ~ (e.type = "section" /\ f.type = "table")

SealedCode ==
  CodeAtOnePlace /\ CodeNotOfUsers /\ CodeBeyondStart /\ CodeKeepsPermission /\ CodeKeepsKind

-----------------------------------------------------------------------------
(* The page of the privileged table at v.                                   *)
PrivPage(m, v) == ShadowPage(m["priv"], v)

SectionOnly(k) == \A b \in Bases : \A e \in FirstEntries[b][k] : e.type # "table"

(* A megabyte that is never a table is mapped as a whole or not at all.     *)
WholeSections(m) ==
  \A v, w \in Pages :
    Megabyte(v) = Megabyte(w) /\ SectionOnly(Megabyte(v)) /\ PrivPage(m, v).type = "page"
      => PrivPage(m, w).type = "page"

(* From m to n pages of code are unmapped or lowered at most ...            *)
Cuts(n, m) ==
  n.alive =>
    /\ m.alive /\ (WholeSections(m) => WholeSections(n))
    /\ \A v \in CodeAddresses \cap Pages : PrivPage(n, v).type = "page" =>
         /\ PrivPage(m, v).type = "page"
         /\ PrivPage(n, v).ap = "rw_rw" => PrivPage(m, v).ap = "rw_rw"

(* ... or mapped where nothing was.                                         *)
Fills(n, m) ==
  n.alive =>
    /\ m.alive /\ (WholeSections(m) => WholeSections(n))
    /\ \A v \in CodeAddresses \cap Pages : PrivPage(m, v).type = "page" =>
         /\ PrivPage(n, v).type = "page"
         /\ PrivPage(n, v).ap = "rw_rw" => PrivPage(m, v).ap = "rw_rw"

LEMMA CutsTwice ==
  ASSUME NEW m, NEW n, NEW x, Cuts(n, m), Cuts(x, n) PROVE Cuts(x, m)
BY DEF Cuts

LEMMA FillsTwice ==
  ASSUME NEW m, NEW n, NEW x, Fills(n, m), Fills(x, n) PROVE Fills(x, m)
BY DEF Fills

LEMMA CutsDead == ASSUME NEW m, MMState(m), NEW n PROVE Cuts(Die(m), n) /\ Fills(Die(m), n)
BY DieState DEF Cuts, Fills

LEMMA CutsSelf == ASSUME NEW m PROVE Cuts(m, m) /\ Fills(m, m)
BY DEF Cuts, Fills

LEMMA LoweredCuts ==
  ASSUME NEW m, NEW n, n.alive => m.alive,
         \A v \in Pages : Lowers(PrivPage(n, v), PrivPage(m, v))
  PROVE  Cuts(n, m) /\ Fills(n, m)
<1>1. \A v \in Pages : /\ PrivPage(n, v).type = PrivPage(m, v).type
                       /\ PrivPage(n, v).type = "page" /\ PrivPage(n, v).ap = "rw_rw" =>
                            PrivPage(m, v).ap = "rw_rw"
  BY DEF Lowers
<1>2. WholeSections(m) => WholeSections(n) BY <1>1 DEF WholeSections
<1> QED BY <1>1, <1>2 DEF Cuts, Fills

LEMMA SameCuts ==
  ASSUME NEW m, NEW n, n.alive => m.alive, \A v \in Pages : PrivPage(n, v) = PrivPage(m, v)
  PROVE  Cuts(n, m) /\ Fills(n, m)
BY LoweredCuts DEF Lowers

LEMMA GuestWriteProtectCuts ==
  ASSUME NEW m, MMState(m), NEW pages
  PROVE  LET n == GuestWriteProtect(m, pages)
         IN /\ Cuts(n, m) /\ Fills(n, m)
            /\ \A v \in Pages : Lowers(PrivPage(n, v), PrivPage(m, v))
<1> DEFINE n == GuestWriteProtect(m, pages)
<1>1. n.alive = m.alive BY GuestWriteProtectBlocks DEF SameBlocks
<1>2. \A v \in Pages : Lowers(PrivPage(n, v), PrivPage(m, v))
  BY GuestWriteProtectLowers DEF PrivPage, Modes
<1> HIDE DEF n
<1>3. Cuts(n, m) /\ Fills(n, m) BY <1>1, <1>2, LoweredCuts
<1> QED BY <1>2, <1>3 DEF n

(* The pages of a megabyte whose entry stays are what they were.            *)
LEMMA OtherPages ==
  ASSUME NEW m, NEW n, NEW k \in Megabytes,
         \A j \in Megabytes : j # k => n["priv"][j] = m["priv"][j],
         NEW v \in Pages, Megabyte(v) # k
  PROVE  PrivPage(n, v) = PrivPage(m, v)
BY PagePair DEF PrivPage, ShadowPage

LEMMA PrivSame ==
  ASSUME NEW m, NEW n, \A j \in Megabytes : n["priv"][j] = m["priv"][j], NEW v \in Pages
  PROVE  PrivPage(n, v) = PrivPage(m, v)
BY PagePair DEF PrivPage, ShadowPage

LEMMA UnmappedCuts ==
  ASSUME NEW m, MMState(m), NEW t \in Modes, NEW k \in Megabytes, NEW n, Unmapped(n, m, t, k),
         (n.alive => n[t][k].type = "fault") \/ ~ SectionOnly(k)
  PROVE  Cuts(n, m)
<1> SUFFICES ASSUME n.alive PROVE Cuts(n, m) BY DEF Cuts
<1>0. m.alive /\ "priv" \in Modes BY DEF Unmapped, Modes
<1>1. CASE t = "user"
  <2>1. \A j \in Megabytes : n["priv"][j] = m["priv"][j] BY <1>0, <1>1 DEF Unmapped
  <2>2. \A v \in Pages : PrivPage(n, v) = PrivPage(m, v) BY <2>1, PrivSame
  <2> QED BY <1>0, <2>2, SameCuts
<1>2. CASE t = "priv"
  <2>1. \A v \in Pages : PrivPage(n, v) = PrivPage(m, v) \/ PrivPage(n, v) = Fault
    BY <1>2 DEF Unmapped, PrivPage
  <2>2. \A j \in Megabytes : j # k => n["priv"][j] = m["priv"][j] BY <1>0, <1>2 DEF Unmapped
  <2>3. \A v \in Pages : Megabyte(v) # k => PrivPage(n, v) = PrivPage(m, v) BY <2>2, OtherPages
  <2>4. SectionOnly(k) => \A v \in Pages : Megabyte(v) = k => PrivPage(n, v).type = "fault"
    BY <1>2, FaultIsEntry DEF PrivPage, ShadowPage
  <2>5. WholeSections(m) => WholeSections(n)
    BY <2>3, <2>4, FaultIsEntry DEF WholeSections
  <2> QED BY <1>0, <2>1, <2>5, FaultIsEntry DEF Cuts
<1> QED BY <1>1, <1>2 DEF Modes

(* The permissions of a megabyte without code may be set.                   *)
NoCodeIn(k) == \A v \in CodeAddresses : Megabyte(v) # k

LEMMA MapAPBitsCuts ==
  ASSUME NEW m, MMState(m), NEW t \in Modes, NEW k \in Megabytes, m[t][k].type # "fault",
         NEW g, guestPhysical \in Bases \cup {NoBase}, NEW n, n = MapAPBitsSection(m, t, k, g)
  PROVE  /\ n.alive = m.alive
         /\ \A v \in Pages : PrivPage(n, v).type = PrivPage(m, v).type
         /\ \A v \in Pages : t # "priv" \/ Megabyte(v) # k => Lowers(PrivPage(n, v), PrivPage(m, v))
<1> DEFINE x == Set(m, t, k, g)
           ap == MapAccessPermissionBits(t, g.ap, g.dom)
<1>1. /\ MMState(x) /\ x[t][k] = SetPermissions(m[t][k], ap) /\ ap \in Permissions
      /\ \A u \in Modes, j \in Megabytes : u # t \/ j # k => x[u][j] = m[u][j]
  BY SetState
<1>2. n = GuestWriteProtect(x, TablesIn(m, k, g)) BY MapAPBitsSectionIs
<1>3. x.alive = m.alive BY SetBlocks DEF SameBlocks
<1> HIDE DEF x, ap
<1>4. n.alive = x.alive BY <1>1, <1>2, GuestWriteProtectBlocks DEF SameBlocks
<1>5. \A v \in Pages : Lowers(PrivPage(n, v), PrivPage(x, v))
  BY <1>1, <1>2, GuestWriteProtectCuts
<1>6. m[t][k] \in ShadowEntries BY EntryOfState
<1>7. /\ x[t][k].type = m[t][k].type
      /\ \A o \in Offsets : Split(x[t][k])[o].type = Split(m[t][k])[o].type
  BY <1>1, <1>6, SetPermissionsType
<1>8. \A v \in Pages : t # "priv" \/ Megabyte(v) # k => PrivPage(x, v) = PrivPage(m, v)
  <2>1. CASE t # "priv" BY <1>1, <2>1, PrivSame DEF Modes
  <2>2. CASE t = "priv" BY <1>1, <2>2, OtherPages DEF Modes
  <2> QED BY <2>1, <2>2
<1>9. \A v \in Pages : t = "priv" /\ Megabyte(v) = k => PrivPage(x, v).type = PrivPage(m, v).type
  BY <1>7, PagePair DEF PrivPage, ShadowPage
<1>10. \A v \in Pages : PrivPage(x, v).type = PrivPage(m, v).type BY <1>8, <1>9
<1> QED BY <1>3, <1>4, <1>5, <1>8, <1>10 DEF Lowers

LEMMA EditAttributesCuts ==
  ASSUME NEW m, MMState(m), NEW t \in Modes, NEW k \in Megabytes, guestPhysical \in Bases \cup {NoBase},
         NEW old, NEW new \in GuestFirstEntries, new.type = "section",
         NEW n, n = EditAttributesSection(m, t, k, old, new),
         NoCodeIn(k) \/ (old.mb = new.mb => old.ap = new.ap)
  PROVE  Cuts(n, m)
<1> DEFINE x == SetDomain(m, t, k, old, new)
<1>1. n = IF m[t][k].type = "fault" THEN m
          ELSE IF old.mb # new.mb THEN Die(m)
          ELSE IF old.ap = new.ap THEN x ELSE MapAPBitsSection(x, t, k, new)
  BY EditAttributesIs
<1>2. CASE m[t][k].type = "fault" BY <1>1, <1>2, CutsSelf
<1>3. CASE m[t][k].type # "fault"
  <2>1. /\ MMState(x) /\ SameRecords(x, m) /\ x[t][k].type = m[t][k].type
        /\ Split(x[t][k]) = Split(m[t][k])
        /\ \A u \in Modes, j \in Megabytes : u # t \/ j # k => x[u][j] = m[u][j]
    BY <1>3, SetDomainState
  <2> HIDE DEF x
  <2>2. ASSUME NEW v \in Pages PROVE PrivPage(x, v) = PrivPage(m, v)
    <3>1. CASE t = "priv" /\ Megabyte(v) = k BY <2>1, <3>1 DEF PrivPage, ShadowPage
    <3>2. CASE t = "priv" /\ Megabyte(v) # k BY <2>1, <3>2, OtherPages DEF Modes
    <3>3. CASE t # "priv" BY <2>1, <3>3, PrivSame DEF Modes
    <3> QED BY <3>1, <3>2, <3>3
  <2>3. Cuts(x, m) BY <2>1, <2>2, SameCuts DEF SameRecords
  <2>4. CASE n = x BY <2>3, <2>4
  <2>5. CASE n = Die(m) BY <2>5, CutsDead
  <2>6. CASE n = MapAPBitsSection(x, t, k, new) /\ NoCodeIn(k)
    <3>1. /\ n.alive = x.alive
          /\ \A v \in Pages : PrivPage(n, v).type = PrivPage(x, v).type
          /\ \A v \in Pages : t # "priv" \/ Megabyte(v) # k => Lowers(PrivPage(n, v), PrivPage(x, v))
      BY <1>3, <2>1, <2>6, MapAPBitsCuts
    <3>2. WholeSections(x) => WholeSections(n) BY <3>1 DEF WholeSections
    <3>3. \A v \in CodeAddresses \cap Pages : Lowers(PrivPage(n, v), PrivPage(x, v))
      BY <2>6, <3>1 DEF NoCodeIn
    <3>4. Cuts(n, x) BY <3>1, <3>2, <3>3 DEF Cuts, Lowers
    <3> QED BY <2>3, <3>4, CutsTwice
  <2> QED BY <1>1, <1>3, <2>4, <2>5, <2>6
<1> QED BY <1>2, <1>3

LEMMA EditFirstCuts ==
  ASSUME NEW m, MMState(m), NEW v, NEW k \in Megabytes, GuestTypeOK, guestPhysical \in Bases,
         NEW new \in FirstEntries[guestPhysical][k], CodeKeepsPermission,
         NEW n, n = EditFirst(m, v, k, new)
  PROVE  Cuts(n, m)
<1> DEFINE old == first[guestPhysical][k]
           m1 == RemovePageTableInfo(m, v, k)
           m2 == ShadowUnmapPageTable(m1, "priv", k)
           m3 == ShadowUnmapSection(m, "priv", k, old)
           m4 == EditAttributesSection(m, "priv", k, old, new)
<1>0. /\ "priv" \in Modes /\ "user" \in Modes /\ guestPhysical \in Bases \cup {NoBase}
      /\ old \in FirstEntries[guestPhysical][k] /\ new \in GuestFirstEntries
  BY GuestAssumption DEF Modes, GuestTypeOK
<1>1. CASE n = ShadowUnmapPageTable(m2, "user", k)
  <2>1. MMState(m1) /\ m1.alive = m.alive /\ m1["priv"] = m["priv"] BY <1>0, RemoveRecordState
  <2> HIDE DEF m1
  <2>2. Cuts(m1, m) BY <2>1, SameCuts DEF PrivPage
  <2>3. Unmapped(m2, m1, "priv", k) /\ (m2.alive => m2["priv"][k].type = "fault")
    BY <1>0, <2>1, UnmapPageTableUnmaps
  <2>4. Cuts(m2, m1) /\ MMState(m2) BY <1>0, <2>1, <2>3, UnmappedCuts DEF Unmapped
  <2> HIDE DEF m2
  <2>5. Unmapped(n, m2, "user", k) /\ (n.alive => n["user"][k].type = "fault")
    BY <1>0, <1>1, <2>4, UnmapPageTableUnmaps
  <2>6. Cuts(n, m2) BY <1>0, <2>4, <2>5, UnmappedCuts
  <2> QED BY <2>2, <2>4, <2>6, CutsTwice
<1>2. CASE n = ShadowUnmapSection(m3, "user", k, old)
  <2>1. Unmapped(m3, m, "priv", k) /\ (m3.alive => m3["priv"][k].type = "fault")
    BY <1>0, UnmapSectionUnmaps
  <2>2. Cuts(m3, m) /\ MMState(m3) BY <1>0, <2>1, UnmappedCuts DEF Unmapped
  <2> HIDE DEF m3
  <2>3. Unmapped(n, m3, "user", k) /\ (n.alive => n["user"][k].type = "fault")
    BY <1>0, <1>2, <2>2, UnmapSectionUnmaps
  <2>4. Cuts(n, m3) BY <1>0, <2>2, <2>3, UnmappedCuts
  <2> QED BY <2>2, <2>4, CutsTwice
<1>3. CASE /\ old.type = "section" /\ new.type = "section"
           /\ n = EditAttributesSection(m4, "user", k, old, new)
  <2>1. NoCodeIn(k) \/ (old.mb = new.mb => old.ap = new.ap)
    BY <1>0, <1>3 DEF NoCodeIn, CodeKeepsPermission
  <2> HIDE DEF old
  <2>2. Cuts(m4, m) /\ MMState(m4) BY <1>0, <1>3, <2>1, EditAttributesCuts, EditAttributesType
  <2> HIDE DEF m4
  <2>3. Cuts(n, m4) BY <1>0, <1>3, <2>1, <2>2, EditAttributesCuts
  <2> QED BY <2>2, <2>3, CutsTwice
<1> QED BY <1>1, <1>2, <1>3, EditFirstCases, CutsSelf, CutsDead

LEMMA EditSecondCuts ==
  ASSUME NEW m, MMState(m), NEW v, NEW t \in Tables, NEW o \in Offsets, NEW new, m.alive => Placed(m),
         NEW n, n = EditSecond(m, v, t, o, new)
  PROVE  Cuts(n, m)
<1> DEFINE old == second[t][o]
           recs == {i \in DOMAIN m.gptInfo : m.gptInfo[i].table = t}
           x == Found(recs)
           mb == m.gptInfo[x].mb
           w == PageAt(mb, o)
           m1 == ShadowUnmapSmallPage(m, "user", w, old.frame)
           m2 == ShadowUnmapSmallPage(m1, "priv", w, old.frame)
<1>1. n \in {m, Die(m)} \/ (n = m2 /\ Earliest(recs) # {})
  BY DEF EditSecond
<1>2. CASE n = m2 /\ Earliest(recs) # {}
  <2>1. x \in recs BY <1>2, FoundIn
  <2>2. x \in DOMAIN m.gptInfo /\ m.gptInfo[x] \in Range(m.gptInfo) BY <2>1 DEF Range
  <2> HIDE DEF x
  <2>3. mb \in Megabytes BY <2>2, RecordsOfState
  <2>4. /\ w \in Pages /\ "user" \in Modes /\ "priv" \in Modes /\ Megabyte(w) = mb
    BY <2>3, PageAtPage DEF Modes
  <2>5. m.alive => ~ SectionOnly(mb) BY <2>2 DEF Placed, SectionOnly
  <2> HIDE DEF w, mb
  <2>6. Unmapped(m1, m, "user", mb) BY <2>4, UnmapSmallPageUnmaps
  <2>7. MMState(m1) /\ (m1.alive => m.alive) BY <2>6 DEF Unmapped
  <2>8. Cuts(m1, m)
    <3>1. CASE m1.alive BY <2>3, <2>4, <2>5, <2>6, <2>7, <3>1, UnmappedCuts
    <3>2. CASE ~ m1.alive BY <3>2 DEF Cuts
    <3> QED BY <3>1, <3>2
  <2> HIDE DEF m1
  <2>9. Unmapped(n, m1, "priv", mb) BY <1>2, <2>4, <2>7, UnmapSmallPageUnmaps
  <2>10. Cuts(n, m1)
    <3>1. CASE n.alive
      <4>1. ~ SectionOnly(mb) BY <2>5, <2>7, <2>9, <3>1 DEF Unmapped
      <4> QED BY <2>3, <2>4, <2>7, <2>9, <4>1, UnmappedCuts
    <3>2. CASE ~ n.alive BY <3>2 DEF Cuts
    <3> QED BY <3>1, <3>2
  <2> QED BY <2>8, <2>10, CutsTwice
<1> QED BY <1>1, <1>2, CutsSelf, CutsDead

(* Mapping on demand.                                                       *)
LEMMA ShadowMapSectionFills ==
  ASSUME NEW m, MMState(m), NEW t \in Modes, NEW k \in Megabytes,
         NEW g \in GuestFirstEntries, g.type = "section", guestPhysical \in Bases \cup {NoBase},
         NEW n, n = ShadowMapSection(m, t, k, g),
         t = "priv" => \A v \in CodeAddresses \cap Pages : Megabyte(v) = k => PrivPage(m, v).type # "page"
  PROVE  Fills(n, m)
<1> DEFINE e == [type |-> "section", mb |-> g.mb, ap |-> "rw_no", dom |-> g.dom]
           x == Put(m, t, k, e)
<1>1. /\ e \in ShadowEntries /\ e.type = "section"
      /\ \A o \in Offsets : Split(e)[o].type = "page"
  BY SectionEntry DEF Split
<1>2. n = Die(m) \/ n = x \/ n = MapAPBitsSection(x, t, k, g) BY DEF ShadowMapSection
<1> HIDE DEF e
<1>3. /\ MMState(x) /\ x[t][k] = e /\ x.alive = m.alive
      /\ \A u \in Modes, j \in Megabytes : u # t \/ j # k => x[u][j] = m[u][j]
  BY <1>1, SetEntry DEF SameRecords
<1> HIDE DEF x
<1>4. \A v \in Pages : t # "priv" \/ Megabyte(v) # k => PrivPage(x, v) = PrivPage(m, v)
  <2>1. CASE t # "priv" BY <1>3, <2>1, PrivSame DEF Modes
  <2>2. CASE t = "priv" BY <1>3, <2>2, OtherPages DEF Modes
  <2> QED BY <2>1, <2>2
<1>5. \A v \in Pages : t = "priv" /\ Megabyte(v) = k => PrivPage(x, v).type = "page"
  BY <1>1, <1>3, PagePair DEF PrivPage, ShadowPage
<1>6. ASSUME n.alive = x.alive, \A v \in Pages : PrivPage(n, v).type = PrivPage(x, v).type,
             \A v \in Pages : t # "priv" \/ Megabyte(v) # k => Lowers(PrivPage(n, v), PrivPage(x, v))
      PROVE  Fills(n, m)
  <2>1. \A v \in Pages : t # "priv" \/ Megabyte(v) # k => Lowers(PrivPage(n, v), PrivPage(m, v))
    BY <1>4, <1>6
  <2>2. WholeSections(m) => WholeSections(n)
    <3>1. \A v \in Pages : t = "priv" /\ Megabyte(v) = k => PrivPage(n, v).type = "page" BY <1>5, <1>6
    <3>2. \A v \in Pages : t # "priv" \/ Megabyte(v) # k => PrivPage(n, v).type = PrivPage(m, v).type
      BY <2>1 DEF Lowers
    <3> QED BY <3>1, <3>2 DEF WholeSections
  <2> QED BY <1>3, <1>6, <2>1, <2>2 DEF Fills, Lowers
<1>7. CASE n = x BY <1>6, <1>7 DEF Lowers
<1>8. CASE n = MapAPBitsSection(x, t, k, g)
  <2>1. x[t][k].type # "fault" BY <1>1, <1>3
  <2> QED BY <1>3, <1>6, <1>8, <2>1, MapAPBitsCuts
<1> QED BY <1>2, <1>7, <1>8, CutsDead

LEMMA EnsureTableFills ==
  ASSUME NEW m, MMState(m), NEW t \in Modes, NEW k \in Megabytes,
         NEW g \in GuestFirstEntries, g.type = "table", NEW n, n = EnsureTable(m, t, k, g)
  PROVE  /\ Fills(n, m)
         /\ n.alive => \A v \in Pages : PrivPage(n, v).type = PrivPage(m, v).type
<1>0. g.dom \in Domains /\ g.table \in Tables BY GuestEntryCases
<1>1. CASE m[t][k].type = "fault"
  <2> DEFINE e == [type |-> "table", dom |-> g.dom, page |-> NoPages]
             x == Put(m, t, k, e)
             y == AddPageTableInfo(x, k, g.table)
             pages == MappedAt(y, g.table.frame)
  <2>1. n = GuestWriteProtect(y, pages) BY <1>1 DEF EnsureTable, ShadowMapPageTable
  <2>2. /\ e \in ShadowEntries /\ e.type = "table" /\ \A o \in Offsets : Split(e)[o] = Fault
    BY <1>0, TableEntry DEF Split, NoPages
  <2> HIDE DEF e, pages
  <2>3. /\ MMState(x) /\ x.alive = m.alive /\ x[t][k] = e
        /\ \A u \in Modes, j \in Megabytes : u # t \/ j # k => x[u][j] = m[u][j]
    BY <2>2, SetEntry DEF SameRecords
  <2> HIDE DEF x
  <2>4. MMState(y) /\ y.alive = x.alive /\ y["priv"] = x["priv"]
    BY <1>0, <2>3, AddPageTableInfoState DEF Modes
  <2> HIDE DEF y
  <2>5. ASSUME NEW v \in Pages PROVE PrivPage(y, v) = PrivPage(m, v)
    <3>1. PrivPage(y, v) = PrivPage(x, v) BY <2>4 DEF PrivPage
    <3>2. CASE t = "priv" /\ Megabyte(v) = k
      <4>1. PrivPage(x, v) = Fault BY <2>2, <2>3, <3>2, PagePair DEF PrivPage, ShadowPage
      <4>2. PrivPage(m, v) = Fault BY <1>1, <3>2 DEF PrivPage, ShadowPage
      <4> QED BY <3>1, <4>1, <4>2
    <3>3. CASE t = "priv" /\ Megabyte(v) # k BY <2>3, <3>1, <3>3, OtherPages DEF Modes
    <3>4. CASE t # "priv" BY <2>3, <3>1, <3>4, PrivSame DEF Modes
    <3> QED BY <3>2, <3>3, <3>4
  <2>6. Fills(y, m) BY <2>3, <2>4, <2>5, SameCuts
  <2>7. Fills(n, y) /\ \A v \in Pages : Lowers(PrivPage(n, v), PrivPage(y, v))
    BY <2>1, <2>4, GuestWriteProtectCuts
  <2> QED BY <2>5, <2>6, <2>7, FillsTwice DEF Lowers
<1>2. CASE m[t][k].type = "section"
  <2>1. n = Die(m) BY <1>2 DEF EnsureTable
  <2> QED BY <2>1, CutsDead, DieState
<1>3. CASE m[t][k].type \notin {"fault", "section"}
  <2>1. n = m \/ n = AddPageTableInfo(m, k, g.table) BY <1>3 DEF EnsureTable
  <2>2. n.alive = m.alive /\ n["priv"] = m["priv"] BY <1>0, <2>1, AddPageTableInfoState DEF Modes
  <2>3. \A v \in Pages : PrivPage(n, v) = PrivPage(m, v) BY <2>2 DEF PrivPage
  <2> QED BY <2>2, <2>3, SameCuts
<1> QED BY <1>1, <1>2, <1>3

LEMMA ShadowMapSmallPageFills ==
  ASSUME NEW m, MMState(m), NEW t \in Modes, NEW v \in Pages, m[t][Megabyte(v)].type = "table",
         NEW p \in GuestSecondEntries, p.type = "page", NEW dom,
         NEW n, n = ShadowMapSmallPage(m, t, v, p, dom),
         t = "priv" => PrivPage(m, v).type # "page", ~ SectionOnly(Megabyte(v))
  PROVE  Fills(n, m)
<1> DEFINE k == Megabyte(v)
           o == Offset(v)
           entry == [type |-> "page", frame |-> p.frame, ap |-> MapAccessPermissionBits(t, p.ap, dom)]
           old == m[t][k]
           e == PutPage(old, o, entry)
<1>1. k \in Megabytes /\ o \in Offsets BY PagePair
<1>2. old \in ShadowEntries BY <1>1, EntryOfState
<1>3. n = Die(m) \/ n = Put(m, t, k, e) BY DEF ShadowMapSmallPage
<1>4. p.frame \in Nat \X Offsets BY GuestPageCases
<1>5. entry \in ShadowPages BY <1>4, PermissionsMapped DEF ShadowPages, Permissions
<1> HIDE DEF entry
<1>6. /\ e \in ShadowEntries /\ e.type = "table"
      /\ \A x \in Offsets : x # o => Split(e)[x] = Split(old)[x]
  BY <1>1, <1>2, <1>5, PutPageType
<1> HIDE DEF e
<1>7. CASE n = Put(m, t, k, e)
  <2>1. /\ n.alive = m.alive /\ n[t][k] = e
        /\ \A u \in Modes, j \in Megabytes : u # t \/ j # k => n[u][j] = m[u][j]
    BY <1>1, <1>6, <1>7, SetEntry DEF SameRecords
  <2>2. ASSUME NEW w \in Pages, t # "priv" \/ w # v PROVE PrivPage(n, w) = PrivPage(m, w)
    <3>1. CASE t # "priv" BY <2>1, <3>1, PrivSame DEF Modes
    <3>2. CASE t = "priv" /\ Megabyte(w) # k BY <1>1, <2>1, <3>2, OtherPages DEF Modes
    <3>3. CASE t = "priv" /\ Megabyte(w) = k
      <4>1. Offset(w) \in Offsets /\ Offset(w) # o BY <2>2, <3>3, PagePair
      <4> QED BY <1>6, <2>1, <3>3, <4>1 DEF PrivPage, ShadowPage
    <3> QED BY <3>1, <3>2, <3>3
  <2>3. WholeSections(m) => WholeSections(n) BY <2>2 DEF WholeSections
  <2> QED BY <2>1, <2>2, <2>3 DEF Fills
<1> QED BY <1>3, <1>7, CutsDead

LEMMA ShadowMapFills ==
  ASSUME NEW m, MMState(m), NEW t \in Modes, NEW v \in Pages, GuestTypeOK, SecondOK(second),
         NEW n, n = ShadowMap(m, t, v), CodeKeepsKind, m.alive => WholeSections(m),
         t = "priv" => PrivPage(m, v).type = "fault"
  PROVE  Fills(n, m)
<1> DEFINE k == Megabyte(v)
           g == first[guestPhysical][k]
           p == second[g.table][Offset(v)]
           m1 == EnsureTable(m, t, k, g)
<1>1. k \in Megabytes /\ Offset(v) \in Offsets BY PagePair
<1>2. CASE guestPhysical \notin Bases BY <1>2, CutsDead DEF ShadowMap
<1>3. CASE guestPhysical \in Bases
  <2>1. g \in GuestFirstEntries /\ g \in FirstEntries[guestPhysical][k]
    BY <1>1, <1>3 DEF GuestTypeOK
  <2>2. CASE g.type = "section"
    <3>1. n = ShadowMapSection(m, t, k, g) BY <1>3, <2>2 DEF ShadowMap
    <3>2. CASE ~ m.alive
      <4>1. n.alive => m.alive BY <1>1, <1>3, <2>1, <2>2, <3>1, ShadowMapSectionType
      <4> QED BY <3>2, <4>1 DEF Fills
    <3>3. CASE m.alive
      <4>1. ASSUME t = "priv", NEW w \in CodeAddresses \cap Pages, Megabyte(w) = k,
                   PrivPage(m, w).type = "page"
            PROVE  FALSE
        <5>1. SectionOnly(k) BY <1>3, <2>1, <2>2, <4>1 DEF SectionOnly, CodeKeepsKind
        <5>2. PrivPage(m, v).type = "page" BY <3>3, <4>1, <5>1 DEF WholeSections
        <5> QED BY <4>1, <5>2
      <4> HIDE DEF k, g
      <4> QED BY <1>1, <1>3, <2>1, <2>2, <3>1, <4>1, ShadowMapSectionFills
    <3> QED BY <3>2, <3>3
  <2>3. CASE g.type = "table"
    <3>1. MMState(m1) /\ (m1.alive => m1[t][k].type = "table")
      BY <1>1, <2>1, <2>3, EnsureTableType
    <3>2. /\ Fills(m1, m)
          /\ m1.alive => \A w \in Pages : PrivPage(m1, w).type = PrivPage(m, w).type
      BY <1>1, <2>1, <2>3, EnsureTableFills
    <3>3. p \in GuestSecondEntries BY <1>1, <2>1, <2>3, GuestEntryCases DEF SecondOK
    <3>4. n = IF m1.alive /\ p.type = "page" THEN ShadowMapSmallPage(m1, t, v, p, g.dom) ELSE m1
      BY <1>3, <2>3 DEF ShadowMap
    <3>5. ~ SectionOnly(k) BY <1>3, <2>1, <2>3 DEF SectionOnly
    <3> HIDE DEF m1, p
    <3>6. Fills(n, m1)
      <4>1. CASE m1.alive /\ p.type = "page"
        BY <3>1, <3>2, <3>3, <3>4, <3>5, <4>1, ShadowMapSmallPageFills
      <4>2. CASE ~ (m1.alive /\ p.type = "page") BY <3>4, <4>2, CutsSelf
      <4> QED BY <4>1, <4>2
    <3> QED BY <3>2, <3>6, FillsTwice
  <2>4. CASE g.type \notin {"section", "table"}
    <3>1. n = m BY <1>3, <2>4 DEF ShadowMap
    <3> QED BY <3>1, CutsSelf
  <2> QED BY <2>2, <2>3, <2>4
<1> QED BY <1>2, <1>3

-----------------------------------------------------------------------------
(* No page of a block may be written through the privileged table.          *)
Sealed(m) ==
  m.alive =>
    /\ WholeSections(m)
    /\ \A b \in m.blocks : \A v \in DOMAIN b :
         /\ v \in CodeAddresses \cap Pages
         /\ PrivPage(m, v).type = "page" => PrivPage(m, v).ap # "rw_rw"

BlocksMapped(m) ==
  m.alive => \A b \in m.blocks : \A v \in DOMAIN b : PrivPage(m, v).type = "page"

LEMMA SealedCut ==
  ASSUME NEW m, NEW n, Sealed(m), Cuts(n, m), n.alive => n.blocks \subseteq m.blocks
  PROVE  Sealed(n)
BY DEF Sealed, Cuts

LEMMA SealedFill ==
  ASSUME NEW m, NEW n, Sealed(m), BlocksMapped(m), Fills(n, m), n.alive => n.blocks \subseteq m.blocks
  PROVE  Sealed(n)
BY DEF Sealed, Fills, BlocksMapped

LEMMA KeptMapped ==
  ASSUME NEW m, NEW n, Sealed(m), BlocksMapped(m), Kept(n, m)
  PROVE  BlocksMapped(n)
<1> SUFFICES ASSUME n.alive, NEW b \in n.blocks, NEW v \in DOMAIN b
             PROVE  PrivPage(n, v).type = "page"
  BY DEF BlocksMapped
<1>1. m.alive /\ b \in m.blocks BY DEF Kept
<1>2. v \in Pages /\ PrivPage(m, v).type = "page" BY <1>1 DEF Sealed, BlocksMapped
<1>3. v \in CodePages(n) BY <1>2 DEF CodePages
<1> QED BY <1>2, <1>3 DEF Kept, PageKept, PrivPage

LEMMA SealedBecome ==
  ASSUME MMState(mm), NEW m, Sealed(m), Become(m)
  PROVE  Sealed(mm)'
<1>1. Sealed(mm') BY DieState DEF Become, Sealed
<1> QED BY <1>1

(* Mapping on demand leaves the blocks alone.                               *)
LEMMA ShadowMapBlocks ==
  ASSUME NEW m, MMState(m), NEW t \in Modes, NEW v \in Pages, GuestTypeOK, SecondOK(second),
         NEW n, n = ShadowMap(m, t, v), n.alive
  PROVE  n.blocks = m.blocks
<1> DEFINE k == Megabyte(v)
           g == first[guestPhysical][k]
           p == second[g.table][Offset(v)]
           m1 == EnsureTable(m, t, k, g)
<1>1. k \in Megabytes /\ Offset(v) \in Offsets /\ ~ Die(m).alive BY PagePair, DieState
<1>2. guestPhysical \in Bases BY <1>1 DEF ShadowMap
<1>3. g \in GuestFirstEntries BY <1>1, <1>2 DEF GuestTypeOK
<1>4. CASE g.type = "section"
  <2> DEFINE e == [type |-> "section", mb |-> g.mb, ap |-> "rw_no", dom |-> g.dom]
             x == Put(m, t, k, e)
             y == Set(x, t, k, g)
  <2>1. n = ShadowMapSection(m, t, k, g) BY <1>2, <1>4 DEF ShadowMap
  <2>2. n = x \/ n = MapAPBitsSection(x, t, k, g) BY <1>1, <2>1 DEF ShadowMapSection
  <2>3. e \in ShadowEntries /\ e.type = "section" BY <1>3, <1>4, SectionEntry
  <2> HIDE DEF e
  <2>4. MMState(x) /\ x[t][k].type # "fault" /\ x.blocks = m.blocks
    BY <1>1, <2>3, SetEntry, PutBlocks DEF SameBlocks
  <2> HIDE DEF x
  <2>5. MMState(y) /\ y.blocks = x.blocks BY <1>1, <1>2, <2>4, SetState, SetBlocks DEF SameBlocks
  <2> HIDE DEF y
  <2>6. CASE n = MapAPBitsSection(x, t, k, g)
    <3>1. n = GuestWriteProtect(y, TablesIn(x, k, g)) BY <2>6, MapAPBitsSectionIs DEF y
    <3> QED BY <2>4, <2>5, <3>1, GuestWriteProtectBlocks DEF SameBlocks
  <2> QED BY <2>2, <2>4, <2>6
<1>5. CASE g.type = "table"
  <2>1. MMState(m1) BY <1>1, <1>3, <1>5, EnsureTableType
  <2>2. n = IF m1.alive /\ p.type = "page" THEN ShadowMapSmallPage(m1, t, v, p, g.dom) ELSE m1
    BY <1>2, <1>5 DEF ShadowMap
  <2>3. m1.alive => m1.blocks = m.blocks
    <3>1. g.dom \in Domains /\ g.table \in Tables BY <1>3, <1>5, GuestEntryCases
    <3>2. CASE m[t][k].type = "fault"
      <4> DEFINE e == [type |-> "table", dom |-> g.dom, page |-> NoPages]
                 x == Put(m, t, k, e)
                 y == AddPageTableInfo(x, k, g.table)
      <4>1. m1 = GuestWriteProtect(y, MappedAt(y, g.table.frame))
        BY <3>2 DEF EnsureTable, ShadowMapPageTable
      <4>2. e \in ShadowEntries BY <3>1, TableEntry
      <4> HIDE DEF e
      <4>3. MMState(x) /\ x.blocks = m.blocks BY <1>1, <4>2, SetEntry, PutBlocks DEF SameBlocks
      <4> HIDE DEF x
      <4>4. MMState(y) /\ y.blocks = x.blocks
        BY <1>1, <3>1, <4>3, AddPageTableInfoState, AddPageTableInfoBlocks DEF SameBlocks
      <4> HIDE DEF y, m1
      <4> QED BY <4>1, <4>3, <4>4, GuestWriteProtectBlocks DEF SameBlocks
    <3>3. CASE m[t][k].type = "section"
      <4>1. m1 = Die(m) BY <3>3 DEF EnsureTable
      <4> QED BY <1>1, <4>1
    <3>4. CASE m[t][k].type \notin {"fault", "section"}
      <4>1. m1 = m \/ m1 = AddPageTableInfo(m, k, g.table) BY <3>4 DEF EnsureTable
      <4> HIDE DEF m1
      <4> QED BY <1>1, <3>1, <4>1, AddPageTableInfoBlocks DEF SameBlocks
    <3> QED BY <3>2, <3>3, <3>4
  <2> HIDE DEF m1, p
  <2>4. CASE m1.alive /\ p.type = "page"
    <3>1. n = ShadowMapSmallPage(m1, t, v, p, g.dom) /\ ~ Die(m1).alive BY <2>1, <2>2, <2>4, DieState
    <3>2. \E e : n = Put(m1, t, k, e) BY <3>1 DEF ShadowMapSmallPage
    <3>3. n.blocks = m1.blocks BY <2>1, <3>2, PutBlocks DEF SameBlocks
    <3> QED BY <2>3, <2>4, <3>3
  <2>5. CASE ~ (m1.alive /\ p.type = "page") BY <2>2, <2>3, <2>5
  <2> QED BY <2>4, <2>5
<1>6. CASE g.type \notin {"section", "table"} BY <1>2, <1>6 DEF ShadowMap
<1> QED BY <1>4, <1>5, <1>6

(* What every step of the proof is given.                                   *)
SealBase == AgreeBase /\ CodeInv /\ SettledGuest /\ SealedCode /\ Sealed(mm)

LEMMA SealGiven ==
  ASSUME SealBase
  PROVE  /\ MMState(mm) /\ GuestTypeOK /\ SecondOK(second) /\ Agree(mm, Row, second)
         /\ Sealed(mm) /\ (mm.alive => WholeSections(mm)) /\ BlocksMapped(mm)
         /\ CodeKeepsKind /\ CodeKeepsPermission
         /\ shadowActive \in Modes
<1>1. BlocksMapped(mm)
  <2>1. enabled \in BOOLEAN BY DEF SealBase, AgreeBase, TypeInv
  <2> QED BY <2>1 DEF SealBase, CodeInv, BlocksMapped, PrivPage
<1>2. MMState(mm) /\ GuestTypeOK /\ SecondOK(second) /\ Agree(mm, Row, second)
  BY DEF SealBase, AgreeBase, TypeInv, AgreeInv
<1> QED BY <1>1, <1>2 DEF SealBase, SealedCode, Sealed, shadowActive, ActiveIn, Modes

LEMMA GuestChangeModeSeals ==
  ASSUME SealBase, NEW priv \in BOOLEAN, GuestChangeMode(mm, priv)
  PROVE  Sealed(mm)'
<1> DEFINE t == ActiveIn(priv)
           v == mm.guestVirtual
           n == IF priv = privileged THEN mm ELSE SwitchAddressing(mm, priv)
<1>1. t \in Modes /\ MMState(mm) /\ Sealed(mm)
  BY SealGiven DEF ActiveIn, Modes
<1>2. Become(n) BY DEF GuestChangeMode
<1>3. Sealed(n)
  <2>1. CASE n \in {mm, Die(mm)} BY <1>1, <2>1, DieState DEF Sealed
  <2>2. CASE v # NoBase /\ mm[t][Megabyte(v)].type = "fault" /\ n = ShadowMap(mm, t, v)
    <3>1. v \in Pages BY <1>1, <2>2 DEF MMState
    <3>2. t = "priv" => PrivPage(mm, v).type = "fault" BY <2>2, FaultIsEntry DEF PrivPage, ShadowPage
    <3> HIDE DEF t, n
    <3>3. Fills(n, mm) BY <1>1, <2>2, <3>1, <3>2, SealGiven, ShadowMapFills
    <3>4. Kept(n, mm) BY <1>1, <2>2, <3>1, SealGiven, ShadowMapKept
    <3> QED BY <3>3, <3>4, SealGiven, SealedFill DEF Kept
  <2> QED BY <2>1, <2>2 DEF SwitchAddressing
<1> HIDE DEF n
<1> QED BY <1>1, <1>2, <1>3, SealedBecome

LEMMA TranslationFaultSeals ==
  ASSUME SealBase, NEW v \in Pages, NEW write, TranslationFault(v, write)
  PROVE  Sealed(mm)'
<1>1. CASE DeliverDataAbort BY <1>1, GuestChangeModeSeals DEF DeliverDataAbort
<1>2. CASE Become(ShadowMap(mm, shadowActive, v))
  <2> DEFINE n == ShadowMap(mm, shadowActive, v)
  <2>1. shadowActive = "priv" => PrivPage(mm, v).type = "fault" BY DEF TranslationFault, PrivPage
  <2>2. Fills(n, mm) BY <2>1, SealGiven, ShadowMapFills
  <2>3. Kept(n, mm) BY SealGiven, ShadowMapKept
  <2> HIDE DEF n
  <2>4. Sealed(n) BY <2>2, <2>3, SealGiven, SealedFill DEF Kept
  <2> QED BY <1>2, <2>4, SealGiven, SealedBecome DEF n
<1> QED BY <1>1, <1>2 DEF TranslationFault

LEMMA EmulatedStoreSeals ==
  ASSUME SealBase, NEW v \in Pages, NEW size \in StoreSizes, EmulatedStore(v, size)
  PROVE  Sealed(mm)'
<1> DEFINE p == Reached(v)
           f == p.frame
           m0 == ClearTranslations(mm, {v})
<1>0. /\ MMState(mm) /\ GuestTypeOK /\ SecondOK(second) /\ Agree(mm, Row, second)
      /\ Sealed(mm) /\ BlocksMapped(mm) /\ CodeKeepsKind /\ CodeKeepsPermission
      /\ shadowActive \in Modes /\ size = "word" /\ guestPhysical \in Bases
  BY SealGiven DEF SealBase, AgreeBase, Obedient, Assumed, EmulatedStore, CanDecide
<1>1. /\ MMState(m0) /\ SameRecords(m0, mm) /\ \A t \in Modes : m0[t] = mm[t]
  BY <1>0, ClearState
<1>2. Kept(m0, mm) BY <1>0, ClearKept
<1>3. (m0.alive => Placed(m0)) /\ Agree(m0, Row, second)
  <2> HIDE DEF m0
  <2> QED BY <1>0, <1>1 DEF Agree, Agrees, EntryAgrees, Placed, SameRecords
<1>4. \/ \E k \in Megabytes : \E e \in FirstEntries[f][k] :
           Become(StoreValue(IF f = guestPhysical THEN EditFirst(m0, v, k, e) ELSE m0, v))
      \/ \E t \in Tables : \E o \in Offsets : \E e \in SecondEntries[t][o] :
           Become(StoreValue(EditSecond(m0, v, t, o, e), v))
      \/ Become(StoreValue(m0, v))
  BY <1>0 DEF EmulatedStore
<1> HIDE DEF m0, p
<1>5. Cuts(m0, mm)
  <2>1. \A w \in Pages : PrivPage(m0, w) = PrivPage(mm, w) BY <1>1 DEF PrivPage, Modes
  <2> QED BY <1>1, <2>1, SameCuts DEF SameRecords
<1>6. ASSUME NEW n, MMState(n), Cuts(n, m0), Kept(n, m0), Become(StoreValue(n, v))
      PROVE  Sealed(mm)'
  <2>1. Cuts(n, mm) /\ Kept(n, mm) BY <1>2, <1>5, <1>6, CutsTwice, KeptTwice
  <2>2. Sealed(n) /\ BlocksMapped(n) BY <1>0, <2>1, SealedCut, KeptMapped DEF Kept
  <2> DEFINE x == StoreValue(n, v)
  <2>3. Fills(x, n) /\ (x.alive => x.blocks = n.blocks)
    <3>1. CASE x = n BY <3>1, CutsSelf
    <3>2. CASE x # n
      <4>1. /\ n.alive /\ ShadowPage(n[shadowActive], v).type = "fault"
            /\ x = ShadowMap(n, shadowActive, v)
        BY <3>2 DEF StoreValue
      <4>2. shadowActive = "priv" => PrivPage(n, v).type = "fault" BY <4>1 DEF PrivPage
      <4>3. WholeSections(n) BY <2>2, <4>1 DEF Sealed
      <4> HIDE DEF x
      <4> QED BY <1>0, <1>6, <4>1, <4>2, <4>3, ShadowMapFills, ShadowMapBlocks
    <3> QED BY <3>1, <3>2
  <2>4. Become(x) BY <1>6
  <2> HIDE DEF x
  <2>5. Sealed(x) BY <2>2, <2>3, SealedFill
  <2> QED BY <1>0, <2>4, <2>5, SealedBecome
<1>7. ASSUME f = guestPhysical, NEW k \in Megabytes, NEW e \in FirstEntries[guestPhysical][k],
             Become(StoreValue(EditFirst(m0, v, k, e), v))
      PROVE  Sealed(mm)'
  <2> DEFINE n == EditFirst(m0, v, k, e)
  <2>1. e \in GuestFirstEntries BY <1>0, <1>7, GuestAssumption
  <2>2. MMState(n) BY <1>0, <1>1, <2>1, EditFirstType
  <2>3. Kept(n, m0) BY <1>0, <1>1, <2>1, EditFirstKept
  <2>4. Cuts(n, m0) BY <1>0, <1>1, <1>7, EditFirstCuts
  <2> QED BY <1>6, <1>7, <2>2, <2>3, <2>4
<1>8. ASSUME NEW t \in Tables, NEW o \in Offsets, NEW e \in SecondEntries[t][o],
             Become(StoreValue(EditSecond(m0, v, t, o, e), v))
      PROVE  Sealed(mm)'
  <2> DEFINE n == EditSecond(m0, v, t, o, e)
  <2>1. MMState(n) BY <1>0, <1>1, EditSecondType
  <2>2. Kept(n, m0) BY <1>1, EditSecondKept
  <2>3. Cuts(n, m0) BY <1>1, <1>3, EditSecondCuts
  <2> QED BY <1>6, <1>8, <2>1, <2>2, <2>3
<1>9. CASE Become(StoreValue(m0, v)) BY <1>1, <1>6, <1>9, CutsSelf, KeptSelf
<1> QED BY <1>4, <1>6, <1>7, <1>8, <1>9

(* The pages of a new block are protected with the rest of their megabyte,  *)
(* or nobody may write them.                                                *)
LEMMA PageLeads ==
  ASSUME TypeInv, SecondOK(second), guestPhysical \in Bases, NEW v \in Pages,
         NEW w, w = Walk(guestPhysical, v), w.type = "page"
  PROVE  [frame |-> w.frame, ap |-> w.ap] \in MappingsAt(v)
<1> DEFINE g == first[guestPhysical][Megabyte(v)]
           p == second[g.table][Offset(v)]
<1>1. Megabyte(v) \in Megabytes /\ Offset(v) \in Offsets BY PagePair
<1>2. g \in FirstEntries[guestPhysical][Megabyte(v)] /\ g \in GuestFirstEntries
  BY <1>1 DEF TypeInv, GuestTypeOK
<1>3. CASE g.type = "section"
  <2>1. w.frame = PageAt(g.mb, Offset(v)) /\ w.ap = g.ap BY <1>3 DEF Walk
  <2>2. [frame |-> w.frame, ap |-> w.ap] \in Leads(g, Offset(v)) BY <1>3, <2>1 DEF Leads
  <2> QED BY <1>2, <2>2 DEF MappingsAt
<1>4. CASE g.type = "table"
  <2>1. g.table \in Tables BY <1>2, <1>4, GuestEntryCases
  <2>2. p.type = "page" /\ w.frame = p.frame /\ w.ap = p.ap BY <1>4, FaultIsEntry DEF Walk
  <2>3. p \in SecondEntries[g.table][Offset(v)] BY <1>1, <2>1 DEF SecondOK
  <2>4. [frame |-> w.frame, ap |-> w.ap] \in Leads(g, Offset(v)) BY <1>4, <2>2, <2>3 DEF Leads
  <2> QED BY <1>2, <2>4 DEF MappingsAt
<1>5. CASE g.type \notin {"section", "table"} BY <1>5, FaultIsEntry DEF Walk
<1> QED BY <1>3, <1>4, <1>5

LEMMA ScanBlockSeals ==
  ASSUME SealBase, NEW range \in CodeRanges, ScanBlock(range)
  PROVE  Sealed(mm)'
<1> DEFINE n == GuestWriteProtect(mm, RangeFrom(range))
           b == [v \in range |-> Reached(v).frame]
<1>1. /\ MMState(mm) /\ mm.alive /\ privileged /\ enabled /\ range \subseteq Pages
      /\ range \subseteq CodeAddresses /\ Sealed(mm)
  BY SealGiven DEF ScanBlock, SettledGuest, SealBase, CodeAddresses
<1>2. /\ MMState(n) /\ n.alive = mm.alive /\ n.blocks = mm.blocks
  BY <1>1, GuestWriteProtectState, GuestWriteProtectBlocks DEF SameBlocks
<1>3. mm' = [n EXCEPT !.blocks = mm.blocks \cup {b}] BY <1>1, <1>2 DEF ScanBlock
<1>4. Cuts(n, mm) BY <1>1, GuestWriteProtectCuts
<1>5. \A v \in Pages : Protects(PrivPage(n, v), PrivPage(mm, v), v, RangeFrom(range))
  BY <1>1, GuestWriteProtectPage DEF PrivPage, Modes
<1>6. DOMAIN b = range OBVIOUS
<1> HIDE DEF n, b
<1>7. Sealed(n) BY <1>1, <1>2, <1>4, SealedCut
<1>8. mm'["priv"] = n["priv"] /\ mm'.blocks = mm.blocks \cup {b} /\ mm'.alive
  BY <1>1, <1>2, <1>3 DEF MMState
<1>9. ASSUME NEW v \in range, PrivPage(n, v).type = "page"
      PROVE  PrivPage(n, v).ap # "rw_rw"
  <2>1. v \in Pages /\ Protects(PrivPage(n, v), PrivPage(mm, v), v, RangeFrom(range))
    BY <1>1, <1>5
  <2>2. PrivPage(mm, v).type = "page" BY <1>9, <2>1 DEF Protects
  <2>3. CASE Megabyte(v) = Megabyte(Start(range))
    <3>1. v \in RangeFrom(range) BY <2>1, <2>3, PagePair DEF RangeFrom
    <3> QED BY <1>9, <2>1, <3>1 DEF Protects
  <2>4. CASE \A x \in MappingsAt(v) : ~ Permitted(x.ap, TRUE, TRUE)
    <3>1. TypeInv /\ AgreeInv /\ SecondOK(second) /\ "priv" \in Modes
      BY DEF SealBase, AgreeBase, Modes
    <3> DEFINE e == Walk(guestPhysical, v)
    <3>2. PICK t : t = "priv" OBVIOUS
    <3>3. PICK p : p = ShadowPage(mm[t], v) OBVIOUS
    <3>4. p = PrivPage(mm, v) BY <3>2, <3>3 DEF PrivPage
    <3>5. guestPhysical \in Bases /\ PageAgrees(t, p, e) /\ e.type = "page"
      BY <1>1, <2>1, <2>2, <3>1, <3>2, <3>3, <3>4, MappedPage
    <3>6. [frame |-> e.frame, ap |-> e.ap] \in MappingsAt(v) BY <2>1, <3>1, <3>5, PageLeads
    <3> HIDE DEF e
    <3>7. ~ Permitted(e.ap, TRUE, TRUE) BY <2>4, <3>6
    <3>8. (t = "priv") = TRUE BY <3>2
    <3>9. ~ Granted(p, TRUE) BY <2>2, <3>4, <3>5, <3>7, <3>8 DEF PageAgrees
    <3>10. p.ap # "rw_rw" BY <3>9 DEF Granted
    <3> QED BY <1>9, <2>1, <3>4, <3>10 DEF Protects
  <2> QED BY <2>3, <2>4 DEF SealBase, SealedCode, CodeBeyondStart
<1>10. WholeSections(n) BY <1>1, <1>2, <1>7 DEF Sealed
<1>11. WholeSections(mm') BY <1>8, <1>10 DEF WholeSections, PrivPage
<1>12. ASSUME NEW c \in mm'.blocks, NEW v \in DOMAIN c
       PROVE  /\ v \in CodeAddresses \cap Pages
              /\ PrivPage(mm', v).type = "page" => PrivPage(mm', v).ap # "rw_rw"
  <2>1. PrivPage(mm', v) = PrivPage(n, v) BY <1>8 DEF PrivPage
  <2>2. CASE c = b BY <1>1, <1>6, <1>9, <2>1, <2>2
  <2>3. CASE c \in mm.blocks BY <1>1, <1>2, <1>7, <2>1, <2>3 DEF Sealed
  <2> QED BY <1>8, <2>2, <2>3
<1>13. Sealed(mm') BY <1>11, <1>12 DEF Sealed
<1> QED BY <1>13

LEMMA FreshSealed ==
  ASSUME NoHostPages, NEW m, m.priv = FreshTable, m.blocks = {}
  PROVE  Sealed(m)
<1>1. \A k \in Megabytes : FreshTable[k] = Fault BY DEF FreshTable, NoHostPages
<1>2. \A v \in Pages : PrivPage(m, v) = Fault
  BY <1>1, PagePair, FaultIsEntry DEF PrivPage, ShadowPage
<1> QED BY <1>2, FaultIsEntry DEF Sealed, WholeSections

LEMMA SealStep ==
  ASSUME SealBase, [Next]_vars
  PROVE  Sealed(mm)'
<1>0. /\ MMState(mm) /\ Sealed(mm) /\ enabled \in BOOLEAN /\ NoHostPages
      /\ (~ enabled => Fresh(mm)) /\ (mm.alive /\ ~ enabled => mm.blocks = {})
  BY SealGiven DEF SealBase, AgreeBase, TypeInv, Obedient, Assumed, CodeInv
<1>1. CASE ChangeMode BY <1>1, GuestChangeModeSeals DEF ChangeMode
<1>2. CASE WriteTableBase
  <2>1. ~ enabled /\ mm.alive BY <1>2 DEF WriteTableBase, SettledGuest, SealBase
  <2>2. mm' = [mm EXCEPT !.guestVirtual = NoBase]
    BY <1>2, <2>1 DEF WriteTableBase, WriteTTBR0, WriteACTLR, GuestSetPageTableBase
  <2>3. mm'.blocks = {} /\ mm'.priv = FreshTable BY <1>0, <2>1, <2>2 DEF MMState, Fresh
  <2>4. Sealed(mm') BY <1>0, <2>3, FreshSealed
  <2> QED BY <2>4
<1>3. CASE EnableMMU
  <2>1. mm.blocks = {} BY <1>0, <1>3 DEF EnableMMU
  <2>2. CASE guestPhysical = NoBase
    <3>1. Sealed(mm') BY <1>0, <1>3, <2>2, DieState DEF EnableMMU, Sealed
    <3> QED BY <3>1
  <2>3. CASE guestPhysical # NoBase
    <3>1. mm'.blocks = {} /\ mm'.priv = FreshTable
      BY <1>0, <1>3, <2>1, <2>3 DEF EnableMMU, EmptyTables, MMState
    <3>2. Sealed(mm') BY <1>0, <3>1, FreshSealed
    <3> QED BY <3>2
  <2> QED BY <2>2, <2>3
<1>4. CASE DisableMMU
  <2>1. mm'.blocks = {} /\ mm'.priv = FreshTable
    BY <1>0, <1>4 DEF DisableMMU, EmptyTables, MMState
  <2>2. Sealed(mm') BY <1>0, <2>1, FreshSealed
  <2> QED BY <2>2
<1>5. CASE mm' = mm
  <2>1. Sealed(mm') BY <1>0, <1>5
  <2> QED BY <2>1
<1>6. CASE \E v \in Pages : PhysicalStore(v)
  <2>1. PICK v \in Pages : mm' = ClearTranslations(mm, {v}) /\ ~ enabled /\ mm.alive
    BY <1>6 DEF PhysicalStore
  <2>2. mm'["priv"] = mm["priv"] BY <1>0, <2>1, ClearState DEF Modes
  <2>3. mm'.blocks \subseteq mm.blocks BY <1>0, <2>1 DEF ClearTranslations, MMState
  <2>4. mm'.blocks = {} BY <1>0, <2>1, <2>3
  <2>5. mm'.priv = FreshTable BY <1>0, <2>1, <2>2 DEF Fresh
  <2>6. Sealed(mm') BY <1>0, <2>4, <2>5, FreshSealed
  <2> QED BY <2>6
<1>7. CASE mm' = Die(mm)
  <2>1. Sealed(mm') BY <1>0, <1>7, DieState DEF Sealed
  <2> QED BY <2>1
<1>8. CASE \E v \in Pages, size \in StoreSizes : EmulatedStore(v, size)
  BY <1>8, EmulatedStoreSeals
<1>9. CASE \E v \in Pages, write \in BOOLEAN : TranslationFault(v, write)
  BY <1>9, TranslationFaultSeals
<1>10. CASE \E v \in Pages, write \in BOOLEAN : PermissionAbort(v, write)
  <2>1. PICK v \in Pages, write \in BOOLEAN : PermissionAbort(v, write) BY <1>10
  <2>2. CASE DeliverDataAbort BY <2>2, GuestChangeModeSeals DEF DeliverDataAbort
  <2> QED BY <1>7, <2>1, <2>2 DEF PermissionAbort
<1>11. CASE \E range \in CodeRanges : ScanBlock(range) BY <1>11, ScanBlockSeals
<1>12. CASE WriteDACR \/ (\E v \in Pages : DirectStore(v)) \/ UNCHANGED vars
  BY <1>5, <1>12 DEF WriteDACR, DirectStore, vars
<1>13. CASE \E v \in Pages : DomainFault(v) BY <1>7, <1>13 DEF DomainFault
<1> QED BY <1>1, <1>2, <1>3, <1>4, <1>6, <1>8, <1>9, <1>10, <1>11, <1>12, <1>13 DEF Next

LEMMA SealedImplies ==
  ASSUME Obedient, SettledGuest, SealedCode, ShadowInv, CodeInv, Sealed(mm)
  PROVE  CodeWriteProtected
<1> SUFFICES ASSUME mm.alive, NEW t \in Modes, NEW v \in Pages, NEW p, p = ShadowPage(mm[t], v),
                    p.type = "page", NEW b \in mm.blocks, p.frame \in Range(b)
             PROVE  ~ Granted(p, TRUE)
  BY DEF CodeWriteProtected
<1>0. TypeInv /\ AgreeInv /\ SecondOK(second) /\ "priv" \in Modes /\ enabled \in BOOLEAN
  BY DEF ShadowInv, TypeInv, Modes
<1>1. PICK w \in DOMAIN b : p.frame = b[w] BY DEF Range
<1>2. /\ w \in CodeAddresses \cap Pages
      /\ PrivPage(mm, w).type = "page" => PrivPage(mm, w).ap # "rw_rw"
  BY DEF Sealed
<1>3. ShadowPage(mm["priv"], w).type = "page" /\ ShadowPage(mm["priv"], w).frame = p.frame
  BY <1>0, <1>1 DEF CodeInv
<1> DEFINE e == Walk(guestPhysical, v)
           f == Walk(guestPhysical, w)
<1>4. guestPhysical \in Bases /\ PageAgrees(t, p, e) /\ e.type = "page" /\ e.frame = p.frame
  BY <1>0, MappedPage
<1>5. f.type = "page" /\ f.frame = p.frame BY <1>0, <1>2, <1>3, MappedPage
<1> DEFINE x == [frame |-> e.frame, ap |-> e.ap]
           y == [frame |-> f.frame, ap |-> f.ap]
<1>6. x \in MappingsAt(v) /\ y \in MappingsAt(w) BY <1>0, <1>2, <1>4, <1>5, PageLeads
<1>7. x.frame = y.frame /\ x.ap = e.ap BY <1>4, <1>5
<1> HIDE DEF e, f, x, y
<1>8. v = w BY <1>2, <1>6, <1>7 DEF SealedCode, CodeAtOnePlace
<1>9. CASE t = "priv" BY <1>2, <1>3, <1>8, <1>9 DEF PrivPage, Granted
<1>10. CASE t = "user"
  <2>1. ~ Permitted(e.ap, FALSE, TRUE) BY <1>2, <1>6, <1>7, <1>8 DEF SealedCode, CodeNotOfUsers
  <2>2. (t = "priv") = FALSE BY <1>10
  <2>3. Granted(p, TRUE) => Permitted(e.ap, t = "priv", TRUE) BY <1>4 DEF PageAgrees
  <2> QED BY <2>1, <2>2, <2>3
<1> QED BY <1>9, <1>10 DEF Modes

(* No store of the guest reaches translated code without a fault, whatever  *)
(* is mapped, switched or edited after the code was scanned.                *)
THEOREM CodeStaysProtected ==
  Obedient /\ SettledGuest /\ SealedCode => (Spec => []CodeWriteProtected)
<1> SUFFICES ASSUME Obedient, SettledGuest, SealedCode PROVE Spec => []CodeWriteProtected OBVIOUS
<1> DEFINE Inv == ShadowInv /\ CodeInv /\ Sealed(mm)
<1>1. Init => Inv
  <2>1. Init => ShadowInv /\ CodeInv BY ShadowInit DEF Init, CodeInv
  <2>2. Init => mm.priv = FreshTable /\ mm.blocks = {} BY DEF Init
  <2>3. Init => Sealed(mm) BY <2>2, FreshSealed DEF Obedient, Assumed
  <2> QED BY <2>1, <2>3
<1>2. Inv /\ [Next]_vars => Inv'
  <2> SUFFICES ASSUME Inv, [Next]_vars PROVE Inv' OBVIOUS
  <2>1. SealBase BY DEF SealBase, AgreeBase, ShadowInv
  <2>2. ShadowInv' BY ShadowStep
  <2>3. CodeInv' BY <2>1, CodeStep DEF SealBase
  <2>4. Sealed(mm)' BY <2>1, SealStep
  <2> QED BY <2>2, <2>3, <2>4
<1>3. Inv => CodeWriteProtected BY SealedImplies
<1> QED BY <1>1, <1>2, <1>3, PTL DEF Spec

=============================================================================
