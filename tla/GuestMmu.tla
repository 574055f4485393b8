----------------------------- MODULE GuestMmu -----------------------------
(***************************************************************************)
(* The memory management unit the guest believes it has: its own first and *)
(* second level tables, walked at every access, and its own mode and domain *)
(* register deciding whether the access goes through or aborts.  There are *)
(* no shadow tables.  ShadowTables is shown to implement this              *)
(* specification.  A page is a pair, its megabyte and its place in it, and *)
(* so is a page frame.                                                     *)
(***************************************************************************)
EXTENDS Integers

CONSTANTS
  PagesPerMegabyte,
  NumMegabytes,   \* virtual megabytes of the model
  Bases,          \* page frames that hold a first level table
  Tables,         \* second level tables: [frame, at], at the place in its page
  FirstEntries,   \* what the guest writes into a first level entry
  SecondEntries,  \* ... and into a second level entry
  Domains,
  Dacrs           \* what the guest writes into the domain register

VARIABLES
  first,       \* first[b][m]: the guest's first level entry
  second,      \* second[t][o]: the guest's second level entry
  ttbr,        \* the guest's table base register
  enabled,     \* the guest's MMU is on
  privileged,  \* the guest is not in user mode
  dacr         \* its domain access control register

guestVars == <<first, second, ttbr, enabled, privileged, dacr>>

Megabytes == 0 .. NumMegabytes - 1
Offsets   == 0 .. PagesPerMegabyte - 1
Pages     == Megabytes \X Offsets
NoBase    == <<-1, 0>>

Megabyte(v)  == v[1]
Offset(v)    == v[2]
PageAt(m, o) == <<m, o>>

(* Access permissions, by what privileged and user code may do.             *)
Permissions == {"no_no", "rw_no", "rw_ro", "rw_rw", "ro_no", "ro_ro", "deprecated"}

Permitted(ap, priv, write) ==
  CASE ap = "no_no" -> FALSE
    [] ap = "rw_no" -> priv
    [] ap = "rw_ro" -> priv \/ ~ write
    [] ap = "rw_rw" -> TRUE
    [] ap = "ro_no" -> priv /\ ~ write
    [] OTHER        -> ~ write

Fault == [type |-> "fault"]

GuestFirstEntries ==
  {Fault} \cup [type : {"section"}, mb : Nat, ap : Permissions, dom : Domains]
          \cup [type : {"table"}, table : Tables, dom : Domains]
GuestSecondEntries ==
  {Fault} \cup [type : {"page"}, frame : Nat \X Offsets, ap : Permissions]

ASSUME GuestAssumption ==
  /\ PagesPerMegabyte \in Nat \ {0} /\ NumMegabytes \in Nat \ {0}
  /\ Bases \subseteq Nat \X Offsets
  /\ Tables \subseteq [frame : Nat \X Offsets, at : Nat]
  /\ \A b \in Bases, m \in Megabytes :
       FirstEntries[b][m] # {} /\ FirstEntries[b][m] \subseteq GuestFirstEntries
  /\ \A t \in Tables, o \in Offsets :
       SecondEntries[t][o] # {} /\ SecondEntries[t][o] \subseteq GuestSecondEntries
  /\ Dacrs \subseteq [Domains -> {"none", "client", "manager"}]

(* The walk of page v in the tables at base b: the entry that maps it.      *)
Walk(b, v) ==
  LET g == first[b][Megabyte(v)] IN
  CASE g.type = "section" ->
         [type |-> "page", frame |-> PageAt(g.mb, Offset(v)), ap |-> g.ap, dom |-> g.dom]
    [] g.type = "table" /\ second[g.table][Offset(v)].type = "page" ->
         [type |-> "page", frame |-> second[g.table][Offset(v)].frame,
          ap |-> second[g.table][Offset(v)].ap, dom |-> g.dom]
    [] OTHER -> Fault

MayAccess(e, priv, write) ==
  /\ e.type = "page"
  /\ \/ dacr[e.dom] = "manager"
     \/ dacr[e.dom] = "client" /\ Permitted(e.ap, priv, write)

(* A word of page frame f is written: an entry of a table, or data.         *)
WriteFirst(f) ==
  /\ f \in Bases
  /\ \E m \in Megabytes : \E e \in FirstEntries[f][m] :
       first' = [first EXCEPT ![f][m] = e]
  /\ UNCHANGED second

WriteSecond(f) ==
  /\ \E t \in {t \in Tables : t.frame = f} : \E o \in Offsets :
       \E e \in SecondEntries[t][o] : second' = [second EXCEPT ![t][o] = e]
  /\ UNCHANGED first

WriteData == UNCHANGED <<first, second>>

Write(f) == WriteFirst(f) \/ WriteSecond(f) \/ WriteData

Blank(entries) == CHOOSE e \in entries : e = Fault \/ Fault \notin entries

GuestInit ==
  /\ first = [b \in Bases |-> [m \in Megabytes |-> Blank(FirstEntries[b][m])]]
  /\ second = [t \in Tables |-> [o \in Offsets |-> Blank(SecondEntries[t][o])]]
  /\ ttbr = NoBase /\ enabled = FALSE /\ privileged = TRUE
  /\ dacr \in Dacrs

(* The frame a store to page v may write.                                   *)
FramesOf(v) ==
  IF ~ enabled THEN {v}
  ELSE IF ttbr \in Bases /\ MayAccess(Walk(ttbr, v), privileged, TRUE)
         THEN {Walk(ttbr, v).frame} ELSE {}

Store(v) ==
  /\ \E f \in FramesOf(v) : Write(f)
  /\ UNCHANGED <<ttbr, enabled, privileged, dacr>>

Abort(v, write) ==
  /\ enabled /\ ttbr \in Bases
  /\ ~ MayAccess(Walk(ttbr, v), privileged, write)
  /\ privileged' = TRUE
  /\ UNCHANGED <<first, second, ttbr, enabled, dacr>>

SetBase ==
  /\ privileged /\ ttbr' \in Bases
  /\ UNCHANGED <<first, second, enabled, privileged, dacr>>

SetEnabled ==
  /\ privileged /\ enabled' = ~ enabled
  /\ UNCHANGED <<first, second, ttbr, privileged, dacr>>

SetMode ==
  /\ privileged' \in BOOLEAN
  /\ UNCHANGED <<first, second, ttbr, enabled, dacr>>

SetDacr ==
  /\ privileged /\ dacr' \in Dacrs
  /\ UNCHANGED <<first, second, ttbr, enabled, privileged>>

GuestNext ==
  \/ \E v \in Pages : Store(v) \/ Abort(v, TRUE) \/ Abort(v, FALSE)
  \/ SetBase \/ SetEnabled \/ SetMode \/ SetDacr

GuestSpec == GuestInit /\ [][GuestNext]_guestVars
=============================================================================
