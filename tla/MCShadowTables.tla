-------------------------- MODULE MCShadowTables --------------------------
(***************************************************************************)
(* Guests for the model checker.  A megabyte has two pages.  Frame 0 holds *)
(* the first level table, frame 1 two second level tables, the one at the  *)
(* start of the page and the other behind it; frame 2 is a second first    *)
(* level table or code, frame 3 data; frames 4 and 5 are a device.         *)
(***************************************************************************)
EXTENDS ShadowTables

Sec(mb, ap)    == [type |-> "section", mb |-> mb, ap |-> ap, dom |-> 0]
SecIn(mb, ap, d) == [Sec(mb, ap) EXCEPT !.dom = d]
Tab(t)         == [type |-> "table", table |-> t, dom |-> 0]
Frame(n)       == <<n \div 2, n % 2>>
Page(n, ap)    == [type |-> "page", frame |-> Frame(n), ap |-> ap]

FrontTable == [frame |-> Frame(1), at |-> 0]
BackTable  == [frame |-> Frame(1), at |-> 1]

Client   == [d \in {0, 1} |-> "client"]
OneOpen  == [Client EXCEPT ![1] = "none"]
Managing == [Client EXCEPT ![1] = "manager"]

Row(a, b, c) == [m \in 0 .. 2 |-> <<a, b, c>>[m + 1]]
Two(a, b)    == [o \in 0 .. 1 |-> <<a, b>>[o + 1]]

(* Two address spaces that share the kernel's megabyte; one of them has a   *)
(* table of user pages and maps the kernel's memory, with its own tables,   *)
(* a second time.                                                           *)
SwitchBases == {Frame(0), Frame(2)}
SwitchFirst == [b \in SwitchBases |-> IF b = Frame(0)
  THEN Row({Sec(0, "rw_no")}, {Fault, Tab(FrontTable)}, {Fault, Sec(1, "rw_ro"), SecIn(1, "rw_rw", 1), Sec(2, "rw_rw"), Sec(3, "rw_rw")})
  ELSE Row({Sec(0, "rw_no")}, {Fault, Sec(1, "ro_no")}, {Fault})]
SwitchDacrs == {Client, OneOpen}
SwitchCode == {{Frame(1)}}
SwitchTables == {FrontTable}
SwitchSecond == [t \in {FrontTable} |-> Two({Fault, Page(3, "rw_rw")}, {Fault, Page(3, "ro_ro")})]

(* A kernel that moves its code between two physical megabytes, and a user  *)
(* program and its data in the pages of a table.                            *)
CodeBases == {Frame(0)}
CodeFirst == [b \in CodeBases |->
  Row({Sec(0, "rw_no")}, {Fault, Sec(1, "rw_no"), Sec(2, "rw_no")}, {Fault, Tab(FrontTable)})]
CodeSecond == [t \in {FrontTable} |-> Two({Page(6, "ro_ro")}, {Page(7, "rw_ro")})]
CodeTables == {FrontTable}
CodeDacrs  == {Client}
CodePages  == {{Frame(2)}, {Frame(2), Frame(3)}, {Frame(4)}, {Frame(3), Frame(4)}}
=============================================================================
