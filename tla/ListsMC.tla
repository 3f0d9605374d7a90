------------------------------ MODULE ListsMC ------------------------------
(* A small instance of Lists and of Reports: two branches, two teams of two *)
(* departments, and the contexts that the roles of a dealer are given.      *)
EXTENDS Lists, Reports, TLC

Departments == [t \in Team |-> IF t = "s1" THEN "sales" ELSE "service"]

Work(b, t, o, h, a) == [branch |-> b, team |-> t, owner |-> o, holder |-> h, assignee |-> a]
Colleague(b, t) ==
    [branchMode |-> IF b = {} THEN "ALL" ELSE "SELECTED", branches |-> b,
     teamMode |-> IF t = {} THEN "NONE" ELSE "SELECTED", teams |-> t]

RecordsOf(k) ==
    CASE k = "USERS" -> {Colleague({}, {}), Colleague({"b1"}, {"s1"}), Colleague({"b2"}, {"s2"})}
      [] k \in {"LEADS", "CALLS", "RIDES", "CONVERSATIONS"} ->
           {Work("b1", Null, "me", "me", "me"), Work("b1", Null, "me", "other", Null),
            Work("b1", "s2", "other", "me", "other"), Work("b1", "s1", "other", "other", "me"),
            Work("b2", "s1", "me", "other", "me")}
      [] OTHER ->
           {Work("b1", Null, Null, Null, "me"), Work("b1", Null, Null, Null, "other"),
            Work("b2", Null, Null, Null, "me")}

ContextOf(role, assignment, branchMode, departmentMode, teamMode, teams, managed) ==
    [role |-> role, assignment |-> assignment,
     branchMode |-> branchMode, branches |-> IF branchMode = "SELECTED" THEN {"b1"} ELSE {},
     departmentMode |-> departmentMode,
     departments |-> IF departmentMode = "SELECTED" THEN {"sales"} ELSE {},
     teamMode |-> teamMode, teams |-> teams, managed |-> managed]

Manager == ContextOf("SALES_MANAGER", "TEAM", "SELECTED", "SELECTED", "SELECTED", {"s1"}, {})
Salesperson ==
    ContextOf("SALESPERSON", "OWNED_OR_ASSIGNED", "SELECTED", "SELECTED", "SELECTED", {"s1"}, {})

(* Those of the seeded roles, and some an administrator may choose beside    *)
(* them.                                                                     *)
AllContexts ==
    {ContextOf("CLIENT_ADMIN", "ALL", "ALL", "ALL", "ALL", {}, {}),
     Manager, Salesperson,
     ContextOf("TEAM_MANAGER", "TEAM", "SELECTED", "SELECTED", "SELECTED", {"s1"}, {"s1"}),
     ContextOf("TEAM_MANAGER", "TEAM", "SELECTED", "SELECTED", "SELECTED", {"s1"}, {"s2"}),
     ContextOf("TELECALLER", "ASSIGNED", "SELECTED", "SELECTED", "SELECTED", {"s1"}, {}),
     ContextOf("TEST_RIDE_EXECUTIVE", "ASSIGNED", "SELECTED", "SELECTED", "NONE", {}, {}),
     ContextOf("DELIVERY_EXECUTIVE", "OWNED", "SELECTED", "NONE", "NONE", {}, {})}

(* What is read in pages changes while there are two rows or fewer. *)
ListsBound == ~reading.calm => Len(order) < 3

-----------------------------------------------------------------------------
(* The exports: reports on the leads that the lists show. *)
Teams == [u \in {"me", "other"} |-> IF u = "me" THEN {"s1"} ELSE {"s2"}]
Asked == {[branch |-> Null, team |-> Null], [branch |-> "b1", team |-> "s1"]}

(* Bounds: one lead, the member's or a colleague's of another branch, which  *)
(* is booked only for the reports on what is booked and absent from the one  *)
(* about events, and two of the contexts.                                    *)
Requesters == {c \in Contexts : c.role \in {"CLIENT_ADMIN", "SALES_MANAGER"}}
ReportOn(k) == \E x \in Export : exports[x] # NoExport /\ exports[x].kind = k
ReportsBound ==
    /\ Len(order) < 2 /\ context \in Requesters
    /\ \A r \in Present : rows[r] \in {Work("b1", Null, "me", "me", "me"),
                                      Work("b2", "s1", "me", "other", "me")}
    /\ \A r \in ListRow : booked[r] # Null => ReportOn("BOOKINGS") \/ ReportOn("REMINDERS")
    /\ ReportOn("AUDIT_EVENTS") => order = <<>>
=============================================================================
