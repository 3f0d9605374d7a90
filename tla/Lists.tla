------------------------------- MODULE Lists -------------------------------
(***************************************************************************)
(* What a member sees: authorization-policy.ts, authorization-scope.sql.ts *)
(* and the list, detail and figures of the services that use them.         *)
(*                                                                         *)
(* A list is a query that states the member's scope in SQL, takes one page *)
(* and one row more, drops the rows that the service's own check refuses,  *)
(* and says that there is another page when more than a page is left.  A   *)
(* detail asks the check alone.  The scope is stated again, by hand, for   *)
(* the figures of the dashboard.                                           *)
(*                                                                         *)
(* A behaviour is about one list, one member (`Me`) and one reading of the *)
(* pages at a time; other members only change rows and scopes.             *)
(***************************************************************************)
EXTENDS Naturals, Sequences, FiniteSets

CONSTANTS
    ListRow,            \* rows of the list
    Me,             \* the member's user
    Branch, Team, Department,
    DepartmentOf,   \* teams.department_id
    Null,           \* null
    Absent,         \* the list has no such column
    Kinds,          \* the lists that are read
    Records(_),     \* the rows that may be in a list
    Contexts,       \* the contexts the member's membership may give
    PageSize        \* query.limit

ASSUME ListsAssumption ==
    /\ DepartmentOf \in [Team -> Department]
    /\ Null \notin Team \cup Department /\ Absent \notin Team /\ Absent # Null
    /\ Me \notin {Null, Absent}
    /\ PageSize \in Nat \ {0}
    /\ Kinds \subseteq {"LEADS", "CALLS", "RIDES", "CONVERSATIONS", "DELIVERIES", "CASES",
                        "VEHICLES", "PLANS", "REMINDERS", "UNITS", "BOOKINGS", "USERS"}

VARIABLES
    kind,       \* which list
    context,    \* the AuthorizationContext that the next request resolves
    rows,       \* the table behind the list
    order,      \* its rows in the order of the list
    reading     \* the pages a client has asked for

listVars == <<kind, context, rows, order, reading>>

-----------------------------------------------------------------------------
Mode == {"ALL", "SELECTED", "NONE"}
AuthorizationContext ==
    [role: {"CLIENT_ADMIN", "SALES_MANAGER", "TEAM_MANAGER", "TELECALLER",
            "SALESPERSON", "TEST_RIDE_EXECUTIVE", "DELIVERY_EXECUTIVE"},
     assignment: {"ALL", "TEAM", "OWNED", "ASSIGNED", "OWNED_OR_ASSIGNED", "NONE"},
     branchMode: Mode, branches: SUBSET Branch,
     departmentMode: Mode, departments: SUBSET Department,
     teamMode: Mode, teams: SUBSET Team, managed: SUBSET Team]

ASSUME ContextsAssumption == Contexts \subseteq AuthorizationContext

(* No row. *)
Blank == [id |-> Null]

(* A row of a list: the relationship owner and the process owner of its      *)
(* lead, and the executive, or the owner of the conversation, it is given    *)
(* to; a member of the client is the row of the list of members.             *)
ASSUME RecordsAssumption ==
    /\ \A k \in Kinds : Blank \notin Records(k)
    /\ \A k \in Kinds \ {"USERS"} : \A r \in Records(k) :
           /\ DOMAIN r = {"branch", "team", "owner", "holder", "assignee"}
           /\ r.branch \in Branch /\ r.team \in Team \cup {Null}
           /\ Absent \notin {r.owner, r.holder, r.assignee}

(* AuthorizationPolicy. *)
canAccessBranch(c, b) ==
    c.branchMode = "ALL" \/ (c.branchMode = "SELECTED" /\ b \in c.branches)

canAccessTeam(c, t) ==
    IF c.role = "TEAM_MANAGER" THEN t \in c.managed
    ELSE c.teamMode = "ALL" \/ (c.teamMode = "SELECTED" /\ t \in c.teams)

canAccessDepartment(c, d) ==
    c.departmentMode = "ALL" \/ (c.departmentMode = "SELECTED" /\ d \in c.departments)

TeamAndDepartment(c, t) ==
    t \in Team => canAccessTeam(c, t) /\ canAccessDepartment(c, DepartmentOf[t])

canAccessResource(c, s) ==
    /\ canAccessBranch(c, s.branch)
    /\ TeamAndDepartment(c, s.team)
    /\ c.assignment = "TEAM" => s.team \in Team /\ canAccessTeam(c, s.team)
    /\ c.assignment = "OWNED" => s.owner = Me
    /\ c.assignment = "ASSIGNED" => s.assignee = Me
    /\ c.assignment = "OWNED_OR_ASSIGNED" => Me \in {s.owner, s.assignee}
    /\ c.assignment # "NONE"

(* The same scope as a condition of a query. *)
scopeModeCondition(mode, ids, x) == mode = "ALL" \/ (mode = "SELECTED" /\ x \in ids)

(* Rows without a team are left out. *)
FaultyNullableCondition(mode, ids, x) ==
    mode = "ALL" \/ (mode = "SELECTED" /\ x \in ids)

(* A row without a team or department is within every scope. *)
nullableScopeModeCondition(mode, ids, x) ==
    mode = "ALL" \/ x = Null \/ (mode = "SELECTED" /\ x \in ids)

(* The department is the team's: a left join. *)
departmentOf(t) == IF t \in Team THEN DepartmentOf[t] ELSE Null

authorizationScopeCondition(c, s) ==
    /\ scopeModeCondition(c.branchMode, c.branches, s.branch)
    /\ s.team # Absent =>
         /\ nullableScopeModeCondition(c.departmentMode, c.departments, departmentOf(s.team))
         /\ nullableScopeModeCondition(c.teamMode, c.teams \cup c.managed, s.team)
    /\ c.assignment = "ASSIGNED" => s.assignee \in {Absent, Me}
    /\ c.assignment = "OWNED" => s.owner \in {Absent, Me}
    /\ c.assignment = "OWNED_OR_ASSIGNED" => Me \in {s.owner, s.assignee}
    /\ c.assignment = "TEAM" => s.team \notin {Absent, Null}
    /\ c.assignment # "NONE"

-----------------------------------------------------------------------------
(* What each list gives the query, and what its service checks of a row. *)
leadScope(r) == [branch |-> r.branch, team |-> r.team, owner |-> r.owner, assignee |-> r.holder]
callScope(r) == leadScope(r)
rideScope(r) == [branch |-> r.branch, team |-> r.team, owner |-> r.owner, assignee |-> r.assignee]
conversationScope(r) == rideScope(r)
deliveryScope(r) ==
    [branch |-> r.branch, team |-> Absent, owner |-> Absent, assignee |-> r.assignee]
caseScope(r) == deliveryScope(r)
vehicleScope(r) == [branch |-> r.branch, team |-> Absent, owner |-> Absent, assignee |-> Absent]
planScope(r) == vehicleScope(r)
reminderScope(r) == vehicleScope(r)
unitScope(r) == vehicleScope(r)
bookingScope(r) == vehicleScope(r)

Scope(k, r) ==
    CASE k = "LEADS" -> leadScope(r)
      [] k = "CALLS" -> callScope(r)
      [] k = "RIDES" -> rideScope(r)
      [] k = "CONVERSATIONS" -> conversationScope(r)
      [] k = "DELIVERIES" -> deliveryScope(r)
      [] k = "CASES" -> caseScope(r)
      [] k = "VEHICLES" -> vehicleScope(r)
      [] k = "PLANS" -> planScope(r)
      [] k = "REMINDERS" -> reminderScope(r)
      [] k = "UNITS" -> unitScope(r)
      [] k = "BOOKINGS" -> bookingScope(r)

(* A salesperson sees the leads whose process is theirs, *)
canAccessLead(c, r) ==
    IF c.role = "SALESPERSON"
    THEN /\ canAccessBranch(c, r.branch)
         /\ TeamAndDepartment(c, r.team)
         /\ r.holder = Me
    ELSE canAccessResource(c, leadScope(r))

(* and the rides of leads that are theirs in either way; the executive of a  *)
(* ride sees it whatever its team.                                           *)
canAccessRide(c, r) ==
    CASE c.role = "TEST_RIDE_EXECUTIVE" -> r.assignee = Me /\ canAccessBranch(c, r.branch)
      [] c.role = "SALESPERSON" -> canAccessBranch(c, r.branch) /\ Me \in {r.owner, r.holder}
      [] OTHER -> canAccessResource(c, rideScope(r))

leadDetail(c, r) == canAccessLead(c, r)
callDetail(c, r) == canAccessLead(c, r)
rideDetail(c, r) == canAccessRide(c, r)
scopedConversation(c, r) == canAccessResource(c, conversationScope(r))
deliveryDetail(c, r) == canAccessResource(c, deliveryScope(r))
caseDetail(c, r) == canAccessResource(c, caseScope(r))
vehicleDetail(c, r) == canAccessResource(c, vehicleScope(r))
accessibleInstance(c, r) == canAccessResource(c, reminderScope(r))
unitDetail(c, r) == canAccessBranch(c, r.branch)
bookingDetail(c, r) == canAccessBranch(c, r.branch)

(* The members of a client, by the scopes of a member and of the one asked. *)
branchVisible(c, u) ==
    \/ c.branchMode = "ALL"
    \/ c.branchMode = "SELECTED" /\ u.branchMode = "ALL"
    \/ c.branchMode = "SELECTED" /\ u.branchMode = "SELECTED" /\ u.branches \cap c.branches # {}

teamVisible(c, u) ==
    \/ c.teamMode = "ALL"
    \/ c.teamMode = "SELECTED" /\ (u.teamMode \in {"ALL", "NONE"} \/ u.teams \cap c.teams # {})

listTenantUsers(c, u) ==
    /\ c.branchMode # "NONE" /\ c.teamMode # "NONE"
    /\ c.branchMode = "SELECTED" =>
         u.branchMode = "ALL" \/ (u.branchMode = "SELECTED" /\ u.branches \cap c.branches # {})
    /\ c.teamMode = "SELECTED" =>
         u.teamMode \in {"ALL", "NONE"} \/ u.teams \cap c.teams # {}

Opens(k, c, r) ==
    CASE k = "LEADS" -> leadDetail(c, r)
      [] k = "CALLS" -> callDetail(c, r)
      [] k = "RIDES" -> rideDetail(c, r)
      [] k = "CONVERSATIONS" -> scopedConversation(c, r)
      [] k = "DELIVERIES" -> deliveryDetail(c, r)
      [] k = "CASES" -> caseDetail(c, r)
      [] k = "VEHICLES" -> vehicleDetail(c, r)
      [] k \in {"PLANS", "REMINDERS"} -> accessibleInstance(c, r)
      [] k = "UNITS" -> unitDetail(c, r)
      [] k = "BOOKINGS" -> bookingDetail(c, r)
      [] k = "USERS" -> branchVisible(c, r) /\ teamVisible(c, r)

Selects(k, c, r) ==
    IF k = "USERS" THEN listTenantUsers(c, r) ELSE authorizationScopeCondition(c, Scope(k, r))

(* The figures of the dashboard count the leads of their own condition. *)
branchAccess(c, b) == scopeModeCondition(c.branchMode, c.branches, b)

leadAccess(c, r) ==
    /\ branchAccess(c, r.branch)
    /\ CASE c.role = "TEAM_MANAGER" -> r.team \in c.managed
         [] c.role # "TEAM_MANAGER" /\ c.assignment = "TEAM" -> r.team \in c.teams \cup c.managed
         [] OTHER -> /\ c.teamMode = "SELECTED" => r.team \in c.teams \cup {Null}
                     /\ c.teamMode = "NONE" => c.assignment = "ALL"
    /\ c.departmentMode = "SELECTED" => departmentOf(r.team) \in c.departments \cup {Null}
    /\ c.departmentMode = "NONE" => c.assignment = "ALL"
    /\ CASE c.assignment = "OWNED" -> r.owner = Me
         [] c.assignment = "ASSIGNED" \/ (c.role = "SALESPERSON" /\ c.assignment # "OWNED")
              -> r.holder = Me
         [] c.assignment = "OWNED_OR_ASSIGNED" /\ c.role # "SALESPERSON" -> Me \in {r.owner, r.holder}
         [] c.assignment = "NONE" /\ c.role # "SALESPERSON" -> FALSE
         [] OTHER -> TRUE

(* Deliveries and registration cases are counted by their assignee, *)
domainAccess(c, r) ==
    /\ branchAccess(c, r.branch)
    /\ c.assignment \in {"ASSIGNED", "OWNED", "OWNED_OR_ASSIGNED"} => r.assignee = Me
    /\ c.assignment # "NONE"

(* and stock by its branch. *)
Figures(k, c, r) ==
    CASE k = "LEADS" -> leadAccess(c, r)
      [] k \in {"DELIVERIES", "CASES"} -> domainAccess(c, r)
      [] k = "UNITS" -> branchAccess(c, r.branch)

-----------------------------------------------------------------------------
Unread == [page |-> 0, shown |-> <<>>, more |-> TRUE, calm |-> TRUE]

ListsTypeOK ==
    /\ kind \in Kinds
    /\ context \in Contexts
    /\ rows \in [ListRow -> Records(kind) \cup {Blank}]
    /\ order \in Seq(ListRow)
    /\ reading \in [page: Nat, shown: Seq(ListRow), more: BOOLEAN, calm: BOOLEAN]

ListsInit ==
    /\ kind \in Kinds
    /\ context \in Contexts
    /\ rows = [x \in ListRow |-> Blank]
    /\ order = <<>>
    /\ reading = Unread

(* What is read in pages moves under the reader. *)
Disturb == reading' = [reading EXCEPT !.calm = reading.page = 0]

(* The positions of a list in ascending order, and its rows there: what a    *)
(* filter leaves, in the order of the list.                                  *)
Ascending(I) ==
    CHOOSE f \in [1 .. Cardinality(I) -> I] :
        \A i, j \in 1 .. Cardinality(I) : i < j => f[i] < f[j]
Taken(s, I) == LET f == Ascending(I) IN [k \in 1 .. Cardinality(I) |-> s[f[k]]]

InsertedAt(x, i) == SubSeq(order, 1, i) \o <<x>> \o SubSeq(order, i + 1, Len(order))
Without(x) == Taken(order, {i \in DOMAIN order : order[i] # x})

(* Most lists show the latest row first; work is listed by its schedule, stock *)
(* by its status and members by their name.                                    *)
Latest == {"LEADS", "CALLS", "CONVERSATIONS", "VEHICLES", "BOOKINGS"}
Places == IF kind \in Latest THEN {0} ELSE 0 .. Len(order)

(* A row is captured, booked or received,                                    *)
Arrive(x) ==
    /\ rows[x] = Blank
    /\ \E r \in Records(kind) : rows' = [rows EXCEPT ![x] = r]
    /\ \E i \in Places : order' = InsertedAt(x, i)
    /\ Disturb
    /\ UNCHANGED <<kind, context>>

(* given to someone, or moved to another team or branch,                     *)
Reassign(x) ==
    /\ rows[x] # Blank
    /\ \E r \in Records(kind) : rows' = [rows EXCEPT ![x] = r]
    /\ Disturb
    /\ UNCHANGED <<kind, context, order>>

(* and a conversation comes to the top with each message.                    *)
MessageComes(x) ==
    /\ kind = "CONVERSATIONS" /\ rows[x] # Blank
    /\ order' = <<x>> \o Without(x)
    /\ Disturb
    /\ UNCHANGED <<kind, context, rows>>

(* The scopes of the membership are replaced: the next request is resolved   *)
(* with them.                                                                *)
Rescope(c) ==
    /\ context' = c
    /\ Disturb
    /\ UNCHANGED <<kind, rows, order>>

(* One page of the list. *)
Sliced(s, first, last) == SubSeq(s, first, IF last > Len(s) THEN Len(s) ELSE last)
pageOffset(page) == (page - 1) * PageSize

(* Judged by the page that is shown. *)
FaultyHasNext(accessible) == Len(Sliced(accessible, 1, PageSize)) > PageSize

hasNext(accessible) == Len(accessible) > PageSize
Selected == Taken(order, {i \in DOMAIN order : Selects(kind, context, rows[order[i]])})
Fetched(page) == Sliced(Selected, pageOffset(page) + 1, pageOffset(page) + PageSize + 1)
Opened(s) == Taken(s, {i \in DOMAIN s : Opens(kind, context, rows[s[i]])})
Accessible(page) == Opened(Fetched(page))

FetchPage ==
    /\ reading.more
    /\ LET accessible == Accessible(reading.page + 1)
       IN  reading' = [reading EXCEPT !.page = reading.page + 1,
                                      !.shown = reading.shown \o Sliced(accessible, 1, PageSize),
                                      !.more = hasNext(accessible)]
    /\ UNCHANGED <<kind, context, rows, order>>

Restart ==
    /\ reading.page > 0
    /\ reading' = Unread
    /\ UNCHANGED <<kind, context, rows, order>>

ListsNext ==
    \/ \E x \in ListRow : Arrive(x) \/ Reassign(x) \/ MessageComes(x)
    \/ \E c \in Contexts : Rescope(c)
    \/ FetchPage
    \/ Restart

ListsSpec == ListsInit /\ [][ListsNext]_listVars

-----------------------------------------------------------------------------
(* The lists of work with a team, for which the contexts that a member of    *)
(* this role can be given state one scope in SQL and in the check.           *)
Mirrored(k, c) ==
    /\ k \in {"LEADS", "CALLS", "RIDES", "CONVERSATIONS"} =>
         IF c.role = "TEAM_MANAGER" THEN c.teamMode = "SELECTED" /\ c.teams \subseteq c.managed
                                    ELSE c.teamMode = "SELECTED" => c.managed \subseteq c.teams
    /\ k \in {"LEADS", "CALLS"} => c.role # "SALESPERSON" \/ c.assignment = "ASSIGNED"
    /\ k = "RIDES" => c.role \notin {"SALESPERSON", "TEST_RIDE_EXECUTIVE"}
    /\ k \in {"UNITS", "BOOKINGS"} => c.assignment \in {"ALL", "OWNED", "ASSIGNED"}

(* Reading page after page until there is no next one, while nothing         *)
(* changes, shows every row the member may open once and no other, although  *)
(* rows are dropped after the query has taken its page.                      *)
PagesComplete ==
    reading.calm /\ ~reading.more /\ Mirrored(kind, context) =>
        /\ {reading.shown[i] : i \in DOMAIN reading.shown}
             = {x \in ListRow : rows[x] # Blank /\ Opens(kind, context, rows[x])}
        /\ \A i, j \in DOMAIN reading.shown : i # j => reading.shown[i] # reading.shown[j]

(* Where the dashboard counts what a list shows: a member whose modes are    *)
(* not NONE, with the assignment scopes that mean the same in both.          *)
LeadsCountedAsListed(c) ==
    /\ c.departmentMode # "NONE" /\ c.teamMode # "NONE"
    /\ IF c.role = "TEAM_MANAGER" THEN c.assignment = "TEAM"
                                  ELSE /\ c.managed \subseteq c.teams
                                       /\ c.assignment = "TEAM" => c.teamMode = "SELECTED"
    /\ c.role = "SALESPERSON" => c.assignment \notin {"OWNED", "NONE"}
CountedAsListed(k, c) ==
    CASE k = "LEADS" -> LeadsCountedAsListed(c)
      [] k \in {"DELIVERIES", "CASES"} -> c.assignment \notin {"TEAM", "OWNED"}
      [] k = "UNITS" -> c.assignment \in {"ALL", "OWNED", "ASSIGNED"}
      [] OTHER -> FALSE

(* The leads, deliveries, cases and vehicles a dashboard counts are those    *)
(* that the member's list finds and the check lets open, although the scope  *)
(* is written by hand in each of the three.                                  *)
FiguresAgree ==
    CountedAsListed(kind, context) =>
        \A x \in ListRow : rows[x] # Blank =>
            (Figures(kind, context, rows[x]) <=>
                Selects(kind, context, rows[x]) /\ Opens(kind, context, rows[x]))
=============================================================================
