------------------------------ MODULE Tenancy ------------------------------
(* What an agency and its clients administer beside their members:          *)
(* administration.service.ts.  A client organisation has branches, these    *)
(* departments and these teams; it has settings and a flag for each module, *)
(* a branch its working hours, the agency its defaults for new clients; and *)
(* every command leaves an audit event with what it replaced and what it    *)
(* wrote.                                                                   *)
(*                                                                          *)
(* A command is one READ COMMITTED transaction: its first read and its      *)
(* commit are steps.  Those that edit a client, branch, department or team  *)
(* lock the row they read, the others do not.  What is written is told      *)
(* apart by a stamp; codes, names and timezones are not.                    *)
EXTENDS Naturals, Sequences, FiniteSets

CONSTANTS
    Node,        \* client organisations, branches, departments and teams
    KindOf,      \* "CLIENT", "BRANCH", "DEPARTMENT" or "TEAM"
    Above,       \* the node one belongs to, of a client itself
    Sheet,       \* rows kept beside the nodes: settings, module flags, defaults
    Registrar,   \* requests of administrators
    Nothing,
    MaxStamp     \* bound: commands that write

ASSUME TenancyAssumption ==
    /\ KindOf \in [Node -> {"CLIENT", "BRANCH", "DEPARTMENT", "TEAM"}]
    /\ Above \in [Node -> Node] /\ Node \cap Sheet = {}
    /\ Nothing \notin Node \cup Sheet /\ MaxStamp \in Nat

VARIABLES
    nodes,       \* rows of the organisation
    papers,      \* the stamp of each row of settings, 0 when there is none
    hours,       \* branch_working_hours: rows of each branch
    trail,       \* audit_events, by what they are about
    registrars,  \* what each request has read
    stamp        \* the last stamp

tenancyVars == <<nodes, papers, hours, trail, registrars, stamp>>

-----------------------------------------------------------------------------
Branches == {x \in Node : KindOf[x] = "BRANCH"}
Audits == {<<"ROW", x>> : x \in Node \cup Sheet} \cup {<<"HOURS", x>> : x \in Branches}
Day == {1, 7}   \* of the seven days of a schedule, a first and a last one
NoNode == [status |-> "NONE", by |-> 0]
NodeRow == [status: {"NONE", "PENDING", "ACTIVE", "SUSPENDED"}, by: 0..MaxStamp]
HoursRow == [day: Day, by: 0..MaxStamp, version: Nat]
AuditRow == [old: 0..MaxStamp, new: 1..MaxStamp]
AtEase == [step |-> "IDLE", of |-> Nothing, old |-> 0, snapshot |-> {}, taken |-> {}, version |-> 0]

TenancyTypeOK ==
    /\ nodes \in [Node -> NodeRow]
    /\ papers \in [Sheet -> 0..MaxStamp]
    /\ hours \in [Branches -> SUBSET HoursRow]
    /\ trail \in [Audits -> Seq(AuditRow)]
    /\ registrars \in [Registrar -> [step: {"IDLE", "EDIT", "PAPER", "HOURS", "DELETING", "DELETED"},
                                     of: Node \cup Sheet \cup {Nothing}, old: 0..MaxStamp,
                                     snapshot: SUBSET HoursRow, taken: SUBSET HoursRow,
                                     version: Nat]]
    /\ stamp \in 0..MaxStamp

TenancyInit ==
    /\ nodes = [x \in Node |-> NoNode]
    /\ papers = [p \in Sheet |-> 0]
    /\ hours = [x \in Branches |-> {}]
    /\ trail = [x \in Audits |-> <<>>]
    /\ registrars = [r \in Registrar |-> AtEase]
    /\ stamp = 0

InForce(x) == nodes[x].status = "ACTIVE"
There(x) == nodes[x] # NoNode
Reading(r, t) == registrars' = [registrars EXCEPT ![r] = t]
AtWork(r, step) == registrars[r].step = step

(* Every command writes its audit event in its own transaction. *)
Audited(x, old) ==
    /\ stamp < MaxStamp
    /\ stamp' = stamp + 1
    /\ trail' = [trail EXCEPT ![x] = Append(@, [old |-> old, new |-> stamp + 1])]

-----------------------------------------------------------------------------
(* New rows.  What the checks read is not locked, and does not change but   *)
(* for the status.                                                          *)
Create(x, status) ==
    /\ ~There(x)
    /\ nodes' = [nodes EXCEPT ![x] = [status |-> status, by |-> stamp + 1]]
    /\ Audited(<<"ROW", x>>, 0)
    /\ UNCHANGED <<hours, registrars>>

(* createClient copies the agency's defaults into the flags of the client,  *)
(* and gives it settings.                                                   *)
createClient(x) ==
    /\ KindOf[x] = "CLIENT"
    /\ Create(x, "PENDING")
    /\ papers' = [p \in Sheet |-> IF papers[p] = 0 THEN stamp + 1 ELSE papers[p]]

createBranch(x) == KindOf[x] = "BRANCH" /\ There(Above[x]) /\ Create(x, "ACTIVE") /\ UNCHANGED papers

createDepartment(x) ==
    KindOf[x] = "DEPARTMENT" /\ InForce(Above[x]) /\ Create(x, "ACTIVE") /\ UNCHANGED papers

(* A team needs an active department, whose branch may be inactive. *)
createTeam(x) == KindOf[x] = "TEAM" /\ InForce(Above[x]) /\ Create(x, "ACTIVE") /\ UNCHANGED papers

-----------------------------------------------------------------------------
(* Faulty: the row is read without FOR UPDATE. *)
FaultyUnlockedNode(x) == TRUE

UnlockedNode(x) == \A r \in Registrar : AtWork(r, "EDIT") => registrars[r].of # x

BeginEdit(r, x) ==
    /\ AtWork(r, "IDLE") /\ There(x) /\ UnlockedNode(x)
    /\ Reading(r, [AtEase EXCEPT !.step = "EDIT", !.of = x, !.old = nodes[x].by])
    /\ UNCHANGED <<nodes, papers, hours, trail, stamp>>

CommitEdit(r, kinds, statuses) ==
    /\ AtWork(r, "EDIT") /\ KindOf[registrars[r].of] \in kinds
    /\ \E status \in statuses :
         nodes' = [nodes EXCEPT ![registrars[r].of] = [status |-> status, by |-> stamp + 1]]
    /\ Audited(<<"ROW", registrars[r].of>>, registrars[r].old)
    /\ Reading(r, AtEase)
    /\ UNCHANGED <<papers, hours>>

(* The sessions of a suspended client end: Sessions shows when. *)
setClientStatus(r) == CommitEdit(r, {"CLIENT"}, {"ACTIVE", "SUSPENDED"})
updateClient(r) == AtWork(r, "EDIT") /\ CommitEdit(r, {"CLIENT"}, {nodes[registrars[r].of].status})
updateBranch(r) == CommitEdit(r, {"BRANCH"}, {"ACTIVE", "SUSPENDED"})
updateDepartment(r) == CommitEdit(r, {"DEPARTMENT"}, {"ACTIVE", "SUSPENDED"})
updateTeam(r) == CommitEdit(r, {"TEAM"}, {"ACTIVE", "SUSPENDED"})

-----------------------------------------------------------------------------
(* setSettings, setFlag and setDefaults read the row for the audit event    *)
(* and the next version, and then insert it or write over it.               *)
BeginPaper(r, p) ==
    /\ AtWork(r, "IDLE")
    /\ Reading(r, [AtEase EXCEPT !.step = "PAPER", !.of = p, !.old = papers[p]])
    /\ UNCHANGED <<nodes, papers, hours, trail, stamp>>

CommitPaper(r) ==
    /\ AtWork(r, "PAPER")
    /\ papers' = [papers EXCEPT ![registrars[r].of] = stamp + 1]
    /\ Audited(<<"ROW", registrars[r].of>>, registrars[r].old)
    /\ Reading(r, AtEase)
    /\ UNCHANGED <<nodes, hours>>

-----------------------------------------------------------------------------
(* setWorkingHours reads the rows of the branch, *)
VersionOf(rows) == IF rows = {} THEN 0 ELSE (CHOOSE h \in rows : TRUE).version
StampOf(rows) == IF rows = {} THEN 0 ELSE (CHOOSE h \in rows : TRUE).by

ReadHours(r, x) ==
    /\ AtWork(r, "IDLE") /\ x \in Branches /\ There(x)
    /\ Reading(r, [AtEase EXCEPT !.step = "HOURS", !.of = x, !.old = StampOf(hours[x]),
                                 !.version = VersionOf(hours[x])])
    /\ UNCHANGED <<nodes, papers, hours, trail, stamp>>

Holding(x) == {r \in Registrar : AtWork(r, "DELETED") /\ registrars[r].of = x /\ registrars[r].taken # {}}

(* deletes those the statement sees, waiting for whoever is deleting them,  *)
(* and not seeing what that one inserts instead,                            *)
BeginDelete(r) ==
    /\ AtWork(r, "HOURS")
    /\ Reading(r, [registrars[r] EXCEPT !.step = "DELETING", !.snapshot = hours[registrars[r].of]])
    /\ UNCHANGED <<nodes, papers, hours, trail, stamp>>

DeleteHours(r) ==
    /\ AtWork(r, "DELETING")
    /\ LET t == registrars[r]
       IN  /\ t.snapshot \cap hours[t.of] # {} => Holding(t.of) = {}
           /\ Reading(r, [t EXCEPT !.step = "DELETED", !.snapshot = {}, !.taken = t.snapshot \cap hours[t.of]])
    /\ UNCHANGED <<nodes, papers, hours, trail, stamp>>

(* Faulty: rows of one day beside each other. *)
FaultyDayTaken(r) == FALSE

(* The primary key of a row is its branch and day. *)
DayTaken(r) == hours[registrars[r].of] \ registrars[r].taken # {}

(* and inserts a row for each day; a day that is taken fails the command.   *)
setWorkingHours(r) ==
    /\ AtWork(r, "DELETED") /\ ~DayTaken(r)
    /\ LET t == registrars[r]
       IN  /\ hours' = [hours EXCEPT ![t.of] = (@ \ t.taken) \cup
                           [day: Day, by: {stamp + 1}, version: {t.version + 1}]]
           /\ Audited(<<"HOURS", t.of>>, t.old)
    /\ Reading(r, AtEase)
    /\ UNCHANGED <<nodes, papers>>

(* A check refuses, or a statement fails: nothing of it stays. *)
RollBack(r) ==
    /\ ~AtWork(r, "IDLE")
    /\ Reading(r, AtEase)
    /\ UNCHANGED <<nodes, papers, hours, trail, stamp>>

-----------------------------------------------------------------------------
RegistrarStep(r) ==
    \/ \E x \in Node : BeginEdit(r, x) \/ ReadHours(r, x)
    \/ \E p \in Sheet : BeginPaper(r, p)
    \/ setClientStatus(r) \/ updateClient(r) \/ updateBranch(r) \/ updateDepartment(r) \/ updateTeam(r)
    \/ CommitPaper(r) \/ BeginDelete(r) \/ DeleteHours(r) \/ setWorkingHours(r) \/ RollBack(r)

TenancyNext ==
    \/ \E r \in Registrar : RegistrarStep(r)
    \/ \E x \in Node : createClient(x) \/ createBranch(x) \/ createDepartment(x) \/ createTeam(x)

TenancySpec == TenancyInit /\ [][TenancyNext]_tenancyVars

-----------------------------------------------------------------------------
(* The audit events of a client, branch, department or team tell its whole  *)
(* story: each replaces what the one before it wrote, and the row is what   *)
(* the last one wrote.  (Of settings, flags and hours they do not: a        *)
(* command may replace what it never read.)                                 *)
AuditTellsTheStory ==
    \A x \in Node :
        LET t == trail[<<"ROW", x>>]
        IN  /\ \A i \in DOMAIN t : t[i].old = IF i = 1 THEN 0 ELSE t[i - 1].new
            /\ nodes[x].by = IF t = <<>> THEN 0 ELSE t[Len(t)].new

(* The hours of a branch are those that one command gave it, a row for      *)
(* each day, whoever else replaces them at the same time.                   *)
HoursAreOneSchedule ==
    \A x \in Branches :
        /\ \A g, h \in hours[x] : g.by = h.by /\ g.version = h.version
        /\ hours[x] # {} => {h.day : h \in hours[x]} = Day

(* Both, of what administrators write at the same time.                     *)
OrganisationAgrees == AuditTellsTheStory /\ HoursAreOneSchedule
=============================================================================
