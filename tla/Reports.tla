------------------------------ MODULE Reports ------------------------------
(***************************************************************************)
(* Exports of reports: reports.service.ts and its queue.                   *)
(*                                                                         *)
(* A request notes the scope that its member has at that moment; later a   *)
(* worker reads the leads within that scope, then what depends on them,    *)
(* stores a private file and says that the export is complete.  Leads move *)
(* and scopes are replaced meanwhile.  A worker whose lock is lost goes on *)
(* while the queue gives its job to another.                               *)
(*                                                                         *)
(* The leads and the contexts are those of Lists; here `kind` is "LEADS".  *)
(***************************************************************************)
EXTENDS Lists

CONSTANTS
    Export,         \* export_jobs
    Runner,         \* processes of the queue's workers
    TeamsOf,        \* the teams a user is a member of at present
    Report,         \* the kinds of reports that are asked for
    Filters,        \* the branch and team a request may ask for
    MaxStalls       \* how often the queue gives out a job whose lock was lost

Idle == [job |-> Null, step |-> "IDLE", told |-> {}]
NoExport == [status |-> "NONE"]

ASSUME ReportsAssumption ==
    /\ Report \subseteq {"LEAD_FUNNEL", "BOOKINGS", "DELIVERIES", "REGISTRATION_AGING",
                          "REMINDERS", "AUDIT_EVENTS"}
    /\ Filters \subseteq [branch: Branch \cup {Null}, team: Team \cup {Null}]
    /\ Null \notin Export \cup Contexts \cup [told: SUBSET ListRow]
    /\ MaxStalls \in Nat

VARIABLES
    booked,     \* the branch of the lead's booking, and of what follows from it
    exports,    \* the rows of export_jobs
    queue,      \* the job of the export in the queue
    runner,     \* what each worker is doing
    file,       \* the objects of the private store
    asked,      \* the context in which the export was asked for
    within      \* the leads that context has reached since

reportVars == <<booked, exports, queue, runner, file, asked, within>>

ReportsTypeOK ==
    /\ booked \in [ListRow -> Branch \cup {Null}]
    /\ \A x \in Export : exports[x] # NoExport =>
         /\ exports[x].status \in {"QUEUED", "PROCESSING", "COMPLETED", "FAILED"}
         /\ exports[x].kind \in Report /\ exports[x].filters \in Filters
         /\ exports[x].scope \in Contexts /\ exports[x].fresh \in BOOLEAN
    /\ queue \in [Export -> [at: {"ABSENT", "WAITING", "ACTIVE", "ENDED"},
                          stalls: 0..MaxStalls, by: Runner \cup {Null}]]
    /\ runner \in [Runner -> [job: Export \cup {Null}, told: SUBSET ListRow,
                              step: {"IDLE", "READ", "STARTED", "SCOPED", "FAILING", "STORED"}]]
    /\ file \in [Export -> {Null} \cup [told: SUBSET ListRow]]
    /\ within \in [Export -> SUBSET ListRow]

ReportsInit ==
    /\ booked = [r \in ListRow |-> Null]
    /\ exports = [x \in Export |-> NoExport]
    /\ queue = [x \in Export |-> [at |-> "ABSENT", stalls |-> 0, by |-> Null]]
    /\ runner = [w \in Runner |-> Idle]
    /\ file = [x \in Export |-> Null]
    /\ asked = [x \in Export |-> Null]
    /\ within = [x \in Export |-> {}]

-----------------------------------------------------------------------------
(* branchFilter: a branch that was asked for must be within the scope. *)
BranchAllowed(c, f) ==
    IF f.branch # Null THEN canAccessBranch(c, f.branch) ELSE c.branchMode # "NONE"
branchFilter(c, f, b) ==
    IF f.branch # Null THEN b = f.branch ELSE c.branchMode = "SELECTED" => b \in c.branches

ensureTenantWideAuditAccess(c) == c.role \in {"CLIENT_ADMIN", "SALES_MANAGER"}

(* reportingScope: a lead belongs to the teams and departments of whoever    *)
(* works on it, or else owns it.                                             *)
TeamAllowed(c, f) == f.team # Null => canAccessTeam(c, f.team)
Hierarchy(r) ==
    LET owner == IF r.holder # Null THEN r.holder ELSE r.owner
    IN  IF owner = Null THEN {} ELSE TeamsOf[owner]

EffectiveTeams(c, f) ==
    CASE f.team # Null -> {f.team}
      [] f.team = Null /\ c.role = "TEAM_MANAGER" -> c.managed
      [] f.team = Null /\ c.role # "TEAM_MANAGER" /\ c.teamMode = "SELECTED" -> c.teams
      [] OTHER -> {}
TeamsRestricted(c, f) == f.team # Null \/ c.role = "TEAM_MANAGER" \/ c.teamMode # "ALL"

reportingScope(c, f, r) ==
    /\ branchFilter(c, f, r.branch)
    /\ TeamsRestricted(c, f) => Hierarchy(r) \cap EffectiveTeams(c, f) # {}
    /\ c.departmentMode = "SELECTED" =>
         \E t \in Hierarchy(r) : DepartmentOf[t] \in c.departments
    /\ c.departmentMode # "NONE"
    /\ c.assignment = "TEAM" =>
         LET teams == IF TeamsRestricted(c, f) THEN EffectiveTeams(c, f) ELSE c.managed \cup c.teams
         IN  Hierarchy(r) \cap teams # {}
    /\ c.assignment = "OWNED" => r.owner = Me
    /\ c.assignment = "ASSIGNED" => r.holder = Me
    /\ c.assignment = "OWNED_OR_ASSIGNED" => Me \in {r.owner, r.holder}
    /\ c.assignment # "NONE"

Present == {r \in ListRow : rows[r] # Blank}

-----------------------------------------------------------------------------
(* A lead is booked at its branch; the booking stays there. *)
Book(r) ==
    /\ rows[r] # Blank /\ booked[r] = Null
    /\ booked' = [booked EXCEPT ![r] = rows[r].branch]
    /\ UNCHANGED <<exports, queue, runner, file, asked, listVars>>

CreateExport(x, k, f) ==
    /\ exports[x] = NoExport
    /\ k = "AUDIT_EVENTS" => ensureTenantWideAuditAccess(context)
    /\ BranchAllowed(context, f)
    /\ exports' = [exports EXCEPT ![x] =
                     [status |-> "QUEUED", kind |-> k, filters |-> f, scope |-> context,
                      fresh |-> FALSE]]
    /\ asked' = [asked EXCEPT ![x] = context]
    /\ UNCHANGED <<booked, queue, runner, file, listVars>>

(* The job is put in the queue by a later statement, which a crash prevents. *)
EnqueueExport(x) ==
    /\ exports[x] # NoExport /\ queue[x].at = "ABSENT"
    /\ queue' = [queue EXCEPT ![x].at = "WAITING"]
    /\ UNCHANGED <<booked, exports, runner, file, asked, listVars>>

Goes(w, step) == runner' = [runner EXCEPT ![w].step = step]

(* The queue takes the end of a job from the worker that holds its lock. *)
EndsJob(w) ==
    LET x == runner[w].job IN
    /\ runner' = [runner EXCEPT ![w] = Idle]
    /\ queue' = IF queue[x].by = w THEN [queue EXCEPT ![x].at = "ENDED", ![x].by = Null]
                                   ELSE queue

(* processExport, statement by statement. *)
ReadExport(w, x) ==
    /\ runner[w] = Idle /\ queue[x].at = "WAITING"
    /\ IF exports[x].status = "COMPLETED"
       THEN /\ queue' = [queue EXCEPT ![x].at = "ENDED"]
            /\ UNCHANGED runner
       ELSE /\ queue' = [queue EXCEPT ![x].at = "ACTIVE", ![x].by = w]
            /\ runner' = [runner EXCEPT ![w] = [job |-> x, step |-> "READ", told |-> {}]]
    /\ UNCHANGED <<booked, exports, file, asked, listVars>>

StartExport(w) ==
    /\ runner[w].step = "READ"
    /\ exports' = [exports EXCEPT ![runner[w].job].status = "PROCESSING"]
    /\ Goes(w, "STARTED")
    /\ UNCHANGED <<booked, queue, file, asked, listVars>>

(* Faulty: the scope is the one that the member has now. *)
LiveContext(x) == context

restoreExportContext(x) == exports[x].scope

(* Rows of events are read at once; the leads are read first and what        *)
(* depends on them after.  A team that is outside the scope fails the job.   *)
ReadScope(w) ==
    LET x == runner[w].job
        c == restoreExportContext(x)
        f == exports[x].filters
    IN  /\ runner[w].step = "STARTED"
        /\ IF exports[x].kind = "AUDIT_EVENTS"
           THEN IF ensureTenantWideAuditAccess(c)
                THEN runner' = [runner EXCEPT ![w].step = "SCOPED", ![w].told = Present]
                ELSE Goes(w, "FAILING")
           ELSE IF TeamAllowed(c, f) /\ BranchAllowed(c, f)
                THEN runner' = [runner EXCEPT ![w].step = "SCOPED",
                                  ![w].told = {r \in Present : reportingScope(c, f, rows[r])}]
                ELSE Goes(w, "FAILING")
        /\ UNCHANGED <<booked, exports, queue, file, asked, listVars>>

(* What is counted then, of the leads that were found: themselves, or what    *)
(* was booked of them at a branch that the filter admits.  Reminders of a      *)
(* vehicle are also for those whom no scope restricts.                         *)
allowsUnassignedBranchRecords(c, f) ==
    c.assignment = "ALL" /\ ~TeamsRestricted(c, f) /\ c.departmentMode = "ALL"
dashboard(k, c, f, leads) ==
    LET there == {r \in ListRow : booked[r] # Null /\ branchFilter(c, f, booked[r])} IN
    CASE k = "LEAD_FUNNEL" -> leads
      [] k \in {"BOOKINGS", "DELIVERIES", "REGISTRATION_AGING"} -> there \cap leads
      [] k = "REMINDERS" ->
           IF allowsUnassignedBranchRecords(c, f) THEN there ELSE there \cap leads

rowsForExport(w) ==
    LET x == exports[runner[w].job]
        c == restoreExportContext(runner[w].job)
    IN  IF x.kind = "AUDIT_EVENTS" THEN runner[w].told
        ELSE dashboard(x.kind, c, x.filters, runner[w].told)

PutPrivateObject(w) ==
    /\ runner[w].step = "SCOPED"
    /\ file' = [file EXCEPT ![runner[w].job] = [told |-> rowsForExport(w)]]
    /\ Goes(w, "STORED")
    /\ UNCHANGED <<booked, exports, queue, asked, listVars>>

CompleteExport(w) ==
    /\ runner[w].step = "STORED"
    /\ exports' = [exports EXCEPT ![runner[w].job].status = "COMPLETED",
                                  ![runner[w].job].fresh = TRUE]
    /\ EndsJob(w)
    /\ UNCHANGED <<booked, file, asked, listVars>>

(* A query or the store fails, *)
ReportFails(w) ==
    /\ runner[w].step \in {"STARTED", "SCOPED", "STORED"}
    /\ Goes(w, "FAILING")
    /\ UNCHANGED <<booked, exports, queue, file, asked, listVars>>

(* which is noted whatever another worker has made of the export. *)
FailExport(w) ==
    /\ runner[w].step = "FAILING"
    /\ exports' = [exports EXCEPT ![runner[w].job].status = "FAILED"]
    /\ EndsJob(w)
    /\ UNCHANGED <<booked, file, asked, listVars>>

(* The lock of a job is lost, as its worker is slow or gone: the job is      *)
(* given out again, and dropped when that happens too often.                 *)
Stall(x) ==
    /\ queue[x].at = "ACTIVE"
    /\ queue' = [queue EXCEPT ![x] =
                   IF queue[x].stalls < MaxStalls
                   THEN [at |-> "WAITING", stalls |-> queue[x].stalls + 1, by |-> Null]
                   ELSE [at |-> "ENDED", stalls |-> queue[x].stalls, by |-> Null]]
    /\ UNCHANGED <<booked, exports, runner, file, asked, listVars>>

RunnerDies(w) ==
    /\ runner[w] # Idle
    /\ runner' = [runner EXCEPT ![w] = Idle]
    /\ UNCHANGED <<booked, exports, queue, file, asked, listVars>>

(* A day has passed. *)
ExportExpires(x) ==
    /\ exports[x] # NoExport /\ exports[x].fresh
    /\ exports' = [exports EXCEPT ![x].fresh = FALSE]
    /\ UNCHANGED <<booked, queue, runner, file, asked, listVars>>

downloadExport(x) == exports[x].status = "COMPLETED" /\ exports[x].fresh

-----------------------------------------------------------------------------
(* What a member of this context could ever be told of a lead: it is at one  *)
(* of the branches, and the assignment scope reaches it.                     *)
Entitled(c, r) ==
    /\ canAccessBranch(c, r.branch)
    /\ c.assignment = "OWNED" => r.owner = Me
    /\ c.assignment = "ASSIGNED" => r.holder = Me
    /\ c.assignment = "OWNED_OR_ASSIGNED" => Me \in {r.owner, r.holder}
    /\ c.assignment = "TEAM" =>
         \E t \in Hierarchy(r) : t \in c.teams \cup c.managed \/ canAccessTeam(c, t)
    /\ c.assignment # "NONE"

LeadsMove ==
    /\ \/ \E r \in ListRow : Arrive(r) \/ Reassign(r)
       \/ \E c \in Contexts : Rescope(c)
    /\ UNCHANGED <<booked, exports, queue, runner, file, asked>>

ExportsMove ==
    \/ \E r \in ListRow : Book(r)
    \/ \E x \in Export :
         \/ \E k \in Report, f \in Filters : CreateExport(x, k, f)
         \/ EnqueueExport(x) \/ Stall(x) \/ ExportExpires(x)
         \/ \E w \in Runner : ReadExport(w, x)
    \/ \E w \in Runner :
         \/ StartExport(w) \/ ReadScope(w) \/ PutPrivateObject(w) \/ CompleteExport(w)
         \/ ReportFails(w) \/ FailExport(w) \/ RunnerDies(w)

ReportsNext ==
    /\ LeadsMove \/ ExportsMove
    /\ within' = [x \in Export |->
         IF asked'[x] = Null THEN {}
         ELSE within[x] \cup {r \in Present' : Entitled(asked'[x], rows'[r])}]

ReportsSpec ==
    ReportsInit /\ ListsInit /\ kind = "LEADS" /\ [][ReportsNext]_<<listVars, reportVars>>

-----------------------------------------------------------------------------
(* A file that can be downloaded exists and tells of nothing that was out of *)
(* its requester's reach as it was when they asked, although the scope was   *)
(* replaced, leads were reassigned and a second worker wrote the file anew;  *)
(* the events of the whole client are told to those who may see them all.    *)
(* (processExport, restoreExportContext, downloadExport)                     *)
ExportsStayInScope ==
    \A x \in Export : exports[x] # NoExport /\ downloadExport(x) =>
        /\ file[x] # Null
        /\ exports[x].kind = "AUDIT_EVENTS" => ensureTenantWideAuditAccess(asked[x])
        /\ exports[x].kind # "AUDIT_EVENTS" =>
             \A r \in file[x].told :
                /\ r \in within[x] \/ (exports[x].kind # "LEAD_FUNNEL" /\ asked[x].assignment = "ALL")
                /\ exports[x].kind # "LEAD_FUNNEL" => canAccessBranch(asked[x], booked[r])
=============================================================================
