------------------------------ MODULE Hierarchy ------------------------------
(***************************************************************************)
(* The members of one client organisation, their roles, teams and          *)
(* reporting lines: apps/api/src/administration/administration.service.ts. *)
(*                                                                         *)
(* A command is a transaction.  Those that change a membership lock its    *)
(* row and the row of its role; those that appoint the Client Admin lock   *)
(* the client's row; the rest reads what it checks and locks none of it,   *)
(* so that reading and writing are steps apart.                            *)
(***************************************************************************)
EXTENDS Naturals, FiniteSets

CONSTANTS
    Member,      \* memberships of the client
    Person,      \* users
    Team,        \* teams, each with its branch and department
    Officer,     \* requests of administrators in progress
    NoManager       \* no manager

ASSUME HierarchyAssumption == NoManager \notin Member /\ IsFiniteSet(Member)

VARIABLES
    members,     \* memberships with their scopes
    lines,       \* reporting_lines: the current manager of each membership
    managers,    \* team_manager_assignments: the current manager of each team
    teamwork,    \* team_memberships that have not ended
    officers     \* what each request has locked and read

placement == <<lines, managers, teamwork>>
hierarchyVars == <<members, lines, managers, teamwork, officers>>

-----------------------------------------------------------------------------
NoMember == [status |-> "NONE"]
MemberRow == [user: Person, role: {"CLIENT_ADMIN", "TEAM_MANAGER", "STAFF"},
              status: {"INVITED", "ACTIVE", "SUSPENDED", "ENDED"}, scope: SUBSET Team]
OfficerTask ==
    [step: {"IDLE"}]
    \cup [step: {"INVITING"}, user: Person]
    \cup [step: {"UPDATING"}, of: Member]
    \cup [step: {"APPOINTING"}, of: Member, user: Person, update: BOOLEAN]
    \cup [step: {"LINING"}, of: Member, to: Member \cup {NoManager}, seen: Member \cup {NoManager}]
    \cup [step: {"JOINING"}, of: Member, team: Team]
    \cup [step: {"LEADING"}, of: Member, team: Team, seen: Member \cup {NoManager}]

HierarchyTypeOK ==
    /\ members \in [Member -> MemberRow \cup {NoMember}]
    /\ lines \in [Member -> Member \cup {NoManager}]
    /\ managers \in [Team -> Member \cup {NoManager}]
    /\ teamwork \subseteq Team \X Member
    /\ officers \in [Officer -> OfficerTask]

HierarchyInit ==
    /\ members = [m \in Member |-> NoMember]
    /\ lines = [m \in Member |-> NoManager]
    /\ managers = [t \in Team |-> NoManager]
    /\ teamwork = {}
    /\ officers = [o \in Officer |-> [step |-> "IDLE"]]

-----------------------------------------------------------------------------
Officers(o, t) == officers' = [officers EXCEPT ![o] = t]
Released(o) == Officers(o, [step |-> "IDLE"])
AtStep(o, step) == officers[o].step = step

Active(m) == members[m].status = "ACTIVE"
Standing(m) == members[m].status \in {"INVITED", "ACTIVE", "SUSPENDED"}
Admins == {m \in Member : Standing(m) /\ members[m].role = "CLIENT_ADMIN"}
ActiveAdmins == {m \in Admins : Active(m)}

(* membershipForUpdate holds the row of the membership and of its role.     *)
HeldMembers == {officers[o].of : o \in {p \in Officer : AtStep(p, "UPDATING")
                                          \/ (AtStep(p, "APPOINTING") /\ officers[p].update)}}
HeldRoles == {members[m].role : m \in HeldMembers}
MemberFree(m) == m \notin HeldMembers /\ members[m].role \notin HeldRoles

(* A new membership for a user who has no other one, which is read without  *)
(* a lock; the user is created when the address is unknown.                 *)
BeginInvite(o, u) ==
    /\ AtStep(o, "IDLE")
    /\ \A m \in Member : Standing(m) => members[m].user # u
    /\ Officers(o, [step |-> "INVITING", user |-> u])
    /\ UNCHANGED <<members, placement>>

inviteUser(o, m) ==
    /\ AtStep(o, "INVITING") /\ members[m] = NoMember
    /\ \E role \in {"TEAM_MANAGER", "STAFF"}, scope \in SUBSET Team :
         members' = [members EXCEPT ![m] =
                       [user |-> officers[o].user, role |-> role, status |-> "INVITED", scope |-> scope]]
    /\ Released(o)
    /\ UNCHANGED placement

(* updateMembership: the row first, then the checks and the update.         *)
membershipForUpdate(o, m) ==
    /\ AtStep(o, "IDLE") /\ members[m] # NoMember /\ MemberFree(m)
    /\ Officers(o, [step |-> "UPDATING", of |-> m])
    /\ UNCHANGED <<members, placement>>

(* Only the role is looked at, and not the status.                          *)
FaultyAdminMayChange(m, role, status) ==
    members[m].role = "CLIENT_ADMIN" /\ role # "CLIENT_ADMIN"
        => Cardinality(ActiveAdmins) > 1

(* ensureClientAdmin: an admin stays an active admin unless there are two.  *)
AdminMayChange(m, role, status) ==
    members[m].role = "CLIENT_ADMIN" /\ ~(role = "CLIENT_ADMIN" /\ status = "ACTIVE")
        => Cardinality(ActiveAdmins) > 1

updateMembership(o) ==
    /\ AtStep(o, "UPDATING")
    /\ LET m == officers[o].of
       IN  \E role \in {"CLIENT_ADMIN", "TEAM_MANAGER", "STAFF"}, scope \in SUBSET Team :
             /\ role = "CLIENT_ADMIN" => members[m].role = "CLIENT_ADMIN"
             /\ AdminMayChange(m, role, members[m].status)
             /\ members' = [members EXCEPT ![m].role = role, ![m].scope = scope]
    /\ Released(o)
    /\ UNCHANGED placement

(* Not two active memberships of one user: the unique index.                *)
setMembershipStatus(o) ==
    /\ AtStep(o, "UPDATING")
    /\ LET m == officers[o].of
       IN  \E status \in {"ACTIVE", "SUSPENDED", "ENDED"} :
             /\ AdminMayChange(m, members[m].role, status)
             /\ status = "ACTIVE" =>
                  \A n \in Member \ {m} : Active(n) => members[n].user # members[m].user
             /\ members' = [members EXCEPT ![m].status = status]
    /\ Released(o)
    /\ UNCHANGED placement

(* The first sign-in of an invited user.                                    *)
AcceptInvitation(m) ==
    /\ members[m].status = "INVITED" /\ m \notin HeldMembers
    /\ \A n \in Member : Active(n) => members[n].user # members[m].user
    /\ members' = [members EXCEPT ![m].status = "ACTIVE"]
    /\ UNCHANGED <<placement, officers>>

(* assertSingleClientAdminAssignment: the client's row is locked to the end *)
(* of the transaction, and the current admins are counted under the lock.   *)
ClientFree == \A o \in Officer : ~AtStep(o, "APPOINTING")

(* An invitation takes a membership that is not there yet, an update one it *)
(* holds; it may leave the admin it updates out of the count.               *)
AppointInvited(o, m, u) ==
    /\ AtStep(o, "IDLE") /\ members[m] = NoMember
    /\ ClientFree /\ Admins = {}
    /\ \A n \in Member : Standing(n) => members[n].user # u
    /\ Officers(o, [step |-> "APPOINTING", of |-> m, user |-> u, update |-> FALSE])
    /\ UNCHANGED <<members, placement>>

AppointMember(o) ==
    /\ AtStep(o, "UPDATING")
    /\ LET m == officers[o].of
       IN  /\ members[m].role # "CLIENT_ADMIN"
           /\ ClientFree /\ Admins = {}
           /\ Officers(o, [step |-> "APPOINTING", of |-> m, user |-> members[m].user, update |-> TRUE])
    /\ UNCHANGED <<members, placement>>

AppointAdmin(o) ==
    /\ AtStep(o, "APPOINTING")
    /\ LET t == officers[o]
       IN  /\ ~t.update => members[t.of] = NoMember
           /\ \E scope \in SUBSET Team :
                members' = [members EXCEPT ![t.of] =
                              [user |-> t.user, role |-> "CLIENT_ADMIN", scope |-> scope,
                               status |-> IF t.update THEN members[t.of].status ELSE "INVITED"]]
    /\ Released(o)
    /\ UNCHANGED placement

-----------------------------------------------------------------------------
(* The managers above m, one after the other.                               *)
Chain(f, m) ==
    LET up[n \in 0..Cardinality(Member)] ==
          IF n = 0 THEN m ELSE IF up[n - 1] = NoManager THEN NoManager ELSE f[up[n - 1]]
    IN  up
Ends(f, m) == Chain(f, m)[Cardinality(Member)] = NoManager

(* rejectReportingCycle walks the lines it read, without that of m.         *)
WouldCycle(m, to) ==
    LET f == [lines EXCEPT ![m] = NoManager]
        chain == Chain(f, to)
    IN  ~Ends(f, to) \/ \E n \in DOMAIN chain : chain[n] = m

BeginLine(o, m, to) ==
    /\ AtStep(o, "IDLE") /\ Active(m) /\ to # m /\ to # lines[m]
    /\ to # NoManager => Active(to) /\ ~WouldCycle(m, to)
    /\ Officers(o, [step |-> "LINING", of |-> m, to |-> to, seen |-> lines[m]])
    /\ UNCHANGED <<members, placement>>

(* The line that was read is locked, and one current line per membership is *)
(* a unique index: a line that changed meanwhile fails the transaction.     *)
setReportingManager(o) ==
    /\ AtStep(o, "LINING")
    /\ LET t == officers[o]
       IN  lines' = IF lines[t.of] = t.seen THEN [lines EXCEPT ![t.of] = t.to] ELSE lines
    /\ Released(o)
    /\ UNCHANGED <<members, managers, teamwork>>

(* requireMembershipEligibleForTeam reads the scopes of the membership.     *)
Eligible(m, t) == Active(m) /\ t \in members[m].scope

BeginJoin(o, m, t) ==
    /\ AtStep(o, "IDLE") /\ Eligible(m, t)
    /\ Officers(o, [step |-> "JOINING", of |-> m, team |-> t])
    /\ UNCHANGED <<members, placement>>

assignTeamMember(o) ==
    /\ AtStep(o, "JOINING")
    /\ teamwork' = teamwork \cup {<<officers[o].team, officers[o].of>>}
    /\ Released(o)
    /\ UNCHANGED <<members, lines, managers>>

endTeamMembership(t, m) ==
    /\ <<t, m>> \in teamwork
    /\ teamwork' = teamwork \ {<<t, m>>}
    /\ UNCHANGED <<members, lines, managers, officers>>

BeginLead(o, m, t) ==
    /\ AtStep(o, "IDLE") /\ Eligible(m, t)
    /\ members[m].role = "TEAM_MANAGER" /\ managers[t] # m
    /\ Officers(o, [step |-> "LEADING", of |-> m, team |-> t, seen |-> managers[t]])
    /\ UNCHANGED <<members, placement>>

replaceTeamManager(o) ==
    /\ AtStep(o, "LEADING")
    /\ LET t == officers[o]
       IN  managers' = IF managers[t.team] = t.seen THEN [managers EXCEPT ![t.team] = t.of]
                       ELSE managers
    /\ Released(o)
    /\ UNCHANGED <<members, lines, teamwork>>

(* A check refuses, or the transaction is rolled back.                      *)
AbandonCommand(o) ==
    /\ ~AtStep(o, "IDLE")
    /\ Released(o)
    /\ UNCHANGED <<members, placement>>

-----------------------------------------------------------------------------
MembershipCommand(o) ==
    \/ updateMembership(o) \/ setMembershipStatus(o) \/ AppointMember(o) \/ AppointAdmin(o)
    \/ \E u \in Person : BeginInvite(o, u) \/ \E m \in Member : AppointInvited(o, m, u)
    \/ \E m \in Member : inviteUser(o, m) \/ membershipForUpdate(o, m)

PlacementCommand(o) ==
    \/ setReportingManager(o) \/ assignTeamMember(o) \/ replaceTeamManager(o)
    \/ \E m \in Member, to \in Member \cup {NoManager} : BeginLine(o, m, to)
    \/ \E m \in Member, t \in Team : BeginJoin(o, m, t) \/ BeginLead(o, m, t)

HierarchyNext ==
    \/ \E o \in Officer : MembershipCommand(o) \/ PlacementCommand(o) \/ AbandonCommand(o)
    \/ \E m \in Member : AcceptInvitation(m) \/ \E t \in Team : endTeamMembership(t, m)

HierarchySpec == HierarchyInit /\ [][HierarchyNext]_hierarchyVars

-----------------------------------------------------------------------------
(* A client that has an active Client Admin never loses the last one, be it *)
(* by a new role or a new status, and however many change at a time.        *)
AdminRemains == [][ActiveAdmins # {} => ActiveAdmins' # {}]_hierarchyVars
=============================================================================
