------------------------------ MODULE Sessions ------------------------------
(***************************************************************************)
(* The sessions of one account, apps/api/src/auth/drizzle-auth.store.ts:   *)
(* login, the check every request makes, rotation, switching membership,   *)
(* logout, password reset, support elevations, and the triggers by which   *)
(* the database ends sessions when a user, a membership or an organisation *)
(* is deactivated.                                                         *)
(*                                                                         *)
(* A transaction of the store is one step: each begins by locking the      *)
(* session rows it decides about.  The exception is a trigger, which       *)
(* updates the elevations first and the sessions in a second statement.    *)
(* Its transaction is the variable sessClosing: what it has updated is     *)
(* locked, and nobody sees it, until it commits.                           *)
(*                                                                         *)
(* A caller is a request handler.  Between its database calls anything may *)
(* happen, so what it read is kept in its task.  Expiry is a choice: the   *)
(* life of a session or an elevation may be over whenever it is looked at. *)
(* The names of this module carry its prefix because several components    *)
(* are checked together in AccessMC.                                       *)
(***************************************************************************)
EXTENDS Naturals, FiniteSets

CONSTANTS
    Session,        \* sessions of the account
    Hosted,         \* those a Supabase sign-in brings, the others are the CRM's own
    Elevation,      \* support elevations
    ResetToken,     \* password reset tokens
    Membership,     \* memberships of the account
    Organisation,   \* the agency and its clients
    Agency,         \* the agency
    Home,           \* the organisation a membership belongs to
    Caller,         \* request handlers
    MaxCloses       \* bound: deactivations

ASSUME SessionsAssumption ==
    /\ Hosted \subseteq Session
    /\ Home \in [Membership -> Organisation]
    /\ MaxCloses \in Nat
    /\ "ACCOUNT" \notin Membership \cup Organisation

VARIABLES
    sessions,    \* refresh_sessions
    elevations,  \* support_elevations
    resets,      \* password_reset_tokens
    password,    \* how often the password was reset
    active,      \* which of the account, its memberships and the organisations are active
    closed,      \* counts deactivations
    sessClosing, \* the transaction of a deactivation
    callers      \* what each request handler is doing

sessVars == <<sessions, elevations, resets, password, active, closed, sessClosing, callers>>

-----------------------------------------------------------------------------
Subject == {"ACCOUNT"} \cup Membership \cup Organisation
(* reason keeps apart what the account's trigger ended; password is the     *)
(* password a CRM login was verified against, and late says that it had     *)
(* been reset by the time the session was created.                          *)
SessionRow == [status: {"OPEN", "REVOKED"}, membership: Membership,
               reason: {"NONE", "ACCOUNT", "ENDED"}, password: Nat, late: BOOLEAN]
NoSession == [status |-> "NONE"]
ElevationRow == [status: {"OPEN", "ENDED"}, session: Session, membership: Membership,
                 target: Organisation]
NoElevation == [status |-> "NONE"]
Closing == [step: {"IDLE"}]
           \cup [step: {"BEGUN", "ELEVATIONS", "SESSIONS"}, subject: Subject,
                 ended: SUBSET Elevation, revoked: SUBSET Session]
NoClosing == [step |-> "IDLE"]
CallerTask == [step: {"IDLE"}]
              \cup [step: {"LOGIN"}, membership: Membership, password: Nat]
              \cup [step: {"RESOLVING", "SERVED"}, session: Session, membership: Membership]
              \cup [step: {"INVALID"}, session: Session, account: BOOLEAN]
Rest == [step |-> "IDLE"]

SessTypeOK ==
    /\ sessions \in [Session -> SessionRow \cup {NoSession}]
    /\ elevations \in [Elevation -> ElevationRow \cup {NoElevation}]
    /\ resets \in [ResetToken -> {"NONE", "ISSUED", "USED", "REVOKED"}]
    /\ password \in Nat /\ closed \in Nat
    /\ active \subseteq Subject
    /\ sessClosing \in Closing
    /\ callers \in [Caller -> CallerTask]

SessInit ==
    /\ sessions = [s \in Session |-> NoSession]
    /\ elevations = [e \in Elevation |-> NoElevation]
    /\ resets = [r \in ResetToken |-> "NONE"]
    /\ password = 0 /\ closed = 0
    /\ active = Subject
    /\ sessClosing = NoClosing
    /\ callers = [c \in Caller |-> Rest]

-----------------------------------------------------------------------------
Usable(m) == {m, Home[m]} \subseteq active
OpenSessions == {s \in Session : sessions[s].status = "OPEN"}
OpenElevations == {e \in Elevation : elevations[e].status = "OPEN"}
ElevationsOf(s) == {e \in OpenElevations : elevations[e].session = s}

(* Rows a trigger has updated are locked until its transaction ends.        *)
LockedSessions == IF sessClosing.step = "IDLE" THEN {} ELSE sessClosing.revoked
LockedElevations == IF sessClosing.step = "IDLE" THEN {} ELSE sessClosing.ended
Free(S, E) == S \cap LockedSessions = {} /\ E \cap LockedElevations = {}

Revoked(S, reason) ==
    [s \in Session |-> IF s \in S \cap OpenSessions
                       THEN [sessions[s] EXCEPT !.status = "REVOKED", !.reason = reason]
                       ELSE sessions[s]]
Ended(E) ==
    [e \in Elevation |-> IF e \in E THEN [elevations[e] EXCEPT !.status = "ENDED"]
                         ELSE elevations[e]]

(* What every way of ending sessions does: the open sessions of S are       *)
(* revoked, then the open elevations of E.                                  *)
EndAll(S, E) ==
    /\ Free(S \cap OpenSessions, E)
    /\ sessions' = Revoked(S, "ENDED")
    /\ elevations' = Ended(E)
EndSession(s) == EndAll({s}, ElevationsOf(s))
EndAccount == EndAll(Session, OpenElevations)

Becomes(c, t) == callers' = [callers EXCEPT ![c] = t]
At(c, step) == callers[c].step = step
Resolving(s, m) == [step |-> "RESOLVING", session |-> s, membership |-> m]
Invalid(s, whole) == [step |-> "INVALID", session |-> s, account |-> whole]

-----------------------------------------------------------------------------
(* createIdentitySession and completeMfaSession: the account and one of its *)
(* memberships are found active; the session is created later.              *)
SignIn(c, m) ==
    /\ At(c, "IDLE")
    /\ "ACCOUNT" \in active /\ Usable(m)
    /\ Becomes(c, [step |-> "LOGIN", membership |-> m, password |-> password])
    /\ UNCHANGED <<sessions, elevations, resets, password, active, closed, sessClosing>>

(* createSession inserts without looking at the account again; the session  *)
(* is resolved before the answer is given.                                  *)
CreateSession(c, s) ==
    /\ At(c, "LOGIN") /\ s \notin Hosted
    /\ sessions[s] = NoSession
    /\ sessions' = [sessions EXCEPT ![s] =
           [status |-> "OPEN", membership |-> callers[c].membership, reason |-> "NONE",
            password |-> callers[c].password, late |-> callers[c].password # password]]
    /\ Becomes(c, Resolving(s, callers[c].membership))
    /\ UNCHANGED <<elevations, resets, password, active, closed, sessClosing>>

(* ensureSupabaseSession: a hosted session that is known is opened again    *)
(* whatever ended it, a new one needs an active identity and membership.    *)
EnsureHosted(c, s, m) ==
    /\ At(c, "IDLE") /\ s \in Hosted
    /\ IF sessions[s] # NoSession
       THEN /\ s \notin LockedSessions /\ m = sessions[s].membership
            /\ sessions' = [sessions EXCEPT ![s].status = "OPEN", ![s].reason = "NONE",
                                            ![s].password = password]
       ELSE /\ "ACCOUNT" \in active /\ m \in active
            /\ sessions' = [sessions EXCEPT ![s] =
                   [status |-> "OPEN", membership |-> m, reason |-> "NONE",
                    password |-> password, late |-> FALSE]]
    /\ Becomes(c, Resolving(s, m))
    /\ UNCHANGED <<elevations, resets, password, active, closed, sessClosing>>

(* A request with a CRM access token names the session and the membership   *)
(* the token was issued for.                                                *)
Present(c, s, m) ==
    /\ At(c, "IDLE") /\ s \notin Hosted /\ sessions[s] # NoSession
    /\ Becomes(c, Resolving(s, m))
    /\ UNCHANGED <<sessions, elevations, resets, password, active, closed, sessClosing>>

-----------------------------------------------------------------------------
(* resolveSession: the row first, a lapsed or disabled one is invalidated   *)
(* in a transaction of its own; then the membership; then the elevation of  *)
(* an agency member, which is ended when its time or its client is over.    *)
Denied(c) ==
    LET s == callers[c].session IN
    /\ sessions[s].status # "OPEN" \/ sessions[s].membership # callers[c].membership
    /\ Becomes(c, Rest)
    /\ UNCHANGED <<sessions, elevations>>
Found(c) ==
    LET s == callers[c].session IN
    /\ sessions[s].status = "OPEN" /\ sessions[s].membership = callers[c].membership
Lapsed(c) ==
    /\ Found(c)
    /\ \E whole \in BOOLEAN :
        /\ whole => "ACCOUNT" \notin active
        /\ Becomes(c, Invalid(callers[c].session, whole))
    /\ UNCHANGED <<sessions, elevations>>
NotUsable(c) ==
    /\ Found(c) /\ ~Usable(callers[c].membership)
    /\ Becomes(c, Invalid(callers[c].session, FALSE))
    /\ UNCHANGED <<sessions, elevations>>
LoadSupportElevation(s, m) ==
    LET mine == {e \in ElevationsOf(s) : elevations[e].membership = m} IN
    \/ elevations' = elevations /\ \A e \in mine : elevations[e].target \in active
    \/ /\ Home[m] = Agency /\ mine # {} /\ Free({}, mine)
       /\ elevations' = Ended(mine)
Serve(c) ==
    LET m == callers[c].membership IN
    /\ Found(c) /\ "ACCOUNT" \in active /\ Usable(m)
    /\ LoadSupportElevation(callers[c].session, m)
    /\ Becomes(c, [step |-> "SERVED", session |-> callers[c].session, membership |-> m])
    /\ UNCHANGED sessions
ResolveSession(c) ==
    /\ At(c, "RESOLVING")
    /\ Denied(c) \/ Lapsed(c) \/ NotUsable(c) \/ Serve(c)
    /\ UNCHANGED <<resets, password, active, closed, sessClosing>>

(* invalidateSession does nothing more when it finds no session to revoke.  *)
InvalidateSession(c) ==
    /\ At(c, "INVALID")
    /\ LET s == callers[c].session
           S == IF callers[c].account THEN Session ELSE {s}
       IN IF S \cap OpenSessions = {} THEN UNCHANGED <<sessions, elevations>>
          ELSE EndAll(S, IF callers[c].account THEN OpenElevations ELSE ElevationsOf(s))
    /\ Becomes(c, Rest)
    /\ UNCHANGED <<resets, password, active, closed, sessClosing>>

(* rotateRefreshToken with the session row locked.  Which token was shown   *)
(* is the business of RefreshTokens; here it is the current one or not.     *)
TokenReused(c, s) == EndSession(s) /\ Becomes(c, Rest)
SessionExpired(c, s) == s \in OpenSessions /\ EndSession(s) /\ Becomes(c, Rest)
UserInactive(c, s) ==
    s \in OpenSessions /\ "ACCOUNT" \notin active /\ EndAccount /\ Becomes(c, Rest)
MembershipInactive(c, s) ==
    /\ s \in OpenSessions /\ "ACCOUNT" \in active /\ ~Usable(sessions[s].membership)
    /\ EndSession(s) /\ Becomes(c, Rest)
Rotated(c, s) ==
    /\ s \in OpenSessions /\ "ACCOUNT" \in active /\ Usable(sessions[s].membership)
    /\ Becomes(c, Resolving(s, sessions[s].membership))
    /\ UNCHANGED <<sessions, elevations>>
RotateRefreshToken(c, s) ==
    /\ At(c, "IDLE") /\ s \notin Hosted /\ sessions[s] # NoSession
    /\ s \notin LockedSessions
    /\ \/ TokenReused(c, s) \/ SessionExpired(c, s) \/ UserInactive(c, s)
       \/ MembershipInactive(c, s) \/ Rotated(c, s)
    /\ UNCHANGED <<resets, password, active, closed, sessClosing>>

-----------------------------------------------------------------------------
(* switchMembership: the session row is locked; the elevations of the       *)
(* session end, the target membership is read without a lock.               *)
Switched(s, m) ==
    /\ Free({s}, ElevationsOf(s))
    /\ s \in OpenSessions /\ Usable(m)
    /\ elevations' = Ended(ElevationsOf(s))
    /\ sessions' = [sessions EXCEPT ![s].membership = m]
SwitchMembership(c, m) ==
    LET s == callers[c].session IN
    /\ At(c, "SERVED")
    /\ \/ Switched(s, m) /\ Becomes(c, Resolving(s, m))
       \/ ~(s \in OpenSessions /\ Usable(m)) /\ UNCHANGED <<sessions, elevations>> /\ Becomes(c, Rest)
    /\ UNCHANGED <<resets, password, active, closed, sessClosing>>

(* revokeSession of any session of the user: one already revoked is not     *)
(* found.                                                                   *)
RevokeSession(c, s) ==
    /\ At(c, "SERVED")
    /\ IF s \in OpenSessions THEN EndSession(s) ELSE UNCHANGED <<sessions, elevations>>
    /\ Becomes(c, Rest)
    /\ UNCHANGED <<resets, password, active, closed, sessClosing>>

(* logoutAll: revokeAllSessions.                                            *)
RevokeAllSessions(c) ==
    /\ At(c, "SERVED")
    /\ EndAccount
    /\ Becomes(c, Rest)
    /\ UNCHANGED <<resets, password, active, closed, sessClosing>>

(* logout: revokeByRefreshToken needs no valid access token, any token of   *)
(* the session will do.                                                     *)
RevokeByRefreshToken(s) ==
    /\ s \in OpenSessions \ Hosted
    /\ EndSession(s)
    /\ UNCHANGED <<resets, password, active, closed, sessClosing, callers>>

-----------------------------------------------------------------------------
(* forgotPassword and createPasswordReset: an active account gets a token,  *)
(* which replaces the one it has.                                           *)
Unconsumed == {r \in ResetToken : resets[r] = "ISSUED"}
Issued(r) ==
    [q \in ResetToken |-> CASE q = r -> "ISSUED" [] q \in Unconsumed -> "REVOKED" [] OTHER -> resets[q]]
CreatePasswordReset(r) ==
    /\ "ACCOUNT" \in active /\ resets[r] = "NONE"
    /\ resets' = Issued(r)
    /\ UNCHANGED <<sessions, elevations, password, active, closed, sessClosing, callers>>

(* consumePasswordReset: the password changes and every session ends.       *)
FaultyResetSessions == UNCHANGED sessions /\ elevations' = Ended(OpenElevations)
ResetSessions == EndAccount
Consumed(r) ==
    /\ resets[r] = "ISSUED"
    /\ resets' = [q \in ResetToken |-> CASE q = r -> "USED"
                                         [] q \in Unconsumed \ {r} -> "REVOKED"
                                         [] OTHER -> resets[q]]
    /\ password' = password + 1
    /\ ResetSessions
ConsumePasswordReset(r) ==
    /\ Consumed(r)
    /\ UNCHANGED <<active, closed, sessClosing, callers>>

-----------------------------------------------------------------------------
(* createSupportElevation locks the session, its membership, the agency and *)
(* the client; an open elevation of the session is replaced.                *)
RowsLocked(m, o) == sessClosing.step # "IDLE" /\ sessClosing.subject \in {m, o, Agency}
FaultyGrantable(s, m, o) == Usable(m) /\ o \in active
Grantable(s, m, o) ==
    s \in OpenSessions /\ sessions[s].membership = m /\ Usable(m) /\ o \in active
Elevated(e, s, m, o) ==
    /\ ~RowsLocked(m, o) /\ Free({s}, ElevationsOf(s))
    /\ IF Grantable(s, m, o)
       THEN elevations' = [Ended(ElevationsOf(s)) EXCEPT ![e] =
                [status |-> "OPEN", session |-> s, membership |-> m, target |-> o]]
       ELSE UNCHANGED elevations
CreateSupportElevation(c, e, o) ==
    LET m == callers[c].membership IN
    /\ At(c, "SERVED") /\ elevations[e] = NoElevation
    /\ Home[m] = Agency /\ o # Agency
    /\ Elevated(e, callers[c].session, m, o)
    /\ Becomes(c, Rest)
    /\ UNCHANGED <<sessions, resets, password, active, closed, sessClosing>>
Relinquished(s) ==
    /\ Free({}, ElevationsOf(s))
    /\ elevations' = Ended(ElevationsOf(s))
RevokeSupportElevation(c) ==
    /\ At(c, "SERVED")
    /\ Relinquished(callers[c].session)
    /\ Becomes(c, Rest)
    /\ UNCHANGED <<sessions, resets, password, active, closed, sessClosing>>

-----------------------------------------------------------------------------
(* Deactivating x fires a trigger: which elevations and which sessions of   *)
(* the account it ends.                                                     *)
ElevationsUnder(x) ==
    {e \in OpenElevations :
        \/ x = "ACCOUNT" \/ elevations[e].membership = x
        \/ x # Agency /\ elevations[e].target = x
        \/ x = Agency /\ Home[elevations[e].membership] = Agency}
SessionsUnder(x) ==
    {s \in OpenSessions : \/ x = "ACCOUNT" \/ sessions[s].membership = x
                          \/ Home[sessions[s].membership] = x}

BeginClose(x) ==
    /\ sessClosing = NoClosing /\ x \in active /\ closed < MaxCloses
    /\ sessClosing' = [step |-> "BEGUN", subject |-> x, ended |-> {}, revoked |-> {}]
    /\ closed' = closed + 1
    /\ UNCHANGED <<sessions, elevations, resets, password, active, callers>>
CloseElevations ==
    /\ sessClosing.step = "BEGUN"
    /\ sessClosing' = [sessClosing EXCEPT !.step = "ELEVATIONS",
                                          !.ended = ElevationsUnder(sessClosing.subject)]
    /\ UNCHANGED <<sessions, elevations, resets, password, active, closed, callers>>
CloseSessions ==
    /\ sessClosing.step = "ELEVATIONS"
    /\ sessClosing' = [sessClosing EXCEPT !.step = "SESSIONS",
                                          !.revoked = SessionsUnder(sessClosing.subject)]
    /\ UNCHANGED <<sessions, elevations, resets, password, active, closed, callers>>
CommitClose ==
    LET x == sessClosing.subject IN
    /\ sessClosing.step = "SESSIONS"
    /\ active' = active \ {x}
    /\ elevations' = Ended(sessClosing.ended)
    /\ sessions' = Revoked(sessClosing.revoked, IF x = "ACCOUNT" THEN "ACCOUNT" ELSE "ENDED")
    /\ sessClosing' = NoClosing
    /\ UNCHANGED <<resets, password, closed, callers>>
(* The triggers lock in the opposite order of the store, so the database    *)
(* may have to break a deadlock by aborting the deactivation.               *)
AbortClose ==
    /\ sessClosing # NoClosing
    /\ sessClosing' = NoClosing
    /\ UNCHANGED <<sessions, elevations, resets, password, active, closed, callers>>
Reactivate(x) ==
    /\ sessClosing = NoClosing /\ x \in Subject \ active
    /\ active' = active \cup {x}
    /\ UNCHANGED <<sessions, elevations, resets, password, closed, sessClosing, callers>>
(* A membership also stops being usable without a trigger, when its period  *)
(* is over or its role is switched off.                                     *)
MembershipLapses(m) ==
    /\ sessClosing = NoClosing /\ m \in active /\ closed < MaxCloses
    /\ active' = active \ {m} /\ closed' = closed + 1
    /\ UNCHANGED <<sessions, elevations, resets, password, sessClosing, callers>>

Finish(c) ==
    /\ At(c, "SERVED") \/ At(c, "LOGIN")
    /\ Becomes(c, Rest)
    /\ UNCHANGED <<sessions, elevations, resets, password, active, closed, sessClosing>>

-----------------------------------------------------------------------------
SessRequest(c) ==
    \/ \E m \in Membership : SignIn(c, m) \/ SwitchMembership(c, m)
    \/ \E s \in Session : CreateSession(c, s) \/ RotateRefreshToken(c, s) \/ RevokeSession(c, s)
    \/ \E s \in Session, m \in Membership : Present(c, s, m) \/ EnsureHosted(c, s, m)
    \/ \E e \in Elevation, o \in Organisation : CreateSupportElevation(c, e, o)
    \/ ResolveSession(c) \/ InvalidateSession(c) \/ RevokeAllSessions(c)
    \/ RevokeSupportElevation(c) \/ Finish(c)
SessDeactivation ==
    \/ \E x \in Subject : BeginClose(x) \/ Reactivate(x)
    \/ CloseElevations \/ CloseSessions \/ CommitClose \/ AbortClose
    \/ \E m \in Membership : MembershipLapses(m)
SessNext ==
    \/ \E c \in Caller : SessRequest(c)
    \/ \E s \in Session : RevokeByRefreshToken(s)
    \/ \E r \in ResetToken : CreatePasswordReset(r) \/ ConsumePasswordReset(r)
    \/ SessDeactivation

SessSpec == SessInit /\ [][SessNext]_sessVars

-----------------------------------------------------------------------------
(* A support elevation is open only under a session that is open on the     *)
(* membership it was granted to, and a session has at most one.  Sessions   *)
(* end in ten ways, a switch of membership and the two statements of a      *)
(* trigger among them, all while elevations are being granted.  The one     *)
(* exception: the account is deactivated, and an elevation is granted after *)
(* the trigger has looked for elevations and before it reaches the session. *)
Backed(e) ==
    LET s == sessions[elevations[e].session] IN
    /\ s # NoSession /\ s.membership = elevations[e].membership
    /\ s.status = "OPEN" \/ s.reason = "ACCOUNT"
ElevationsEndWithSession ==
    /\ \A e \in OpenElevations : Backed(e)
    /\ \A s \in Session : Cardinality(ElevationsOf(s)) <= 1

(* A password reset ends every session of the account.  An open CRM session *)
(* verified against an older password is one whose login was under way at   *)
(* the reset and created its session after it: nothing in createSession     *)
(* looks at the password again.                                             *)
ResetEndsSessions ==
    \A s \in OpenSessions \ Hosted : sessions[s].password = password \/ sessions[s].late
=============================================================================
