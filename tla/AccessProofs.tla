---------------------------- MODULE AccessProofs ----------------------------
(* Proofs about access: the sessions of the server, signing in, the refresh  *)
(* tokens of the clients, the web tab, members and tenants.                  *)
EXTENDS Sessions, Login, RefreshTokens, WebSession, Hierarchy, Tenancy, FiniteSetTheorems, TLAPS

-----------------------------------------------------------------------------
(* The sessions of an account, for every set of sessions, memberships,       *)
(* organisations, elevations and request handlers.                           *)
(* What a deactivation has updated is still as it was when the trigger       *)
(* looked, and but for the account's it has found every elevation under its  *)
(* subject: the rows that a new one needs are locked.                        *)
ClosingPlaced ==
    sessClosing.step # "IDLE" =>
        /\ sessClosing.ended \subseteq OpenElevations
        /\ sessClosing.step \in {"ELEVATIONS", "SESSIONS"} /\ sessClosing.subject # "ACCOUNT" =>
             ElevationsUnder(sessClosing.subject) \subseteq sessClosing.ended
        /\ sessClosing.revoked \subseteq SessionsUnder(sessClosing.subject)
        /\ sessClosing.step \in {"BEGUN", "ELEVATIONS"} => sessClosing.revoked = {}
        /\ sessClosing.step = "BEGUN" => sessClosing.ended = {}

ElevationPlaced(e) ==
    /\ Backed(e) /\ Home[elevations[e].membership] = Agency
    /\ \A d \in OpenElevations : elevations[d].session = elevations[e].session => d = e

SessInv ==
    /\ SessTypeOK
    /\ ClosingPlaced
    /\ \A e \in OpenElevations : ElevationPlaced(e)
    /\ ResetEndsSessions

LEMMA SessStart == ASSUME SessInit PROVE SessInv
<1>1. SessTypeOK
  BY DEF SessInit, SessTypeOK, NoClosing, Closing, Rest, CallerTask
<1>2. OpenSessions = {} /\ OpenElevations = {}
  BY DEF SessInit, OpenSessions, OpenElevations, NoSession, NoElevation
<1>3. ClosingPlaced
  BY DEF SessInit, ClosingPlaced, NoClosing
<1> QED
  BY <1>1, <1>2, <1>3 DEF SessInv, ResetEndsSessions

(* What a request may do to the rows: end elevations nobody has locked,      *)
(* grant one to an open session, and end, open or move a session that has    *)
(* none afterwards.                                                          *)
GrantedNow(e) ==
    LET s == elevations'[e].session
        m == elevations'[e].membership
    IN  /\ elevations[e] = NoElevation /\ elevations'[e].status = "OPEN"
        /\ sessions' = sessions /\ sessions[s].status = "OPEN" /\ sessions[s].membership = m
        /\ Home[m] = Agency
        /\ sessClosing.step # "IDLE" => sessClosing.subject \notin {m, elevations'[e].target, Agency}
        /\ \A d \in OpenElevations' : elevations'[d].session = s => d = e

SessionGoesOn(s) ==
    /\ s \in LockedSessions => sessions'[s] = sessions[s]
    /\ sessions[s] # NoSession /\ (\E e \in OpenElevations' : elevations'[e].session = s) =>
         /\ sessions'[s] # NoSession
         /\ sessions'[s].membership = sessions[s].membership
         /\ \/ sessions'[s].status = "OPEN"
            \/ sessions'[s].status = sessions[s].status /\ sessions'[s].reason = sessions[s].reason
    /\ s \notin Hosted /\ sessions'[s].status = "OPEN" =>
         \/ sessions'[s].password = password \/ sessions'[s].late
         \/ /\ sessions[s].status = "OPEN"
            /\ sessions'[s].password = sessions[s].password /\ sessions'[s].late = sessions[s].late

RowsMove ==
    /\ sessions' \in [Session -> SessionRow \cup {NoSession}]
    /\ elevations' \in [Elevation -> ElevationRow \cup {NoElevation}]
    /\ \A s \in Session : SessionGoesOn(s)
    /\ \A e \in Elevation :
         \/ elevations'[e] = elevations[e]
         \/ e \in OpenElevations \ LockedElevations /\ elevations'[e].status = "ENDED"
         \/ GrantedNow(e)

LEMMA MoveKeeps ==
    ASSUME SessInv, RowsMove,
           callers' \in [Caller -> CallerTask],
           resets' \in [ResetToken -> {"NONE", "ISSUED", "USED", "REVOKED"}],
           UNCHANGED <<active, closed, sessClosing>>,
           password' \in Nat, password' # password => OpenSessions' = {}
    PROVE  SessInv'
<1>1. SessTypeOK /\ ClosingPlaced /\ ResetEndsSessions /\ \A e \in OpenElevations : ElevationPlaced(e)
  BY DEF SessInv
<1>2. SessTypeOK'
  BY <1>1 DEF SessTypeOK, RowsMove
<1>3. ASSUME NEW e \in OpenElevations'
      PROVE  \/ e \in OpenElevations /\ elevations'[e] = elevations[e]
             \/ GrantedNow(e)
  BY <1>1, <1>3 DEF RowsMove, OpenElevations, SessTypeOK
<1>4. ASSUME NEW e \in OpenElevations' PROVE ElevationPlaced(e)'
  <2>1. CASE GrantedNow(e)
    BY <2>1 DEF GrantedNow, ElevationPlaced, Backed, NoSession
  <2>2. CASE e \in OpenElevations /\ elevations'[e] = elevations[e]
    <3>1. ElevationPlaced(e) /\ elevations[e].session \in Session
      BY <1>1, <2>2 DEF SessTypeOK, OpenElevations, ElevationRow, NoElevation
    <3>2. PICK s \in Session : s = elevations[e].session
      BY <3>1
    <3>3. Backed(e)'
      BY <2>2, <3>1, <3>2 DEF RowsMove, SessionGoesOn, ElevationPlaced, Backed
    <3>4. ASSUME NEW d \in OpenElevations', elevations'[d].session = s PROVE d = e
      <4>1. CASE GrantedNow(d)
        BY <2>2, <3>2, <3>4, <4>1 DEF GrantedNow
      <4>2. CASE d \in OpenElevations /\ elevations'[d] = elevations[d]
        BY <3>1, <3>2, <3>4, <4>2 DEF ElevationPlaced
      <4> QED
        BY <1>3, <4>1, <4>2
    <3> QED
      BY <2>2, <3>1, <3>2, <3>3, <3>4 DEF ElevationPlaced
  <2> QED
    BY <1>3, <2>1, <2>2
<1>5. ClosingPlaced'
  <2> SUFFICES ASSUME sessClosing.step # "IDLE" PROVE ClosingPlaced'
    BY DEF ClosingPlaced
  <2>1. /\ sessClosing.ended \subseteq OpenElevations /\ sessClosing.ended \subseteq Elevation
        /\ LockedElevations = sessClosing.ended /\ LockedSessions = sessClosing.revoked
        /\ sessClosing.revoked \subseteq SessionsUnder(sessClosing.subject)
    BY <1>1 DEF ClosingPlaced, LockedElevations, LockedSessions, OpenElevations
  <2>2. sessClosing.ended \subseteq OpenElevations'
    <3> SUFFICES ASSUME NEW e \in sessClosing.ended PROVE elevations'[e].status = "OPEN"
      BY <2>1 DEF OpenElevations
    <3>1. e \in Elevation /\ elevations[e].status = "OPEN"
      BY <2>1 DEF OpenElevations
    <3>2. elevations'[e] = elevations[e] \/ GrantedNow(e)
      BY <2>1, <3>1 DEF RowsMove
    <3> QED
      BY <3>1, <3>2 DEF GrantedNow
  <2>3. sessClosing.revoked \subseteq SessionsUnder(sessClosing.subject)'
    BY <2>1 DEF RowsMove, SessionGoesOn, SessionsUnder, OpenSessions
  <2>4. ASSUME sessClosing.step \in {"ELEVATIONS", "SESSIONS"}, sessClosing.subject # "ACCOUNT",
               NEW e \in ElevationsUnder(sessClosing.subject)'
        PROVE  e \in sessClosing.ended
    <3>1. e \in OpenElevations' /\ ~GrantedNow(e)
      BY <2>4 DEF ElevationsUnder, GrantedNow
    <3>2. e \in OpenElevations /\ elevations'[e] = elevations[e]
      BY <1>3, <3>1
    <3>3. e \in ElevationsUnder(sessClosing.subject)
      BY <2>4, <3>2 DEF ElevationsUnder
    <3> QED
      BY <1>1, <2>4, <3>3 DEF ClosingPlaced
  <2> QED
    BY <1>1, <2>2, <2>3, <2>4 DEF ClosingPlaced
<1>6. ResetEndsSessions'
  BY <1>1 DEF RowsMove, SessionGoesOn, ResetEndsSessions, OpenSessions
<1> QED
  BY <1>2, <1>4, <1>5, <1>6 DEF SessInv

-----------------------------------------------------------------------------
(* The ways in which rows move.                                              *)
LEMMA RowsStay ==
    ASSUME SessInv, UNCHANGED <<sessions, elevations>>
    PROVE  RowsMove
BY DEF SessInv, SessTypeOK, RowsMove, SessionGoesOn, ResetEndsSessions, OpenSessions

LEMMA EndedRows ==
    ASSUME SessInv, NEW E \in SUBSET OpenElevations
    PROVE  /\ Ended(E) \in [Elevation -> ElevationRow \cup {NoElevation}]
           /\ \A e \in E : Ended(E)[e].status = "ENDED"
           /\ \A e \in Elevation \ E : Ended(E)[e] = elevations[e]
<1>1. ASSUME NEW e \in E
      PROVE  /\ e \in Elevation /\ [elevations[e] EXCEPT !.status = "ENDED"] \in ElevationRow
             /\ [elevations[e] EXCEPT !.status = "ENDED"].status = "ENDED"
  <2>1. e \in Elevation /\ elevations[e] \in ElevationRow
    BY DEF OpenElevations, SessInv, SessTypeOK, NoElevation
  <2> QED
    BY <2>1 DEF ElevationRow
<1>2. \A e \in Elevation : elevations[e] \in ElevationRow \cup {NoElevation}
  BY DEF SessInv, SessTypeOK
<1> HIDE DEF ElevationRow
<1> QED
  BY <1>1, <1>2 DEF Ended

LEMMA RevokedRows ==
    ASSUME SessInv, NEW S \in SUBSET Session, NEW reason \in {"ACCOUNT", "ENDED"}
    PROVE  /\ Revoked(S, reason) \in [Session -> SessionRow \cup {NoSession}]
           /\ \A s \in S \cap OpenSessions :
                /\ Revoked(S, reason)[s].status = "REVOKED"
                /\ Revoked(S, reason)[s].reason = reason
                /\ Revoked(S, reason)[s].membership = sessions[s].membership
           /\ \A s \in Session : s \notin S \cap OpenSessions => Revoked(S, reason)[s] = sessions[s]
<1>1. ASSUME NEW s \in S \cap OpenSessions, NEW r,
             r = [sessions[s] EXCEPT !.status = "REVOKED", !.reason = reason]
      PROVE  /\ r \in SessionRow /\ r.status = "REVOKED" /\ r.reason = reason
             /\ r.membership = sessions[s].membership
  <2>1. sessions[s] \in SessionRow
    BY DEF OpenSessions, SessInv, SessTypeOK, NoSession
  <2> QED
    BY <1>1, <2>1 DEF SessionRow
<1>2. \A s \in Session : sessions[s] \in SessionRow \cup {NoSession}
  BY DEF SessInv, SessTypeOK
<1> HIDE DEF SessionRow
<1> QED
  BY <1>1, <1>2 DEF Revoked

LEMMA EndingMoves ==
    ASSUME SessInv, NEW S \in SUBSET Session, NEW E \in SUBSET OpenElevations, EndAll(S, E),
           \A e \in OpenElevations \ E : elevations[e].session \notin S
    PROVE  RowsMove
<1>1. sessions' = Revoked(S, "ENDED") /\ elevations' = Ended(E) /\ Free(S \cap OpenSessions, E)
  BY DEF EndAll
<1>2. /\ elevations' \in [Elevation -> ElevationRow \cup {NoElevation}]
      /\ \A e \in E : elevations'[e].status = "ENDED"
      /\ \A e \in Elevation \ E : elevations'[e] = elevations[e]
  BY <1>1, EndedRows
<1>3. /\ sessions' \in [Session -> SessionRow \cup {NoSession}]
      /\ \A s \in S \cap OpenSessions : sessions'[s].status = "REVOKED"
      /\ \A s \in Session : s \notin S \cap OpenSessions => sessions'[s] = sessions[s]
  BY <1>1, RevokedRows
<1>4. ASSUME NEW e \in OpenElevations'
      PROVE  e \in OpenElevations \ E /\ elevations'[e] = elevations[e]
  BY <1>2, <1>4 DEF OpenElevations
<1>5. ASSUME NEW s \in Session PROVE SessionGoesOn(s)
  <2>1. CASE s \in S \cap OpenSessions
    <3>1. s \notin LockedSessions /\ sessions'[s].status = "REVOKED"
      BY <1>1, <1>3, <2>1 DEF Free
    <3>2. \A e \in OpenElevations' : elevations'[e].session # s
      BY <1>4, <2>1
    <3> QED
      BY <3>1, <3>2 DEF SessionGoesOn
  <2>2. CASE s \notin S \cap OpenSessions
    <3>1. sessions'[s] = sessions[s]
      BY <1>3, <2>2
    <3> QED
      BY <3>1 DEF SessionGoesOn, SessInv, ResetEndsSessions, OpenSessions
  <2> QED
    BY <2>1, <2>2
<1>6. \A e \in Elevation :
        \/ elevations'[e] = elevations[e]
        \/ e \in OpenElevations \ LockedElevations /\ elevations'[e].status = "ENDED"
  BY <1>1, <1>2 DEF Free
<1> QED
  BY <1>2, <1>3, <1>5, <1>6 DEF RowsMove

LEMMA EndSessionMoves ==
    ASSUME SessInv, NEW s \in Session, EndSession(s)
    PROVE  RowsMove
BY EndingMoves DEF EndSession, ElevationsOf

LEMMA EndAccountMoves ==
    ASSUME SessInv, EndAccount
    PROVE  RowsMove /\ OpenSessions' = {}
<1>1. RowsMove
  BY EndingMoves DEF EndAccount
<1>2. sessions' = Revoked(Session, "ENDED")
  BY DEF EndAccount, EndAll
<1>3. \A s \in Session : sessions'[s].status # "OPEN"
  BY <1>2, RevokedRows DEF OpenSessions
<1> QED
  BY <1>1, <1>3 DEF OpenSessions

(* Elevations end, and the sessions stay.                                    *)
LEMMA ElevationsEndMoves ==
    ASSUME SessInv, NEW E \in SUBSET OpenElevations, Free({}, E),
           elevations' = Ended(E), UNCHANGED sessions
    PROVE  RowsMove
<1>1. /\ elevations' \in [Elevation -> ElevationRow \cup {NoElevation}]
      /\ \A e \in E : elevations'[e].status = "ENDED"
      /\ \A e \in Elevation \ E : elevations'[e] = elevations[e]
  BY EndedRows
<1>2. \A s \in Session : SessionGoesOn(s)
  BY DEF SessionGoesOn, SessInv, ResetEndsSessions, OpenSessions
<1> QED
  BY <1>1, <1>2 DEF RowsMove, Free, SessInv, SessTypeOK

(* A session is opened, or moved to another membership without elevations.   *)
LEMMA SessionPutMoves ==
    ASSUME SessInv, NEW s \in Session, s \notin LockedSessions,
           NEW r \in SessionRow, r.status = "OPEN", sessions' = [sessions EXCEPT ![s] = r],
           \/ sessions[s] = NoSession \/ r.membership = sessions[s].membership
           \/ \A e \in OpenElevations : elevations[e].session # s,
           s \notin Hosted => \/ r.password = password \/ r.late
                             \/ /\ sessions[s].status = "OPEN"
                                /\ r.password = sessions[s].password /\ r.late = sessions[s].late,
           UNCHANGED elevations
    PROVE  RowsMove
<1>1. /\ sessions' \in [Session -> SessionRow \cup {NoSession}] /\ sessions'[s] = r
      /\ \A t \in Session \ {s} : sessions'[t] = sessions[t]
  BY DEF SessInv, SessTypeOK
<1>2. SessionGoesOn(s)
  <2>1. sessions'[s] # NoSession
    BY <1>1 DEF NoSession
  <2>2. OpenElevations' = OpenElevations
    BY DEF OpenElevations
  <2> QED
    BY <1>1, <2>1, <2>2 DEF SessionGoesOn
<1>3. \A t \in Session \ {s} : SessionGoesOn(t)
  BY <1>1 DEF SessionGoesOn, SessInv, ResetEndsSessions, OpenSessions
<1>4. \A t \in Session : SessionGoesOn(t)
  BY <1>2, <1>3
<1> QED
  BY <1>1, <1>4 DEF RowsMove, SessInv, SessTypeOK

LEMMA SwitchMoves ==
    ASSUME SessInv, NEW s \in Session, NEW m \in Membership, Switched(s, m)
    PROVE  RowsMove
<1>1. /\ elevations' \in [Elevation -> ElevationRow \cup {NoElevation}]
      /\ \A e \in ElevationsOf(s) : elevations'[e].status = "ENDED"
      /\ \A e \in Elevation \ ElevationsOf(s) : elevations'[e] = elevations[e]
  <2>1. ElevationsOf(s) \in SUBSET OpenElevations
    BY DEF ElevationsOf
  <2> QED
    BY <2>1, EndedRows DEF Switched
<1>2. sessions[s] \in SessionRow /\ sessions[s].status = "OPEN" /\ s \notin LockedSessions
  BY DEF Switched, OpenSessions, SessInv, SessTypeOK, NoSession, Free
<1>3. PICK r : r = [sessions[s] EXCEPT !.membership = m]
  OBVIOUS
<1>4. /\ r \in SessionRow /\ r.status = "OPEN" /\ r.password = sessions[s].password
      /\ r.late = sessions[s].late
  BY <1>2, <1>3 DEF SessionRow
<1>5. /\ sessions' \in [Session -> SessionRow \cup {NoSession}] /\ sessions'[s] = r
      /\ \A t \in Session \ {s} : sessions'[t] = sessions[t]
  BY <1>3, <1>4 DEF SessInv, SessTypeOK, Switched
<1>6. SessionGoesOn(s)
  <2>1. \A e \in OpenElevations' : elevations'[e].session # s
    BY <1>1 DEF OpenElevations, ElevationsOf
  <2> QED
    BY <1>2, <1>4, <1>5, <2>1 DEF SessionGoesOn
<1>7. \A t \in Session \ {s} : SessionGoesOn(t)
  BY <1>5 DEF SessionGoesOn, SessInv, ResetEndsSessions, OpenSessions
<1>8. \A t \in Session : SessionGoesOn(t)
  BY <1>6, <1>7
<1>9. \A e \in ElevationsOf(s) : e \in OpenElevations \ LockedElevations
  BY DEF Switched, Free, ElevationsOf
<1> QED
  BY <1>1, <1>5, <1>8, <1>9 DEF RowsMove

LEMMA ElevateMoves ==
    ASSUME SessInv, NEW s \in Session, NEW m \in Membership, NEW o \in Organisation,
           NEW e \in Elevation, elevations[e] = NoElevation, Home[m] = Agency,
           Elevated(e, s, m, o), UNCHANGED sessions
    PROVE  RowsMove
<1>1. CASE UNCHANGED elevations
  BY <1>1, RowsStay
<1>2. CASE ~UNCHANGED elevations
  <2>1. PICK r : r = [status |-> "OPEN", session |-> s, membership |-> m, target |-> o]
    OBVIOUS
  <2>2. /\ r \in ElevationRow /\ r.status = "OPEN" /\ r.session = s /\ r.membership = m
        /\ r.target = o
    BY <2>1 DEF ElevationRow
  <2>3. elevations' = [Ended(ElevationsOf(s)) EXCEPT ![e] = r] /\ Grantable(s, m, o)
    BY <1>2, <2>1 DEF Elevated
  <2>4. ElevationsOf(s) \in SUBSET OpenElevations /\ e \notin ElevationsOf(s)
    BY DEF ElevationsOf, OpenElevations, NoElevation
  <2>5. /\ elevations' \in [Elevation -> ElevationRow \cup {NoElevation}] /\ elevations'[e] = r
        /\ \A d \in ElevationsOf(s) : elevations'[d].status = "ENDED"
        /\ \A d \in Elevation : d # e /\ d \notin ElevationsOf(s) => elevations'[d] = elevations[d]
    BY <2>2, <2>3, <2>4, EndedRows
  <2>6. \A d \in OpenElevations' : elevations'[d].session = s => d = e
    BY <2>5 DEF OpenElevations, ElevationsOf
  <2>7. GrantedNow(e)
    <3>1. sessions[s].status = "OPEN" /\ sessions[s].membership = m
      BY <2>3 DEF Grantable, OpenSessions
    <3>2. sessClosing.step # "IDLE" => sessClosing.subject \notin {m, o, Agency}
      BY DEF Elevated, RowsLocked
    <3> QED
      BY <2>2, <2>5, <2>6, <3>1, <3>2 DEF GrantedNow
  <2>8. \A t \in Session : SessionGoesOn(t)
    BY DEF SessionGoesOn, SessInv, ResetEndsSessions, OpenSessions
  <2>9. \A d \in ElevationsOf(s) : d \in OpenElevations \ LockedElevations
    BY DEF Elevated, Free, ElevationsOf
  <2> QED
    BY <2>5, <2>7, <2>8, <2>9 DEF RowsMove, SessInv, SessTypeOK
<1> QED
  BY <1>1, <1>2

-----------------------------------------------------------------------------
(* Requests. *)
LEMMA TaskTaken ==
    ASSUME SessInv, NEW c \in Caller, NEW t \in CallerTask, Becomes(c, t)
    PROVE  callers' \in [Caller -> CallerTask]
BY DEF SessInv, SessTypeOK, Becomes

LEMMA Tasks ==
    /\ Rest \in CallerTask
    /\ \A s \in Session, m \in Membership : Resolving(s, m) \in CallerTask
    /\ \A s \in Session, w \in BOOLEAN : Invalid(s, w) \in CallerTask
BY DEF CallerTask, Rest, Resolving, Invalid

LEMMA RequestKeeps ==
    ASSUME SessInv, RowsMove, NEW c \in Caller, NEW t \in CallerTask, Becomes(c, t),
           UNCHANGED <<resets, password, active, closed, sessClosing>>
    PROVE  SessInv'
<1>1. /\ callers' \in [Caller -> CallerTask]
      /\ resets' \in [ResetToken -> {"NONE", "ISSUED", "USED", "REVOKED"}]
      /\ password' \in Nat
  BY TaskTaken DEF SessInv, SessTypeOK
<1> QED
  BY <1>1, MoveKeeps

LEMMA SignInInv ==
    ASSUME SessInv, NEW c \in Caller,
           \/ \E m \in Membership : SignIn(c, m)
           \/ \E s \in Session, m \in Membership : Present(c, s, m)
           \/ Finish(c)
    PROVE  SessInv'
<1>1. \A m \in Membership : [step |-> "LOGIN", membership |-> m, password |-> password] \in CallerTask
  BY DEF CallerTask, SessInv, SessTypeOK
<1>2. RowsMove
  BY RowsStay DEF SignIn, Present, Finish
<1> QED
  BY <1>1, <1>2, Tasks, RequestKeeps DEF SignIn, Present, Finish

LEMMA CreateSessionInv ==
    ASSUME SessInv, NEW c \in Caller, NEW s \in Session, CreateSession(c, s)
    PROVE  SessInv'
<1>1. callers[c].membership \in Membership /\ callers[c].password \in Nat /\ password \in Nat
  BY DEF SessInv, SessTypeOK, CallerTask, CreateSession, At
<1>2. PICK r : r = [status |-> "OPEN", membership |-> callers[c].membership, reason |-> "NONE",
                    password |-> callers[c].password, late |-> callers[c].password # password]
  OBVIOUS
<1>3. r \in SessionRow /\ r.status = "OPEN" /\ (r.password = password \/ r.late)
  BY <1>1, <1>2 DEF SessionRow
<1>4. sessions' = [sessions EXCEPT ![s] = r] /\ sessions[s] = NoSession /\ UNCHANGED elevations
  BY <1>2 DEF CreateSession
<1>5. s \notin LockedSessions
  BY <1>4 DEF SessInv, ClosingPlaced, LockedSessions, SessionsUnder, OpenSessions, NoSession
<1>6. RowsMove
  BY <1>3, <1>4, <1>5, SessionPutMoves
<1> QED
  BY <1>1, <1>6, Tasks, RequestKeeps DEF CreateSession

LEMMA EnsureHostedInv ==
    ASSUME SessInv, NEW c \in Caller, NEW s \in Session, NEW m \in Membership, EnsureHosted(c, s, m)
    PROVE  SessInv'
<1>1. password \in Nat /\ UNCHANGED elevations /\ s \in Hosted
  BY DEF SessInv, SessTypeOK, EnsureHosted
<1>2. CASE sessions[s] # NoSession
  <2>1. sessions[s] \in SessionRow /\ s \notin LockedSessions
    BY <1>2 DEF SessInv, SessTypeOK, EnsureHosted
  <2>2. PICK r : r = [sessions[s] EXCEPT !.status = "OPEN", !.reason = "NONE", !.password = password]
    OBVIOUS
  <2>3. r \in SessionRow /\ r.status = "OPEN" /\ r.membership = sessions[s].membership
    BY <1>1, <2>1, <2>2 DEF SessionRow
  <2>4. sessions' = [sessions EXCEPT ![s] = r]
    BY <1>2, <2>1, <2>2 DEF EnsureHosted, SessInv, SessTypeOK
  <2> QED
    BY <1>1, <2>1, <2>3, <2>4, SessionPutMoves, Tasks, RequestKeeps DEF EnsureHosted
<1>3. CASE sessions[s] = NoSession
  <2>1. s \notin LockedSessions
    BY <1>3 DEF SessInv, ClosingPlaced, LockedSessions, SessionsUnder, OpenSessions, NoSession
  <2>2. PICK r : r = [status |-> "OPEN", membership |-> m, reason |-> "NONE",
                      password |-> password, late |-> FALSE]
    OBVIOUS
  <2>3. r \in SessionRow /\ r.status = "OPEN"
    BY <1>1, <2>2 DEF SessionRow
  <2>4. sessions' = [sessions EXCEPT ![s] = r]
    BY <1>3, <2>2 DEF EnsureHosted
  <2> QED
    BY <1>1, <1>3, <2>1, <2>3, <2>4, SessionPutMoves, Tasks, RequestKeeps DEF EnsureHosted
<1> QED
  BY <1>2, <1>3

LEMMA ResolveInv ==
    ASSUME SessInv, NEW c \in Caller, ResolveSession(c)
    PROVE  SessInv'
<1>1. callers[c].session \in Session /\ callers[c].membership \in Membership
  BY DEF SessInv, SessTypeOK, CallerTask, ResolveSession, At
<1>2. PICK t \in CallerTask : Becomes(c, t)
  <2>1. [step |-> "SERVED", session |-> callers[c].session, membership |-> callers[c].membership]
          \in CallerTask
    BY <1>1 DEF CallerTask
  <2> QED
    BY <1>1, <2>1, Tasks DEF ResolveSession, Denied, Lapsed, NotUsable, Serve
<1>3. RowsMove
  <2>1. CASE UNCHANGED <<sessions, elevations>>
    BY <2>1, RowsStay
  <2>2. CASE Serve(c)
    <3>1. CASE elevations' = elevations
      BY <2>2, <3>1, RowsStay DEF Serve
    <3>2. CASE elevations' # elevations
      <4> DEFINE mine == {e \in ElevationsOf(callers[c].session) :
                              elevations[e].membership = callers[c].membership}
      <4>1. mine \in SUBSET OpenElevations
        BY DEF ElevationsOf
      <4>2. Free({}, mine) /\ elevations' = Ended(mine) /\ UNCHANGED sessions
        BY <2>2, <3>2 DEF Serve, LoadSupportElevation
      <4> QED
        BY <4>1, <4>2, ElevationsEndMoves
    <3> QED
      BY <3>1, <3>2
  <2> QED
    BY <2>1, <2>2 DEF ResolveSession, Denied, Lapsed, NotUsable
<1> QED
  BY <1>2, <1>3, RequestKeeps DEF ResolveSession

LEMMA InvalidateInv ==
    ASSUME SessInv, NEW c \in Caller, InvalidateSession(c)
    PROVE  SessInv'
<1>1. callers[c].session \in Session
  BY DEF SessInv, SessTypeOK, CallerTask, InvalidateSession, At
<1>2. RowsMove
  <2>1. CASE UNCHANGED <<sessions, elevations>>
    BY <2>1, RowsStay
  <2>2. CASE EndAccount
    BY <2>2, EndAccountMoves
  <2>3. CASE EndSession(callers[c].session)
    BY <1>1, <2>3, EndSessionMoves
  <2> QED
    BY <2>1, <2>2, <2>3 DEF InvalidateSession, EndAccount, EndSession
<1> QED
  BY <1>2, Tasks, RequestKeeps DEF InvalidateSession

LEMMA RotateInv ==
    ASSUME SessInv, NEW c \in Caller, NEW s \in Session, RotateRefreshToken(c, s)
    PROVE  SessInv'
<1>1. RowsMove
  BY EndSessionMoves, EndAccountMoves, RowsStay
  DEF RotateRefreshToken, TokenReused, SessionExpired, UserInactive, MembershipInactive, Rotated
<1>2. sessions[s].status = "OPEN" => sessions[s].membership \in Membership
  BY DEF SessInv, SessTypeOK, SessionRow, NoSession
<1>3. PICK t \in CallerTask : Becomes(c, t)
  BY <1>2, Tasks DEF RotateRefreshToken, TokenReused, SessionExpired, UserInactive,
                     MembershipInactive, Rotated, OpenSessions
<1> QED
  BY <1>1, <1>3, RequestKeeps DEF RotateRefreshToken

LEMMA SwitchInv ==
    ASSUME SessInv, NEW c \in Caller, NEW m \in Membership, SwitchMembership(c, m)
    PROVE  SessInv'
<1>1. callers[c].session \in Session
  BY DEF SessInv, SessTypeOK, CallerTask, SwitchMembership, At
<1>2. RowsMove
  BY <1>1, SwitchMoves, RowsStay DEF SwitchMembership
<1>3. PICK t \in CallerTask : Becomes(c, t)
  BY <1>1, Tasks DEF SwitchMembership
<1> QED
  BY <1>2, <1>3, RequestKeeps DEF SwitchMembership

LEMMA RevokesInv ==
    ASSUME SessInv, NEW c \in Caller,
           (\E s \in Session : RevokeSession(c, s)) \/ RevokeAllSessions(c) \/ RevokeSupportElevation(c)
    PROVE  SessInv'
<1>1. RowsMove
  <2>1. CASE \E s \in Session : RevokeSession(c, s)
    BY <2>1, EndSessionMoves, RowsStay DEF RevokeSession
  <2>2. CASE RevokeAllSessions(c)
    BY <2>2, EndAccountMoves DEF RevokeAllSessions
  <2>3. CASE RevokeSupportElevation(c)
    <3>1. ElevationsOf(callers[c].session) \in SUBSET OpenElevations
      BY DEF ElevationsOf
    <3> QED
      BY <2>3, <3>1, ElevationsEndMoves DEF RevokeSupportElevation, Relinquished
  <2> QED
    BY <2>1, <2>2, <2>3
<1> QED
  BY <1>1, Tasks, RequestKeeps DEF RevokeSession, RevokeAllSessions, RevokeSupportElevation

LEMMA ElevateInv ==
    ASSUME SessInv, NEW c \in Caller, NEW e \in Elevation, NEW o \in Organisation,
           CreateSupportElevation(c, e, o)
    PROVE  SessInv'
<1>1. callers[c].session \in Session /\ callers[c].membership \in Membership
  BY DEF SessInv, SessTypeOK, CallerTask, CreateSupportElevation, At
<1>2. RowsMove
  BY <1>1, ElevateMoves DEF CreateSupportElevation
<1> QED
  BY <1>2, Tasks, RequestKeeps DEF CreateSupportElevation

LEMMA LogoutInv ==
    ASSUME SessInv, NEW s \in Session, RevokeByRefreshToken(s)
    PROVE  SessInv'
<1>1. RowsMove
  BY EndSessionMoves DEF RevokeByRefreshToken
<1>2. /\ callers' \in [Caller -> CallerTask]
      /\ resets' \in [ResetToken -> {"NONE", "ISSUED", "USED", "REVOKED"}]
      /\ password' \in Nat
  BY DEF RevokeByRefreshToken, SessInv, SessTypeOK
<1> QED
  BY <1>1, <1>2, MoveKeeps DEF RevokeByRefreshToken

LEMMA ResetInv ==
    ASSUME SessInv, NEW r \in ResetToken, CreatePasswordReset(r) \/ ConsumePasswordReset(r)
    PROVE  SessInv'
<1>1. /\ callers' \in [Caller -> CallerTask]
      /\ resets' \in [ResetToken -> {"NONE", "ISSUED", "USED", "REVOKED"}]
      /\ password' \in Nat
  BY DEF CreatePasswordReset, ConsumePasswordReset, Consumed, Issued, SessInv, SessTypeOK
<1>2. RowsMove /\ (password' # password => OpenSessions' = {})
  BY RowsStay, EndAccountMoves
  DEF CreatePasswordReset, ConsumePasswordReset, Consumed, ResetSessions
<1> QED
  BY <1>1, <1>2, MoveKeeps DEF CreatePasswordReset, ConsumePasswordReset

-----------------------------------------------------------------------------
(* A deactivation. *)
LEMMA ClosingInv ==
    ASSUME SessInv, NEW x \in Subject,
           \/ BeginClose(x) \/ CloseElevations \/ CloseSessions \/ AbortClose \/ Reactivate(x)
           \/ \E m \in Membership : MembershipLapses(m)
    PROVE  SessInv'
<1>1. SessTypeOK /\ ClosingPlaced
  BY DEF SessInv
<1>2. UNCHANGED <<sessions, elevations, resets, password, callers>>
  BY DEF BeginClose, CloseElevations, CloseSessions, AbortClose, Reactivate, MembershipLapses
<1>3. OpenElevations' = OpenElevations /\ OpenSessions' = OpenSessions
  BY <1>2 DEF OpenElevations, OpenSessions
<1>4. active' \subseteq Subject /\ closed' \in Nat
  BY <1>1 DEF SessTypeOK, BeginClose, CloseElevations, CloseSessions, AbortClose, Reactivate,
              MembershipLapses, Subject
<1>5. sessClosing' \in Closing /\ ClosingPlaced'
  <2>1. CASE UNCHANGED sessClosing
    BY <1>1, <1>2, <1>3, <2>1 DEF SessTypeOK, ClosingPlaced, ElevationsUnder, SessionsUnder
  <2>2. CASE AbortClose
    BY <2>2 DEF AbortClose, NoClosing, Closing, ClosingPlaced
  <2>3. CASE BeginClose(x)
    BY <2>3 DEF BeginClose, Closing, ClosingPlaced
  <2>4. CASE CloseElevations
    <3>1. /\ sessClosing.step = "BEGUN" /\ sessClosing \in Closing
          /\ sessClosing' = [sessClosing EXCEPT !.step = "ELEVATIONS",
                                                !.ended = ElevationsUnder(sessClosing.subject)]
      BY <1>1, <2>4 DEF CloseElevations, SessTypeOK
    <3>2. ElevationsUnder(sessClosing.subject) \subseteq OpenElevations
      BY DEF ElevationsUnder
    <3>3. OpenElevations \subseteq Elevation
      BY DEF OpenElevations
    <3>4. /\ sessClosing' \in Closing /\ sessClosing'.step = "ELEVATIONS"
          /\ sessClosing'.subject = sessClosing.subject
          /\ sessClosing'.ended = ElevationsUnder(sessClosing.subject)
          /\ sessClosing'.revoked = sessClosing.revoked
      BY <3>1, <3>2, <3>3 DEF Closing
    <3>5. ElevationsUnder(sessClosing.subject)' = ElevationsUnder(sessClosing.subject)
      BY <1>2, <1>3, <3>4 DEF ElevationsUnder
    <3>6. sessClosing.revoked = {}
      BY <1>1, <3>1 DEF ClosingPlaced
    <3> QED
      BY <1>3, <3>2, <3>4, <3>5, <3>6 DEF ClosingPlaced
  <2>5. CASE CloseSessions
    <3>1. /\ sessClosing.step = "ELEVATIONS" /\ sessClosing \in Closing
          /\ sessClosing' = [sessClosing EXCEPT !.step = "SESSIONS",
                                                !.revoked = SessionsUnder(sessClosing.subject)]
      BY <1>1, <2>5 DEF CloseSessions, SessTypeOK
    <3>2. SessionsUnder(sessClosing.subject) \subseteq Session
      BY DEF SessionsUnder, OpenSessions
    <3>3. /\ sessClosing' \in Closing /\ sessClosing'.step = "SESSIONS"
          /\ sessClosing'.subject = sessClosing.subject /\ sessClosing'.ended = sessClosing.ended
          /\ sessClosing'.revoked = SessionsUnder(sessClosing.subject)
      BY <3>1, <3>2 DEF Closing
    <3>4. /\ ElevationsUnder(sessClosing.subject)' = ElevationsUnder(sessClosing.subject)
          /\ SessionsUnder(sessClosing.subject)' = SessionsUnder(sessClosing.subject)
      BY <1>2, <1>3, <3>3 DEF ElevationsUnder, SessionsUnder
    <3> QED
      BY <1>1, <1>3, <3>1, <3>3, <3>4 DEF ClosingPlaced
  <2> QED
    BY <2>1, <2>2, <2>3, <2>4, <2>5 DEF Reactivate, MembershipLapses
<1>6. \A e \in OpenElevations : ElevationPlaced(e)'
  BY <1>2, <1>3 DEF SessInv, ElevationPlaced, Backed
<1> QED
  BY <1>1, <1>2, <1>3, <1>4, <1>5, <1>6 DEF SessInv, SessTypeOK, ResetEndsSessions

LEMMA CommitInv ==
    ASSUME SessInv, CommitClose
    PROVE  SessInv'
<1> DEFINE x == sessClosing.subject
<1>1. /\ SessTypeOK /\ ClosingPlaced /\ sessClosing \in Closing /\ sessClosing.step = "SESSIONS"
      /\ x \in Subject
      /\ elevations' = Ended(sessClosing.ended) /\ sessClosing' = NoClosing
      /\ sessions' = Revoked(sessClosing.revoked, IF x = "ACCOUNT" THEN "ACCOUNT" ELSE "ENDED")
      /\ active' = active \ {x} /\ UNCHANGED <<resets, password, closed, callers>>
  BY DEF SessInv, SessTypeOK, CommitClose, Closing
<1>2. /\ sessClosing.ended \in SUBSET OpenElevations
      /\ sessClosing.revoked \subseteq SessionsUnder(x)
      /\ x # "ACCOUNT" => ElevationsUnder(x) \subseteq sessClosing.ended
  BY <1>1 DEF ClosingPlaced
<1>3. /\ elevations' \in [Elevation -> ElevationRow \cup {NoElevation}]
      /\ \A e \in sessClosing.ended : elevations'[e].status = "ENDED"
      /\ \A e \in Elevation \ sessClosing.ended : elevations'[e] = elevations[e]
  BY <1>1, <1>2, EndedRows
<1>4. sessClosing.revoked \in SUBSET Session /\ sessClosing.revoked \subseteq OpenSessions
  BY <1>2 DEF SessionsUnder, OpenSessions
<1>5. PICK reason \in {"ACCOUNT", "ENDED"} :
        /\ x = "ACCOUNT" => reason = "ACCOUNT"
        /\ sessions' = Revoked(sessClosing.revoked, reason)
  BY <1>1
<1>6. /\ sessions' \in [Session -> SessionRow \cup {NoSession}]
      /\ \A s \in sessClosing.revoked : /\ sessions'[s].status = "REVOKED"
                                        /\ sessions'[s].reason = reason
                                        /\ sessions'[s].membership = sessions[s].membership
      /\ \A s \in Session \ sessClosing.revoked : sessions'[s] = sessions[s]
  BY <1>4, <1>5, RevokedRows
<1> HIDE DEF x
<1>7. SessTypeOK'
  BY <1>1, <1>3, <1>6 DEF SessTypeOK, NoClosing, Closing
<1>8. ClosingPlaced'
  BY <1>1 DEF ClosingPlaced, NoClosing
<1>9. ASSUME NEW e \in OpenElevations' PROVE ElevationPlaced(e)'
  <2>1. e \in OpenElevations /\ e \notin sessClosing.ended /\ elevations'[e] = elevations[e]
    BY <1>3 DEF OpenElevations
  <2>2. ElevationPlaced(e)
    BY <2>1 DEF SessInv
  <2>3. PICK s \in Session : s = elevations[e].session
    BY <1>1, <2>1 DEF SessTypeOK, OpenElevations, ElevationRow, NoElevation
  <2>4. CASE s \in sessClosing.revoked /\ x # "ACCOUNT"
    <3>1. sessions[s].membership = elevations[e].membership /\ Home[elevations[e].membership] = Agency
      BY <2>2, <2>3 DEF ElevationPlaced, Backed
    <3>2. sessions[s].membership = x \/ Home[sessions[s].membership] = x
      BY <1>2, <2>4 DEF SessionsUnder
    <3>3. e \in ElevationsUnder(x)
      BY <2>1, <3>1, <3>2 DEF ElevationsUnder
    <3> QED
      BY <1>2, <2>1, <2>4, <3>3
  <2>5. CASE s \in sessClosing.revoked /\ x = "ACCOUNT"
    BY <1>5, <1>6, <2>1, <2>2, <2>3, <2>5, <1>3 DEF ElevationPlaced, Backed, NoSession, OpenElevations
  <2>6. CASE s \notin sessClosing.revoked
    BY <1>6, <2>1, <2>2, <2>3, <2>6, <1>3 DEF ElevationPlaced, Backed, OpenElevations
  <2> QED
    BY <2>4, <2>5, <2>6
<1>10. ResetEndsSessions'
  BY <1>1, <1>6 DEF SessInv, ResetEndsSessions, OpenSessions
<1> QED
  BY <1>7, <1>8, <1>9, <1>10 DEF SessInv

LEMMA SessStep == ASSUME SessInv, [SessNext]_sessVars PROVE SessInv'
<1>1. CASE UNCHANGED sessVars
  <2>1. UNCHANGED <<sessions, elevations, resets, password, active, closed, sessClosing, callers>>
    BY <1>1 DEF sessVars
  <2>2. RowsMove
    BY <2>1, RowsStay
  <2> QED
    BY <2>1, <2>2, MoveKeeps DEF SessInv, SessTypeOK
<1>2. ASSUME NEW c \in Caller, SessRequest(c) PROVE SessInv'
  BY <1>2, SignInInv, CreateSessionInv, EnsureHostedInv, ResolveInv, InvalidateInv, RotateInv,
     SwitchInv, RevokesInv, ElevateInv DEF SessRequest
<1>3. CASE SessDeactivation
  <2>1. "ACCOUNT" \in Subject
    BY DEF Subject
  <2> QED
    BY <1>3, <2>1, ClosingInv, CommitInv DEF SessDeactivation
<1> QED
  BY <1>1, <1>2, <1>3, LogoutInv, ResetInv DEF SessNext

-----------------------------------------------------------------------------
(* Sessions, elevations, resets, deactivations and requests keep their types. *)
THEOREM SessTyped == SessSpec => []SessTypeOK
<1>1. SessInv => SessTypeOK
  BY DEF SessInv
<1> QED
  BY <1>1, SessStart, SessStep, PTL DEF SessSpec

(* A support elevation ends with its session, of which it is the only one.   *)
THEOREM ElevationsHaveSessions == SessSpec => []ElevationsEndWithSession
<1>1. ASSUME SessInv PROVE ElevationsEndWithSession
  <2>1. \A e \in OpenElevations : Backed(e)
    BY <1>1 DEF SessInv, ElevationPlaced
  <2>2. ASSUME NEW s \in Session PROVE Cardinality(ElevationsOf(s)) <= 1
    <3>1. CASE ElevationsOf(s) = {}
      BY <3>1, FS_EmptySet
    <3>2. CASE ElevationsOf(s) # {}
      <4>1. PICK e : e \in ElevationsOf(s)
        BY <3>2
      <4>2. ElevationsOf(s) = {e}
        BY <1>1, <4>1 DEF SessInv, ElevationPlaced, ElevationsOf
      <4> QED
        BY <4>2, FS_Singleton
    <3> QED
      BY <3>1, <3>2
  <2> QED
    BY <2>1, <2>2 DEF ElevationsEndWithSession
<1> QED
  BY <1>1, SessStart, SessStep, PTL DEF SessSpec

(* No CRM session outlives a password reset, but for one whose login was     *)
(* under way.                                                                *)
THEOREM ResetsEndSessions == SessSpec => []ResetEndsSessions
<1>1. SessInv => ResetEndsSessions
  BY DEF SessInv
<1> QED
  BY <1>1, SessStart, SessStep, PTL DEF SessSpec

-----------------------------------------------------------------------------
(* Signing in, for every set of handlers, challenges, authenticators, codes  *)
(* and time steps.                                                           *)
(* A factor that is spent lets nobody in again.                              *)
Spent(f) ==
    IF f \in RecoveryCode THEN recovery[f] = "USED"
    ELSE \E a \in With("ACTIVE") : authenticators[a].last >= f

(* What a handler has found still holds where it rests on a lock, and the    *)
(* challenge and the factor of a login that is granted are its own.          *)
Using(h) ==
    Doing(h, "USING") =>
        /\ Live(handler[h].challenge)
        /\ \A g \in Handler : Doing(g, "USING") /\ handler[g].challenge = handler[h].challenge => g = h
Granting(h) ==
    Doing(h, "GRANTING") =>
        /\ challenges[handler[h].challenge] # NoChallenge /\ challenges[handler[h].challenge].consumed
        /\ Spent(handler[h].factor)
        /\ granted[handler[h].challenge] = 0 /\ granted[handler[h].factor] = 0
        /\ \A g \in Handler : Doing(g, "GRANTING") =>
              g = h \/ ( /\ handler[g].challenge # handler[h].challenge
                         /\ handler[g].factor # handler[h].factor )
Checked(h) ==
    /\ Doing(h, "ENROLLING") => challenges[handler[h].challenge] # NoChallenge
    /\ Doing(h, "CONFIRMING") => handler[h].factor \in TimeStep
    /\ Doing(h, "VERIFYING") \/ Doing(h, "USING") =>
         challenges[handler[h].challenge].kind = "VERIFICATION"

GrantsPlaced ==
    /\ \A c \in Challenge : granted[c] \in {0, 1} /\
          (granted[c] = 1 => challenges[c] # NoChallenge /\ challenges[c].consumed)
    /\ \A f \in Factor : granted[f] \in {0, 1} /\ (granted[f] = 1 => Spent(f))

OneCurrent == \A a, b \in Current : a = b
CodesCounted ==
    IF With("ACTIVE") = {} THEN Unused = {} ELSE Cardinality(Unused) = CodesIssued

LoginInv ==
    /\ LoginTypeOK
    /\ OneCurrent /\ CodesCounted /\ GrantsPlaced
    /\ \A h \in Handler : Checked(h) /\ Using(h) /\ Granting(h)

LEMMA StepNumbers == \A x \in TimeStep \cup {0} : x \in Nat
<1>1. TimeStep \subseteq Nat \ {0}
  BY LoginAssumption
<1> QED
  BY <1>1

LEMMA LoginStart == ASSUME LoginInit PROVE LoginInv
<1>1. /\ challenges = [c \in Challenge |-> NoChallenge] /\ handler = [h \in Handler |-> Idle]
      /\ granted = [x \in Challenge \cup Factor |-> 0]
  BY DEF LoginInit
<1>2. \A h \in Handler : handler[h].step = "IDLE"
  BY <1>1 DEF Idle
<1>3. PICK A \in SUBSET Authenticator, R \in SUBSET RecoveryCode :
        /\ Enrolled(A, R) /\ \A a, b \in A : a = b
        /\ IF A = {} THEN R = {} ELSE Cardinality(R) = CodesIssued
  <2>1. \/ Enrolled({}, {})
        \/ \E a \in Authenticator, R \in SUBSET RecoveryCode :
              Cardinality(R) = CodesIssued /\ Enrolled({a}, R)
    BY DEF LoginInit
  <2>2. CASE Enrolled({}, {})
    BY <2>2
  <2>3. ASSUME NEW a \in Authenticator, NEW R \in SUBSET RecoveryCode,
               Cardinality(R) = CodesIssued, Enrolled({a}, R)
        PROVE  \E A \in SUBSET Authenticator : A # {} /\ Enrolled(A, R) /\ \A b, d \in A : b = d
    BY <2>3
  <2> QED
    BY <2>1, <2>2, <2>3
<1>4. /\ authenticators = [a \in Authenticator |->
              [status |-> IF a \in A THEN "ACTIVE" ELSE "NONE", last |-> 0]]
      /\ recovery = [r \in RecoveryCode |-> IF r \in R THEN "UNUSED" ELSE "NONE"]
  BY <1>3 DEF Enrolled
<1>5. With("ACTIVE") = A /\ With("PENDING") = {} /\ Unused = R
  BY <1>4 DEF With, Unused
<1>6. LoginTypeOK
  <2>1. handler \in [Handler -> HandlerTask] /\ challenges \in [Challenge -> ChallengeRow \cup {NoChallenge}]
    BY <1>1 DEF HandlerTask, Idle
  <2>2. granted \in [Challenge \cup Factor -> Nat]
    BY <1>1
  <2>3. authenticators \in [Authenticator -> [status: {"NONE", "PENDING", "ACTIVE", "DISABLED"},
                                             last: TimeStep \cup {0}]]
    BY <1>4
  <2> QED
    BY <1>4, <2>1, <2>2, <2>3 DEF LoginInit, LoginTypeOK
<1>7. \A h \in Handler : Checked(h) /\ Using(h) /\ Granting(h)
  BY <1>2 DEF Checked, Using, Granting, Doing
<1> QED
  BY <1>1, <1>3, <1>5, <1>6, <1>7 DEF LoginInv, OneCurrent, CodesCounted, GrantsPlaced, Current, Factor

-----------------------------------------------------------------------------
(* What every step keeps: a challenge and its kind, that it is consumed, a   *)
(* code that was used, and an active authenticator with its last time step;  *)
(* and a challenge whose row is held stays live.                             *)
FactorsKeep ==
    /\ \A c \in Challenge : challenges[c] # NoChallenge =>
         /\ challenges'[c] # NoChallenge /\ challenges'[c].kind = challenges[c].kind
         /\ challenges[c].consumed => challenges'[c].consumed
    /\ \A r \in RecoveryCode : recovery[r] = "USED" => recovery'[r] = "USED"
    /\ \A a \in With("ACTIVE") :
         a \in With("ACTIVE")' /\ authenticators'[a].last >= authenticators[a].last

LEMMA SpentStays ==
    ASSUME LoginInv, LoginTypeOK', FactorsKeep, NEW f \in Factor, Spent(f)
    PROVE  Spent(f)'
<1>1. CASE f \in RecoveryCode
  BY <1>1 DEF Spent, FactorsKeep
<1>2. CASE f \notin RecoveryCode
  <2>1. f \in Nat
    BY <1>2, LoginAssumption DEF Factor
  <2>2. PICK a \in With("ACTIVE") : authenticators[a].last >= f
    BY <1>2 DEF Spent
  <2>3. a \in Authenticator /\ authenticators[a].last \in Nat /\ authenticators'[a].last \in Nat
    <3>1. a \in Authenticator
      BY DEF With
    <3>2. authenticators[a].last \in TimeStep \cup {0} /\ authenticators'[a].last \in TimeStep \cup {0}
      BY <3>1 DEF LoginInv, LoginTypeOK
    <3> QED
      BY <3>1, <3>2, StepNumbers
  <2>4. a \in With("ACTIVE")' /\ authenticators'[a].last >= f
    BY <2>1, <2>2, <2>3 DEF FactorsKeep
  <2> QED
    BY <1>2, <2>4 DEF Spent
<1> QED
  BY <1>1, <1>2

LEMMA TaskTyped ==
    ASSUME LoginInv, NEW h \in Handler, handler[h].step \in {"CONFIRMING", "VERIFYING", "FAILED", "GRANTING", "USING"}
    PROVE  /\ handler[h].challenge \in Challenge /\ handler[h].authenticator \in Authenticator
           /\ handler[h].factor \in Factor
BY DEF LoginInv, LoginTypeOK, HandlerTask, Factor

LEMMA EnrollingTyped ==
    ASSUME LoginInv, NEW h \in Handler, Doing(h, "ENROLLING")
    PROVE  /\ handler[h].challenge \in Challenge
           /\ handler[h].seen \in Authenticator \cup {Nobody}
BY DEF LoginInv, LoginTypeOK, HandlerTask, Doing

(* A handler that goes on without being granted anything.                    *)
LEMMA TaskMoves ==
    ASSUME LoginInv, LoginTypeOK', FactorsKeep, OneCurrent', CodesCounted', UNCHANGED granted,
           NEW h \in Handler, \A g \in Handler \ {h} : handler'[g] = handler[g],
           \A g \in Handler \ {h} : Doing(g, "USING") => Live(handler[g].challenge)',
           handler'[h] = handler[h] \/ handler'[h].step \notin {"USING", "GRANTING"},
           handler'[h] = handler[h] /\ Doing(h, "USING") => Live(handler[h].challenge)',
           Checked(h)'
    PROVE  LoginInv'
<1>1. \A g \in Handler : Checked(g) /\ Using(g) /\ Granting(g)
  BY DEF LoginInv
<1>2. ASSUME NEW g \in Handler, handler'[g] = handler[g] PROVE Checked(g)' /\ Using(g)' /\ Granting(g)'
  <2>1. Checked(g)'
    <3>1. CASE g = h
      BY <3>1
    <3>2. CASE g # h
      <4>1. ASSUME Doing(g, "VERIFYING") \/ Doing(g, "USING")
            PROVE  challenges'[handler[g].challenge].kind = "VERIFICATION"
        <5>1. handler[g].challenge \in Challenge
          BY <4>1, TaskTyped DEF Doing
        <5>2. challenges[handler[g].challenge].kind = "VERIFICATION"
          BY <1>1, <4>1 DEF Checked
        <5> QED
          BY <5>1, <5>2 DEF FactorsKeep, NoChallenge
      <4>2. ASSUME Doing(g, "ENROLLING") PROVE challenges'[handler[g].challenge] # NoChallenge
        BY <1>1, <4>2, EnrollingTyped DEF Checked, FactorsKeep
      <4> QED
        BY <1>1, <1>2, <4>1, <4>2 DEF Checked, Doing
    <3> QED
      BY <3>1, <3>2
  <2>2. Using(g)'
    <3> SUFFICES ASSUME Doing(g, "USING")
                 PROVE  /\ Live(handler[g].challenge)'
                        /\ \A v \in Handler : handler'[v].step = "USING" /\ handler'[v].challenge = handler[g].challenge => v = g
      BY <1>2 DEF Using, Doing
    <3>1. Live(handler[g].challenge)'
      BY <1>2
    <3>2. ASSUME NEW v \in Handler, handler'[v].step = "USING", handler'[v].challenge = handler[g].challenge
          PROVE  v = g
      <4>1. handler'[v] = handler[v]
        BY <3>2
      <4> QED
        BY <1>1, <3>2, <4>1 DEF Using, Doing
    <3> QED
      BY <3>1, <3>2
  <2>3. Granting(g)'
    <3> SUFFICES ASSUME Doing(g, "GRANTING") PROVE Granting(g)'
      BY <1>2 DEF Granting, Doing
    <3>1. handler[g].challenge \in Challenge /\ handler[g].factor \in Factor
      BY TaskTyped DEF Doing
    <3>2. PICK f \in Factor : f = handler[g].factor
      BY <3>1
    <3>3. Spent(f)'
      BY <1>1, <3>2, SpentStays DEF Granting
    <3>4. \A v \in Handler : handler'[v].step = "GRANTING" => handler'[v] = handler[v]
      OBVIOUS
    <3> QED
      BY <1>1, <1>2, <3>1, <3>2, <3>3, <3>4 DEF Granting, Doing, FactorsKeep
  <2> QED
    BY <2>1, <2>2, <2>3
<1>3. ASSUME handler'[h].step \notin {"USING", "GRANTING"} PROVE Using(h)' /\ Granting(h)'
  BY <1>3 DEF Using, Granting, Doing
<1>4. GrantsPlaced'
  BY SpentStays DEF LoginInv, GrantsPlaced, FactorsKeep
<1> QED
  BY <1>2, <1>3, <1>4 DEF LoginInv

(* One that was let in, with a challenge it consumed and a factor it spent.  *)
LEMMA TaskGranted ==
    ASSUME LoginInv, LoginTypeOK', FactorsKeep, OneCurrent', CodesCounted', UNCHANGED granted,
           NEW h \in Handler, \A g \in Handler \ {h} : handler'[g] = handler[g],
           \A g \in Handler \ {h} : Doing(g, "USING") => Live(handler[g].challenge)',
           NEW c \in Challenge, NEW f \in Factor,
           handler'[h].step = "GRANTING", handler'[h].challenge = c, handler'[h].factor = f,
           challenges[c] # NoChallenge, ~challenges[c].consumed, challenges'[c].consumed,
           ~Spent(f), Spent(f)'
    PROVE  LoginInv'
<1>1. (\A g \in Handler : Checked(g) /\ Using(g) /\ Granting(g)) /\ GrantsPlaced
  BY DEF LoginInv
<1>2. granted[c] = 0 /\ granted[f] = 0
  BY <1>1 DEF GrantsPlaced
<1>3. \A g \in Handler : Doing(g, "GRANTING") => handler[g].challenge # c /\ handler[g].factor # f
  BY <1>1 DEF Granting
<1>4. Granting(h)'
  BY <1>2, <1>3 DEF Granting, Doing, FactorsKeep
<1>5. Checked(h)' /\ Using(h)'
  BY DEF Checked, Using, Doing
<1>6. ASSUME NEW g \in Handler \ {h} PROVE Checked(g)' /\ Using(g)' /\ Granting(g)'
  <2>0. handler'[g] = handler[g]
    OBVIOUS
  <2>1. Checked(g)'
    <3>1. ASSUME Doing(g, "VERIFYING") \/ Doing(g, "USING")
          PROVE  challenges'[handler[g].challenge].kind = "VERIFICATION"
      <4>1. handler[g].challenge \in Challenge
        BY <3>1, TaskTyped DEF Doing
      <4>2. challenges[handler[g].challenge].kind = "VERIFICATION"
        BY <1>1, <3>1 DEF Checked
      <4> QED
        BY <4>1, <4>2 DEF FactorsKeep, NoChallenge
    <3>2. ASSUME Doing(g, "ENROLLING") PROVE challenges'[handler[g].challenge] # NoChallenge
      BY <1>1, <3>2, EnrollingTyped DEF Checked, FactorsKeep
    <3> QED
      BY <1>1, <2>0, <3>1, <3>2 DEF Checked, Doing
  <2>2. Using(g)'
    <3> SUFFICES ASSUME Doing(g, "USING")
                 PROVE  /\ Live(handler[g].challenge)'
                        /\ \A v \in Handler : handler'[v].step = "USING" /\ handler'[v].challenge = handler[g].challenge => v = g
      BY <2>0 DEF Using, Doing
    <3>1. Live(handler[g].challenge)'
      BY <2>0
    <3>2. ASSUME NEW v \in Handler, handler'[v].step = "USING", handler'[v].challenge = handler[g].challenge
          PROVE  v = g
      <4>1. handler'[v] = handler[v]
        BY <3>2
      <4> QED
        BY <1>1, <3>2, <4>1 DEF Using, Doing
    <3> QED
      BY <3>1, <3>2
  <2>3. Granting(g)'
    <3> SUFFICES ASSUME Doing(g, "GRANTING") PROVE Granting(g)'
      BY <2>0 DEF Granting, Doing
    <3>1. handler[g].challenge \in Challenge /\ handler[g].factor \in Factor
      BY TaskTyped DEF Doing
    <3>2. PICK e \in Factor : e = handler[g].factor
      BY <3>1
    <3>3. Spent(e)'
      BY <1>1, <3>2, SpentStays DEF Granting
    <3> QED
      BY <1>1, <1>3, <2>0, <3>1, <3>2, <3>3 DEF Granting, Doing, FactorsKeep
  <2> QED
    BY <2>1, <2>2, <2>3
<1>7. GrantsPlaced'
  BY SpentStays DEF LoginInv, GrantsPlaced, FactorsKeep
<1> QED
  BY <1>4, <1>5, <1>6, <1>7 DEF LoginInv

-----------------------------------------------------------------------------
(* Nothing is enrolled, consumed or used up.                                 *)
LEMMA FactorsRest ==
    ASSUME LoginInv, LoginTypeOK', UNCHANGED factorRows
    PROVE  /\ FactorsKeep /\ OneCurrent' /\ CodesCounted'
           /\ \A c \in Challenge : Live(c)' = Live(c)
<1>1. UNCHANGED <<challenges, authenticators, recovery>>
  BY DEF factorRows
<1>2. With("ACTIVE")' = With("ACTIVE") /\ Current' = Current /\ Unused' = Unused
  BY <1>1 DEF With, Current, Unused
<1>3. OneCurrent' /\ CodesCounted'
  BY <1>2 DEF LoginInv, OneCurrent, CodesCounted
<1>4. FactorsKeep
  <2>1. \A a \in With("ACTIVE") : authenticators[a].last \in TimeStep \cup {0}
    BY DEF With, LoginInv, LoginTypeOK
  <2>2. \A a \in With("ACTIVE") : authenticators[a].last \in Nat
    BY <2>1, StepNumbers
  <2> QED
    BY <1>1, <1>2, <2>2 DEF FactorsKeep
<1> QED
  BY <1>1, <1>3, <1>4 DEF Live

LEMMA HeldLive ==
    ASSUME LoginInv, NEW g \in Handler, Doing(g, "USING")
    PROVE  handler[g].challenge \in Challenge /\ Live(handler[g].challenge)
BY TaskTyped DEF LoginInv, Using, Doing

LEMMA RestStep ==
    ASSUME LoginInv, LoginTypeOK', UNCHANGED factorRows, UNCHANGED granted,
           NEW h \in Handler, \A g \in Handler \ {h} : handler'[g] = handler[g],
           handler'[h] = handler[h] \/ handler'[h].step \notin {"USING", "GRANTING"},
           Checked(h)'
    PROVE  LoginInv' /\ FactorsKeep
<1>1. /\ FactorsKeep /\ OneCurrent' /\ CodesCounted'
      /\ \A c \in Challenge : Live(c)' = Live(c)
  BY FactorsRest
<1>2. ASSUME NEW g \in Handler, Doing(g, "USING"), handler'[g] = handler[g]
      PROVE  Live(handler[g].challenge)'
  <2>1. PICK c \in Challenge : c = handler[g].challenge /\ Live(c)
    BY <1>2, HeldLive
  <2>2. Live(c)'
    BY <1>1, <2>1
  <2> QED
    BY <1>2, <2>1, <2>2 DEF Live
<1> QED
  BY <1>1, <1>2, TaskMoves

LEMMA UnchangedStep ==
    ASSUME LoginInv, LoginTypeOK', UNCHANGED factorRows, UNCHANGED granted, UNCHANGED handler
    PROVE  LoginInv' /\ FactorsKeep
<1>1. CASE Handler = {}
  <2>1. FactorsKeep /\ OneCurrent' /\ CodesCounted'
    BY FactorsRest
  <2>2. GrantsPlaced'
    BY <2>1, SpentStays DEF LoginInv, GrantsPlaced, FactorsKeep
  <2> QED
    BY <1>1, <2>1, <2>2 DEF LoginInv
<1>2. ASSUME NEW h \in Handler PROVE LoginInv' /\ FactorsKeep
  <2>1. Checked(h)'
    BY DEF LoginInv, Checked, Doing, factorRows
  <2> QED
    BY <2>1, RestStep
<1> QED
  BY <1>1, <1>2

(* Passwords and Google, and what is read before a code is checked.          *)
LEMMA IdentityStep ==
    ASSUME LoginInv, NEW h \in Handler,
           \/ PasswordLogin(h) \/ GoogleRefuses(h) \/ ResolveGoogleLogin(h) \/ LinkGoogleIdentity(h)
           \/ UnlinkGoogleIdentity(h) \/ Leave(h)
           \/ \E g \in GoogleChallenge : ConsumeGoogleChallenge(h, g)
    PROVE  LoginInv' /\ FactorsKeep
<1>1. LoginTypeOK
  BY DEF LoginInv
<1>2. PICK task \in HandlerTask : /\ task.step \in {"IDLE", "SIGNED_IN", "GOOGLE", "LOGIN"}
                                 /\ handler' = [handler EXCEPT ![h] = task]
  <2>1. \A a \in Authenticator \cup {Nobody} : [step |-> "LOGIN", seen |-> a] \in HandlerTask
    BY DEF HandlerTask
  <2>2. Idle \in HandlerTask /\ [step |-> "SIGNED_IN"] \in HandlerTask
    BY DEF HandlerTask, Idle
  <2>3. \A p \in {"LOGIN", "LINK"} : [step |-> "GOOGLE", purpose |-> p] \in HandlerTask
    BY DEF HandlerTask
  <2>4. CASE Proceed(h)
    <3>1. PICK seen \in Authenticator \cup {Nobody} : Now(h, [step |-> "LOGIN", seen |-> seen])
      BY <2>4 DEF Proceed, With
    <3> QED
      BY <2>1, <3>1 DEF Now
  <2>5. CASE Now(h, Idle) \/ Now(h, [step |-> "SIGNED_IN"])
    BY <2>2, <2>5 DEF Now, Idle
  <2>6. CASE \E p \in {"LOGIN", "LINK"} : Now(h, [step |-> "GOOGLE", purpose |-> p])
    BY <2>3, <2>6 DEF Now
  <2> QED
    BY <2>4, <2>5, <2>6 DEF PasswordLogin, GoogleRefuses, ResolveGoogleLogin, LinkGoogleIdentity,
         UnlinkGoogleIdentity, Leave, ConsumeGoogleChallenge
<1>3. UNCHANGED <<factorRows, granted>>
  BY DEF PasswordLogin, GoogleRefuses, ResolveGoogleLogin, LinkGoogleIdentity,
         UnlinkGoogleIdentity, Leave, ConsumeGoogleChallenge
<1>4. /\ account' \in {"INVITED", "ACTIVE", "SUSPENDED"} /\ methods' \subseteq {"PASSWORD", "GOOGLE"}
      /\ google' \in [GoogleChallenge -> {"NONE", "LOGIN", "LINK", "CONSUMED"}]
  BY <1>1 DEF LoginTypeOK, PasswordLogin, GoogleRefuses, ResolveGoogleLogin, Resolved, Linked, LinkGoogleIdentity,
         UnlinkGoogleIdentity, Leave, ConsumeGoogleChallenge, identityRows
<1>5. LoginTypeOK'
  BY <1>1, <1>2, <1>3, <1>4 DEF LoginTypeOK, factorRows
<1>6. handler'[h] = task /\ \A g \in Handler \ {h} : handler'[g] = handler[g]
  BY <1>1, <1>2 DEF LoginTypeOK
<1>7. Checked(h)'
  BY <1>2, <1>6 DEF Checked, Doing
<1> QED
  BY <1>2, <1>3, <1>5, <1>6, <1>7, RestStep

LEMMA OthersStep ==
    ASSUME LoginInv,
           \/ UNCHANGED loginVars \/ Suspend
           \/ \E g \in GoogleChallenge, purpose \in {"LOGIN", "LINK"} : IssueGoogleChallenge(g, purpose)
    PROVE  LoginInv' /\ FactorsKeep
<1>1. UNCHANGED <<challenges, authenticators, recovery, handler, granted>>
  BY DEF Suspend, IssueGoogleChallenge, loginVars, factorRows
<1>2. LoginTypeOK'
  BY <1>1 DEF LoginInv, LoginTypeOK, Suspend, IssueGoogleChallenge, loginVars
<1> QED
  BY <1>1, <1>2, UnchangedStep DEF factorRows

LEMMA ReadsStep ==
    ASSUME LoginInv, NEW h \in Handler, NEW c \in Challenge,
           StartEnrollment(h, c) \/ \E f \in Factor, ok \in BOOLEAN : Check(h, c, f, ok)
    PROVE  LoginInv' /\ FactorsKeep
<1>1. LoginTypeOK /\ Live(c) /\ UNCHANGED <<identityRows, factorRows, granted>>
  BY DEF LoginInv, StartEnrollment, Check
<1>2. challenges[c] # NoChallenge /\ UNCHANGED challenges
  BY <1>1 DEF Live, factorRows
<1>3. PICK task \in HandlerTask :
        /\ handler' = [handler EXCEPT ![h] = task]
        /\ task.step \in {"ENROLLING", "FAILED", "CONFIRMING", "VERIFYING"} /\ task.challenge = c
        /\ task.step = "CONFIRMING" => task.factor \in TimeStep
        /\ task.step = "VERIFYING" => challenges[c].kind = "VERIFICATION"
  <2>1. CASE StartEnrollment(h, c)
    <3>1. PICK seen \in Authenticator \cup {Nobody} :
            Now(h, [step |-> "ENROLLING", challenge |-> c, seen |-> seen])
      BY <2>1 DEF StartEnrollment, Current, With
    <3>2. [step |-> "ENROLLING", challenge |-> c, seen |-> seen] \in HandlerTask
      BY DEF HandlerTask
    <3> QED
      BY <3>1, <3>2 DEF Now
  <2>2. ASSUME NEW f \in Factor, NEW ok \in BOOLEAN, Check(h, c, f, ok)
        PROVE  \E task \in HandlerTask :
                 /\ handler' = [handler EXCEPT ![h] = task]
                 /\ task.step \in {"FAILED", "CONFIRMING", "VERIFYING"} /\ task.challenge = c
                 /\ task.step = "CONFIRMING" => task.factor \in TimeStep
                 /\ task.step = "VERIFYING" => challenges[c].kind = "VERIFICATION"
    <3>1. challenges[c] \in ChallengeRow
      BY <1>1, <1>2 DEF LoginTypeOK
    <3>2. challenges[c].kind \in {"ENROLLMENT", "VERIFICATION"}
          /\ challenges[c].authenticator \in Authenticator
      BY <2>2, <3>1 DEF ChallengeRow, Check
    <3>3. PICK step \in {"FAILED", "CONFIRMING", "VERIFYING"} :
            /\ Now(h, [step |-> step, challenge |-> c, authenticator |-> challenges[c].authenticator, factor |-> f])
            /\ step = "CONFIRMING" => challenges[c].kind = "ENROLLMENT"
            /\ step = "VERIFYING" => challenges[c].kind # "ENROLLMENT"
      BY <2>2 DEF Check
    <3>4. [step |-> step, challenge |-> c, authenticator |-> challenges[c].authenticator, factor |-> f] \in HandlerTask
      BY <3>2 DEF HandlerTask, Factor
    <3>5. step = "CONFIRMING" => f \in TimeStep
      BY <2>2, <3>3 DEF Check, Factor
    <3> QED
      BY <3>2, <3>3, <3>4, <3>5 DEF Now
  <2> QED
    BY <2>1, <2>2
<1>4. LoginTypeOK'
  BY <1>1, <1>3 DEF LoginTypeOK, identityRows, factorRows
<1>5. handler'[h] = task /\ \A g \in Handler \ {h} : handler'[g] = handler[g]
  BY <1>1, <1>3 DEF LoginTypeOK
<1>6. Checked(h)'
  BY <1>2, <1>3, <1>5 DEF Checked, Doing
<1> QED
  BY <1>1, <1>3, <1>4, <1>5, <1>6, RestStep
-----------------------------------------------------------------------------
(* Challenges and enrollments.                                               *)
LEMMA LiveHeld ==
    ASSUME LoginInv, NEW S \in SUBSET Challenge,
           \A c \in Challenge \ S : Live(c) => Live(c)',
           NEW g \in Handler, Doing(g, "USING"), handler'[g] = handler[g],
           handler[g].challenge \notin S
    PROVE  Live(handler[g].challenge)'
<1>1. PICK c \in Challenge : c = handler[g].challenge /\ Live(c)
  BY HeldLive
<1>2. Live(c)'
  BY <1>1
<1> QED
  BY <1>1, <1>2 DEF Live

LEMMA TaskPut ==
    ASSUME LoginInv, NEW h \in Handler, NEW task \in HandlerTask, Now(h, task)
    PROVE  /\ handler' \in [Handler -> HandlerTask] /\ handler'[h] = task
           /\ \A g \in Handler \ {h} : handler'[g] = handler[g]
BY DEF LoginInv, LoginTypeOK, Now

LEMMA FactorsStill ==
    ASSUME LoginInv, UNCHANGED <<authenticators, recovery>>
    PROVE  /\ OneCurrent' /\ CodesCounted'
           /\ \A a \in With("ACTIVE") :
                a \in With("ACTIVE")' /\ authenticators'[a].last >= authenticators[a].last
           /\ \A r \in RecoveryCode : recovery[r] = "USED" => recovery'[r] = "USED"
<1>1. \A a \in With("ACTIVE") : authenticators[a].last \in TimeStep \cup {0}
  BY DEF With, LoginInv, LoginTypeOK
<1> QED
  BY <1>1, StepNumbers DEF LoginInv, OneCurrent, CodesCounted, Current, With, Unused

LEMMA TaskRests ==
    ASSUME LoginInv, LoginTypeOK', FactorsKeep, OneCurrent', CodesCounted', UNCHANGED granted,
           NEW h \in Handler, \A g \in Handler \ {h} : handler'[g] = handler[g],
           handler'[h].step \notin {"USING", "GRANTING"}, Checked(h)',
           \A g \in Handler \ {h} : Doing(g, "USING") => Live(handler[g].challenge)'
    PROVE  LoginInv'
<1>1. handler'[h] = handler[h] => ~Doing(h, "USING")
  BY DEF Doing
<1> QED
  BY <1>1, TaskMoves

LEMMA CreateStep ==
    ASSUME LoginInv, NEW h \in Handler, NEW c \in Challenge, CreateMfaLoginChallenge(h, c)
    PROVE  LoginInv' /\ FactorsKeep
<1>1. LoginTypeOK /\ UNCHANGED <<identityRows, authenticators, recovery, granted>>
  BY DEF LoginInv, CreateMfaLoginChallenge
<1>2. PICK row : /\ challenges' = [challenges EXCEPT ![c] = row]
                 /\ row = [kind |-> IF handler[h].seen = Nobody THEN "ENROLLMENT" ELSE "VERIFICATION",
                           consumed |-> FALSE, failed |-> 0, authenticator |-> handler[h].seen]
  BY DEF CreateMfaLoginChallenge
<1>3. row \in ChallengeRow
  <2>1. handler[h].seen \in Authenticator \cup {Nobody}
    BY <1>1 DEF LoginTypeOK, HandlerTask, CreateMfaLoginChallenge, Doing
  <2>2. 0 \in 0..Attempts
    BY LoginAssumption
  <2> QED
    BY <1>2, <2>1, <2>2 DEF ChallengeRow
<1>4. Idle \in HandlerTask
  BY DEF HandlerTask, Idle
<1>5. /\ handler' \in [Handler -> HandlerTask] /\ handler'[h] = Idle
      /\ \A g \in Handler \ {h} : handler'[g] = handler[g]
  BY <1>4, TaskPut DEF CreateMfaLoginChallenge
<1>6. LoginTypeOK'
  BY <1>1, <1>2, <1>3, <1>5 DEF LoginTypeOK, identityRows
<1>7. /\ challenges[c] = NoChallenge
      /\ \A d \in Challenge \ {c} : challenges'[d] = challenges[d]
  BY <1>1, <1>2 DEF LoginTypeOK, CreateMfaLoginChallenge
<1>8. FactorsKeep
  BY <1>1, <1>7, FactorsStill DEF FactorsKeep
<1>9. /\ {} \in SUBSET Challenge
      /\ \A d \in Challenge \ {} : Live(d) => Live(d)'
  BY <1>7 DEF Live
<1>10. ASSUME NEW g \in Handler \ {h}, Doing(g, "USING") PROVE Live(handler[g].challenge)'
  <2>1. handler'[g] = handler[g]
    BY <1>5
  <2> QED
    BY <1>9, <1>10, <2>1, LiveHeld
<1>11. Checked(h)' /\ handler'[h].step = "IDLE"
  BY <1>5 DEF Checked, Doing, Idle
<1> QED
  <2>1. OneCurrent' /\ CodesCounted' /\ UNCHANGED granted
    BY <1>1, FactorsStill
  <2>2. \A g \in Handler \ {h} : Doing(g, "USING") => Live(handler[g].challenge)'
    BY <1>10
  <2>3. handler'[h].step \notin {"USING", "GRANTING"}
    BY <1>11
  <2> QED
    BY <1>5, <1>6, <1>8, <1>11, <2>1, <2>2, <2>3, TaskRests

LEMMA EnrollStep ==
    ASSUME LoginInv, NEW h \in Handler, NEW a \in Authenticator, EnrollPending(h, a)
    PROVE  LoginInv' /\ FactorsKeep
<1> DEFINE c == handler[h].challenge
           seen == handler[h].seen
<1>1. /\ LoginTypeOK /\ Doing(h, "ENROLLING") /\ authenticators[a].status = "NONE"
      /\ UNCHANGED <<identityRows, recovery, granted>> /\ Now(h, Idle)
  BY DEF LoginInv, EnrollPending
<1>2. c \in Challenge /\ seen \in Authenticator \cup {Nobody} /\ challenges[c] # NoChallenge
  BY <1>1, EnrollingTyped DEF LoginInv, Checked
<1>3. Idle \in HandlerTask
  BY DEF HandlerTask, Idle
<1>4. /\ handler' \in [Handler -> HandlerTask] /\ handler'[h] = Idle
      /\ \A g \in Handler \ {h} : handler'[g] = handler[g]
  BY <1>1, <1>3, TaskPut
<1>5. Checked(h)' /\ handler'[h].step = "IDLE"
  BY <1>4 DEF Checked, Doing, Idle
<1>6. CASE ~Replaceable(c, seen)
  <2>1. UNCHANGED factorRows
    BY <1>1, <1>6 DEF EnrollPending, factorRows
  <2>2. LoginTypeOK'
    BY <1>1, <1>4, <2>1 DEF LoginTypeOK, identityRows, factorRows
  <2> QED
    BY <1>1, <1>4, <1>5, <2>1, <2>2, RestStep
<1>7. CASE Replaceable(c, seen)
  <2>1. /\ authenticators' = [b \in Authenticator |->
                   IF b = a THEN [status |-> "PENDING", last |-> 0]
                   ELSE IF b = seen THEN [authenticators[b] EXCEPT !.status = "DISABLED"]
                   ELSE authenticators[b]]
        /\ challenges' = [d \in Challenge |->
                   IF d = c THEN [challenges[d] EXCEPT !.authenticator = a]
                   ELSE IF seen # Nobody /\ challenges[d].kind = "ENROLLMENT"
                   THEN [challenges[d] EXCEPT !.consumed = TRUE] ELSE challenges[d]]
    BY <1>7 DEF EnrollPending
  <2>2. Current = {seen} \ {Nobody} /\ (seen # Nobody => authenticators[seen].status = "PENDING")
    BY <1>7 DEF Replaceable
  <2>3. With("ACTIVE") = {} /\ \A b \in Authenticator : b # seen => authenticators[b].status # "PENDING"
    BY <2>2 DEF Current, With
  <2>4. ASSUME NEW b \in Authenticator
        PROVE  /\ authenticators'[b] \in [status: {"NONE", "PENDING", "ACTIVE", "DISABLED"}, last: TimeStep \cup {0}]
               /\ authenticators'[b].status # "ACTIVE"
               /\ authenticators'[b].status = "PENDING" => b = a
    <3>1. /\ authenticators[b] \in [status: {"NONE", "PENDING", "ACTIVE", "DISABLED"}, last: TimeStep \cup {0}]
          /\ authenticators[b].status # "ACTIVE"
      BY <1>1, <2>3 DEF LoginTypeOK, With
    <3>2. PICK r : r = [authenticators[b] EXCEPT !.status = "DISABLED"]
      OBVIOUS
    <3>3. r \in [status: {"NONE", "PENDING", "ACTIVE", "DISABLED"}, last: TimeStep \cup {0}] /\ r.status = "DISABLED"
      BY <3>1, <3>2
    <3> QED
      BY <2>1, <2>3, <3>1, <3>2, <3>3
  <2>5. authenticators' \in [Authenticator -> [status: {"NONE", "PENDING", "ACTIVE", "DISABLED"}, last: TimeStep \cup {0}]]
    BY <2>1, <2>4
  <2>6. ASSUME NEW d \in Challenge
        PROVE  /\ challenges'[d] \in ChallengeRow \cup {NoChallenge}
               /\ challenges[d] = NoChallenge => challenges'[d] = NoChallenge
               /\ challenges[d] # NoChallenge =>
                     /\ challenges'[d] \in ChallengeRow
                     /\ challenges'[d].kind = challenges[d].kind
                     /\ challenges'[d].failed = challenges[d].failed
                     /\ challenges[d].consumed => challenges'[d].consumed
                     /\ challenges[d].kind # "ENROLLMENT" => challenges'[d].consumed = challenges[d].consumed
    <3>1. challenges[d] \in ChallengeRow \cup {NoChallenge}
      BY <1>1 DEF LoginTypeOK
    <3>2. CASE challenges[d] = NoChallenge
      <4>1. d # c /\ challenges[d].kind # "ENROLLMENT"
        BY <1>2, <3>2 DEF NoChallenge
      <4> QED
        BY <2>1, <3>2, <4>1
    <3>3. CASE challenges[d] # NoChallenge
      <4>1. challenges[d] \in ChallengeRow
        BY <3>1, <3>3
      <4>2. PICK r, t : r = [challenges[d] EXCEPT !.authenticator = a] /\ t = [challenges[d] EXCEPT !.consumed = TRUE]
        OBVIOUS
      <4>3. /\ r \in ChallengeRow /\ r.kind = challenges[d].kind /\ r.failed = challenges[d].failed
            /\ r.consumed = challenges[d].consumed
        BY <4>1, <4>2 DEF ChallengeRow
      <4>4. /\ t \in ChallengeRow /\ t.kind = challenges[d].kind /\ t.failed = challenges[d].failed
            /\ t.consumed
        BY <4>1, <4>2 DEF ChallengeRow
      <4>5. challenges'[d] \in {r, t, challenges[d]}
            /\ (challenges[d].kind # "ENROLLMENT" => challenges'[d] \in {r, challenges[d]})
        BY <2>1, <4>2
      <4> QED
        BY <3>3, <4>1, <4>3, <4>4, <4>5
    <3> QED
      BY <3>2, <3>3
  <2>7. challenges' \in [Challenge -> ChallengeRow \cup {NoChallenge}]
    BY <2>1, <2>6
  <2>8. LoginTypeOK'
    BY <1>1, <1>4, <2>5, <2>7 DEF LoginTypeOK, identityRows
  <2>9. With("ACTIVE")' = {} /\ OneCurrent'
    BY <2>4 DEF With, OneCurrent, Current
  <2>10. CodesCounted'
    BY <1>1, <2>3, <2>9 DEF LoginInv, CodesCounted, Unused
  <2>11. FactorsKeep
    <3>1. \A d \in Challenge : challenges'[d] \in ChallengeRow => challenges'[d] # NoChallenge
      BY DEF ChallengeRow, NoChallenge
    <3> QED
      BY <1>1, <2>3, <2>6, <3>1 DEF FactorsKeep
  <2>12. ASSUME NEW g \in Handler \ {h}, Doing(g, "USING") PROVE Live(handler[g].challenge)'
    <3>1. handler'[g] = handler[g]
      BY <1>4
    <3>2. PICK d \in Challenge : d = handler[g].challenge /\ Live(d)
      BY <2>12, HeldLive
    <3>3. challenges[d].kind = "VERIFICATION"
      BY <2>12, <3>2 DEF LoginInv, Checked
    <3>4. challenges'[d] # NoChallenge /\ ~challenges'[d].consumed /\ challenges'[d].failed < Attempts
      BY <2>6, <2>11, <3>2, <3>3 DEF Live, FactorsKeep
    <3> QED
      BY <3>1, <3>2, <3>4 DEF Live
  <2>13. \A g \in Handler \ {h} : Doing(g, "USING") => Live(handler[g].challenge)'
    BY <2>12
  <2>14. handler'[h].step \notin {"USING", "GRANTING"} /\ UNCHANGED granted
    BY <1>1, <1>5
  <2> QED
    BY <1>4, <1>5, <2>8, <2>9, <2>10, <2>11, <2>13, <2>14, TaskRests
<1> QED
  BY <1>6, <1>7
-----------------------------------------------------------------------------
(* Codes that were right.                                                    *)
LEMMA Consumes ==
    ASSUME LoginInv, NEW c \in Challenge, Live(c), Consume(c)
    PROVE  /\ challenges' \in [Challenge -> ChallengeRow \cup {NoChallenge}]
           /\ challenges[c] # NoChallenge /\ ~challenges[c].consumed /\ challenges'[c].consumed
           /\ \A d \in Challenge \ {c} : challenges'[d] = challenges[d]
           /\ \A d \in Challenge : challenges[d] # NoChallenge =>
                /\ challenges'[d] # NoChallenge /\ challenges'[d].kind = challenges[d].kind
                /\ challenges[d].consumed => challenges'[d].consumed
<1>1. challenges[c] \in ChallengeRow /\ challenges[c] # NoChallenge /\ ~challenges[c].consumed
  BY DEF LoginInv, LoginTypeOK, Live
<1>2. PICK r : r = [challenges[c] EXCEPT !.consumed = TRUE] /\ challenges' = [challenges EXCEPT ![c] = r]
  BY DEF Consume
<1>3. r \in ChallengeRow /\ r.kind = challenges[c].kind /\ r.consumed
  BY <1>1, <1>2 DEF ChallengeRow
<1>4. r # NoChallenge
  BY <1>3 DEF ChallengeRow, NoChallenge
<1>5. challenges'[c] = r /\ \A d \in Challenge \ {c} : challenges'[d] = challenges[d]
  BY <1>2 DEF LoginInv, LoginTypeOK
<1>6. challenges' \in [Challenge -> ChallengeRow \cup {NoChallenge}]
  BY <1>2, <1>3 DEF LoginInv, LoginTypeOK
<1> QED
  BY <1>1, <1>3, <1>4, <1>5, <1>6

LEMMA OthersLive ==
    ASSUME LoginInv, NEW c \in Challenge, \A d \in Challenge \ {c} : challenges'[d] = challenges[d],
           NEW g \in Handler, Doing(g, "USING"), handler'[g] = handler[g], handler[g].challenge # c
    PROVE  Live(handler[g].challenge)'
<1>1. {c} \in SUBSET Challenge /\ \A d \in Challenge \ {c} : Live(d) => Live(d)'
  BY DEF Live
<1> QED
  BY <1>1, LiveHeld

LEMMA GoesOn ==
    ASSUME LoginInv, NEW h \in Handler, NEW step \in {"FAILED", "GRANTING"},
           handler[h].step \in {"CONFIRMING", "VERIFYING", "USING"}, Goes(h, step)
    PROVE  /\ handler' \in [Handler -> HandlerTask]
           /\ handler'[h].step = step /\ handler'[h].challenge = handler[h].challenge
           /\ handler'[h].factor = handler[h].factor
           /\ \A g \in Handler \ {h} : handler'[g] = handler[g]
<1>1. PICK t : t = [handler[h] EXCEPT !.step = step] /\ Now(h, t)
  BY DEF Goes
<1>2. t \in HandlerTask /\ t.step = step /\ t.challenge = handler[h].challenge /\ t.factor = handler[h].factor
  <2>1. handler[h] \in HandlerTask
    BY DEF LoginInv, LoginTypeOK
  <2>2. CASE handler[h].step = "USING"
    <3>1. handler[h] \in [step: {"USING"}, challenge: Challenge, authenticator: Authenticator, factor: RecoveryCode]
      BY <2>1, <2>2 DEF HandlerTask
    <3>2. /\ t \in [step: {"CONFIRMING", "VERIFYING", "FAILED", "GRANTING"},
                  challenge: Challenge, authenticator: Authenticator, factor: Factor]
          /\ t.step = step /\ t.challenge = handler[h].challenge /\ t.factor = handler[h].factor
      BY <1>1, <3>1 DEF Factor
    <3> QED
      BY <3>2 DEF HandlerTask
  <2>3. CASE handler[h].step # "USING"
    <3>1. handler[h] \in [step: {"CONFIRMING", "VERIFYING", "FAILED", "GRANTING"},
                  challenge: Challenge, authenticator: Authenticator, factor: Factor]
      BY <2>1, <2>3 DEF HandlerTask
    <3>2. /\ t \in [step: {"CONFIRMING", "VERIFYING", "FAILED", "GRANTING"},
                  challenge: Challenge, authenticator: Authenticator, factor: Factor]
          /\ t.step = step /\ t.challenge = handler[h].challenge /\ t.factor = handler[h].factor
      BY <1>1, <3>1
    <3> QED
      BY <3>2 DEF HandlerTask
  <2> QED
    BY <2>2, <2>3
<1> QED
  BY <1>1, <1>2, TaskPut

LEMMA ConflictStep ==
    ASSUME LoginInv, NEW h \in Handler, handler[h].step \in {"CONFIRMING", "VERIFYING", "USING"},
           Conflict(h), UNCHANGED <<identityRows, granted>>
    PROVE  LoginInv' /\ FactorsKeep
<1>1. /\ handler' \in [Handler -> HandlerTask] /\ handler'[h].step = "FAILED"
      /\ \A g \in Handler \ {h} : handler'[g] = handler[g]
  BY GoesOn DEF Conflict
<1>2. LoginTypeOK'
  BY <1>1 DEF LoginInv, LoginTypeOK, Conflict, identityRows, factorRows
<1>3. Checked(h)'
  BY <1>1 DEF Checked, Doing
<1>4. UNCHANGED factorRows
  BY DEF Conflict
<1> QED
  BY <1>1, <1>2, <1>3, <1>4, RestStep

LEMMA Accepted ==
    ASSUME LoginInv, NEW a \in Authenticator, NEW f \in TimeStep, Accept(a, f, "ACTIVE"),
           a \in Current
    PROVE  /\ authenticators' \in [Authenticator -> [status: {"NONE", "PENDING", "ACTIVE", "DISABLED"},
                                             last: TimeStep \cup {0}]]
           /\ With("ACTIVE")' = {a} /\ OneCurrent' /\ authenticators'[a].last = f
<1>1. PICK r : /\ r = [status |-> "ACTIVE", last |-> f]
               /\ authenticators' = [authenticators EXCEPT ![a] = r]
  BY DEF Accept
<1>2. r \in [status: {"NONE", "PENDING", "ACTIVE", "DISABLED"}, last: TimeStep \cup {0}]
  BY <1>1
<1>3. authenticators'[a] = r /\ \A b \in Authenticator \ {a} : authenticators'[b] = authenticators[b]
  BY <1>1 DEF LoginInv, LoginTypeOK
<1>4. authenticators' \in [Authenticator -> [status: {"NONE", "PENDING", "ACTIVE", "DISABLED"},
                                             last: TimeStep \cup {0}]]
  BY <1>1, <1>2 DEF LoginInv, LoginTypeOK
<1>5. \A b \in Authenticator \ {a} : authenticators[b].status \notin {"PENDING", "ACTIVE"}
  BY DEF LoginInv, OneCurrent, Current, With
<1>6. \A b \in Authenticator : authenticators'[b].status \in {"PENDING", "ACTIVE"} => b = a
  BY <1>3, <1>5
<1>7. authenticators'[a].status = "ACTIVE" /\ authenticators'[a].last = f
  BY <1>1, <1>3
<1>8. With("ACTIVE")' = {a} /\ OneCurrent'
  BY <1>6, <1>7 DEF With, OneCurrent, Current
<1> QED
  BY <1>4, <1>7, <1>8

LEMMA ConfirmStep ==
    ASSUME LoginInv, NEW h \in Handler, CompleteEnrollment(h)
    PROVE  LoginInv' /\ FactorsKeep
<1>1. /\ LoginTypeOK /\ Doing(h, "CONFIRMING") /\ ~Held(handler[h].challenge)
      /\ UNCHANGED <<identityRows, granted>>
  BY DEF LoginInv, CompleteEnrollment
<1>2. PICK c \in Challenge, a \in Authenticator, f \in TimeStep :
        c = handler[h].challenge /\ a = handler[h].authenticator /\ f = handler[h].factor
  BY <1>1, TaskTyped DEF LoginInv, Checked, Doing
<1>3. CASE ~(Live(c) /\ authenticators[a].status = "PENDING")
  <2>1. UNCHANGED factorRows /\ Now(h, Idle)
    BY <1>2, <1>3 DEF CompleteEnrollment
  <2>2. Idle \in HandlerTask
    BY DEF HandlerTask, Idle
  <2>3. /\ handler' \in [Handler -> HandlerTask] /\ handler'[h] = Idle
        /\ \A g \in Handler \ {h} : handler'[g] = handler[g]
    BY <2>1, <2>2, TaskPut
  <2>4. LoginTypeOK'
    BY <1>1, <2>1, <2>3 DEF LoginTypeOK, identityRows, factorRows
  <2>5. Checked(h)' /\ handler'[h].step = "IDLE" /\ UNCHANGED granted
    BY <1>1, <2>3 DEF Checked, Doing, Idle
  <2> QED
    BY <2>1, <2>3, <2>4, <2>5, RestStep
<1>4. CASE Live(c) /\ authenticators[a].status = "PENDING"
  <2>1. Consume(c) /\ Accept(a, f, "ACTIVE") /\ Goes(h, "GRANTING")
    BY <1>2, <1>4 DEF CompleteEnrollment
  <2>2. PICK R \in SUBSET {r \in RecoveryCode : recovery[r] = "NONE"} :
          /\ Cardinality(R) = CodesIssued
          /\ recovery' = [r \in RecoveryCode |-> IF r \in R THEN "UNUSED" ELSE recovery[r]]
    BY <1>2, <1>4 DEF CompleteEnrollment
  <2>3. /\ challenges' \in [Challenge -> ChallengeRow \cup {NoChallenge}]
        /\ challenges[c] # NoChallenge /\ ~challenges[c].consumed /\ challenges'[c].consumed
        /\ \A d \in Challenge \ {c} : challenges'[d] = challenges[d]
        /\ \A d \in Challenge : challenges[d] # NoChallenge =>
                /\ challenges'[d] # NoChallenge /\ challenges'[d].kind = challenges[d].kind
                /\ challenges[d].consumed => challenges'[d].consumed
    BY <1>4, <2>1, Consumes
  <2>4. /\ handler' \in [Handler -> HandlerTask]
        /\ handler'[h].step = "GRANTING" /\ handler'[h].challenge = c /\ handler'[h].factor = f
        /\ \A g \in Handler \ {h} : handler'[g] = handler[g]
    BY <1>1, <1>2, <2>1, GoesOn DEF Doing
  <2>5. a \in Current
    BY <1>4 DEF Current, With
  <2>6. /\ authenticators' \in [Authenticator -> [status: {"NONE", "PENDING", "ACTIVE", "DISABLED"},
                                             last: TimeStep \cup {0}]]
        /\ With("ACTIVE")' = {a} /\ OneCurrent' /\ authenticators'[a].last = f
    BY <2>1, <2>5, Accepted
  <2>7. With("ACTIVE") = {} /\ Unused = {}
    <3>1. \A b \in With("ACTIVE") : b = a
      BY <2>5 DEF LoginInv, OneCurrent, Current
    <3>2. a \notin With("ACTIVE")
      BY <1>4 DEF With
    <3> QED
      BY <3>1, <3>2 DEF LoginInv, CodesCounted
  <2>8. Unused' = R /\ \A r \in RecoveryCode : recovery[r] = "USED" => recovery'[r] = "USED"
    BY <2>2, <2>7 DEF Unused
  <2>9. CodesCounted'
    BY <2>2, <2>6, <2>8 DEF CodesCounted
  <2>10. recovery' \in [RecoveryCode -> {"NONE", "UNUSED", "USED"}]
    BY <1>1, <2>2 DEF LoginTypeOK
  <2>11. LoginTypeOK'
    BY <1>1, <2>3, <2>4, <2>6, <2>10 DEF LoginTypeOK, identityRows
  <2>12. FactorsKeep
    BY <2>3, <2>7, <2>8 DEF FactorsKeep
  <2>13. f \in Factor /\ f \notin RecoveryCode
    BY LoginAssumption DEF Factor
  <2>14. ~Spent(f)
    BY <2>7, <2>13 DEF Spent
  <2>15. Spent(f)'
    <3>1. f \in Nat
      BY StepNumbers
    <3> QED
      BY <2>6, <2>13, <3>1 DEF Spent
  <2>16. ASSUME NEW g \in Handler \ {h}, Doing(g, "USING") PROVE Live(handler[g].challenge)'
    <3>1. handler[g].challenge # c
      BY <1>1, <1>2, <2>16 DEF Held
    <3> QED
      BY <2>3, <2>4, <2>16, <3>1, OthersLive
  <2>17. /\ \A g \in Handler \ {h} : Doing(g, "USING") => Live(handler[g].challenge)'
         /\ UNCHANGED granted
    BY <1>1, <2>16
  <2>18. LoginInv'
    BY <2>3, <2>4, <2>6, <2>9, <2>11, <2>12, <2>13, <2>14, <2>15, <2>17, TaskGranted
  <2> QED
    BY <2>12, <2>18
<1> QED
  BY <1>3, <1>4

LEMMA TotpStep ==
    ASSUME LoginInv, NEW h \in Handler, CompleteTotp(h)
    PROVE  LoginInv' /\ FactorsKeep
<1>1. /\ LoginTypeOK /\ Doing(h, "VERIFYING") /\ ~Held(handler[h].challenge)
      /\ UNCHANGED <<identityRows, granted>>
  BY DEF LoginInv, CompleteTotp
<1>2. PICK c \in Challenge, a \in Authenticator, f \in TimeStep :
        c = handler[h].challenge /\ a = handler[h].authenticator /\ f = handler[h].factor
  BY <1>1, TaskTyped DEF CompleteTotp, Doing
<1>3. CASE ~(Live(c) /\ StepAccepted(a, f))
  <2>1. Conflict(h)
    BY <1>2, <1>3 DEF CompleteTotp
  <2> QED
    BY <1>1, <2>1, ConflictStep DEF Doing
<1>4. CASE Live(c) /\ StepAccepted(a, f)
  <2>1. Consume(c) /\ Accept(a, f, "ACTIVE") /\ Goes(h, "GRANTING") /\ UNCHANGED recovery
    BY <1>2, <1>4 DEF CompleteTotp
  <2>3. /\ challenges' \in [Challenge -> ChallengeRow \cup {NoChallenge}]
        /\ challenges[c] # NoChallenge /\ ~challenges[c].consumed /\ challenges'[c].consumed
        /\ \A d \in Challenge \ {c} : challenges'[d] = challenges[d]
        /\ \A d \in Challenge : challenges[d] # NoChallenge =>
                /\ challenges'[d] # NoChallenge /\ challenges'[d].kind = challenges[d].kind
                /\ challenges[d].consumed => challenges'[d].consumed
    BY <1>4, <2>1, Consumes
  <2>4. /\ handler' \in [Handler -> HandlerTask]
        /\ handler'[h].step = "GRANTING" /\ handler'[h].challenge = c /\ handler'[h].factor = f
        /\ \A g \in Handler \ {h} : handler'[g] = handler[g]
    BY <1>1, <1>2, <2>1, GoesOn DEF Doing
  <2>5. a \in Current /\ a \in With("ACTIVE")
    BY <1>4 DEF Current, With, StepAccepted
  <2>6. /\ authenticators' \in [Authenticator -> [status: {"NONE", "PENDING", "ACTIVE", "DISABLED"},
                                             last: TimeStep \cup {0}]]
        /\ With("ACTIVE")' = {a} /\ OneCurrent' /\ authenticators'[a].last = f
    BY <2>1, <2>5, Accepted
  <2>7. With("ACTIVE") = {a}
    BY <2>5 DEF LoginInv, OneCurrent, Current
  <2>8. authenticators[a].last < f /\ authenticators[a].last \in Nat /\ f \in Nat
    <3>1. authenticators[a].last \in TimeStep \cup {0}
      BY <1>1 DEF LoginTypeOK
    <3> QED
      BY <1>4, <3>1, StepNumbers DEF StepAccepted
  <2>9. CodesCounted'
    BY <2>1, <2>6, <2>7 DEF LoginInv, CodesCounted, Unused
  <2>11. LoginTypeOK'
    BY <1>1, <2>1, <2>3, <2>4, <2>6 DEF LoginTypeOK, identityRows
  <2>12. FactorsKeep
    BY <2>1, <2>3, <2>6, <2>7, <2>8 DEF FactorsKeep
  <2>13. f \in Factor /\ f \notin RecoveryCode
    BY LoginAssumption DEF Factor
  <2>14. ~Spent(f)
    BY <2>7, <2>8, <2>13 DEF Spent
  <2>15. Spent(f)'
    BY <2>6, <2>8, <2>13 DEF Spent
  <2>16. ASSUME NEW g \in Handler \ {h}, Doing(g, "USING") PROVE Live(handler[g].challenge)'
    <3>1. handler[g].challenge # c
      BY <1>1, <1>2, <2>16 DEF Held
    <3> QED
      BY <2>3, <2>4, <2>16, <3>1, OthersLive
  <2>17. /\ \A g \in Handler \ {h} : Doing(g, "USING") => Live(handler[g].challenge)'
         /\ UNCHANGED granted
    BY <1>1, <2>16
  <2>18. LoginInv'
    BY <2>3, <2>4, <2>6, <2>9, <2>11, <2>12, <2>13, <2>14, <2>15, <2>17, TaskGranted
  <2> QED
    BY <2>12, <2>18
<1> QED
  BY <1>3, <1>4
(* Recovery codes, failures and the session itself.                          *)
LEMMA FindStep ==
    ASSUME LoginInv, NEW h \in Handler, FindRecoveryCode(h)
    PROVE  LoginInv' /\ FactorsKeep
<1>1. /\ LoginTypeOK /\ Doing(h, "VERIFYING") /\ ~Held(handler[h].challenge)
      /\ UNCHANGED <<identityRows, factorRows, granted>>
  BY DEF LoginInv, FindRecoveryCode
<1>2. PICK c \in Challenge, f \in RecoveryCode :
        c = handler[h].challenge /\ f = handler[h].factor
  BY <1>1, TaskTyped DEF FindRecoveryCode, Doing
<1>3. CASE ~(Live(c) /\ f \in Unused)
  <2>1. Conflict(h)
    BY <1>1, <1>2, <1>3 DEF FindRecoveryCode, Conflict
  <2> QED
    BY <1>1, <2>1, ConflictStep DEF Doing
<1>4. CASE Live(c) /\ f \in Unused
  <2>1. PICK t : t = [handler[h] EXCEPT !.step = "USING"] /\ Now(h, t)
    BY <1>2, <1>4 DEF FindRecoveryCode, Goes
  <2>2. handler[h] \in [step: {"CONFIRMING", "VERIFYING", "FAILED", "GRANTING"},
                     challenge: Challenge, authenticator: Authenticator, factor: Factor]
    BY <1>1 DEF LoginTypeOK, HandlerTask, Doing
  <2>3. t \in [step: {"USING"}, challenge: Challenge, authenticator: Authenticator, factor: RecoveryCode]
        /\ t.step = "USING" /\ t.challenge = c
    BY <1>2, <2>1, <2>2
  <2>4. t \in HandlerTask
    BY <2>3 DEF HandlerTask
  <2>5. /\ handler' \in [Handler -> HandlerTask] /\ handler'[h] = t
        /\ \A g \in Handler \ {h} : handler'[g] = handler[g]
    BY <2>1, <2>4, TaskPut
  <2>6. LoginTypeOK'
    BY <1>1, <2>5 DEF LoginTypeOK, identityRows, factorRows
  <2>7. FactorsKeep /\ OneCurrent' /\ CodesCounted'
    BY <1>1, <2>6, FactorsRest
  <2>8. UNCHANGED challenges
    BY <1>1 DEF factorRows
  <2>9. ASSUME NEW g \in Handler \ {h}, Doing(g, "USING")
        PROVE  handler[g].challenge # c
    BY <1>1, <1>2, <2>9 DEF Held
  <2>10. \A g \in Handler : Checked(g) /\ Using(g) /\ Granting(g)
    BY DEF LoginInv
  <2>11. ASSUME NEW g \in Handler PROVE Using(g)'
    <3>1. CASE g = h
      BY <1>4, <2>3, <2>5, <2>8, <2>9, <3>1 DEF Using, Live, Doing
    <3>2. CASE g # h
      BY <2>3, <2>5, <2>8, <2>9, <2>10, <3>2 DEF Using, Live, Doing
    <3> QED
      BY <3>1, <3>2
  <2>12. ASSUME NEW g \in Handler PROVE Checked(g)'
    <3>1. CASE g = h
      <4>1. challenges[c].kind = "VERIFICATION"
        BY <1>1, <1>2, <2>10 DEF Checked, Doing
      <4> QED
        BY <2>3, <2>5, <2>8, <3>1, <4>1 DEF Checked, Doing
    <3>2. CASE g # h
      BY <2>5, <2>8, <2>10, <3>2 DEF Checked, Doing
    <3> QED
      BY <3>1, <3>2
  <2>13. ASSUME NEW g \in Handler PROVE Granting(g)'
    <3>1. CASE g = h
      BY <2>3, <2>5, <3>1 DEF Granting, Doing
    <3>2. CASE g # h
      <4> SUFFICES ASSUME Doing(g, "GRANTING") PROVE Granting(g)'
        BY <2>5, <3>2 DEF Granting, Doing
      <4>1. PICK e \in Factor : e = handler[g].factor
        BY TaskTyped DEF Doing
      <4>2. Spent(e)'
        BY <2>6, <2>7, <2>10, <4>1, SpentStays DEF Granting
      <4>3. \A v \in Handler : handler'[v].step = "GRANTING" => handler'[v] = handler[v]
        BY <2>3, <2>5
      <4>4. UNCHANGED granted
        BY <1>1
      <4> QED
        BY <2>5, <2>8, <2>10, <3>2, <4>1, <4>2, <4>3, <4>4 DEF Granting, Doing
    <3> QED
      BY <3>1, <3>2
  <2>14. GrantsPlaced'
    BY <1>1, <2>6, <2>7, SpentStays DEF LoginInv, GrantsPlaced, FactorsKeep
  <2> QED
    BY <2>6, <2>7, <2>11, <2>12, <2>13, <2>14 DEF LoginInv
<1> QED
  BY <1>3, <1>4

LEMMA ReplacedCodes ==
    ASSUME LoginInv, NEW f \in RecoveryCode, NEW r \in RecoveryCode, recovery[r] = "NONE",
           ReplaceCode(f, r)
    PROVE  /\ recovery' \in [RecoveryCode -> {"NONE", "UNUSED", "USED"}]
           /\ recovery[f] = "UNUSED" /\ recovery'[f] = "USED"
           /\ \A q \in RecoveryCode : recovery[q] = "USED" => recovery'[q] = "USED"
           /\ With("ACTIVE") # {} /\ Cardinality(Unused') = CodesIssued
<1>1. f \in Unused /\ recovery' = [recovery EXCEPT ![r] = "UNUSED", ![f] = "USED"]
  BY DEF ReplaceCode
<1>2. recovery \in [RecoveryCode -> {"NONE", "UNUSED", "USED"}]
  BY DEF LoginInv, LoginTypeOK
<1>3. recovery[f] = "UNUSED" /\ f # r
  BY <1>1 DEF Unused
<1>4. /\ recovery'[f] = "USED" /\ recovery'[r] = "UNUSED"
      /\ \A q \in RecoveryCode \ {f, r} : recovery'[q] = recovery[q]
      /\ recovery' \in [RecoveryCode -> {"NONE", "UNUSED", "USED"}]
  BY <1>1, <1>2, <1>3
<1>5. Unused' = (Unused \ {f}) \cup {r} /\ r \notin Unused
  BY <1>3, <1>4 DEF Unused
<1>6. With("ACTIVE") # {} /\ Cardinality(Unused) = CodesIssued
  BY <1>1 DEF LoginInv, CodesCounted
<1>7. IsFiniteSet(Unused)
  <2>1. Unused \subseteq RecoveryCode
    BY DEF Unused
  <2> QED
    BY <2>1, LoginAssumption, FS_Subset
<1>8. IsFiniteSet(Unused \ {f}) /\ Cardinality(Unused \ {f}) = Cardinality(Unused) - 1
  BY <1>1, <1>7, FS_RemoveElement
<1>9. Cardinality((Unused \ {f}) \cup {r}) = Cardinality(Unused \ {f}) + 1
  BY <1>5, <1>8, FS_AddElement
<1>10. Cardinality(Unused) \in Nat
  BY <1>7, FS_CardinalityType
<1>11. Cardinality((Unused \ {f}) \cup {r}) = CodesIssued
  BY <1>6, <1>8, <1>9, <1>10
<1> QED
  BY <1>3, <1>4, <1>5, <1>6, <1>11

LEMMA UseStep ==
    ASSUME LoginInv, NEW h \in Handler, NEW r \in RecoveryCode, UseRecoveryCode(h, r)
    PROVE  LoginInv' /\ FactorsKeep
<1>1. /\ LoginTypeOK /\ Doing(h, "USING") /\ recovery[r] = "NONE"
      /\ UNCHANGED <<identityRows, granted>>
  BY DEF LoginInv, UseRecoveryCode
<1>2. PICK c \in Challenge, f \in RecoveryCode :
        c = handler[h].challenge /\ f = handler[h].factor
  BY <1>1, TaskTyped DEF LoginTypeOK, HandlerTask, Doing
<1>3. CASE Conflict(h)
  BY <1>1, <1>3, ConflictStep DEF Doing
<1>4. CASE /\ ReplaceCode(f, r) /\ Consume(c) /\ Goes(h, "GRANTING") /\ UNCHANGED authenticators
  <2>1. Live(c)
    BY <1>1, <1>2, HeldLive
  <2>3. /\ challenges' \in [Challenge -> ChallengeRow \cup {NoChallenge}]
        /\ challenges[c] # NoChallenge /\ ~challenges[c].consumed /\ challenges'[c].consumed
        /\ \A d \in Challenge \ {c} : challenges'[d] = challenges[d]
        /\ \A d \in Challenge : challenges[d] # NoChallenge =>
                /\ challenges'[d] # NoChallenge /\ challenges'[d].kind = challenges[d].kind
                /\ challenges[d].consumed => challenges'[d].consumed
    BY <1>4, <2>1, Consumes
  <2>4. /\ handler' \in [Handler -> HandlerTask]
        /\ handler'[h].step = "GRANTING" /\ handler'[h].challenge = c /\ handler'[h].factor = f
        /\ \A g \in Handler \ {h} : handler'[g] = handler[g]
    BY <1>1, <1>2, <1>4, GoesOn DEF Doing
  <2>5. /\ recovery' \in [RecoveryCode -> {"NONE", "UNUSED", "USED"}]
        /\ recovery[f] = "UNUSED" /\ recovery'[f] = "USED"
        /\ \A q \in RecoveryCode : recovery[q] = "USED" => recovery'[q] = "USED"
        /\ With("ACTIVE") # {} /\ Cardinality(Unused') = CodesIssued
    BY <1>1, <1>4, ReplacedCodes
  <2>6. UNCHANGED authenticators
    BY <1>4
  <2>7. With("ACTIVE")' = With("ACTIVE") /\ Current' = Current
    BY <2>6 DEF With, Current
  <2>9. CodesCounted' /\ OneCurrent'
    BY <2>5, <2>7 DEF CodesCounted, LoginInv, OneCurrent
  <2>11. LoginTypeOK'
    BY <1>1, <2>3, <2>4, <2>5, <2>6 DEF LoginTypeOK, identityRows
  <2>12. FactorsKeep
    <3>1. \A a \in With("ACTIVE") : authenticators[a].last \in TimeStep \cup {0}
      BY <1>1 DEF With, LoginTypeOK
    <3> QED
      BY <2>3, <2>5, <2>6, <2>7, <3>1, StepNumbers DEF FactorsKeep
  <2>13. f \in Factor
    BY DEF Factor
  <2>14. ~Spent(f) /\ Spent(f)'
    BY <2>5 DEF Spent
  <2>16. ASSUME NEW g \in Handler \ {h}, Doing(g, "USING") PROVE Live(handler[g].challenge)'
    <3>1. handler[g].challenge # c
      BY <1>1, <1>2, <2>16 DEF LoginInv, Using
    <3> QED
      BY <2>3, <2>4, <2>16, <3>1, OthersLive
  <2>17. /\ \A g \in Handler \ {h} : Doing(g, "USING") => Live(handler[g].challenge)'
         /\ UNCHANGED granted
    BY <1>1, <2>16
  <2>18. LoginInv'
    BY <2>3, <2>4, <2>9, <2>11, <2>12, <2>13, <2>14, <2>17, TaskGranted
  <2> QED
    BY <2>12, <2>18
<1> QED
  BY <1>2, <1>3, <1>4 DEF UseRecoveryCode

LEMMA FailureStep ==
    ASSUME LoginInv, NEW h \in Handler, RecordFailure(h)
    PROVE  LoginInv' /\ FactorsKeep
<1>1. /\ LoginTypeOK /\ Doing(h, "FAILED") /\ ~Held(handler[h].challenge)
      /\ UNCHANGED <<identityRows, authenticators, recovery, granted>> /\ Now(h, Idle)
  BY DEF LoginInv, RecordFailure
<1>2. PICK c \in Challenge : c = handler[h].challenge
  BY <1>1, TaskTyped DEF Doing
<1>3. Idle \in HandlerTask
  BY DEF HandlerTask, Idle
<1>4. /\ handler' \in [Handler -> HandlerTask] /\ handler'[h] = Idle
      /\ \A g \in Handler \ {h} : handler'[g] = handler[g]
  BY <1>1, <1>3, TaskPut
<1>5. Checked(h)' /\ handler'[h].step \notin {"USING", "GRANTING"} /\ UNCHANGED granted
  BY <1>1, <1>4 DEF Checked, Doing, Idle
<1>6. CASE ~Live(c)
  <2>1. UNCHANGED factorRows
    BY <1>1, <1>2, <1>6 DEF RecordFailure, factorRows
  <2>2. LoginTypeOK'
    BY <1>1, <1>4, <2>1 DEF LoginTypeOK, identityRows, factorRows
  <2> QED
    BY <1>4, <1>5, <2>1, <2>2, RestStep
<1>7. CASE Live(c)
  <2>1. PICK row : /\ row = [challenges[c] EXCEPT !.failed = @ + 1,
                               !.consumed = challenges[c].failed + 1 >= Attempts]
                   /\ challenges' = [challenges EXCEPT ![c] = row]
    BY <1>2, <1>7 DEF RecordFailure
  <2>2. challenges[c] \in ChallengeRow /\ challenges[c].failed < Attempts /\ ~challenges[c].consumed
    BY <1>1, <1>7 DEF LoginTypeOK, Live
  <2>3. challenges[c].failed \in 0..Attempts /\ Attempts \in Nat
    BY <2>2, LoginAssumption DEF ChallengeRow
  <2>4. challenges[c].failed + 1 \in 0..Attempts
    BY <2>2, <2>3
  <2>5. row \in ChallengeRow /\ row.kind = challenges[c].kind
    <3>1. PICK n, b : n = challenges[c].failed + 1 /\ b = (challenges[c].failed + 1 >= Attempts)
      OBVIOUS
    <3>2. n \in 0..Attempts /\ b \in BOOLEAN
      BY <2>4, <3>1
    <3>3. row = [challenges[c] EXCEPT !.failed = n, !.consumed = b]
      BY <2>1, <3>1
    <3> QED
      BY <2>2, <3>2, <3>3 DEF ChallengeRow
  <2>6. challenges' \in [Challenge -> ChallengeRow \cup {NoChallenge}]
    BY <1>1, <2>1, <2>5 DEF LoginTypeOK
  <2>7. challenges'[c] = row /\ \A d \in Challenge \ {c} : challenges'[d] = challenges[d]
    BY <1>1, <2>1 DEF LoginTypeOK
  <2>8. row # NoChallenge
    BY <2>5 DEF ChallengeRow, NoChallenge
  <2>9. FactorsKeep /\ OneCurrent' /\ CodesCounted'
    <3>1. UNCHANGED <<authenticators, recovery>>
      BY <1>1
    <3>2. \A d \in Challenge : challenges[d] # NoChallenge =>
                /\ challenges'[d] # NoChallenge /\ challenges'[d].kind = challenges[d].kind
                /\ challenges[d].consumed => challenges'[d].consumed
      BY <2>2, <2>5, <2>7, <2>8
    <3> QED
      BY <3>1, <3>2, FactorsStill DEF FactorsKeep
  <2>10. LoginTypeOK'
    BY <1>1, <1>4, <2>6 DEF LoginTypeOK, identityRows
  <2>11. ASSUME NEW g \in Handler \ {h}, Doing(g, "USING") PROVE Live(handler[g].challenge)'
    <3>1. handler[g].challenge # c
      BY <1>1, <1>2, <2>11 DEF Held
    <3> QED
      BY <1>4, <2>7, <2>11, <3>1, OthersLive
  <2>12. \A g \in Handler \ {h} : Doing(g, "USING") => Live(handler[g].challenge)'
    BY <2>11
  <2> QED
    BY <1>4, <1>5, <2>9, <2>10, <2>12, TaskRests
<1> QED
  BY <1>6, <1>7

LEMMA GrantStep ==
    ASSUME LoginInv, NEW h \in Handler, Grant(h)
    PROVE  LoginInv' /\ FactorsKeep
<1>1. /\ LoginTypeOK /\ Doing(h, "GRANTING") /\ UNCHANGED <<identityRows, factorRows>>
      /\ \A g \in Handler : Checked(g) /\ Using(g) /\ Granting(g)
  BY DEF LoginInv, Grant
<1>2. PICK c \in Challenge, f \in Factor : c = handler[h].challenge /\ f = handler[h].factor
  BY <1>1, TaskTyped DEF Doing
<1>3. PICK task \in {Idle, [step |-> "SIGNED_IN"]} : Now(h, task)
  BY DEF Grant
<1>4. task \in HandlerTask /\ task.step \in {"IDLE", "SIGNED_IN"}
  BY DEF HandlerTask, Idle
<1>5. /\ handler' \in [Handler -> HandlerTask] /\ handler'[h] = task
      /\ \A g \in Handler \ {h} : handler'[g] = handler[g]
  BY <1>3, <1>4, TaskPut
<1>6. Checked(h)'
  BY <1>4, <1>5 DEF Checked, Doing
<1>7. CASE UNCHANGED granted
  <2>1. LoginTypeOK'
    BY <1>1, <1>5, <1>7 DEF LoginTypeOK, identityRows, factorRows
  <2>2. handler'[h].step \notin {"USING", "GRANTING"}
    BY <1>4, <1>5
  <2> QED
    BY <1>1, <1>5, <1>6, <1>7, <2>1, <2>2, RestStep
<1>8. CASE granted' = [granted EXCEPT ![c] = @ + 1, ![f] = @ + 1]
  <2>1. c # f /\ c \notin Factor /\ f \notin Challenge
    BY LoginAssumption DEF Factor
  <2>2. granted[c] = 0 /\ granted[f] = 0
    BY <1>1, <1>2 DEF Granting
  <2>3. /\ granted' \in [Challenge \cup Factor -> Nat] /\ granted'[c] = 1 /\ granted'[f] = 1
        /\ \A x \in (Challenge \cup Factor) \ {c, f} : granted'[x] = granted[x]
    BY <1>1, <1>8, <2>1, <2>2 DEF LoginTypeOK
  <2>4. LoginTypeOK'
    BY <1>1, <1>5, <2>3 DEF LoginTypeOK, identityRows, factorRows
  <2>5. /\ FactorsKeep /\ OneCurrent' /\ CodesCounted'
        /\ \A d \in Challenge : Live(d)' = Live(d)
    BY <1>1, <2>4, FactorsRest
  <2>6. UNCHANGED <<challenges, authenticators, recovery>>
    BY <1>1 DEF factorRows
  <2>7. ASSUME NEW g \in Handler \ {h} PROVE Checked(g)' /\ Using(g)' /\ Granting(g)'
    <3>1. handler'[g] = handler[g] /\ Checked(g) /\ Using(g) /\ Granting(g)
      BY <1>1, <1>5
    <3>2. Checked(g)'
      BY <2>6, <3>1 DEF Checked, Doing
    <3>3. Using(g)'
      BY <1>4, <1>5, <2>6, <3>1 DEF Using, Doing, Live
    <3>4. Granting(g)'
      <4> SUFFICES ASSUME Doing(g, "GRANTING") PROVE Granting(g)'
        BY <3>1 DEF Granting, Doing
      <4>1. PICK d \in Challenge, e \in Factor : d = handler[g].challenge /\ e = handler[g].factor
        BY TaskTyped DEF Doing
      <4>2. d # c /\ e # f
        BY <1>1, <1>2, <4>1 DEF Granting
      <4>3. granted'[d] = 0 /\ granted'[e] = 0
        <5>1. granted[d] = 0 /\ granted[e] = 0
          BY <3>1, <4>1 DEF Granting
        <5>2. d \in (Challenge \cup Factor) \ {c, f} /\ e \in (Challenge \cup Factor) \ {c, f}
          BY <2>1, <4>2, LoginAssumption DEF Factor
        <5> QED
          BY <2>3, <5>1, <5>2
      <4>4. Spent(e)'
        BY <2>4, <2>5, <3>1, <4>1, SpentStays DEF Granting
      <4>5. \A v \in Handler : handler'[v].step = "GRANTING" => handler'[v] = handler[v]
        BY <1>4, <1>5
      <4> QED
        BY <2>6, <3>1, <4>1, <4>3, <4>4, <4>5 DEF Granting, Doing
    <3> QED
      BY <3>2, <3>3, <3>4
  <2>8. Using(h)' /\ Granting(h)'
    BY <1>4, <1>5 DEF Using, Granting, Doing
  <2>9. GrantsPlaced'
    <3>1. ASSUME NEW d \in Challenge
          PROVE  granted'[d] \in {0, 1} /\ (granted'[d] = 1 => challenges'[d] # NoChallenge /\ challenges'[d].consumed)
      <4>1. CASE d = c
        BY <1>1, <1>2, <2>3, <2>6, <4>1 DEF Granting
      <4>2. CASE d # c
        BY <2>1, <2>3, <2>6, <4>2 DEF LoginInv, GrantsPlaced
      <4> QED
        BY <4>1, <4>2
    <3>2. ASSUME NEW e \in Factor PROVE granted'[e] \in {0, 1} /\ (granted'[e] = 1 => Spent(e)')
      <4>1. CASE e = f
        BY <1>1, <1>2, <2>3, <2>4, <2>5, <4>1, SpentStays DEF Granting
      <4>2. CASE e # f
        <5>1. granted'[e] = granted[e]
          BY <2>1, <2>3, <4>2
        <5> QED
          BY <2>4, <2>5, <5>1, SpentStays DEF LoginInv, GrantsPlaced
      <4> QED
        BY <4>1, <4>2
    <3> QED
      BY <3>1, <3>2 DEF GrantsPlaced
  <2> QED
    BY <1>6, <2>4, <2>5, <2>7, <2>8, <2>9 DEF LoginInv
<1> QED
  BY <1>2, <1>7, <1>8 DEF Grant

LEMMA LoginStep == ASSUME LoginInv, [LoginNext]_loginVars PROVE LoginInv' /\ FactorsKeep
<1>1. ASSUME NEW h \in Handler,
             \/ PasswordLogin(h) \/ GoogleRefuses(h) \/ ResolveGoogleLogin(h) \/ LinkGoogleIdentity(h)
             \/ UnlinkGoogleIdentity(h) \/ CompleteEnrollment(h) \/ CompleteTotp(h)
             \/ FindRecoveryCode(h) \/ RecordFailure(h) \/ Grant(h) \/ Leave(h)
             \/ \E g \in GoogleChallenge : ConsumeGoogleChallenge(h, g)
      PROVE  LoginInv' /\ FactorsKeep
  BY <1>1, IdentityStep, ConfirmStep, TotpStep, FindStep, FailureStep, GrantStep
<1>2. ASSUME NEW h \in Handler,
             \/ \E c \in Challenge :
                  \/ CreateMfaLoginChallenge(h, c) \/ StartEnrollment(h, c)
                  \/ \E f \in Factor, ok \in BOOLEAN : Check(h, c, f, ok)
             \/ \E a \in Authenticator : EnrollPending(h, a)
             \/ \E r \in RecoveryCode : UseRecoveryCode(h, r)
      PROVE  LoginInv' /\ FactorsKeep
  BY <1>2, CreateStep, ReadsStep, EnrollStep, UseStep
<1>3. ASSUME \/ UNCHANGED loginVars \/ Suspend
             \/ \E g \in GoogleChallenge, purpose \in {"LOGIN", "LINK"} : IssueGoogleChallenge(g, purpose)
      PROVE  LoginInv' /\ FactorsKeep
  BY <1>3, OthersStep
<1> QED
  BY <1>1, <1>2, <1>3 DEF LoginNext

(* Accounts, challenges, authenticators and codes keep their types.          *)
THEOREM LoginTyped == LoginSpec => []LoginTypeOK
<1>1. LoginInv => LoginTypeOK
  BY DEF LoginInv
<1> QED
  BY <1>1, LoginStart, LoginStep, PTL DEF LoginSpec

(* No challenge, code or time step lets two logins in, and a used code is    *)
(* replaced.                                                                 *)
THEOREM FactorsServeOneLogin == LoginSpec => []FactorsServeOnce
<1>1. LoginInv => FactorsServeOnce
  BY DEF LoginInv, GrantsPlaced, CodesCounted, FactorsServeOnce
<1> QED
  BY <1>1, LoginStart, LoginStep, PTL DEF LoginSpec

(* An authenticator in use stays in use, and an account keeps a way in.      *)
THEOREM EnrollmentsStand == LoginSpec => EnrollmentStands
<1>1. ASSUME LoginInv, [LoginNext]_loginVars
      PROVE  [/\ \A a \in With("ACTIVE") : a \in With("ACTIVE")'
              /\ Cardinality(Current') <= 1
              /\ methods # {} => methods' # {}]_loginVars
  <2>1. LoginInv' /\ FactorsKeep
    BY <1>1, LoginStep
  <2>2. \A a \in With("ACTIVE") : a \in With("ACTIVE")'
    BY <2>1 DEF FactorsKeep
  <2>3. Cardinality(Current') <= 1
    <3>1. CASE Current' = {}
      BY <3>1, FS_EmptySet
    <3>2. CASE Current' # {}
      <4>1. PICK a : a \in Current'
        BY <3>2
      <4>2. Current' = {a}
        BY <2>1, <4>1 DEF LoginInv, OneCurrent
      <4> QED
        BY <4>2, FS_Singleton
    <3> QED
      BY <3>1, <3>2
  <2>4. methods # {} => methods' # {}
    <3>1. ASSUME NEW h \in Handler, UnlinkGoogleIdentity(h) PROVE methods' # {}
      <4>1. Cardinality({"GOOGLE"}) = 1 /\ Cardinality({}) = 0
        BY FS_Singleton, FS_EmptySet
      <4>2. "GOOGLE" \in methods /\ Cardinality(methods) > 1 /\ methods' = methods \ {"GOOGLE"}
        BY <3>1 DEF UnlinkGoogleIdentity, Unlinkable
      <4>3. methods' = {} => methods = {"GOOGLE"}
        BY <4>2
      <4> QED
        BY <4>1, <4>2, <4>3
    <3>2. ASSUME NEW h \in Handler, ResolveGoogleLogin(h) \/ LinkGoogleIdentity(h)
          PROVE  methods # {} => methods' # {}
      BY <3>2 DEF ResolveGoogleLogin, Resolved, LinkGoogleIdentity, Linked
    <3>3. ASSUME NEW h \in Handler,
                 \/ PasswordLogin(h) \/ GoogleRefuses(h) \/ CompleteEnrollment(h) \/ CompleteTotp(h)
                 \/ FindRecoveryCode(h) \/ RecordFailure(h) \/ Grant(h) \/ Leave(h)
                 \/ \E g \in GoogleChallenge : ConsumeGoogleChallenge(h, g)
                 \/ \E c \in Challenge :
                      \/ CreateMfaLoginChallenge(h, c) \/ StartEnrollment(h, c)
                      \/ \E f \in Factor, ok \in BOOLEAN : Check(h, c, f, ok)
                 \/ \E a \in Authenticator : EnrollPending(h, a)
                 \/ \E r \in RecoveryCode : UseRecoveryCode(h, r)
          PROVE  UNCHANGED methods
      BY <3>3 DEF identityRows, PasswordLogin, GoogleRefuses,
           CompleteEnrollment, CompleteTotp, FindRecoveryCode, RecordFailure, Grant, Leave,
           ConsumeGoogleChallenge, CreateMfaLoginChallenge, StartEnrollment, Check, EnrollPending,
           UseRecoveryCode
    <3>4. ASSUME \/ UNCHANGED loginVars \/ Suspend
                 \/ \E g \in GoogleChallenge, purpose \in {"LOGIN", "LINK"} : IssueGoogleChallenge(g, purpose)
          PROVE  UNCHANGED methods
      BY <3>4 DEF loginVars, IssueGoogleChallenge, Suspend
    <3> QED
      BY <1>1, <3>1, <3>2, <3>3, <3>4 DEF LoginNext
  <2> QED
    BY <2>2, <2>3, <2>4
<1> QED
  BY <1>1, LoginStart, LoginStep, PTL DEF LoginSpec, EnrollmentStands

-----------------------------------------------------------------------------
(* Refresh tokens, for every set of sessions and tabs.                       *)
(* A token that is shown is the last of its session, but for a session that  *)
(* is excused.  A copy may be out of date only while the answer that has     *)
(* replaced it is on its way to where the copy is kept.                      *)
Fresh(t) == t.session \in excused \/ t.sequence = family[t.session].version
Carries(j) == phone[j].step \in {"SENT", "GRANTED", "SAVED", "LOADED"}
Carrier == {"LOGIN", "REFRESH", "RETRY"}
OfThePhone(t) ==
    t = Nil \/ (t \in Token /\ t.session \in PhoneSession /\ family[t.session].status # "NONE")
PhoneTokens ==
    /\ OfThePhone(phoneMemory) /\ OfThePhone(vault)
    /\ \A j \in Carrier : Carries(j) => OfThePhone(phone[j].token)
JobsPlaced ==
    /\ phone["LOGIN"].step \in {"NONE", "GRANTED", "SAVED"}
    /\ phone["RETRY"].step \in {"NONE", "LOADED"}
    /\ phone["REFRESH"].step # "LOADED"
    /\ screen = "START" => phoneMemory = Nil /\ \A j \in Job : phone[j] = No
Renewing(steps, t) ==
    phone["REFRESH"].step \in steps /\ phone["REFRESH"].token.session = t.session
CopiesPlaced ==
    /\ phoneMemory # Nil => Fresh(phoneMemory) \/ Renewing({"GRANTED", "SAVED"}, phoneMemory)
    /\ vault # Nil => Fresh(vault) \/ Renewing({"GRANTED"}, vault)
    /\ \A j \in Carrier : Carries(j) => Fresh(phone[j].token)
(* A session that is being begun or loaded is in no other hands.             *)
Apart(j) ==
    Carries(j) /\ phone[j].token.session \notin excused =>
        /\ phoneMemory # Nil => phoneMemory.session # phone[j].token.session
        /\ \A i \in Carrier \ {j} : Carries(i) => phone[i].token.session # phone[j].token.session

Busy(b) == tab[b].step \in {"SENT", "GRANTED"}
OfTheBrowser(t) == t \in Token /\ t.session \in WebSession
TabsPlaced ==
    /\ cookie # Nil => OfTheBrowser(cookie)
    /\ \A b \in Tab : Busy(b) => OfTheBrowser(tab[b].token) /\ Fresh(tab[b].token)
    /\ \A b \in Tab : tab[b].step \notin {"SAVED", "LOADED"}
    /\ \A b, d \in Tab : Busy(b) /\ Busy(d) /\ b # d /\ tab[b].token.session = tab[d].token.session
                            => tab[b].token.session \in excused
    /\ cookie # Nil => \/ Fresh(cookie)
                       \/ \E b \in Tab : tab[b].step = "GRANTED" /\ tab[b].token.session = cookie.session

PhonePlaced == PhoneTokens /\ JobsPlaced /\ CopiesPlaced /\ Apart("LOGIN") /\ Apart("RETRY")
RtInv == RtTypeOK /\ ReuseExplained /\ PhonePlaced /\ TabsPlaced

LEMMA RtStart == ASSUME RtInit PROVE RtInv
<1>1. /\ phone = [j \in Job |-> No] /\ tab = [b \in Tab |-> No] /\ phoneMemory = Nil /\ vault = Nil
      /\ excused = {} /\ adrift = {} /\ faults = 0 /\ screen \in {"OUT", "NONE"}
      /\ cookie = Nil \/ cookie \in [session: WebSession, sequence: {1}]
  BY DEF RtInit
<1>2. /\ \A s \in Family : family[s] \in [status: {"NONE", "OPEN", "ENDED", "REUSED"}, version: 0..MaxSequence]
      /\ family \in [Family -> [status: {"NONE", "OPEN", "ENDED", "REUSED"}, version: 0..MaxSequence]]
      /\ \A s \in Family : family[s].status # "REUSED"
      /\ \A s \in WebSession : family[s].version = 1
  <2>1. 0 \in 0..MaxSequence /\ 1 \in 0..MaxSequence
    BY RefreshTokensAssumption
  <2> QED
    BY <2>1 DEF RtInit, Family
<1>3. cookie # Nil => OfTheBrowser(cookie) /\ Fresh(cookie)
  <2>1. 1 \in 1..MaxSequence
    BY RefreshTokensAssumption
  <2> QED
    BY <1>1, <1>2, <2>1 DEF OfTheBrowser, Fresh, Token, Family
<1>4. (\A j \in Job : phone[j].step = "NONE") /\ (\A b \in Tab : tab[b].step = "NONE")
  BY <1>1 DEF No
<1>5. RtTypeOK
  <2>1. phone \in [Job -> JobState] /\ tab \in [Tab -> JobState]
    BY <1>1 DEF JobState, No
  <2>2. 0 \in 0..MaxFaults
    BY RefreshTokensAssumption
  <2> QED
    BY <1>1, <1>2, <1>3, <2>1, <2>2 DEF RtTypeOK, OfTheBrowser, NoToken
<1>6. PhonePlaced
  BY <1>1, <1>4 DEF PhonePlaced, PhoneTokens, OfThePhone, JobsPlaced, CopiesPlaced, Apart, Carries, Carrier, Job
<1>7. TabsPlaced
  BY <1>3, <1>4 DEF TabsPlaced, Busy
<1> QED
  BY <1>2, <1>5, <1>6, <1>7 DEF RtInv, ReuseExplained

-----------------------------------------------------------------------------
(* The server and the other side of it.                                      *)
LEMMA RotatesInPlace ==
    ASSUME RtTypeOK, NEW t \in Token, NEW answer \in Answers(t), Rotation(t, answer)
    PROVE  /\ family' \in [Family -> [status: {"NONE", "OPEN", "ENDED", "REUSED"}, version: 0..MaxSequence]]
           /\ \A s \in Family \ {t.session} : family'[s] = family[s]
           /\ \A s \in Family : family[s].status # "NONE" => family'[s].status # "NONE"
           /\ family'[t.session].status = "REUSED" =>
                 family[t.session].status = "REUSED" \/ t.sequence # family[t.session].version
           /\ answer \in JobState /\ answer.step \in {"REFUSED", "GRANTED"}
           /\ answer.step = "GRANTED" =>
                 /\ answer.token \in Token /\ answer.token.session = t.session
                 /\ answer.token.sequence = family'[t.session].version
           /\ answer # Refused \/ answer.step = "REFUSED"
           /\ answer.step = "REFUSED" => answer = Refused
<1> DEFINE s == t.session
           Row == [status: {"NONE", "OPEN", "ENDED", "REUSED"}, version: 0..MaxSequence]
<1>1. s \in Family /\ family[s] \in Row /\ t.sequence \in 1..MaxSequence /\ MaxSequence \in Nat
  BY RefreshTokensAssumption DEF RtTypeOK, Token
<1>2. /\ answer \in JobState /\ answer.step \in {"REFUSED", "GRANTED"}
      /\ answer.step = "REFUSED" => answer = Refused
      /\ answer.step = "GRANTED" => answer = Granted(Successor(t)) /\ t.sequence < MaxSequence /\ Successor(t) \in Token
  <2>1. Refused \in JobState /\ Refused.step = "REFUSED"
    BY DEF Refused, JobState
  <2>2. ASSUME t.sequence < MaxSequence
        PROVE  /\ Successor(t) \in Token /\ Granted(Successor(t)) \in JobState
               /\ Granted(Successor(t)).step = "GRANTED"
    <3>1. t.sequence + 1 \in 1..MaxSequence
      BY <1>1, <2>2
    <3>2. Successor(t) \in Token
      BY <3>1 DEF Successor, Token
    <3> QED
      BY <3>2 DEF Granted, JobState
  <2> QED
    BY <2>1, <2>2 DEF Answers
<1>3. Successor(t).session = s /\ Successor(t).sequence = t.sequence + 1
  BY DEF Successor, Token
<1>4. Granted(Successor(t)).token = Successor(t) /\ Granted(Successor(t)) # Refused
  BY DEF Granted, Refused
<1>5. CASE Reused(t, answer)
  <2>1. PICK r : /\ r = [family[s] EXCEPT !.status = IF @ = "OPEN" THEN "REUSED" ELSE @]
                 /\ family' = [family EXCEPT ![s] = r]
    BY <1>5 DEF Reused
  <2>2. r \in Row /\ (family[s].status # "NONE" => r.status # "NONE")
    BY <1>1, <2>1
  <2>3. family'[s] = r /\ \A x \in Family \ {s} : family'[x] = family[x]
    BY <1>1, <2>1 DEF RtTypeOK
  <2>4. answer = Refused /\ t.sequence # family[s].version
    BY <1>5 DEF Reused
  <2>5. family' \in [Family -> Row]
    BY <1>1, <2>1, <2>2 DEF RtTypeOK
  <2> QED
    BY <1>1, <1>2, <2>2, <2>3, <2>4, <2>5 DEF Refused
<1>6. CASE Rotates(t, answer)
  <2>1. PICK r : r = [family[s] EXCEPT !.version = @ + 1] /\ family' = [family EXCEPT ![s] = r]
    BY <1>6 DEF Rotates
  <2>2. family[s].version + 1 \in 0..MaxSequence /\ t.sequence = family[s].version /\ family[s].status = "OPEN"
    BY <1>1, <1>6 DEF Rotates
  <2>3. r \in Row /\ r.status = "OPEN" /\ r.version = t.sequence + 1
    BY <1>1, <2>1, <2>2
  <2>4. family'[s] = r /\ \A x \in Family \ {s} : family'[x] = family[x]
    BY <1>1, <2>1 DEF RtTypeOK
  <2>5. family' \in [Family -> Row]
    BY <1>1, <2>1, <2>3 DEF RtTypeOK
  <2> QED
    BY <1>1, <1>2, <1>3, <1>4, <2>3, <2>4, <2>5
<1>7. CASE Denies(t, answer)
  <2>1. answer = Refused
    BY <1>7 DEF Denies
  <2>2. CASE UNCHANGED family
    BY <1>1, <1>2, <2>1, <2>2 DEF Refused, RtTypeOK
  <2>3. CASE Set(s, "ENDED")
    <3>1. PICK r : r = [family[s] EXCEPT !.status = "ENDED"] /\ family' = [family EXCEPT ![s] = r]
      BY <2>3 DEF Set
    <3>2. r \in Row /\ r.status = "ENDED"
      BY <1>1, <3>1
    <3>3. family'[s] = r /\ \A x \in Family \ {s} : family'[x] = family[x]
      BY <1>1, <3>1 DEF RtTypeOK
    <3>4. family' \in [Family -> Row]
      BY <1>1, <3>1, <3>2 DEF RtTypeOK
    <3> QED
      BY <1>1, <1>2, <2>1, <3>2, <3>3, <3>4 DEF Refused
  <2> QED
    BY <1>7, <2>2, <2>3 DEF Denies
<1> QED
  BY <1>5, <1>6, <1>7 DEF Rotation

LEMMA TabsStay ==
    ASSUME RtInv, UNCHANGED rtBrowser, excused \subseteq excused',
           \A s \in WebSession : family'[s].version = family[s].version \/ s \in excused'
    PROVE  TabsPlaced'
<1>1. TabsPlaced /\ UNCHANGED <<cookie, tab>>
  BY DEF RtInv, rtBrowser
<1>2. ASSUME NEW t, OfTheBrowser(t), Fresh(t)
      PROVE  t.session \in excused' \/ t.sequence = family'[t.session].version
  BY <1>2 DEF OfTheBrowser, Fresh
<1>3. \A b \in Tab : Busy(b) => OfTheBrowser(tab[b].token) /\ Fresh(tab[b].token)'
  BY <1>1, <1>2 DEF TabsPlaced, Fresh
<1>4. cookie # Nil => \/ Fresh(cookie)'
                      \/ \E b \in Tab : tab[b].step = "GRANTED" /\ tab[b].token.session = cookie.session
  BY <1>1, <1>2 DEF TabsPlaced, Fresh
<1> QED
  BY <1>1, <1>3, <1>4 DEF TabsPlaced, Busy, OfTheBrowser

LEMMA PhoneStays ==
    ASSUME RtInv, UNCHANGED <<phoneMemory, vault, screen, phone>>, excused \subseteq excused',
           \A s \in PhoneSession : family'[s].version = family[s].version \/ s \in excused',
           \A s \in PhoneSession : family[s].status # "NONE" => family'[s].status # "NONE"
    PROVE  PhonePlaced'
<1>1. PhonePlaced
  BY DEF RtInv
<1>2. ASSUME NEW t, OfThePhone(t) PROVE OfThePhone(t)'
  BY <1>2 DEF OfThePhone
<1>3. ASSUME NEW t, OfThePhone(t), t # Nil, Fresh(t) PROVE Fresh(t)'
  BY <1>3 DEF OfThePhone, Fresh
<1>4. PhoneTokens'
  BY <1>1, <1>2 DEF PhonePlaced, PhoneTokens, Carries
<1>5. JobsPlaced' /\ Apart("LOGIN")' /\ Apart("RETRY")'
  BY <1>1 DEF PhonePlaced, JobsPlaced, Apart, Carries
<1>6. CopiesPlaced'
  <2>1. \A j \in Carrier : Carries(j) => phone[j].token # Nil
    <3>1. \A t \in Token : t # Nil
      BY DEF Token, Nil
    <3> QED
      BY <3>1 DEF RtInv, RtTypeOK, Carries, JobState, Carrier, Job
  <2> QED
    BY <1>1, <1>3, <2>1 DEF PhonePlaced, PhoneTokens, CopiesPlaced, Carries, Renewing
<1> QED
  BY <1>4, <1>5, <1>6 DEF PhonePlaced
-----------------------------------------------------------------------------
(* The phone's own steps, which the server takes no notice of.               *)
LEMMA TurnTaken ==
    ASSUME RtTypeOK, NEW j \in Job, NEW st \in JobState, Turns(j, st)
    PROVE  /\ phone' \in [Job -> JobState] /\ phone'[j] = st
           /\ \A i \in Job \ {j} : phone'[i] = phone[i]
BY DEF RtTypeOK, Turns

LEMMA JobTokens ==
    ASSUME RtTypeOK
    PROVE  /\ \A j \in Job : Carries(j) => phone[j].token \in Token
           /\ \A j \in Job : phone[j].step = "NONE" => phone[j] = No
           /\ Nil \notin Token
           /\ \A j \in Job : phone[j].step \in {"NONE", "REFUSED", "CLEARING", "SENT", "GRANTED", "SAVED", "LOADED"}
<1>1. \A j \in Job : phone[j] \in JobState
  BY DEF RtTypeOK
<1>2. Nil \notin Token
  BY DEF Token, Nil
<1>3. \A st \in JobState : /\ st.step \in {"NONE", "REFUSED", "CLEARING", "SENT", "GRANTED", "SAVED", "LOADED"}
                           /\ st.step \in {"SENT", "GRANTED", "SAVED", "LOADED"} => st.token \in Token
  BY DEF JobState
<1>4. \A st \in JobState : st.step = "NONE" => st = No
  <2>1. \A st \in [step: {"NONE", "REFUSED", "CLEARING"}] : st.step = "NONE" => st = [step |-> "NONE"]
    OBVIOUS
  <2>2. \A st \in JobState : st.step = "NONE" => st \in [step: {"NONE", "REFUSED", "CLEARING"}]
    BY DEF JobState
  <2> QED
    BY <2>1, <2>2 DEF No
<1> QED
  BY <1>1, <1>2, <1>3, <1>4 DEF Carries

LEMMA States ==
    /\ No \in JobState /\ No.step = "NONE" /\ Refused \in JobState /\ Refused.step = "REFUSED"
    /\ [step |-> "CLEARING"] \in JobState
    /\ \A t \in Token : /\ Sent(t) \in JobState /\ Sent(t).step = "SENT" /\ Sent(t).token = t
                        /\ [step |-> "SAVED", token |-> t] \in JobState
                        /\ [step |-> "LOADED", token |-> t] \in JobState
                        /\ Granted(t) \in JobState /\ Granted(t).step = "GRANTED" /\ Granted(t).token = t
BY DEF JobState, No, Refused, Sent, Granted

LEMMA NoState == No \in JobState /\ No.step = "NONE"
BY DEF JobState, No
LEMMA SentState ==
    ASSUME NEW t \in Token
    PROVE  Sent(t) \in JobState /\ Sent(t).step = "SENT" /\ Sent(t).token = t
BY DEF JobState, Sent
LEMMA GrantedState ==
    ASSUME NEW t \in Token
    PROVE  Granted(t) \in JobState /\ Granted(t).step = "GRANTED" /\ Granted(t).token = t
BY DEF JobState, Granted

LEMMA PhoneAlone ==
    ASSUME RtInv, RtTypeOK', UNCHANGED <<family, excused, rtBrowser>>, PhonePlaced'
    PROVE  RtInv'
<1>1. TabsPlaced'
  BY TabsStay
<1> QED
  BY <1>1 DEF RtInv, ReuseExplained

LEMMA RefreshKeeps == ASSUME RtInv, Refresh PROVE RtInv'
<1>1. /\ RtTypeOK /\ PhoneTokens /\ JobsPlaced /\ CopiesPlaced /\ Apart("LOGIN") /\ Apart("RETRY")
      /\ phoneMemory \in Token /\ phoneMemory # Nil /\ phone["REFRESH"].step = "NONE"
      /\ UNCHANGED <<family, adrift, excused, cookie, tab, phoneMemory, vault, screen, faults>>
  BY DEF RtInv, PhonePlaced, Refresh, MayRefresh, Step, RtTypeOK, NoToken, rtServer, rtBrowser
<1>2. /\ phone' \in [Job -> JobState] /\ phone'["REFRESH"] = Sent(phoneMemory)
      /\ \A i \in Job \ {"REFRESH"} : phone'[i] = phone[i]
  BY <1>1, TurnTaken, States DEF Refresh, Job
<1>3. phone'["REFRESH"].step = "SENT" /\ phone'["REFRESH"].token = phoneMemory
  BY <1>1, <1>2, States
<1>4. phone'["LOGIN"] = phone["LOGIN"] /\ phone'["RETRY"] = phone["RETRY"] /\ phone'["LOGOUT"] = phone["LOGOUT"]
  BY <1>2 DEF Job
<1>5. RtTypeOK'
  BY <1>1, <1>2 DEF RtTypeOK
<1>6. PhoneTokens'
  BY <1>1, <1>3, <1>4 DEF PhoneTokens, Carries, Carrier, OfThePhone
<1>7. JobsPlaced'
  BY <1>1, <1>3, <1>4 DEF JobsPlaced
<1>8. CopiesPlaced'
  BY <1>1, <1>3, <1>4 DEF CopiesPlaced, Carries, Carrier, Renewing, Fresh
<1>9. Apart("LOGIN")' /\ Apart("RETRY")'
  BY <1>1, <1>3, <1>4 DEF Apart, Carries, Carrier
<1> QED
  BY <1>1, <1>5, <1>6, <1>7, <1>8, <1>9, PhoneAlone DEF PhonePlaced, rtBrowser

LEMMA RefusedKeeps == ASSUME RtInv, RefreshRefused PROVE RtInv'
<1>1. /\ RtTypeOK /\ PhoneTokens /\ JobsPlaced /\ CopiesPlaced /\ Apart("LOGIN") /\ Apart("RETRY")
      /\ phone["REFRESH"].step = "REFUSED" /\ phoneMemory' = Nil
      /\ UNCHANGED <<family, adrift, excused, cookie, tab, vault, screen, faults>>
  BY DEF RtInv, PhonePlaced, RefreshRefused, Step, rtServer, rtBrowser
<1>2. /\ phone' \in [Job -> JobState] /\ phone'["REFRESH"] = [step |-> "CLEARING"]
      /\ \A i \in Job \ {"REFRESH"} : phone'[i] = phone[i]
  BY <1>1, TurnTaken, States DEF RefreshRefused, Job
<1>4. /\ phone'["LOGIN"] = phone["LOGIN"] /\ phone'["RETRY"] = phone["RETRY"] /\ phone'["LOGOUT"] = phone["LOGOUT"]
      /\ phone'["REFRESH"].step = "CLEARING"
  BY <1>2 DEF Job
<1>5. RtTypeOK'
  BY <1>1, <1>2 DEF RtTypeOK, NoToken
<1>6. PhoneTokens'
  BY <1>1, <1>4 DEF PhoneTokens, Carries, Carrier, OfThePhone
<1>7. JobsPlaced'
  BY <1>1, <1>4, States DEF JobsPlaced, Job
<1>8. CopiesPlaced'
  BY <1>1, <1>4 DEF CopiesPlaced, Carries, Carrier, Renewing, Fresh
<1>9. Apart("LOGIN")' /\ Apart("RETRY")'
  BY <1>1, <1>4 DEF Apart, Carries, Carrier
<1> QED
  BY <1>1, <1>5, <1>6, <1>7, <1>8, <1>9, PhoneAlone DEF PhonePlaced, rtBrowser

LEMMA SaveKeeps == ASSUME RtInv, NEW j \in {"LOGIN", "REFRESH"}, Save(j) PROVE RtInv'
<1>1. /\ RtTypeOK /\ PhoneTokens /\ JobsPlaced /\ CopiesPlaced /\ Apart("LOGIN") /\ Apart("RETRY")
      /\ phone[j].step = "GRANTED" /\ j \in Job /\ j \in Carrier
      /\ UNCHANGED <<family, adrift, excused, cookie, tab, phoneMemory, screen, faults>>
  BY DEF RtInv, PhonePlaced, Save, Step, rtServer, rtBrowser, Job, Carrier
<1>2. PICK t \in Token : t = phone[j].token
  BY <1>1, JobTokens DEF Carries
<1>3. /\ vault' = t /\ phone' \in [Job -> JobState] /\ phone'[j] = [step |-> "SAVED", token |-> t]
      /\ \A i \in Job \ {j} : phone'[i] = phone[i]
  BY <1>1, <1>2, TurnTaken, States DEF Save
<1>4. /\ phone'[j].step = "SAVED" /\ phone'[j].token = t /\ Carries(j) /\ Carries(j)'
      /\ \A i \in Carrier \ {j} : phone'[i] = phone[i]
  BY <1>1, <1>3 DEF Job, Carrier, Carries
<1>5. RtTypeOK'
  BY <1>1, <1>2, <1>3 DEF RtTypeOK
<1>6. OfThePhone(t) /\ Fresh(t) /\ t # Nil
  BY <1>1, <1>2, <1>4, JobTokens DEF PhoneTokens, CopiesPlaced
<1>7. PhoneTokens'
  <2>1. OfThePhone(t)' /\ OfThePhone(phoneMemory)'
    BY <1>1, <1>6 DEF PhoneTokens, OfThePhone
  <2>2. ASSUME NEW i \in Carrier, Carries(i)' PROVE OfThePhone(phone[i].token)'
    <3>1. CASE i = j
      BY <1>4, <2>1, <1>3, <3>1
    <3>2. CASE i # j
      BY <1>1, <1>4, <2>2, <3>2 DEF PhoneTokens, OfThePhone, Carries
    <3> QED
      BY <3>1, <3>2
  <2> QED
    BY <1>3, <2>1, <2>2 DEF PhoneTokens
<1>8. JobsPlaced'
  BY <1>1, <1>3, <1>4, States DEF JobsPlaced, Job, Carrier
<1>9. CopiesPlaced'
  <2>1. Fresh(t)'
    BY <1>1, <1>6 DEF Fresh
  <2>2. ASSUME NEW i \in Carrier, Carries(i)' PROVE Fresh(phone[i].token)'
    <3>1. CASE i = j
      BY <1>4, <2>1, <1>3, <3>1
    <3>2. CASE i # j
      BY <1>1, <1>4, <2>2, <3>2 DEF CopiesPlaced, Fresh, Carries
    <3> QED
      BY <3>1, <3>2
  <2>3. phoneMemory # Nil => Fresh(phoneMemory)' \/ Renewing({"GRANTED", "SAVED"}, phoneMemory)'
    BY <1>1, <1>2, <1>3, <1>4 DEF CopiesPlaced, Fresh, Renewing, Carrier
  <2> QED
    BY <1>1, <1>3, <2>1, <2>2, <2>3 DEF CopiesPlaced
<1>10. Apart("LOGIN")' /\ Apart("RETRY")'
  <2>1. \A i \in Carrier : Carries(i)' => Carries(i) /\ phone'[i].token = phone[i].token
    BY <1>2, <1>3, <1>4 DEF Carries
  <2> QED
    BY <1>1, <2>1 DEF Apart, Carrier
<1> QED
  BY <1>1, <1>5, <1>7, <1>8, <1>9, <1>10, PhoneAlone DEF PhonePlaced, rtBrowser

LEMMA AdoptKeeps == ASSUME RtInv, NEW j \in {"LOGIN", "REFRESH"}, Adopt(j) PROVE RtInv'
<1>1. /\ RtTypeOK /\ PhoneTokens /\ JobsPlaced /\ CopiesPlaced /\ Apart("LOGIN") /\ Apart("RETRY")
      /\ phone[j].step = "SAVED" /\ j \in Job /\ j \in Carrier /\ screen' = "IN"
      /\ UNCHANGED <<family, adrift, excused, cookie, tab, vault, faults>>
  BY DEF RtInv, PhonePlaced, Adopt, Step, rtServer, rtBrowser, Job, Carrier
<1>2. PICK t \in Token : t = phone[j].token /\ Carries(j)
  BY <1>1, JobTokens DEF Carries
<1>3. /\ phoneMemory' = t /\ phone' \in [Job -> JobState] /\ phone'[j] = No
      /\ \A i \in Job \ {j} : phone'[i] = phone[i]
  BY <1>1, <1>2, TurnTaken, States DEF Adopt
<1>4. /\ phone'[j].step = "NONE" /\ ~Carries(j)'
      /\ \A i \in Carrier \ {j} : phone'[i] = phone[i]
  BY <1>1, <1>3, States DEF Job, Carrier, Carries
<1>5. RtTypeOK'
  BY <1>1, <1>2, <1>3 DEF RtTypeOK
<1>6. OfThePhone(t) /\ Fresh(t) /\ t # Nil
  BY <1>1, <1>2, JobTokens DEF PhoneTokens, CopiesPlaced
<1>7. PhoneTokens'
  <2>1. OfThePhone(t)' /\ OfThePhone(vault)'
    BY <1>1, <1>6 DEF PhoneTokens, OfThePhone
  <2>2. ASSUME NEW i \in Carrier, Carries(i)' PROVE OfThePhone(phone[i].token)'
    BY <1>1, <1>4, <2>2 DEF PhoneTokens, OfThePhone, Carries
  <2> QED
    BY <1>3, <2>1, <2>2 DEF PhoneTokens
<1>8. JobsPlaced'
  BY <1>1, <1>3, <1>4, States DEF JobsPlaced, Job, Carrier
<1>9. CopiesPlaced'
  <2>1. Fresh(t)'
    BY <1>1, <1>6 DEF Fresh
  <2>2. ASSUME NEW i \in Carrier, Carries(i)' PROVE Fresh(phone[i].token)'
    BY <1>1, <1>4, <2>2 DEF CopiesPlaced, Fresh, Carries
  <2>3. vault # Nil => Fresh(vault)' \/ Renewing({"GRANTED"}, vault)'
    BY <1>1, <1>3, <1>4 DEF CopiesPlaced, Fresh, Renewing, Carrier
  <2> QED
    BY <1>1, <1>3, <2>1, <2>2, <2>3 DEF CopiesPlaced
<1>10. Apart("LOGIN")' /\ Apart("RETRY")'
  <2>1. \A i \in Carrier : Carries(i)' => i # j /\ Carries(i) /\ phone'[i].token = phone[i].token
    BY <1>4 DEF Carries
  <2> QED
    BY <1>1, <1>2, <1>3, <2>1 DEF Apart, Carrier
<1> QED
  BY <1>1, <1>5, <1>7, <1>8, <1>9, <1>10, PhoneAlone DEF PhonePlaced, rtBrowser
(* A job that ends, or begins, with no token to use.                         *)
LEMMA JobEnds ==
    ASSUME RtInv, NEW j \in Job, phone' \in [Job -> JobState], ~Carries(j)' \/ j = "LOGOUT",
           \A i \in Job \ {j} : phone'[i] = phone[i], JobsPlaced',
           phoneMemory' \in {phoneMemory, Nil}, vault' \in {vault, Nil},
           excused \subseteq excused',
           \A s \in PhoneSession : family'[s].version = family[s].version,
           \A s \in PhoneSession : family[s].status # "NONE" => family'[s].status # "NONE",
           phoneMemory' # Nil /\ j = "REFRESH" =>
               phone[j].step \notin {"GRANTED", "SAVED"} \/ phone[j].token.session \in excused',
           vault' # Nil /\ j = "REFRESH" =>
               phone[j].step # "GRANTED" \/ phone[j].token.session \in excused'
    PROVE  PhonePlaced'
<1>1. RtTypeOK /\ PhoneTokens /\ JobsPlaced /\ CopiesPlaced /\ Apart("LOGIN") /\ Apart("RETRY")
  BY DEF RtInv, PhonePlaced
<1>2. \A i \in Carrier : Carries(i)' => i # j /\ phone'[i] = phone[i] /\ Carries(i)
  BY DEF Carries, Carrier, Job
<1>3. \A i \in Carrier : Carries(i) => phone[i].token \in Token /\ phone[i].token # Nil
  BY <1>1, JobTokens DEF Carrier, Job
<1>4. ASSUME NEW t, OfThePhone(t) PROVE t = Nil \/ (t \in Token /\ t.session \in PhoneSession /\ family'[t.session].status # "NONE")
  BY <1>4 DEF OfThePhone
<1>5. ASSUME NEW t, OfThePhone(t), t # Nil, Fresh(t) PROVE t.session \in excused' \/ t.sequence = family'[t.session].version
  BY <1>5 DEF OfThePhone, Fresh
<1>6. PhoneTokens'
  BY <1>1, <1>2, <1>4 DEF PhoneTokens, OfThePhone
<1>7. \A j2 \in Carrier : Carries(j2)' => Fresh(phone[j2].token)'
  BY <1>1, <1>2, <1>3, <1>5 DEF PhoneTokens, CopiesPlaced, Fresh
<1>8. phoneMemory' # Nil => Fresh(phoneMemory)' \/ Renewing({"GRANTED", "SAVED"}, phoneMemory)'
  <2> SUFFICES ASSUME phoneMemory' # Nil
               PROVE  Fresh(phoneMemory)' \/ Renewing({"GRANTED", "SAVED"}, phoneMemory)'
    OBVIOUS
  <2>1. phoneMemory' = phoneMemory /\ OfThePhone(phoneMemory) /\ phoneMemory # Nil
    BY <1>1 DEF PhoneTokens
  <2>2. CASE Fresh(phoneMemory)
    BY <1>5, <2>1, <2>2 DEF Fresh
  <2>3. CASE ~Fresh(phoneMemory)
    <3>1. phone["REFRESH"].step \in {"GRANTED", "SAVED"} /\ phone["REFRESH"].token.session = phoneMemory.session
      BY <1>1, <2>1, <2>3 DEF CopiesPlaced, Renewing
    <3>2. CASE j = "REFRESH"
      BY <2>1, <3>1, <3>2 DEF Fresh
    <3>3. CASE j # "REFRESH"
      BY <2>1, <3>1, <3>3 DEF Renewing, Job
    <3> QED
      BY <3>2, <3>3
  <2> QED
    BY <2>2, <2>3
<1>9. vault' # Nil => Fresh(vault)' \/ Renewing({"GRANTED"}, vault)'
  <2> SUFFICES ASSUME vault' # Nil
               PROVE  Fresh(vault)' \/ Renewing({"GRANTED"}, vault)'
    OBVIOUS
  <2>1. vault' = vault /\ OfThePhone(vault) /\ vault # Nil
    BY <1>1 DEF PhoneTokens
  <2>2. CASE Fresh(vault)
    BY <1>5, <2>1, <2>2 DEF Fresh
  <2>3. CASE ~Fresh(vault)
    <3>1. phone["REFRESH"].step = "GRANTED" /\ phone["REFRESH"].token.session = vault.session
      BY <1>1, <2>1, <2>3 DEF CopiesPlaced, Renewing
    <3>2. CASE j = "REFRESH"
      BY <2>1, <3>1, <3>2 DEF Fresh
    <3>3. CASE j # "REFRESH"
      BY <2>1, <3>1, <3>3 DEF Renewing, Job
    <3> QED
      BY <3>2, <3>3
  <2> QED
    BY <2>2, <2>3
<1>10. Apart("LOGIN")' /\ Apart("RETRY")'
  BY <1>1, <1>2 DEF Apart, Carrier
<1> QED
  BY <1>6, <1>7, <1>8, <1>9, <1>10 DEF PhonePlaced, CopiesPlaced

LEMMA ClearKeeps == ASSUME RtInv, NEW j \in {"REFRESH", "LOGOUT"}, Clear(j) PROVE RtInv'
<1>1. /\ RtTypeOK /\ JobsPlaced /\ phone[j].step = "CLEARING" /\ j \in Job
      /\ vault' \in {vault, Nil} /\ screen' \in {"EXPIRED", "OUT"} /\ Turns(j, No)
      /\ UNCHANGED <<family, adrift, excused, cookie, tab, phoneMemory>>
      /\ faults' \in 0..MaxFaults
  BY RefreshTokensAssumption DEF RtInv, RtTypeOK, PhonePlaced, Clear, Step, rtServer, rtBrowser, Job, Fault
<1>2. /\ phone' \in [Job -> JobState] /\ phone'[j] = No /\ phone'[j].step = "NONE"
      /\ \A i \in Job \ {j} : phone'[i] = phone[i]
  BY <1>1, TurnTaken, States
<1>3. RtTypeOK'
  BY <1>1, <1>2 DEF RtTypeOK, NoToken
<1>4. JobsPlaced' /\ ~Carries(j)'
  BY <1>1, <1>2 DEF JobsPlaced, Job, Carries
<1>5. PhonePlaced'
  BY <1>1, <1>2, <1>4, JobEnds
<1> QED
  BY <1>1, <1>3, <1>5, PhoneAlone DEF rtBrowser

SessionsEnd ==
    /\ family' \in [Family -> [status: {"NONE", "OPEN", "ENDED", "REUSED"}, version: 0..MaxSequence]]
    /\ \A s \in Family : /\ family'[s].version = family[s].version
                         /\ family[s].status # "NONE" => family'[s].status # "NONE"
                         /\ family'[s].status = "REUSED" => family[s].status = "REUSED"
LEMMA SessionEnds ==
    ASSUME RtTypeOK, NEW s \in Family, UNCHANGED family \/ Set(s, "ENDED"), family[s].status # "NONE" \/ UNCHANGED family
    PROVE  SessionsEnd
<1>1. CASE UNCHANGED family
  BY <1>1 DEF RtTypeOK, SessionsEnd
<1>2. CASE Set(s, "ENDED")
  <2>1. PICK r : r = [family[s] EXCEPT !.status = "ENDED"] /\ family' = [family EXCEPT ![s] = r]
    BY <1>2 DEF Set
  <2>2. family[s] \in [status: {"NONE", "OPEN", "ENDED", "REUSED"}, version: 0..MaxSequence]
    BY DEF RtTypeOK
  <2>3. r \in [status: {"NONE", "OPEN", "ENDED", "REUSED"}, version: 0..MaxSequence]
        /\ r.status = "ENDED" /\ r.version = family[s].version
    BY <2>1, <2>2
  <2>4. family'[s] = r /\ \A x \in Family \ {s} : family'[x] = family[x]
    BY <2>1 DEF RtTypeOK
  <2>5. family' \in [Family -> [status: {"NONE", "OPEN", "ENDED", "REUSED"}, version: 0..MaxSequence]]
    BY <2>1, <2>3 DEF RtTypeOK
  <2> QED
    BY <2>3, <2>4, <2>5 DEF SessionsEnd
<1> QED
  BY <1>1, <1>2

LEMMA LogOutKeeps ==
    ASSUME RtInv, LogOut \/ LogOutAnswered \/ ResetForAnotherAccount
    PROVE  RtInv'
<1>1. /\ RtTypeOK /\ JobsPlaced /\ UNCHANGED <<vault, screen, adrift, excused, cookie, tab>>
      /\ phoneMemory' \in {phoneMemory, Nil} /\ faults' \in 0..MaxFaults
  BY RefreshTokensAssumption DEF RtInv, RtTypeOK, PhonePlaced, LogOut, LogOutAnswered, ResetForAnotherAccount,
     Fault, rtServer, rtBrowser
<1>2. PICK st \in JobState : Turns("LOGOUT", st) /\ (screen = "START" => FALSE)
  <2>1. LogOut => phoneMemory \in Token /\ screen = "IN"
    BY <1>1 DEF RtTypeOK, LogOut, NoToken
  <2>2. LogOutAnswered => screen # "START"
    BY <1>1, States DEF LogOutAnswered, JobsPlaced, Step, Job
  <2>3. ResetForAnotherAccount => screen # "START"
    BY DEF ResetForAnotherAccount
  <2> QED
    BY <2>1, <2>2, <2>3, States DEF LogOut, LogOutAnswered, ResetForAnotherAccount
<1>3. /\ phone' \in [Job -> JobState] /\ \A i \in Job \ {"LOGOUT"} : phone'[i] = phone[i]
  BY <1>1, <1>2, TurnTaken DEF Job
<1>4. SessionsEnd
  <2>1. CASE UNCHANGED family
    BY <1>1, <2>1 DEF RtTypeOK, SessionsEnd
  <2>2. LogOutAnswered => phone["LOGOUT"].token.session \in Family
    BY <1>1, JobTokens DEF LogOutAnswered, Step, Carries, Job, Token
  <2>3. ASSUME LogOutAnswered PROVE SessionsEnd
    BY <1>1, <2>2, <2>3, SessionEnds DEF LogOutAnswered
  <2> QED
    BY <2>1, <2>3 DEF LogOut, ResetForAnotherAccount, rtServer
<1>5. RtTypeOK'
  BY <1>1, <1>3, <1>4 DEF RtTypeOK, NoToken, SessionsEnd
<1>6. JobsPlaced'
  BY <1>1, <1>2, <1>3 DEF JobsPlaced, Job
<1>7. PhonePlaced'
  <2>1. "LOGOUT" \in Job /\ vault' \in {vault, Nil} /\ excused \subseteq excused'
    BY <1>1 DEF Job
  <2>2. \A s \in PhoneSession : family'[s].version = family[s].version
    BY <1>4 DEF Family, SessionsEnd
  <2>3. \A s \in PhoneSession : family[s].status # "NONE" => family'[s].status # "NONE"
    BY <1>4 DEF Family, SessionsEnd
  <2> QED
    BY <1>1, <1>3, <1>6, <2>1, <2>2, <2>3, JobEnds
<1>8. TabsPlaced'
  BY <1>1, <1>4, TabsStay DEF rtBrowser, Family, SessionsEnd
<1> QED
  BY <1>1, <1>4, <1>5, <1>7, <1>8 DEF RtInv, ReuseExplained, SessionsEnd

LEMMA RetryKeeps == ASSUME RtInv, Retry PROVE RtInv'
<1>1. /\ RtTypeOK /\ PhoneTokens /\ JobsPlaced /\ CopiesPlaced /\ Apart("LOGIN") /\ Apart("RETRY")
      /\ phone["RETRY"].step = "NONE" /\ phoneMemory = Nil /\ screen = "EXPIRED"
      /\ UNCHANGED <<phoneMemory, vault, family, adrift, cookie, tab, faults>>
  BY DEF RtInv, PhonePlaced, Retry, Step, rtBrowser
<1>2. CASE vault = Nil
  <2>1. screen' = "OUT" /\ UNCHANGED phone /\ excused' = excused
    BY <1>2 DEF Retry
  <2>2. RtTypeOK'
    BY <1>1, <2>1 DEF RtTypeOK
  <2>3. JobsPlaced'
    BY <1>1, <2>1 DEF JobsPlaced
  <2>4. PhoneTokens' /\ CopiesPlaced' /\ Apart("LOGIN")' /\ Apart("RETRY")'
    BY <1>1, <2>1 DEF PhoneTokens, CopiesPlaced, Apart, OfThePhone, Fresh, Carries, Renewing
  <2> QED
    BY <1>1, <2>1, <2>2, <2>3, <2>4, PhoneAlone DEF PhonePlaced, rtBrowser
<1>3. CASE vault # Nil
  <2>1. /\ vault \in Token /\ OfThePhone(vault) /\ UNCHANGED screen
        /\ Turns("RETRY", [step |-> "LOADED", token |-> vault])
    BY <1>1, <1>3 DEF RtTypeOK, NoToken, PhoneTokens, Retry
  <2>2. /\ phone' \in [Job -> JobState] /\ phone'["RETRY"] = [step |-> "LOADED", token |-> vault]
        /\ \A i \in Job \ {"RETRY"} : phone'[i] = phone[i]
    BY <1>1, <2>1, TurnTaken, States DEF Job
  <2>3. /\ phone'["RETRY"].step = "LOADED" /\ phone'["RETRY"].token = vault
        /\ phone'["LOGIN"] = phone["LOGIN"] /\ phone'["REFRESH"] = phone["REFRESH"]
    BY <2>2 DEF Job
  <2>4. /\ excused' \in {excused, excused \cup {vault.session}}
        /\ vault.session \in excused' \/ \A j \in Job : phone[j] = No
    BY <1>3 DEF Retry
  <2>5. RtTypeOK'
    <3>1. vault.session \in Family
      BY <2>1 DEF Token
    <3> QED
      BY <1>1, <2>1, <2>2, <2>4, <3>1 DEF RtTypeOK
  <2>6. ASSUME NEW t, Fresh(t) PROVE Fresh(t)'
    BY <1>1, <2>4, <2>6 DEF Fresh
  <2>7. Fresh(vault)'
    <3>1. CASE Fresh(vault)
      BY <1>1, <2>6, <3>1 DEF Fresh
    <3>2. CASE ~Fresh(vault)
      <4>1. phone["REFRESH"].step = "GRANTED"
        BY <1>1, <1>3, <3>2 DEF CopiesPlaced, Renewing
      <4>2. phone["REFRESH"] # No
        BY <4>1, States
      <4> QED
        BY <1>1, <2>4, <4>2 DEF Fresh, Job
    <3> QED
      BY <3>1, <3>2
  <2>8. PhoneTokens'
    BY <1>1, <2>1, <2>3 DEF PhoneTokens, Carries, Carrier, OfThePhone
  <2>9. JobsPlaced'
    BY <1>1, <2>1, <2>3 DEF JobsPlaced
  <2>10. CopiesPlaced'
    <3>1. \A j \in Carrier : Carries(j)' => Fresh(phone[j].token)'
      BY <1>1, <2>3, <2>4, <2>7 DEF CopiesPlaced, Carries, Carrier, Fresh
    <3> QED
      BY <1>1, <2>7, <3>1 DEF CopiesPlaced
  <2>11. Apart("RETRY")'
    BY <1>1, <2>2, <2>3, <2>4, States DEF Apart, Carries, Carrier, Job
  <2>12. Apart("LOGIN")'
    BY <1>1, <2>2, <2>3, <2>4, States DEF Apart, Carries, Carrier, Job
  <2>13. TabsPlaced'
    BY <1>1, <2>4, TabsStay DEF rtBrowser
  <2> QED
    BY <1>1, <2>4, <2>5, <2>8, <2>9, <2>10, <2>11, <2>12, <2>13 DEF RtInv, PhonePlaced, ReuseExplained
<1> QED
  BY <1>2, <1>3
LEMMA LoadedKeeps == ASSUME RtInv, RetryLoaded PROVE RtInv'
<1>1. /\ RtTypeOK /\ PhoneTokens /\ JobsPlaced /\ CopiesPlaced /\ Apart("LOGIN") /\ Apart("RETRY")
      /\ phone["RETRY"].step = "LOADED"
      /\ UNCHANGED <<vault, screen, family, adrift, excused, cookie, tab, faults>>
  BY DEF RtInv, PhonePlaced, RetryLoaded, Step, rtServer, rtBrowser
<1>2. PICK t \in Token : t = phone["RETRY"].token /\ phoneMemory' = t
  BY <1>1, JobTokens DEF RetryLoaded, Carries, Job
<1>3. PICK st : /\ st = IF phone["REFRESH"].step = "NONE" THEN Sent(t) ELSE phone["REFRESH"]
                /\ phone' = [phone EXCEPT !["RETRY"] = No, !["REFRESH"] = st]
  BY <1>1, <1>2 DEF RetryLoaded, Step, RtTypeOK, Job
<1>4. /\ phone' \in [Job -> JobState] /\ phone'["RETRY"] = No
      /\ phone'["REFRESH"] = IF phone["REFRESH"].step = "NONE" THEN Sent(t) ELSE phone["REFRESH"]
      /\ phone'["LOGIN"] = phone["LOGIN"]
  <2>1. phone \in [Job -> JobState] /\ No \in JobState /\ Sent(t) \in JobState
    BY <1>1, NoState, SentState DEF RtTypeOK
  <2>2. st \in JobState
    BY <1>3, <2>1 DEF Job
  <2>3. \A j \in Job : phone'[j] = IF j = "REFRESH" THEN st ELSE IF j = "RETRY" THEN No ELSE phone[j]
    BY <1>3, <2>1 DEF Job
  <2>4. phone' \in [Job -> JobState]
    BY <1>3, <2>1, <2>2 DEF Job
  <2> QED
    BY <1>3, <2>3, <2>4 DEF Job
<1>5. /\ OfThePhone(t) /\ Fresh(t) /\ t # Nil /\ screen # "START"
  BY <1>1, <1>2, JobTokens, States DEF PhoneTokens, CopiesPlaced, Carries, Carrier, JobsPlaced, Job
<1>6. /\ phone'["RETRY"].step = "NONE"
      /\ \/ phone'["REFRESH"].step = "SENT" /\ phone'["REFRESH"].token = t
         \/ phone'["REFRESH"] = phone["REFRESH"]
      /\ phone["REFRESH"].step = "NONE" => phone'["REFRESH"].step = "SENT" /\ phone'["REFRESH"].token = t
      /\ phone["REFRESH"].step # "NONE" => phone'["REFRESH"] = phone["REFRESH"]
  <2>1. Sent(t).step = "SENT" /\ Sent(t).token = t /\ No.step = "NONE"
    BY NoState, SentState
  <2> QED
    BY <1>4, <2>1
<1>7. RtTypeOK'
  BY <1>1, <1>2, <1>4 DEF RtTypeOK
<1>8. PhoneTokens'
  BY <1>1, <1>2, <1>4, <1>5, <1>6 DEF PhoneTokens, Carries, Carrier, OfThePhone
<1>9. JobsPlaced'
  BY <1>1, <1>4, <1>5, <1>6 DEF JobsPlaced
<1>10. CopiesPlaced'
  <2>1. Fresh(t)'
    BY <1>1, <1>5 DEF Fresh
  <2>2. \A j \in Carrier : Carries(j)' => Fresh(phone[j].token)'
    BY <1>1, <1>4, <1>6, <2>1 DEF CopiesPlaced, Carries, Carrier, Fresh
  <2>3. vault' # Nil => Fresh(vault)' \/ Renewing({"GRANTED"}, vault)'
    BY <1>1, <1>6 DEF CopiesPlaced, Fresh, Renewing
  <2> QED
    BY <1>2, <2>1, <2>2, <2>3 DEF CopiesPlaced
<1>11. Apart("RETRY")'
  BY <1>6 DEF Apart, Carries
<1>12. Apart("LOGIN")'
  BY <1>1, <1>2, <1>4, <1>6 DEF Apart, Carries, Carrier
<1> QED
  BY <1>1, <1>7, <1>8, <1>9, <1>10, <1>11, <1>12, PhoneAlone DEF PhonePlaced, rtBrowser

LEMMA BootKeeps == ASSUME RtInv, Bootstrap PROVE RtInv'
<1>1. /\ RtTypeOK /\ PhoneTokens /\ JobsPlaced /\ CopiesPlaced /\ phoneMemory' = vault
      /\ UNCHANGED <<vault, family, adrift, excused, cookie, tab, faults>>
      /\ \A j \in Job : phone[j] = No /\ phone[j].step = "NONE"
      /\ screen' \in {"OUT", "IN"}
  BY States DEF RtInv, PhonePlaced, JobsPlaced, Bootstrap, rtServer, rtBrowser
<1>2. vault # Nil => vault \in Token /\ Fresh(vault) /\ OfThePhone(vault)
  BY <1>1 DEF RtTypeOK, NoToken, CopiesPlaced, Renewing, Job, PhoneTokens
<1>3. /\ phone' \in [Job -> JobState]
      /\ phone'["LOGIN"] = No /\ phone'["RETRY"] = No
      /\ phone'["REFRESH"] = No \/ (phone'["REFRESH"] = Sent(vault) /\ vault # Nil)
  <2>1. CASE UNCHANGED phone
    BY <1>1, <2>1 DEF RtTypeOK, Job
  <2>2. CASE vault # Nil /\ Turns("REFRESH", Sent(vault))
    BY <1>1, <1>2, <2>2, TurnTaken, States DEF Job
  <2> QED
    BY <2>1, <2>2 DEF Bootstrap
<1>4. /\ phone'["LOGIN"].step = "NONE" /\ phone'["RETRY"].step = "NONE"
      /\ \/ phone'["REFRESH"].step = "NONE"
         \/ phone'["REFRESH"].step = "SENT" /\ phone'["REFRESH"].token = vault /\ vault # Nil
  BY <1>2, <1>3, States
<1>5. RtTypeOK'
  BY <1>1, <1>3 DEF RtTypeOK
<1>6. PhoneTokens'
  BY <1>1, <1>2, <1>4 DEF PhoneTokens, Carries, Carrier, OfThePhone
<1>7. JobsPlaced'
  BY <1>1, <1>4 DEF JobsPlaced
<1>8. CopiesPlaced'
  BY <1>1, <1>2, <1>4 DEF CopiesPlaced, Carries, Carrier, Fresh
<1>9. Apart("LOGIN")' /\ Apart("RETRY")'
  BY <1>4 DEF Apart, Carries
<1> QED
  BY <1>1, <1>5, <1>6, <1>7, <1>8, <1>9, PhoneAlone DEF PhonePlaced, rtBrowser

-----------------------------------------------------------------------------
(* Faults, refreshes and logins.                                             *)
LEMMA KillKeeps == ASSUME RtInv, KillPhone PROVE RtInv'
<1>1. /\ RtTypeOK /\ PhoneTokens /\ JobsPlaced /\ CopiesPlaced /\ phoneMemory' = Nil
      /\ UNCHANGED <<vault, family, cookie, tab>> /\ screen' = "START" /\ ReuseExplained
      /\ phone' = [j \in Job |-> No] /\ faults' \in 0..MaxFaults
  BY RefreshTokensAssumption DEF RtInv, RtTypeOK, PhonePlaced, KillPhone, rtBrowser, Fault
<1>2. /\ phone' \in [Job -> JobState] /\ \A j \in Job : phone'[j] = No /\ phone'[j].step = "NONE"
  BY <1>1, States
<1>3. excused \subseteq excused' /\ excused' \subseteq Family /\ adrift' \subseteq Token
  <2>1. \A j \in {i \in {"LOGIN", "REFRESH"} : Step(i, "GRANTED")} : phone[j].token.session \in Family
    BY <1>1, JobTokens DEF Step, Carries, Job, Token
  <2>2. Step("REFRESH", "SENT") => phone["REFRESH"].token \in Token
    BY <1>1, JobTokens DEF Step, Carries, Job
  <2> QED
    BY <1>1, <2>1, <2>2 DEF KillPhone, RtTypeOK
<1>4. RtTypeOK'
  BY <1>1, <1>2, <1>3 DEF RtTypeOK, NoToken
<1>5. vault # Nil => Fresh(vault)'
  <2>1. CASE vault # Nil /\ ~Fresh(vault)
    <3>1. phone["REFRESH"].step = "GRANTED" /\ phone["REFRESH"].token.session = vault.session
      BY <1>1, <2>1 DEF CopiesPlaced, Renewing
    <3>2. vault.session \in excused'
      BY <3>1 DEF KillPhone, Step
    <3> QED
      BY <1>1, <3>2 DEF Fresh
  <2>2. CASE Fresh(vault)
    BY <1>1, <1>3, <2>2 DEF Fresh
  <2> QED
    BY <2>1, <2>2
<1>6. PhoneTokens'
  BY <1>1, <1>2 DEF PhoneTokens, Carries, Carrier, Job, OfThePhone
<1>7. JobsPlaced'
  BY <1>1, <1>2 DEF JobsPlaced, Job
<1>8. CopiesPlaced' /\ Apart("LOGIN")' /\ Apart("RETRY")'
  BY <1>1, <1>2, <1>5 DEF CopiesPlaced, Carries, Carrier, Job, Apart
<1>9. TabsPlaced'
  BY <1>1, <1>3, TabsStay DEF rtBrowser
<1> QED
  BY <1>1, <1>3, <1>4, <1>6, <1>7, <1>8, <1>9 DEF RtInv, PhonePlaced, ReuseExplained

LEMMA UnreachableKeeps == ASSUME RtInv, RefreshUnreachable PROVE RtInv'
<1>1. /\ RtTypeOK /\ JobsPlaced /\ ReuseExplained /\ screen' = "EXPIRED" /\ Turns("REFRESH", No)
      /\ UNCHANGED <<phoneMemory, vault, family, cookie, tab>>
      /\ phone["REFRESH"].step \in {"SENT", "GRANTED"} /\ faults' \in 0..MaxFaults
  BY RefreshTokensAssumption DEF RtInv, RtTypeOK, PhonePlaced, RefreshUnreachable, Step, rtBrowser, Fault
<1>2. /\ phone' \in [Job -> JobState] /\ phone'["REFRESH"] = No /\ phone'["REFRESH"].step = "NONE"
      /\ \A i \in Job \ {"REFRESH"} : phone'[i] = phone[i]
  BY <1>1, TurnTaken, States DEF Job
<1>3. phone["REFRESH"].token \in Token
  BY <1>1, JobTokens DEF Carries, Job
<1>4. /\ excused \subseteq excused' /\ excused' \subseteq Family /\ adrift' \subseteq Token
      /\ phone["REFRESH"].step = "GRANTED" => phone["REFRESH"].token.session \in excused'
  BY <1>1, <1>3 DEF RefreshUnreachable, Step, Excuse, RtTypeOK, Token
<1>5. RtTypeOK'
  BY <1>1, <1>2, <1>4 DEF RtTypeOK
<1>6. JobsPlaced' /\ ~Carries("REFRESH")'
  BY <1>1, <1>2 DEF JobsPlaced, Job, Carries
<1>7. PhonePlaced'
  BY <1>1, <1>2, <1>4, <1>6, JobEnds DEF Job
<1>8. TabsPlaced'
  BY <1>1, <1>4, TabsStay DEF rtBrowser
<1> QED
  BY <1>1, <1>4, <1>5, <1>7, <1>8 DEF RtInv, ReuseExplained

LEMMA SaveFailsKeeps == ASSUME RtInv, NEW j \in {"LOGIN", "REFRESH"}, SaveFails(j) PROVE RtInv'
<1>1. /\ RtTypeOK /\ JobsPlaced /\ ReuseExplained /\ screen' = "OUT" /\ Turns(j, No)
      /\ vault' \in {vault, Nil} /\ phoneMemory' = Nil /\ Excuse(phone[j].token)
      /\ UNCHANGED <<adrift, cookie, tab>> /\ j \in Job
      /\ phone[j].step = "GRANTED" /\ faults' \in 0..MaxFaults
  BY RefreshTokensAssumption DEF RtInv, RtTypeOK, PhonePlaced, SaveFails, Step, rtBrowser, Fault, Job
<1>2. /\ phone' \in [Job -> JobState] /\ phone'[j] = No /\ phone'[j].step = "NONE"
      /\ \A i \in Job \ {j} : phone'[i] = phone[i]
  BY <1>1, TurnTaken, States
<1>3. phone[j].token \in Token /\ phone[j].token.session \in Family
  BY <1>1, JobTokens DEF Carries, Token
<1>4. /\ excused \subseteq excused' /\ excused' \subseteq Family
      /\ phone[j].token.session \in excused'
  BY <1>1, <1>3 DEF Excuse, RtTypeOK
<1>5. SessionsEnd
  BY <1>1, <1>3, SessionEnds DEF SaveFails
<1>6. RtTypeOK'
  BY <1>1, <1>2, <1>4, <1>5 DEF RtTypeOK, NoToken, SessionsEnd
<1>7. JobsPlaced' /\ ~Carries(j)'
  BY <1>1, <1>2 DEF JobsPlaced, Job, Carries
<1>8. PhonePlaced'
  <2>1. \A s \in PhoneSession : family'[s].version = family[s].version
    BY <1>5 DEF SessionsEnd, Family
  <2>2. \A s \in PhoneSession : family[s].status # "NONE" => family'[s].status # "NONE"
    BY <1>5 DEF SessionsEnd, Family
  <2> QED
    BY <1>1, <1>2, <1>4, <1>7, <2>1, <2>2, JobEnds
<1>9. TabsPlaced'
  BY <1>1, <1>4, <1>5, TabsStay DEF rtBrowser, SessionsEnd, Family
<1> QED
  BY <1>1, <1>4, <1>5, <1>6, <1>8, <1>9 DEF RtInv, ReuseExplained, SessionsEnd

LEMMA ServedKeeps == ASSUME RtInv, RefreshServed PROVE RtInv'
<1>1. /\ RtTypeOK /\ PhoneTokens /\ JobsPlaced /\ CopiesPlaced /\ Apart("LOGIN") /\ Apart("RETRY")
      /\ ReuseExplained /\ phone["REFRESH"].step = "SENT"
      /\ UNCHANGED <<phoneMemory, vault, screen, adrift, cookie, tab, faults>>
  BY DEF RtInv, PhonePlaced, RefreshServed, Step, rtBrowser
<1>2. PICK t \in Token : t = phone["REFRESH"].token
  BY <1>1, JobTokens DEF Carries, Job
<1>3. PICK answer \in Answers(t) : Rotation(t, answer) /\ Excused(t, answer) /\ Turns("REFRESH", answer)
  BY <1>2 DEF RefreshServed
<1>4. OfThePhone(t) /\ Fresh(t) /\ t # Nil /\ t.session \in PhoneSession /\ t.session \in Family
  BY <1>1, <1>2, JobTokens DEF PhoneTokens, CopiesPlaced, Carries, Carrier, OfThePhone, Family
<1>5. /\ family' \in [Family -> [status: {"NONE", "OPEN", "ENDED", "REUSED"}, version: 0..MaxSequence]]
      /\ \A s \in Family \ {t.session} : family'[s] = family[s]
      /\ \A s \in Family : family[s].status # "NONE" => family'[s].status # "NONE"
      /\ family'[t.session].status = "REUSED" =>
                 family[t.session].status = "REUSED" \/ t.sequence # family[t.session].version
      /\ answer \in JobState /\ answer.step \in {"REFUSED", "GRANTED"}
      /\ answer.step = "GRANTED" =>
                 /\ answer.token \in Token /\ answer.token.session = t.session
                 /\ answer.token.sequence = family'[t.session].version
      /\ answer.step = "REFUSED" => answer = Refused
  BY <1>1, <1>3, RotatesInPlace
<1>6. /\ phone' \in [Job -> JobState] /\ phone'["REFRESH"] = answer
      /\ phone'["LOGIN"] = phone["LOGIN"] /\ phone'["RETRY"] = phone["RETRY"]
  BY <1>1, <1>3, <1>5, TurnTaken DEF Job
<1>7. /\ excused \subseteq excused' /\ excused' \subseteq Family
      /\ answer.step = "REFUSED" /\ family'[t.session].version # family[t.session].version => t.session \in excused'
  BY <1>1, <1>3, <1>4, <1>5 DEF Excused, RtTypeOK
<1>8. RtTypeOK'
  BY <1>1, <1>5, <1>6, <1>7 DEF RtTypeOK
<1>9. ReuseExplained'
  BY <1>1, <1>4, <1>5, <1>7 DEF ReuseExplained, Fresh
<1>10. ASSUME NEW x, OfThePhone(x) PROVE OfThePhone(x)'
  BY <1>5, <1>10 DEF OfThePhone, Token
<1>11. ASSUME NEW x, OfThePhone(x), x # Nil, Fresh(x), x.session # t.session \/ answer.step = "REFUSED" \/ t.session \in excused
       PROVE  Fresh(x)'
  <2>1. x.session \in Family
    BY <1>11 DEF OfThePhone, Token
  <2> QED
    BY <1>5, <1>7, <1>11, <2>1 DEF Fresh
<1>12. PhoneTokens'
  <2>1. answer.step = "GRANTED" => OfThePhone(answer.token)'
    BY <1>4, <1>5 DEF OfThePhone
  <2>2. ASSUME NEW i \in {"LOGIN", "RETRY"}, Carries(i)' PROVE OfThePhone(phone[i].token)'
    <3>1. OfThePhone(phone[i].token) /\ phone'[i] = phone[i]
      BY <1>1, <1>6, <2>2 DEF PhoneTokens, Carries, Carrier
    <3> QED
      BY <1>10, <3>1 DEF OfThePhone
  <2>3. ASSUME Carries("REFRESH")' PROVE OfThePhone(phone["REFRESH"].token)'
    <3>1. answer.step = "GRANTED"
      BY <1>5, <1>6, <2>3 DEF Carries
    <3> QED
      BY <1>6, <2>1, <3>1 DEF OfThePhone
  <2>4. OfThePhone(phoneMemory)' /\ OfThePhone(vault)'
    BY <1>1, <1>10 DEF PhoneTokens, OfThePhone
  <2> QED
    BY <2>2, <2>3, <2>4 DEF PhoneTokens, Carrier
<1>13. JobsPlaced'
  BY <1>1, <1>5, <1>6, States DEF JobsPlaced, Job
<1>14. CopiesPlaced'
  <2>1. ASSUME NEW i \in {"LOGIN", "RETRY"}, Carries(i)' PROVE Fresh(phone[i].token)'
    <3>1. /\ OfThePhone(phone[i].token) /\ phone'[i] = phone[i] /\ Carries(i) /\ Fresh(phone[i].token)
          /\ phone[i].token # Nil
      BY <1>1, <1>6, <2>1, JobTokens DEF PhoneTokens, CopiesPlaced, Carries, Carrier, Job
    <3>2. phone[i].token.session # t.session \/ t.session \in excused
      BY <1>1, <1>2, <3>1 DEF Apart, Carries, Carrier
    <3> QED
      BY <1>11, <3>1, <3>2 DEF Fresh
  <2>2. ASSUME Carries("REFRESH")' PROVE Fresh(phone["REFRESH"].token)'
    BY <1>5, <1>6, <2>2 DEF Carries, Fresh
  <2>3. ASSUME NEW x, x = phoneMemory \/ x = vault, x # Nil
        PROVE  Fresh(x)' \/ (phone'["REFRESH"].step = "GRANTED" /\ phone'["REFRESH"].token.session = x.session)
    <3>1. OfThePhone(x) /\ Fresh(x)
      BY <1>1, <2>3 DEF PhoneTokens, CopiesPlaced, Renewing
    <3>2. CASE x.session # t.session \/ answer.step = "REFUSED"
      BY <1>11, <2>3, <3>1, <3>2
    <3>3. CASE x.session = t.session /\ answer.step = "GRANTED"
      BY <1>5, <1>6, <3>3
    <3> QED
      BY <1>5, <3>2, <3>3
  <2>4. phoneMemory' # Nil => Fresh(phoneMemory)' \/ Renewing({"GRANTED", "SAVED"}, phoneMemory)'
    BY <1>1, <2>3 DEF Fresh, Renewing
  <2>5. vault' # Nil => Fresh(vault)' \/ Renewing({"GRANTED"}, vault)'
    BY <1>1, <2>3 DEF Fresh, Renewing
  <2> QED
    BY <2>1, <2>2, <2>4, <2>5 DEF CopiesPlaced, Carrier
<1>15. Apart("LOGIN")' /\ Apart("RETRY")'
  <2>1. Carries("REFRESH")' => Carries("REFRESH") /\ phone'["REFRESH"].token.session = phone["REFRESH"].token.session
    BY <1>1, <1>2, <1>5, <1>6 DEF Carries
  <2> QED
    BY <1>1, <1>6, <1>7, <2>1 DEF Apart, Carries, Carrier
<1>16. TabsPlaced'
  BY <1>1, <1>4, <1>5, <1>7, TabsStay, RefreshTokensAssumption DEF rtBrowser, Family
<1> QED
  BY <1>8, <1>9, <1>12, <1>13, <1>14, <1>15, <1>16 DEF RtInv, PhonePlaced

LEMMA LogInKeeps == ASSUME RtInv, NEW s \in PhoneSession, LogIn(s) PROVE RtInv'
<1>1. /\ RtTypeOK /\ PhoneTokens /\ JobsPlaced /\ CopiesPlaced /\ Apart("LOGIN") /\ Apart("RETRY")
      /\ ReuseExplained /\ family[s].status = "NONE" /\ phone["LOGIN"].step = "NONE" /\ screen = "OUT"
      /\ UNCHANGED <<phoneMemory, vault, screen, adrift, excused, cookie, tab, faults>>
      /\ s \in Family /\ s \notin WebSession
  BY RefreshTokensAssumption DEF RtInv, PhonePlaced, LogIn, Step, Family
<1>2. PICK t : t = [session |-> s, sequence |-> 1]
  OBVIOUS
<1>3. t \in Token /\ t.session = s /\ t.sequence = 1 /\ 1 \in 0..MaxSequence
  <2>1. 1 \in 1..MaxSequence /\ 1 \in 0..MaxSequence
    BY RefreshTokensAssumption
  <2> QED
    BY <1>1, <1>2, <2>1 DEF Token
<1>4. /\ phone' \in [Job -> JobState] /\ phone'["LOGIN"].step = "GRANTED" /\ phone'["LOGIN"].token = t
      /\ phone'["REFRESH"] = phone["REFRESH"] /\ phone'["RETRY"] = phone["RETRY"]
  <2>1. Turns("LOGIN", Granted(t)) /\ Granted(t) \in JobState /\ "LOGIN" \in Job
    BY <1>2, <1>3, GrantedState DEF LogIn, Job
  <2>2. /\ phone' \in [Job -> JobState] /\ phone'["LOGIN"] = Granted(t)
        /\ \A i \in Job \ {"LOGIN"} : phone'[i] = phone[i]
    BY <1>1, <2>1, TurnTaken
  <2> QED
    BY <1>3, <2>2, GrantedState DEF Job
<1>5. /\ family' \in [Family -> [status: {"NONE", "OPEN", "ENDED", "REUSED"}, version: 0..MaxSequence]]
      /\ \A x \in Family \ {s} : family'[x] = family[x]
      /\ family'[s].status = "OPEN" /\ family'[s].version = 1
  BY <1>1, <1>3 DEF LogIn, RtTypeOK
<1>6. RtTypeOK'
  BY <1>1, <1>4, <1>5 DEF RtTypeOK
<1>7. ASSUME NEW x, OfThePhone(x), x # Nil
      PROVE  x.session # s /\ OfThePhone(x)' /\ (Fresh(x) => Fresh(x)')
  <2>1. x \in Token /\ x.session # s /\ x.session \in Family
    BY <1>1, <1>7 DEF OfThePhone, Token
  <2> QED
    BY <1>1, <1>5, <1>7, <2>1 DEF OfThePhone, Fresh
<1>8. OfThePhone(t)' /\ Fresh(t)'
  BY <1>3, <1>5 DEF OfThePhone, Fresh
<1>9. ASSUME NEW i \in {"REFRESH", "RETRY"}, Carries(i)'
      PROVE  /\ phone'[i] = phone[i] /\ Carries(i) /\ OfThePhone(phone[i].token) /\ Fresh(phone[i].token)
             /\ phone[i].token # Nil
  BY <1>1, <1>4, <1>9, JobTokens DEF PhoneTokens, CopiesPlaced, Carries, Carrier, Job
<1>10. PhoneTokens'
  <2>1. ASSUME NEW i \in Carrier, Carries(i)' PROVE OfThePhone(phone[i].token)'
    <3>1. CASE i = "LOGIN"
      BY <1>4, <1>8, <3>1 DEF OfThePhone
    <3>2. CASE i # "LOGIN"
      BY <1>7, <1>9, <2>1, <3>2 DEF OfThePhone, Carrier
    <3> QED
      BY <3>1, <3>2
  <2>2. OfThePhone(phoneMemory)' /\ OfThePhone(vault)'
    <3>1. ASSUME NEW x, OfThePhone(x) PROVE OfThePhone(x)'
      BY <1>7, <3>1 DEF OfThePhone
    <3> QED
      BY <1>1, <3>1 DEF PhoneTokens, OfThePhone
  <2> QED
    BY <2>1, <2>2 DEF PhoneTokens
<1>11. JobsPlaced'
  BY <1>1, <1>4 DEF JobsPlaced
<1>12. CopiesPlaced'
  <2>1. ASSUME NEW i \in Carrier, Carries(i)' PROVE Fresh(phone[i].token)'
    <3>1. CASE i = "LOGIN"
      BY <1>4, <1>8, <3>1 DEF Fresh
    <3>2. CASE i # "LOGIN"
      BY <1>7, <1>9, <2>1, <3>2 DEF Fresh, Carrier
    <3> QED
      BY <3>1, <3>2
  <2>2. phoneMemory' # Nil => Fresh(phoneMemory)' \/ Renewing({"GRANTED", "SAVED"}, phoneMemory)'
    BY <1>1, <1>4, <1>7 DEF PhoneTokens, CopiesPlaced, Fresh, Renewing
  <2>3. vault' # Nil => Fresh(vault)' \/ Renewing({"GRANTED"}, vault)'
    BY <1>1, <1>4, <1>7 DEF PhoneTokens, CopiesPlaced, Fresh, Renewing
  <2> QED
    BY <2>1, <2>2, <2>3 DEF CopiesPlaced
<1>13. Apart("LOGIN")'
  BY <1>1, <1>3, <1>4, <1>7, <1>9 DEF Apart, Carrier, PhoneTokens
<1>14. Apart("RETRY")'
  BY <1>1, <1>3, <1>4, <1>7, <1>9 DEF Apart, Carries, Carrier
<1>15. TabsPlaced'
  BY <1>1, <1>5, TabsStay DEF rtBrowser, Family
<1>16. ReuseExplained'
  BY <1>1, <1>5 DEF ReuseExplained
<1> QED
  BY <1>6, <1>10, <1>11, <1>12, <1>13, <1>14, <1>15, <1>16 DEF RtInv, PhonePlaced
-----------------------------------------------------------------------------
(* The tabs of the browser, and requests that arrive late.                   *)
LEMMA TabTaken ==
    ASSUME RtTypeOK, NEW b \in Tab, NEW st \in JobState, TabBecomes(b, st)
    PROVE  /\ tab' \in [Tab -> JobState] /\ tab'[b] = st
           /\ \A d \in Tab \ {b} : tab'[d] = tab[d]
BY DEF RtTypeOK, TabBecomes

LEMMA BusyTokens ==
    ASSUME RtInv, NEW b \in Tab
    PROVE  /\ tab[b] \in JobState
           /\ Busy(b) => tab[b].token \in Token /\ OfTheBrowser(tab[b].token) /\ Fresh(tab[b].token)
BY DEF RtInv, RtTypeOK, TabsPlaced, OfTheBrowser

LEMMA TabRefreshKeeps == ASSUME RtInv, NEW b \in Tab, TabRefresh(b) PROVE RtInv'
<1>1. /\ RtTypeOK /\ TabsPlaced /\ ReuseExplained /\ tab[b] = No /\ cookie # Nil /\ OfTheBrowser(cookie)
      /\ UNCHANGED <<family, adrift, phoneMemory, vault, screen, phone, cookie, faults>>
      /\ cookie \in Token
  BY DEF RtInv, TabRefresh, TabsPlaced, OfTheBrowser
<1>2. /\ tab' \in [Tab -> JobState] /\ tab'[b] = Sent(cookie)
      /\ \A d \in Tab \ {b} : tab'[d] = tab[d]
  BY <1>1, SentState, TabTaken DEF TabRefresh
<1>3. tab'[b].step = "SENT" /\ tab'[b].token = cookie
  BY <1>1, <1>2, SentState
<1>4. /\ excused \subseteq excused' /\ excused' \subseteq Family
      /\ cookie.session \in excused' \/ \A d \in Tab : ~Busy(d)
  BY <1>1 DEF TabRefresh, RtTypeOK, Token, Busy
<1>5. RtTypeOK'
  BY <1>1, <1>2, <1>4 DEF RtTypeOK
<1>6. ASSUME NEW t, Fresh(t) PROVE t.session \in excused' \/ t.sequence = family'[t.session].version
  BY <1>1, <1>4, <1>6 DEF Fresh
<1>7. cookie.session \in excused' \/ cookie.sequence = family'[cookie.session].version
  BY <1>1, <1>4, <1>6 DEF TabsPlaced, Busy
<1>8. \A d \in Tab \ {b} : Busy(d)' => Busy(d) /\ tab'[d] = tab[d]
  BY <1>2 DEF Busy
<1>9. \A d \in Tab : Busy(d)' => OfTheBrowser(tab[d].token)' /\ Fresh(tab[d].token)'
  BY <1>1, <1>3, <1>6, <1>7, <1>8 DEF TabsPlaced, Fresh, OfTheBrowser
<1>10. \A d \in Tab : tab'[d].step \notin {"SAVED", "LOADED"}
  BY <1>1, <1>2, <1>3 DEF TabsPlaced
<1>11. \A c, d \in Tab : Busy(c)' /\ Busy(d)' /\ c # d /\ tab'[c].token.session = tab'[d].token.session
                            => tab'[c].token.session \in excused'
  BY <1>1, <1>3, <1>4, <1>8 DEF TabsPlaced
<1>12. TabsPlaced'
  BY <1>1, <1>7, <1>9, <1>10, <1>11 DEF TabsPlaced, Fresh, OfTheBrowser
<1>13. PhonePlaced'
  BY <1>1, <1>4, PhoneStays
<1> QED
  BY <1>1, <1>4, <1>5, <1>12, <1>13 DEF RtInv, ReuseExplained

LEMMA TabServedKeeps == ASSUME RtInv, NEW b \in Tab, TabServed(b) PROVE RtInv'
<1>1. /\ RtTypeOK /\ TabsPlaced /\ ReuseExplained /\ tab[b].step = "SENT" /\ Busy(b)
      /\ UNCHANGED <<adrift, phoneMemory, vault, screen, phone, cookie, faults>>
  BY DEF RtInv, TabServed, Busy
<1>2. PICK t \in Token : t = tab[b].token /\ Fresh(t) /\ t.session \in WebSession /\ t.session \in Family
  BY <1>1, BusyTokens DEF OfTheBrowser, Family
<1>3. PICK answer \in Answers(t) : Rotation(t, answer) /\ Excused(t, answer) /\ TabBecomes(b, answer)
  BY <1>2 DEF TabServed
<1>5. /\ family' \in [Family -> [status: {"NONE", "OPEN", "ENDED", "REUSED"}, version: 0..MaxSequence]]
      /\ \A s \in Family \ {t.session} : family'[s] = family[s]
      /\ \A s \in Family : family[s].status # "NONE" => family'[s].status # "NONE"
      /\ family'[t.session].status = "REUSED" =>
                 family[t.session].status = "REUSED" \/ t.sequence # family[t.session].version
      /\ answer \in JobState /\ answer.step \in {"REFUSED", "GRANTED"}
      /\ answer.step = "GRANTED" =>
                 /\ answer.token \in Token /\ answer.token.session = t.session
                 /\ answer.token.sequence = family'[t.session].version
      /\ answer.step = "REFUSED" => answer = Refused
  BY <1>1, <1>3, RotatesInPlace
<1>6. /\ tab' \in [Tab -> JobState] /\ tab'[b] = answer
      /\ \A d \in Tab \ {b} : tab'[d] = tab[d]
  BY <1>1, <1>3, <1>5, TabTaken
<1>7. /\ excused \subseteq excused' /\ excused' \subseteq Family
      /\ answer.step = "REFUSED" /\ family'[t.session].version # family[t.session].version => t.session \in excused'
  BY <1>1, <1>2, <1>3, <1>5 DEF Excused, RtTypeOK
<1>8. RtTypeOK'
  BY <1>1, <1>5, <1>6, <1>7 DEF RtTypeOK
<1>9. ReuseExplained'
  BY <1>1, <1>2, <1>5, <1>7 DEF ReuseExplained, Fresh
<1>10. ASSUME NEW x, OfTheBrowser(x), Fresh(x), x.session # t.session \/ answer.step = "REFUSED" \/ t.session \in excused'
       PROVE  x.session \in excused' \/ x.sequence = family'[x.session].version
  <2>1. x.session \in Family
    BY <1>10 DEF OfTheBrowser, Token
  <2> QED
    BY <1>5, <1>7, <1>10, <2>1 DEF Fresh
<1>11. ASSUME NEW d \in Tab \ {b}, Busy(d)'
       PROVE  /\ Busy(d) /\ tab'[d] = tab[d] /\ OfTheBrowser(tab[d].token) /\ Fresh(tab[d].token)
              /\ tab[d].token.session = t.session => t.session \in excused'
  BY <1>1, <1>2, <1>6, <1>7, <1>11 DEF TabsPlaced, Busy
<1>12. Busy(b)' => answer.step = "GRANTED" /\ tab'[b].token = answer.token
  BY <1>5, <1>6 DEF Busy
<1>13. ASSUME NEW d \in Tab, Busy(d)' PROVE OfTheBrowser(tab[d].token)' /\ Fresh(tab[d].token)'
  <2>1. CASE d = b
    BY <1>2, <1>5, <1>12, <1>13, <2>1 DEF OfTheBrowser, Fresh
  <2>2. CASE d # b
    BY <1>10, <1>11, <1>13, <2>2 DEF OfTheBrowser, Fresh
  <2> QED
    BY <2>1, <2>2
<1>14. \A d \in Tab : tab'[d].step \notin {"SAVED", "LOADED"}
  BY <1>1, <1>5, <1>6 DEF TabsPlaced
<1>15. \A c, d \in Tab : Busy(c)' /\ Busy(d)' /\ c # d /\ tab'[c].token.session = tab'[d].token.session
                            => tab'[c].token.session \in excused'
  BY <1>1, <1>5, <1>7, <1>11, <1>12 DEF TabsPlaced
<1>16. cookie # Nil => \/ Fresh(cookie)'
                       \/ \E d \in Tab : tab'[d].step = "GRANTED" /\ tab'[d].token.session = cookie.session
  <2> SUFFICES ASSUME cookie # Nil
               PROVE  \/ Fresh(cookie)'
                      \/ \E d \in Tab : tab'[d].step = "GRANTED" /\ tab'[d].token.session = cookie.session
    OBVIOUS
  <2>1. OfTheBrowser(cookie)
    BY <1>1 DEF TabsPlaced
  <2>2. CASE Fresh(cookie)
    <3>1. CASE cookie.session # t.session \/ answer.step = "REFUSED"
      BY <1>1, <1>10, <2>1, <2>2, <3>1 DEF Fresh
    <3>2. CASE cookie.session = t.session /\ answer.step = "GRANTED"
      BY <1>5, <1>6, <3>2
    <3> QED
      BY <1>5, <3>1, <3>2
  <2>3. CASE ~Fresh(cookie)
    <3>1. PICK d \in Tab : tab[d].step = "GRANTED" /\ tab[d].token.session = cookie.session
      BY <1>1, <2>3 DEF TabsPlaced
    <3>2. d # b
      BY <1>1, <3>1
    <3> QED
      BY <1>6, <3>1, <3>2
  <2> QED
    BY <2>2, <2>3
<1>17. TabsPlaced'
  <2>1. cookie' # Nil => OfTheBrowser(cookie)'
    BY <1>1 DEF TabsPlaced, OfTheBrowser
  <2> QED
    BY <1>1, <1>13, <1>14, <1>15, <1>16, <2>1 DEF TabsPlaced
<1>18. PhonePlaced'
  <2>1. \A s \in PhoneSession : s \in Family \ {t.session}
    BY <1>2, RefreshTokensAssumption DEF Family
  <2> QED
    BY <1>1, <1>5, <1>7, <2>1, PhoneStays
<1> QED
  BY <1>8, <1>9, <1>17, <1>18 DEF RtInv

LEMMA TabEndsKeeps == ASSUME RtInv, NEW b \in Tab, TabAnswered(b) \/ TabUnreachable(b) PROVE RtInv'
<1>1. /\ RtTypeOK /\ TabsPlaced /\ ReuseExplained /\ TabBecomes(b, No)
      /\ UNCHANGED <<family, phoneMemory, vault, screen, phone>>
      /\ faults' \in 0..MaxFaults
  BY RefreshTokensAssumption DEF RtInv, RtTypeOK, TabAnswered, TabUnreachable, Fault
<1>2. /\ tab' \in [Tab -> JobState] /\ tab'[b] = No /\ tab'[b].step = "NONE"
      /\ \A d \in Tab \ {b} : tab'[d] = tab[d]
  BY <1>1, NoState, TabTaken
<1>3. Busy(b) => tab[b].token \in Token /\ OfTheBrowser(tab[b].token) /\ Fresh(tab[b].token)
  BY BusyTokens
<1>4. /\ excused \subseteq excused' /\ excused' \subseteq Family /\ adrift' \subseteq Token
      /\ cookie' \in Token \cup {Nil} /\ (cookie' # Nil => OfTheBrowser(cookie'))
      /\ \/ cookie' = cookie
            /\ (tab[b].step = "GRANTED" => tab[b].token.session \in excused')
         \/ cookie' = Nil
         \/ tab[b].step = "GRANTED" /\ cookie' = tab[b].token
  BY <1>1, <1>3 DEF TabAnswered, TabUnreachable, Busy, RtTypeOK, Token, NoToken, TabsPlaced
<1>5. RtTypeOK'
  BY <1>1, <1>2, <1>4 DEF RtTypeOK, NoToken
<1>6. ASSUME NEW t, Fresh(t) PROVE t.session \in excused' \/ t.sequence = family'[t.session].version
  BY <1>1, <1>4, <1>6 DEF Fresh
<1>7. \A d \in Tab : Busy(d)' => d # b /\ Busy(d) /\ tab'[d] = tab[d]
  BY <1>2 DEF Busy
<1>8. \A d \in Tab : Busy(d)' => OfTheBrowser(tab[d].token)' /\ Fresh(tab[d].token)'
  BY <1>1, <1>6, <1>7 DEF TabsPlaced, Fresh, OfTheBrowser
<1>9. \A d \in Tab : tab'[d].step \notin {"SAVED", "LOADED"}
  BY <1>1, <1>2 DEF TabsPlaced
<1>10. \A c, d \in Tab : Busy(c)' /\ Busy(d)' /\ c # d /\ tab'[c].token.session = tab'[d].token.session
                            => tab'[c].token.session \in excused'
  BY <1>1, <1>4, <1>7 DEF TabsPlaced
<1>11. cookie' # Nil => \/ Fresh(cookie)'
                        \/ \E d \in Tab : tab'[d].step = "GRANTED" /\ tab'[d].token.session = cookie'.session
  <2>1. CASE tab[b].step = "GRANTED" /\ cookie' = tab[b].token
    BY <1>3, <1>6, <2>1 DEF Busy, Fresh
  <2>2. ASSUME cookie' = cookie, cookie # Nil, tab[b].step = "GRANTED" => tab[b].token.session \in excused'
        PROVE  \/ Fresh(cookie)'
               \/ \E d \in Tab : tab'[d].step = "GRANTED" /\ tab'[d].token.session = cookie'.session
    <3>1. CASE Fresh(cookie)
      BY <1>6, <2>2, <3>1 DEF Fresh
    <3>2. CASE ~Fresh(cookie)
      <4>1. PICK d \in Tab : tab[d].step = "GRANTED" /\ tab[d].token.session = cookie.session
        BY <1>1, <2>2, <3>2 DEF TabsPlaced
      <4>2. CASE d = b
        BY <2>2, <4>1, <4>2 DEF Fresh
      <4>3. CASE d # b
        BY <1>2, <2>2, <4>1, <4>3
      <4> QED
        BY <4>2, <4>3
    <3> QED
      BY <3>1, <3>2
  <2> QED
    BY <1>4, <2>1, <2>2
<1>12. TabsPlaced'
  <2>1. cookie' # Nil => OfTheBrowser(cookie)'
    BY <1>4 DEF OfTheBrowser
  <2> QED
    BY <1>8, <1>9, <1>10, <1>11, <2>1 DEF TabsPlaced
<1>13. PhonePlaced'
  BY <1>1, <1>4, PhoneStays
<1> QED
  BY <1>1, <1>4, <1>5, <1>12, <1>13 DEF RtInv, ReuseExplained

LEMMA LateKeeps == ASSUME RtInv, NEW t \in adrift, ArriveLate(t) PROVE RtInv'
<1>1. /\ RtTypeOK /\ ReuseExplained /\ t \in Token /\ t.session \in Family
      /\ UNCHANGED <<phoneMemory, vault, screen, phone, cookie, tab, faults>>
      /\ excused' = excused \cup {t.session} /\ adrift' = adrift \ {t}
  BY DEF RtInv, RtTypeOK, ArriveLate, Excuse, Token
<1>2. PICK answer \in Answers(t) : Rotation(t, answer)
  BY DEF ArriveLate
<1>3. /\ family' \in [Family -> [status: {"NONE", "OPEN", "ENDED", "REUSED"}, version: 0..MaxSequence]]
      /\ \A s \in Family \ {t.session} : family'[s] = family[s]
      /\ \A s \in Family : family[s].status # "NONE" => family'[s].status # "NONE"
  BY <1>1, <1>2, RotatesInPlace
<1>4. RtTypeOK'
  BY <1>1, <1>3 DEF RtTypeOK
<1>5. PhonePlaced'
  <2>1. \A s \in PhoneSession : family'[s].version = family[s].version \/ s \in excused'
    BY <1>1, <1>3 DEF Family
  <2>2. \A s \in PhoneSession : family[s].status # "NONE" => family'[s].status # "NONE"
    BY <1>3 DEF Family
  <2> QED
    BY <1>1, <2>1, <2>2, PhoneStays
<1>6. TabsPlaced'
  <2>1. \A s \in WebSession : family'[s].version = family[s].version \/ s \in excused'
    BY <1>1, <1>3 DEF Family
  <2> QED
    BY <1>1, <2>1, TabsStay DEF rtBrowser
<1>7. ReuseExplained'
  BY <1>1, <1>3 DEF ReuseExplained
<1> QED
  BY <1>4, <1>5, <1>6, <1>7 DEF RtInv

LEMMA RtStep == ASSUME RtInv, [RtNext]_rtVars PROVE RtInv'
<1>1. CASE UNCHANGED rtVars
  <2>1. UNCHANGED <<family, phoneMemory, vault, screen, phone, cookie, tab, adrift, excused, faults>>
    BY <1>1 DEF rtVars
  <2>2. PhonePlaced' /\ TabsPlaced'
    BY <2>1, PhoneStays, TabsStay DEF rtBrowser
  <2> QED
    BY <2>1, <2>2 DEF RtInv, RtTypeOK, ReuseExplained
<1>2. CASE RtPhone
  BY <1>2, LogInKeeps, RefreshKeeps, ServedKeeps, UnreachableKeeps, RefusedKeeps, SaveKeeps, SaveFailsKeeps,
     AdoptKeeps, ClearKeeps, LogOutKeeps, RetryKeeps, LoadedKeeps, KillKeeps, BootKeeps DEF RtPhone
<1>3. CASE RtTabs
  BY <1>3, TabRefreshKeeps, TabServedKeeps, TabEndsKeeps DEF RtTabs
<1>4. CASE \E t \in adrift : ArriveLate(t)
  BY <1>4, LateKeeps
<1> QED
  BY <1>1, <1>2, <1>3, <1>4 DEF RtNext

(* The families of the server, the copies of the phone and the browser, and  *)
(* their jobs keep their types.                                              *)
THEOREM TokensTyped == RtSpec => []RtTypeOK
<1>1. RtInv => RtTypeOK
  BY DEF RtInv
<1> QED
  BY <1>1, RtStart, RtStep, PTL DEF RtSpec

(* A session is ended for reuse only if an answer of it was lost or two tabs *)
(* used its cookie at once.                                                  *)
THEOREM ReuseHasACause == RtSpec => []ReuseExplained
<1>1. RtInv => ReuseExplained
  BY DEF RtInv
<1> QED
  BY <1>1, RtStart, RtStep, PTL DEF RtSpec

-----------------------------------------------------------------------------
(* The members of a client.  A request that updates a membership works on   *)
(* a row that exists, and so does one that appoints the admin it updates:   *)
(* rows are made and never unmade.                                          *)
UpdatesARow ==
    \A o \in Officer :
        /\ officers[o].step = "UPDATING" => members[officers[o].of] # NoMember
        /\ officers[o].step = "APPOINTING" /\ officers[o].update => members[officers[o].of] # NoMember

HierInv == HierarchyTypeOK /\ UpdatesARow

(* AdminRemains as the formula that a single step satisfies.                *)
AdminKept == ActiveAdmins # {} => ActiveAdmins' # {}

LEMMA HierStart == HierarchyInit => HierInv
  <1>1. SUFFICES ASSUME HierarchyInit PROVE HierInv
    OBVIOUS
  <1>2. [step |-> "IDLE"] \in OfficerTask
    BY DEF OfficerTask
  <1> QED BY <1>1, <1>2 DEF HierarchyInit, HierInv, HierarchyTypeOK, UpdatesARow

LEMMA RowShape ==
    /\ \A r \in MemberRow : r # NoMember
    /\ \A r \in MemberRow \cup {NoMember} : r # NoMember => r \in MemberRow
    /\ \A r \in MemberRow \cup {NoMember} :
         r.status \in {"INVITED", "ACTIVE", "SUSPENDED", "ENDED"} => r \in MemberRow
  <1>1. NoMember.status = "NONE"
    BY DEF NoMember
  <1>2. \A r \in MemberRow : r.status \in {"INVITED", "ACTIVE", "SUSPENDED", "ENDED"}
    BY DEF MemberRow
  <1> QED BY <1>1, <1>2

(* One member's row changes: whoever is an active admin beside it stays it. *)
LEMMA OthersStayAdmins ==
    ASSUME NEW m \in Member, members \in [Member -> MemberRow \cup {NoMember}],
           \A n \in Member : n # m => members'[n] = members[n]
    PROVE  /\ ActiveAdmins \ {m} \subseteq ActiveAdmins'
           /\ m \in ActiveAdmins' <=> /\ members'[m].status = "ACTIVE"
                                      /\ members'[m].role = "CLIENT_ADMIN"
  BY DEF ActiveAdmins, Admins, Standing, Active

(* More than one active admin: one is left whoever goes.                    *)
LEMMA AnotherAdmin ==
    ASSUME NEW m \in Member, Cardinality(ActiveAdmins) > 1
    PROVE  ActiveAdmins \ {m} # {}
  <1>1. SUFFICES ASSUME ActiveAdmins \subseteq {m} PROVE FALSE
    OBVIOUS
  <1>2. IsFiniteSet({m}) /\ Cardinality({m}) = 1
    BY FS_Singleton
  <1>3. IsFiniteSet(ActiveAdmins) /\ Cardinality(ActiveAdmins) <= 1
    BY <1>1, <1>2, FS_Subset
  <1>4. Cardinality(ActiveAdmins) \in Nat
    BY <1>3, FS_CardinalityType
  <1> QED BY <1>3, <1>4

(* What a change of a held row keeps, when it gives the row a role and a    *)
(* status the check of ensureClientAdmin lets through.                      *)
LEMMA CheckedChange ==
    ASSUME NEW m \in Member, NEW role, NEW status,
           members \in [Member -> MemberRow \cup {NoMember}],
           AdminMayChange(m, role, status),
           \A n \in Member : n # m => members'[n] = members[n],
           members'[m].role = role, members'[m].status = status
    PROVE  AdminKept
  <1>1. /\ ActiveAdmins \ {m} \subseteq ActiveAdmins'
        /\ m \in ActiveAdmins' <=> /\ members'[m].status = "ACTIVE"
                                   /\ members'[m].role = "CLIENT_ADMIN"
    BY OthersStayAdmins
  <1>2. CASE ActiveAdmins \ {m} # {}
    BY <1>1, <1>2 DEF AdminKept
  <1>3. CASE ActiveAdmins \subseteq {m}
    <2>1. CASE m \notin ActiveAdmins
      BY <1>3, <2>1 DEF AdminKept
    <2>2. CASE m \in ActiveAdmins
      <3>1. members[m].role = "CLIENT_ADMIN"
        BY <2>2 DEF ActiveAdmins, Admins
      <3>2. ~(Cardinality(ActiveAdmins) > 1)
        BY <1>3, AnotherAdmin
      <3>3. role = "CLIENT_ADMIN" /\ status = "ACTIVE"
        BY <3>1, <3>2 DEF AdminMayChange
      <3> QED BY <1>1, <3>3 DEF AdminKept
    <2> QED BY <2>1, <2>2
  <1> QED BY <1>2, <1>3

(* A row is replaced by one of its kind; whoever holds a row still does.    *)
LEMMA RowChanges ==
    ASSUME HierInv, NEW m \in Member, NEW r \in MemberRow,
           members' = [members EXCEPT ![m] = r]
    PROVE  /\ members' \in [Member -> MemberRow \cup {NoMember}]
           /\ \A n \in Member : members[n] # NoMember => members'[n] # NoMember
  BY RowShape DEF HierInv, HierarchyTypeOK

(* Rows stay and one request takes up a task: what is left to say is that   *)
(* the task is one, and what it holds.                                      *)
LEMMA TasksChange ==
    ASSUME HierInv, NEW o \in Officer, NEW t \in OfficerTask, Officers(o, t),
           members' \in [Member -> MemberRow \cup {NoMember}],
           \A n \in Member : members[n] # NoMember => members'[n] # NoMember,
           t.step = "UPDATING" => members[t.of] # NoMember,
           t.step = "APPOINTING" /\ t.update => members[t.of] # NoMember
    PROVE  officers' \in [Officer -> OfficerTask] /\ UpdatesARow'
  <1>1. officers' = [officers EXCEPT ![o] = t] /\ officers \in [Officer -> OfficerTask]
    BY DEF Officers, HierInv, HierarchyTypeOK
  <1>2. \A p \in Officer : officers'[p] = IF p = o THEN t ELSE officers[p]
    BY <1>1
  <1>3. \A k \in OfficerTask :
            /\ k.step = "UPDATING" => k.of \in Member
            /\ k.step = "APPOINTING" => k.of \in Member
    BY DEF OfficerTask
  <1>4. \A p \in Officer :
            /\ officers'[p].step = "UPDATING" => members[officers'[p].of] # NoMember
            /\ officers'[p].step = "APPOINTING" /\ officers'[p].update => members[officers'[p].of] # NoMember
    BY <1>2 DEF HierInv, UpdatesARow
  <1>5. officers' \in [Officer -> OfficerTask]
    BY <1>1
  <1>6. UpdatesARow'
    <2> SUFFICES ASSUME NEW p \in Officer
                 PROVE  /\ officers'[p].step = "UPDATING" => members'[officers'[p].of] # NoMember
                        /\ officers'[p].step = "APPOINTING" /\ officers'[p].update
                              => members'[officers'[p].of] # NoMember
      BY DEF UpdatesARow
    <2>1. officers'[p] \in OfficerTask
      BY <1>5
    <2> QED BY <1>3, <1>4, <2>1
  <1> QED BY <1>5, <1>6

LEMMA IdleTask == [step |-> "IDLE"] \in OfficerTask
  BY DEF OfficerTask

(* A request ends, having left every row a row.                             *)
LEMMA TaskEnds ==
    ASSUME HierInv, NEW o \in Officer, Released(o),
           members' \in [Member -> MemberRow \cup {NoMember}],
           \A n \in Member : members[n] # NoMember => members'[n] # NoMember
    PROVE  officers' \in [Officer -> OfficerTask] /\ UpdatesARow'
  <1>1. Officers(o, [step |-> "IDLE"])
    BY DEF Released
  <1> QED BY <1>1, IdleTask, TasksChange

LEMMA StepUpdate ==
    ASSUME HierInv, NEW o \in Officer, updateMembership(o)
    PROVE  HierInv' /\ AdminKept
  <1> DEFINE m == officers[o].of
  <1>1. m \in Member /\ members[m] \in MemberRow
    <2>1. officers[o] \in OfficerTask /\ officers[o].step = "UPDATING"
      BY DEF updateMembership, AtStep, HierInv, HierarchyTypeOK
    <2>2. m \in Member
      BY <2>1 DEF OfficerTask
    <2>3. members[m] # NoMember /\ members[m] \in MemberRow \cup {NoMember}
      BY <2>1, <2>2 DEF HierInv, HierarchyTypeOK, UpdatesARow
    <2> QED BY <2>2, <2>3
  <1>2. PICK role \in {"CLIENT_ADMIN", "TEAM_MANAGER", "STAFF"}, scope \in SUBSET Team :
            /\ AdminMayChange(m, role, members[m].status)
            /\ members' = [members EXCEPT ![m].role = role, ![m].scope = scope]
    BY DEF updateMembership
  <1> DEFINE r == [members[m] EXCEPT !.role = role, !.scope = scope]
  <1>3. r \in MemberRow /\ r.role = role /\ r.status = members[m].status
    BY <1>1, <1>2 DEF MemberRow
  <1>4. members \in [Member -> MemberRow \cup {NoMember}]
    BY DEF HierInv, HierarchyTypeOK
  <1>5. members' = [members EXCEPT ![m] = r]
    BY <1>1, <1>2, <1>4
  <1> HIDE DEF m, r
  <1>6. /\ members' \in [Member -> MemberRow \cup {NoMember}]
        /\ \A n \in Member : members[n] # NoMember => members'[n] # NoMember
    BY <1>1, <1>3, <1>5, RowChanges
  <1>7. AdminKept
    <2>1. /\ \A n \in Member : n # m => members'[n] = members[n]
          /\ members'[m].role = role /\ members'[m].status = members[m].status
      BY <1>1, <1>3, <1>4, <1>5
    <2> QED BY <1>1, <1>2, <1>4, <2>1, CheckedChange
  <1>8. Released(o) /\ UNCHANGED placement
    BY DEF updateMembership
  <1> QED BY <1>6, <1>7, <1>8, TaskEnds DEF HierInv, HierarchyTypeOK, placement

LEMMA StepSetStatus ==
    ASSUME HierInv, NEW o \in Officer, setMembershipStatus(o)
    PROVE  HierInv' /\ AdminKept
  <1> DEFINE m == officers[o].of
  <1>1. m \in Member /\ members[m] \in MemberRow
    <2>1. officers[o] \in OfficerTask /\ officers[o].step = "UPDATING"
      BY DEF setMembershipStatus, AtStep, HierInv, HierarchyTypeOK
    <2>2. m \in Member
      BY <2>1 DEF OfficerTask
    <2>3. members[m] # NoMember /\ members[m] \in MemberRow \cup {NoMember}
      BY <2>1, <2>2 DEF HierInv, HierarchyTypeOK, UpdatesARow
    <2> QED BY <2>2, <2>3
  <1>2. PICK status \in {"ACTIVE", "SUSPENDED", "ENDED"} :
            /\ AdminMayChange(m, members[m].role, status)
            /\ members' = [members EXCEPT ![m].status = status]
    BY DEF setMembershipStatus
  <1> DEFINE r == [members[m] EXCEPT !.status = status]
  <1>3. r \in MemberRow /\ r.role = members[m].role /\ r.status = status
    BY <1>1, <1>2 DEF MemberRow
  <1>4. members \in [Member -> MemberRow \cup {NoMember}]
    BY DEF HierInv, HierarchyTypeOK
  <1>5. members' = [members EXCEPT ![m] = r]
    BY <1>1, <1>2, <1>4
  <1> HIDE DEF m, r
  <1>6. /\ members' \in [Member -> MemberRow \cup {NoMember}]
        /\ \A n \in Member : members[n] # NoMember => members'[n] # NoMember
    BY <1>1, <1>3, <1>5, RowChanges
  <1>7. AdminKept
    <2>1. /\ \A n \in Member : n # m => members'[n] = members[n]
          /\ members'[m].role = members[m].role /\ members'[m].status = status
      BY <1>1, <1>3, <1>4, <1>5
    <2> QED BY <1>1, <1>2, <1>4, <2>1, CheckedChange
  <1>8. Released(o) /\ UNCHANGED placement
    BY DEF setMembershipStatus
  <1> QED BY <1>6, <1>7, <1>8, TaskEnds DEF HierInv, HierarchyTypeOK, placement

(* A row that was no active admin's is given another one.                   *)
LEMMA GainsOnly ==
    ASSUME HierInv, NEW m \in Member, NEW r \in MemberRow,
           members' = [members EXCEPT ![m] = r],
           m \in ActiveAdmins => r.status = "ACTIVE" /\ r.role = "CLIENT_ADMIN"
    PROVE  AdminKept
  <1>1. members \in [Member -> MemberRow \cup {NoMember}]
    BY DEF HierInv, HierarchyTypeOK
  <1>2. members'[m] = r /\ \A n \in Member : n # m => members'[n] = members[n]
    BY <1>1
  <1>3. /\ ActiveAdmins \ {m} \subseteq ActiveAdmins'
        /\ m \in ActiveAdmins' <=> /\ members'[m].status = "ACTIVE"
                                   /\ members'[m].role = "CLIENT_ADMIN"
    BY <1>1, <1>2, OthersStayAdmins
  <1> QED BY <1>2, <1>3 DEF AdminKept

LEMMA NoMemberIsNoAdmin ==
    ASSUME NEW m \in Member, members[m] = NoMember
    PROVE  m \notin ActiveAdmins
  BY DEF NoMember, ActiveAdmins, Admins, Active

LEMMA StepInvite ==
    ASSUME HierInv, NEW o \in Officer, NEW m \in Member, inviteUser(o, m)
    PROVE  HierInv' /\ AdminKept
  <1>1. officers[o] \in OfficerTask /\ officers[o].step = "INVITING" /\ members[m] = NoMember
    BY DEF inviteUser, AtStep, HierInv, HierarchyTypeOK
  <1>2. officers[o].user \in Person
    BY <1>1 DEF OfficerTask
  <1>3. PICK role \in {"TEAM_MANAGER", "STAFF"}, scope \in SUBSET Team :
            members' = [members EXCEPT ![m] =
                          [user |-> officers[o].user, role |-> role, status |-> "INVITED", scope |-> scope]]
    BY DEF inviteUser
  <1> DEFINE r == [user |-> officers[o].user, role |-> role, status |-> "INVITED", scope |-> scope]
  <1>4. r \in MemberRow
    BY <1>2, <1>3 DEF MemberRow
  <1>5. members' = [members EXCEPT ![m] = r]
    BY <1>3
  <1> HIDE DEF r
  <1>6. /\ members' \in [Member -> MemberRow \cup {NoMember}]
        /\ \A n \in Member : members[n] # NoMember => members'[n] # NoMember
    BY <1>4, <1>5, RowChanges
  <1>7. AdminKept
    BY <1>1, <1>4, <1>5, GainsOnly, NoMemberIsNoAdmin
  <1>8. Released(o) /\ UNCHANGED placement
    BY DEF inviteUser
  <1> QED BY <1>6, <1>7, <1>8, TaskEnds DEF HierInv, HierarchyTypeOK, placement

LEMMA StepAccept ==
    ASSUME HierInv, NEW m \in Member, AcceptInvitation(m)
    PROVE  HierInv' /\ AdminKept
  <1>1. members[m].status = "INVITED" /\ members \in [Member -> MemberRow \cup {NoMember}]
    BY DEF AcceptInvitation, HierInv, HierarchyTypeOK
  <1>2. members[m] \in MemberRow
    BY <1>1, RowShape
  <1> DEFINE r == [members[m] EXCEPT !.status = "ACTIVE"]
  <1>3. r \in MemberRow
    BY <1>2 DEF MemberRow
  <1>4. members' = [members EXCEPT ![m] = r]
    BY <1>1 DEF AcceptInvitation
  <1> HIDE DEF r
  <1>5. /\ members' \in [Member -> MemberRow \cup {NoMember}]
        /\ \A n \in Member : members[n] # NoMember => members'[n] # NoMember
    BY <1>3, <1>4, RowChanges
  <1>6. m \notin ActiveAdmins
    BY <1>1 DEF ActiveAdmins, Active
  <1>7. AdminKept
    BY <1>3, <1>4, <1>6, GainsOnly
  <1>8. UNCHANGED <<placement, officers>>
    BY DEF AcceptInvitation
  <1>9. UpdatesARow'
    <2> SUFFICES ASSUME NEW p \in Officer
                 PROVE  /\ officers[p].step = "UPDATING" => members'[officers[p].of] # NoMember
                        /\ officers[p].step = "APPOINTING" /\ officers[p].update
                              => members'[officers[p].of] # NoMember
      BY <1>8 DEF UpdatesARow
    <2>1. officers[p] \in OfficerTask
      BY DEF HierInv, HierarchyTypeOK
    <2>2. /\ officers[p].step = "UPDATING" => officers[p].of \in Member
          /\ officers[p].step = "APPOINTING" => officers[p].of \in Member
      BY <2>1 DEF OfficerTask
    <2> QED BY <1>5, <2>2 DEF HierInv, UpdatesARow
  <1> QED BY <1>5, <1>7, <1>8, <1>9 DEF HierInv, HierarchyTypeOK, placement

LEMMA StepAppoint ==
    ASSUME HierInv, NEW o \in Officer, AppointAdmin(o)
    PROVE  HierInv' /\ AdminKept
  <1> DEFINE t == officers[o]
             m == officers[o].of
  <1>1. t \in OfficerTask /\ t.step = "APPOINTING" /\ (~t.update => members[m] = NoMember)
    BY DEF AppointAdmin, AtStep, HierInv, HierarchyTypeOK
  <1>2. m \in Member /\ t.user \in Person /\ t.update \in BOOLEAN
    BY <1>1 DEF OfficerTask
  <1>3. members \in [Member -> MemberRow \cup {NoMember}]
    BY DEF HierInv, HierarchyTypeOK
  <1>4. t.update => members[m] \in MemberRow
    BY <1>1, <1>2, <1>3 DEF HierInv, UpdatesARow
  <1>5. PICK scope \in SUBSET Team :
            members' = [members EXCEPT ![m] =
                          [user |-> t.user, role |-> "CLIENT_ADMIN", scope |-> scope,
                           status |-> IF t.update THEN members[m].status ELSE "INVITED"]]
    BY DEF AppointAdmin
  <1>6. PICK status : status = IF t.update THEN members[m].status ELSE "INVITED"
    OBVIOUS
  <1>7. status \in {"INVITED", "ACTIVE", "SUSPENDED", "ENDED"}
    BY <1>2, <1>4, <1>6 DEF MemberRow
  <1> DEFINE r == [user |-> t.user, role |-> "CLIENT_ADMIN", scope |-> scope, status |-> status]
  <1>8. r \in MemberRow /\ r.status = status /\ r.role = "CLIENT_ADMIN"
    BY <1>2, <1>5, <1>7 DEF MemberRow
  <1>9. members' = [members EXCEPT ![m] = r]
    BY <1>5, <1>6
  <1>10. Released(o) /\ UNCHANGED placement
    BY DEF AppointAdmin
  <1> HIDE DEF r, t, m
  <1>11. /\ members' \in [Member -> MemberRow \cup {NoMember}]
         /\ \A n \in Member : members[n] # NoMember => members'[n] # NoMember
    BY <1>2, <1>8, <1>9, RowChanges
  <1>12. m \in ActiveAdmins => status = "ACTIVE"
    <2> SUFFICES ASSUME m \in ActiveAdmins PROVE status = "ACTIVE"
      OBVIOUS
    <2>1. members[m].status = "ACTIVE"
      BY DEF ActiveAdmins, Active
    <2>2. t.update
      BY <1>1, <1>2, NoMemberIsNoAdmin
    <2> QED BY <1>6, <2>1, <2>2
  <1>13. AdminKept
    BY <1>2, <1>8, <1>9, <1>12, GainsOnly
  <1> QED BY <1>10, <1>11, <1>13, TaskEnds DEF HierInv, HierarchyTypeOK, placement

(* The steps that touch no member's row.                                    *)
LEMMA MembersStand ==
    ASSUME HierInv, NEW o \in Officer, NEW t \in OfficerTask, Officers(o, t), UNCHANGED members,
           t.step = "UPDATING" => members[t.of] # NoMember,
           t.step = "APPOINTING" /\ t.update => members[t.of] # NoMember,
           lines' \in [Member -> Member \cup {NoManager}],
           managers' \in [Team -> Member \cup {NoManager}],
           teamwork' \subseteq Team \X Member
    PROVE  HierInv' /\ AdminKept
  <1>1. members' \in [Member -> MemberRow \cup {NoMember}]
        /\ \A n \in Member : members[n] # NoMember => members'[n] # NoMember
    BY DEF HierInv, HierarchyTypeOK
  <1>2. officers' \in [Officer -> OfficerTask] /\ UpdatesARow'
    BY <1>1, TasksChange
  <1>3. AdminKept
    BY DEF AdminKept, ActiveAdmins, Admins, Standing, Active
  <1> QED BY <1>1, <1>2, <1>3 DEF HierInv, HierarchyTypeOK

LEMMA PlacementTyped ==
    ASSUME HierInv, UNCHANGED placement
    PROVE  /\ lines' \in [Member -> Member \cup {NoManager}]
           /\ managers' \in [Team -> Member \cup {NoManager}]
           /\ teamwork' \subseteq Team \X Member
  BY DEF HierInv, HierarchyTypeOK, placement

LEMMA StepMembershipReads ==
    ASSUME HierInv, NEW o \in Officer,
           \/ AppointMember(o)
           \/ \E u \in Person : BeginInvite(o, u) \/ \E m \in Member : AppointInvited(o, m, u)
           \/ \E m \in Member : membershipForUpdate(o, m)
    PROVE  HierInv' /\ AdminKept
  <1>1. CASE AppointMember(o)
    <2> DEFINE m == officers[o].of
               t == [step |-> "APPOINTING", of |-> m, user |-> members[m].user, update |-> TRUE]
    <2>1. officers[o] \in OfficerTask /\ officers[o].step = "UPDATING"
      BY <1>1 DEF AppointMember, AtStep, HierInv, HierarchyTypeOK
    <2>2. m \in Member
      BY <2>1 DEF OfficerTask
    <2>3. members[m] # NoMember /\ members[m] \in MemberRow \cup {NoMember}
      BY <2>1, <2>2 DEF HierInv, HierarchyTypeOK, UpdatesARow
    <2>4. members[m].user \in Person
      BY <2>3 DEF MemberRow
    <2>5. t \in OfficerTask
      BY <2>2, <2>4 DEF OfficerTask
    <2>6. Officers(o, t) /\ UNCHANGED <<members, placement>>
      BY <1>1 DEF AppointMember
    <2>7. /\ t.step = "UPDATING" => members[t.of] # NoMember
          /\ t.step = "APPOINTING" /\ t.update => members[t.of] # NoMember
      BY <2>3
    <2> HIDE DEF t
    <2> QED BY <2>5, <2>6, <2>7, PlacementTyped, MembersStand
  <1>2. ASSUME NEW u \in Person, BeginInvite(o, u) PROVE HierInv' /\ AdminKept
    <2> DEFINE t == [step |-> "INVITING", user |-> u]
    <2>1. t \in OfficerTask /\ t.step = "INVITING"
      BY DEF OfficerTask
    <2>2. Officers(o, t) /\ UNCHANGED <<members, placement>>
      BY <1>2 DEF BeginInvite
    <2> HIDE DEF t
    <2> QED BY <2>1, <2>2, PlacementTyped, MembersStand
  <1>3. ASSUME NEW u \in Person, NEW m \in Member, AppointInvited(o, m, u) PROVE HierInv' /\ AdminKept
    <2> DEFINE t == [step |-> "APPOINTING", of |-> m, user |-> u, update |-> FALSE]
    <2>1. t \in OfficerTask /\ t.step = "APPOINTING" /\ ~t.update
      BY DEF OfficerTask
    <2>2. Officers(o, t) /\ UNCHANGED <<members, placement>>
      BY <1>3 DEF AppointInvited
    <2> HIDE DEF t
    <2> QED BY <2>1, <2>2, PlacementTyped, MembersStand
  <1>4. ASSUME NEW m \in Member, membershipForUpdate(o, m) PROVE HierInv' /\ AdminKept
    <2> DEFINE t == [step |-> "UPDATING", of |-> m]
    <2>1. t \in OfficerTask /\ t.step = "UPDATING" /\ t.of = m
      BY DEF OfficerTask
    <2>2. Officers(o, t) /\ UNCHANGED <<members, placement>> /\ members[m] # NoMember
      BY <1>4 DEF membershipForUpdate
    <2> HIDE DEF t
    <2> QED BY <2>1, <2>2, PlacementTyped, MembersStand
  <1> QED BY <1>1, <1>2, <1>3, <1>4

LEMMA StepPlacement ==
    ASSUME HierInv, NEW o \in Officer, PlacementCommand(o)
    PROVE  HierInv' /\ AdminKept
  <1> DEFINE idle == [step |-> "IDLE"]
  <1>0. idle \in OfficerTask /\ idle.step = "IDLE"
    BY IdleTask
  <1>a. officers[o] \in OfficerTask
    BY DEF HierInv, HierarchyTypeOK
  <1>b. /\ lines \in [Member -> Member \cup {NoManager}]
        /\ managers \in [Team -> Member \cup {NoManager}]
        /\ teamwork \subseteq Team \X Member
    BY DEF HierInv, HierarchyTypeOK
  <1>1. CASE setReportingManager(o)
    <2>1. officers[o].step = "LINING"
      BY <1>1 DEF setReportingManager, AtStep
    <2>2. officers[o].of \in Member /\ officers[o].to \in Member \cup {NoManager}
      BY <1>a, <2>1 DEF OfficerTask
    <2>3. lines' = IF lines[officers[o].of] = officers[o].seen
                   THEN [lines EXCEPT ![officers[o].of] = officers[o].to] ELSE lines
      BY <1>1 DEF setReportingManager
    <2>4. Officers(o, idle) /\ UNCHANGED <<members, managers, teamwork>>
      BY <1>1 DEF setReportingManager, Released
    <2>5. lines' \in [Member -> Member \cup {NoManager}]
      BY <1>b, <2>2, <2>3
    <2> HIDE DEF idle
    <2> QED BY <1>0, <1>b, <2>4, <2>5, MembersStand
  <1>2. CASE assignTeamMember(o)
    <2>1. officers[o].step = "JOINING"
      BY <1>2 DEF assignTeamMember, AtStep
    <2>2. officers[o].of \in Member /\ officers[o].team \in Team
      BY <1>a, <2>1 DEF OfficerTask
    <2>3. teamwork' = teamwork \cup {<<officers[o].team, officers[o].of>>}
      BY <1>2 DEF assignTeamMember
    <2>4. Officers(o, idle) /\ UNCHANGED <<members, lines, managers>>
      BY <1>2 DEF assignTeamMember, Released
    <2>5. teamwork' \subseteq Team \X Member
      BY <1>b, <2>2, <2>3
    <2> HIDE DEF idle
    <2> QED BY <1>0, <1>b, <2>4, <2>5, MembersStand
  <1>3. CASE replaceTeamManager(o)
    <2>1. officers[o].step = "LEADING"
      BY <1>3 DEF replaceTeamManager, AtStep
    <2>2. officers[o].of \in Member /\ officers[o].team \in Team
      BY <1>a, <2>1 DEF OfficerTask
    <2>3. managers' = IF managers[officers[o].team] = officers[o].seen
                      THEN [managers EXCEPT ![officers[o].team] = officers[o].of] ELSE managers
      BY <1>3 DEF replaceTeamManager
    <2>4. Officers(o, idle) /\ UNCHANGED <<members, lines, teamwork>>
      BY <1>3 DEF replaceTeamManager, Released
    <2>5. managers' \in [Team -> Member \cup {NoManager}]
      BY <1>b, <2>2, <2>3
    <2> HIDE DEF idle
    <2> QED BY <1>0, <1>b, <2>4, <2>5, MembersStand
  <1>4. ASSUME NEW m \in Member, NEW to \in Member \cup {NoManager}, BeginLine(o, m, to)
        PROVE  HierInv' /\ AdminKept
    <2> DEFINE t == [step |-> "LINING", of |-> m, to |-> to, seen |-> lines[m]]
    <2>1. t \in OfficerTask /\ t.step = "LINING"
      BY <1>b DEF OfficerTask
    <2>2. Officers(o, t) /\ UNCHANGED <<members, placement>>
      BY <1>4 DEF BeginLine
    <2> HIDE DEF t
    <2> QED BY <2>1, <2>2, PlacementTyped, MembersStand
  <1>5. ASSUME NEW m \in Member, NEW x \in Team, BeginJoin(o, m, x)
        PROVE  HierInv' /\ AdminKept
    <2> DEFINE t == [step |-> "JOINING", of |-> m, team |-> x]
    <2>1. t \in OfficerTask /\ t.step = "JOINING"
      BY DEF OfficerTask
    <2>2. Officers(o, t) /\ UNCHANGED <<members, placement>>
      BY <1>5 DEF BeginJoin
    <2> HIDE DEF t
    <2> QED BY <2>1, <2>2, PlacementTyped, MembersStand
  <1>6. ASSUME NEW m \in Member, NEW x \in Team, BeginLead(o, m, x)
        PROVE  HierInv' /\ AdminKept
    <2> DEFINE t == [step |-> "LEADING", of |-> m, team |-> x, seen |-> managers[x]]
    <2>1. t \in OfficerTask /\ t.step = "LEADING"
      BY <1>b DEF OfficerTask
    <2>2. Officers(o, t) /\ UNCHANGED <<members, placement>>
      BY <1>6 DEF BeginLead
    <2> HIDE DEF t
    <2> QED BY <2>1, <2>2, PlacementTyped, MembersStand
  <1> QED BY <1>1, <1>2, <1>3, <1>4, <1>5, <1>6 DEF PlacementCommand

LEMMA HierStep ==
    ASSUME HierInv, [HierarchyNext]_hierarchyVars
    PROVE  HierInv' /\ AdminKept
  <1>1. CASE UNCHANGED hierarchyVars
    BY <1>1 DEF hierarchyVars, HierInv, HierarchyTypeOK, UpdatesARow, AdminKept, ActiveAdmins,
                Admins, Standing, Active
  <1>2. ASSUME NEW o \in Officer, MembershipCommand(o) PROVE HierInv' /\ AdminKept
    BY <1>2, StepUpdate, StepSetStatus, StepAppoint, StepInvite, StepMembershipReads
       DEF MembershipCommand
  <1>3. ASSUME NEW o \in Officer, PlacementCommand(o) PROVE HierInv' /\ AdminKept
    BY <1>3, StepPlacement
  <1>4. ASSUME NEW o \in Officer, AbandonCommand(o) PROVE HierInv' /\ AdminKept
    <2> DEFINE t == [step |-> "IDLE"]
    <2>1. t \in OfficerTask /\ t.step = "IDLE"
      BY IdleTask
    <2>2. Officers(o, t) /\ UNCHANGED <<members, placement>>
      BY <1>4 DEF AbandonCommand, Released
    <2> HIDE DEF t
    <2> QED BY <2>1, <2>2, PlacementTyped, MembersStand
  <1>5. ASSUME NEW m \in Member, AcceptInvitation(m) PROVE HierInv' /\ AdminKept
    BY <1>5, StepAccept
  <1>6. ASSUME NEW m \in Member, NEW x \in Team, endTeamMembership(x, m) PROVE HierInv' /\ AdminKept
    <2>1. teamwork' \subseteq teamwork /\ UNCHANGED <<members, lines, managers, officers>>
      BY <1>6 DEF endTeamMembership
    <2> QED BY <2>1 DEF HierInv, HierarchyTypeOK, UpdatesARow, AdminKept, ActiveAdmins, Admins,
                        Standing, Active
  <1> QED BY <1>1, <1>2, <1>3, <1>4, <1>5, <1>6 DEF HierarchyNext

(* Every membership row, reporting line, team and request of a client is    *)
(* of its kind, and a request that updates a row holds one that exists.     *)
THEOREM MembersTyped == HierarchySpec => []HierInv
  <1>1. HierarchyInit => HierInv
    BY HierStart
  <1>2. HierInv /\ [HierarchyNext]_hierarchyVars => HierInv'
    BY HierStep
  <1> QED BY <1>1, <1>2, PTL DEF HierarchySpec

(* ensureClientAdmin and the row locks together: whatever the interleaving  *)
(* of requests, no step takes a client its last active Client Admin.        *)
THEOREM AnAdminRemains == HierarchySpec => AdminRemains
  <1>1. HierInv /\ [HierarchyNext]_hierarchyVars => [ActiveAdmins # {} => ActiveAdmins' # {}]_hierarchyVars
    BY HierStep DEF AdminKept
  <1> QED BY <1>1, MembersTyped, PTL DEF HierarchySpec, AdminRemains

-----------------------------------------------------------------------------
(* What an agency and its clients administer.  An edit holds the lock of    *)
(* the row it read: the row is there, is as it was read, and no other edit  *)
(* works on it.  A request for hours is about a branch.                     *)
EditsHoldTheirRow ==
    \A r \in Registrar :
        registrars[r].step = "EDIT" =>
            /\ registrars[r].of \in Node /\ nodes[registrars[r].of] # NoNode
            /\ registrars[r].old = nodes[registrars[r].of].by
            /\ \A q \in Registrar : registrars[q].step = "EDIT" /\ registrars[q].of = registrars[r].of => q = r

SubjectsFit ==
    \A r \in Registrar :
        /\ registrars[r].step = "PAPER" => registrars[r].of \in Sheet
        /\ registrars[r].step \in {"HOURS", "DELETING", "DELETED"} => registrars[r].of \in Branches

TenancyInv ==
    /\ TenancyTypeOK
    /\ AuditTellsTheStory
    /\ HoursAreOneSchedule
    /\ EditsHoldTheirRow
    /\ SubjectsFit

RegistrarRow == [step: {"IDLE", "EDIT", "PAPER", "HOURS", "DELETING", "DELETED"},
                 of: Node \cup Sheet \cup {Nothing}, old: 0..MaxStamp,
                 snapshot: SUBSET HoursRow, taken: SUBSET HoursRow, version: Nat]

(* A trail tells the story of a row that says it was written by `by`.       *)
StoryOf(t, by) ==
    /\ \A i \in DOMAIN t : t[i].old = IF i = 1 THEN 0 ELSE t[i - 1].new
    /\ by = IF t = <<>> THEN 0 ELSE t[Len(t)].new

LEMMA StoryGoesOn ==
    ASSUME NEW t \in Seq(AuditRow), NEW by, StoryOf(t, by), NEW e \in AuditRow, e.old = by
    PROVE  Append(t, e) \in Seq(AuditRow) /\ StoryOf(Append(t, e), e.new)
  <1> DEFINE u == Append(t, e)
  <1>a. u \in Seq(AuditRow) /\ Len(u) = Len(t) + 1 /\ Len(t) \in Nat
    OBVIOUS
  <1>1. u \in Seq(AuditRow) /\ Len(u) = Len(t) + 1 /\ Len(t) \in Nat /\ u # <<>>
    <2> HIDE DEF u
    <2>1. Len(<<>>) = 0
      OBVIOUS
    <2> QED BY <1>a, <2>1
  <1>2. DOMAIN u = 1..(Len(t) + 1) /\ DOMAIN t = 1..Len(t)
    OBVIOUS
  <1>3. \A i \in 1..Len(t) : u[i] = t[i]
    OBVIOUS
  <1>4. u[Len(t) + 1] = e
    OBVIOUS
  <1>5. t = <<>> <=> Len(t) = 0
    BY <1>2
  <1>6. ASSUME NEW i \in 1..(Len(t) + 1) PROVE u[i].old = IF i = 1 THEN 0 ELSE u[i - 1].new
    <2>1. CASE i = Len(t) + 1 /\ Len(t) = 0
      BY <1>4, <1>5, <2>1 DEF StoryOf
    <2>2. CASE i = Len(t) + 1 /\ Len(t) # 0
      <3>1. e.old = t[Len(t)].new
        BY <1>5, <2>2 DEF StoryOf
      <3>2. u[i - 1] = t[Len(t)] /\ i # 1
        BY <1>1, <1>3, <2>2
      <3> QED BY <1>4, <2>2, <3>1, <3>2
    <2>3. CASE i \in 1..Len(t)
      <3>1. t[i].old = IF i = 1 THEN 0 ELSE t[i - 1].new
        BY <1>2, <2>3 DEF StoryOf
      <3>2. i # 1 => u[i - 1] = t[i - 1]
        BY <1>1, <1>3, <2>3
      <3> QED BY <1>3, <2>3, <3>1, <3>2
    <2> QED BY <1>1, <2>1, <2>2, <2>3
  <1> HIDE DEF u
  <1>7. StoryOf(u, e.new)
    BY <1>1, <1>2, <1>4, <1>6 DEF StoryOf
  <1> QED BY <1>1, <1>7 DEF u

LEMMA StoryOfEach == AuditTellsTheStory <=> \A x \in Node : StoryOf(trail[<<"ROW", x>>], nodes[x].by)
  BY DEF AuditTellsTheStory, StoryOf

LEMMA AtEaseTyped == AtEase \in RegistrarRow /\ AtEase.step = "IDLE"
  BY TenancyAssumption DEF AtEase, RegistrarRow

LEMMA RegistrarsTyped == TenancyTypeOK <=>
    /\ nodes \in [Node -> NodeRow] /\ papers \in [Sheet -> 0..MaxStamp]
    /\ hours \in [Branches -> SUBSET HoursRow] /\ trail \in [Audits -> Seq(AuditRow)]
    /\ registrars \in [Registrar -> RegistrarRow] /\ stamp \in 0..MaxStamp
  BY DEF TenancyTypeOK, RegistrarRow

LEMMA TenancyStart == ASSUME TenancyInit PROVE TenancyInv
  <1>1. TenancyTypeOK
    <2>1. NoNode \in NodeRow /\ 0 \in 0..MaxStamp
      BY TenancyAssumption DEF NoNode, NodeRow
    <2> QED BY <2>1, AtEaseTyped, RegistrarsTyped DEF TenancyInit
  <1>2. AuditTellsTheStory
    BY DEF TenancyInit, AuditTellsTheStory, Audits, NoNode
  <1>3. HoursAreOneSchedule
    BY DEF TenancyInit, HoursAreOneSchedule
  <1>4. \A r \in Registrar : registrars[r].step = "IDLE"
    BY AtEaseTyped DEF TenancyInit
  <1> QED BY <1>1, <1>2, <1>3, <1>4 DEF TenancyInv, EditsHoldTheirRow, SubjectsFit

(* A command that writes adds one event, and stamps are given out in order. *)
LEMMA AuditAdds ==
    ASSUME TenancyTypeOK, NEW k \in Audits, NEW old \in 0..MaxStamp, Audited(k, old)
    PROVE  /\ stamp' \in 0..MaxStamp /\ stamp' = stamp + 1 /\ stamp' \in 1..MaxStamp
           /\ trail' \in [Audits -> Seq(AuditRow)]
           /\ [old |-> old, new |-> stamp + 1] \in AuditRow
           /\ trail'[k] = Append(trail[k], [old |-> old, new |-> stamp + 1])
           /\ \A j \in Audits : j # k => trail'[j] = trail[j]
  <1>1. stamp \in 0..MaxStamp /\ stamp < MaxStamp /\ stamp' = stamp + 1 /\ MaxStamp \in Nat
    BY TenancyAssumption DEF TenancyTypeOK, Audited
  <1>2. stamp + 1 \in 1..MaxStamp
    BY <1>1
  <1>3. [old |-> old, new |-> stamp + 1] \in AuditRow
    BY <1>2 DEF AuditRow
  <1> DEFINE e == [old |-> old, new |-> stamp + 1]
  <1>4. trail \in [Audits -> Seq(AuditRow)] /\ trail' = [trail EXCEPT ![k] = Append(@, e)]
    BY DEF TenancyTypeOK, Audited
  <1> HIDE DEF e
  <1>5. e \in AuditRow
    BY <1>3 DEF e
  <1>6. Append(trail[k], e) \in Seq(AuditRow)
    BY <1>4, <1>5
  <1>7. /\ trail' \in [Audits -> Seq(AuditRow)] /\ trail'[k] = Append(trail[k], e)
        /\ \A j \in Audits : j # k => trail'[j] = trail[j]
    BY <1>4, <1>6
  <1> QED BY <1>1, <1>2, <1>3, <1>7 DEF e

LEMMA RowKeys ==
    /\ \A x \in Node \cup Sheet : <<"ROW", x>> \in Audits
    /\ \A x \in Branches : <<"HOURS", x>> \in Audits
    /\ \A x \in Node : \A y : <<"ROW", x>> = <<"ROW", y>> <=> x = y
    /\ \A x \in Node : \A y : <<"ROW", x>> # <<"HOURS", y>>
    /\ \A x \in Sheet, y \in Node : <<"ROW", y>> # <<"ROW", x>>
    /\ Branches \subseteq Node
  BY TenancyAssumption DEF Audits, Branches

(* A row of the organisation is written and its event with it.              *)
LEMMA NodeWritten ==
    ASSUME TenancyInv, NEW x \in Node, NEW status \in {"NONE", "PENDING", "ACTIVE", "SUSPENDED"},
           nodes' = [nodes EXCEPT ![x] = [status |-> status, by |-> stamp + 1]],
           Audited(<<"ROW", x>>, nodes[x].by)
    PROVE  /\ nodes' \in [Node -> NodeRow] /\ trail' \in [Audits -> Seq(AuditRow)] /\ stamp' \in 0..MaxStamp
           /\ AuditTellsTheStory'
           /\ nodes'[x] # NoNode /\ \A y \in Node : y # x => nodes'[y] = nodes[y]
  <1> DEFINE k == <<"ROW", x>>
             old == nodes[x].by
             e == [old |-> old, new |-> stamp + 1]
             r == [status |-> status, by |-> stamp + 1]
  <1>1. nodes \in [Node -> NodeRow] /\ trail \in [Audits -> Seq(AuditRow)] /\ stamp \in 0..MaxStamp
    BY DEF TenancyInv, TenancyTypeOK
  <1>2. k \in Audits /\ old \in 0..MaxStamp /\ TenancyTypeOK
    BY <1>1, RowKeys DEF NodeRow, TenancyInv
  <1>3. Audited(k, old)
    OBVIOUS
  <1> HIDE DEF k, old
  <1>4. /\ stamp' \in 0..MaxStamp /\ stamp' = stamp + 1 /\ stamp' \in 1..MaxStamp
        /\ trail' \in [Audits -> Seq(AuditRow)]
        /\ e \in AuditRow
        /\ trail'[k] = Append(trail[k], e)
        /\ \A j \in Audits : j # k => trail'[j] = trail[j]
    BY <1>2, <1>3, AuditAdds
  <1>5. r \in NodeRow /\ r # NoNode /\ r.by = e.new /\ e.old = old
    BY <1>1, <1>4 DEF NodeRow, NoNode
  <1> HIDE DEF r, e
  <1>6. nodes' = [nodes EXCEPT ![x] = r]
    BY DEF r
  <1>7. /\ nodes' \in [Node -> NodeRow] /\ nodes'[x] = r
        /\ \A y \in Node : y # x => nodes'[y] = nodes[y]
    BY <1>1, <1>5, <1>6
  <1>8. StoryOf(trail'[k], r.by)
    <2>1. trail[k] \in Seq(AuditRow) /\ StoryOf(trail[k], old)
      BY <1>1, <1>2, StoryOfEach DEF TenancyInv, k, old
    <2> QED BY <1>4, <1>5, <2>1, StoryGoesOn
  <1>9. ASSUME NEW y \in Node PROVE StoryOf(trail'[<<"ROW", y>>], nodes'[y].by)
    <2>1. CASE y = x
      BY <1>7, <1>8, <2>1 DEF k
    <2>2. CASE y # x
      <3>1. <<"ROW", y>> \in Audits /\ <<"ROW", y>> # k
        BY <2>2, RowKeys DEF k
      <3>2. StoryOf(trail[<<"ROW", y>>], nodes[y].by)
        BY StoryOfEach DEF TenancyInv
      <3> QED BY <1>4, <1>7, <2>2, <3>1, <3>2
    <2> QED BY <2>1, <2>2
  <1>10. AuditTellsTheStory'
    BY <1>9 DEF AuditTellsTheStory, StoryOf
  <1> QED BY <1>4, <1>5, <1>7, <1>10

(* An event about something else leaves the story of every row as it is.    *)
LEMMA OtherStories ==
    ASSUME TenancyInv, NEW k \in Audits, NEW old \in 0..MaxStamp, Audited(k, old), UNCHANGED nodes,
           \A x \in Node : <<"ROW", x>> # k
    PROVE  AuditTellsTheStory' /\ trail' \in [Audits -> Seq(AuditRow)] /\ stamp' \in 0..MaxStamp
  <1>1. /\ trail' \in [Audits -> Seq(AuditRow)] /\ stamp' \in 0..MaxStamp
        /\ \A j \in Audits : j # k => trail'[j] = trail[j]
    BY AuditAdds DEF TenancyInv
  <1>2. ASSUME NEW x \in Node PROVE StoryOf(trail'[<<"ROW", x>>], nodes'[x].by)
    <2>1. StoryOf(trail[<<"ROW", x>>], nodes[x].by)
      BY StoryOfEach DEF TenancyInv
    <2> QED BY <1>1, <2>1, RowKeys
  <1> QED BY <1>1, <1>2 DEF AuditTellsTheStory, StoryOf

(* A request's row changes: of the others nothing does.                     *)
LEMMA RequestChanges ==
    ASSUME TenancyInv, NEW r \in Registrar, NEW t \in RegistrarRow, Reading(r, t)
    PROVE  /\ registrars' \in [Registrar -> RegistrarRow]
           /\ \A q \in Registrar : registrars'[q] = IF q = r THEN t ELSE registrars[q]
  <1>1. registrars \in [Registrar -> RegistrarRow] /\ registrars' = [registrars EXCEPT ![r] = t]
    BY RegistrarsTyped DEF TenancyInv, Reading
  <1> QED BY <1>1

LEMMA SubjectsKept ==
    ASSUME TenancyInv, NEW r \in Registrar, NEW t \in RegistrarRow, Reading(r, t),
           t.step = "PAPER" => t.of \in Sheet,
           t.step \in {"HOURS", "DELETING", "DELETED"} => t.of \in Branches
    PROVE  SubjectsFit'
  <1>1. \A q \in Registrar : registrars'[q] = IF q = r THEN t ELSE registrars[q]
    BY RequestChanges
  <1> QED BY <1>1 DEF TenancyInv, SubjectsFit

(* A request that edits nothing leaves the edits with their rows.           *)
LEMMA EditsKept ==
    ASSUME TenancyInv, NEW r \in Registrar, NEW t \in RegistrarRow, Reading(r, t), t.step # "EDIT",
           \A q \in Registrar : q # r /\ registrars[q].step = "EDIT" =>
               nodes'[registrars[q].of] = nodes[registrars[q].of]
    PROVE  EditsHoldTheirRow'
  <1>1. \A q \in Registrar : registrars'[q] = IF q = r THEN t ELSE registrars[q]
    BY RequestChanges
  <1>2. ASSUME NEW q \in Registrar, registrars'[q].step = "EDIT"
        PROVE  /\ registrars'[q].of \in Node /\ nodes'[registrars'[q].of] # NoNode
               /\ registrars'[q].old = nodes'[registrars'[q].of].by
               /\ \A p \in Registrar : registrars'[p].step = "EDIT" /\ registrars'[p].of = registrars'[q].of => p = q
    <2>1. q # r /\ registrars'[q] = registrars[q]
      BY <1>1, <1>2
    <2> QED BY <1>1, <1>2, <2>1 DEF TenancyInv, EditsHoldTheirRow
  <1> QED BY <1>2 DEF EditsHoldTheirRow

(* What a request only reads or gives up.                                   *)
LEMMA ReadsKeep ==
    ASSUME TenancyInv, NEW r \in Registrar, NEW t \in RegistrarRow, Reading(r, t), t.step # "EDIT",
           t.step = "PAPER" => t.of \in Sheet,
           t.step \in {"HOURS", "DELETING", "DELETED"} => t.of \in Branches,
           UNCHANGED <<nodes, papers, hours, trail, stamp>>
    PROVE  TenancyInv'
  <1>1. registrars' \in [Registrar -> RegistrarRow]
    BY RequestChanges
  <1>2. TenancyTypeOK'
    BY <1>1 DEF TenancyInv, TenancyTypeOK, RegistrarRow
  <1>3. AuditTellsTheStory' /\ HoursAreOneSchedule'
    BY DEF TenancyInv, AuditTellsTheStory, HoursAreOneSchedule
  <1>4. EditsHoldTheirRow'
    BY EditsKept
  <1>5. SubjectsFit'
    BY SubjectsKept
  <1> QED BY <1>2, <1>3, <1>4, <1>5 DEF TenancyInv

LEMMA CreateKeeps ==
    ASSUME TenancyInv, NEW x \in Node, NEW status \in {"PENDING", "ACTIVE"}, Create(x, status),
           papers' \in [Sheet -> 0..MaxStamp]
    PROVE  TenancyInv'
  <1>1. nodes[x] = NoNode /\ nodes[x].by = 0
    BY DEF Create, There, NoNode
  <1>2. /\ nodes' = [nodes EXCEPT ![x] = [status |-> status, by |-> stamp + 1]]
        /\ Audited(<<"ROW", x>>, nodes[x].by) /\ UNCHANGED <<hours, registrars>>
    BY <1>1 DEF Create
  <1>3. /\ nodes' \in [Node -> NodeRow] /\ trail' \in [Audits -> Seq(AuditRow)] /\ stamp' \in 0..MaxStamp
        /\ AuditTellsTheStory'
        /\ nodes'[x] # NoNode /\ \A y \in Node : y # x => nodes'[y] = nodes[y]
    BY <1>2, NodeWritten
  <1>4. TenancyTypeOK'
    BY <1>2, <1>3 DEF TenancyInv, TenancyTypeOK
  <1>5. HoursAreOneSchedule' /\ SubjectsFit'
    BY <1>2 DEF TenancyInv, HoursAreOneSchedule, SubjectsFit
  <1>6. EditsHoldTheirRow'
    BY <1>1, <1>2, <1>3 DEF TenancyInv, EditsHoldTheirRow
  <1> QED BY <1>3, <1>4, <1>5, <1>6 DEF TenancyInv

LEMMA StepCreates ==
    ASSUME TenancyInv, NEW x \in Node,
           createClient(x) \/ createBranch(x) \/ createDepartment(x) \/ createTeam(x)
    PROVE  TenancyInv'
  <1>0. papers \in [Sheet -> 0..MaxStamp] /\ stamp \in 0..MaxStamp /\ MaxStamp \in Nat
    BY TenancyAssumption DEF TenancyInv, TenancyTypeOK
  <1>1. CASE createClient(x)
    <2>1. stamp + 1 \in 0..MaxStamp
      BY <1>0, <1>1 DEF createClient, Create, Audited
    <2>2. papers' \in [Sheet -> 0..MaxStamp]
      BY <1>0, <1>1, <2>1 DEF createClient
    <2> QED BY <1>1, <2>2, CreateKeeps DEF createClient
  <1>2. CASE createBranch(x)
    BY <1>0, <1>2, CreateKeeps DEF createBranch
  <1>3. CASE createDepartment(x)
    BY <1>0, <1>3, CreateKeeps DEF createDepartment
  <1>4. CASE createTeam(x)
    BY <1>0, <1>4, CreateKeeps DEF createTeam
  <1> QED BY <1>1, <1>2, <1>3, <1>4

LEMMA StepBeginEdit ==
    ASSUME TenancyInv, NEW r \in Registrar, NEW x \in Node, BeginEdit(r, x)
    PROVE  TenancyInv'
  <1> DEFINE t == [AtEase EXCEPT !.step = "EDIT", !.of = x, !.old = nodes[x].by]
  <1>1. nodes[x].by \in 0..MaxStamp /\ nodes[x] # NoNode
    BY DEF TenancyInv, TenancyTypeOK, NodeRow, BeginEdit, There
  <1>2. t \in RegistrarRow /\ t.step = "EDIT" /\ t.of = x /\ t.old = nodes[x].by
    BY <1>1, AtEaseTyped DEF RegistrarRow, AtEase
  <1>3. Reading(r, t) /\ UNCHANGED <<nodes, papers, hours, trail, stamp>>
    BY DEF BeginEdit
  <1>4. \A q \in Registrar : registrars[q].step = "EDIT" => registrars[q].of # x
    BY DEF BeginEdit, UnlockedNode, AtWork
  <1> HIDE DEF t
  <1>5. /\ registrars' \in [Registrar -> RegistrarRow]
        /\ \A q \in Registrar : registrars'[q] = IF q = r THEN t ELSE registrars[q]
    BY <1>2, <1>3, RequestChanges
  <1>6. TenancyTypeOK'
    BY <1>3, <1>5 DEF TenancyInv, TenancyTypeOK, RegistrarRow
  <1>7. AuditTellsTheStory' /\ HoursAreOneSchedule'
    BY <1>3 DEF TenancyInv, AuditTellsTheStory, HoursAreOneSchedule
  <1>8. ASSUME NEW q \in Registrar, registrars'[q].step = "EDIT"
        PROVE  /\ registrars'[q].of \in Node /\ nodes'[registrars'[q].of] # NoNode
               /\ registrars'[q].old = nodes'[registrars'[q].of].by
               /\ \A p \in Registrar : registrars'[p].step = "EDIT" /\ registrars'[p].of = registrars'[q].of => p = q
    <2>1. CASE q = r
      BY <1>1, <1>2, <1>3, <1>4, <1>5, <2>1
    <2>2. CASE q # r
      BY <1>2, <1>3, <1>4, <1>5, <1>8, <2>2 DEF TenancyInv, EditsHoldTheirRow
    <2> QED BY <2>1, <2>2
  <1>9. EditsHoldTheirRow'
    BY <1>8 DEF EditsHoldTheirRow
  <1>10. SubjectsFit'
    BY <1>2, <1>3, SubjectsKept
  <1> QED BY <1>6, <1>7, <1>9, <1>10 DEF TenancyInv

LEMMA StepCommitEdit ==
    ASSUME TenancyInv, NEW r \in Registrar,
           NEW kinds, NEW statuses \in SUBSET {"NONE", "PENDING", "ACTIVE", "SUSPENDED"},
           CommitEdit(r, kinds, statuses)
    PROVE  TenancyInv'
  <1> DEFINE x == registrars[r].of
  <1>1. /\ registrars[r].step = "EDIT" /\ x \in Node /\ registrars[r].old = nodes[x].by
        /\ \A q \in Registrar : registrars[q].step = "EDIT" /\ registrars[q].of = x => q = r
    BY DEF CommitEdit, AtWork, TenancyInv, EditsHoldTheirRow
  <1>2. PICK status \in statuses : nodes' = [nodes EXCEPT ![x] = [status |-> status, by |-> stamp + 1]]
    BY DEF CommitEdit
  <1>3. status \in {"NONE", "PENDING", "ACTIVE", "SUSPENDED"}
    BY <1>2
  <1>4. Audited(<<"ROW", x>>, nodes[x].by) /\ Reading(r, AtEase) /\ UNCHANGED <<papers, hours>>
    BY <1>1 DEF CommitEdit
  <1> HIDE DEF x
  <1>5. /\ nodes' \in [Node -> NodeRow] /\ trail' \in [Audits -> Seq(AuditRow)] /\ stamp' \in 0..MaxStamp
        /\ AuditTellsTheStory'
        /\ nodes'[x] # NoNode /\ \A y \in Node : y # x => nodes'[y] = nodes[y]
    BY <1>1, <1>2, <1>3, <1>4, NodeWritten
  <1>6. registrars' \in [Registrar -> RegistrarRow]
    BY <1>4, AtEaseTyped, RequestChanges
  <1>7. TenancyTypeOK'
    BY <1>4, <1>5, <1>6 DEF TenancyInv, TenancyTypeOK, RegistrarRow
  <1>8. HoursAreOneSchedule'
    BY <1>4 DEF TenancyInv, HoursAreOneSchedule
  <1>9. \A q \in Registrar : q # r /\ registrars[q].step = "EDIT" =>
            nodes'[registrars[q].of] = nodes[registrars[q].of]
    BY <1>1, <1>5 DEF TenancyInv, EditsHoldTheirRow
  <1>10. EditsHoldTheirRow' /\ SubjectsFit'
    BY <1>4, <1>9, AtEaseTyped, EditsKept, SubjectsKept
  <1> QED BY <1>5, <1>7, <1>8, <1>10 DEF TenancyInv

LEMMA StepEdits ==
    ASSUME TenancyInv, NEW r \in Registrar,
           setClientStatus(r) \/ updateClient(r) \/ updateBranch(r) \/ updateDepartment(r) \/ updateTeam(r)
    PROVE  TenancyInv'
  <1>1. CASE updateClient(r)
    <2>1. registrars[r].of \in Node
      BY <1>1 DEF updateClient, AtWork, TenancyInv, EditsHoldTheirRow
    <2>2. nodes[registrars[r].of].status \in {"NONE", "PENDING", "ACTIVE", "SUSPENDED"}
      BY <2>1 DEF TenancyInv, TenancyTypeOK, NodeRow
    <2>3. {nodes[registrars[r].of].status} \in SUBSET {"NONE", "PENDING", "ACTIVE", "SUSPENDED"}
      BY <2>2
    <2> QED BY <1>1, <2>3, StepCommitEdit DEF updateClient
  <1>2. {"ACTIVE", "SUSPENDED"} \in SUBSET {"NONE", "PENDING", "ACTIVE", "SUSPENDED"}
    OBVIOUS
  <1> QED BY <1>1, <1>2, StepCommitEdit DEF setClientStatus, updateBranch, updateDepartment, updateTeam

LEMMA StepPaper ==
    ASSUME TenancyInv, NEW r \in Registrar, CommitPaper(r)
    PROVE  TenancyInv'
  <1> DEFINE p == registrars[r].of
             old == registrars[r].old
  <1>1. p \in Sheet /\ old \in 0..MaxStamp
    BY RegistrarsTyped DEF CommitPaper, AtWork, TenancyInv, SubjectsFit, RegistrarRow
  <1>2. <<"ROW", p>> \in Audits /\ \A x \in Node : <<"ROW", x>> # <<"ROW", p>>
    BY <1>1, RowKeys
  <1>3. /\ papers' = [papers EXCEPT ![p] = stamp + 1]
        /\ Audited(<<"ROW", p>>, old) /\ Reading(r, AtEase) /\ UNCHANGED <<nodes, hours>>
    BY DEF CommitPaper
  <1> HIDE DEF p, old
  <1>4. AuditTellsTheStory' /\ trail' \in [Audits -> Seq(AuditRow)] /\ stamp' \in 0..MaxStamp
    BY <1>1, <1>2, <1>3, OtherStories
  <1>5. stamp' = stamp + 1
    BY <1>3 DEF Audited
  <1>6. papers' \in [Sheet -> 0..MaxStamp]
    BY <1>1, <1>3, <1>4, <1>5 DEF TenancyInv, TenancyTypeOK
  <1>7. registrars' \in [Registrar -> RegistrarRow]
    BY <1>3, AtEaseTyped, RequestChanges
  <1>8. TenancyTypeOK'
    BY <1>3, <1>4, <1>6, <1>7 DEF TenancyInv, TenancyTypeOK, RegistrarRow
  <1>9. HoursAreOneSchedule'
    BY <1>3 DEF TenancyInv, HoursAreOneSchedule
  <1>10. EditsHoldTheirRow' /\ SubjectsFit'
    BY <1>3, AtEaseTyped, EditsKept, SubjectsKept
  <1> QED BY <1>4, <1>8, <1>9, <1>10 DEF TenancyInv

(* What a branch's hours are once a schedule replaced them.                 *)
LEMMA OneSchedule ==
    ASSUME NEW by \in 0..MaxStamp, NEW version \in Nat, NEW rows,
           rows = [day: Day, by: {by}, version: {version}]
    PROVE  /\ rows \subseteq HoursRow
           /\ \A g, h \in rows : g.by = h.by /\ g.version = h.version
           /\ {h.day : h \in rows} = Day
  <1>1. rows \subseteq HoursRow /\ \A g, h \in rows : g.by = h.by /\ g.version = h.version
    BY DEF HoursRow
  <1>2. {h.day : h \in rows} \subseteq Day
    OBVIOUS
  <1>3. ASSUME NEW d \in Day PROVE d \in {h.day : h \in rows}
    <2>1. PICK h : h = [day |-> d, by |-> by, version |-> version]
      OBVIOUS
    <2>2. h \in rows /\ h.day = d
      BY <2>1
    <2> QED BY <2>2
  <1> QED BY <1>1, <1>2, <1>3

LEMMA StepHours ==
    ASSUME TenancyInv, NEW r \in Registrar, setWorkingHours(r)
    PROVE  TenancyInv'
  <1> DEFINE t == registrars[r]
             x == t.of
             rows == [day: Day, by: {stamp + 1}, version: {t.version + 1}]
  <1>1. x \in Branches /\ t \in RegistrarRow /\ t.old \in 0..MaxStamp /\ t.version \in Nat
    BY RegistrarsTyped DEF setWorkingHours, AtWork, TenancyInv, SubjectsFit, RegistrarRow
  <1>2. hours[x] \ t.taken = {}
    BY DEF setWorkingHours, DayTaken
  <1>3. /\ hours' = [hours EXCEPT ![x] = (hours[x] \ t.taken) \cup rows]
        /\ Audited(<<"HOURS", x>>, t.old) /\ Reading(r, AtEase) /\ UNCHANGED <<nodes, papers>>
    BY DEF setWorkingHours
  <1>4. <<"HOURS", x>> \in Audits /\ \A y \in Node : <<"ROW", y>> # <<"HOURS", x>>
    BY <1>1, RowKeys
  <1>5. AuditTellsTheStory' /\ trail' \in [Audits -> Seq(AuditRow)] /\ stamp' \in 0..MaxStamp
    BY <1>1, <1>3, <1>4, OtherStories
  <1>6. stamp + 1 \in 0..MaxStamp
    BY <1>3, <1>5 DEF Audited
  <1>7. /\ rows \subseteq HoursRow
        /\ \A g, h \in rows : g.by = h.by /\ g.version = h.version
        /\ {h.day : h \in rows} = Day
    <2>1. t.version + 1 \in Nat
      BY <1>1
    <2> HIDE DEF t
    <2> QED BY <1>6, <2>1, OneSchedule
  <1>8. hours' = [hours EXCEPT ![x] = rows] /\ hours \in [Branches -> SUBSET HoursRow]
    BY <1>2, <1>3 DEF TenancyInv, TenancyTypeOK
  <1> HIDE DEF rows, t, x
  <1>9. /\ hours' \in [Branches -> SUBSET HoursRow]
        /\ \A y \in Branches : hours'[y] = IF y = x THEN rows ELSE hours[y]
    BY <1>1, <1>7, <1>8
  <1>10. HoursAreOneSchedule'
    BY <1>7, <1>9 DEF TenancyInv, HoursAreOneSchedule
  <1>11. registrars' \in [Registrar -> RegistrarRow]
    BY <1>3, AtEaseTyped, RequestChanges
  <1>12. TenancyTypeOK'
    BY <1>3, <1>5, <1>9, <1>11 DEF TenancyInv, TenancyTypeOK, RegistrarRow
  <1>13. EditsHoldTheirRow' /\ SubjectsFit'
    BY <1>3, AtEaseTyped, EditsKept, SubjectsKept
  <1> QED BY <1>5, <1>10, <1>12, <1>13 DEF TenancyInv

LEMMA StepReads ==
    ASSUME TenancyInv, NEW r \in Registrar,
           \/ \E x \in Node : ReadHours(r, x)
           \/ \E p \in Sheet : BeginPaper(r, p)
           \/ BeginDelete(r) \/ DeleteHours(r) \/ RollBack(r)
    PROVE  TenancyInv'
  <1>0. /\ registrars[r] \in RegistrarRow /\ papers \in [Sheet -> 0..MaxStamp]
        /\ hours \in [Branches -> SUBSET HoursRow] /\ 0 \in 0..MaxStamp
    BY RegistrarsTyped, TenancyAssumption DEF TenancyInv
  <1>1. ASSUME NEW x \in Node, ReadHours(r, x) PROVE TenancyInv'
    <2> DEFINE t == [AtEase EXCEPT !.step = "HOURS", !.of = x, !.old = StampOf(hours[x]),
                                   !.version = VersionOf(hours[x])]
    <2>1. x \in Branches /\ Reading(r, t) /\ UNCHANGED <<nodes, papers, hours, trail, stamp>>
      BY <1>1 DEF ReadHours
    <2>2. StampOf(hours[x]) \in 0..MaxStamp /\ VersionOf(hours[x]) \in Nat
      <3>1. CASE hours[x] = {}
        BY <1>0, <3>1 DEF StampOf, VersionOf
      <3>2. CASE hours[x] # {}
        <4>1. (CHOOSE h \in hours[x] : TRUE) \in HoursRow
          BY <1>0, <2>1, <3>2
        <4> QED BY <3>2, <4>1 DEF StampOf, VersionOf, HoursRow
      <3> QED BY <3>1, <3>2
    <2>3. t \in RegistrarRow /\ t.step = "HOURS" /\ t.of = x
      BY <2>2, AtEaseTyped DEF RegistrarRow, AtEase
    <2> HIDE DEF t
    <2> QED BY <2>1, <2>3, ReadsKeep
  <1>2. ASSUME NEW p \in Sheet, BeginPaper(r, p) PROVE TenancyInv'
    <2> DEFINE t == [AtEase EXCEPT !.step = "PAPER", !.of = p, !.old = papers[p]]
    <2>1. Reading(r, t) /\ UNCHANGED <<nodes, papers, hours, trail, stamp>>
      BY <1>2 DEF BeginPaper
    <2>2. t \in RegistrarRow /\ t.step = "PAPER" /\ t.of = p
      BY <1>0, AtEaseTyped DEF RegistrarRow, AtEase
    <2> HIDE DEF t
    <2> QED BY <2>1, <2>2, ReadsKeep
  <1>3. CASE BeginDelete(r)
    <2> DEFINE t == [registrars[r] EXCEPT !.step = "DELETING", !.snapshot = hours[registrars[r].of]]
    <2>1. Reading(r, t) /\ UNCHANGED <<nodes, papers, hours, trail, stamp>>
      BY <1>3 DEF BeginDelete
    <2>2. registrars[r].of \in Branches
      BY <1>3 DEF BeginDelete, AtWork, TenancyInv, SubjectsFit
    <2>3. t \in RegistrarRow /\ t.step = "DELETING" /\ t.of \in Branches
      BY <1>0, <2>2 DEF RegistrarRow
    <2> HIDE DEF t
    <2> QED BY <2>1, <2>3, ReadsKeep
  <1>4. CASE DeleteHours(r)
    <2> DEFINE s == registrars[r]
               t == [s EXCEPT !.step = "DELETED", !.snapshot = {}, !.taken = s.snapshot \cap hours[s.of]]
    <2>1. Reading(r, t) /\ UNCHANGED <<nodes, papers, hours, trail, stamp>>
      BY <1>4 DEF DeleteHours
    <2>2. s.of \in Branches
      BY <1>4 DEF DeleteHours, AtWork, TenancyInv, SubjectsFit
    <2>3. t \in RegistrarRow /\ t.step = "DELETED" /\ t.of \in Branches
      BY <1>0, <2>2 DEF RegistrarRow
    <2> HIDE DEF t
    <2> QED BY <2>1, <2>3, ReadsKeep
  <1>5. CASE RollBack(r)
    BY <1>5, AtEaseTyped, ReadsKeep DEF RollBack
  <1> QED BY <1>1, <1>2, <1>3, <1>4, <1>5

LEMMA TenancyStep ==
    ASSUME TenancyInv, [TenancyNext]_tenancyVars
    PROVE  TenancyInv'
  <1>1. CASE UNCHANGED tenancyVars
    BY <1>1 DEF tenancyVars, TenancyInv, TenancyTypeOK, AuditTellsTheStory, HoursAreOneSchedule,
                EditsHoldTheirRow, SubjectsFit
  <1>2. ASSUME NEW r \in Registrar, RegistrarStep(r) PROVE TenancyInv'
    <2>1. ASSUME NEW x \in Node, BeginEdit(r, x) PROVE TenancyInv'
      BY <2>1, StepBeginEdit
    <2> QED BY <1>2, <2>1, StepEdits, StepPaper, StepHours, StepReads DEF RegistrarStep
  <1>3. ASSUME NEW x \in Node, createClient(x) \/ createBranch(x) \/ createDepartment(x) \/ createTeam(x)
        PROVE  TenancyInv'
    BY <1>3, StepCreates
  <1> QED BY <1>1, <1>2, <1>3 DEF TenancyNext

LEMMA TenancyHolds == TenancySpec => []TenancyInv
  <1>1. TenancyInit => TenancyInv
    BY TenancyStart
  <1>2. TenancyInv /\ [TenancyNext]_tenancyVars => TenancyInv'
    BY TenancyStep
  <1> QED BY <1>1, <1>2, PTL DEF TenancySpec

(* The rows of an organisation and the requests about them are of their     *)
(* kinds.                                                                   *)
THEOREM TenancyTyped == TenancySpec => []TenancyTypeOK
  <1>1. TenancyInv => TenancyTypeOK
    BY DEF TenancyInv
  <1> QED BY <1>1, TenancyHolds, PTL

(* Each audit event of a client, branch, department or team replaces what   *)
(* the one before it wrote, however many administrators edit it: an edit    *)
(* reads the row under FOR UPDATE and holds it until its event is written.  *)
THEOREM AuditsTellTheStory == TenancySpec => []AuditTellsTheStory
  <1>1. TenancyInv => AuditTellsTheStory
    BY DEF TenancyInv
  <1> QED BY <1>1, TenancyHolds, PTL

(* The hours of a branch are those one command gave it, for every day,      *)
(* though two commands may delete and insert them at the same time.         *)
THEOREM HoursStayOneSchedule == TenancySpec => []HoursAreOneSchedule
  <1>1. TenancyInv => HoursAreOneSchedule
    BY DEF TenancyInv
  <1> QED BY <1>1, TenancyHolds, PTL

(* What administrators write of an organisation at the same time is told in *)
(* full by its audit events, and is never half of one and half of another's. *)
THEOREM OrganisationStaysOne == TenancySpec => []OrganisationAgrees
  BY AuditsTellTheStory, HoursStayOneSchedule, PTL DEF OrganisationAgrees

-----------------------------------------------------------------------------
(* One tab of the web application.  Unless the server has moved and the tab *)
(* has not seen it, everything in the query cache and every answer on its   *)
(* way there is the one context of the session the token is of, and no      *)
(* query left with the token of another one.                                *)
LoginRow == [open: {TRUE}, context: Context] \cup {Shut}
LoginRows == [Login -> LoginRow \cup {Closed}]
AnyContext == Context \cup {NoContext}
AnyCall == CallRow \cup {NoCall}

Sees(w, x) ==
    \/ x \in w.cache
    \/ \E c \in Call : w.calls[c].for = "QUERY" /\ w.calls[c].answer = "OK" /\ w.calls[c].got = x

SeesOne(w, lg) ==
    ~w.half =>
        /\ \A x, y \in AnyContext : Sees(w, x) /\ Sees(w, y) => x = y
        /\ \A x \in AnyContext : Sees(w, x) =>
               /\ w.token.login # 0
               /\ lg[w.token.login].open => lg[w.token.login].context = x
        /\ \A c \in Call : w.calls[c].for = "QUERY" => w.calls[c].token.login \in {0, w.token.login}

(* Tokens, cookies and answers are of sessions the server has begun.        *)
Begun(l, lg) == l # 0 => lg[l] # Closed
Answered(k) ==
    k.answer = "OK" =>
        /\ k.request = "COMMAND" /\ k.for \in SigningIn \cup {"SWITCH"} => k.login # 0
        /\ k.for = "QUERY" => k.got \in Context
CallBegun(k, lg) == k # NoCall => Begun(k.token.login, lg) /\ Begun(k.login, lg) /\ Answered(k)
AllBegun(w, lg) ==
    /\ Begun(w.token.login, lg) /\ Begun(w.cookie, lg) /\ Begun(w.brought.login, lg)
    /\ w.brought = NoBearer \/ w.brought.login # 0
    /\ \A c \in Call : CallBegun(w.calls[c], lg)

(* Whoever signed out since a call began has moved its version.             *)
LateIsStale(k) == k # NoCall /\ Compares(k) /\ k.late => k.stale

Good(w, lg) ==
    /\ w \in WebRow
    /\ SeesOne(w, lg)
    /\ AllBegun(w, lg)
    /\ \A c \in Call : LateIsStale(w.calls[c])

WebInv ==
    /\ Good(web, logins)
    /\ logins \in LoginRows
    /\ troubles \in 0..MaxTroubles

-----------------------------------------------------------------------------
LEMMA CallShape ==
    /\ NoCall \notin CallRow /\ NoCall.for = "NONE"
    /\ \A k \in AnyCall : k # NoCall => k \in CallRow
    /\ \A k \in AnyCall : k.for # "NONE" => k \in CallRow /\ k # NoCall
    /\ \A k \in AnyCall : Compares(k) => k \in CallRow
  <1>1. NoCall.for = "NONE"
    BY DEF NoCall
  <1>2. \A k \in CallRow : k.for \in Purpose /\ k.for # "NONE"
    BY DEF CallRow, Purpose
  <1> QED BY <1>1, <1>2 DEF AnyCall, Compares

LEMMA CallFields ==
    ASSUME NEW k \in CallRow
    PROVE  /\ k.for \in Purpose /\ k.token \in Bearer /\ k.got \in AnyContext /\ k.login \in 0..MaxLogins
           /\ k.want \in Seat /\ k.retried \in BOOLEAN /\ k.stale \in BOOLEAN /\ k.late \in BOOLEAN
           /\ k.request \in {"COMMAND", "ME"}
           /\ k.answer \in {"NONE", "OK", "CHALLENGE", "EXPIRED", "REVOKED", "REFUSED", "UNREACHABLE"}
  BY DEF CallRow, AnyContext

LEMMA TabFields ==
    ASSUME NEW w \in WebRow
    PROVE  /\ w.session \in AnyContext /\ w.token \in Bearer /\ w.cookie \in 0..MaxLogins
           /\ w.brought \in Bearer /\ w.attempt \in BOOLEAN /\ w.told \in BOOLEAN /\ w.challenge \in BOOLEAN
           /\ w.half \in BOOLEAN
           /\ w.cache \subseteq Context /\ w.calls \in [Call -> AnyCall]
  BY DEF WebRow, AnyContext, AnyCall

LEMMA NoBearerTyped == NoBearer \in Bearer /\ NoBearer.login = 0
  BY WebAssumption DEF NoBearer, Bearer

LEMMA TokenLogin == \A t \in Bearer : t.login \in 0..MaxLogins
  BY DEF Bearer

(* One call of a tab changes, and nothing else.                             *)
WithCall(w, c, k) == [w EXCEPT !.calls[c] = k]
SameButCalls(v, w) ==
    /\ v \in WebRow
    /\ v.status = w.status /\ v.session = w.session /\ v.token = w.token /\ v.cookie = w.cookie
    /\ v.refresh = w.refresh /\ v.brought = w.brought /\ v.told = w.told /\ v.attempt = w.attempt
    /\ v.challenge = w.challenge /\ v.cache = w.cache /\ v.half = w.half

LEMMA OneCall ==
    ASSUME NEW w \in WebRow, NEW c \in Call, NEW k \in AnyCall
    PROVE  /\ SameButCalls(WithCall(w, c, k), w)
           /\ \A d \in Call : WithCall(w, c, k).calls[d] = IF d = c THEN k ELSE w.calls[d]
  BY DEF WebRow, AnyCall, WithCall, SameButCalls

(* What a call may be for the tab to stay good.                             *)
Fits(k, w, lg) ==
    /\ CallBegun(k, lg) /\ LateIsStale(k)
    /\ k.for = "QUERY" /\ ~w.half =>
          /\ k.token.login \in {0, w.token.login}
          /\ k.answer = "OK" =>
                /\ \A x \in AnyContext : Sees(w, x) => x = k.got
                /\ w.token.login # 0
                /\ lg[w.token.login].open => lg[w.token.login].context = k.got

LEMMA CallFits ==
    ASSUME NEW w, NEW lg, Good(w, lg), NEW c \in Call, NEW k \in AnyCall, Fits(k, w, lg)
    PROVE  Good(WithCall(w, c, k), lg)
  <1> DEFINE v == WithCall(w, c, k)
  <1>0. w \in WebRow
    BY DEF Good
  <1>1. /\ v \in WebRow
        /\ v.token = w.token /\ v.cookie = w.cookie /\ v.brought = w.brought
        /\ v.cache = w.cache /\ v.half = w.half
        /\ \A d \in Call : v.calls[d] = IF d = c THEN k ELSE w.calls[d]
    BY <1>0, OneCall DEF SameButCalls
  <1> HIDE DEF v
  <1>2. AllBegun(v, lg)
    BY <1>1 DEF Good, AllBegun, Fits
  <1>3. \A d \in Call : LateIsStale(v.calls[d])
    BY <1>1 DEF Good, Fits
  <1>4. \A x : Sees(v, x) => Sees(w, x) \/ (k.for = "QUERY" /\ k.answer = "OK" /\ k.got = x)
    BY <1>1 DEF Sees
  <1>5. SeesOne(v, lg)
    <2> SUFFICES ASSUME ~w.half PROVE SeesOne(v, lg)
      BY <1>1 DEF SeesOne
    <2>1. /\ \A x, y \in AnyContext : Sees(w, x) /\ Sees(w, y) => x = y
          /\ \A x \in AnyContext : Sees(w, x) =>
                 /\ w.token.login # 0
                 /\ lg[w.token.login].open => lg[w.token.login].context = x
          /\ \A d \in Call : w.calls[d].for = "QUERY" => w.calls[d].token.login \in {0, w.token.login}
      BY DEF Good, SeesOne
    <2>2. k.for = "QUERY" =>
              /\ k.token.login \in {0, w.token.login}
              /\ k.answer = "OK" =>
                    /\ \A x \in AnyContext : Sees(w, x) => x = k.got
                    /\ w.token.login # 0
                    /\ lg[w.token.login].open => lg[w.token.login].context = k.got
      BY DEF Fits
    <2>3. \A x, y \in AnyContext : Sees(v, x) /\ Sees(v, y) => x = y
      BY <1>4, <2>1, <2>2
    <2>4. \A x \in AnyContext : Sees(v, x) =>
                 /\ v.token.login # 0
                 /\ lg[v.token.login].open => lg[v.token.login].context = x
      BY <1>1, <1>4, <2>1, <2>2
    <2>5. \A d \in Call : v.calls[d].for = "QUERY" => v.calls[d].token.login \in {0, v.token.login}
      BY <1>1, <2>1, <2>2
    <2> QED BY <2>3, <2>4, <2>5 DEF SeesOne
  <1> QED BY <1>1, <1>2, <1>3, <1>5 DEF Good, v

(* A call the tab has already fits, and fits when its answer is taken away. *)
LEMMA OwnCallFits ==
    ASSUME NEW w, NEW lg, Good(w, lg), NEW c \in Call
    PROVE  Fits(w.calls[c], w, lg)
  <1>1. w \in WebRow /\ w.calls[c] \in AnyCall
    BY TabFields DEF Good
  <1>2. CallBegun(w.calls[c], lg) /\ LateIsStale(w.calls[c])
    BY DEF Good, AllBegun
  <1>3. ASSUME w.calls[c].for = "QUERY", ~w.half
        PROVE  /\ w.calls[c].token.login \in {0, w.token.login}
               /\ w.calls[c].answer = "OK" =>
                     /\ \A x \in AnyContext : Sees(w, x) => x = w.calls[c].got
                     /\ w.token.login # 0
                     /\ lg[w.token.login].open => lg[w.token.login].context = w.calls[c].got
    <2>1. w.calls[c].got \in AnyContext
      BY <1>1, <1>3, CallShape, CallFields
    <2>2. w.calls[c].answer = "OK" => Sees(w, w.calls[c].got)
      BY <1>3 DEF Sees
    <2> QED BY <1>3, <2>1, <2>2 DEF Good, SeesOne
  <1> QED BY <1>2, <1>3 DEF Fits

LEMMA NoCallFits ==
    ASSUME NEW w, NEW lg PROVE Fits(NoCall, w, lg) /\ NoCall \in AnyCall
  BY CallShape DEF Fits, CallBegun, LateIsStale, AnyCall

LEMMA DropGood ==
    ASSUME NEW w, NEW lg, Good(w, lg), NEW c \in Call
    PROVE  Good(Drop(w, c), lg)
  BY NoCallFits, CallFits DEF Drop, WithCall

(* Of a call as it was, what its token and answer say may change.           *)
LEMMA AnswerFits ==
    ASSUME NEW w, NEW lg, Good(w, lg), NEW c \in Call, w.calls[c] # NoCall, NEW k \in CallRow,
           k.for = w.calls[c].for, k.stale = w.calls[c].stale, k.late = w.calls[c].late,
           k.token.login \in {w.calls[c].token.login, w.token.login},
           Begun(k.login, lg), Answered(k), k.answer # "OK" \/ k.for # "QUERY"
    PROVE  Fits(k, w, lg)
  <1>1. Fits(w.calls[c], w, lg)
    BY OwnCallFits
  <1>2. Begun(k.token.login, lg)
    BY <1>1 DEF Good, AllBegun, Fits, CallBegun
  <1>3. LateIsStale(k)
    BY <1>1 DEF Fits, LateIsStale, Compares
  <1> QED BY <1>1, <1>2, <1>3 DEF Fits, CallBegun

(* A new call, with the token of the moment.                                *)
LEMMA StartedFits ==
    ASSUME NEW w, NEW lg, Good(w, lg), NEW purpose \in Purpose, NEW request \in {"COMMAND", "ME"},
           NEW want \in Seat
    PROVE  /\ Started(purpose, request, want, w) \in CallRow
           /\ Fits(Started(purpose, request, want, w), w, lg)
  <1> DEFINE k == Started(purpose, request, want, w)
  <1>1. w \in WebRow /\ w.token \in Bearer /\ Begun(w.token.login, lg)
    BY TabFields DEF Good, AllBegun
  <1>2. k \in CallRow
    BY <1>1, WebAssumption DEF Started, CallRow
  <1>3. /\ k.for = purpose /\ k.token = w.token /\ k.answer = "NONE" /\ k.login = 0 /\ k.late = FALSE
    BY DEF Started
  <1> HIDE DEF k
  <1>4. Fits(k, w, lg)
    BY <1>1, <1>3 DEF Fits, CallBegun, Answered, Begun, LateIsStale
  <1> QED BY <1>2, <1>4 DEF k

LEMMA BeginsGood ==
    ASSUME NEW w, NEW lg, Good(w, lg), NEW c \in Call, NEW purpose \in Purpose,
           NEW request \in {"COMMAND", "ME"}, NEW want \in Seat
    PROVE  Good(Begins(w, c, purpose, request, want), lg)
  BY StartedFits, CallFits DEF Begins, AnyCall, WithCall

(* A call other than a query is sent again.                                 *)
LEMMA AsksGood ==
    ASSUME NEW w, NEW lg, Good(w, lg), NEW c \in Call, w.calls[c] # NoCall, NEW request \in {"COMMAND", "ME"}
    PROVE  Good(Asks(w, c, request), lg)
  <1> DEFINE q == w.calls[c]
             k == [q EXCEPT !.request = request, !.at = "SENT", !.token = w.token, !.answer = "NONE",
                            !.got = NoContext, !.login = 0, !.retried = FALSE]
  <1>1. w \in WebRow /\ w.token \in Bearer /\ q \in CallRow
    BY TabFields, CallShape DEF Good
  <1>a. 0 \in 0..MaxLogins /\ NoContext \in Context \cup {NoContext}
    BY WebAssumption
  <1>2. k \in CallRow
    <2> HIDE DEF q
    <2> QED BY <1>1, <1>a DEF CallRow
  <1>3. /\ k.for = q.for /\ k.stale = q.stale /\ k.late = q.late /\ k.token = w.token /\ k.login = 0
        /\ k.answer = "NONE"
    BY <1>1 DEF CallRow
  <1>4. Asks(w, c, request) = WithCall(w, c, k)
    BY DEF Asks, WithCall
  <1> HIDE DEF k
  <1>5. Fits(k, w, lg)
    BY <1>2, <1>3, AnswerFits DEF Begun, Answered
  <1> QED BY <1>2, <1>4, <1>5, CallFits DEF AnyCall

-----------------------------------------------------------------------------
LEMMA MovedOnTyped ==
    ASSUME NEW k \in CallRow, NEW keeps \in BOOLEAN
    PROVE  /\ MovedOn(k, keeps) \in CallRow
           /\ MovedOn(k, keeps).for = IF k.for = "QUERY" /\ ~keeps THEN "ORPHAN" ELSE k.for
           /\ MovedOn(k, keeps).stale <=> k.stale \/ Compares(k)
           /\ MovedOn(k, keeps).token = k.token /\ MovedOn(k, keeps).answer = k.answer
           /\ MovedOn(k, keeps).got = k.got /\ MovedOn(k, keeps).login = k.login
           /\ MovedOn(k, keeps).late = k.late /\ MovedOn(k, keeps).request = k.request
  <1>1. PICK b \in BOOLEAN : b <=> k.stale \/ Compares(k)
    OBVIOUS
  <1>2. k.stale \in BOOLEAN
    BY CallFields
  <1>3. (k.stale \/ Compares(k)) = b
    BY <1>1, <1>2 DEF Compares
  <1>4. PICK f \in Purpose : f = IF k.for = "QUERY" /\ ~keeps THEN "ORPHAN" ELSE k.for
    BY CallFields DEF Purpose
  <1>5. MovedOn(k, keeps) = [k EXCEPT !.stale = b, !.for = f]
    BY <1>3, <1>4 DEF MovedOn
  <1>6. [k EXCEPT !.stale = b, !.for = f] \in CallRow
    BY DEF CallRow
  <1> QED BY <1>1, <1>4, <1>5, <1>6 DEF CallRow

IsTransition(v, w, s, keeps) ==
    /\ v \in WebRow
    /\ v.status = w.status /\ v.session = s /\ v.token = w.token /\ v.cookie = w.cookie
    /\ v.refresh = w.refresh /\ v.brought = w.brought /\ v.told = w.told
    /\ v.attempt = w.attempt /\ v.challenge = w.challenge
    /\ v.cache = IF keeps THEN w.cache ELSE {}
    /\ v.half <=> w.half /\ keeps
    /\ \A c \in Call : v.calls[c] = IF w.calls[c] = NoCall THEN NoCall ELSE MovedOn(w.calls[c], keeps)

LEMMA Transition ==
    ASSUME NEW w \in WebRow, NEW s \in AnyContext, NEW force \in BOOLEAN
    PROVE  IsTransition(transitionSession(w, s, force), w, s, Keeps(w, s, force))
  <1> DEFINE v == transitionSession(w, s, force)
             keeps == Keeps(w, s, force)
             calls == [c \in Call |-> IF w.calls[c] = NoCall THEN NoCall ELSE MovedOn(w.calls[c], keeps)]
  <1>1. keeps \in BOOLEAN /\ keeps = (~force /\ s = w.session)
    BY DEF Keeps
  <1>2. PICK b \in BOOLEAN : b <=> w.half /\ ~force /\ s = w.session
    OBVIOUS
  <1>3. w.half \in BOOLEAN /\ w.calls \in [Call -> AnyCall] /\ w.cache \subseteq Context
    BY TabFields
  <1>4. (w.half /\ ~force /\ s = w.session) = b
    BY <1>2, <1>3
  <1>5. PICK cache : cache = IF keeps THEN w.cache ELSE {}
    OBVIOUS
  <1>6. v = [w EXCEPT !.session = s, !.cache = cache, !.half = b, !.calls = calls]
    BY <1>4, <1>5 DEF transitionSession, MovedOn
  <1>7. calls \in [Call -> AnyCall]
    <2>1. ASSUME NEW c \in Call
          PROVE  (IF w.calls[c] = NoCall THEN NoCall ELSE MovedOn(w.calls[c], keeps)) \in AnyCall
      <3>1. CASE w.calls[c] = NoCall
        BY <3>1, CallShape DEF AnyCall
      <3>2. CASE w.calls[c] # NoCall
        <4>1. w.calls[c] \in CallRow
          BY <1>3, <3>2, CallShape
        <4> HIDE DEF keeps
        <4>2. MovedOn(w.calls[c], keeps) \in CallRow
          BY <1>1, <4>1, MovedOnTyped
        <4> QED BY <3>2, <4>2 DEF AnyCall
      <3> QED BY <3>1, <3>2
    <2> QED BY <2>1
  <1>8. cache \subseteq Context
    BY <1>3, <1>5
  <1>9. \A c \in Call : calls[c] = IF w.calls[c] = NoCall THEN NoCall ELSE MovedOn(w.calls[c], keeps)
    OBVIOUS
  <1> HIDE DEF calls, keeps, v
  <1>10. /\ v \in WebRow
         /\ v.status = w.status /\ v.session = s /\ v.token = w.token /\ v.cookie = w.cookie
         /\ v.refresh = w.refresh /\ v.brought = w.brought /\ v.told = w.told
         /\ v.attempt = w.attempt /\ v.challenge = w.challenge
         /\ v.cache = cache /\ v.half = b /\ v.calls = calls
    BY <1>6, <1>7, <1>8 DEF WebRow, AnyContext, AnyCall
  <1>11. v.half <=> w.half /\ keeps
    BY <1>1, <1>2, <1>10
  <1> QED BY <1>5, <1>9, <1>10, <1>11 DEF v, keeps, IsTransition

(* Calls stay what they are for, but for queries of another context.        *)
LEMMA TransitionGood ==
    ASSUME NEW w, NEW lg, Good(w, lg), NEW s \in AnyContext, NEW force \in BOOLEAN
    PROVE  Good(transitionSession(w, s, force), lg)
  <1> DEFINE v == transitionSession(w, s, force)
             keeps == Keeps(w, s, force)
  <1>1. w \in WebRow /\ w.calls \in [Call -> AnyCall] /\ keeps \in BOOLEAN
    BY TabFields DEF Good, Keeps
  <1>2. /\ v \in WebRow /\ v.token = w.token /\ v.cookie = w.cookie /\ v.brought = w.brought
        /\ v.cache = IF keeps THEN w.cache ELSE {}
        /\ v.half <=> w.half /\ keeps
        /\ \A c \in Call : v.calls[c] = IF w.calls[c] = NoCall THEN NoCall ELSE MovedOn(w.calls[c], keeps)
    BY <1>1, Transition DEF IsTransition
  <1> HIDE DEF v, keeps
  <1>4. ASSUME NEW c \in Call, w.calls[c] # NoCall
        PROVE  LET k == v.calls[c]
                   q == w.calls[c]
               IN  /\ k.for = (IF q.for = "QUERY" /\ ~keeps THEN "ORPHAN" ELSE q.for)
                   /\ k.stale <=> q.stale \/ Compares(q)
                   /\ k.token = q.token /\ k.answer = q.answer /\ k.got = q.got /\ k.login = q.login
                   /\ k.late = q.late /\ k.request = q.request
    <2>1. w.calls[c] \in CallRow /\ v.calls[c] = MovedOn(w.calls[c], keeps)
      BY <1>1, <1>2, <1>4, CallShape
    <2> QED BY <1>1, <2>1, MovedOnTyped
  <1>5. \A c \in Call : w.calls[c] = NoCall => v.calls[c] = NoCall
    BY <1>2
  <1>6. AllBegun(v, lg)
    <2>1. \A c \in Call : CallBegun(v.calls[c], lg)
      <3>1. \A c \in Call : w.calls[c] # NoCall => (Answered(w.calls[c]) => Answered(v.calls[c]))
        BY <1>4 DEF Answered, SigningIn
      <3> QED BY <1>4, <1>5, <3>1 DEF Good, AllBegun, CallBegun
    <2> QED BY <1>2, <2>1 DEF Good, AllBegun
  <1>7. ASSUME NEW c \in Call PROVE LateIsStale(v.calls[c])
    <2>1. CASE w.calls[c] = NoCall
      BY <1>5, <2>1 DEF LateIsStale
    <2>2. CASE w.calls[c] # NoCall
      <3>1. LateIsStale(w.calls[c])
        BY DEF Good
      <3>2. Compares(v.calls[c]) => Compares(w.calls[c])
        BY <1>4, <2>2 DEF Compares
      <3> QED BY <1>4, <2>2, <3>1, <3>2 DEF LateIsStale
    <2> QED BY <2>1, <2>2
  <1>8. \A c \in Call : v.calls[c].for = "QUERY" =>
            /\ keeps /\ w.calls[c].for = "QUERY" /\ w.calls[c] # NoCall
            /\ v.calls[c].token = w.calls[c].token /\ v.calls[c].answer = w.calls[c].answer
            /\ v.calls[c].got = w.calls[c].got
    BY <1>4, <1>5, CallShape
  <1>9. \A x : Sees(v, x) => Sees(w, x) /\ keeps
    BY <1>2, <1>8 DEF Sees
  <1>10. SeesOne(v, lg)
    BY <1>2, <1>8, <1>9 DEF Good, SeesOne
  <1> QED BY <1>2, <1>6, <1>7, <1>10 DEF Good, v

(* A tab whose status, error flags or refresh change is as good as it was.  *)
LEMMA AsGood ==
    ASSUME NEW w, NEW lg, Good(w, lg), NEW v \in WebRow,
           v.token = w.token, v.cookie = w.cookie \/ Begun(v.cookie, lg),
           v.brought = w.brought \/ v.brought = NoBearer \/ (Begun(v.brought.login, lg) /\ v.brought.login # 0),
           v.cache = w.cache, w.half => v.half, v.calls = w.calls
    PROVE  Good(v, lg)
  <1>1. \A x : Sees(v, x) <=> Sees(w, x)
    BY DEF Sees
  <1>2. v.half \in BOOLEAN /\ w.half \in BOOLEAN
    BY TabFields DEF Good
  <1>3. AllBegun(v, lg)
    BY NoBearerTyped DEF Good, AllBegun, Begun
  <1>4. SeesOne(v, lg)
    BY <1>1, <1>2 DEF Good, SeesOne
  <1> QED BY <1>3, <1>4 DEF Good

LEMMA ShowsGood ==
    ASSUME NEW w, NEW lg, Good(w, lg), NEW s \in AnyContext
    PROVE  Good(Shows(w, s), lg) /\ Good(Empty(w, "anonymous"), lg) /\ Good(Empty(w, "error"), lg)
  <1>1. Good(transitionSession(w, s, FALSE), lg) /\ Good(transitionSession(w, NoContext, TRUE), lg)
    BY TransitionGood DEF AnyContext
  <1>2. ASSUME NEW v, Good(v, lg), NEW status \in {"loading", "anonymous", "authenticated", "expired", "error"}
        PROVE  Good([v EXCEPT !.status = status], lg)
    <2>1. v \in WebRow
      BY <1>2 DEF Good
    <2> DEFINE u == [v EXCEPT !.status = status]
    <2>2. /\ u \in WebRow /\ u.token = v.token /\ u.cookie = v.cookie /\ u.brought = v.brought
          /\ u.cache = v.cache /\ u.half = v.half /\ u.calls = v.calls
      BY <2>1 DEF WebRow
    <2> HIDE DEF u
    <2>3. Good(u, lg)
      BY <1>2, <2>2, AsGood
    <2> QED BY <2>3 DEF u
  <1> QED BY <1>1, <1>2 DEF Shows, Empty

(* A tab with an empty cache and no query under way sees nothing.           *)
LEMMA NothingSeen ==
    ASSUME NEW w, NEW lg, w.cache = {}, \A c \in Call : w.calls[c].for # "QUERY"
    PROVE  SeesOne(w, lg)
  <1>1. \A x : ~Sees(w, x)
    BY DEF Sees
  <1> QED BY <1>1 DEF SeesOne

LEMMA SignedOutGood ==
    ASSUME NEW w, NEW lg, w \in WebRow, AllBegun(w, lg), \A c \in Call : LateIsStale(w.calls[c]),
           NEW status \in {"loading", "anonymous", "authenticated", "expired", "error"}
    PROVE  /\ Good(SignedOut(w, status), lg)
           /\ SignedOut(w, status).status = status
           /\ \A c \in Call : (SignedOut(w, status).calls[c] = NoCall <=> w.calls[c] = NoCall) /\ SignedOut(w, status).calls[c].answer = w.calls[c].answer
  <1> DEFINE u == [w EXCEPT !.status = status, !.token = NoBearer]
             v == transitionSession(u, NoContext, TRUE)
             calls == [c \in Call |-> IF v.calls[c] = NoCall THEN NoCall
                                      ELSE [v.calls[c] EXCEPT !.late = Compares(v.calls[c])]]
             x == SignedOut(w, status)
  <1>1. /\ u \in WebRow /\ u.status = status /\ u.token = NoBearer /\ u.cookie = w.cookie
        /\ u.brought = w.brought /\ u.calls = w.calls
    BY NoBearerTyped DEF WebRow
  <1>2. Keeps(u, NoContext, TRUE) = FALSE /\ NoContext \in AnyContext
    BY DEF Keeps, AnyContext
  <1> HIDE DEF u
  <1>3. /\ v \in WebRow /\ v.status = status /\ v.token = NoBearer /\ v.cookie = w.cookie
        /\ v.brought = w.brought /\ v.cache = {}
        /\ \A c \in Call : v.calls[c] = IF w.calls[c] = NoCall THEN NoCall ELSE MovedOn(w.calls[c], FALSE)
    <2>1. IsTransition(v, u, NoContext, Keeps(u, NoContext, TRUE))
      BY <1>1, <1>2, Transition
    <2>2. IsTransition(v, u, NoContext, FALSE)
      BY <1>2, <2>1
    <2> HIDE DEF v
    <2> QED BY <1>1, <2>2 DEF IsTransition
  <1>4. x = [v EXCEPT !.calls = calls]
    BY DEF SignedOut, u
  <1> HIDE DEF v
  <1>5. ASSUME NEW c \in Call, w.calls[c] # NoCall
        PROVE  /\ calls[c] \in CallRow /\ calls[c].for # "QUERY"
               /\ calls[c].token = w.calls[c].token /\ calls[c].login = w.calls[c].login
               /\ LateIsStale(calls[c]) /\ Answered(calls[c]) /\ calls[c].answer = w.calls[c].answer
    <2> DEFINE q == w.calls[c]
               k == MovedOn(q, FALSE)
    <2>1. q \in CallRow
      BY <1>5, TabFields, CallShape
    <2>2. /\ k \in CallRow /\ k.for = (IF q.for = "QUERY" THEN "ORPHAN" ELSE q.for)
          /\ k.stale <=> q.stale \/ Compares(q)
          /\ k.token = q.token /\ k.login = q.login /\ k.request = q.request /\ k.answer = q.answer
      BY <2>1, MovedOnTyped
    <2>3. v.calls[c] = k
      BY <1>3, <1>5
    <2>4. k # NoCall
      BY <2>2, CallShape
    <2>a. PICK b \in BOOLEAN : b <=> Compares(k)
      OBVIOUS
    <2>5. Compares(k) = b
      BY <2>a DEF Compares
    <2>6. calls[c] = [k EXCEPT !.late = b]
      BY <2>3, <2>4, <2>5
    <2> HIDE DEF k, calls
    <2>7. /\ calls[c] \in CallRow /\ calls[c].for = k.for /\ calls[c].token = k.token
          /\ calls[c].login = k.login /\ calls[c].stale = k.stale /\ calls[c].late = b
          /\ calls[c].request = k.request /\ calls[c].answer = k.answer
      BY <2>2, <2>6 DEF CallRow
    <2>8. LateIsStale(calls[c])
      <3>1. Compares(calls[c]) => Compares(q)
        BY <2>2, <2>7 DEF Compares
      <3> QED BY <2>2, <2>7, <3>1 DEF LateIsStale
    <2>9. Answered(calls[c])
      <3>1. CallBegun(q, lg)
        BY DEF AllBegun
      <3> QED BY <1>5, <2>2, <2>7, <3>1 DEF CallBegun, Answered, SigningIn
    <2> QED BY <2>2, <2>7, <2>8, <2>9
  <1>6. ASSUME NEW c \in Call, w.calls[c] = NoCall PROVE calls[c] = NoCall
    BY <1>3, <1>6
  <1>7. calls \in [Call -> AnyCall]
    <2>1. ASSUME NEW c \in Call PROVE calls[c] \in AnyCall
      BY <1>5, <1>6 DEF AnyCall
    <2>2. calls = [c \in Call |-> calls[c]]
      OBVIOUS
    <2> HIDE DEF calls
    <2> QED BY <2>1, <2>2
  <1> HIDE DEF calls, x
  <1>8. /\ x \in WebRow /\ x.status = status /\ x.token = NoBearer /\ x.cookie = w.cookie
        /\ x.brought = w.brought /\ x.cache = {} /\ x.calls = calls
    BY <1>3, <1>4, <1>7 DEF WebRow, AnyCall
  <1>9. \A c \in Call : x.calls[c].for # "QUERY"
    BY <1>5, <1>6, <1>8, CallShape
  <1>10. \A c \in Call : CallBegun(x.calls[c], lg) /\ LateIsStale(x.calls[c])
    BY <1>5, <1>6, <1>8 DEF AllBegun, CallBegun, LateIsStale
  <1>11. AllBegun(x, lg)
    BY <1>8, <1>10, NoBearerTyped DEF AllBegun, Begun
  <1>12. Good(x, lg)
    BY <1>8, <1>9, <1>10, <1>11, NothingSeen DEF Good
  <1>13. \A c \in Call : (x.calls[c] = NoCall <=> w.calls[c] = NoCall) /\ x.calls[c].answer = w.calls[c].answer
    BY <1>5, <1>6, <1>8, CallShape
  <1> QED BY <1>8, <1>12, <1>13 DEF x

LEMMA ExpireGood ==
    ASSUME NEW w, NEW lg, Good(w, lg)
    PROVE  Good(expireSession(w), lg)
  BY SignedOutGood DEF expireSession, Good

(* A lost token: while a sign-in is under way nothing else changes, and the *)
(* server has moved.                                                        *)
LEMMA NotifyGood ==
    ASSUME NEW w, NEW lg, Good(w, lg)
    PROVE  /\ Good(notifySessionExpired(w), lg)
           /\ notifySessionExpired(w).status \in {w.status, "expired"}
           /\ \A c \in Call : (notifySessionExpired(w).calls[c] = NoCall <=> w.calls[c] = NoCall) /\ notifySessionExpired(w).calls[c].answer = w.calls[c].answer
           /\ w.attempt \/ w.told => notifySessionExpired(w).calls = w.calls
  <1>1. CASE w.told
    BY <1>1 DEF notifySessionExpired
  <1>2. CASE ~w.told
    <2>0. w \in WebRow /\ w.half \in BOOLEAN /\ w.attempt \in BOOLEAN
      BY TabFields DEF Good
    <2>1. PICK b \in BOOLEAN : b = (w.half \/ w.attempt)
      BY <2>0
    <2> DEFINE u == [w EXCEPT !.told = TRUE, !.token = NoBearer, !.half = b]
    <2>2. notifySessionExpired(w) = expireSession(u)
      BY <1>2, <2>1 DEF notifySessionExpired
    <2>3. /\ u \in WebRow /\ u.token = NoBearer /\ u.half = b /\ u.cookie = w.cookie /\ u.status = w.status
          /\ u.brought = w.brought /\ u.calls = w.calls /\ u.attempt = w.attempt
      BY <2>0, NoBearerTyped DEF WebRow
    <2> HIDE DEF u
    <2>4. AllBegun(u, lg) /\ \A c \in Call : LateIsStale(u.calls[c])
      BY <2>3, NoBearerTyped DEF Good, AllBegun, Begun
    <2>5. CASE w.attempt
      <3>1. SeesOne(u, lg)
        BY <2>0, <2>1, <2>3, <2>5 DEF SeesOne
      <3>2. Good(u, lg)
        BY <2>3, <2>4, <3>1 DEF Good
      <3> QED BY <2>2, <2>3, <2>5, <3>2 DEF expireSession
    <2>6. CASE ~w.attempt
      <3>1. expireSession(u) = SignedOut(u, "expired")
        BY <2>3, <2>6 DEF expireSession
      <3>2. /\ Good(SignedOut(u, "expired"), lg)
            /\ SignedOut(u, "expired").status = "expired"
            /\ \A c \in Call : (SignedOut(u, "expired").calls[c] = NoCall <=> u.calls[c] = NoCall) /\ SignedOut(u, "expired").calls[c].answer = u.calls[c].answer
        BY <2>3, <2>4, SignedOutGood
      <3> QED BY <1>2, <2>2, <2>3, <2>6, <3>1, <3>2
    <2> QED BY <2>5, <2>6
  <1> QED BY <1>1, <1>2

LEMMA RestoringGood ==
    ASSUME NEW w, NEW lg, Good(w, lg), NEW c \in Call
    PROVE  /\ Good(restoreAgencyContext(w, c), lg)
           /\ restoreAgencyContext(w, c).status \in {w.status, "loading"}
  <1>1. CASE Restoring(w) \/ ~w.session.support
    BY <1>1 DEF restoreAgencyContext
  <1>2. CASE ~(Restoring(w) \/ ~w.session.support)
    <2>0. w \in WebRow /\ w.session \in AnyContext
      BY TabFields DEF Good
    <2> DEFINE s == [w.session EXCEPT !.support = FALSE]
               v == transitionSession(w, s, TRUE)
               u == [v EXCEPT !.status = "loading"]
    <2>1. s \in AnyContext
      <3>1. w.session # NoContext
        BY <1>2 DEF NoContext
      <3>2. w.session \in Context
        BY <2>0, <3>1 DEF AnyContext
      <3>3. s \in Context
        BY <3>2 DEF Context
      <3> QED BY <3>3 DEF AnyContext
    <2>2. Good(v, lg)
      BY <2>1, TransitionGood
    <2>3. restoreAgencyContext(w, c) = Begins(u, c, "RESTORE", "ME", AgencySeat)
      BY <1>2 DEF restoreAgencyContext
    <2> HIDE DEF v, s
    <2>4. v \in WebRow
      BY <2>2 DEF Good
    <2>5. /\ u \in WebRow /\ u.token = v.token /\ u.cookie = v.cookie /\ u.brought = v.brought
          /\ u.cache = v.cache /\ u.half = v.half /\ u.calls = v.calls /\ u.status = "loading"
      BY <2>4 DEF WebRow
    <2> HIDE DEF u
    <2>6. Good(u, lg)
      BY <2>2, <2>5, AsGood
    <2>7. Good(Begins(u, c, "RESTORE", "ME", AgencySeat), lg)
      BY <2>6, BeginsGood, WebAssumption DEF Purpose
    <2>8. Begins(u, c, "RESTORE", "ME", AgencySeat).status = "loading"
      <3>1. Started("RESTORE", "ME", AgencySeat, u) \in AnyCall
        BY <2>6, StartedFits, WebAssumption DEF Purpose, AnyCall
      <3> QED BY <2>5, <3>1, OneCall DEF Begins, WithCall, SameButCalls
    <2> QED BY <2>3, <2>7, <2>8
  <1> QED BY <1>1, <1>2

(* A new token is that of the same session, or the tab is behind.           *)
LEMMA HoldsGood ==
    ASSUME NEW w, NEW lg, Good(w, lg), NEW l \in Login, Begun(l, lg), NEW seat \in Seat \cup {"NONE"}
    PROVE  LET v == Holds(w, l, seat)
           IN  /\ Good(v, lg) /\ v.calls = w.calls /\ v.status = w.status /\ v.cookie = w.cookie
               /\ v.token.login = l /\ v.brought = w.brought /\ v.cache = w.cache
               /\ v.token \in Bearer
               /\ ~v.half => ~w.half /\ w.token.login \in {0, l}
  <1>0. w \in WebRow /\ w.half \in BOOLEAN /\ l \in 0..MaxLogins /\ l # 0
    BY TabFields, WebAssumption DEF Good, Login
  <1>1. PICK b \in BOOLEAN : b <=> w.half \/ w.token.login \notin {0, l}
    OBVIOUS
  <1>2. (w.half \/ w.token.login \notin {0, l}) = b
    BY <1>0, <1>1
  <1> DEFINE t == [login |-> l, seat |-> seat, fresh |-> TRUE]
             v == Holds(w, l, seat)
  <1>3. t \in Bearer /\ t.login = l
    BY <1>0 DEF Bearer
  <1>4. v = [w EXCEPT !.token = t, !.told = FALSE, !.half = b]
    BY <1>2 DEF Holds
  <1> HIDE DEF t, v
  <1>5. /\ v \in WebRow /\ v.token = t /\ v.half = b /\ v.cookie = w.cookie /\ v.status = w.status
        /\ v.brought = w.brought /\ v.calls = w.calls /\ v.cache = w.cache
    BY <1>0, <1>3, <1>4 DEF WebRow
  <1>6. \A x : Sees(v, x) <=> Sees(w, x)
    BY <1>5 DEF Sees
  <1>7. SeesOne(v, lg)
    <2> SUFFICES ASSUME ~v.half PROVE SeesOne(v, lg)
      BY DEF SeesOne
    <2>1. ~w.half /\ w.token.login \in {0, l}
      BY <1>1, <1>5
    <2>2. CASE w.token.login = l
      BY <1>3, <1>5, <1>6, <2>1, <2>2 DEF Good, SeesOne
    <2>3. CASE w.token.login = 0
      BY <1>3, <1>5, <1>6, <2>1, <2>3 DEF Good, SeesOne
    <2> QED BY <2>1, <2>2, <2>3
  <1>8. AllBegun(v, lg)
    BY <1>3, <1>5 DEF Good, AllBegun
  <1>9. Good(v, lg)
    BY <1>5, <1>7, <1>8 DEF Good
  <1> QED BY <1>1, <1>3, <1>5, <1>9 DEF v

-----------------------------------------------------------------------------
(* EndedStaysEnded as the formula that a single step satisfies.             *)
StaysEnded ==
    web'.status = "authenticated" /\ web.status # "authenticated" =>
        \A c \in Call : web.calls[c] # NoCall /\ web'.calls[c] = NoCall =>
            web.calls[c].for \in SigningIn \/ (Compares(web.calls[c]) /\ ~web.calls[c].late)

LEMMA OpenedGood ==
    ASSUME NEW kept \in 0..MaxLogins, NEW lg, Begun(kept, lg), NEW c \in Call
    PROVE  Good(Opened(kept, c), lg) /\ Opened(kept, c).status = "loading"
  <1> DEFINE w == [status |-> "loading", session |-> NoContext, token |-> NoBearer, cookie |-> kept,
                   refresh |-> "SENT", brought |-> NoBearer, told |-> FALSE, attempt |-> FALSE,
                   challenge |-> FALSE, cache |-> {}, half |-> FALSE, calls |-> [d \in Call |-> NoCall]]
             k == [Started("INITIALIZE", "COMMAND", AgencySeat, w) EXCEPT !.at = "WAITING"]
  <1>1. w \in WebRow
    <2>1. [d \in Call |-> NoCall] \in [Call -> CallRow \cup {NoCall}]
      OBVIOUS
    <2> QED BY <2>1, NoBearerTyped DEF WebRow
  <1>2. w.status = "loading" /\ w.token = NoBearer /\ w.cookie = kept /\ w.brought = NoBearer /\ w.cache = {}
    OBVIOUS
  <1>3. \A d \in Call : w.calls[d] = NoCall
    OBVIOUS
  <1>4. Opened(kept, c) = WithCall(w, c, k)
    BY DEF Opened, WithCall
  <1> HIDE DEF w
  <1>5. SeesOne(w, lg)
    BY <1>2, <1>3, CallShape, NothingSeen
  <1>6. AllBegun(w, lg) /\ \A d \in Call : LateIsStale(w.calls[d])
    BY <1>2, <1>3, NoBearerTyped DEF AllBegun, CallBegun, Begun, LateIsStale
  <1>7. Good(w, lg)
    BY <1>1, <1>5, <1>6 DEF Good
  <1> DEFINE q == Started("INITIALIZE", "COMMAND", AgencySeat, w)
  <1>8. q \in CallRow /\ Fits(q, w, lg) /\ q.for = "INITIALIZE"
    BY <1>7, StartedFits, WebAssumption DEF Purpose, Started
  <1> HIDE DEF q
  <1>9. /\ k \in CallRow /\ k.for = "INITIALIZE" /\ k.token = q.token /\ k.login = q.login
        /\ k.late = q.late /\ k.stale = q.stale /\ Answered(k)
    BY <1>8 DEF CallRow, q, Started, Answered
  <1> HIDE DEF k
  <1>10. Fits(k, w, lg) /\ k \in AnyCall
    BY <1>8, <1>9, CallShape DEF Fits, CallBegun, LateIsStale, Compares, AnyCall
  <1>11. Good(WithCall(w, c, k), lg) /\ WithCall(w, c, k).status = "loading"
    BY <1>1, <1>2, <1>7, <1>10, CallFits, OneCall DEF SameButCalls
  <1> QED BY <1>4, <1>11

LEMMA WebStart == ASSUME WebInit PROVE WebInv
  <1>1. PICK l \in 0..1, x \in Context, c \in Call :
            /\ web = Opened(l, c) /\ troubles = 0
            /\ logins = [k \in Login |-> IF k = l THEN [open |-> TRUE, context |-> x] ELSE Closed]
    BY DEF WebInit
  <1>2. logins \in LoginRows /\ troubles \in 0..MaxTroubles
    BY <1>1, WebAssumption DEF LoginRows, LoginRow
  <1>3. l \in 0..MaxLogins /\ Begun(l, logins)
    <2>1. [open |-> TRUE, context |-> x] # Closed
      <3>1. DOMAIN [open |-> TRUE, context |-> x] = {"open", "context"} /\ DOMAIN Closed = {"open"}
        BY DEF Closed
      <3> QED BY <3>1
    <2>2. l # 0 => l \in Login
      BY WebAssumption DEF Login
    <2> QED BY <1>1, <2>1, <2>2, WebAssumption DEF Begun
  <1> QED BY <1>1, <1>2, <1>3, OpenedGood DEF WebInv

(* The server's sessions move on: none begins twice, and of the one the     *)
(* token is of the context stays, unless the tab is behind.                 *)
LEMMA LoginsMove ==
    ASSUME NEW w, NEW lg, NEW mg, Good(w, lg),
           \A l \in Login : lg[l] # Closed => mg[l] # Closed,
           ~w.half /\ w.token.login \in Login /\ mg[w.token.login].open =>
               lg[w.token.login].open /\ lg[w.token.login].context = mg[w.token.login].context
    PROVE  Good(w, mg)
  <1>1. w \in WebRow /\ w.token \in Bearer /\ w.cookie \in 0..MaxLogins /\ w.brought \in Bearer
        /\ w.calls \in [Call -> AnyCall]
    BY TabFields DEF Good
  <1>2. \A l \in 0..MaxLogins : Begun(l, lg) => Begun(l, mg)
    BY WebAssumption DEF Begun, Login
  <1>3. ASSUME NEW c \in Call PROVE CallBegun(w.calls[c], mg)
    <2>1. CallBegun(w.calls[c], lg) /\ w.calls[c] \in AnyCall
      BY <1>1 DEF Good, AllBegun
    <2>2. w.calls[c] # NoCall => w.calls[c].token \in Bearer /\ w.calls[c].login \in 0..MaxLogins
      BY <2>1, CallShape, CallFields
    <2> QED BY <1>2, <2>1, <2>2, TokenLogin DEF CallBegun
  <1>4. AllBegun(w, mg)
    BY <1>1, <1>2, <1>3, TokenLogin DEF Good, AllBegun
  <1>5. w.token.login # 0 => w.token.login \in Login
    BY <1>1, TokenLogin, WebAssumption DEF Login
  <1>6. SeesOne(w, mg)
    BY <1>5 DEF Good, SeesOne
  <1> QED BY <1>4, <1>6 DEF Good

-----------------------------------------------------------------------------
(* The server answers.                                                      *)

LEMMA ShutTyped == Shut \in LoginRow /\ Shut # Closed /\ ~Shut.open
  <1>1. Shut \in LoginRow /\ ~Shut.open
    BY DEF Shut, LoginRow
  <1>2. DOMAIN Shut = {"open", "context"} /\ DOMAIN Closed = {"open"}
    BY DEF Shut, Closed
  <1> QED BY <1>1, <1>2

LEMMA OpenLogin ==
    ASSUME logins \in LoginRows, NEW l \in Login, logins[l].open
    PROVE  /\ logins[l] \in [open: {TRUE}, context: Context]
           /\ logins[l].context \in Context /\ logins[l] # Closed
  <1>1. logins[l] \in [open: {TRUE}, context: Context] \cup {Shut, Closed} /\ ~Closed.open
    BY DEF LoginRows, LoginRow, Closed
  <1> QED BY <1>1, ShutTyped

LEMMA ReplyGood ==
    ASSUME NEW lg, Good(web, lg), NEW c \in Call, web.calls[c] # NoCall,
           NEW answer \in {"OK", "CHALLENGE", "EXPIRED", "REVOKED", "REFUSED", "UNREACHABLE"},
           NEW got \in AnyContext, NEW login \in 0..MaxLogins, Begun(login, lg),
           answer = "OK" /\ web.calls[c].for = "QUERY" =>
               /\ got \in Context
               /\ web.calls[c].token.login # 0
               /\ lg[web.calls[c].token.login].open
               /\ lg[web.calls[c].token.login].context = got,
           answer = "OK" /\ web.calls[c].request = "COMMAND" /\ web.calls[c].for \in SigningIn \cup {"SWITCH"} =>
               login # 0
    PROVE  /\ Good(Reply(c, answer, got, login), lg)
           /\ SameButCalls(Reply(c, answer, got, login), web)
  <1> DEFINE q == web.calls[c]
             k == [q EXCEPT !.at = "BACK", !.answer = answer, !.got = got, !.login = login]
  <1>1. web \in WebRow /\ q \in CallRow
    BY TabFields, CallShape DEF Good
  <1>2. k \in CallRow
    <2> HIDE DEF q
    <2> QED BY <1>1 DEF CallRow, AnyContext
  <1>3. /\ k.for = q.for /\ k.stale = q.stale /\ k.late = q.late /\ k.token = q.token
        /\ k.answer = answer /\ k.got = got /\ k.login = login /\ k.request = q.request
    BY <1>1 DEF CallRow
  <1>4. Reply(c, answer, got, login) = WithCall(web, c, k)
    BY DEF Reply, WithCall
  <1> HIDE DEF k
  <1>a. Answered(k)
    BY <1>3 DEF Answered
  <1>5. Fits(k, web, lg)
    <2>1. CASE answer # "OK" \/ q.for # "QUERY"
      BY <1>2, <1>3, <1>a, <2>1, AnswerFits
    <2>2. CASE answer = "OK" /\ q.for = "QUERY"
      <3>1. Fits(q, web, lg)
        BY OwnCallFits
      <3>2. ~web.half => q.token.login = web.token.login
        BY <2>2, <3>1 DEF Fits
      <3>3. ~web.half => \A x \in AnyContext : Sees(web, x) => x = got
        BY <2>2, <3>2 DEF Good, SeesOne
      <3> QED BY <1>3, <1>a, <2>2, <3>1, <3>2, <3>3, CallShape DEF Fits, CallBegun, LateIsStale, Compares
    <2> QED BY <2>1, <2>2
  <1>6. Good(WithCall(web, c, k), lg) /\ SameButCalls(WithCall(web, c, k), web)
    BY <1>1, <1>2, <1>5, CallFits, OneCall DEF AnyCall
  <1> QED BY <1>4, <1>6

LEMMA SameStatus ==
    ASSUME web'.status \in {web.status, "loading", "anonymous", "expired", "error"}
    PROVE  StaysEnded
  BY DEF StaysEnded

LEMMA AuthenticOpen ==
    ASSUME WebInv, NEW c \in Call, web.calls[c] # NoCall, Authentic(c)
    PROVE  LET l == web.calls[c].token.login
           IN  /\ l \in Login /\ l # 0 /\ logins[l].open
               /\ logins[l] \in LoginRow /\ logins[l].context \in Context /\ logins[l].context \in AnyContext
  <1>1. web.calls[c] \in CallRow
    BY TabFields, CallShape DEF WebInv, Good
  <1>2. web.calls[c].token.login \in 0..MaxLogins /\ web.calls[c].token.login # 0
    BY <1>1, CallFields, TokenLogin DEF Authentic
  <1>3. web.calls[c].token.login \in Login
    BY <1>2, WebAssumption DEF Login
  <1> QED BY <1>2, <1>3, OpenLogin DEF WebInv, Authentic, Accepts, LoginRow, AnyContext

(* Answers that change no session of the server.                            *)
LEMMA StepAnswers ==
    ASSUME WebInv, NEW c \in Call, AskForCode(c) \/ Answer(c) \/ Refuse(c) \/ Deny(c), UNCHANGED troubles
    PROVE  WebInv' /\ StaysEnded
  <1>1. web.calls[c] # NoCall /\ UNCHANGED logins
    BY DEF AskForCode, Answer, Refuse, Deny, OnItsWay
  <1>2. NoContext \in AnyContext /\ 0 \in 0..MaxLogins /\ Begun(0, logins) /\ Good(web, logins)
    BY WebAssumption DEF AnyContext, Begun, WebInv
  <1>3. PICK answer \in {"CHALLENGE", "EXPIRED", "REVOKED", "REFUSED"} :
            Answer(c) \/ web' = Reply(c, answer, NoContext, 0)
    BY DEF AskForCode, Refuse, Deny
  <1>4. Good(web', logins) /\ SameButCalls(web', web)
    <2>1. CASE web' = Reply(c, answer, NoContext, 0)
      BY <1>1, <1>2, <1>3, <2>1, ReplyGood
    <2>2. CASE Answer(c)
      <3> DEFINE got == Of(web.calls[c].token)
      <3>1. Authentic(c) /\ web' = Reply(c, "OK", got, 0)
        BY <2>2 DEF Answer
      <3>2. /\ web.calls[c].token.login # 0 /\ logins[web.calls[c].token.login].open
            /\ web.calls[c].request = "ME" /\ got \in Context
            /\ got \in AnyContext /\ logins[web.calls[c].token.login].context = got
        BY <1>1, <2>2, <3>1, AuthenticOpen DEF Of, Answer, OnItsWay
      <3> HIDE DEF got
      <3> QED BY <1>1, <1>2, <3>1, <3>2, ReplyGood
    <2> QED BY <1>3, <2>1, <2>2
  <1>5. WebInv'
    BY <1>1, <1>4 DEF WebInv
  <1> QED BY <1>4, <1>5, SameStatus DEF SameButCalls

LEMMA StepAdmit ==
    ASSUME WebInv, NEW c \in Call, NEW u \in User, NEW s \in Seat, Admit(c, u, s), UNCHANGED troubles
    PROVE  WebInv' /\ StaysEnded
  <1> DEFINE x == [user |-> u, seat |-> s, support |-> FALSE]
             row == [open |-> TRUE, context |-> x]
  <1>1. x \in Context /\ x \in AnyContext /\ row \in LoginRow
    BY DEF Context, AnyContext, LoginRow
  <1>2. PICK l \in Login : /\ NextLogin(l) /\ logins' = [logins EXCEPT ![l] = row]
                           /\ web' = Reply(c, "OK", x, l)
    BY DEF Admit
  <1>3. web.calls[c] # NoCall /\ web.calls[c].for # "QUERY"
    BY DEF Admit, OnItsWay, SigningIn
  <1>4. row.open /\ row # Closed
    <2>1. row.open /\ ~Closed.open
      BY DEF Closed
    <2> QED BY <2>1
  <1> HIDE DEF x, row
  <1>5. logins[l] = Closed /\ logins \in LoginRows
    BY <1>2 DEF NextLogin, WebInv
  <1>6. logins' \in LoginRows /\ \A k \in Login : logins'[k] = IF k = l THEN row ELSE logins[k]
    BY <1>1, <1>2, <1>5 DEF LoginRows
  <1>7. Good(web, logins)
    BY DEF WebInv
  <1>8. Good(web, logins')
    <2>1. web.token.login # l
      BY <1>5, <1>7, WebAssumption DEF Good, AllBegun, Begun, Login
    <2>2. \A k \in Login : logins[k] # Closed => logins'[k] # Closed
      BY <1>4, <1>6
    <2>3. web.token.login \in Login => logins'[web.token.login] = logins[web.token.login]
      BY <1>6, <2>1
    <2> QED BY <1>7, <2>2, <2>3, LoginsMove
  <1>9. l \in 0..MaxLogins /\ l # 0 /\ Begun(l, logins')
    BY <1>4, <1>6, WebAssumption DEF Login, Begun
  <1>10. Good(Reply(c, "OK", x, l), logins') /\ SameButCalls(Reply(c, "OK", x, l), web)
    BY <1>1, <1>3, <1>8, <1>9, ReplyGood
  <1>11. WebInv'
    BY <1>2, <1>6, <1>10 DEF WebInv
  <1> QED BY <1>2, <1>10, <1>11, SameStatus DEF SameButCalls

(* A command changes the context of its session, or closes sessions.        *)
LEMMA StepCarryOut ==
    ASSUME WebInv, NEW c \in Call, CarryOut(c), UNCHANGED troubles
    PROVE  WebInv' /\ StaysEnded
  <1> DEFINE k == web.calls[c]
             l == k.token.login
             x == Of(k.token)
             y == CASE k.for = "SWITCH"  -> [x EXCEPT !.seat = k.want, !.support = FALSE]
                    [] k.for = "ELEVATE" -> [x EXCEPT !.support = TRUE]
                    [] k.for = "END"     -> [x EXCEPT !.support = FALSE]
                    [] OTHER             -> x
             closes == {n \in Login : /\ logins[n].open
                                      /\ \/ n = l /\ k.for \in {"LOGOUT_ALL", "UNLINK"}
                                         \/ k.for = "LOGOUT_ALL" /\ logins[n].context.user = x.user}
  <1>1. /\ k # NoCall /\ k.for \in Commanded /\ Authentic(c) /\ k \in CallRow /\ k.want \in Seat
        /\ Good(web, logins) /\ logins \in LoginRows
    <2>1. k # NoCall /\ k.for \in Commanded /\ Authentic(c)
      BY DEF CarryOut, OnItsWay
    <2>2. k \in CallRow
      BY <2>1, TabFields, CallShape DEF WebInv, Good
    <2> QED BY <2>1, <2>2, CallFields DEF WebInv
  <1>2. l \in Login /\ l # 0 /\ logins[l].open /\ x \in Context /\ x = logins[l].context
    BY <1>1, AuthenticOpen DEF Of
  <1>3. logins' = [n \in Login |-> IF n \in closes THEN Shut
                                   ELSE IF n = l THEN [logins[n] EXCEPT !.context = y] ELSE logins[n]]
    BY DEF CarryOut
  <1>4. web' = [Reply(c, "OK", y, l) EXCEPT !.half = @ \/ x # y]
    BY DEF CarryOut
  <1>5. y \in Context
    <2>1. /\ [x EXCEPT !.seat = k.want, !.support = FALSE] \in Context
          /\ [x EXCEPT !.support = TRUE] \in Context /\ [x EXCEPT !.support = FALSE] \in Context
      BY <1>1, <1>2 DEF Context
    <2> QED BY <1>2, <2>1
  <1>6. \A n \in Login : logins[n].open => logins[n] \in [open: {TRUE}, context: Context]
    BY <1>1, OpenLogin
  <1> HIDE DEF x, y, l, k, closes
  <1>7. \A n \in Login : logins'[n] = IF n \in closes THEN Shut
                                      ELSE IF n = l THEN [logins[n] EXCEPT !.context = y] ELSE logins[n]
    BY <1>3
  <1>8. [logins[l] EXCEPT !.context = y] \in [open: {TRUE}, context: Context]
        /\ [logins[l] EXCEPT !.context = y].context = y
    BY <1>2, <1>5, <1>6
  <1>9. logins' \in LoginRows
    <2>1. ASSUME NEW n \in Login PROVE logins'[n] \in LoginRow \cup {Closed}
      BY <1>1, <1>7, <1>8 DEF LoginRows, LoginRow
    <2> QED BY <1>3, <2>1 DEF LoginRows
  <1>10. \A n \in Login : logins[n] # Closed => logins'[n] # Closed
    <2>1. \A r \in [open: {TRUE}, context: Context] : r # Closed
      BY DEF Closed
    <2> QED BY <1>7, <1>8, <2>1, ShutTyped
  <1>11. l \in 0..MaxLogins /\ Begun(l, logins)
    <2>1. logins[l] # Closed
      BY <1>2, <1>6, OpenLogin, <1>1
    <2> QED BY <1>2, <2>1, WebAssumption DEF Begun, Login
  <1> DEFINE r == Reply(c, "OK", y, l)
  <1>12. Good(r, logins) /\ SameButCalls(r, web)
    <2>1. web.calls[c].for # "QUERY" /\ web.calls[c] # NoCall /\ y \in AnyContext
      BY <1>1, <1>5 DEF Commanded, k, AnyContext
    <2> QED BY <1>1, <1>2, <1>11, <2>1, ReplyGood
  <1> HIDE DEF r
  <1>13. PICK b \in BOOLEAN : b <=> web.half \/ x # y
    OBVIOUS
  <1>14. web' = [r EXCEPT !.half = b]
    <2>1. r.half = web.half /\ web.half \in BOOLEAN
      BY <1>1, <1>12, TabFields DEF Good, SameButCalls
    <2>2. (r.half \/ x # y) = b
      BY <1>13, <2>1
    <2> QED BY <1>4, <2>2 DEF r
  <1>15. /\ web' \in WebRow /\ web'.token = r.token /\ web'.cookie = r.cookie /\ web'.brought = r.brought
         /\ web'.cache = r.cache /\ web'.half = b /\ web'.calls = r.calls /\ web'.status = r.status
    BY <1>12, <1>14 DEF Good, WebRow
  <1>16. r.half => b
    BY <1>12, <1>13 DEF SameButCalls
  <1>17. Good(web', logins)
    BY <1>12, <1>15, <1>16, AsGood
  <1>18. ASSUME ~web'.half, web'.token.login \in Login, logins'[web'.token.login].open
         PROVE  /\ logins[web'.token.login].open
                /\ logins[web'.token.login].context = logins'[web'.token.login].context
    <2> DEFINE n == web'.token.login
    <2>1. x = y
      BY <1>13, <1>15, <1>18
    <2>2. n \notin closes
      BY <1>7, <1>18, ShutTyped
    <2> QED BY <1>2, <1>7, <1>8, <1>18, <2>1, <2>2
  <1>19. Good(web', logins')
    BY <1>10, <1>17, <1>18, LoginsMove
  <1>20. WebInv'
    BY <1>9, <1>19 DEF WebInv
  <1>21. web'.status = web.status
    BY <1>12, <1>15 DEF SameButCalls
  <1> QED BY <1>20, <1>21, SameStatus

(* Sessions are closed, and none else changes.                              *)
LEMMA ClosingGood ==
    ASSUME WebInv, NEW closes, logins' \in [Login -> LoginRow \cup {Closed}],
           \A n \in Login : logins'[n] = IF n \in closes THEN Shut ELSE logins[n]
    PROVE  Good(web, logins') /\ logins' \in LoginRows
  <1>1. \A n \in Login : logins[n] # Closed => logins'[n] # Closed
    BY ShutTyped
  <1>2. ASSUME web.token.login \in Login, logins'[web.token.login].open
        PROVE  logins[web.token.login] = logins'[web.token.login]
    BY <1>2, ShutTyped
  <1> QED BY <1>1, <1>2, LoginsMove DEF WebInv, LoginRows

LEMMA StepServerLogout ==
    ASSUME WebInv, NEW c \in Call, ServerLogout(c), UNCHANGED troubles
    PROVE  WebInv' /\ StaysEnded
  <1> DEFINE closes == {l \in Login : l = web.cookie /\ logins[l].open}
  <1>1. logins' = [l \in Login |-> IF l \in closes THEN Shut ELSE logins[l]]
    BY DEF ServerLogout
  <1>2. /\ web.calls[c] # NoCall /\ web.calls[c].for # "QUERY" /\ web' = Reply(c, "OK", NoContext, 0)
        /\ web.calls[c].for \notin SigningIn \cup {"SWITCH"}
    BY DEF ServerLogout, OnItsWay, SigningIn
  <1> HIDE DEF closes
  <1>3. /\ logins' \in [Login -> LoginRow \cup {Closed}]
        /\ \A n \in Login : logins'[n] = IF n \in closes THEN Shut ELSE logins[n]
    BY <1>1, ShutTyped DEF WebInv, LoginRows
  <1>4. Good(web, logins') /\ logins' \in LoginRows
    BY <1>3, ClosingGood
  <1>5. NoContext \in AnyContext /\ 0 \in 0..MaxLogins /\ Begun(0, logins')
    BY WebAssumption DEF AnyContext, Begun
  <1>6. Good(Reply(c, "OK", NoContext, 0), logins') /\ SameButCalls(Reply(c, "OK", NoContext, 0), web)
    BY <1>2, <1>4, <1>5, ReplyGood
  <1>7. WebInv'
    BY <1>2, <1>4, <1>6 DEF WebInv
  <1> QED BY <1>2, <1>6, <1>7, SameStatus DEF SameButCalls

-----------------------------------------------------------------------------
(* The refresh of the token.                                                *)
LEMMA StepServeToken ==
    ASSUME WebInv, AccessTokenServed, UNCHANGED troubles
    PROVE  WebInv' /\ StaysEnded
  <1> DEFINE l == web.cookie
  <1>1. Good(web, logins) /\ logins \in LoginRows /\ web \in WebRow /\ l \in 0..MaxLogins /\ Begun(l, logins)
    BY TabFields DEF WebInv, Good, AllBegun
  <1>2. PICK t : t = IF l # 0 /\ logins[l].open
                     THEN [login |-> l, seat |-> logins[l].context.seat, fresh |-> TRUE] ELSE NoBearer
    OBVIOUS
  <1>3. web' = [web EXCEPT !.refresh = "BACK", !.brought = t] /\ UNCHANGED logins
    BY <1>2 DEF AccessTokenServed
  <1>4. t \in Bearer /\ Begun(t.login, logins) /\ (t = NoBearer \/ t.login # 0)
    <2>1. CASE l # 0 /\ logins[l].open
      <3>0. l \in Login
        BY <1>1, <2>1, WebAssumption DEF Login
      <3>1. logins[l].context \in Context
        BY <1>1, <2>1, <3>0, OpenLogin
      <3> QED BY <1>1, <1>2, <2>1, <3>1 DEF Bearer, Context
    <2>2. CASE ~(l # 0 /\ logins[l].open)
      BY <1>2, <2>2, NoBearerTyped DEF Begun
    <2> QED BY <2>1, <2>2
  <1>5. /\ web' \in WebRow /\ web'.token = web.token /\ web'.cookie = web.cookie /\ web'.brought = t
        /\ web'.cache = web.cache /\ web'.half = web.half /\ web'.calls = web.calls
        /\ web'.status = web.status
    BY <1>1, <1>3, <1>4 DEF WebRow
  <1>6. Good(web', logins)
    BY <1>1, <1>4, <1>5, AsGood
  <1>7. WebInv'
    BY <1>3, <1>6 DEF WebInv
  <1> QED BY <1>5, <1>7, SameStatus

(* Calls that waited for the token go on with it, or fail without it: all   *)
(* fit, one by one.                                                         *)
CallGoesOn(k, q, w, lg) ==
    /\ CallBegun(k, lg) /\ LateIsStale(k)
    /\ k.for = "QUERY" =>
         /\ q.for = "QUERY"
         /\ k.token.login \in {q.token.login, w.token.login}
         /\ k.answer = "OK" => q.answer = "OK" /\ q.got = k.got

LEMMA CallsFit ==
    ASSUME NEW w, NEW lg, Good(w, lg), NEW v \in WebRow,
           v.token = w.token, v.cookie = w.cookie, v.brought \in {NoBearer, w.brought},
           v.cache = w.cache, v.half = w.half,
           \A c \in Call : CallGoesOn(v.calls[c], w.calls[c], w, lg)
    PROVE  Good(v, lg)
  <1>1. \A x : Sees(v, x) => Sees(w, x)
    BY DEF Sees, CallGoesOn
  <1>2. AllBegun(v, lg)
    BY NoBearerTyped DEF Good, AllBegun, Begun, CallGoesOn
  <1>3. SeesOne(v, lg)
    BY <1>1 DEF Good, SeesOne, CallGoesOn
  <1> QED BY <1>2, <1>3 DEF Good, CallGoesOn

LEMMA StepRefresh ==
    ASSUME WebInv, refreshAccessToken, UNCHANGED troubles
    PROVE  WebInv' /\ StaysEnded
  <1> DEFINE t == web.brought
             v == IF t = NoBearer THEN web ELSE Holds(web, t.login, t.seat)
             On(k) == IF k = NoCall \/ k.at # "WAITING" THEN k
                      ELSE IF t = NoBearer THEN [k EXCEPT !.at = "BACK", !.answer = "EXPIRED", !.retried = TRUE]
                      ELSE [k EXCEPT !.at = "SENT", !.token = v.token, !.retried = TRUE,
                                     !.request = IF k.for = "INITIALIZE" THEN "ME" ELSE @]
             calls == [c \in Call |-> On(v.calls[c])]
  <1>0. Good(web, logins) /\ web \in WebRow /\ t \in Bearer
    BY TabFields DEF WebInv, Good
  <1>1. web' = [v EXCEPT !.refresh = "NONE", !.brought = NoBearer, !.calls = calls] /\ UNCHANGED logins
    BY DEF refreshAccessToken
  <1>2. /\ Good(v, logins) /\ v.calls = web.calls /\ v.status = web.status /\ v.token \in Bearer
        /\ t # NoBearer => v.token.login # 0
    <2>1. CASE t = NoBearer
      BY <1>0, <2>1, TabFields
    <2>2. CASE t # NoBearer
      <3>1. t.login \in Login /\ Begun(t.login, logins) /\ t.seat \in Seat \cup {"NONE"} /\ t.login # 0
        BY <1>0, <2>2, WebAssumption DEF Bearer, Good, AllBegun, Login
      <3>2. v = Holds(web, t.login, t.seat)
        BY <2>2
      <3> HIDE DEF v, t
      <3> QED BY <1>0, <3>1, <3>2, HoldsGood
    <2> QED BY <2>1, <2>2
  <1> HIDE DEF v
  <1>3. v \in WebRow /\ v.calls \in [Call -> AnyCall]
    BY <1>2, TabFields DEF Good
  <1>4. ASSUME NEW c \in Call
        PROVE  calls[c] \in AnyCall /\ CallGoesOn(calls[c], v.calls[c], v, logins)
    <2> DEFINE k == v.calls[c]
    <2>1. k \in AnyCall /\ CallBegun(k, logins) /\ LateIsStale(k)
      BY <1>2, <1>3 DEF Good, AllBegun
    <2>2. CASE k = NoCall \/ k.at # "WAITING"
      BY <2>1, <2>2 DEF CallGoesOn
    <2>3. CASE ~(k = NoCall \/ k.at # "WAITING") /\ t = NoBearer
      <3> DEFINE q == [k EXCEPT !.at = "BACK", !.answer = "EXPIRED", !.retried = TRUE]
      <3>1. calls[c] = q
        BY <2>3
      <3>2. k \in CallRow
        BY <2>1, <2>3, CallShape
      <3> HIDE DEF calls, k
      <3>3. q \in CallRow
        BY <3>2 DEF CallRow
      <3>4. q.for = k.for /\ q.token = k.token /\ q.answer = "EXPIRED" /\ q.login = k.login /\ q.late = k.late /\ q.stale = k.stale
        BY <3>2 DEF CallRow
      <3> HIDE DEF q
      <3>5. k # NoCall
        BY <2>3
      <3>6. CallBegun(q, logins) /\ LateIsStale(q)
        BY <2>1, <3>4, <3>5 DEF CallBegun, Answered, LateIsStale, Compares
      <3> QED BY <3>1, <3>3, <3>4, <3>6 DEF AnyCall, k, CallGoesOn
    <2>4. CASE ~(k = NoCall \/ k.at # "WAITING") /\ t # NoBearer
      <3>0. PICK request : request = IF k.for = "INITIALIZE" THEN "ME" ELSE k.request
        OBVIOUS
      <3> DEFINE q == [k EXCEPT !.at = "SENT", !.token = v.token, !.retried = TRUE, !.request = request]
      <3>1. calls[c] = q
        BY <2>4, <3>0
      <3>2. k \in CallRow
        BY <2>1, <2>4, CallShape
      <3>a. request \in {"COMMAND", "ME"}
        BY <3>0, <3>2, CallFields
      <3> HIDE DEF calls, k
      <3>3. q \in CallRow
        BY <1>2, <3>2, <3>a DEF CallRow
      <3>4. q.for = k.for /\ q.token = v.token /\ q.answer = k.answer /\ q.got = k.got /\ q.login = k.login /\ q.late = k.late /\ q.stale = k.stale
        BY <3>2 DEF CallRow
      <3> HIDE DEF q
      <3>5. k # NoCall
        BY <2>4
      <3>b. q.for \in SigningIn \cup {"SWITCH"} => q.request = k.request
        BY <3>0, <3>2, <3>4 DEF CallRow, SigningIn, q
      <3>c. Answered(k) => Answered(q)
        BY <3>4, <3>b DEF Answered
      <3>6. CallBegun(q, logins) /\ LateIsStale(q)
        BY <1>2, <2>1, <3>4, <3>5, <3>c DEF CallBegun, LateIsStale, Compares, Good, AllBegun
      <3> QED BY <3>1, <3>3, <3>4, <3>6 DEF AnyCall, k, CallGoesOn
    <2> QED BY <2>2, <2>3, <2>4
  <1>5. calls \in [Call -> AnyCall]
    <2>1. calls = [c \in Call |-> calls[c]]
      OBVIOUS
    <2>2. \A c \in Call : calls[c] \in AnyCall
      BY <1>4
    <2> HIDE DEF calls
    <2> QED BY <2>1, <2>2
  <1> HIDE DEF calls
  <1>6. /\ web' \in WebRow /\ web'.token = v.token /\ web'.cookie = v.cookie /\ web'.brought = NoBearer
        /\ web'.cache = v.cache /\ web'.half = v.half /\ web'.calls = calls /\ web'.status = v.status
    BY <1>1, <1>3, <1>5, NoBearerTyped DEF WebRow, AnyCall
  <1>7. Good(web', logins)
    <2>1. \A c \in Call : CallGoesOn(web'.calls[c], v.calls[c], v, logins)
      BY <1>4, <1>6
    <2> QED BY <1>2, <1>6, <2>1, CallsFit
  <1>8. WebInv'
    BY <1>1, <1>7 DEF WebInv
  <1> QED BY <1>2, <1>6, <1>8, SameStatus

(* A call that waits for a new token keeps the old answer from no one.      *)
LEMMA StepRepeat ==
    ASSUME WebInv, NEW c \in Call, Repeat(c), UNCHANGED troubles
    PROVE  WebInv' /\ StaysEnded
  <1> DEFINE q == web.calls[c]
             k == [q EXCEPT !.at = "WAITING", !.answer = "NONE"]
  <1>0. Good(web, logins) /\ web \in WebRow /\ q # NoCall /\ q \in CallRow
    <2>1. Good(web, logins) /\ web \in WebRow /\ q # NoCall
      BY DEF WebInv, Good, Repeat, Back
    <2> QED BY <2>1, TabFields, CallShape
  <1>1. PICK refresh \in {"NONE", "SENT", "BACK"} : refresh = IF web.refresh = "NONE" THEN "SENT" ELSE web.refresh
    BY <1>0 DEF WebRow
  <1>2. web' = [WithCall(web, c, k) EXCEPT !.refresh = refresh] /\ UNCHANGED logins
    BY <1>0, <1>1 DEF Repeat, WithCall, WebRow
  <1>3. /\ k \in CallRow /\ k.for = q.for /\ k.stale = q.stale /\ k.late = q.late /\ k.token = q.token
        /\ k.answer = "NONE" /\ k.login = q.login
    <2> HIDE DEF q
    <2> QED BY <1>0 DEF CallRow
  <1>4. Begun(q.login, logins)
    BY <1>0 DEF Good, AllBegun, CallBegun
  <1> HIDE DEF k
  <1>5. Fits(k, web, logins)
    BY <1>0, <1>3, <1>4, AnswerFits DEF Answered
  <1> DEFINE v == WithCall(web, c, k)
  <1>6. Good(v, logins) /\ SameButCalls(v, web)
    BY <1>0, <1>3, <1>5, CallFits, OneCall DEF AnyCall
  <1> HIDE DEF v
  <1>7. /\ web' \in WebRow /\ web'.token = v.token /\ web'.cookie = v.cookie /\ web'.brought = v.brought
        /\ web'.cache = v.cache /\ web'.half = v.half /\ web'.calls = v.calls /\ web'.status = v.status
    <2>1. web' = [v EXCEPT !.refresh = refresh] /\ v \in WebRow
      BY <1>2, <1>6 DEF v, Good
    <2> QED BY <2>1 DEF WebRow
  <1>8. Good(web', logins)
    BY <1>6, <1>7, AsGood
  <1>9. WebInv'
    BY <1>2, <1>8 DEF WebInv
  <1> QED BY <1>6, <1>7, <1>9, SameStatus DEF SameButCalls

-----------------------------------------------------------------------------
(* Answers that do not come, and what ends without the tab.                 *)
LEMMA StepLose ==
    ASSUME WebInv, NEW c \in Call, Lose(c)
    PROVE  Good(web', logins) /\ UNCHANGED logins /\ web'.status = web.status
  <1>1. web.calls[c] # NoCall /\ web' = Reply(c, "UNREACHABLE", NoContext, 0) /\ UNCHANGED logins
    BY DEF Lose
  <1>2. NoContext \in AnyContext /\ 0 \in 0..MaxLogins /\ Begun(0, logins) /\ Good(web, logins)
    BY WebAssumption DEF AnyContext, Begun, WebInv
  <1>3. Good(Reply(c, "UNREACHABLE", NoContext, 0), logins) /\ SameButCalls(Reply(c, "UNREACHABLE", NoContext, 0), web)
    BY <1>1, <1>2, ReplyGood
  <1> QED BY <1>1, <1>3 DEF SameButCalls

LEMMA StepLoseRefresh ==
    ASSUME WebInv, LoseRefresh \/ TokenExpires
    PROVE  Good(web', logins) /\ UNCHANGED logins /\ web'.status = web.status
  <1>0. Good(web, logins) /\ web \in WebRow /\ web.token \in Bearer
    BY TabFields DEF WebInv, Good
  <1>1. CASE LoseRefresh
    <2>1. web' = [web EXCEPT !.refresh = "BACK"] /\ UNCHANGED logins
      BY <1>1 DEF LoseRefresh
    <2>2. /\ web' \in WebRow /\ web'.token = web.token /\ web'.cookie = web.cookie /\ web'.brought = web.brought
          /\ web'.cache = web.cache /\ web'.half = web.half /\ web'.calls = web.calls
          /\ web'.status = web.status
      BY <1>0, <2>1 DEF WebRow
    <2> QED BY <1>0, <2>1, <2>2, AsGood
  <1>2. CASE TokenExpires
    <2> DEFINE t == [web.token EXCEPT !.fresh = FALSE]
    <2>0. t \in Bearer /\ t.login = web.token.login
      BY <1>0 DEF Bearer
    <2>1. web' = [web EXCEPT !.token = t] /\ UNCHANGED logins
      BY <1>0, <1>2 DEF TokenExpires, WebRow
    <2> HIDE DEF t
    <2>2. /\ web' \in WebRow /\ web'.token = t /\ web'.cookie = web.cookie /\ web'.brought = web.brought
          /\ web'.cache = web.cache /\ web'.half = web.half /\ web'.calls = web.calls
          /\ web'.status = web.status
      BY <1>0, <2>0, <2>1 DEF WebRow
    <2>3. \A x : Sees(web', x) <=> Sees(web, x)
      BY <2>2 DEF Sees
    <2>4. SeesOne(web', logins)
      BY <1>0, <2>0, <2>2, <2>3 DEF Good, SeesOne
    <2>5. AllBegun(web', logins)
      BY <1>0, <2>0, <2>2 DEF Good, AllBegun
    <2> QED BY <1>0, <2>1, <2>2, <2>4, <2>5 DEF Good
  <1> QED BY <1>1, <1>2

LEMMA StepLapses ==
    ASSUME WebInv, NEW l \in Login, ElevationLapses(l)
    PROVE  Good(web', logins') /\ logins' \in LoginRows /\ web'.status = web.status
  <1>0. Good(web, logins) /\ web \in WebRow /\ logins \in LoginRows
    BY DEF WebInv, Good
  <1> DEFINE r == [logins[l] EXCEPT !.context = [logins[l].context EXCEPT !.support = FALSE]]
  <1>1. logins[l] \in [open: {TRUE}, context: Context]
    BY <1>0, OpenLogin DEF ElevationLapses
  <1>2. r \in [open: {TRUE}, context: Context]
    <2>1. [logins[l].context EXCEPT !.support = FALSE] \in Context
      BY <1>1 DEF Context
    <2> QED BY <1>1, <2>1
  <1>3. logins' = [logins EXCEPT ![l] = r] /\ web' = [web EXCEPT !.half = TRUE]
    BY <1>0, <1>1 DEF ElevationLapses, LoginRows
  <1> HIDE DEF r
  <1>4. logins' \in LoginRows /\ \A n \in Login : logins'[n] = IF n = l THEN r ELSE logins[n]
    BY <1>0, <1>2, <1>3 DEF LoginRows, LoginRow
  <1>5. r # Closed
    <2>1. r.open /\ ~Closed.open
      BY <1>2 DEF Closed
    <2> QED BY <2>1
  <1>6. /\ web' \in WebRow /\ web'.token = web.token /\ web'.cookie = web.cookie /\ web'.brought = web.brought
        /\ web'.cache = web.cache /\ web'.half /\ web'.calls = web.calls
        /\ web'.status = web.status
    BY <1>0, <1>3 DEF WebRow
  <1>7. Good(web', logins)
    BY <1>0, <1>6, AsGood
  <1>8. Good(web', logins')
    BY <1>4, <1>5, <1>6, <1>7, LoginsMove
  <1> QED BY <1>4, <1>6, <1>8

LEMMA StepRevoked ==
    ASSUME WebInv, NEW l \in Login, RevokedElsewhere(l)
    PROVE  Good(web', logins') /\ logins' \in LoginRows /\ web'.status = web.status
  <1>1. logins' = [logins EXCEPT ![l] = Shut] /\ UNCHANGED web
    BY DEF RevokedElsewhere
  <1>2. /\ logins' \in [Login -> LoginRow \cup {Closed}]
        /\ \A n \in Login : logins'[n] = IF n \in {l} THEN Shut ELSE logins[n]
    BY <1>1, ShutTyped DEF WebInv, LoginRows
  <1> QED BY <1>1, <1>2, ClosingGood

LEMMA StepTrouble ==
    ASSUME WebInv, Trouble
    PROVE  WebInv' /\ StaysEnded
  <1>1. troubles' \in 0..MaxTroubles
    BY WebAssumption DEF Trouble, WebInv
  <1>2. Good(web', logins') /\ logins' \in LoginRows /\ web'.status = web.status
    <2>1. \A c \in Call : Lose(c) => Good(web', logins) /\ UNCHANGED logins /\ web'.status = web.status
      BY StepLose
    <2>2. LoseRefresh \/ TokenExpires => Good(web', logins) /\ UNCHANGED logins /\ web'.status = web.status
      BY StepLoseRefresh
    <2>3. \A l \in Login : ElevationLapses(l) \/ RevokedElsewhere(l) =>
              Good(web', logins') /\ logins' \in LoginRows /\ web'.status = web.status
      BY StepLapses, StepRevoked
    <2>4. \/ \E c \in Call : Lose(c)
          \/ LoseRefresh \/ TokenExpires
          \/ \E l \in Login : ElevationLapses(l) \/ RevokedElsewhere(l)
      BY DEF Trouble
    <2>5. Good(web', logins) /\ UNCHANGED logins => Good(web', logins') /\ logins' \in LoginRows
      BY DEF WebInv
    <2> QED BY <2>1, <2>2, <2>3, <2>4, <2>5
  <1>3. WebInv'
    BY <1>1, <1>2 DEF WebInv
  <1> QED BY <1>2, <1>3, SameStatus

-----------------------------------------------------------------------------
(* What a person, a timer or a reload begins.                               *)
LEMMA StepTimer ==
    ASSUME WebInv, NEW c \in Call, TimerFires(c), UNCHANGED troubles
    PROVE  WebInv' /\ StaysEnded
  <1>1. Good(web, logins) /\ UNCHANGED logins /\ web' = restoreAgencyContext(web, c)
    BY DEF WebInv, TimerFires
  <1>2. Good(web', logins) /\ web'.status \in {web.status, "loading"}
    BY <1>1, RestoringGood
  <1>3. WebInv'
    BY <1>1, <1>2 DEF WebInv
  <1> QED BY <1>2, <1>3, SameStatus

LEMMA StepReload ==
    ASSUME WebInv, NEW c \in Call, Reload(c)
    PROVE  WebInv' /\ StaysEnded
  <1>1. web' = Opened(web.cookie, c) /\ UNCHANGED <<logins, troubles>>
    BY DEF Reload
  <1>2. web.cookie \in 0..MaxLogins /\ Begun(web.cookie, logins)
    BY TabFields DEF WebInv, Good, AllBegun
  <1>3. Good(web', logins) /\ web'.status = "loading"
    BY <1>1, <1>2, OpenedGood
  <1>4. WebInv'
    BY <1>1, <1>3 DEF WebInv
  <1> QED BY <1>3, <1>4, SameStatus

LEMMA BeginsStatus ==
    ASSUME NEW w, NEW lg, Good(w, lg), NEW c \in Call, NEW purpose \in Purpose,
           NEW request \in {"COMMAND", "ME"}, NEW want \in Seat
    PROVE  LET v == Begins(w, c, purpose, request, want)
           IN  /\ Good(v, lg) /\ SameButCalls(v, w)
               /\ v.calls[c] = Started(purpose, request, want, w)
  <1>1. w \in WebRow /\ Started(purpose, request, want, w) \in AnyCall
    BY StartedFits DEF Good, AnyCall
  <1> QED BY <1>1, BeginsGood, OneCall DEF Begins, WithCall

LEMMA BeginInitialize ==
    ASSUME WebInv, NEW c \in Call, NEW want \in Seat, NEW v, NEW refresh \in {"NONE", "SENT", "BACK"},
           v = [Begins(web, c, "INITIALIZE", "COMMAND", want) EXCEPT
                    !.calls[c].at = "WAITING", !.refresh = refresh, !.status = "loading"]
    PROVE  Good(v, logins) /\ v.status = "loading"
  <1> DEFINE b == Begins(web, c, "INITIALIZE", "COMMAND", want)
             k == [b.calls[c] EXCEPT !.at = "WAITING"]
             u == WithCall(b, c, k)
  <1>1. Good(b, logins) /\ b \in WebRow /\ b.calls[c] = Started("INITIALIZE", "COMMAND", want, web)
    BY BeginsStatus DEF WebInv, Purpose, Good
  <1>2. b.calls[c] \in CallRow /\ b.calls[c] # NoCall
    BY <1>1, StartedFits, CallShape DEF WebInv, Purpose
  <1> HIDE DEF b
  <1>3. v = [u EXCEPT !.refresh = refresh, !.status = "loading"]
    BY <1>1 DEF WithCall, b, WebRow
  <1>4. /\ k \in CallRow /\ k.for = b.calls[c].for /\ k.stale = b.calls[c].stale /\ k.late = b.calls[c].late
        /\ k.token = b.calls[c].token /\ k.login = b.calls[c].login /\ k.answer = b.calls[c].answer
    BY <1>2 DEF CallRow
  <1>a. b.calls[c].answer = "NONE"
    BY <1>1 DEF Started
  <1>5. b.calls[c].for = "INITIALIZE" /\ Begun(b.calls[c].login, logins)
    BY <1>1, <1>2 DEF Started, Good, AllBegun, CallBegun
  <1> HIDE DEF k
  <1>6. Fits(k, b, logins)
    BY <1>1, <1>2, <1>4, <1>a, <1>5, AnswerFits DEF Answered
  <1>7. Good(u, logins)
    BY <1>1, <1>4, <1>6, CallFits DEF AnyCall
  <1> HIDE DEF u
  <1>8. /\ v \in WebRow /\ v.token = u.token /\ v.cookie = u.cookie /\ v.brought = u.brought
        /\ v.cache = u.cache /\ v.half = u.half /\ v.calls = u.calls /\ v.status = "loading"
    BY <1>3, <1>7 DEF Good, WebRow
  <1> QED BY <1>7, <1>8, AsGood

LEMMA BeginLogin ==
    ASSUME WebInv, NEW c \in Call, NEW want \in Seat, NEW v,
           v = [Begins([web EXCEPT !.calls = [d \in Call |-> IF web.calls[d] = NoCall THEN NoCall
                                        ELSE [web.calls[d] EXCEPT !.stale = Compares(web.calls[d])]]],
                       c, "LOGIN", "COMMAND", want) EXCEPT !.attempt = TRUE]
    PROVE  Good(v, logins) /\ v.status = web.status
  <1> DEFINE calls == [d \in Call |-> IF web.calls[d] = NoCall THEN NoCall
                                      ELSE [web.calls[d] EXCEPT !.stale = Compares(web.calls[d])]]
             w == [web EXCEPT !.calls = calls]
             b == Begins(w, c, "LOGIN", "COMMAND", want)
  <1>0. Good(web, logins) /\ web \in WebRow /\ web.calls \in [Call -> AnyCall]
    BY TabFields DEF WebInv, Good
  <1>1. ASSUME NEW d \in Call
        PROVE  calls[d] \in AnyCall /\ CallGoesOn(calls[d], web.calls[d], web, logins)
    <2> DEFINE q == web.calls[d]
    <2>1. q \in AnyCall /\ CallBegun(q, logins) /\ LateIsStale(q)
      BY <1>0 DEF Good, AllBegun
    <2>2. CASE q = NoCall
      BY <2>1, <2>2 DEF CallGoesOn
    <2>3. CASE q # NoCall
      <3>1. q \in CallRow
        BY <2>1, <2>3, CallShape
      <3>2. PICK s \in BOOLEAN : s <=> Compares(q)
        OBVIOUS
      <3>3. Compares(q) = s
        BY <3>2 DEF Compares
      <3>4. calls[d] = [q EXCEPT !.stale = s]
        BY <2>3, <3>3
      <3> HIDE DEF q, calls
      <3>5. /\ calls[d] \in CallRow /\ calls[d].for = q.for /\ calls[d].stale = s /\ calls[d].token = q.token
            /\ calls[d].answer = q.answer /\ calls[d].got = q.got /\ calls[d].login = q.login
            /\ calls[d].request = q.request
        BY <3>1, <3>4 DEF CallRow
      <3>6. LateIsStale(calls[d])
        BY <3>2, <3>5 DEF LateIsStale, Compares
      <3> QED BY <2>1, <2>3, <3>5, <3>6 DEF CallGoesOn, AnyCall, CallBegun, Answered, q
    <2> QED BY <2>2, <2>3
  <1>2. calls \in [Call -> AnyCall]
    <2>1. calls = [d \in Call |-> calls[d]]
      OBVIOUS
    <2>2. \A d \in Call : calls[d] \in AnyCall
      BY <1>1
    <2> HIDE DEF calls
    <2> QED BY <2>1, <2>2
  <1>9. v = [b EXCEPT !.attempt = TRUE]
    OBVIOUS
  <1> HIDE DEF calls
  <1>3. /\ w \in WebRow /\ w.token = web.token /\ w.cookie = web.cookie /\ w.brought = web.brought
        /\ w.cache = web.cache /\ w.half = web.half /\ w.calls = calls /\ w.status = web.status
    BY <1>0, <1>2 DEF WebRow, AnyCall
  <1> HIDE DEF w
  <1>4. Good(w, logins)
    <2>1. Good(web, logins) /\ w.brought = web.brought
      BY <1>0, <1>3
    <2>2. \A d \in Call : CallGoesOn(w.calls[d], web.calls[d], web, logins)
      BY <1>1, <1>3
    <2> QED BY <1>3, <2>1, <2>2, CallsFit
  <1>5. Good(b, logins) /\ SameButCalls(b, w)
    BY <1>4, BeginsStatus DEF Purpose
  <1> HIDE DEF b
  <1>6. /\ v \in WebRow /\ v.token = b.token /\ v.cookie = b.cookie /\ v.brought = b.brought
        /\ v.cache = b.cache /\ v.half = b.half /\ v.calls = b.calls /\ v.status = b.status
    BY <1>5, <1>9 DEF Good, WebRow
  <1> QED BY <1>3, <1>5, <1>6, AsGood DEF SameButCalls

LEMMA StepBegin ==
    ASSUME WebInv, NEW c \in Call, NEW purpose \in Purpose, NEW want \in Seat, Begin(c, purpose, want)
    PROVE  WebInv' /\ StaysEnded
  <1>0. UNCHANGED <<logins, troubles>> /\ Good(web, logins) /\ web \in WebRow
    BY DEF Begin, WebInv, Good
  <1>1. Good(web', logins) /\ web'.status \in {web.status, "loading"}
    <2>1. CASE purpose = "INITIALIZE"
      <3>1. PICK refresh \in {"NONE", "SENT", "BACK"} : refresh = IF web.refresh = "NONE" THEN "SENT" ELSE web.refresh
        BY <1>0 DEF WebRow
      <3>2. SameButCalls(Begins(web, c, "INITIALIZE", "COMMAND", want), web)
        BY <1>0, BeginsStatus DEF Purpose
      <3>3. web' = [Begins(web, c, "INITIALIZE", "COMMAND", want) EXCEPT
                       !.calls[c].at = "WAITING", !.refresh = refresh, !.status = "loading"]
        <4>1. web' = [Begins(web, c, "INITIALIZE", "COMMAND", want) EXCEPT
                        !.calls[c].at = "WAITING", !.refresh = IF @ = "NONE" THEN "SENT" ELSE @,
                        !.status = "loading"]
          BY <2>1 DEF Begin
        <4>2. Begins(web, c, "INITIALIZE", "COMMAND", want).refresh = web.refresh
          BY <3>2 DEF SameButCalls
        <4> QED BY <3>1, <4>1, <4>2
      <3> QED BY <3>3, BeginInitialize
    <2>2. CASE purpose = "LOGIN"
      <3>1. web' = [Begins([web EXCEPT !.calls = [d \in Call |-> IF web.calls[d] = NoCall THEN NoCall
                                        ELSE [web.calls[d] EXCEPT !.stale = Compares(web.calls[d])]]],
                       c, "LOGIN", "COMMAND", want) EXCEPT !.attempt = TRUE]
        BY <2>2 DEF Begin
      <3> QED BY <3>1, BeginLogin
    <2>3. CASE purpose \notin {"INITIALIZE", "LOGIN"}
      <3>1. PICK request \in {"COMMAND", "ME"} : web' = Begins(web, c, purpose, request, want)
        BY <2>3 DEF Begin
      <3> QED BY <1>0, <3>1, BeginsStatus DEF SameButCalls
    <2> QED BY <2>1, <2>2, <2>3
  <1>2. WebInv'
    BY <1>0, <1>1 DEF WebInv
  <1> QED BY <1>1, <1>2, SameStatus

-----------------------------------------------------------------------------
(* Answers that refuse.                                                     *)
LEMMA StatusGood ==
    ASSUME NEW w, NEW lg, Good(w, lg), NEW status \in {"loading", "anonymous", "authenticated", "expired", "error"}
    PROVE  /\ Good([w EXCEPT !.status = status], lg)
           /\ [w EXCEPT !.status = status].status = status
           /\ Good([w EXCEPT !.attempt = FALSE], lg)
           /\ [w EXCEPT !.attempt = FALSE].status = w.status
  <1>1. w \in WebRow
    BY DEF Good
  <1> DEFINE u == [w EXCEPT !.status = status]
             v == [w EXCEPT !.attempt = FALSE]
  <1>2. /\ u \in WebRow /\ u.token = w.token /\ u.cookie = w.cookie /\ u.brought = w.brought
        /\ u.cache = w.cache /\ u.half = w.half /\ u.calls = w.calls /\ u.status = status
    BY <1>1 DEF WebRow
  <1>3. /\ v \in WebRow /\ v.token = w.token /\ v.cookie = w.cookie /\ v.brought = w.brought
        /\ v.cache = w.cache /\ v.half = w.half /\ v.calls = w.calls /\ v.status = w.status
    BY <1>1 DEF WebRow
  <1> HIDE DEF u, v
  <1>4. Good(u, lg) /\ Good(v, lg)
    BY <1>2, <1>3, AsGood
  <1> QED BY <1>2, <1>3, <1>4 DEF u, v

LEMMA DroppedCall ==
    ASSUME NEW w \in WebRow, NEW c \in Call
    PROVE  /\ SameButCalls(Drop(w, c), w)
           /\ \A d \in Call : Drop(w, c).calls[d] = IF d = c THEN NoCall ELSE w.calls[d]
  BY OneCall, CallShape DEF Drop, WithCall, AnyCall

EmptyStatus(w, status) == Empty(w, status).status = status

LEMMA ShownStatus ==
    ASSUME NEW w \in WebRow, NEW s \in AnyContext
    PROVE  /\ Shows(w, s).status = "authenticated"
           /\ transitionSession(w, s, FALSE).status = w.status
           /\ EmptyStatus(w, "anonymous") /\ EmptyStatus(w, "error")
  <1>1. IsTransition(transitionSession(w, s, FALSE), w, s, Keeps(w, s, FALSE))
    BY Transition
  <1>2. IsTransition(transitionSession(w, NoContext, TRUE), w, NoContext, Keeps(w, NoContext, TRUE))
    BY Transition DEF AnyContext
  <1>3. transitionSession(w, s, FALSE) \in WebRow /\ transitionSession(w, s, FALSE).status = w.status
    BY <1>1 DEF IsTransition
  <1>4. transitionSession(w, NoContext, TRUE) \in WebRow
    BY <1>2 DEF IsTransition
  <1>5. \A v \in WebRow : [v EXCEPT !.status = "authenticated"].status = "authenticated"
    BY DEF WebRow
  <1>6. \A v \in WebRow : /\ [v EXCEPT !.status = "anonymous"].status = "anonymous"
                          /\ [v EXCEPT !.status = "error"].status = "error"
    BY DEF WebRow
  <1> QED BY <1>3, <1>4, <1>5, <1>6 DEF Shows, Empty, EmptyStatus

LEMMA ExpiredStatus ==
    ASSUME NEW w, NEW lg, Good(w, lg)
    PROVE  expireSession(w).status \in {w.status, "expired"}
  BY SignedOutGood DEF expireSession, Good

(* Only a restoration that is refused shows a session again, and it was not *)
(* begun before a sign-out: its version has not moved.                      *)
LEMMA StepFail ==
    ASSUME WebInv, NEW c \in Call, Fail(c), UNCHANGED troubles
    PROVE  WebInv' /\ StaysEnded
  <1> DEFINE v == IF Tells(web.calls[c]) THEN notifySessionExpired(web) ELSE web
             k == v.calls[c]
             w == Drop(v, c)
  <1>0. Good(web, logins) /\ web.calls[c] # NoCall /\ UNCHANGED logins
    BY DEF WebInv, Fail, Back
  <1>1. /\ Good(v, logins) /\ v.status \in {web.status, "expired"} /\ v.calls[c] # NoCall
        /\ \A d \in Call : v.calls[d] = NoCall <=> web.calls[d] = NoCall
        /\ k.answer = web.calls[c].answer
        /\ ~Tells(web.calls[c]) => v = web
    <2>1. CASE Tells(web.calls[c])
      <3>1. v = notifySessionExpired(web)
        BY <2>1
      <3>2. /\ Good(notifySessionExpired(web), logins)
            /\ notifySessionExpired(web).status \in {web.status, "expired"}
            /\ \A d \in Call : (notifySessionExpired(web).calls[d] = NoCall <=> web.calls[d] = NoCall) /\ notifySessionExpired(web).calls[d].answer = web.calls[d].answer
        BY <1>0, NotifyGood
      <3> HIDE DEF v
      <3>3. Good(v, logins) /\ v.status \in {web.status, "expired"}
        BY <3>1, <3>2
      <3>4. \A d \in Call : (v.calls[d] = NoCall <=> web.calls[d] = NoCall) /\ v.calls[d].answer = web.calls[d].answer
        BY <3>1, <3>2
      <3> QED BY <1>0, <2>1, <3>3, <3>4
    <2>2. CASE ~Tells(web.calls[c])
      BY <1>0, <2>2
    <2> QED BY <2>1, <2>2
  <1>2. web' = CASE k.for = "INITIALIZE" ->
                         IF ~NotSuperseded(k) THEN w ELSE Empty(w, IF Unauthorized(k) THEN "anonymous" ELSE "error")
                    [] k.for = "RESTORE" ->
                         IF ~NotSuperseded(k) THEN w
                         ELSE IF Unauthorized(k) THEN expireSession(w)
                         ELSE IF k.answer = "REFUSED" THEN [w EXCEPT !.status = "authenticated"]
                         ELSE Empty(w, "error")
                    [] k.for \in {"END", "QUERY", "ORPHAN"} /\ k.answer = "REFUSED" -> restoreAgencyContext(w, c)
                    [] k.for \in {"LOGOUT", "LOGOUT_ALL"} -> SignedOut(w, "anonymous")
                    [] k.for = "LOGIN" -> [w EXCEPT !.attempt = FALSE]
                    [] OTHER -> w
    BY DEF Fail
  <1> HIDE DEF v
  <1>3. /\ Good(w, logins) /\ v \in WebRow /\ w \in WebRow /\ w.status = v.status
        /\ \A d \in Call : w.calls[d] = IF d = c THEN NoCall ELSE v.calls[d]
    <2>1. Good(w, logins) /\ v \in WebRow
      BY <1>1, DropGood DEF Good
    <2> QED BY <2>1, DroppedCall DEF Good, SameButCalls
  <1> HIDE DEF k, w
  <1> DEFINE Fine == /\ Good(web', logins)
                     /\ web'.status \in {web.status, "loading", "anonymous", "expired", "error"}
  <1>a. Fine => WebInv' /\ StaysEnded
    BY <1>0, SameStatus DEF WebInv
  <1>4. CASE k.for = "INITIALIZE"
    <2>1. web' \in {w, Empty(w, "anonymous"), Empty(w, "error")}
      BY <1>2, <1>4
    <2>2. Good(Empty(w, "anonymous"), logins) /\ Good(Empty(w, "error"), logins)
      BY <1>3, ShowsGood DEF AnyContext
    <2>3. EmptyStatus(w, "anonymous") /\ EmptyStatus(w, "error")
      BY <1>3, ShownStatus DEF AnyContext
    <2> QED BY <1>1, <1>3, <1>a, <2>1, <2>2, <2>3 DEF EmptyStatus
  <1>5. CASE k.for = "RESTORE" /\ ~(NotSuperseded(k) /\ ~Unauthorized(k) /\ k.answer = "REFUSED")
    <2>1. web' \in {w, expireSession(w), Empty(w, "error")}
      BY <1>2, <1>5
    <2>2. Good(Empty(w, "error"), logins) /\ Good(expireSession(w), logins)
      BY <1>3, ShowsGood, ExpireGood DEF AnyContext
    <2>3. EmptyStatus(w, "error") /\ expireSession(w).status \in {w.status, "expired"}
      BY <1>3, ShownStatus, ExpiredStatus DEF AnyContext
    <2> QED BY <1>1, <1>3, <1>a, <2>1, <2>2, <2>3 DEF EmptyStatus
  <1>6. CASE k.for = "RESTORE" /\ NotSuperseded(k) /\ ~Unauthorized(k) /\ k.answer = "REFUSED"
    <2>1. web' = [w EXCEPT !.status = "authenticated"]
      BY <1>2, <1>6
    <2>2. Good(web', logins)
      BY <1>3, <2>1, StatusGood
    <2>3. v = web
      BY <1>1, <1>6 DEF Tells, Unauthorized
    <2>4. k = web.calls[c]
      BY <2>3 DEF k
    <2>5. Compares(web.calls[c]) /\ ~web.calls[c].late
      BY <1>0, <1>6, <2>4 DEF Compares, NotSuperseded, Good, LateIsStale
    <2>6. [w EXCEPT !.status = "authenticated"].calls = w.calls
      BY <1>3 DEF WebRow
    <2>7. \A d \in Call : web.calls[d] # NoCall /\ web'.calls[d] = NoCall => d = c
      BY <1>3, <2>1, <2>3, <2>6
    <2>8. StaysEnded
      BY <2>5, <2>7 DEF StaysEnded
    <2> QED BY <1>0, <2>2, <2>8 DEF WebInv
  <1>7. CASE k.for \in {"END", "QUERY", "ORPHAN"} /\ k.answer = "REFUSED"
    <2>1. web' = restoreAgencyContext(w, c)
      BY <1>2, <1>7
    <2>2. Good(restoreAgencyContext(w, c), logins) /\ restoreAgencyContext(w, c).status \in {w.status, "loading"}
      BY <1>3, RestoringGood
    <2> QED BY <1>1, <1>3, <1>a, <2>1, <2>2
  <1>8. CASE k.for \in {"LOGOUT", "LOGOUT_ALL"}
    <2>1. web' = SignedOut(w, "anonymous")
      BY <1>2, <1>8
    <2>2. Good(SignedOut(w, "anonymous"), logins) /\ SignedOut(w, "anonymous").status = "anonymous"
      BY <1>3, SignedOutGood DEF Good
    <2> QED BY <1>a, <2>1, <2>2
  <1>9. CASE k.for = "LOGIN"
    <2>1. web' = [w EXCEPT !.attempt = FALSE]
      BY <1>2, <1>9
    <2> QED BY <1>1, <1>3, <1>a, <2>1, StatusGood
  <1>10. CASE k.for \notin {"INITIALIZE", "RESTORE", "LOGOUT", "LOGOUT_ALL", "LOGIN"}
              /\ ~(k.for \in {"END", "QUERY", "ORPHAN"} /\ k.answer = "REFUSED")
    <2>1. web' = w
      BY <1>2, <1>10
    <2> QED BY <1>1, <1>3, <1>a, <2>1
  <1> QED BY <1>4, <1>5, <1>6, <1>7, <1>8, <1>9, <1>10

-----------------------------------------------------------------------------
(* Answers that grant.                                                      *)
LEMMA AsksStatus ==
    ASSUME NEW w \in WebRow, NEW c \in Call, NEW request
    PROVE  Asks(w, c, request).status = w.status
  BY DEF Asks, WebRow

LEMMA ShowsCalls ==
    ASSUME NEW w \in WebRow, NEW s \in AnyContext
    PROVE  \A d \in Call : Shows(w, s).calls[d] = NoCall <=> w.calls[d] = NoCall
  <1> DEFINE v == transitionSession(w, s, FALSE)
             keeps == Keeps(w, s, FALSE)
  <1>1. keeps \in BOOLEAN /\ w.calls \in [Call -> AnyCall]
    BY TabFields DEF Keeps
  <1>2. IsTransition(v, w, s, keeps)
    BY Transition
  <1> HIDE DEF v, keeps
  <1>3. v \in WebRow /\ \A c \in Call : v.calls[c] = IF w.calls[c] = NoCall THEN NoCall ELSE MovedOn(w.calls[c], keeps)
    BY <1>2 DEF IsTransition
  <1>4. ASSUME NEW d \in Call PROVE v.calls[d] = NoCall <=> w.calls[d] = NoCall
    <2>1. CASE w.calls[d] = NoCall
      BY <1>3, <2>1
    <2>2. CASE w.calls[d] # NoCall
      <3>1. w.calls[d] \in CallRow
        BY <1>1, <2>2, CallShape
      <3>2. MovedOn(w.calls[d], keeps) \in CallRow
        BY <1>1, <3>1, MovedOnTyped
      <3> QED BY <1>3, <2>2, <3>2, CallShape
    <2> QED BY <2>1, <2>2
  <1>5. [v EXCEPT !.status = "authenticated"].calls = v.calls
    BY <1>3 DEF WebRow
  <1>6. Shows(w, s) = [v EXCEPT !.status = "authenticated"]
    BY DEF Shows, v
  <1> QED BY <1>4, <1>5, <1>6

(* An answer the tab waited for goes into the cache.                        *)
LEMMA CachedGood ==
    ASSUME WebInv, NEW c \in Call, web.calls[c] \in CallRow, web.calls[c].for = "QUERY",
           web.calls[c].answer = "OK", web.calls[c].got \in Context,
           NEW v, v = [Drop(web, c) EXCEPT !.cache = @ \cup {web.calls[c].got}]
    PROVE  Good(v, logins) /\ v.status = web.status
  <1> DEFINE w == Drop(web, c)
  <1>0. Good(web, logins) /\ web \in WebRow
    BY DEF WebInv, Good
  <1>1. /\ Good(w, logins) /\ SameButCalls(w, web)
        /\ \A d \in Call : w.calls[d] = IF d = c THEN NoCall ELSE web.calls[d]
    BY <1>0, DropGood, DroppedCall
  <1>a. v = [w EXCEPT !.cache = @ \cup {web.calls[c].got}]
    OBVIOUS
  <1> HIDE DEF w
  <1>2. w \in WebRow /\ w.cache \subseteq Context
    BY <1>1, TabFields DEF Good
  <1> DEFINE cache == w.cache \cup {web.calls[c].got}
  <1>b. v = [w EXCEPT !.cache = cache] /\ cache \in SUBSET Context
    BY <1>2, <1>a
  <1> HIDE DEF cache
  <1>c. /\ v \in WebRow /\ v.token = w.token /\ v.cookie = w.cookie /\ v.brought = w.brought
        /\ v.cache = cache /\ v.half = w.half /\ v.calls = w.calls
        /\ v.status = w.status
    BY <1>2, <1>b DEF WebRow
  <1>3. /\ v \in WebRow /\ v.token = w.token /\ v.cookie = w.cookie /\ v.brought = w.brought
        /\ v.cache = w.cache \cup {web.calls[c].got} /\ v.half = w.half /\ v.calls = w.calls
        /\ v.status = w.status
    BY <1>c DEF cache
  <1>4. v.token = web.token /\ v.half = web.half /\ v.status = web.status /\ w.cache = web.cache
    BY <1>1, <1>3 DEF SameButCalls
  <1>5. \A d \in Call : v.calls[d].for = "QUERY" => v.calls[d] = web.calls[d]
    BY <1>1, <1>3, CallShape
  <1>6. \A x : Sees(v, x) => Sees(web, x)
    BY <1>3, <1>4, <1>5 DEF Sees
  <1>7. SeesOne(v, logins)
    BY <1>0, <1>4, <1>5, <1>6 DEF Good, SeesOne
  <1>8. AllBegun(v, logins) /\ \A d \in Call : LateIsStale(v.calls[d])
    BY <1>1, <1>3 DEF Good, AllBegun
  <1> QED BY <1>3, <1>4, <1>7, <1>8 DEF Good

LEMMA StepConclude ==
    ASSUME WebInv, NEW c \in Call, Conclude(c), UNCHANGED troubles
    PROVE  WebInv' /\ StaysEnded
  <1> DEFINE k == web.calls[c]
             w == Drop(web, c)
  <1>0. /\ Good(web, logins) /\ web \in WebRow /\ UNCHANGED logins /\ web.calls \in [Call -> AnyCall]
        /\ k \in CallRow /\ k # NoCall /\ k.got \in AnyContext /\ k.login \in 0..MaxLogins
        /\ CallBegun(k, logins) /\ LateIsStale(k)
    <2>1. Good(web, logins) /\ web \in WebRow /\ UNCHANGED logins /\ k # NoCall
      BY DEF WebInv, Good, Conclude, Back
    <2>2. web.calls \in [Call -> AnyCall]
      BY <2>1, TabFields
    <2>3. k \in CallRow
      BY <2>1, <2>2, CallShape
    <2> QED BY <2>1, <2>2, <2>3, CallFields DEF Good, AllBegun
  <1>1. /\ Good(w, logins) /\ w \in WebRow /\ w.status = web.status
        /\ \A d \in Call : w.calls[d] = IF d = c THEN NoCall ELSE web.calls[d]
    BY <1>0, DropGood, DroppedCall DEF Good, SameButCalls
  <1>2. \/ k.answer = "CHALLENGE" /\ web' = [w EXCEPT !.challenge = TRUE, !.attempt = FALSE]
        \/ /\ Grants(k, SigningIn, "COMMAND")
           /\ web' = Asks([Holds(web, k.login, k.got.seat) EXCEPT !.cookie = k.login], c, "ME")
        \/ Grants(k, {"SWITCH"}, "COMMAND") /\ web' = Asks(Holds(web, k.login, k.got.seat), c, "ME")
        \/ Grants(k, {"ELEVATE", "END"}, "COMMAND") /\ web' = Asks(web, c, "ME")
        \/ /\ Grants(k, {"LOGOUT", "LOGOUT_ALL"}, "COMMAND")
           /\ web' = [SignedOut(w, "anonymous") EXCEPT !.cookie = 0]
        \/ Grants(k, {"UNLINK"}, "COMMAND") /\ web' = [SignedOut(w, "expired") EXCEPT !.cookie = 0]
        \/ /\ Grants(k, {"INITIALIZE", "PROFILE", "RESTORE"}, "ME")
           /\ web' = IF NotSuperseded(k) THEN Shows(w, k.got) ELSE w
        \/ /\ Grants(k, SigningIn, "ME")
           /\ web' = [Shows(w, k.got) EXCEPT !.attempt = FALSE, !.challenge = FALSE]
        \/ Grants(k, {"QUERY"}, "ME") /\ web' = [w EXCEPT !.cache = @ \cup {k.got}]
        \/ Grants(k, {"ORPHAN"}, "ME") /\ web' = w
        \/ Grants(k, {"SWITCH", "ELEVATE", "END"}, "ME") /\ web' = transitionSession(w, k.got, FALSE)
    BY DEF Conclude
  <1> HIDE DEF k, w
  <1> DEFINE Fine == /\ Good(web', logins)
                     /\ web'.status \in {web.status, "loading", "anonymous", "expired", "error"}
  <1>a. Fine => WebInv' /\ StaysEnded
    BY <1>0, SameStatus DEF WebInv
  <1>3. CASE k.answer = "CHALLENGE" /\ web' = [w EXCEPT !.challenge = TRUE, !.attempt = FALSE]
    <2>1. /\ web' \in WebRow /\ web'.token = w.token /\ web'.cookie = w.cookie /\ web'.brought = w.brought
          /\ web'.cache = w.cache /\ web'.half = w.half /\ web'.calls = w.calls /\ web'.status = w.status
      BY <1>1, <1>3 DEF WebRow
    <2>2. Good(web', logins)
      BY <1>1, <2>1, AsGood
    <2> QED BY <1>1, <1>a, <2>1, <2>2
  <1>b. Grants(k, SigningIn \cup {"SWITCH"}, "COMMAND") =>
            LET v == Holds(web, k.login, k.got.seat)
            IN  /\ Good(v, logins) /\ v.calls = web.calls /\ v.status = web.status /\ v \in WebRow
                /\ Begun(k.login, logins)
    <2> SUFFICES ASSUME Grants(k, SigningIn \cup {"SWITCH"}, "COMMAND")
                 PROVE  LET v == Holds(web, k.login, k.got.seat)
                        IN  /\ Good(v, logins) /\ v.calls = web.calls /\ v.status = web.status /\ v \in WebRow
                            /\ Begun(k.login, logins)
      OBVIOUS
    <2>1. k.login # 0 /\ Begun(k.login, logins)
      BY <1>0 DEF Grants, CallBegun, Answered
    <2>2. k.login \in Login
      BY <1>0, <2>1, WebAssumption DEF Login
    <2>3. k.got.seat \in Seat \cup {"NONE"}
      BY <1>0 DEF AnyContext, Context, NoContext
    <2> QED BY <1>0, <2>1, <2>2, <2>3, HoldsGood DEF Good
  <1>4. CASE Grants(k, SigningIn, "COMMAND") /\ web' = Asks([Holds(web, k.login, k.got.seat) EXCEPT !.cookie = k.login], c, "ME")
    <2> DEFINE v == Holds(web, k.login, k.got.seat)
               u == [v EXCEPT !.cookie = k.login]
    <2>1. Good(v, logins) /\ v.calls = web.calls /\ v.status = web.status /\ v \in WebRow /\ Begun(k.login, logins)
      BY <1>4, <1>b DEF Grants
    <2> HIDE DEF v
    <2>2. /\ u \in WebRow /\ u.token = v.token /\ u.cookie = k.login /\ u.brought = v.brought
          /\ u.cache = v.cache /\ u.half = v.half /\ u.calls = v.calls /\ u.status = v.status
      BY <1>0, <2>1 DEF WebRow
    <2>3. web' = Asks(u, c, "ME")
      BY <1>4 DEF v
    <2> HIDE DEF u
    <2>4. Good(u, logins)
      BY <2>1, <2>2, AsGood
    <2>5. u.calls[c] # NoCall
      BY <1>0, <2>1, <2>2 DEF k
    <2> QED BY <1>a, <2>1, <2>2, <2>3, <2>4, <2>5, AsksGood, AsksStatus
  <1>5. CASE Grants(k, {"SWITCH"}, "COMMAND") /\ web' = Asks(Holds(web, k.login, k.got.seat), c, "ME")
    <2> DEFINE v == Holds(web, k.login, k.got.seat)
    <2>1. Good(v, logins) /\ v.calls = web.calls /\ v.status = web.status /\ v \in WebRow
      BY <1>5, <1>b DEF Grants
    <2>2. web' = Asks(v, c, "ME")
      BY <1>5
    <2> HIDE DEF v
    <2>3. v.calls[c] # NoCall
      BY <1>0, <2>1 DEF k
    <2> QED BY <1>a, <2>1, <2>2, <2>3, AsksGood, AsksStatus
  <1>6. CASE Grants(k, {"ELEVATE", "END"}, "COMMAND") /\ web' = Asks(web, c, "ME")
    BY <1>0, <1>6, <1>a, AsksGood, AsksStatus DEF k
  <1>7. ASSUME NEW status \in {"anonymous", "expired"}, web' = [SignedOut(w, status) EXCEPT !.cookie = 0]
        PROVE  WebInv' /\ StaysEnded
    <2> DEFINE v == SignedOut(w, status)
    <2>1. Good(v, logins) /\ v.status = status /\ v \in WebRow
      BY <1>1, SignedOutGood DEF Good
    <2> HIDE DEF v
    <2>2. web' = [v EXCEPT !.cookie = 0] /\ 0 \in 0..MaxLogins /\ Begun(0, logins)
      BY <1>7, WebAssumption DEF v, Begun
    <2>3. /\ web' \in WebRow /\ web'.token = v.token /\ web'.cookie = 0 /\ web'.brought = v.brought
          /\ web'.cache = v.cache /\ web'.half = v.half /\ web'.calls = v.calls /\ web'.status = v.status
      BY <2>1, <2>2 DEF WebRow
    <2>4. Good(web', logins)
      BY <2>1, <2>2, <2>3, AsGood
    <2> QED BY <1>a, <2>1, <2>3, <2>4
  <1>c. Good(Shows(w, k.got), logins) /\ \A d \in Call : Shows(w, k.got).calls[d] = NoCall <=> w.calls[d] = NoCall
    BY <1>0, <1>1, ShowsGood, ShowsCalls
  <1>8. CASE Grants(k, {"INITIALIZE", "PROFILE", "RESTORE"}, "ME") /\ web' = IF NotSuperseded(k) THEN Shows(w, k.got) ELSE w
    <2>1. CASE ~NotSuperseded(k)
      BY <1>1, <1>8, <1>a, <2>1
    <2>2. CASE NotSuperseded(k)
      <3>1. web' = Shows(w, k.got)
        BY <1>8, <2>2
      <3>2. Compares(k) /\ ~k.late
        BY <1>0, <1>8, <2>2 DEF Grants, Compares, NotSuperseded, LateIsStale
      <3>3. \A d \in Call : web.calls[d] # NoCall /\ web'.calls[d] = NoCall => d = c
        BY <1>1, <1>c, <3>1
      <3>4. StaysEnded
        BY <3>2, <3>3 DEF StaysEnded, k
      <3> QED BY <1>0, <1>c, <3>1, <3>4 DEF WebInv
    <2> QED BY <2>1, <2>2
  <1>9. CASE Grants(k, SigningIn, "ME") /\ web' = [Shows(w, k.got) EXCEPT !.attempt = FALSE, !.challenge = FALSE]
    <2> DEFINE v == Shows(w, k.got)
    <2>1. Good(v, logins) /\ v \in WebRow /\ \A d \in Call : v.calls[d] = NoCall <=> w.calls[d] = NoCall
      BY <1>c DEF Good
    <2>a. web' = [v EXCEPT !.attempt = FALSE, !.challenge = FALSE]
      BY <1>9
    <2> HIDE DEF v
    <2>2. /\ web' \in WebRow /\ web'.token = v.token /\ web'.cookie = v.cookie /\ web'.brought = v.brought
          /\ web'.cache = v.cache /\ web'.half = v.half /\ web'.calls = v.calls
      BY <2>1, <2>a DEF WebRow
    <2>3. Good(web', logins)
      BY <2>1, <2>2, AsGood
    <2>4. \A d \in Call : web.calls[d] # NoCall /\ web'.calls[d] = NoCall => d = c
      BY <1>1, <2>1, <2>2
    <2>5. k.for \in SigningIn
      BY <1>9 DEF Grants
    <2>6. StaysEnded
      BY <2>4, <2>5 DEF StaysEnded, k
    <2> QED BY <1>0, <2>3, <2>6 DEF WebInv
  <1>10. CASE Grants(k, {"QUERY"}, "ME") /\ web' = [w EXCEPT !.cache = @ \cup {k.got}]
    <2>1. k.for = "QUERY" /\ k.answer = "OK" /\ k.got \in Context
      BY <1>0, <1>10 DEF Grants, CallBegun, Answered
    <2>2. Good(web', logins) /\ web'.status = web.status
      BY <1>0, <1>10, <2>1, CachedGood DEF k, w
    <2> QED BY <1>a, <2>2
  <1>11. CASE Grants(k, {"ORPHAN"}, "ME") /\ web' = w
    BY <1>1, <1>11, <1>a
  <1>12. CASE Grants(k, {"SWITCH", "ELEVATE", "END"}, "ME") /\ web' = transitionSession(w, k.got, FALSE)
    <2>1. Good(transitionSession(w, k.got, FALSE), logins)
      BY <1>0, <1>1, TransitionGood
    <2>2. transitionSession(w, k.got, FALSE).status = w.status
      BY <1>0, <1>1, ShownStatus
    <2> QED BY <1>1, <1>12, <1>a, <2>1, <2>2
  <1> HIDE DEF Fine
  <1> QED BY <1>2, <1>3, <1>4, <1>5, <1>6, <1>7, <1>8, <1>9, <1>10, <1>11, <1>12

-----------------------------------------------------------------------------
LEMMA WebStep ==
    ASSUME WebInv, [WebNext]_webVars
    PROVE  WebInv' /\ (UNCHANGED webVars \/ StaysEnded)
  <1>1. CASE UNCHANGED webVars
    BY <1>1 DEF webVars, WebInv
  <1>2. CASE WebNext
    <2>1. ASSUME NEW c \in Call, Serves(c) \/ Repeat(c) \/ Fail(c) \/ Conclude(c), UNCHANGED troubles
          PROVE  WebInv' /\ StaysEnded
      BY <2>1, StepAdmit, StepAnswers, StepCarryOut, StepServerLogout, StepRepeat, StepFail, StepConclude DEF Serves
    <2>2. AgencySeat \in Seat /\ "SWITCH" \in Purpose
      BY WebAssumption DEF Purpose
    <2> QED BY <1>2, <2>1, <2>2, StepReload, StepTimer, StepBegin, StepServeToken, StepRefresh, StepTrouble DEF WebNext
  <1> QED BY <1>1, <1>2

(* The tab, the server's sessions and the calls under way are of their      *)
(* types in every state (WebTypeOK, from the inductive invariant).          *)
THEOREM WebTyped == WebSpec => []WebTypeOK
  <1>1. WebInv => WebTypeOK
    <2>1. LoginRows \subseteq [Login -> [open: BOOLEAN, context: Context \cup {NoContext}] \cup {Closed}]
      <3>1. Shut \in [open: BOOLEAN, context: Context \cup {NoContext}]
        BY DEF Shut
      <3>2. [open: {TRUE}, context: Context] \subseteq [open: BOOLEAN, context: Context \cup {NoContext}]
        OBVIOUS
      <3> QED BY <3>1, <3>2 DEF LoginRows, LoginRow
    <2> QED BY <2>1 DEF WebInv, Good, WebTypeOK
  <1> QED BY <1>1, WebStart, WebStep, PTL DEF WebSpec

(* What lies in the query cache was answered in one context, unless the     *)
(* server's has moved and the tab has not seen it (CacheOfOneContext):      *)
(* transitionSession empties the cache and disowns the queries under way    *)
(* whenever the context changes, and a token of another session is held     *)
(* only by a tab that counts as behind.                                     *)
THEOREM CacheIsOfOneContext == WebSpec => []CacheOfOneContext
  <1>1. WebInv => CacheOfOneContext
    <2> SUFFICES ASSUME WebInv, NEW x \in web.cache, NEW y \in web.cache, ~web.half PROVE x = y
      BY DEF CacheOfOneContext
    <2>1. web.cache \subseteq AnyContext
      BY TabFields DEF WebInv, Good, AnyContext
    <2>2. Sees(web, x) /\ Sees(web, y)
      BY DEF Sees
    <2> QED BY <2>1, <2>2 DEF WebInv, Good, SeesOne
  <1> QED BY <1>1, WebStart, WebStep, PTL DEF WebSpec

(* After a sign-out or an expiry no answer to something begun before shows  *)
(* a session again (EndedStaysEnded): whoever signed out moved the version  *)
(* of every call that compares versions.                                    *)
THEOREM EndedSessionsStayEnded == WebSpec => EndedStaysEnded
  <1>1. ASSUME WebInv, [WebNext]_webVars PROVE WebInv'
    BY <1>1, WebStep
  <1>2. ASSUME WebInv, [WebNext]_webVars PROVE [StaysEnded]_webVars
    BY <1>2, WebStep
  <1> QED BY <1>1, <1>2, WebStart, PTL DEF WebSpec, EndedStaysEnded, StaysEnded
=============================================================================
