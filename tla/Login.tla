-------------------------------- MODULE Login --------------------------------
(***************************************************************************)
(* Signing in to one account, apps/api/src/auth: the password or Google    *)
(* identity, and the second factor every login has to show                 *)
(* (mfa.service.ts, drizzle-auth.store.ts).                                *)
(*                                                                         *)
(* A handler reads what it needs, checks the code it was given, and then   *)
(* writes in a transaction whose updates are conditional; between the two  *)
(* other handlers write.  A recovery code takes two statements, between    *)
(* which the row of the challenge is locked.  Whether a challenge has      *)
(* expired or a code is right is a choice.                                 *)
(***************************************************************************)
EXTENDS Naturals, FiniteSets

CONSTANTS
    Handler,        \* request handlers
    Challenge,      \* MFA login challenges
    Authenticator,  \* TOTP authenticators of the account
    RecoveryCode,   \* recovery codes, the replacements included
    TimeStep,       \* TOTP time steps
    CodesIssued,    \* how many recovery codes an enrollment gives
    Attempts,       \* mfaMaxAttempts
    GoogleChallenge,\* challenges of a Google sign-in or link
    Nobody          \* no authenticator, no challenge

ASSUME LoginAssumption ==
    /\ TimeStep \subseteq Nat \ {0} /\ CodesIssued \in Nat /\ Attempts \in Nat \ {0}
    /\ IsFiniteSet(RecoveryCode)
    /\ Challenge \cap RecoveryCode = {} /\ TimeStep \cap (Challenge \cup RecoveryCode) = {}
    /\ Nobody \notin Challenge \cup Authenticator \cup RecoveryCode

VARIABLES
    account,       \* the status of the user
    methods,       \* the user's active identities
    google,        \* external_auth_challenges
    challenges,    \* mfa_login_challenges
    authenticators,\* mfa_authenticators
    recovery,      \* mfa_recovery_codes
    handler,       \* what each handler is doing
    granted        \* sessions granted per challenge, time step and recovery code

loginVars == <<account, methods, google, challenges, authenticators, recovery, handler, granted>>
identityRows == <<account, methods, google>>
factorRows == <<challenges, authenticators, recovery>>

-----------------------------------------------------------------------------
ChallengeRow == [kind: {"ENROLLMENT", "VERIFICATION"}, consumed: BOOLEAN, failed: 0..Attempts,
                 authenticator: Authenticator \cup {Nobody}]
NoChallenge == [kind |-> "NONE"]
Factor == RecoveryCode \cup TimeStep
HandlerTask == [step: {"IDLE", "SIGNED_IN"}]
               \cup [step: {"GOOGLE"}, purpose: {"LOGIN", "LINK"}]
               \cup [step: {"LOGIN"}, seen: Authenticator \cup {Nobody}]
               \cup [step: {"ENROLLING"}, challenge: Challenge, seen: Authenticator \cup {Nobody}]
               \cup [step: {"CONFIRMING", "VERIFYING", "FAILED", "GRANTING"},
                     challenge: Challenge, authenticator: Authenticator,
                     factor: Factor]
               \cup [step: {"USING"}, challenge: Challenge, authenticator: Authenticator,
                     factor: RecoveryCode]
Idle == [step |-> "IDLE"]

LoginTypeOK ==
    /\ account \in {"INVITED", "ACTIVE", "SUSPENDED"}
    /\ methods \subseteq {"PASSWORD", "GOOGLE"}
    /\ google \in [GoogleChallenge -> {"NONE", "LOGIN", "LINK", "CONSUMED"}]
    /\ challenges \in [Challenge -> ChallengeRow \cup {NoChallenge}]
    /\ authenticators \in [Authenticator -> [status: {"NONE", "PENDING", "ACTIVE", "DISABLED"},
                                             last: TimeStep \cup {0}]]
    /\ recovery \in [RecoveryCode -> {"NONE", "UNUSED", "USED"}]
    /\ handler \in [Handler -> HandlerTask]
    /\ granted \in [Challenge \cup Factor -> Nat]

(* An account that is invited, that has a password only, or that enrolled   *)
(* an authenticator in an earlier login.                                    *)
Enrolled(A, R) ==
    /\ authenticators = [a \in Authenticator |->
           [status |-> IF a \in A THEN "ACTIVE" ELSE "NONE", last |-> 0]]
    /\ recovery = [r \in RecoveryCode |-> IF r \in R THEN "UNUSED" ELSE "NONE"]
LoginInit ==
    /\ \/ account = "INVITED" /\ methods = {} /\ Enrolled({}, {})
       \/ account = "ACTIVE" /\ methods = {"PASSWORD"} /\ Enrolled({}, {})
       \/ /\ account = "ACTIVE" /\ methods = {"PASSWORD"}
          /\ \E a \in Authenticator, R \in SUBSET RecoveryCode :
                 Cardinality(R) = CodesIssued /\ Enrolled({a}, R)
    /\ google = [g \in GoogleChallenge |-> "NONE"]
    /\ challenges = [c \in Challenge |-> NoChallenge]
    /\ handler = [h \in Handler |-> Idle]
    /\ granted = [x \in Challenge \cup Factor |-> 0]

-----------------------------------------------------------------------------
Doing(h, step) == handler[h].step = step
Now(h, task) == handler' = [handler EXCEPT ![h] = task]
With(status) == {a \in Authenticator : authenticators[a].status = status}
Current == With("PENDING") \cup With("ACTIVE")
Unused == {r \in RecoveryCode : recovery[r] = "UNUSED"}
(* The transaction that uses a recovery code holds the challenge's row.     *)
Held(c) == \E h \in Handler : Doing(h, "USING") /\ handler[h].challenge = c
Live(c) == /\ challenges[c] # NoChallenge /\ ~challenges[c].consumed
           /\ challenges[c].failed < Attempts

-----------------------------------------------------------------------------
(* login: the password is right and the account active; or Google answers.  *)
(* createIdentitySession then looks for an active authenticator.            *)
Proceed(h) ==
    \E seen \in IF With("ACTIVE") = {} THEN {Nobody} ELSE With("ACTIVE") :
        Now(h, [step |-> "LOGIN", seen |-> seen])
PasswordLogin(h) ==
    /\ Doing(h, "IDLE") /\ account = "ACTIVE" /\ "PASSWORD" \in methods
    /\ Proceed(h)
    /\ UNCHANGED <<identityRows, factorRows, granted>>

(* createExternalAuthChallenge, for a login or for linking by somebody who  *)
(* is signed in; consumeExternalAuthChallenge lets one caller through.      *)
MayLink == \E h \in Handler : Doing(h, "SIGNED_IN")
IssueGoogleChallenge(g, purpose) ==
    /\ google[g] = "NONE"
    /\ purpose = "LINK" => MayLink
    /\ google' = [google EXCEPT ![g] = purpose]
    /\ UNCHANGED <<account, methods, factorRows, handler, granted>>
ConsumeGoogleChallenge(h, g) ==
    /\ google[g] \in {"LOGIN", "LINK"}
    /\ Doing(h, IF google[g] = "LOGIN" THEN "IDLE" ELSE "SIGNED_IN")
    /\ google' = [google EXCEPT ![g] = "CONSUMED"]
    /\ Now(h, [step |-> "GOOGLE", purpose |-> google[g]])
    /\ UNCHANGED <<account, methods, factorRows, granted>>

(* Google does not vouch for the token: the challenge is spent all the same. *)
GoogleRefuses(h) ==
    /\ Doing(h, "GOOGLE")
    /\ Now(h, IF handler[h].purpose = "LOGIN" THEN Idle ELSE [step |-> "SIGNED_IN"])
    /\ UNCHANGED <<identityRows, factorRows, granted>>

(* resolveGoogleLoginIdentity: an identity that is linked signs in; for an  *)
(* invited user the invitation is activated under the lock of the user.     *)
Resolved ==
    \/ "GOOGLE" \in methods /\ account = "ACTIVE" /\ UNCHANGED <<account, methods>>
    \/ account = "INVITED" /\ account' = "ACTIVE" /\ methods' = methods \cup {"GOOGLE"}
ResolveGoogleLogin(h) ==
    /\ Doing(h, "GOOGLE") /\ handler[h].purpose = "LOGIN"
    /\ \/ Resolved /\ Proceed(h)
       \/ /\ "GOOGLE" \notin methods \/ account = "SUSPENDED"
          /\ Now(h, Idle) /\ UNCHANGED <<account, methods>>
    /\ UNCHANGED <<google, factorRows, granted>>
Linked == IF account = "ACTIVE" THEN methods \cup {"GOOGLE"} ELSE methods
LinkGoogleIdentity(h) ==
    /\ Doing(h, "GOOGLE") /\ handler[h].purpose = "LINK"
    /\ methods' = Linked
    /\ Now(h, [step |-> "SIGNED_IN"])
    /\ UNCHANGED <<account, google, factorRows, granted>>
(* unlinkGoogleIdentity locks all identities of the user.                   *)
Unlinkable == "GOOGLE" \in methods /\ Cardinality(methods) > 1
UnlinkGoogleIdentity(h) ==
    /\ Doing(h, "SIGNED_IN") /\ Unlinkable
    /\ methods' = methods \ {"GOOGLE"}
    /\ Now(h, Idle)
    /\ UNCHANGED <<account, google, factorRows, granted>>

-----------------------------------------------------------------------------
(* createMfaLoginChallenge: the kind follows from the authenticator seen.   *)
CreateMfaLoginChallenge(h, c) ==
    /\ Doing(h, "LOGIN") /\ challenges[c] = NoChallenge
    /\ challenges' = [challenges EXCEPT ![c] =
           [kind |-> IF handler[h].seen = Nobody THEN "ENROLLMENT" ELSE "VERIFICATION",
            consumed |-> FALSE, failed |-> 0, authenticator |-> handler[h].seen]]
    /\ Now(h, Idle)
    /\ UNCHANGED <<identityRows, authenticators, recovery, granted>>

(* startMfaEnrollment reads the challenge and the current authenticator     *)
(* without locks ...                                                        *)
StartEnrollment(h, c) ==
    /\ Doing(h, "IDLE") /\ Live(c) /\ challenges[c].kind = "ENROLLMENT"
    /\ challenges[c].authenticator = Nobody
    /\ With("ACTIVE") = {}
    /\ \E seen \in IF Current = {} THEN {Nobody} ELSE Current :
          Now(h, [step |-> "ENROLLING", challenge |-> c, seen |-> seen])
    /\ UNCHANGED <<identityRows, factorRows, granted>>
(* ... then a pending one is disabled, the other enrollments are consumed,  *)
(* and the new one is bound to the challenge; every update must still find  *)
(* its row, and the database allows one current authenticator.              *)
FaultyReplaceable(c, seen) == ~challenges[c].consumed
Replaceable(c, seen) ==
    /\ ~challenges[c].consumed /\ challenges[c].authenticator = Nobody
    /\ Current = {seen} \ {Nobody}
    /\ seen # Nobody => authenticators[seen].status = "PENDING"
EnrollPending(h, a) ==
    LET c == handler[h].challenge
        seen == handler[h].seen
    IN
    /\ Doing(h, "ENROLLING") /\ authenticators[a].status = "NONE"
    /\ IF Replaceable(c, seen)
       THEN /\ authenticators' = [b \in Authenticator |->
                   IF b = a THEN [status |-> "PENDING", last |-> 0]
                   ELSE IF b = seen THEN [authenticators[b] EXCEPT !.status = "DISABLED"]
                   ELSE authenticators[b]]
            /\ challenges' = [d \in Challenge |->
                   IF d = c THEN [challenges[d] EXCEPT !.authenticator = a]
                   ELSE IF seen # Nobody /\ challenges[d].kind = "ENROLLMENT"
                   THEN [challenges[d] EXCEPT !.consumed = TRUE] ELSE challenges[d]]
       ELSE UNCHANGED <<authenticators, challenges>>
    /\ Now(h, Idle)
    /\ UNCHANGED <<identityRows, recovery, granted>>

(* confirmEnrollment and verify: the challenge and its authenticator are    *)
(* read and the code is checked against them.                               *)
Check(h, c, f, ok) ==
    LET a == challenges[c].authenticator
        enrolls == challenges[c].kind = "ENROLLMENT"
    IN
    /\ Doing(h, "IDLE") /\ Live(c) /\ a # Nobody
    /\ authenticators[a].status = IF enrolls THEN "PENDING" ELSE "ACTIVE"
    /\ f \in RecoveryCode => ~enrolls
    /\ f \in TimeStep /\ ~enrolls => (ok => f > authenticators[a].last)
    /\ Now(h, [step |-> IF ~ok THEN "FAILED" ELSE IF enrolls THEN "CONFIRMING" ELSE "VERIFYING",
               challenge |-> c, authenticator |-> a, factor |-> f])
    /\ UNCHANGED <<identityRows, factorRows, granted>>

Consume(c) == challenges' = [challenges EXCEPT ![c].consumed = TRUE]
Accept(a, f, status) == authenticators' = [authenticators EXCEPT ![a] =
                            [status |-> status, last |-> f]]
Goes(h, step) == Now(h, [handler[h] EXCEPT !.step = step])
(* MfaMutationConflict rolls everything back.                               *)
Conflict(h) == Goes(h, "FAILED") /\ UNCHANGED factorRows

(* completeMfaEnrollment.                                                   *)
CompleteEnrollment(h) ==
    LET t == handler[h] IN
    /\ Doing(h, "CONFIRMING") /\ ~Held(t.challenge)
    /\ IF Live(t.challenge) /\ authenticators[t.authenticator].status = "PENDING"
       THEN /\ Consume(t.challenge) /\ Accept(t.authenticator, t.factor, "ACTIVE")
            /\ \E R \in SUBSET {r \in RecoveryCode : recovery[r] = "NONE"} :
                  /\ Cardinality(R) = CodesIssued
                  /\ recovery' = [r \in RecoveryCode |-> IF r \in R THEN "UNUSED" ELSE recovery[r]]
            /\ Goes(h, "GRANTING")
       ELSE UNCHANGED factorRows /\ Now(h, Idle)
    /\ UNCHANGED <<identityRows, granted>>

(* completeMfaTotpVerification: the time step must be later than the last   *)
(* one accepted, which may have moved since the code was checked.           *)
FaultyStepAccepted(a, f) == authenticators[a].status = "ACTIVE"
StepAccepted(a, f) == authenticators[a].status = "ACTIVE" /\ authenticators[a].last < f
CompleteTotp(h) ==
    LET t == handler[h] IN
    /\ Doing(h, "VERIFYING") /\ t.factor \in TimeStep /\ ~Held(t.challenge)
    /\ IF Live(t.challenge) /\ StepAccepted(t.authenticator, t.factor)
       THEN /\ Consume(t.challenge) /\ Accept(t.authenticator, t.factor, "ACTIVE")
            /\ Goes(h, "GRANTING") /\ UNCHANGED recovery
       ELSE Conflict(h)
    /\ UNCHANGED <<identityRows, granted>>

(* completeMfaRecoveryVerification: the challenge is consumed and the code  *)
(* found, then it is replaced if nobody used it in between.                 *)
FindRecoveryCode(h) ==
    LET t == handler[h] IN
    /\ Doing(h, "VERIFYING") /\ t.factor \in RecoveryCode /\ ~Held(t.challenge)
    /\ IF Live(t.challenge) /\ t.factor \in Unused THEN Goes(h, "USING") ELSE Goes(h, "FAILED")
    /\ UNCHANGED <<identityRows, factorRows, granted>>
ReplaceCode(r, replacement) ==
    /\ r \in Unused
    /\ recovery' = [recovery EXCEPT ![replacement] = "UNUSED", ![r] = "USED"]
UseRecoveryCode(h, replacement) ==
    LET t == handler[h] IN
    /\ Doing(h, "USING") /\ recovery[replacement] = "NONE"
    /\ \/ /\ ReplaceCode(t.factor, replacement)
          /\ Consume(t.challenge) /\ Goes(h, "GRANTING") /\ UNCHANGED authenticators
       \/ t.factor \notin Unused /\ Conflict(h)
    /\ UNCHANGED <<identityRows, granted>>

(* recordMfaChallengeFailure: the last attempt consumes the challenge.      *)
RecordFailure(h) ==
    LET c == handler[h].challenge IN
    /\ Doing(h, "FAILED") /\ ~Held(c)
    /\ challenges' = IF Live(c)
                     THEN [challenges EXCEPT ![c].failed = @ + 1,
                               ![c].consumed = challenges[c].failed + 1 >= Attempts]
                     ELSE challenges
    /\ Now(h, Idle)
    /\ UNCHANGED <<identityRows, authenticators, recovery, granted>>

(* completeMfaSession: the account is looked at again and a session issued. *)
Grant(h) ==
    LET t == handler[h] IN
    /\ Doing(h, "GRANTING")
    /\ IF account = "ACTIVE"
       THEN /\ granted' = [granted EXCEPT ![t.challenge] = @ + 1, ![t.factor] = @ + 1]
            /\ Now(h, [step |-> "SIGNED_IN"])
       ELSE Now(h, Idle) /\ UNCHANGED granted
    /\ UNCHANGED <<identityRows, factorRows>>

Suspend ==
    /\ account = "ACTIVE" /\ account' = "SUSPENDED"
    /\ UNCHANGED <<methods, google, factorRows, handler, granted>>
Leave(h) ==
    /\ Doing(h, "SIGNED_IN") /\ Now(h, Idle)
    /\ UNCHANGED <<identityRows, factorRows, granted>>

-----------------------------------------------------------------------------
LoginNext ==
    \/ \E h \in Handler :
        \/ PasswordLogin(h) \/ GoogleRefuses(h) \/ ResolveGoogleLogin(h) \/ LinkGoogleIdentity(h)
        \/ UnlinkGoogleIdentity(h) \/ CompleteEnrollment(h) \/ CompleteTotp(h)
        \/ FindRecoveryCode(h) \/ RecordFailure(h) \/ Grant(h) \/ Leave(h)
        \/ \E g \in GoogleChallenge : ConsumeGoogleChallenge(h, g)
        \/ \E c \in Challenge :
            \/ CreateMfaLoginChallenge(h, c) \/ StartEnrollment(h, c)
            \/ \E f \in Factor, ok \in BOOLEAN : Check(h, c, f, ok)
        \/ \E a \in Authenticator : EnrollPending(h, a)
        \/ \E r \in RecoveryCode : UseRecoveryCode(h, r)
    \/ \E g \in GoogleChallenge, purpose \in {"LOGIN", "LINK"} : IssueGoogleChallenge(g, purpose)
    \/ Suspend

LoginSpec == LoginInit /\ [][LoginNext]_loginVars

-----------------------------------------------------------------------------
(* Every session has a second factor of its own: no challenge, no recovery  *)
(* code and no time step of the authenticator lets two logins in, however   *)
(* the handlers that checked them overlap, and using a code leaves as many  *)
(* codes as the enrollment gave.                                            *)
FactorsServeOnce ==
    /\ \A x \in Challenge \cup Factor : granted[x] <= 1
    /\ With("ACTIVE") # {} => Cardinality(Unused) = CodesIssued

(* An enrollment never displaces an authenticator that is in use, and an    *)
(* account keeps a way to sign in: two enrollments, one begun before the    *)
(* other was confirmed, and unlinking Google while it is being linked.      *)
EnrollmentStands ==
    [][/\ \A a \in With("ACTIVE") : a \in With("ACTIVE")'
       /\ Cardinality(Current') <= 1
       /\ methods # {} => methods' # {}]_loginVars
=============================================================================
