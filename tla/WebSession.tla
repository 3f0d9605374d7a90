----------------------------- MODULE WebSession -----------------------------
(* One tab of the web application: the API client with its access token     *)
(* (auth-api-client.ts) and the provider that decides what is shown         *)
(* (auth-provider.tsx), against the sessions of the server.  Whatever       *)
(* awaits an answer is a call, and several are under way: a call leaves     *)
(* with the token of that moment, is served or lost, and goes on when its   *)
(* answer is back.  A session works in a context (account, membership,      *)
(* support elevation); the query cache holds answers given in one.          *)
(*                                                                          *)
(* With a hosted provider the tokens come from its library, in the same     *)
(* steps.  How tabs share one refresh cookie is shown in RefreshTokens.     *)
EXTENDS Naturals, FiniteSets

CONSTANTS
    User,        \* accounts that sign in here
    Seat,        \* memberships
    AgencySeat,  \* the one that may be elevated
    Call,        \* names of calls under way
    MaxLogins,   \* bound: sessions of the server
    MaxTroubles  \* bound: answers lost, tokens and elevations that lapse

ASSUME WebAssumption == AgencySeat \in Seat /\ MaxLogins \in Nat \ {0} /\ MaxTroubles \in Nat

VARIABLES
    web,       \* the tab: what it shows, its token, its cache, its calls
    logins,    \* sessions of the server
    troubles

webVars == <<web, logins, troubles>>

-----------------------------------------------------------------------------
Login == 1..MaxLogins
Context == [user: User, seat: Seat, support: BOOLEAN]
NoContext == [user |-> "NONE", seat |-> "NONE", support |-> FALSE]
Bearer == [login: 0..MaxLogins, seat: Seat \cup {"NONE"}, fresh: BOOLEAN]
NoBearer == [login |-> 0, seat |-> "NONE", fresh |-> FALSE]
Closed == [open |-> FALSE]
NoCall == [for |-> "NONE"]
Purpose == {"INITIALIZE", "LOGIN", "VERIFY", "PROFILE", "SWITCH", "ELEVATE", "END", "RESTORE",
            "LOGOUT", "LOGOUT_ALL", "UNLINK", "QUERY", "ORPHAN"}

(* `stale`: contextVersionRef has moved since the call began; `late`: the   *)
(* tab has signed out since; both of calls that compare versions.           *)
CallRow == [for: Purpose, request: {"COMMAND", "ME"}, at: {"SENT", "WAITING", "BACK"},
            token: Bearer,
            answer: {"NONE", "OK", "CHALLENGE", "EXPIRED", "REVOKED", "REFUSED", "UNREACHABLE"},
            got: Context \cup {NoContext}, login: 0..MaxLogins, want: Seat,
            retried: BOOLEAN, stale: BOOLEAN, late: BOOLEAN]
WebRow == [status: {"loading", "anonymous", "authenticated", "expired", "error"},
           session: Context \cup {NoContext}, token: Bearer, cookie: 0..MaxLogins,
           refresh: {"NONE", "SENT", "BACK"}, brought: Bearer, told: BOOLEAN, attempt: BOOLEAN, challenge: BOOLEAN,
           cache: SUBSET Context, half: BOOLEAN, calls: [Call -> CallRow \cup {NoCall}]]

WebTypeOK ==
    /\ web \in WebRow
    /\ logins \in [Login -> [open: BOOLEAN, context: Context \cup {NoContext}] \cup {Closed}]
    /\ troubles \in 0..MaxTroubles

-----------------------------------------------------------------------------
(* The steps of the tab, as what they make of it.                           *)
Started(purpose, request, want, w) ==
    [for |-> purpose, request |-> request, at |-> "SENT", token |-> w.token, answer |-> "NONE",
     got |-> NoContext, login |-> 0, want |-> want, retried |-> FALSE, stale |-> FALSE, late |-> FALSE]
Begins(w, c, purpose, request, want) ==
    [w EXCEPT !.calls[c] = Started(purpose, request, want, w)]
Asks(w, c, request) ==
    [w EXCEPT !.calls[c] = [@ EXCEPT !.request = request, !.at = "SENT", !.token = w.token,
                                     !.answer = "NONE", !.got = NoContext, !.login = 0, !.retried = FALSE]]
Drop(w, c) == [w EXCEPT !.calls[c] = NoCall]

Compares(k) == k.for \in {"INITIALIZE", "PROFILE", "RESTORE"}

(* setAccessToken, after a sign-in or a switch.                             *)
Holds(w, login, seat) ==
    [w EXCEPT !.token = [login |-> login, seat |-> seat, fresh |-> TRUE], !.told = FALSE,
              !.half = @ \/ w.token.login \notin {0, login}]

(* transitionSession: a changed context or a forced reset empties the       *)
(* cache, and queries under way bring their answers to no one; the version  *)
(* moves.                                                                   *)
FaultyKeeps(w, s, force) == ~force
Keeps(w, s, force) == ~force /\ s = w.session
MovedOn(k, keeps) ==
    [k EXCEPT !.stale = @ \/ Compares(k), !.for = IF @ = "QUERY" /\ ~keeps THEN "ORPHAN" ELSE @]
transitionSession(w, s, force) ==
    [w EXCEPT !.session = s,
              !.cache = IF Keeps(w, s, force) THEN @ ELSE {},
              !.half = @ /\ ~force /\ s = w.session,
              !.calls = [c \in Call |-> IF w.calls[c] = NoCall THEN NoCall
                                        ELSE MovedOn(w.calls[c], Keeps(w, s, force))]]

SignedOut(w, status) ==
    LET v == transitionSession([w EXCEPT !.status = status, !.token = NoBearer], NoContext, TRUE)
    IN  [v EXCEPT !.calls = [c \in Call |-> IF v.calls[c] = NoCall THEN NoCall
                                            ELSE [v.calls[c] EXCEPT !.late = Compares(v.calls[c])]]]

(* An active sign-in is not disturbed by what older requests report: a      *)
(* session that INITIALIZE brought back beside it stays on the screen when  *)
(* it is over, and what the server knows the tab does not.                  *)
expireSession(w) == IF w.attempt THEN w ELSE SignedOut(w, "expired")
notifySessionExpired(w) ==
    IF w.told THEN w ELSE expireSession([w EXCEPT !.told = TRUE, !.token = NoBearer, !.half = @ \/ w.attempt])

Shows(w, s) == [transitionSession(w, s, FALSE) EXCEPT !.status = "authenticated"]
Empty(w, status) == [transitionSession(w, NoContext, TRUE) EXCEPT !.status = status]

(* restoreAgencyContext: what is shown loses its elevation at once, and the *)
(* profile is asked for.  There is one restoration at a time.               *)
Restoring(w) == \E c \in Call : w.calls[c].for = "RESTORE"
restoreAgencyContext(w, c) ==
    IF Restoring(w) \/ ~w.session.support THEN w
    ELSE Begins([transitionSession(w, [w.session EXCEPT !.support = FALSE], TRUE)
                    EXCEPT !.status = "loading"], c, "RESTORE", "ME", AgencySeat)

-----------------------------------------------------------------------------
(* A page that is opened or loaded again keeps the cookie; it asks for a    *)
(* token first.                                                             *)
Opened(cookie, c) ==
    LET w == [status |-> "loading", session |-> NoContext, token |-> NoBearer, cookie |-> cookie,
              refresh |-> "SENT", brought |-> NoBearer, told |-> FALSE, attempt |-> FALSE,
              challenge |-> FALSE, cache |-> {}, half |-> FALSE, calls |-> [d \in Call |-> NoCall]]
    IN  [w EXCEPT !.calls[c] = [Started("INITIALIZE", "COMMAND", AgencySeat, w) EXCEPT !.at = "WAITING"]]

(* The browser may have the cookie of a session from before.                *)
WebInit ==
    \E l \in 0..1, x \in Context, c \in Call :
        /\ ~x.support /\ web = Opened(l, c)
        /\ logins = [k \in Login |-> IF k = l THEN [open |-> TRUE, context |-> x] ELSE Closed]
        /\ troubles = 0

Reload(c) == web' = Opened(web.cookie, c) /\ UNCHANGED <<logins, troubles>>

(* What a person or the page begins.                                        *)
Open == web.status = "authenticated" /\ web.session # NoContext
Alone(purpose) == \A c \in Call : web.calls[c].for # purpose
MayBegin(purpose, want) ==
    CASE purpose = "INITIALIZE" -> web.status = "error"
      [] purpose = "LOGIN"      -> web.status \in {"anonymous", "expired", "error"} /\ ~web.challenge
      [] purpose = "VERIFY"     -> web.challenge
      [] purpose = "SWITCH"     -> Open /\ want # web.session.seat
      [] purpose = "ELEVATE"    -> Open /\ ~web.session.support /\ web.session.seat = AgencySeat
      [] purpose = "END"        -> Open /\ web.session.support
      [] purpose = "RESTORE"    -> FALSE
      [] OTHER                  -> Open

Begin(c, purpose, want) ==
    /\ web.calls[c] = NoCall /\ MayBegin(purpose, want)
    /\ purpose = "QUERY" \/ Alone(purpose)
    /\ web' = CASE purpose = "INITIALIZE" ->
                     [Begins(web, c, purpose, "COMMAND", want) EXCEPT
                         !.calls[c].at = "WAITING", !.refresh = IF @ = "NONE" THEN "SENT" ELSE @,
                         !.status = "loading"]
                [] purpose = "LOGIN" ->
                     \* login() moves the version before anything else
                     [Begins([web EXCEPT !.calls = [d \in Call |-> IF web.calls[d] = NoCall THEN NoCall
                                                      ELSE [web.calls[d] EXCEPT !.stale = Compares(web.calls[d])]]],
                             c, purpose, "COMMAND", want) EXCEPT !.attempt = TRUE]
                [] purpose \in {"PROFILE", "QUERY"} -> Begins(web, c, purpose, "ME", want)
                [] OTHER -> Begins(web, c, purpose, "COMMAND", want)
    /\ UNCHANGED <<logins, troubles>>

-----------------------------------------------------------------------------
(* The server, which sees the token a call was sent with.  What it grants   *)
(* it has done before the tab knows: `half`.                                *)
Of(t) == logins[t.login].context
Accepts(t) == t.fresh /\ logins[t.login].open /\ Of(t).seat = t.seat
Reply(c, answer, got, login) ==
    [web EXCEPT !.calls[c] = [@ EXCEPT !.at = "BACK", !.answer = answer, !.got = got, !.login = login]]
OnItsWay(c, purposes, request) ==
    LET k == web.calls[c] IN k # NoCall /\ k.at = "SENT" /\ k.for \in purposes /\ k.request = request
Authentic(c) == web.calls[c].token.login # 0 /\ Accepts(web.calls[c].token)
SigningIn == {"LOGIN", "VERIFY"}
Commanded == {"SWITCH", "ELEVATE", "END", "LOGOUT_ALL", "UNLINK"}
NextLogin(l) == logins[l] = Closed /\ \A k \in 1..(l - 1) : logins[k] # Closed

Admit(c, user, seat) ==
    LET x == [user |-> user, seat |-> seat, support |-> FALSE] IN
    /\ OnItsWay(c, SigningIn, "COMMAND")
    /\ \E l \in Login : /\ NextLogin(l)
                        /\ logins' = [logins EXCEPT ![l] = [open |-> TRUE, context |-> x]]
                        /\ web' = Reply(c, "OK", x, l)
AskForCode(c) ==
    OnItsWay(c, {"LOGIN"}, "COMMAND") /\ web' = Reply(c, "CHALLENGE", NoContext, 0) /\ UNCHANGED logins

Shut == [open |-> FALSE, context |-> NoContext]
CarryOut(c) ==
    LET k == web.calls[c]
        l == k.token.login
        x == Of(k.token)
        y == CASE k.for = "SWITCH"  -> [x EXCEPT !.seat = k.want, !.support = FALSE]
               [] k.for = "ELEVATE" -> [x EXCEPT !.support = TRUE]
               [] k.for = "END"     -> [x EXCEPT !.support = FALSE]
               [] OTHER             -> x
        closes == {n \in Login : /\ logins[n].open
                                 /\ \/ n = l /\ k.for \in {"LOGOUT_ALL", "UNLINK"}
                                    \/ k.for = "LOGOUT_ALL" /\ logins[n].context.user = x.user}
    IN  /\ OnItsWay(c, Commanded, "COMMAND") /\ Authentic(c)
        /\ k.for = "ELEVATE" => x.seat = AgencySeat /\ ~x.support
        /\ k.for = "END" => x.support
        /\ logins' = [n \in Login |-> IF n \in closes THEN Shut
                                      ELSE IF n = l THEN [logins[n] EXCEPT !.context = y] ELSE logins[n]]
        /\ web' = [Reply(c, "OK", y, l) EXCEPT !.half = @ \/ x # y]

(* Signing out goes by the cookie and asks for no token.                    *)
ServerLogout(c) ==
    /\ OnItsWay(c, {"LOGOUT"}, "COMMAND") /\ web' = Reply(c, "OK", NoContext, 0)
    /\ logins' = [l \in Login |-> IF l = web.cookie /\ logins[l].open THEN Shut ELSE logins[l]]
Answer(c) ==
    OnItsWay(c, Purpose, "ME") /\ Authentic(c) /\ web' = Reply(c, "OK", Of(web.calls[c].token), 0)
    /\ UNCHANGED logins
Refuse(c) ==
    /\ \/ OnItsWay(c, SigningIn \cup {"SWITCH", "ELEVATE", "END", "UNLINK"}, "COMMAND")
       \/ OnItsWay(c, {"QUERY", "ORPHAN", "RESTORE"}, "ME") /\ Authentic(c) /\ ~Of(web.calls[c].token).support
    /\ web' = Reply(c, "REFUSED", NoContext, 0) /\ UNCHANGED logins
Deny(c) ==
    LET t == web.calls[c].token IN
    /\ OnItsWay(c, Purpose, "ME") \/ OnItsWay(c, Commanded, "COMMAND")
    /\ ~Authentic(c)
    /\ web' = Reply(c, IF t.login # 0 /\ ~t.fresh THEN "EXPIRED" ELSE "REVOKED", NoContext, 0)
    /\ UNCHANGED logins

Serves(c) ==
    \/ \E u \in User, s \in Seat : Admit(c, u, s)
    \/ AskForCode(c) \/ CarryOut(c) \/ ServerLogout(c) \/ Answer(c) \/ Refuse(c) \/ Deny(c)

-----------------------------------------------------------------------------
(* One refresh at a time, shared by all that wait for it.                   *)
AccessTokenServed ==
    LET l == web.cookie IN
    /\ web.refresh = "SENT"
    /\ web' = [web EXCEPT !.refresh = "BACK",
                  !.brought = IF l # 0 /\ logins[l].open
                              THEN [login |-> l, seat |-> logins[l].context.seat, fresh |-> TRUE]
                              ELSE NoBearer]
    /\ UNCHANGED logins
refreshAccessToken ==
    LET t == web.brought
        v == IF t = NoBearer THEN web ELSE Holds(web, t.login, t.seat)
        On(k) == IF k = NoCall \/ k.at # "WAITING" THEN k
                 ELSE IF t = NoBearer THEN [k EXCEPT !.at = "BACK", !.answer = "EXPIRED", !.retried = TRUE]
                 ELSE [k EXCEPT !.at = "SENT", !.token = v.token, !.retried = TRUE,
                                !.request = IF k.for = "INITIALIZE" THEN "ME" ELSE @]
    IN  /\ web.refresh = "BACK"
        /\ web' = [v EXCEPT !.refresh = "NONE", !.brought = NoBearer,
                            !.calls = [c \in Call |-> On(v.calls[c])]]
        /\ UNCHANGED logins

Back(c) == web.calls[c] # NoCall /\ web.calls[c].at = "BACK"
(* request: a token that ran out is refreshed once, and the call repeated.  *)
Repeat(c) ==
    LET k == web.calls[c] IN
    /\ Back(c) /\ k.answer = "EXPIRED" /\ ~k.retried
    /\ web' = [web EXCEPT !.calls[c] = [@ EXCEPT !.at = "WAITING", !.answer = "NONE"],
                          !.refresh = IF @ = "NONE" THEN "SENT" ELSE @]
    /\ UNCHANGED logins

(* What a version that moved keeps from being shown.                        *)
FaultyNotSuperseded(k) == TRUE
NotSuperseded(k) == ~k.stale

(* An answer that refuses.                                                  *)
Unauthorized(k) == k.answer \in {"EXPIRED", "REVOKED"}
Tells(k) == Unauthorized(k) /\ k.for \notin SigningIn /\ ~(k.for = "INITIALIZE" /\ k.request = "COMMAND")
Fail(c) ==
    LET v == IF Tells(web.calls[c]) THEN notifySessionExpired(web) ELSE web
        k == v.calls[c]
        w == Drop(v, c)
    IN  /\ Back(c) /\ k.answer \notin {"OK", "CHALLENGE"} /\ (k.answer = "EXPIRED" => k.retried)
        /\ web' = CASE k.for = "INITIALIZE" ->
                         IF ~NotSuperseded(k) THEN w ELSE Empty(w, IF Unauthorized(k) THEN "anonymous" ELSE "error")
                    [] k.for = "RESTORE" ->
                         IF ~NotSuperseded(k) THEN w
                         ELSE IF Unauthorized(k) THEN expireSession(w)
                         ELSE IF k.answer = "REFUSED" THEN [w EXCEPT !.status = "authenticated"]
                         ELSE Empty(w, "error")
                    [] k.for \in {"END", "QUERY", "ORPHAN"} /\ k.answer = "REFUSED" -> restoreAgencyContext(w, c)
                    [] k.for \in {"LOGOUT", "LOGOUT_ALL"} -> SignedOut(w, "anonymous")
                    [] k.for = "LOGIN" -> [w EXCEPT !.attempt = FALSE]
                    [] OTHER -> w
        /\ UNCHANGED logins

(* An answer that grants.                                                   *)
Grants(k, purposes, request) == k.answer = "OK" /\ k.for \in purposes /\ k.request = request
Conclude(c) ==
    LET k == web.calls[c]
        w == Drop(web, c)
    IN  /\ Back(c)
        /\ \/ k.answer = "CHALLENGE" /\ web' = [w EXCEPT !.challenge = TRUE, !.attempt = FALSE]
           \/ /\ Grants(k, SigningIn, "COMMAND")
              /\ web' = Asks([Holds(web, k.login, k.got.seat) EXCEPT !.cookie = k.login], c, "ME")
           \/ Grants(k, {"SWITCH"}, "COMMAND") /\ web' = Asks(Holds(web, k.login, k.got.seat), c, "ME")
           \/ Grants(k, {"ELEVATE", "END"}, "COMMAND") /\ web' = Asks(web, c, "ME")
           \/ /\ Grants(k, {"LOGOUT", "LOGOUT_ALL"}, "COMMAND")
              /\ web' = [SignedOut(w, "anonymous") EXCEPT !.cookie = 0]
           \/ Grants(k, {"UNLINK"}, "COMMAND") /\ web' = [SignedOut(w, "expired") EXCEPT !.cookie = 0]
           \/ /\ Grants(k, {"INITIALIZE", "PROFILE", "RESTORE"}, "ME")
              /\ web' = IF NotSuperseded(k) THEN Shows(w, k.got) ELSE w
           \/ /\ Grants(k, SigningIn, "ME")
              /\ web' = [Shows(w, k.got) EXCEPT !.attempt = FALSE, !.challenge = FALSE]
           \/ Grants(k, {"QUERY"}, "ME") /\ web' = [w EXCEPT !.cache = @ \cup {k.got}]
           \/ Grants(k, {"ORPHAN"}, "ME") /\ web' = w
           \/ Grants(k, {"SWITCH", "ELEVATE", "END"}, "ME") /\ web' = transitionSession(w, k.got, FALSE)
        /\ UNCHANGED logins

-----------------------------------------------------------------------------
(* Answers that do not come, and what ends without the tab.                 *)
Lose(c) ==
    /\ web.calls[c] # NoCall /\ web.calls[c].at \in {"SENT", "BACK"}
    /\ web' = Reply(c, "UNREACHABLE", NoContext, 0) /\ UNCHANGED logins
LoseRefresh ==
    /\ web.refresh = "SENT" /\ web' = [web EXCEPT !.refresh = "BACK"] /\ UNCHANGED logins
TokenExpires ==
    /\ web.token.fresh /\ web' = [web EXCEPT !.token.fresh = FALSE] /\ UNCHANGED logins
ElevationLapses(l) ==
    /\ logins[l].open /\ logins[l].context.support
    /\ logins' = [logins EXCEPT ![l].context.support = FALSE]
    /\ web' = [web EXCEPT !.half = TRUE]
RevokedElsewhere(l) ==
    logins[l].open /\ logins' = [logins EXCEPT ![l] = Shut] /\ UNCHANGED web
Trouble ==
    /\ troubles < MaxTroubles /\ troubles' = troubles + 1
    /\ \/ \E c \in Call : Lose(c)
       \/ LoseRefresh \/ TokenExpires
       \/ \E l \in Login : ElevationLapses(l) \/ RevokedElsewhere(l)

(* The timer of the elevation that is shown.                                *)
TimerFires(c) ==
    /\ web.calls[c] = NoCall /\ web.session.support /\ ~Restoring(web)
    /\ web' = restoreAgencyContext(web, c) /\ UNCHANGED logins

WebNext ==
    \/ \E c \in Call :
         \/ Reload(c)
         \/ TimerFires(c) /\ UNCHANGED troubles
         \/ \E p \in Purpose \ {"SWITCH"} : Begin(c, p, AgencySeat)
         \/ \E s \in Seat : Begin(c, "SWITCH", s)
         \/ (Serves(c) \/ Repeat(c) \/ Fail(c) \/ Conclude(c)) /\ UNCHANGED troubles
    \/ (AccessTokenServed \/ refreshAccessToken) /\ UNCHANGED troubles
    \/ Trouble

WebSpec == WebInit /\ [][WebNext]_webVars

-----------------------------------------------------------------------------
(* What ended stays ended: after the tab has signed out or its session has  *)
(* expired, no answer to something begun before brings a session back to    *)
(* the screen; only signing in does.                                        *)
EndedStaysEnded ==
    [][web'.status = "authenticated" /\ web.status # "authenticated" =>
          \A c \in Call : web.calls[c] # NoCall /\ web'.calls[c] = NoCall =>
              web.calls[c].for \in SigningIn \/ (Compares(web.calls[c]) /\ ~web.calls[c].late)]_webVars

(* What lies in the query cache was answered in one context, unless the     *)
(* server's has moved and the tab has not seen it.                          *)
CacheOfOneContext == \A x, y \in web.cache : x = y \/ web.half
=============================================================================
