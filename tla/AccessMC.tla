----------------------------- MODULE AccessMC ------------------------------
(* Small instances of the parts of account access: sessions, signing in,    *)
(* refresh tokens on the clients, one tab of the web application, the       *)
(* members of a client organisation, and the organisation itself.  Sessions *)
(* abstracts what Login and the tokens detail; the parts share no row, so a *)
(* behaviour is one of a single `part`.                                     *)
EXTENDS Sessions, Login, RefreshTokens, WebSession, Hierarchy, Tenancy, TLC

CONSTANTS m1, m2, k1   \* two memberships, the second in the client k1

VARIABLE part

AccessInit ==
    /\ part \in {"SESSIONS", "LOGIN", "TOKENS", "WEB", "MEMBERS", "TENANCY"}
    /\ SessInit /\ LoginInit /\ RtInit /\ WebInit /\ HierarchyInit /\ TenancyInit
    \* one initial state is enough of a part that rests
    /\ part # "LOGIN" => account = "INVITED"
    /\ part # "TOKENS" => screen = "OUT"
    /\ part # "WEB" => web.cookie = 0

AccessNext ==
    /\ UNCHANGED part
    /\ \/ part = "SESSIONS" /\ SessNext
          /\ UNCHANGED <<loginVars, rtVars, webVars, hierarchyVars, tenancyVars>>
       \/ part = "LOGIN" /\ LoginNext
          /\ UNCHANGED <<sessVars, rtVars, webVars, hierarchyVars, tenancyVars>>
       \/ part = "TOKENS" /\ RtNext
          /\ UNCHANGED <<sessVars, loginVars, webVars, hierarchyVars, tenancyVars>>
       \/ part = "WEB" /\ WebNext
          /\ UNCHANGED <<sessVars, loginVars, rtVars, hierarchyVars, tenancyVars>>
       \/ part = "MEMBERS" /\ HierarchyNext
          /\ UNCHANGED <<sessVars, loginVars, rtVars, webVars, tenancyVars>>
       \/ part = "TENANCY" /\ TenancyNext
          /\ UNCHANGED <<sessVars, loginVars, rtVars, webVars, hierarchyVars>>

AccessSpec ==
    AccessInit /\ [][AccessNext]_<<part, sessVars, loginVars, rtVars, webVars, hierarchyVars, tenancyVars>>

-----------------------------------------------------------------------------
Homes == [m \in {m1, m2} |-> IF m = m1 THEN Agency ELSE k1]

(* One client with one of each, named for its kind. *)
Kinds == [x \in Node |-> x]
Parents ==
    [x \in Node |-> CASE x = "TEAM" -> "DEPARTMENT" [] x = "DEPARTMENT" -> "BRANCH" [] OTHER -> "CLIENT"]

(* Passwords are reset where nothing is deactivated and one elevation is    *)
(* started; of two elevations one comes after the other; and deactivations  *)
(* meet one session.                                                        *)
SessionsBound ==
    /\ (\E r \in ResetToken : resets[r] # "NONE") =>
           /\ closed = 0 /\ sessClosing = NoClosing
           /\ Cardinality({e \in Elevation : elevations[e] # NoElevation}) <= 1
    /\ Cardinality(OpenElevations) <= 1
    /\ (closed > 0 \/ sessClosing # NoClosing) =>
           Cardinality({x \in Session : sessions[x] # NoSession}) <= 1

(* While a Google challenge is open nobody's code is being checked.         *)
LoginBound ==
    (\E g \in GoogleChallenge : google[g] \in {"LOGIN", "LINK"}) \/ (\E h \in Handler : Doing(h, "GOOGLE"))
        => \A h \in Handler : handler[h].step \notin {"CONFIRMING", "VERIFYING", "FAILED", "USING"}

(* One of two members is suspended or gone, one is in teams, and a reporting *)
(* line is set where there is no team work.                                  *)
MembersBound ==
    /\ Cardinality({m \in Member : members[m].status \in {"SUSPENDED", "ENDED"}}) <= 1
    /\ \/ lines = [m \in Member |-> NoManager] /\ managers = [t \in Team |-> NoManager] /\ teamwork = {}
       \/ \A m \in Member : members[m] # NoMember => members[m].role # "CLIENT_ADMIN"
    /\ Cardinality({m \in Member : members[m] # NoMember /\ members[m].scope # {}}) <= 1
    /\ lines # [m \in Member |-> NoManager] => managers = [t \in Team |-> NoManager] /\ teamwork = {}

(* One of two calls at a time is a command, and troubles come in a single   *)
(* session of the server.                                                   *)
Commands == {"SWITCH", "ELEVATE", "END", "LOGOUT", "LOGOUT_ALL", "UNLINK"}
WebBound ==
    /\ \E c \in Call : web.calls[c].for \notin Commands
    /\ troubles > 0 => logins[2] = Closed

(* One of two sessions of the phone gets its third token.                   *)
TokensBound ==
    \A s, t \in PhoneSession :
        s # t /\ family[t].status # "NONE" => family[s].version + family[t].version <= 4

Bounds == SessionsBound /\ LoginBound /\ TokensBound /\ WebBound /\ MembersBound

AccessSymmetry ==
    Permutations(Caller) \cup Permutations(Elevation) \cup Permutations(Challenge)
=============================================================================
