---------------------------- MODULE RefreshTokens ----------------------------
(***************************************************************************)
(* One-time refresh tokens between the server and its clients.             *)
(*  - the server: rotateRefreshToken keeps the number of the only valid    *)
(*    token and ends a session that is shown an older one;                 *)
(*  - a phone, apps/mobile/src/auth/mobile-auth-manager.ts: the session in *)
(*    memory, the one in the secure vault, one refresh at a time, sign-in, *)
(*    logout, retry and start-up, each a chain of awaits;                  *)
(*  - a browser, apps/web/src/features/auth/auth-api-client.ts: one        *)
(*    refresh at a time in each tab, one cookie for all tabs.              *)
(*                                                                         *)
(* A job of the phone is a call of its manager: between two awaits others  *)
(* run.  An answer may be lost, a request whose caller has given up may    *)
(* still arrive, the vault may fail, and the app may be killed at any      *)
(* point: memory is lost, the vault stays.                                 *)
(***************************************************************************)
EXTENDS Naturals

CONSTANTS
    PhoneSession,   \* sessions that signing in on the phone creates
    WebSession,     \* the session of the browser
    Tab,            \* tabs of the browser
    MaxSequence,    \* bound: tokens of a session
    MaxFaults       \* bound: answers lost, vault failures and kills

ASSUME RefreshTokensAssumption ==
    /\ MaxSequence \in Nat \ {0} /\ MaxFaults \in Nat
    /\ PhoneSession \cap WebSession = {}

VARIABLES
    family,    \* refresh_sessions with refresh_token_version
    phoneMemory,    \* the phone: currentSession
    vault,     \* the phone: what the secure store holds
    screen,    \* the phone: which screen the auth state selects
    phone,     \* the phone: its jobs
    cookie,    \* the browser's refresh cookie
    tab,       \* the refresh of each tab
    adrift,    \* requests under way whose caller has given up
    excused,   \* sessions an answer of which was lost, or two tabs used at once
    faults     \* how many faults happened so far

rtVars == <<family, phoneMemory, vault, screen, phone, cookie, tab, adrift, excused, faults>>
rtServer == <<family, adrift, excused>>
rtBrowser == <<cookie, tab>>

-----------------------------------------------------------------------------
Family == PhoneSession \cup WebSession
Token == [session: Family, sequence: 1..MaxSequence]
Nil == [session |-> "NONE"]
NoToken == {Nil}
Job == {"LOGIN", "REFRESH", "LOGOUT", "RETRY"}
(* SENT: waiting for the server, with the token shown.  GRANTED: the answer *)
(* carries a token.  SAVED: it is in the vault.  CLEARING: memory is empty, *)
(* the vault is next.  LOADED: read from the vault.                         *)
JobState == [step: {"NONE", "REFUSED", "CLEARING"}]
            \cup [step: {"SENT", "GRANTED", "SAVED", "LOADED"}, token: Token]
No == [step |-> "NONE"]
Granted(t) == [step |-> "GRANTED", token |-> t]
Refused == [step |-> "REFUSED"]

RtTypeOK ==
    /\ family \in [Family -> [status: {"NONE", "OPEN", "ENDED", "REUSED"},
                              version: 0..MaxSequence]]
    /\ phoneMemory \in Token \cup NoToken /\ vault \in Token \cup NoToken
    /\ cookie \in Token \cup NoToken
    /\ screen \in {"NONE", "START", "OUT", "IN", "EXPIRED"}
    /\ phone \in [Job -> JobState]
    /\ tab \in [Tab -> JobState]
    /\ adrift \subseteq Token /\ excused \subseteq Family
    /\ faults \in 0..MaxFaults

(* A phone or a browser: screen is NONE where there is no phone.            *)
RtInit ==
    /\ family = [s \in Family |-> IF s \in WebSession
                                  THEN [status |-> "OPEN", version |-> 1]
                                  ELSE [status |-> "NONE", version |-> 0]]
    /\ \/ cookie = Nil /\ screen = "OUT"
       \/ cookie \in [session: WebSession, sequence: {1}] /\ screen = "NONE"
    /\ phoneMemory = Nil /\ vault = Nil
    /\ phone = [j \in Job |-> No] /\ tab = [b \in Tab |-> No]
    /\ adrift = {} /\ excused = {} /\ faults = 0

-----------------------------------------------------------------------------
(* The server.                                                              *)
Successor(t) == [t EXCEPT !.sequence = @ + 1]
Set(s, st) == family' = [family EXCEPT ![s].status = st]

(* rotateRefreshToken and the resolve after it; answer is what the caller   *)
(* is told.  A session found lapsed or disabled ends, before or after the   *)
(* rotation; an error of the service may come before or after it too.       *)
Reused(t, answer) ==
    /\ t.sequence # family[t.session].version
    /\ family' = [family EXCEPT ![t.session].status = IF @ = "OPEN" THEN "REUSED" ELSE @]
    /\ answer = Refused
Rotates(t, answer) ==
    /\ t.sequence = family[t.session].version /\ t.sequence < MaxSequence
    /\ family[t.session].status = "OPEN"
    /\ family' = [family EXCEPT ![t.session].version = @ + 1]
    /\ answer \in {Granted(Successor(t)), Refused}
Denies(t, answer) ==
    /\ t.sequence = family[t.session].version
    /\ \/ family[t.session].status # "OPEN" /\ UNCHANGED family
       \/ family[t.session].status = "OPEN" /\ Set(t.session, "ENDED")
    /\ answer = Refused
Rotation(t, answer) == Reused(t, answer) \/ Rotates(t, answer) \/ Denies(t, answer)
Answers(t) == {Refused} \cup (IF t.sequence < MaxSequence THEN {Granted(Successor(t))} ELSE {})

(* A rotation whose answer is an error is a lost answer, too.               *)
Excused(t, answer) ==
    excused' = IF answer = Refused /\ family'[t.session].version # family[t.session].version
               THEN excused \cup {t.session} ELSE excused

Fault == faults < MaxFaults /\ faults' = faults + 1
Excuse(t) == excused' = excused \cup {t.session}

(* A request nobody waits for reaches the server.                           *)
ArriveLate(t) ==
    /\ t \in adrift
    /\ \E answer \in Answers(t) : Rotation(t, answer)
    /\ adrift' = adrift \ {t}
    /\ Excuse(t)
    /\ UNCHANGED <<phoneMemory, vault, screen, phone, cookie, tab, faults>>

-----------------------------------------------------------------------------
(* The phone.                                                               *)
Step(j, step) == phone[j].step = step
Turns(j, st) == phone' = [phone EXCEPT ![j] = st]
Sent(t) == [step |-> "SENT", token |-> t]

(* login: the server creates a session and answers with its first token.    *)
LogIn(s) ==
    /\ screen = "OUT" /\ Step("LOGIN", "NONE") /\ family[s].status = "NONE"
    /\ family' = [family EXCEPT ![s] = [status |-> "OPEN", version |-> 1]]
    /\ Turns("LOGIN", Granted([session |-> s, sequence |-> 1]))
    /\ UNCHANGED <<phoneMemory, vault, screen, cookie, tab, adrift, excused, faults>>

(* refreshSession: a request met SESSION_EXPIRED, or start-up or retry ask  *)
(* for it; while one is under way everybody waits for that one.             *)
FaultyMayRefresh == phoneMemory # Nil /\ ~Step("REFRESH", "SENT")
MayRefresh == phoneMemory # Nil /\ Step("REFRESH", "NONE")
Refresh ==
    /\ MayRefresh
    /\ Turns("REFRESH", Sent(phoneMemory))
    /\ UNCHANGED <<phoneMemory, vault, screen, rtServer, rtBrowser, faults>>
RefreshServed ==
    /\ Step("REFRESH", "SENT")
    /\ \E answer \in Answers(phone["REFRESH"].token) :
          /\ Rotation(phone["REFRESH"].token, answer)
          /\ Excused(phone["REFRESH"].token, answer)
          /\ Turns("REFRESH", answer)
    /\ UNCHANGED <<phoneMemory, vault, screen, adrift, rtBrowser, faults>>

(* handleRefreshFailure, NetworkRequestError: the credential is kept.  The  *)
(* request may be on its way still, or its answer is lost.                  *)
RefreshUnreachable ==
    /\ Fault
    /\ \/ /\ Step("REFRESH", "SENT")
          /\ adrift' \in {adrift, adrift \cup {phone["REFRESH"].token}}
          /\ UNCHANGED excused
       \/ /\ Step("REFRESH", "GRANTED") /\ Excuse(phone["REFRESH"].token)
          /\ UNCHANGED adrift
    /\ Turns("REFRESH", No) /\ screen' = "EXPIRED"
    /\ UNCHANGED <<family, phoneMemory, vault, rtBrowser>>

(* Any other failure clears the local session, whichever it is by now.      *)
RefreshRefused ==
    /\ Step("REFRESH", "REFUSED")
    /\ phoneMemory' = Nil /\ Turns("REFRESH", [step |-> "CLEARING"])
    /\ UNCHANGED <<vault, screen, rtServer, rtBrowser, faults>>

(* acceptSession: the vault is written first, then phoneMemory.             *)
Save(j) ==
    /\ Step(j, "GRANTED")
    /\ vault' = phone[j].token
    /\ Turns(j, [step |-> "SAVED", token |-> phone[j].token])
    /\ UNCHANGED <<phoneMemory, screen, rtServer, rtBrowser, faults>>
SaveFails(j) ==
    /\ Step(j, "GRANTED") /\ Fault
    /\ LET s == phone[j].token.session IN
          UNCHANGED family \/ (family[s].status = "OPEN" /\ Set(s, "ENDED"))
    /\ vault' \in {vault, Nil}
    /\ phoneMemory' = Nil /\ screen' = "OUT" /\ Turns(j, No)
    /\ Excuse(phone[j].token)
    /\ UNCHANGED <<adrift, rtBrowser>>
Adopt(j) ==
    /\ Step(j, "SAVED")
    /\ phoneMemory' = phone[j].token /\ screen' = "IN" /\ Turns(j, No)
    /\ UNCHANGED <<vault, rtServer, rtBrowser, faults>>

(* clearLocalSession after its first line: the vault, which may fail.       *)
Clear(j) ==
    /\ Step(j, "CLEARING")
    /\ \/ vault' = Nil /\ UNCHANGED faults
       \/ vault' = vault /\ Fault
    /\ screen' = IF j = "REFRESH" THEN "EXPIRED" ELSE "OUT"
    /\ Turns(j, No)
    /\ UNCHANGED <<phoneMemory, rtServer, rtBrowser>>

(* logout: the server first, best effort, then phoneMemory and the vault.   *)
LogOut ==
    /\ screen = "IN" /\ phoneMemory # Nil /\ Step("LOGOUT", "NONE")
    /\ Turns("LOGOUT", Sent(phoneMemory))
    /\ UNCHANGED <<phoneMemory, vault, screen, rtServer, rtBrowser, faults>>
LogOutAnswered ==
    /\ Step("LOGOUT", "SENT")
    /\ LET s == phone["LOGOUT"].token.session IN
          \/ family[s].status = "OPEN" /\ Set(s, "ENDED") /\ UNCHANGED faults
          \/ family[s].status # "OPEN" /\ UNCHANGED <<family, faults>>
          \/ Fault /\ UNCHANGED family
    /\ phoneMemory' = Nil /\ Turns("LOGOUT", [step |-> "CLEARING"])
    /\ UNCHANGED <<vault, screen, adrift, excused, rtBrowser>>
(* resetForAnotherAccount, offered when the session has expired.            *)
ResetForAnotherAccount ==
    /\ screen = "EXPIRED" /\ Step("LOGOUT", "NONE")
    /\ phoneMemory' = Nil /\ Turns("LOGOUT", [step |-> "CLEARING"])
    /\ UNCHANGED <<vault, screen, rtServer, rtBrowser, faults>>

(* retrySession refreshes the session in memory at once, or waits for the    *)
(* vault and makes what it held the current session.  What it reads while   *)
(* another job is still to write the vault may be out of date by then.      *)
Retry ==
    /\ screen = "EXPIRED" /\ Step("RETRY", "NONE")
    /\ phoneMemory = Nil
    /\ IF vault = Nil
       THEN screen' = "OUT" /\ UNCHANGED phone
       ELSE Turns("RETRY", [step |-> "LOADED", token |-> vault]) /\ UNCHANGED screen
    /\ excused' = IF vault # Nil /\ \E j \in Job : phone[j] # No
                  THEN excused \cup {vault.session} ELSE excused
    /\ UNCHANGED <<phoneMemory, vault, family, adrift, rtBrowser, faults>>
RetryLoaded ==
    LET t == phone["RETRY"].token IN
    /\ Step("RETRY", "LOADED")
    /\ phoneMemory' = t
    /\ phone' = [phone EXCEPT !["RETRY"] = No,
                     !["REFRESH"] = IF Step("REFRESH", "NONE") THEN Sent(t) ELSE @]
    /\ UNCHANGED <<vault, screen, rtServer, rtBrowser, faults>>

(* The app is killed: what was sent may still arrive, what was granted and  *)
(* not saved is lost.                                                       *)
KillPhone ==
    /\ Fault /\ screen # "NONE"
    /\ screen' = "START" /\ phoneMemory' = Nil /\ phone' = [j \in Job |-> No]
    /\ adrift' = IF Step("REFRESH", "SENT") THEN adrift \cup {phone["REFRESH"].token} ELSE adrift
    /\ excused' = excused \cup {phone[j].token.session :
                      j \in {i \in {"LOGIN", "REFRESH"} : Step(i, "GRANTED")}}
    /\ UNCHANGED <<family, vault, rtBrowser>>
(* performBootstrap; the access token may still be good.                    *)
Bootstrap ==
    /\ screen = "START"
    /\ phoneMemory' = vault
    /\ IF vault = Nil THEN screen' = "OUT" /\ UNCHANGED phone
       ELSE \/ screen' = "IN" /\ UNCHANGED phone
            \/ screen' = "IN" /\ Turns("REFRESH", Sent(vault))
    /\ UNCHANGED <<vault, rtServer, rtBrowser, faults>>

-----------------------------------------------------------------------------
(* The browser: the cookie is sent as it is now and set by the answer.      *)
TabBecomes(b, st) == tab' = [tab EXCEPT ![b] = st]
TabRefresh(b) ==
    /\ tab[b] = No /\ cookie # Nil
    /\ TabBecomes(b, Sent(cookie))
    /\ excused' = IF \E d \in Tab : tab[d].step \in {"SENT", "GRANTED"}
                  THEN excused \cup {cookie.session} ELSE excused
    /\ UNCHANGED <<family, adrift, phoneMemory, vault, screen, phone, cookie, faults>>
TabServed(b) ==
    /\ tab[b].step = "SENT"
    /\ \E answer \in Answers(tab[b].token) :
          /\ Rotation(tab[b].token, answer)
          /\ Excused(tab[b].token, answer)
          /\ TabBecomes(b, answer)
    /\ UNCHANGED <<adrift, phoneMemory, vault, screen, phone, cookie, faults>>
(* setRefreshCookie or clearRefreshCookie, applied by the browser.          *)
TabAnswered(b) ==
    /\ tab[b].step \in {"GRANTED", "REFUSED"}
    /\ cookie' = IF tab[b].step = "GRANTED" THEN tab[b].token ELSE Nil
    /\ TabBecomes(b, No)
    /\ UNCHANGED <<family, adrift, excused, phoneMemory, vault, screen, phone, faults>>
TabUnreachable(b) ==
    /\ Fault
    /\ tab[b].step \in {"SENT", "GRANTED"}
    /\ adrift' = IF tab[b].step = "SENT" THEN adrift \cup {tab[b].token} ELSE adrift
    /\ excused' = IF tab[b].step = "GRANTED" THEN excused \cup {tab[b].token.session}
                  ELSE excused
    /\ TabBecomes(b, No)
    /\ UNCHANGED <<family, phoneMemory, vault, screen, phone, cookie>>

-----------------------------------------------------------------------------
RtPhone ==
    \/ \E s \in PhoneSession : LogIn(s)
    \/ Refresh \/ RefreshServed \/ RefreshUnreachable \/ RefreshRefused
    \/ \E j \in {"LOGIN", "REFRESH"} : Save(j) \/ SaveFails(j) \/ Adopt(j)
    \/ \E j \in {"REFRESH", "LOGOUT"} : Clear(j)
    \/ LogOut \/ LogOutAnswered \/ ResetForAnotherAccount \/ Retry \/ RetryLoaded
    \/ KillPhone \/ Bootstrap
RtTabs == \E b \in Tab : TabRefresh(b) \/ TabServed(b) \/ TabAnswered(b) \/ TabUnreachable(b)
RtNext == RtPhone \/ RtTabs \/ \E t \in adrift : ArriveLate(t)

RtSpec == RtInit /\ [][RtNext]_rtVars

-----------------------------------------------------------------------------
(* A session ends as REFRESH_TOKEN_REUSED only if an answer of it was lost, *)
(* or two tabs refreshed with its cookie at the same time: saving before    *)
(* using, and one refresh at a time, keep the phone from showing an old     *)
(* token of its own accord, through logins, logouts, retries and restarts.  *)
ReuseExplained == \A s \in Family : family[s].status = "REUSED" => s \in excused
=============================================================================
