-------------------------- MODULE OfflineCommands --------------------------
(***************************************************************************)
(* A command on its way from a phone to the server and back:               *)
(*  - the SQLite outbox and its replay, apps/mobile/src/data/              *)
(*    delivery-offline.ts, test-ride-offline.ts and lead-outbox.ts, and    *)
(*    the delivery screen that sends first and queues when that fails;     *)
(*  - the idempotent command() of the delivery, inventory, commercial and  *)
(*    registration services, which keeps a receipt per key and commits it  *)
(*    together with the command's effect.                                  *)
(*                                                                         *)
(* An operation's id is its idempotency key.  copy holds the requests that *)
(* carry it: every send takes a free place, and a request the phone has    *)
(* given up on may still arrive.  Two screens can run a replay at the same *)
(* time; each works from the rows it selected when it began.  The system   *)
(* may kill the app at any point; what was in memory is lost, SQLite stays.*)
(***************************************************************************)
EXTENDS Naturals, FiniteSets, FiniteSetsExt

CONSTANTS
    Op,           \* operations, numbered in the order of created_at
    Replayer,     \* screens that run a replay
    MaxCopies,    \* bound: requests of one operation under way at once
    MaxEffects,   \* bound: how often an effect is counted
    MaxKills      \* bound: how often the app is killed

ASSUME OfflineAssumption ==
    /\ Op \subseteq Nat
    /\ Replayer \cap Op = {}
    /\ MaxCopies \in Nat \ {0} /\ MaxEffects \in Nat \ {0} /\ MaxKills \in Nat

VARIABLES
    row,       \* the outbox row of an operation, or where it is before and after
    todo,      \* per replay: the rows it selected and has not sent yet
    sending,   \* per replay: the set with the operation it has sent, or {}
    call,      \* per sender: the copy whose answer it awaits, 0 for none
    copy,      \* requests under way and answers on their way back
    receipt,   \* the server's command receipts
    effects,   \* how often the operation was applied to the server's database
    kills      \* how often the app was killed so far

outboxVars == <<row, todo, sending, call, copy, receipt, effects, kills>>

-----------------------------------------------------------------------------
(* DIRECT: sent by the screen and not stored.  DONE: accepted, and deleted  *)
(* if it was stored.  REFUSED and LOST: never stored and over.              *)
Row == {"NONE", "DIRECT", "QUEUED", "REPLAYING", "FAILED", "CONFLICT", "DONE",
        "REFUSED", "LOST"}
Stored == {"QUEUED", "REPLAYING", "FAILED", "CONFLICT"}
Copy == {"FREE", "SENT", "RUNNING", "OK", "CONFLICT", "REFUSED", "ERROR"}
Answer == {"OK", "CONFLICT", "REFUSED", "ERROR"}
Place == 1..MaxCopies
Sender == Op \cup Replayer

OutboxTypeOK ==
    /\ row \in [Op -> Row]
    /\ todo \in [Replayer -> SUBSET Op]
    /\ sending \in [Replayer -> SUBSET Op]
    /\ call \in [Sender -> 0..MaxCopies]
    /\ copy \in [Op -> [Place -> Copy]]
    /\ receipt \in [Op -> BOOLEAN]
    /\ effects \in [Op -> 0..MaxEffects]
    /\ kills \in 0..MaxKills

OutboxInit ==
    /\ row = [o \in Op |-> "NONE"]
    /\ todo = [p \in Replayer |-> {}]
    /\ sending = [p \in Replayer |-> {}]
    /\ call = [s \in Sender |-> 0]
    /\ copy = [o \in Op |-> [n \in Place |-> "FREE"]]
    /\ receipt = [o \in Op |-> FALSE]
    /\ effects = [o \in Op |-> 0]
    /\ kills = 0

server == <<receipt, effects>>
memory == <<todo, sending, call>>

-----------------------------------------------------------------------------
(* The phone.                                                              *)

(* Somebody awaits the answer to the copy of o on place n. *)
Awaited(o, n) == call[o] = n \/ \E p \in Replayer : o \in sending[p] /\ call[p] = n

(* A request for o leaves on place n and sender s awaits its answer. *)
Send(o, n, s) ==
    /\ copy[o][n] = "FREE" /\ ~Awaited(o, n)
    /\ copy' = [copy EXCEPT ![o][n] = "SENT"]
    /\ call' = [call EXCEPT ![s] = n]

(* Offline, the delivery screen stores the command at once. *)
Enqueue(o) ==
    /\ row[o] = "NONE"
    /\ row' = [row EXCEPT ![o] = "QUEUED"]
    /\ UNCHANGED <<memory, copy, server, kills>>

SendDirectly(o, n) ==
    /\ row[o] = "NONE"
    /\ Send(o, n, o)
    /\ row' = [row EXCEPT ![o] = "DIRECT"]
    /\ UNCHANGED <<todo, sending, server, kills>>

(* No answer, or an answer of 500 and above: queue it under the same key. *)
FallBack(o) ==
    /\ row[o] = "DIRECT"
    /\ row' = [row EXCEPT ![o] = "QUEUED"]
    /\ call' = [call EXCEPT ![o] = 0]
    /\ UNCHANGED <<todo, sending, copy, server, kills>>

DirectAnswer(o) ==
    LET n == call[o] IN
    /\ n # 0
    /\ copy[o][n] \in {"OK", "CONFLICT", "REFUSED"}
    /\ row' = [row EXCEPT ![o] = IF copy[o][n] = "OK" THEN "DONE" ELSE "REFUSED"]
    /\ copy' = [copy EXCEPT ![o][n] = "FREE"]
    /\ call' = [call EXCEPT ![o] = 0]
    /\ UNCHANGED <<todo, sending, server, kills>>

(* Faulty: a row that failed once is not tried again. *)
PendingOnce == {o \in Op : row[o] = "QUEUED"}

(* SELECT ... WHERE state IN ('QUEUED', 'FAILED') *)
Pending == {o \in Op : row[o] \in {"QUEUED", "FAILED"}}

BeginReplay(p) ==
    /\ todo[p] = {} /\ sending[p] = {}
    /\ Pending # {}
    /\ todo' = [todo EXCEPT ![p] = Pending]
    /\ UNCHANGED <<row, sending, call, copy, server, kills>>

(* The row is marked, if it is still there, and sent: nothing but a kill    *)
(* can come between, and a kill then is a kill with the request lost.       *)
Replay(p, o, n) ==
    /\ sending[p] = {}
    /\ o \in todo[p] /\ \A q \in todo[p] : o <= q
    /\ Send(o, n, p)
    /\ row' = [row EXCEPT ![o] = IF row[o] \in Stored THEN "REPLAYING" ELSE row[o]]
    /\ todo' = [todo EXCEPT ![p] = @ \ {o}]
    /\ sending' = [sending EXCEPT ![p] = {o}]
    /\ UNCHANGED <<server, kills>>

(* What an answer does to the row: DELETE, or UPDATE if it is still there. *)
Settled(o, answer) ==
    CASE answer = "OK"                              -> "DONE"
      [] answer # "OK" /\ row[o] \notin Stored      -> row[o]
      [] answer = "CONFLICT" /\ row[o] \in Stored   -> "CONFLICT"
      [] OTHER                                      -> "FAILED"

ReplayAnswer(p, o) ==
    LET n == call[p] IN
    /\ o \in sending[p]
    /\ copy[o][n] \in Answer
    /\ row' = [row EXCEPT ![o] = Settled(o, copy[o][n])]
    /\ copy' = [copy EXCEPT ![o][n] = "FREE"]
    /\ call' = [call EXCEPT ![p] = 0]
    /\ sending' = [sending EXCEPT ![p] = {}]
    /\ UNCHANGED <<todo, server, kills>>

(* request() throws: the request, the answer or the patience ran out. *)
GiveUp(p, o) ==
    /\ o \in sending[p]
    /\ row' = [row EXCEPT ![o] = Settled(o, "ERROR")]
    /\ call' = [call EXCEPT ![p] = 0]
    /\ sending' = [sending EXCEPT ![p] = {}]
    /\ UNCHANGED <<todo, copy, server, kills>>

Kill ==
    /\ kills < MaxKills
    /\ kills' = kills + 1
    /\ row' = [o \in Op |-> IF row[o] = "DIRECT" THEN "LOST" ELSE row[o]]
    /\ todo' = [p \in Replayer |-> {}]
    /\ sending' = [p \in Replayer |-> {}]
    /\ call' = [s \in Sender |-> 0]
    /\ UNCHANGED <<copy, server>>

-----------------------------------------------------------------------------
(* The network and the server.                                             *)

(* A request or an answer that nobody awaits any more, or that gets lost. *)
Vanish(o, n) ==
    /\ copy[o][n] \in {"SENT"} \cup Answer
    /\ copy' = [copy EXCEPT ![o][n] = "FREE"]
    /\ UNCHANGED <<row, memory, server, kills>>

(* Faulty: a copy does not wait for the open transaction of another. *)
BeginCommandAtOnce(o, n) ==
    /\ copy[o][n] = "SENT"
    /\ copy' = [copy EXCEPT ![o][n] = IF receipt[o] THEN "OK" ELSE "RUNNING"]
    /\ UNCHANGED <<row, memory, server, kills>>

(* INSERT ... ON CONFLICT DO NOTHING waits while another transaction has    *)
(* inserted the key and not ended.  If the receipt is there, its response   *)
(* is the answer; the fingerprint is the same because the payload is.       *)
BeginCommand(o, n) ==
    /\ copy[o][n] = "SENT"
    /\ \A m \in Place : copy[o][m] # "RUNNING"
    /\ copy' = [copy EXCEPT ![o][n] = IF receipt[o] THEN "OK" ELSE "RUNNING"]
    /\ UNCHANGED <<row, memory, server, kills>>

(* The operation and its receipt commit together. *)
CommitCommand(o, n) ==
    /\ copy[o][n] = "RUNNING"
    /\ effects[o] < MaxEffects
    /\ copy' = [copy EXCEPT ![o][n] = "OK"]
    /\ receipt' = [receipt EXCEPT ![o] = TRUE]
    /\ effects' = [effects EXCEPT ![o] = @ + 1]
    /\ UNCHANGED <<row, memory, kills>>

(* The operation throws: 409, another 4xx, or a failure of the server.  The *)
(* transaction rolls back and takes the receipt with it.                    *)
AbortCommand(o, n, answer) ==
    /\ copy[o][n] = "RUNNING"
    /\ answer \in Answer \ {"OK"}
    /\ copy' = [copy EXCEPT ![o][n] = answer]
    /\ UNCHANGED <<row, memory, server, kills>>

-----------------------------------------------------------------------------
PhoneNext ==
    \/ \E o \in Op : Enqueue(o) \/ FallBack(o) \/ DirectAnswer(o)
    \/ \E o \in Op, n \in Place : SendDirectly(o, n)
    \/ \E p \in Replayer : BeginReplay(p)
    \/ \E p \in Replayer, o \in Op : ReplayAnswer(p, o) \/ GiveUp(p, o)
    \/ \E p \in Replayer, o \in Op, n \in Place : Replay(p, o, n)
    \/ Kill

ServerNext ==
    \E o \in Op, n \in Place :
        \/ Vanish(o, n) \/ BeginCommand(o, n) \/ CommitCommand(o, n)
        \/ \E answer \in Answer : AbortCommand(o, n, answer)

OutboxNext == PhoneNext \/ ServerNext

OutboxSpec == OutboxInit /\ [][OutboxNext]_outboxVars

(* request() throws when its copy is lost, or before it is answered. *)
InVain(p, o) == o \in sending[p] /\ copy[o][call[p]] = "FREE"

(* What can go wrong with a request that a replay awaits. *)
Disturbance ==
    \/ \E p \in Replayer, o \in Op : ~InVain(p, o) /\ GiveUp(p, o)
    \/ \E o \in Op, n \in Place :
         \/ Awaited(o, n) /\ Vanish(o, n)
         \/ AbortCommand(o, n, "ERROR") \/ AbortCommand(o, n, "REFUSED")

(* From some time on the phone has a connection and the server accepts a    *)
(* command or answers 409.                                                  *)
CalmInTheEnd == <>[][~Disturbance]_outboxVars

(* The user presses "Replay" again while rows are pending; a replay that    *)
(* runs goes on; requests travel, transactions end, answers return, and a   *)
(* copy nobody awaits is gone some day.                                     *)
ReplayFairness ==
    /\ \A p \in Replayer :
         /\ WF_outboxVars(BeginReplay(p))
         /\ WF_outboxVars(\E o \in Op, n \in Place : Replay(p, o, n))
         /\ WF_outboxVars(\E o \in Op : ReplayAnswer(p, o) \/ (InVain(p, o) /\ GiveUp(p, o)))
    /\ \A o \in Op, n \in Place :
         /\ WF_outboxVars(BeginCommand(o, n))
         /\ WF_outboxVars(CommitCommand(o, n) \/ \E a \in Answer : AbortCommand(o, n, a))
         /\ WF_outboxVars(~Awaited(o, n) /\ Vanish(o, n))

OutboxFairSpec == OutboxSpec /\ ReplayFairness /\ CalmInTheEnd

-----------------------------------------------------------------------------
(* Properties.                                                             *)

(* The issuer sees that a row was accepted and deleted, or in conflict. *)
Told == [o \in Op |-> IF row[o] = "DONE" THEN "DONE"
                      ELSE IF row[o] = "CONFLICT" THEN "CONFLICT" ELSE "WAITING"]

(* The outbox, its retries and the receipts implement the promise: lost     *)
(* answers, copies that arrive late, parallel replays and killed apps never *)
(* apply a command twice or report one as done that was not applied.        *)
Promise == INSTANCE ExactlyOnce WITH effects <- effects, told <- Told
KeepsPromise == Promise!Spec

(* A row that says REPLAYING although no replay is at work on it: the app   *)
(* was killed in between, and no statement selects such a row again.        *)
Stranded(o) == kills > 0 /\ row[o] = "REPLAYING" /\ \A p \in Replayer : o \notin sending[p]

(* A command the phone took in is settled once the connection is good:      *)
(* accepted, or shown as a conflict - unless a kill stranded its row.       *)
(* Nothing else keeps it from the server: neither failed attempts, nor      *)
(* another screen's replay, nor copies that are still under way.            *)
SettledOrStranded ==
    \A o \in Op : row[o] \in {"QUEUED", "FAILED"} ~>
                     row[o] \in {"DONE", "CONFLICT"} \/ Stranded(o)

(* The same, of an app that may be killed: MOBILE_RELEASE.md has the outbox *)
(* survive "process/device restart" and expose "failed/conflict state".     *)
QueuedIsSettled ==
    \A o \in Op : row[o] \in {"QUEUED", "FAILED"} ~> row[o] \in {"DONE", "CONFLICT"}
=============================================================================
