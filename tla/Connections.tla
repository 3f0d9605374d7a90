---------------------------- MODULE Connections ----------------------------
(* The dealership's WhatsApp connections: messaging.service.ts               *)
(* (configureDevelopment, configureWhatsAppCloud, health,                    *)
(* activateConnection, syncTemplates, verifyChallenge, the end of            *)
(* receiveWebhook), the two providers and the credential protector, all      *)
(* under src/apps/api/src/messaging.                                         *)
(*                                                                           *)
(* A connection's credentials are the number of the configuration that       *)
(* brought them.  A command that awaits the provider reads the row first and *)
(* writes it by its id afterwards; `hands` holds what it keeps of the row.   *)
EXTENDS Integers

CONSTANTS
    Connection,     \* rows of messaging_provider_connections
    Cloud,          \* those of WhatsApp Cloud; the others are of the development adapter
    Template,       \* names of message templates
    Hand,           \* requests that can be under way at once
    MaxSecret       \* bound: configurations of a cloud connection

ASSUME ConnectionsAssumption ==
    /\ Cloud \subseteq Connection
    /\ MaxSecret \in Nat \ {0}

VARIABLES
    connections,    \* connection -> its row, or NoConnection
    templates,      \* connection -> template -> the status last synchronised, or "NONE"
    retired,        \* credentials whose encryption key the deployment no longer has
    hands,          \* hand -> the request it serves
    confirmed,      \* history: connection -> credentials the provider has called back with
    crossed         \* history: connections configured while a request held their earlier row

connectionVars == <<connections, templates, retired, hands, confirmed, crossed>>

-----------------------------------------------------------------------------
NoConnection == [status |-> "NONE"]
TemplateStatus == {"APPROVED", "PENDING", "REJECTED", "PAUSED", "DISABLED"}
ConnectionRow ==
    [status : {"PENDING_APPROVAL", "ACTIVE", "DEGRADED", "DISABLED"},
     webhookState : {"NOT_VERIFIED", "VERIFIED"},
     secret : 0 .. MaxSecret]

AtRest == [task |-> "NONE"]
ProviderRequest ==
    {AtRest}
    \cup [task : {"ACTIVATE", "CALLBACK", "SYNC"}, at : Connection]
    \cup [task : {"HEALTH"},
          rows : [Connection -> {"ACTIVE", "OTHER", "UNREADABLE", "DONE"}]]

ConnectionsTypeOK ==
    /\ connections \in [Connection -> ConnectionRow \cup {NoConnection}]
    /\ templates \in [Connection -> [Template -> TemplateStatus \cup {"NONE"}]]
    /\ retired \in SUBSET (1 .. MaxSecret)
    /\ hands \in [Hand -> ProviderRequest]
    /\ confirmed \in [Connection -> SUBSET (0 .. MaxSecret)]
    /\ crossed \in SUBSET Connection

ConnectionsInit ==
    /\ connections = [c \in Connection |-> NoConnection]
    /\ templates = [c \in Connection |-> [t \in Template |-> "NONE"]]
    /\ retired = {}
    /\ hands = [h \in Hand |-> AtRest]
    /\ confirmed = [c \in Connection |-> {}]
    /\ crossed = {}

-----------------------------------------------------------------------------
Configured(c) == connections[c] # NoConnection

(* The request of hand h still works on a row of connection c it has read.  *)
Holds(h, c) ==
    \/ hands[h].task \in {"ACTIVATE", "CALLBACK", "SYNC"} /\ hands[h].at = c
    \/ hands[h].task = "HEALTH" /\ hands[h].rows[c] # "DONE"

StoreRow(c, row) == connections' = [connections EXCEPT ![c] = row]
Replaced(c) ==
    crossed' = IF \E h \in Hand : Holds(h, c) THEN crossed \cup {c} ELSE crossed \ {c}
Finish(h) == hands' = [hands EXCEPT ![h] = AtRest]
Begin(h, c, task) ==
    hands' = [hands EXCEPT ![h] = [task |-> task, at |-> c]]

(* A row becomes what a provider is called with: its credentials are         *)
(* decrypted, which fails when the deployment has lost their key.            *)
providerConnection(row) == row.secret \notin retired

(* Both configurations are one insert that, for a number known already,     *)
(* updates the row it finds, whatever its status.                            *)
configureDevelopment(c, enabled) ==
    /\ c \notin Cloud
    /\ StoreRow(c, [status |-> IF enabled THEN "ACTIVE" ELSE "DISABLED",
                   webhookState |-> IF enabled THEN "VERIFIED" ELSE "NOT_VERIFIED",
                   secret |-> 0])
    /\ Replaced(c)
    /\ UNCHANGED <<templates, retired, hands, confirmed>>

configureWhatsAppCloud(c) ==
    /\ c \in Cloud
    /\ Configured(c) => connections[c].secret < MaxSecret
    /\ StoreRow(c, [status |-> "PENDING_APPROVAL",
                   webhookState |-> "NOT_VERIFIED",
                   secret |-> IF Configured(c) THEN connections[c].secret + 1 ELSE 1])
    /\ Replaced(c)
    /\ UNCHANGED <<templates, retired, hands, confirmed>>

(* Faulty: a connection that was in use is activated again as it is. *)
FaultyCallbackVerified(c) ==
    c \in Cloud => connections[c].webhookState = "VERIFIED" \/ confirmed[c] # {}

(* A cloud connection is activated after the provider called it back.       *)
CallbackVerified(c) == c \in Cloud => connections[c].webhookState = "VERIFIED"

activateConnection(h, c) ==
    /\ hands[h] = AtRest /\ Configured(c)
    /\ CallbackVerified(c)
    /\ providerConnection(connections[c])
    /\ Begin(h, c, "ACTIVATE")
    /\ UNCHANGED <<connections, templates, retired, confirmed, crossed>>

(* ... the provider answered that the connection is healthy.                 *)
Activated(h) ==
    /\ hands[h].task = "ACTIVATE"
    /\ StoreRow(hands[h].at, [connections[hands[h].at] EXCEPT !.status = "ACTIVE"])
    /\ Finish(h)
    /\ UNCHANGED <<templates, retired, confirmed, crossed>>

(* The health check reads every row once and asks the providers in turn; a   *)
(* row whose credentials cannot be read ends it.                             *)
Seen(c) ==
    IF ~Configured(c) THEN "DONE"
    ELSE IF ~providerConnection(connections[c]) THEN "UNREADABLE"
    ELSE IF connections[c].status = "ACTIVE" THEN "ACTIVE" ELSE "OTHER"

health(h) ==
    /\ hands[h] = AtRest
    /\ hands' = [hands EXCEPT ![h] = [task |-> "HEALTH", rows |-> [c \in Connection |-> Seen(c)]]]
    /\ UNCHANGED <<connections, templates, retired, confirmed, crossed>>

healthCheck(h, c, healthy) ==
    /\ hands[h].task = "HEALTH" /\ hands[h].rows[c] \in {"ACTIVE", "OTHER"}
    /\ IF hands[h].rows[c] = "ACTIVE" /\ ~healthy
       THEN StoreRow(c, [connections[c] EXCEPT !.status = "DEGRADED"])
       ELSE UNCHANGED connections
    /\ LET left == [hands[h].rows EXCEPT ![c] = "DONE"]
       IN  IF \A d \in Connection : left[d] = "DONE"
           THEN Finish(h) ELSE hands' = [hands EXCEPT ![h].rows = left]
    /\ UNCHANGED <<templates, retired, confirmed, crossed>>

(* The provider calls the connection's address: its verify token, or the     *)
(* signature of an event, must be that of the row's credentials.  The        *)
(* development adapter has no verify token; its events carry a signature of  *)
(* the deployment.  What the events do is in Messaging and Conversations.    *)
Callback(h, c, secret) ==
    /\ hands[h] = AtRest /\ Configured(c)
    /\ providerConnection(connections[c])
    /\ connections[c].secret = secret
    /\ Begin(h, c, "CALLBACK")
    /\ confirmed' = [confirmed EXCEPT ![c] = @ \cup {secret}]
    /\ UNCHANGED <<connections, templates, retired, crossed>>

Verified(h) ==
    /\ hands[h].task = "CALLBACK"
    /\ StoreRow(hands[h].at, [connections[hands[h].at] EXCEPT !.webhookState = "VERIFIED"])
    /\ Finish(h)
    /\ UNCHANGED <<templates, retired, confirmed, crossed>>

(* The templates the provider lists are stored; one it no longer lists keeps *)
(* its status.                                                               *)
syncTemplates(h, c) ==
    /\ hands[h] = AtRest /\ Configured(c)
    /\ providerConnection(connections[c])
    /\ Begin(h, c, "SYNC")
    /\ UNCHANGED <<connections, templates, retired, confirmed, crossed>>

Synchronised(h, listed, status) ==
    /\ hands[h].task = "SYNC"
    /\ templates' = [templates EXCEPT ![hands[h].at] =
         [t \in Template |-> IF t \in listed THEN status ELSE @[t]]]
    /\ Finish(h)
    /\ UNCHANGED <<connections, retired, confirmed, crossed>>

(* The provider does not answer or is not healthy, the process dies, or no   *)
(* row is left that a health check can read: nothing more is written.        *)
GivesUp(h) ==
    /\ hands[h] # AtRest
    /\ Finish(h)
    /\ UNCHANGED <<connections, templates, retired, confirmed, crossed>>

(* The deployment drops the key that encrypted some credentials.             *)
RetireKey(secret) ==
    /\ retired' = retired \cup {secret}
    /\ UNCHANGED <<connections, templates, hands, confirmed, crossed>>

-----------------------------------------------------------------------------
ConnectionsNext ==
    \/ \E c \in Connection, enabled \in BOOLEAN : configureDevelopment(c, enabled)
    \/ \E c \in Connection : configureWhatsAppCloud(c)
    \/ \E h \in Hand :
         \/ \E c \in Connection :
              \/ activateConnection(h, c) \/ syncTemplates(h, c)
              \/ \E healthy \in BOOLEAN : healthCheck(h, c, healthy)
              \/ \E s \in 0 .. MaxSecret : Callback(h, c, s)
         \/ \E listed \in SUBSET Template, s \in {"APPROVED", "PAUSED"} : Synchronised(h, listed, s)
         \/ Activated(h) \/ Verified(h) \/ health(h) \/ GivesUp(h)
    \/ \E s \in 1 .. MaxSecret : RetireKey(s)

ConnectionsSpec == ConnectionsInit /\ [][ConnectionsNext]_connectionVars

-----------------------------------------------------------------------------
(* "Verify the official provider callback before activating this             *)
(* connection": a cloud connection that is or was in use since it was last   *)
(* configured has been called back with the credentials it has now.  The     *)
(* exception is one that was configured anew while an activation, a health   *)
(* check or a callback held its earlier row: their writes name the id only.  *)
(* (activateConnection, configureWhatsAppCloud, verifyChallenge)             *)
UsedWhenConfirmed ==
    \A c \in Cloud :
        connections[c].status \in {"ACTIVE", "DEGRADED"} =>
            connections[c].secret \in confirmed[c] \/ c \in crossed
=============================================================================
