---------------------------- MODULE OfficeProofs ----------------------------
(* Proofs about Connections, Permits, Trail, Analytics and Integrations for  *)
(* every set of connections, sends, samples and rows, and every bound.       *)
EXTENDS Connections, Permits, Trail, Analytics, Integrations, FiniteSetTheorems, TLAPS

-----------------------------------------------------------------------------
(* Connections.  The credentials a connection has now were confirmed by the  *)
(* provider, or somebody held its row when they were last replaced.          *)
Assured(c) == connections[c].secret \in confirmed[c] \/ c \in crossed

(* What makes a request write that a connection is in use.                   *)
Vouches(h, c) ==
    \/ hands[h].task \in {"ACTIVATE", "CALLBACK"} /\ hands[h].at = c
    \/ hands[h].task = "HEALTH" /\ hands[h].rows[c] = "ACTIVE"

(* A request works on rows that exist.                                       *)
HeldRowsExist ==
    \A h \in Hand :
        /\ hands[h].task \in {"ACTIVATE", "CALLBACK", "SYNC"} => Configured(hands[h].at)
        /\ hands[h].task = "HEALTH" =>
             \A c \in Connection : hands[h].rows[c] \in {"ACTIVE", "OTHER"} => Configured(c)

ConnectionsInv ==
    /\ ConnectionsTypeOK
    /\ HeldRowsExist
    /\ \A c \in Cloud :
         Configured(c) =>
           /\ connections[c].status \in {"ACTIVE", "DEGRADED"} => Assured(c)
           /\ connections[c].webhookState = "VERIFIED" => Assured(c)
           /\ \A h \in Hand : Vouches(h, c) => Assured(c)

LEMMA ConnectionsStart == ASSUME ConnectionsInit PROVE ConnectionsInv
<1>1. ConnectionsTypeOK
  BY DEF ConnectionsInit, ConnectionsTypeOK, ProviderRequest
<1>2. \A h \in Hand : hands[h].task = "NONE"
  BY DEF ConnectionsInit, AtRest
<1>3. \A c \in Cloud : ~Configured(c)
  BY ConnectionsAssumption DEF ConnectionsInit, Configured
<1> QED
  BY <1>1, <1>2, <1>3 DEF ConnectionsInv, HeldRowsExist

(* A row is written and every request that could have vouched for it still   *)
(* finds it assured.                                                         *)
LEMMA ConfigurationKeeps ==
    ASSUME ConnectionsInv, NEW c \in Connection, NEW row \in ConnectionRow,
           StoreRow(c, row), Replaced(c), UNCHANGED <<templates, retired, hands, confirmed>>,
           c \in Cloud => row.status = "PENDING_APPROVAL" /\ row.webhookState = "NOT_VERIFIED"
    PROVE  ConnectionsInv'
<1>1. connections' = [connections EXCEPT ![c] = row] /\ connections'[c] = row
      /\ \A d \in Connection \ {c} : connections'[d] = connections[d]
  BY DEF StoreRow, ConnectionsInv, ConnectionsTypeOK
<1>2. row # NoConnection
  BY DEF ConnectionRow, NoConnection
<1>3. ConnectionsTypeOK'
  BY <1>1 DEF ConnectionsInv, ConnectionsTypeOK, Replaced
<1>4. \A d \in Connection : Configured(d) => Configured(d)'
  BY <1>1, <1>2 DEF Configured
<1>5. HeldRowsExist'
  <2>1. ASSUME NEW h \in Hand PROVE hands[h] \in ProviderRequest
    BY DEF ConnectionsInv, ConnectionsTypeOK
  <2> QED
    BY <1>4, <2>1 DEF HeldRowsExist, ConnectionsInv, ProviderRequest, AtRest
<1>6. ASSUME NEW d \in Cloud, Configured(d)'
      PROVE  (/\ connections[d].status \in {"ACTIVE", "DEGRADED"} => Assured(d)
              /\ connections[d].webhookState = "VERIFIED" => Assured(d)
              /\ \A h \in Hand : Vouches(h, d) => Assured(d))'
  <2>1. CASE d = c
    <3>1. ASSUME NEW h \in Hand, Vouches(h, d)' PROVE Assured(d)'
      <4>1. Holds(h, c)
        BY <2>1, <3>1 DEF Vouches, Holds
      <4> QED
        BY <2>1, <4>1 DEF Replaced, Assured
    <3> QED
      BY <1>1, <2>1, <3>1
  <2>2. CASE d # c
    <3>1. Assured(d) <=> Assured(d)'
      BY <1>1, <2>2, ConnectionsAssumption DEF Assured, Replaced
    <3>2. \A h \in Hand : Vouches(h, d) <=> Vouches(h, d)'
      BY DEF Vouches
    <3> QED
      BY <1>1, <1>6, <2>2, <3>1, <3>2, ConnectionsAssumption DEF ConnectionsInv, Configured
  <2> QED
    BY <2>1, <2>2
<1> QED
  BY <1>3, <1>5, <1>6 DEF ConnectionsInv

(* What a request can be once it has been answered. *)
Answered(h) ==
    \/ hands'[h] = hands[h]
    \/ hands'[h] = AtRest
    \/ /\ hands[h].task = "HEALTH" /\ hands'[h].task = "HEALTH"
       /\ \A c \in Connection : hands'[h].rows[c] \in {hands[h].rows[c], "DONE"}

(* A request writes a field of a row it was sent for.                        *)
LEMMA AnswerKeeps ==
    ASSUME ConnectionsInv, NEW c \in Connection, Configured(c), NEW row \in ConnectionRow,
           StoreRow(c, row), row.secret = connections[c].secret,
           c \in Cloud => \/ Assured(c)
                          \/ /\ row.status = connections[c].status
                             /\ row.webhookState = connections[c].webhookState,
           ConnectionsTypeOK', \A h \in Hand : Answered(h),
           UNCHANGED <<confirmed, crossed>>
    PROVE  ConnectionsInv'
<1>1. connections'[c] = row /\ \A d \in Connection \ {c} : connections'[d] = connections[d]
  BY DEF StoreRow, ConnectionsInv, ConnectionsTypeOK
<1>2. \A d \in Connection : /\ Configured(d) <=> Configured(d)'
                            /\ Configured(d) => connections'[d].secret = connections[d].secret
  <2>1. row # NoConnection
    BY DEF ConnectionRow, NoConnection
  <2> QED
    BY <1>1, <2>1 DEF Configured
<1>3. \A d \in Connection : Configured(d) /\ Assured(d) => Assured(d)'
  BY <1>2 DEF Assured
<1>4. HeldRowsExist'
  <2> SUFFICES ASSUME NEW h \in Hand
               PROVE  /\ hands'[h].task \in {"ACTIVATE", "CALLBACK", "SYNC"} =>
                            Configured(hands[h].at)'
                      /\ hands'[h].task = "HEALTH" =>
                           \A d \in Connection :
                              hands'[h].rows[d] \in {"ACTIVE", "OTHER"} => Configured(d)'
    BY DEF HeldRowsExist
  <2>1. hands[h] \in ProviderRequest /\ Answered(h)
    BY DEF ConnectionsInv, ConnectionsTypeOK
  <2> QED
    BY <1>2, <2>1 DEF Answered, AtRest, HeldRowsExist, ConnectionsInv, ProviderRequest
<1>5. ASSUME NEW h \in Hand, NEW d \in Connection, Vouches(h, d)' PROVE Vouches(h, d)
  BY <1>5 DEF Answered, Vouches, AtRest
<1>6. ASSUME NEW d \in Cloud, Configured(d)'
      PROVE  (/\ connections[d].status \in {"ACTIVE", "DEGRADED"} => Assured(d)
              /\ connections[d].webhookState = "VERIFIED" => Assured(d)
              /\ \A h \in Hand : Vouches(h, d) => Assured(d))'
  BY <1>1, <1>2, <1>3, <1>5, <1>6, ConnectionsAssumption DEF ConnectionsInv
<1> QED
  BY <1>4, <1>6 DEF ConnectionsInv

(* The same of an answer that writes no row. *)
LEMMA SilenceKeeps ==
    ASSUME ConnectionsInv, UNCHANGED <<connections, confirmed, crossed>>,
           ConnectionsTypeOK', \A h \in Hand : Answered(h)
    PROVE  ConnectionsInv'
<1>1. \A d \in Connection : /\ Configured(d) <=> Configured(d)'
                            /\ Assured(d) <=> Assured(d)'
  BY DEF Configured, Assured
<1>2. HeldRowsExist'
  <2> SUFFICES ASSUME NEW h \in Hand
               PROVE  /\ hands'[h].task \in {"ACTIVATE", "CALLBACK", "SYNC"} =>
                            Configured(hands[h].at)'
                      /\ hands'[h].task = "HEALTH" =>
                           \A d \in Connection :
                              hands'[h].rows[d] \in {"ACTIVE", "OTHER"} => Configured(d)'
    BY DEF HeldRowsExist
  <2>1. hands[h] \in ProviderRequest /\ Answered(h)
    BY DEF ConnectionsInv, ConnectionsTypeOK
  <2> QED
    BY <1>1, <2>1 DEF Answered, AtRest, HeldRowsExist, ConnectionsInv, ProviderRequest
<1>3. ASSUME NEW h \in Hand, NEW d \in Connection, Vouches(h, d)' PROVE Vouches(h, d)
  BY <1>3 DEF Answered, Vouches, AtRest
<1> QED
  BY <1>1, <1>2, <1>3, ConnectionsAssumption DEF ConnectionsInv

(* A request begins: the rows it works on exist, and those it vouches for    *)
(* are assured.                                                              *)
LEMMA RequestKeeps ==
    ASSUME ConnectionsInv, NEW h \in Hand, NEW r \in ProviderRequest,
           hands' = [hands EXCEPT ![h] = r],
           UNCHANGED <<connections, templates, retired, crossed>>,
           ConnectionsTypeOK', \A d \in Connection : confirmed[d] \subseteq confirmed'[d],
           r.task \in {"ACTIVATE", "CALLBACK", "SYNC"} => Configured(r.at),
           r.task = "HEALTH" =>
             \A d \in Connection : r.rows[d] \in {"ACTIVE", "OTHER"} => Configured(d),
           \A d \in Cloud : Vouches(h, d)' /\ Configured(d) => Assured(d)'
    PROVE  ConnectionsInv'
<1>1. hands'[h] = r /\ \A k \in Hand \ {h} : hands'[k] = hands[k]
  BY DEF ConnectionsInv, ConnectionsTypeOK
<1>2. \A d \in Connection : /\ Configured(d) <=> Configured(d)'
                            /\ Assured(d) => Assured(d)'
  BY DEF Configured, Assured
<1>3. HeldRowsExist'
  <2> SUFFICES ASSUME NEW k \in Hand
               PROVE  /\ hands'[k].task \in {"ACTIVATE", "CALLBACK", "SYNC"} =>
                            Configured(hands[k].at)'
                      /\ hands'[k].task = "HEALTH" =>
                           \A d \in Connection :
                              hands'[k].rows[d] \in {"ACTIVE", "OTHER"} => Configured(d)'
    BY DEF HeldRowsExist
  <2>1. hands[k] \in ProviderRequest
    BY DEF ConnectionsInv, ConnectionsTypeOK
  <2> QED
    BY <1>1, <1>2, <2>1 DEF AtRest, HeldRowsExist, ConnectionsInv, ProviderRequest
<1>4. \A k \in Hand \ {h}, d \in Connection : Vouches(k, d)' => Vouches(k, d)
  BY <1>1 DEF Vouches
<1> QED
  BY <1>2, <1>3, <1>4, ConnectionsAssumption DEF ConnectionsInv

(* The types, action by action: what is written is a row or a request.       *)
LEMMA RowsTyped ==
    ASSUME ConnectionsTypeOK, NEW c \in Connection, Configured(c)
    PROVE  /\ connections[c] \in ConnectionRow
           /\ [connections[c] EXCEPT !.status = "ACTIVE"] \in ConnectionRow
           /\ [connections[c] EXCEPT !.status = "DEGRADED"] \in ConnectionRow
           /\ [connections[c] EXCEPT !.webhookState = "VERIFIED"] \in ConnectionRow
<1>1. connections[c] \in ConnectionRow
  BY DEF ConnectionsTypeOK, Configured
<1> QED
  BY <1>1 DEF ConnectionRow

LEMMA ConfigureInv ==
    ASSUME ConnectionsInv, NEW c \in Connection,
           configureWhatsAppCloud(c) \/ \E enabled \in BOOLEAN : configureDevelopment(c, enabled)
    PROVE  ConnectionsInv'
<1>1. CASE configureWhatsAppCloud(c)
  <2> DEFINE row == [status |-> "PENDING_APPROVAL", webhookState |-> "NOT_VERIFIED",
                     secret |-> IF Configured(c) THEN connections[c].secret + 1 ELSE 1]
  <2>1. row.secret \in 0 .. MaxSecret
    <3>1. CASE Configured(c)
      <4>1. connections[c].secret \in 0 .. MaxSecret /\ connections[c].secret < MaxSecret
        BY <1>1, <3>1, RowsTyped DEF ConnectionsInv, ConnectionRow, configureWhatsAppCloud
      <4> QED
        BY <3>1, <4>1, ConnectionsAssumption
    <3>2. CASE ~Configured(c)
      BY <3>2, ConnectionsAssumption
    <3> QED
      BY <3>1, <3>2
  <2>2. row \in ConnectionRow
    BY <2>1 DEF ConnectionRow
  <2>3. StoreRow(c, row) /\ Replaced(c) /\ UNCHANGED <<templates, retired, hands, confirmed>>
    BY <1>1 DEF configureWhatsAppCloud
  <2>4. row.status = "PENDING_APPROVAL" /\ row.webhookState = "NOT_VERIFIED"
    OBVIOUS
  <2> HIDE DEF row
  <2> QED
    BY <2>2, <2>3, <2>4, ConfigurationKeeps
<1>2. ASSUME NEW enabled \in BOOLEAN, configureDevelopment(c, enabled) PROVE ConnectionsInv'
  <2> DEFINE row == [status |-> IF enabled THEN "ACTIVE" ELSE "DISABLED",
                     webhookState |-> IF enabled THEN "VERIFIED" ELSE "NOT_VERIFIED",
                     secret |-> 0]
  <2>1. row \in ConnectionRow
    BY ConnectionsAssumption DEF ConnectionRow
  <2>2. StoreRow(c, row) /\ Replaced(c) /\ UNCHANGED <<templates, retired, hands, confirmed>>
        /\ c \notin Cloud
    BY <1>2 DEF configureDevelopment
  <2> HIDE DEF row
  <2> QED
    BY <2>1, <2>2, ConfigurationKeeps
<1> QED
  BY <1>1, <1>2

LEMMA AnswersInv ==
    ASSUME ConnectionsInv, NEW h \in Hand,
           \/ Activated(h)
           \/ Verified(h)
           \/ GivesUp(h)
           \/ \E listed \in SUBSET Template, s \in {"APPROVED", "PAUSED"} :
                Synchronised(h, listed, s)
    PROVE  ConnectionsInv'
<1>1. hands[h] \in ProviderRequest /\ ConnectionsTypeOK
  BY DEF ConnectionsInv, ConnectionsTypeOK
<1>2. hands' = [hands EXCEPT ![h] = AtRest]
  BY DEF Activated, Verified, GivesUp, Synchronised, Finish
<1>3. hands' \in [Hand -> ProviderRequest] /\ \A k \in Hand : Answered(k)
  BY <1>1, <1>2 DEF ConnectionsTypeOK, ProviderRequest, Answered
<1>4. CASE Activated(h)
  <2> DEFINE c == hands[h].at
             row == [connections[c] EXCEPT !.status = "ACTIVE"]
  <2>1. c \in Connection /\ Configured(c) /\ Vouches(h, c)
    BY <1>1, <1>4 DEF Activated, ProviderRequest, AtRest, ConnectionsInv, HeldRowsExist, Vouches
  <2>2. row \in ConnectionRow /\ row.secret = connections[c].secret
    BY <1>1, <2>1, RowsTyped DEF ConnectionRow
  <2>3. StoreRow(c, row) /\ UNCHANGED <<templates, retired, confirmed, crossed>>
    BY <1>4 DEF Activated
  <2>4. c \in Cloud => Assured(c)
    BY <2>1 DEF ConnectionsInv
  <2>5. ConnectionsTypeOK'
    BY <1>1, <1>3, <2>1, <2>2, <2>3 DEF ConnectionsTypeOK, StoreRow
  <2> HIDE DEF c, row
  <2> QED
    BY <1>3, <2>1, <2>2, <2>3, <2>4, <2>5, AnswerKeeps
<1>5. CASE Verified(h)
  <2> DEFINE c == hands[h].at
             row == [connections[c] EXCEPT !.webhookState = "VERIFIED"]
  <2>1. c \in Connection /\ Configured(c) /\ Vouches(h, c)
    BY <1>1, <1>5 DEF Verified, ProviderRequest, AtRest, ConnectionsInv, HeldRowsExist, Vouches
  <2>2. row \in ConnectionRow /\ row.secret = connections[c].secret
    BY <1>1, <2>1, RowsTyped DEF ConnectionRow
  <2>3. StoreRow(c, row) /\ UNCHANGED <<templates, retired, confirmed, crossed>>
    BY <1>5 DEF Verified
  <2>4. c \in Cloud => Assured(c)
    BY <2>1 DEF ConnectionsInv
  <2>5. ConnectionsTypeOK'
    BY <1>1, <1>3, <2>1, <2>2, <2>3 DEF ConnectionsTypeOK, StoreRow
  <2> HIDE DEF c, row
  <2> QED
    BY <1>3, <2>1, <2>2, <2>3, <2>4, <2>5, AnswerKeeps
<1>6. CASE GivesUp(h)
  BY <1>1, <1>3, <1>6, SilenceKeeps DEF GivesUp, ConnectionsTypeOK
<1>7. ASSUME NEW listed \in SUBSET Template, NEW s \in {"APPROVED", "PAUSED"},
             Synchronised(h, listed, s)
      PROVE  ConnectionsInv'
  <2>1. hands[h].at \in Connection
    BY <1>1, <1>7 DEF Synchronised, ProviderRequest, AtRest
  <2>2. templates' \in [Connection -> [Template -> TemplateStatus \cup {"NONE"}]]
    BY <1>1, <1>7, <2>1 DEF Synchronised, ConnectionsTypeOK, TemplateStatus
  <2>3. ConnectionsTypeOK'
    BY <1>1, <1>3, <1>7, <2>2 DEF Synchronised, ConnectionsTypeOK
  <2> QED
    BY <1>3, <1>7, <2>3, SilenceKeeps DEF Synchronised
<1> QED
  BY <1>4, <1>5, <1>6, <1>7

LEMMA HealthCheckInv ==
    ASSUME ConnectionsInv, NEW h \in Hand, NEW c \in Connection, NEW healthy \in BOOLEAN,
           healthCheck(h, c, healthy)
    PROVE  ConnectionsInv'
<1> DEFINE left == [hands[h].rows EXCEPT ![c] = "DONE"]
           row == [connections[c] EXCEPT !.status = "DEGRADED"]
<1>1. hands[h] \in ProviderRequest /\ ConnectionsTypeOK
  BY DEF ConnectionsInv, ConnectionsTypeOK
<1>2. hands[h].task = "HEALTH" /\ hands[h].rows[c] \in {"ACTIVE", "OTHER"}
      /\ UNCHANGED <<templates, retired, confirmed, crossed>>
  BY DEF healthCheck
<1>3. hands[h] \in [task : {"HEALTH"},
                    rows : [Connection -> {"ACTIVE", "OTHER", "UNREADABLE", "DONE"}]]
  BY <1>1, <1>2 DEF ProviderRequest, AtRest
<1>4. /\ left \in [Connection -> {"ACTIVE", "OTHER", "UNREADABLE", "DONE"}]
      /\ \A d \in Connection : left[d] \in {hands[h].rows[d], "DONE"}
  BY <1>3
<1>5. hands' = [hands EXCEPT ![h] = AtRest] \/ hands' = [hands EXCEPT ![h].rows = left]
  BY DEF healthCheck, Finish
<1> HIDE DEF left
<1>6. hands' \in [Hand -> ProviderRequest] /\ \A k \in Hand : Answered(k)
  <2>1. CASE hands' = [hands EXCEPT ![h] = AtRest]
    BY <1>1, <2>1 DEF ConnectionsTypeOK, ProviderRequest, Answered
  <2>2. CASE hands' = [hands EXCEPT ![h].rows = left]
    <3>1. [hands[h] EXCEPT !.rows = left] \in ProviderRequest
      BY <1>3, <1>4 DEF ProviderRequest
    <3>2. [hands[h] EXCEPT !.rows = left].rows = left
          /\ [hands[h] EXCEPT !.rows = left].task = "HEALTH"
      BY <1>3
    <3> QED
      BY <1>1, <1>2, <1>4, <2>2, <3>1, <3>2 DEF ConnectionsTypeOK, Answered
  <2> QED
    BY <1>5, <2>1, <2>2
<1>7. CASE hands[h].rows[c] = "ACTIVE" /\ ~healthy
  <2>1. Configured(c) /\ Vouches(h, c)
    BY <1>2, <1>7 DEF ConnectionsInv, HeldRowsExist, Vouches
  <2>2. row \in ConnectionRow /\ row.secret = connections[c].secret
    BY <1>1, <2>1, RowsTyped DEF ConnectionRow
  <2>3. StoreRow(c, row)
    BY <1>7 DEF healthCheck
  <2>4. c \in Cloud => Assured(c)
    BY <2>1 DEF ConnectionsInv
  <2>5. ConnectionsTypeOK'
    BY <1>1, <1>2, <1>6, <2>2, <2>3 DEF ConnectionsTypeOK, StoreRow
  <2> HIDE DEF row
  <2> QED
    BY <1>2, <1>6, <2>1, <2>2, <2>3, <2>4, <2>5, AnswerKeeps
<1>8. CASE ~(hands[h].rows[c] = "ACTIVE" /\ ~healthy)
  <2>1. UNCHANGED connections
    BY <1>8 DEF healthCheck
  <2>2. ConnectionsTypeOK'
    BY <1>1, <1>2, <1>6, <2>1 DEF ConnectionsTypeOK
  <2> QED
    BY <1>2, <1>6, <2>1, <2>2, SilenceKeeps
<1> QED
  BY <1>7, <1>8

LEMMA RequestsInv ==
    ASSUME ConnectionsInv, NEW h \in Hand,
           \/ health(h)
           \/ \E c \in Connection : \/ activateConnection(h, c) \/ syncTemplates(h, c)
                                    \/ \E s \in 0 .. MaxSecret : Callback(h, c, s)
    PROVE  ConnectionsInv'
<1>1. ConnectionsTypeOK
  BY DEF ConnectionsInv
<1>2. CASE health(h)
  <2> DEFINE r == [task |-> "HEALTH", rows |-> [c \in Connection |-> Seen(c)]]
  <2>1. r \in ProviderRequest
    BY DEF ProviderRequest, Seen
  <2>2. r.task = "HEALTH" /\ \A d \in Connection : r.rows[d] = Seen(d)
    OBVIOUS
  <2>3. hands' = [hands EXCEPT ![h] = r]
        /\ UNCHANGED <<connections, templates, retired, confirmed, crossed>>
    BY <1>2 DEF health
  <2> HIDE DEF r
  <2>4. ConnectionsTypeOK'
    BY <1>1, <2>1, <2>3 DEF ConnectionsTypeOK
  <2>5. \A d \in Connection : r.rows[d] \in {"ACTIVE", "OTHER"} => Configured(d)
    BY <2>2 DEF Seen
  <2>6. ASSUME NEW d \in Cloud, Vouches(h, d)', Configured(d) PROVE Assured(d)'
    <3>1. hands'[h] = r
      BY <1>1, <2>3 DEF ConnectionsTypeOK
    <3>2. connections[d].status = "ACTIVE"
      BY <2>2, <2>6, <3>1, ConnectionsAssumption DEF Vouches, Seen
    <3> QED
      BY <2>3, <2>6, <3>2 DEF ConnectionsInv, Assured
  <2> QED
    BY <2>1, <2>2, <2>3, <2>4, <2>5, <2>6, RequestKeeps
<1>3. ASSUME NEW c \in Connection, activateConnection(h, c) \/ syncTemplates(h, c)
      PROVE  ConnectionsInv'
  <2>1. PICK task \in {"ACTIVATE", "SYNC"} :
          /\ Begin(h, c, task)
          /\ task = "ACTIVATE" => CallbackVerified(c)
    BY <1>3 DEF activateConnection, syncTemplates
  <2> DEFINE r == [task |-> task, at |-> c]
  <2>2. r \in ProviderRequest /\ r.task = task /\ r.at = c
    BY DEF ProviderRequest
  <2>3. hands' = [hands EXCEPT ![h] = r] /\ Configured(c)
        /\ UNCHANGED <<connections, templates, retired, confirmed, crossed>>
    BY <1>3, <2>1 DEF Begin, activateConnection, syncTemplates
  <2> HIDE DEF r
  <2>4. ConnectionsTypeOK'
    BY <1>1, <2>2, <2>3 DEF ConnectionsTypeOK
  <2>5. ASSUME NEW d \in Cloud, Vouches(h, d)', Configured(d) PROVE Assured(d)'
    <3>1. hands'[h] = r
      BY <1>1, <2>3 DEF ConnectionsTypeOK
    <3>2. d = c /\ connections[c].webhookState = "VERIFIED"
      BY <2>1, <2>2, <2>5, <3>1 DEF Vouches, CallbackVerified
    <3> QED
      BY <2>3, <2>5, <3>2 DEF ConnectionsInv, Assured
  <2> QED
    BY <2>2, <2>3, <2>4, <2>5, RequestKeeps
<1>4. ASSUME NEW c \in Connection, NEW s \in 0 .. MaxSecret, Callback(h, c, s)
      PROVE  ConnectionsInv'
  <2> DEFINE r == [task |-> "CALLBACK", at |-> c]
  <2>1. r \in ProviderRequest /\ r.task = "CALLBACK" /\ r.at = c
    BY DEF ProviderRequest
  <2>2. hands' = [hands EXCEPT ![h] = r] /\ Configured(c) /\ connections[c].secret = s
        /\ confirmed' = [confirmed EXCEPT ![c] = @ \cup {s}]
        /\ UNCHANGED <<connections, templates, retired, crossed>>
    BY <1>4 DEF Begin, Callback
  <2> HIDE DEF r
  <2>3. ConnectionsTypeOK' /\ \A d \in Connection : confirmed[d] \subseteq confirmed'[d]
    BY <1>1, <2>1, <2>2 DEF ConnectionsTypeOK
  <2>4. ASSUME NEW d \in Cloud, Vouches(h, d)', Configured(d) PROVE Assured(d)'
    <3>1. hands'[h] = r /\ confirmed'[c] = confirmed[c] \cup {s}
      BY <1>1, <2>2 DEF ConnectionsTypeOK
    <3> QED
      BY <2>1, <2>2, <2>4, <3>1 DEF Vouches, Assured
  <2> QED
    BY <2>1, <2>2, <2>3, <2>4, RequestKeeps
<1> QED
  BY <1>2, <1>3, <1>4

LEMMA ConnectionsStep == ASSUME ConnectionsInv, [ConnectionsNext]_connectionVars PROVE ConnectionsInv'
<1>1. ASSUME NEW s \in 1 .. MaxSecret, RetireKey(s) PROVE ConnectionsInv'
  BY <1>1, SilenceKeeps DEF RetireKey, ConnectionsInv, ConnectionsTypeOK, Answered
<1>2. CASE UNCHANGED connectionVars
  BY <1>2, SilenceKeeps DEF connectionVars, ConnectionsInv, ConnectionsTypeOK, Answered
<1> QED
  BY <1>1, <1>2, ConfigureInv, AnswersInv, HealthCheckInv, RequestsInv DEF ConnectionsNext

(* The rows, requests and templates keep their types. *)
THEOREM ConnectionsTyped == ConnectionsSpec => []ConnectionsTypeOK
<1>1. ConnectionsInv => ConnectionsTypeOK
  BY DEF ConnectionsInv
<1> QED
  BY <1>1, ConnectionsStart, ConnectionsStep, PTL DEF ConnectionsSpec

(* A cloud connection in use has been called back with the credentials it    *)
(* has now, unless it was configured anew under a request.                   *)
THEOREM ConnectionsAreConfirmed == ConnectionsSpec => []UsedWhenConfirmed
<1>1. ConnectionsInv => UsedWhenConfirmed
  <2> SUFFICES ASSUME ConnectionsInv, NEW c \in Cloud,
                      connections[c].status \in {"ACTIVE", "DEGRADED"}
               PROVE  Assured(c)
    BY DEF UsedWhenConfirmed, Assured
  <2>1. Configured(c)
    BY DEF Configured, NoConnection
  <2> QED
    BY <2>1 DEF ConnectionsInv
<1> QED
  BY <1>1, ConnectionsStart, ConnectionsStep, PTL DEF ConnectionsSpec

-----------------------------------------------------------------------------
(* Permits.  A lease that runs belongs to a send that will give it back, or  *)
(* is one Redis was left with; and no map holds more leases than the limit.  *)
Accounted(b, s) ==
    /\ sends[s].distributed \subseteq sends[s].permits
    /\ sends[s].at \in {"NEW", "DONE"} => sends[s].permits = {}
    /\ shared[b][s] > 0 => b \in sends[s].distributed \/ <<b, s>> \in orphaned
    /\ own[b][s] > 0 => \/ b \in sends[s].permits
                        \/ sends[s].at = "ASKED" /\ sends[s].bucket = b

OwnWithin(b, p) ==
    Cardinality(Live(own[b], {s \in Send : ProcessOf[s] = p})) <= Limit[b]
SharedWithin(b) == Cardinality(Live(shared[b], Send)) <= Limit[b]

PermitsInv ==
    /\ PermitsTypeOK
    /\ \A b \in Bucket, s \in Send : Accounted(b, s)
    /\ \A b \in Bucket : SharedWithin(b) /\ \A p \in Process : OwnWithin(b, p)

LEMMA NobodyHolds ==
    ASSUME NEW S, IsFiniteSet(S), NEW T, T \subseteq S, NEW n \in Nat, Cardinality(S) <= n
    PROVE  Cardinality(T) <= n
BY FS_Subset, FS_CardinalityType

LEMMA PermitsStart == ASSUME PermitsInit PROVE PermitsInv
<1>1. PermitsTypeOK
  BY PermitsAssumption DEF PermitsInit, PermitsTypeOK, NewSend
<1>2. \A b \in Bucket, s \in Send : Accounted(b, s)
  BY DEF PermitsInit, Accounted, NewSend
<1>3. ASSUME NEW b \in Bucket, NEW S \in SUBSET Send
      PROVE  Live(shared[b], S) = {} /\ Live(own[b], S) = {}
  BY <1>3 DEF PermitsInit, Live
<1>4. ASSUME NEW b \in Bucket, NEW p \in Process PROVE SharedWithin(b) /\ OwnWithin(b, p)
  <2>1. {s \in Send : ProcessOf[s] = p} \in SUBSET Send
    OBVIOUS
  <2>2. Limit[b] \in Nat
    BY PermitsAssumption
  <2> QED
    BY <1>3, <2>1, <2>2, FS_EmptySet DEF SharedWithin, OwnWithin
<1>5. ASSUME NEW b \in Bucket PROVE SharedWithin(b)
  <2>1. Send \in SUBSET Send /\ Limit[b] \in Nat
    BY PermitsAssumption
  <2> QED
    BY <1>3, <2>1, FS_EmptySet DEF SharedWithin
<1> QED
  BY <1>1, <1>2, <1>4, <1>5 DEF PermitsInv

(* A lease granted to a member of a group that is not full leaves the group  *)
(* within the limit.                                                         *)
LEMMA GrantWithin ==
    ASSUME NEW b \in Bucket, NEW among \in SUBSET Send, NEW s \in among,
           NEW held \in [Send -> Nat], leaseTime \in Nat, ~Full(b, held, among)
    PROVE  Cardinality(Live(Granted(held, among, s), among)) <= Limit[b]
<1> DEFINE before == Live(held, among)
<1>1. IsFiniteSet(before) /\ Cardinality(before) < Limit[b]
  <2>1. before \subseteq Send /\ Limit[b] \in Nat
    BY PermitsAssumption DEF Live
  <2>2. IsFiniteSet(before)
    BY <2>1, PermitsAssumption, FS_Subset
  <2>3. Cardinality(before) \in Nat /\ ~(Cardinality(before) >= Limit[b])
    BY <2>2, FS_CardinalityType DEF Full
  <2> QED
    BY <2>1, <2>2, <2>3
<1>2. Live(Granted(held, among, s), among) \subseteq before \cup {s}
  <2> SUFFICES ASSUME NEW t \in among, Granted(held, among, s)[t] > leaseTime, t # s
               PROVE  held[t] > leaseTime
    BY DEF Live
  <2> QED
    BY DEF Granted
<1> HIDE DEF before
<1>3. IsFiniteSet(before \cup {s}) /\ Cardinality(before \cup {s}) <= Limit[b]
  <2>1. Cardinality(before) \in Nat /\ Limit[b] \in Nat
    BY <1>1, FS_CardinalityType, PermitsAssumption
  <2>2. /\ IsFiniteSet(before \cup {s})
        /\ Cardinality(before \cup {s}) \in {Cardinality(before), Cardinality(before) + 1}
    BY <1>1, FS_AddElement
  <2> QED
    BY <1>1, <2>1, <2>2
<1> QED
  BY <1>2, <1>3, NobodyHolds, PermitsAssumption

(* A map whose running leases were running before holds no more than it did. *)
LEMMA FewerWithin ==
    ASSUME NEW b \in Bucket, NEW S \in SUBSET Send, NEW T \in SUBSET S,
           Cardinality(S) <= Limit[b]
    PROVE  Cardinality(T) <= Limit[b]
<1>1. IsFiniteSet(S)
  BY PermitsAssumption, FS_Subset
<1> QED
  BY <1>1, NobodyHolds, PermitsAssumption

(* The first three parts of PermitsWithinLimit follow from the invariant.    *)
LEMMA InvWithinLimit == ASSUME PermitsInv PROVE PermitsWithinLimit
<1> DEFINE sending(b) == {s \in Send : sends[s].at = "SENDING" /\ b \in sends[s].permits}
<1> SUFFICES ASSUME NEW b \in Bucket
             PROVE  /\ Cardinality(Live(shared[b], {s \in sending(b) : b \in sends[s].distributed}))
                         <= Limit[b]
                    /\ \A p \in Process :
                         Cardinality(Live(own[b], {s \in sending(b) : ProcessOf[s] = p})) <= Limit[b]
                    /\ \A s \in Live(shared[b], Send) :
                         sends[s].at = "DONE" => <<b, s>> \in orphaned
                    /\ \A s \in Live(own[b], Send) : sends[s].at # "DONE"
  BY DEF PermitsWithinLimit
<1>1. Live(shared[b], {s \in sending(b) : b \in sends[s].distributed}) \in SUBSET Live(shared[b], Send)
  BY DEF Live
<1>2. Live(shared[b], Send) \in SUBSET Send /\ SharedWithin(b)
  BY DEF Live, PermitsInv
<1>3. ASSUME NEW p \in Process
      PROVE  Cardinality(Live(own[b], {s \in sending(b) : ProcessOf[s] = p})) <= Limit[b]
  <2>1. Live(own[b], {s \in sending(b) : ProcessOf[s] = p})
          \in SUBSET Live(own[b], {s \in Send : ProcessOf[s] = p})
    BY DEF Live
  <2>2. Live(own[b], {s \in Send : ProcessOf[s] = p}) \in SUBSET Send /\ OwnWithin(b, p)
    BY DEF Live, PermitsInv
  <2> QED
    BY <2>1, <2>2, FewerWithin DEF OwnWithin
<1>4. ASSUME NEW s \in Live(shared[b], Send), sends[s].at = "DONE"
      PROVE  <<b, s>> \in orphaned
  <2>1. s \in Send /\ shared[b][s] > 0
    BY DEF Live, PermitsInv, PermitsTypeOK
  <2> QED
    BY <1>4, <2>1 DEF PermitsInv, Accounted
<1>5. ASSUME NEW s \in Live(own[b], Send) PROVE sends[s].at # "DONE"
  <2>1. s \in Send /\ own[b][s] > 0
    BY DEF Live, PermitsInv, PermitsTypeOK
  <2> QED
    BY <2>1 DEF PermitsInv, Accounted
<1> QED
  BY <1>1, <1>2, <1>3, <1>4, <1>5, FewerWithin DEF SharedWithin

LEMMA SharedShrinks ==
    ASSUME PermitsInv, NEW b \in Bucket,
           \A s \in Send : shared'[b][s] > leaseTime' => shared[b][s] > leaseTime
    PROVE  SharedWithin(b)'
<1>1. Live(shared[b], Send)' \in SUBSET Live(shared[b], Send)
  BY DEF Live
<1>2. Live(shared[b], Send) \in SUBSET Send /\ SharedWithin(b)
  BY DEF Live, PermitsInv
<1> QED
  BY <1>1, <1>2, FewerWithin DEF SharedWithin

LEMMA OwnShrinks ==
    ASSUME PermitsInv, NEW b \in Bucket, NEW p \in Process,
           \A s \in Send : ProcessOf[s] = p =>
              (own'[b][s] > leaseTime' => own[b][s] > leaseTime)
    PROVE  OwnWithin(b, p)'
<1> DEFINE S == {s \in Send : ProcessOf[s] = p}
<1>1. Live(own[b], S)' \in SUBSET Live(own[b], S)
  BY DEF Live
<1>2. Live(own[b], S) \in SUBSET Send /\ OwnWithin(b, p)
  BY DEF Live, PermitsInv
<1> QED
  BY <1>1, <1>2, FewerWithin DEF OwnWithin

(* A grant by Redis, and a grant by the process of the send.                 *)
LEMMA SharedGrows ==
    ASSUME PermitsInv, NEW b \in Bucket, NEW s \in Send, ~Full(b, shared[b], Send),
           shared' = [shared EXCEPT ![b] = Granted(@, Send, s)], UNCHANGED leaseTime
    PROVE  \A d \in Bucket : SharedWithin(d)'
<1>1. shared[b] \in [Send -> Nat] /\ leaseTime \in Nat
  BY PermitsAssumption DEF PermitsInv, PermitsTypeOK
<1>2. shared'[b] = Granted(shared[b], Send, s)
      /\ \A d \in Bucket \ {b} : shared'[d] = shared[d]
  BY DEF PermitsInv, PermitsTypeOK
<1>3. Send \in SUBSET Send
  OBVIOUS
<1>4. Cardinality(Live(Granted(shared[b], Send, s), Send)) <= Limit[b]
  BY <1>1, <1>3, GrantWithin
<1>5. Live(shared[b], Send)' = Live(Granted(shared[b], Send, s), Send)
  BY <1>2 DEF Live
<1>6. SharedWithin(b)'
  BY <1>4, <1>5 DEF SharedWithin
<1>7. \A d \in Bucket \ {b} : SharedWithin(d)'
  BY <1>2, SharedShrinks
<1> QED
  BY <1>6, <1>7

LEMMA OwnGrows ==
    ASSUME PermitsInv, NEW b \in Bucket, NEW s \in Send, ~Full(b, own[b], Colleagues(s)),
           own' = [own EXCEPT ![b] = Granted(@, Colleagues(s), s)], UNCHANGED leaseTime
    PROVE  \A d \in Bucket, p \in Process : OwnWithin(d, p)'
<1>1. own[b] \in [Send -> Nat] /\ leaseTime \in Nat
  BY PermitsAssumption DEF PermitsInv, PermitsTypeOK
<1>2. own'[b] = Granted(own[b], Colleagues(s), s)
      /\ \A d \in Bucket \ {b} : own'[d] = own[d]
  BY DEF PermitsInv, PermitsTypeOK
<1>3. Colleagues(s) \in SUBSET Send /\ s \in Colleagues(s)
      /\ Colleagues(s) = {t \in Send : ProcessOf[t] = ProcessOf[s]}
  BY DEF Colleagues
<1>4. Cardinality(Live(Granted(own[b], Colleagues(s), s), Colleagues(s))) <= Limit[b]
  BY <1>1, <1>3, GrantWithin
<1>5. Live(own[b], Colleagues(s))' = Live(Granted(own[b], Colleagues(s), s), Colleagues(s))
  BY <1>2 DEF Live, Colleagues
<1>6. OwnWithin(b, ProcessOf[s])'
  BY <1>3, <1>4, <1>5 DEF OwnWithin, Colleagues
<1>7. ASSUME NEW p \in Process, p # ProcessOf[s] PROVE OwnWithin(b, p)'
  <2>1. ASSUME NEW t \in Send, ProcessOf[t] = p PROVE own'[b][t] = own[b][t]
    BY <1>2, <1>7, <2>1 DEF Granted, Colleagues
  <2> QED
    BY <2>1, OwnShrinks
<1>8. \A d \in Bucket \ {b}, p \in Process : OwnWithin(d, p)'
  BY <1>2, OwnShrinks
<1> QED
  BY <1>6, <1>7, <1>8

SendRow == [at : {"NEW", "ASKED", "NEXT", "SENDING", "RELEASING", "DONE"},
            bucket : Bucket, permits : SUBSET Bucket, distributed : SUBSET Bucket]

LEMMA SendTyped ==
    ASSUME PermitsTypeOK, NEW s \in Send, NEW row \in SendRow, sends' = [sends EXCEPT ![s] = row],
           own' \in [Bucket -> [Send -> 0 .. LeaseEnd + Lease]],
           shared' \in [Bucket -> [Send -> 0 .. LeaseEnd + Lease]],
           orphaned' \in SUBSET (Bucket \X Send), UNCHANGED leaseTime
    PROVE  /\ PermitsTypeOK'
           /\ sends'[s] = row
           /\ \A t \in Send \ {s} : sends'[t] = sends[t]
BY DEF PermitsTypeOK, SendRow

(* A permit is asked for: of the process, and on its way to Redis.           *)
LEMMA AcquireLocalInv ==
    ASSUME PermitsInv, NEW s \in Send, NEW b \in Bucket, acquireLocal(s, b),
           sends[s].at \in {"NEW", "NEXT"}, UNCHANGED <<leaseTime, shared, orphaned>>
    PROVE  PermitsInv'
<1>1. \A d \in Bucket : SharedWithin(d)'
  BY SharedShrinks
<1>2. /\ own \in [Bucket -> [Send -> 0 .. LeaseEnd + Lease]]
      /\ leaseTime \in Nat /\ leaseTime <= LeaseEnd /\ Lease \in Nat \ {0} /\ LeaseEnd \in Nat
      /\ PermitsTypeOK
  BY PermitsAssumption DEF PermitsInv, PermitsTypeOK
<1>3. CASE Full(b, own[b], Colleagues(s))
  <2>1. own' = [own EXCEPT ![b] = [t \in Send |->
                        IF t \in Colleagues(s) /\ @[t] <= leaseTime THEN 0 ELSE @[t]]]
        /\ sends' = [sends EXCEPT ![s].at = "RELEASING"]
    BY <1>3 DEF acquireLocal
  <2>2. own' \in [Bucket -> [Send -> 0 .. LeaseEnd + Lease]]
    BY <1>2, <2>1
  <2>3. \A d \in Bucket, t \in Send : own'[d][t] \in {own[d][t], 0}
    BY <1>2, <2>1
  <2>4. \A d \in Bucket, p \in Process : OwnWithin(d, p)'
    BY <1>2, <2>3, OwnShrinks
  <2> DEFINE row == [sends[s] EXCEPT !.at = "RELEASING"]
  <2>5. /\ PermitsTypeOK' /\ sends'[s] = row
        /\ \A t \in Send \ {s} : sends'[t] = sends[t]
    <3>1. row \in SendRow /\ sends' = [sends EXCEPT ![s] = row]
      BY <1>2, <2>1 DEF PermitsTypeOK, SendRow
    <3> HIDE DEF row
    <3> QED
      BY <1>2, <2>2, <3>1, SendTyped DEF PermitsTypeOK
  <2>6. ASSUME NEW d \in Bucket, NEW t \in Send PROVE Accounted(d, t)'
    <3>1. Accounted(d, t)
      BY DEF PermitsInv
    <3>2. /\ sends'[t].permits = sends[t].permits
          /\ sends'[t].distributed = sends[t].distributed
          /\ sends'[t].bucket = sends[t].bucket
          /\ sends'[t].at = sends[t].at \/ (t = s /\ sends'[t].at = "RELEASING")
      BY <1>2, <2>5 DEF PermitsTypeOK
    <3> QED
      BY <1>2, <2>3, <3>1, <3>2 DEF Accounted
  <2> QED
    BY <1>1, <2>4, <2>5, <2>6 DEF PermitsInv
<1>4. CASE ~Full(b, own[b], Colleagues(s))
  <2>1. own' = [own EXCEPT ![b] = Granted(@, Colleagues(s), s)]
        /\ sends' = [sends EXCEPT ![s].at = "ASKED", ![s].bucket = b]
    BY <1>4 DEF acquireLocal
  <2>2. \A d \in Bucket, t \in Send :
          IF d = b /\ t = s THEN own'[d][t] = leaseTime + Lease
          ELSE own'[d][t] \in {own[d][t], 0}
    BY <1>2, <2>1 DEF Granted
  <2>3. own' \in [Bucket -> [Send -> 0 .. LeaseEnd + Lease]]
    <3>1. own' = [d \in Bucket |-> [t \in Send |-> own'[d][t]]]
      BY <1>2, <2>1 DEF Granted
    <3>2. \A d \in Bucket, t \in Send : own'[d][t] \in 0 .. LeaseEnd + Lease
      BY <1>2, <2>2
    <3> QED
      BY <3>1, <3>2
  <2>4. \A d \in Bucket, p \in Process : OwnWithin(d, p)'
    BY <1>4, <2>1, OwnGrows
  <2> DEFINE row == [sends[s] EXCEPT !.at = "ASKED", !.bucket = b]
  <2>5. /\ PermitsTypeOK' /\ sends'[s] = row
        /\ \A t \in Send \ {s} : sends'[t] = sends[t]
    <3>1. row \in SendRow /\ sends' = [sends EXCEPT ![s] = row]
      BY <1>2, <2>1 DEF PermitsTypeOK, SendRow
    <3> HIDE DEF row
    <3> QED
      BY <1>2, <2>3, <3>1, SendTyped DEF PermitsTypeOK
  <2>6. ASSUME NEW d \in Bucket, NEW t \in Send PROVE Accounted(d, t)'
    <3>1. Accounted(d, t)
      BY DEF PermitsInv
    <3>2. /\ sends'[t].permits = sends[t].permits
          /\ sends'[t].distributed = sends[t].distributed
          /\ t # s => sends'[t].bucket = sends[t].bucket /\ sends'[t].at = sends[t].at
          /\ t = s => sends'[t].bucket = b /\ sends'[t].at = "ASKED"
      BY <1>2, <2>5 DEF PermitsTypeOK
    <3>3. own'[d][t] > 0 => (d = b /\ t = s) \/ own[d][t] > 0
      BY <1>2, <2>2
    <3> QED
      BY <1>2, <3>1, <3>2, <3>3 DEF Accounted
  <2> QED
    BY <1>1, <2>4, <2>5, <2>6 DEF PermitsInv
<1> QED
  BY <1>3, <1>4

(* The row of a send that was asked for: its permit, known to Redis or not.  *)
AcquiredRow(s, known) ==
    [at |-> IF sends[s].bucket = "provider" THEN "NEXT" ELSE "SENDING",
     bucket |-> sends[s].bucket,
     permits |-> sends[s].permits \cup {sends[s].bucket},
     distributed |-> IF known THEN sends[s].distributed \cup {sends[s].bucket}
                     ELSE sends[s].distributed]

(* Redis answers, or does not.                                               *)
LEMMA AcquireInv ==
    ASSUME PermitsInv, NEW s \in Send, sends[s].at = "ASKED", UNCHANGED <<leaseTime, own>>,
           NEW known \in BOOLEAN, Acquired(s, known),
           \/ UNCHANGED shared
           \/ /\ ~Full(sends[s].bucket, shared[sends[s].bucket], Send)
              /\ shared' = [shared EXCEPT ![sends[s].bucket] = Granted(@, Send, s)]
              /\ known \/ <<sends[s].bucket, s>> \in orphaned',
           orphaned' \in SUBSET (Bucket \X Send), orphaned \subseteq orphaned'
    PROVE  PermitsInv'
<1> DEFINE b == sends[s].bucket
           row == AcquiredRow(s, known)
<1>1. /\ PermitsTypeOK
      /\ shared \in [Bucket -> [Send -> 0 .. LeaseEnd + Lease]]
      /\ leaseTime \in Nat /\ leaseTime <= LeaseEnd /\ Lease \in Nat \ {0} /\ LeaseEnd \in Nat
      /\ b \in Bucket
  BY PermitsAssumption DEF PermitsInv, PermitsTypeOK
<1>2. \A d \in Bucket, t \in Send :
        \/ shared'[d][t] \in {shared[d][t], 0}
        \/ d = b /\ t = s /\ shared'[d][t] = leaseTime + Lease
                 /\ (known \/ <<b, s>> \in orphaned')
  BY <1>1 DEF Granted
<1>3. shared' \in [Bucket -> [Send -> 0 .. LeaseEnd + Lease]]
  <2>1. shared' = [d \in Bucket |-> [t \in Send |-> shared'[d][t]]]
    BY <1>1 DEF Granted
  <2>2. \A d \in Bucket, t \in Send : shared'[d][t] \in 0 .. LeaseEnd + Lease
    BY <1>1, <1>2
  <2> QED
    BY <2>1, <2>2
<1>4. /\ PermitsTypeOK' /\ sends'[s] = row
      /\ \A t \in Send \ {s} : sends'[t] = sends[t]
  <2>1. row \in SendRow /\ sends' = [sends EXCEPT ![s] = row]
    BY <1>1 DEF PermitsTypeOK, SendRow, Acquired, AcquiredRow
  <2> HIDE DEF row
  <2> QED
    BY <1>1, <1>3, <2>1, SendTyped DEF PermitsTypeOK
<1>5. \A d \in Bucket : SharedWithin(d)'
  <2>1. CASE UNCHANGED shared
    BY <2>1, SharedShrinks
  <2>2. CASE ~Full(b, shared[b], Send) /\ shared' = [shared EXCEPT ![b] = Granted(@, Send, s)]
    BY <1>1, <2>2, SharedGrows
  <2> QED
    BY <2>1, <2>2
<1>6. \A d \in Bucket, p \in Process : OwnWithin(d, p)'
  BY OwnShrinks
<1>7. ASSUME NEW d \in Bucket, NEW t \in Send PROVE Accounted(d, t)'
  <2>1. Accounted(d, t)
    BY DEF PermitsInv
  <2>2. CASE t # s
    BY <1>1, <1>2, <1>4, <2>1, <2>2 DEF Accounted
  <2>3. CASE t = s
    <3>1. /\ row.permits = sends[s].permits \cup {b} /\ row.at \in {"NEXT", "SENDING"}
          /\ sends[s].distributed \subseteq row.distributed
          /\ row.distributed \subseteq sends[s].distributed \cup {b}
          /\ known => b \in row.distributed
      BY DEF AcquiredRow
    <3> HIDE DEF row
    <3>2. own'[d][s] > 0 => d \in row.permits
      BY <2>1, <2>3, <3>1 DEF Accounted
    <3>3. shared'[d][s] > 0 => d \in row.distributed \/ <<d, s>> \in orphaned'
      BY <1>1, <1>2, <2>1, <2>3, <3>1 DEF Accounted
    <3> QED
      BY <1>4, <2>1, <2>3, <3>1, <3>2, <3>3 DEF Accounted
  <2> QED
    BY <2>2, <2>3
<1> QED
  BY <1>4, <1>5, <1>6, <1>7 DEF PermitsInv

(* Redis has no permit left: the process takes its own back.                 *)
LEMMA RefusedInv ==
    ASSUME PermitsInv, NEW s \in Send, acquireConcurrency(s),
           Full(sends[s].bucket, shared[sends[s].bucket], Send)
    PROVE  PermitsInv'
<1> DEFINE b == sends[s].bucket
           row == [sends[s] EXCEPT !.at = "RELEASING"]
<1>1. /\ PermitsTypeOK /\ b \in Bucket
      /\ own \in [Bucket -> [Send -> 0 .. LeaseEnd + Lease]]
      /\ shared \in [Bucket -> [Send -> 0 .. LeaseEnd + Lease]]
      /\ leaseTime \in Nat /\ Lease \in Nat \ {0} /\ LeaseEnd \in Nat
  BY PermitsAssumption DEF PermitsInv, PermitsTypeOK
<1>2. /\ own' = [own EXCEPT ![b][s] = 0]
      /\ sends' = [sends EXCEPT ![s].at = "RELEASING"]
      /\ shared' = [shared EXCEPT ![b] = [t \in Send |-> IF @[t] <= leaseTime THEN 0 ELSE @[t]]]
      /\ UNCHANGED <<leaseTime, orphaned>> /\ sends[s].at = "ASKED"
  BY DEF acquireConcurrency
<1>3. \A d \in Bucket, t \in Send : shared'[d][t] \in {shared[d][t], 0}
                                    /\ own'[d][t] \in {own[d][t], 0}
  BY <1>1, <1>2
<1>4. own'[b][s] = 0
  BY <1>1, <1>2
<1>5. /\ own' \in [Bucket -> [Send -> 0 .. LeaseEnd + Lease]]
      /\ shared' \in [Bucket -> [Send -> 0 .. LeaseEnd + Lease]]
  BY <1>1, <1>2
<1>6. /\ PermitsTypeOK' /\ sends'[s] = row
      /\ \A t \in Send \ {s} : sends'[t] = sends[t]
  <2>1. row \in SendRow /\ sends' = [sends EXCEPT ![s] = row]
    BY <1>1, <1>2 DEF PermitsTypeOK, SendRow
  <2> HIDE DEF row
  <2> QED
    BY <1>1, <1>2, <1>5, <2>1, SendTyped DEF PermitsTypeOK
<1>7. \A d \in Bucket : SharedWithin(d)' /\ \A p \in Process : OwnWithin(d, p)'
  BY <1>1, <1>2, <1>3, SharedShrinks, OwnShrinks
<1>8. ASSUME NEW d \in Bucket, NEW t \in Send PROVE Accounted(d, t)'
  <2>1. Accounted(d, t)
    BY DEF PermitsInv
  <2>2. /\ sends'[t].permits = sends[t].permits
        /\ sends'[t].distributed = sends[t].distributed
        /\ sends'[t].bucket = sends[t].bucket
        /\ t # s => sends'[t].at = sends[t].at
        /\ t = s => sends'[t].at = "RELEASING"
    BY <1>1, <1>6 DEF PermitsTypeOK
  <2> QED
    BY <1>1, <1>2, <1>3, <1>4, <2>1, <2>2 DEF Accounted
<1> QED
  BY <1>6, <1>7, <1>8 DEF PermitsInv

LEMMA ReleaseInv == ASSUME PermitsInv, NEW s \in Send, releasePermit(s) PROVE PermitsInv'
<1>1. /\ PermitsTypeOK
      /\ own \in [Bucket -> [Send -> 0 .. LeaseEnd + Lease]]
      /\ shared \in [Bucket -> [Send -> 0 .. LeaseEnd + Lease]]
      /\ leaseTime \in Nat /\ Lease \in Nat \ {0} /\ LeaseEnd \in Nat
      /\ "provider" \in Bucket
  BY PermitsAssumption DEF PermitsInv, PermitsTypeOK
<1>2. PICK reached \in SUBSET (sends[s].permits \cap sends[s].distributed) :
        /\ shared' = [b \in Bucket |->
              IF b \in reached THEN [shared[b] EXCEPT ![s] = 0] ELSE shared[b]]
        /\ orphaned' = orphaned \cup
              {<<b, s>> : b \in (sends[s].permits \cap sends[s].distributed) \ reached}
  BY DEF releasePermit, ToRelease
<1>3. /\ own' = [b \in Bucket |-> IF b \in sends[s].permits THEN [own[b] EXCEPT ![s] = 0]
                                  ELSE own[b]]
      /\ sends' = [sends EXCEPT ![s] = [NewSend EXCEPT !.at = "DONE"]]
      /\ sends[s].at = "RELEASING" /\ UNCHANGED leaseTime
  BY DEF releasePermit, ToRelease
<1>4. \A d \in Bucket, t \in Send :
        /\ shared'[d][t] = IF t = s /\ d \in reached THEN 0 ELSE shared[d][t]
        /\ own'[d][t] = IF t = s /\ d \in sends[s].permits THEN 0 ELSE own[d][t]
  BY <1>1, <1>2, <1>3
<1>5. /\ own' \in [Bucket -> [Send -> 0 .. LeaseEnd + Lease]]
      /\ shared' \in [Bucket -> [Send -> 0 .. LeaseEnd + Lease]]
  BY <1>1, <1>2, <1>3
<1>6. orphaned' \in SUBSET (Bucket \X Send)
  <2>1. sends[s].permits \subseteq Bucket /\ orphaned \in SUBSET (Bucket \X Send)
    BY <1>1 DEF PermitsTypeOK
  <2> QED
    BY <1>2, <2>1
<1> DEFINE row == [NewSend EXCEPT !.at = "DONE"]
<1>7. row \in SendRow /\ row.permits = {} /\ row.distributed = {} /\ row.at = "DONE"
  BY <1>1 DEF NewSend, SendRow
<1>8. /\ PermitsTypeOK' /\ sends'[s] = row
      /\ \A t \in Send \ {s} : sends'[t] = sends[t]
  BY <1>1, <1>3, <1>5, <1>6, <1>7, SendTyped
<1> HIDE DEF row
<1>9. \A d \in Bucket : SharedWithin(d)' /\ \A p \in Process : OwnWithin(d, p)'
  <2>1. \A d \in Bucket, t \in Send : shared'[d][t] \in {shared[d][t], 0}
                                      /\ own'[d][t] \in {own[d][t], 0}
    BY <1>4
  <2>2. \A d \in Bucket, t \in Send :
          /\ shared'[d][t] > leaseTime' => shared[d][t] > leaseTime
          /\ own'[d][t] > leaseTime' => own[d][t] > leaseTime
    BY <1>1, <1>3, <2>1
  <2> QED
    BY <2>2, SharedShrinks, OwnShrinks
<1>10. ASSUME NEW d \in Bucket, NEW t \in Send PROVE Accounted(d, t)'
  <2>1. Accounted(d, t) /\ Accounted(d, s)
    BY DEF PermitsInv
  <2>2. CASE t # s
    BY <1>2, <1>4, <1>8, <2>1, <2>2 DEF Accounted
  <2>3. CASE t = s
    <3>1. own'[d][s] = 0
      <4>1. own[d][s] > 0 => d \in sends[s].permits
        BY <1>3, <2>1 DEF Accounted
      <4> QED
        BY <1>1, <1>4, <4>1
    <3>2. shared'[d][s] > 0 => <<d, s>> \in orphaned'
      BY <1>1, <1>2, <1>4, <2>1 DEF Accounted
    <3> QED
      BY <1>7, <1>8, <2>3, <3>1, <3>2 DEF Accounted
  <2> QED
    BY <2>2, <2>3
<1> QED
  BY <1>8, <1>9, <1>10 DEF PermitsInv

LEMMA PermitsStep == ASSUME PermitsInv, [PermitsNext]_permitVars PROVE PermitsInv'
<1>1. PermitsTypeOK /\ leaseTime \in Nat /\ LeaseEnd \in Nat
  BY PermitsAssumption DEF PermitsInv, PermitsTypeOK
<1>2. CASE LeaseTick \/ UNCHANGED permitVars
  <2>1. /\ leaseTime' \in 1 .. LeaseEnd /\ leaseTime' >= leaseTime
        /\ UNCHANGED <<own, shared, sends, orphaned>>
    BY <1>1, <1>2 DEF LeaseTick, permitVars, PermitsTypeOK
  <2>2. PermitsTypeOK'
    BY <1>1, <2>1 DEF PermitsTypeOK
  <2>3. /\ own \in [Bucket -> [Send -> Nat]]
        /\ shared \in [Bucket -> [Send -> Nat]]
    BY <1>1, PermitsAssumption DEF PermitsTypeOK
  <2>4. \A d \in Bucket : SharedWithin(d)' /\ \A p \in Process : OwnWithin(d, p)'
    BY <1>1, <2>1, <2>2, <2>3, SharedShrinks, OwnShrinks DEF PermitsTypeOK
  <2>5. \A d \in Bucket, t \in Send : Accounted(d, t)'
    BY <2>1 DEF PermitsInv, Accounted
  <2> QED
    BY <2>2, <2>4, <2>5 DEF PermitsInv
<1>3. ASSUME NEW s \in Send, withOutboundPermit(s) \/ SecondPermit(s) PROVE PermitsInv'
  <2>1. "provider" \in Bucket /\ TenantOf[s] \in Bucket
    BY PermitsAssumption
  <2> QED
    BY <1>3, <2>1, AcquireLocalInv DEF withOutboundPermit, SecondPermit
<1>4. ASSUME NEW s \in Send, acquireConcurrency(s) PROVE PermitsInv'
  <2>1. CASE Full(sends[s].bucket, shared[sends[s].bucket], Send)
    BY <1>4, <2>1, RefusedInv
  <2>2. CASE ~Full(sends[s].bucket, shared[sends[s].bucket], Send)
    BY <1>1, <1>4, <2>2, AcquireInv DEF acquireConcurrency, PermitsTypeOK
  <2> QED
    BY <2>1, <2>2
<1>5. ASSUME NEW s \in Send, RedisFails(s) PROVE PermitsInv'
  BY <1>1, <1>5, AcquireInv DEF RedisFails, PermitsTypeOK
<1>6. ASSUME NEW s \in Send, RedisAnswerLost(s) PROVE PermitsInv'
  <2>1. sends[s].bucket \in Bucket
    BY <1>1 DEF PermitsTypeOK
  <2>2. orphaned' \in SUBSET (Bucket \X Send) /\ orphaned \subseteq orphaned'
        /\ <<sends[s].bucket, s>> \in orphaned'
    BY <1>1, <1>6, <2>1 DEF RedisAnswerLost, PermitsTypeOK
  <2> QED
    BY <1>6, <2>2, AcquireInv DEF RedisAnswerLost
<1>7. ASSUME NEW s \in Send, Sent(s) PROVE PermitsInv'
  <2> DEFINE row == [sends[s] EXCEPT !.at = "RELEASING"]
  <2>1. row \in SendRow /\ sends' = [sends EXCEPT ![s] = row]
    BY <1>1, <1>7 DEF PermitsTypeOK, SendRow, Sent
  <2>2. sends[s].at = "SENDING" /\ UNCHANGED <<leaseTime, own, shared, orphaned>>
    BY <1>7 DEF Sent
  <2>3. /\ row.at = "RELEASING" /\ row.permits = sends[s].permits
        /\ row.distributed = sends[s].distributed
    BY <1>1 DEF PermitsTypeOK
  <2> HIDE DEF row
  <2>4. /\ PermitsTypeOK' /\ sends'[s] = row
        /\ \A t \in Send \ {s} : sends'[t] = sends[t]
    BY <1>1, <2>1, <2>2, SendTyped DEF PermitsTypeOK
  <2>5. \A d \in Bucket : SharedWithin(d)' /\ \A p \in Process : OwnWithin(d, p)'
    BY <2>2, SharedShrinks, OwnShrinks
  <2>6. ASSUME NEW d \in Bucket, NEW t \in Send PROVE Accounted(d, t)'
    <3>1. Accounted(d, t)
      BY DEF PermitsInv
    <3> QED
      BY <2>2, <2>3, <2>4, <3>1 DEF Accounted
  <2> QED
    BY <2>4, <2>5, <2>6 DEF PermitsInv
<1> QED
  BY <1>2, <1>3, <1>4, <1>5, <1>6, <1>7, ReleaseInv DEF PermitsNext

(* The maps and the sends keep their types. *)
THEOREM PermitsTyped == PermitsSpec => []PermitsTypeOK
<1>1. PermitsInv => PermitsTypeOK
  BY DEF PermitsInv
<1> QED
  BY <1>1, PermitsStart, PermitsStep, PTL DEF PermitsSpec

(* Sends with a running lease stay within every limit, and what Redis holds  *)
(* for a send that is over was left behind.                                  *)
THEOREM SendsWithinLimits == PermitsSpec => []PermitsWithinLimit
BY InvWithinLimit, PermitsStart, PermitsStep, PTL DEF PermitsSpec

-----------------------------------------------------------------------------
(* Trail.  A set of naturals with an upper bound has a greatest member: the  *)
(* intervals from a member to the bound are finite, so one has none inside.  *)
LEMMA Greatest ==
    ASSUME NEW T, NEW n \in Nat, T \subseteq 0 .. n, T # {}
    PROVE  \E t \in T : \A u \in T : u <= t
<1> DEFINE Above == {t .. n : t \in T}
           Smaller == StrictSubsetOrdering(Nat)
           Finite == FiniteSubsetsOf(Nat)
<1>1. IsWellFoundedOn(Smaller, Finite)
  BY FS_StrictSubsetOrderingWellFounded
<1>2. ASSUME NEW t \in T PROVE t .. n \in Finite
  BY FS_Interval DEF FiniteSubsetsOf
<1>3. Above # {} /\ Above \subseteq Finite
  BY <1>2
<1> HIDE DEF Smaller, Finite, Above
<1>4. PICK X \in Above : \A Y \in Above : <<Y, X>> \notin Smaller
  BY <1>1, <1>3, WFMin
<1>5. PICK t \in T : X = t .. n
  BY <1>4 DEF Above
<1>6. ASSUME NEW u \in T, u > t PROVE FALSE
  <2>1. u .. n \in Above
    BY DEF Above
  <2>2. t \in t .. n /\ t \notin u .. n
    BY <1>6
  <2>3. u .. n \subseteq t .. n /\ u .. n # t .. n
    BY <1>6, <2>2
  <2>4. <<u .. n, t .. n>> \in Smaller
    BY <2>3 DEF Smaller, StrictSubsetOrdering
  <2> QED
    BY <2>1, <2>4, <1>4, <1>5
<1> QED
  BY <1>6

LEMMA NewestOf ==
    ASSUME TrailTypeOK, NEW batch \in SUBSET Sample, batch # {}
    PROVE  /\ \E s \in batch : captured[s] = Newest(batch)
           /\ \A s \in batch : captured[s] <= Newest(batch)
<1> DEFINE times == {captured[s] : s \in batch}
<1>1. times \subseteq 0 .. TrailEnd /\ times # {} /\ TrailEnd \in Nat
  BY TrailTimes DEF TrailTypeOK
<1>2. \E t \in times : \A u \in times : u <= t
  BY <1>1, Greatest
<1>3. \E t \in times : \A s \in batch : captured[s] <= t
  BY <1>2
<1>4. Newest(batch) \in times /\ \A s \in batch : captured[s] <= Newest(batch)
  BY <1>3 DEF Newest
<1> QED
  BY <1>4

(* It is the only time that is one of the batch's and not below any.         *)
LEMMA NewestIs ==
    ASSUME TrailTypeOK, NEW batch \in SUBSET Sample, NEW t \in Nat,
           \E s \in batch : captured[s] = t, \A s \in batch : captured[s] <= t
    PROVE  t = Newest(batch)
<1>1. /\ \E s \in batch : captured[s] = Newest(batch)
      /\ \A s \in batch : captured[s] <= Newest(batch)
  BY NewestOf
<1>2. \A s \in batch : captured[s] \in Nat
  BY TrailTimes DEF TrailTypeOK
<1> QED
  BY <1>1, <1>2

(* A replay under way has every sample of the queue in its request, but for  *)
(* the exposed ones, and an answer of OK means the server has them.          *)
Covers(w) ==
    sender[w] # NoReplay =>
        /\ Queued \subseteq sender[w].batch \cup exposed
        /\ sender[w].at = "OK" => sender[w].batch \subseteq stored
        /\ \A s \in sender[w].batch : captured[s] > 0

TrailInv ==
    /\ TrailTypeOK
    /\ TrailKept
    /\ \A w \in Sender : Covers(w)
    /\ \A s \in Queued \cup stored : captured[s] > 0

LEMMA TrailStart == ASSUME TrailInit PROVE TrailInv
<1>1. TrailTypeOK
  BY TrailTimes DEF TrailInit, TrailTypeOK, NoSession, NoReplay
<1>2. /\ stored = {} /\ lastLocationAt = 0
      /\ \A w \in Sender : sender[w] = NoReplay
      /\ \A s \in Sample : captured[s] = 0 /\ phone[s] = "NONE"
  BY DEF TrailInit
<1>3. Queued = {}
  BY <1>2 DEF Queued
<1>4. \A s \in Sample : ~(captured[s] > 0)
  BY <1>2
<1>5. TrailKept
  BY <1>2, <1>4 DEF TrailKept
<1> QED
  BY <1>1, <1>2, <1>3, <1>5 DEF TrailInv, Covers

(* What the trail rests on when no sample leaves the phone and none is       *)
(* stored.                                                                   *)
LEMMA TrailQuiet ==
    ASSUME TrailInv, TrailTypeOK', UNCHANGED <<captured, stored, lastLocationAt>>,
           trailTime' >= trailTime, exposed \subseteq exposed',
           \A s \in Sample : /\ phone[s] = "NONE" => phone'[s] = "NONE"
                             /\ phone[s] # "NONE" => phone'[s] # "NONE" \/ Expired(s),
           \A w \in Sender :
              \/ sender'[w] = NoReplay
              \/ /\ sender[w] # NoReplay /\ sender'[w].batch = sender[w].batch
                 /\ sender'[w].at = "OK" => sender[w].at = "OK"
              \/ /\ Queued' \subseteq sender'[w].batch \cup exposed'
                 /\ sender'[w].at # "OK"
                 /\ sender'[w].batch \subseteq Queued
    PROVE  TrailInv'
<1>1. \A s \in Sample : captured[s] \in Nat /\ trailTime \in Nat /\ trailTime' \in Nat /\ Life \in Nat
  BY TrailTimes DEF TrailInv, TrailTypeOK
<1>2. Queued' \subseteq Queued
  BY DEF Queued
<1>3. Newest(stored)' = Newest(stored)
  BY DEF Newest
<1>4. TrailKept'
  <2>1. ASSUME NEW s \in Sample, captured'[s] > 0
        PROVE  (s \in stored \cup exposed \/ phone[s] # "NONE" \/ Expired(s))'
    <3>1. s \in stored \cup exposed \/ phone[s] # "NONE" \/ Expired(s)
      BY <2>1 DEF TrailInv, TrailKept
    <3>2. Expired(s) => Expired(s)'
      BY <1>1 DEF Expired
    <3> QED
      BY <3>1, <3>2
  <2> QED
    BY <1>3, <2>1 DEF TrailInv, TrailKept
<1>5. ASSUME NEW w \in Sender PROVE Covers(w)'
  <2>1. Covers(w) /\ \A s \in Queued : captured[s] > 0
    BY DEF TrailInv
  <2>2. CASE sender'[w] = NoReplay
    BY <2>2 DEF Covers, NoReplay
  <2>3. CASE /\ sender[w] # NoReplay /\ sender'[w].batch = sender[w].batch
             /\ sender'[w].at = "OK" => sender[w].at = "OK"
    BY <1>2, <2>1, <2>3 DEF Covers
  <2>4. CASE /\ Queued' \subseteq sender'[w].batch \cup exposed'
             /\ sender'[w].at # "OK"
             /\ sender'[w].batch \subseteq Queued
    BY <2>1, <2>4 DEF Covers
  <2> QED
    BY <2>2, <2>3, <2>4
<1> QED
  BY <1>2, <1>4, <1>5 DEF TrailInv

(* What the phone and the server do without a sample being sent.             *)
LEMMA TrailSettings ==
    ASSUME TrailInv,
           \/ TrailTick \/ startDelivery \/ startDeliveryLocationTracking \/ stopTrackingTx
           \/ stopDeliveryLocationTracking \/ Relaunch \/ UNCHANGED trailVars
    PROVE  TrailInv'
<1>1. TrailTypeOK
  BY DEF TrailInv
<1>2. TrailTypeOK'
  <2>1. CASE TrailTick
    BY <1>1, <2>1, TrailTimes DEF TrailTypeOK, TrailTick
  <2>2. CASE startDelivery
    BY <1>1, <2>2, TrailTimes DEF TrailTypeOK, startDelivery
  <2>3. CASE startDeliveryLocationTracking
    BY <1>1, <2>3, TrailTimes DEF TrailTypeOK, startDeliveryLocationTracking
  <2>4. CASE stopTrackingTx
    BY <1>1, <2>4, TrailTimes DEF TrailTypeOK, stopTrackingTx, NoSession
  <2>5. CASE stopDeliveryLocationTracking
    BY <1>1, <2>5, TrailTimes DEF TrailTypeOK, stopDeliveryLocationTracking
  <2>6. CASE Relaunch
    <3>1. launches' \in 0 .. MaxLaunches
      BY <1>1, TrailTimes, <2>6 DEF TrailTypeOK, Relaunch
    <3> QED
      BY <1>1, <2>6, <3>1 DEF TrailTypeOK, Relaunch, NoReplay
  <2>7. CASE UNCHANGED trailVars
    BY <1>1, <2>7 DEF TrailTypeOK, trailVars
  <2> QED
    BY <2>1, <2>2, <2>3, <2>4, <2>5, <2>6, <2>7
<1>3. /\ UNCHANGED <<captured, phone, stored, lastLocationAt, exposed>>
      /\ trailTime' >= trailTime
      /\ \A w \in Sender : sender'[w] \in {sender[w], NoReplay}
  BY <1>1, TrailTimes DEF TrailTypeOK, TrailTick, startDelivery, startDeliveryLocationTracking,
     stopTrackingTx, stopDeliveryLocationTracking, Relaunch, trailVars
<1> QED
  BY <1>2, <1>3, TrailQuiet

(* A sample is queued. *)
LEMMA EnqueueInv ==
    ASSUME TrailInv, NEW s \in Sample, enqueueDeliveryLocationSample(s)
    PROVE  TrailInv'
<1>1. /\ TrailTypeOK /\ TrailKept
      /\ captured[s] = 0 /\ trailTime > 0
      /\ captured' = [captured EXCEPT ![s] = trailTime]
      /\ phone' = [phone EXCEPT ![s] = "QUEUED"]
      /\ UNCHANGED <<trailTime, tracking, session, stored, lastLocationAt, sender, launches>>
      /\ exposed \subseteq exposed' /\ exposed' \in SUBSET Sample
      /\ \A w \in Sender : sender[w] # NoReplay => s \in exposed'
  BY TrailTimes DEF TrailInv, TrailTypeOK, enqueueDeliveryLocationSample
<1>2. TrailTypeOK'
  BY <1>1, TrailTimes DEF TrailTypeOK, QueueState
<1>3. Queued' = Queued \cup {s} /\ s \notin stored
      /\ \A r \in Sample \ {s} : captured'[r] = captured[r]
      /\ captured'[s] > 0
  BY <1>1 DEF TrailTypeOK, Queued, TrailInv
<1>4. TrailKept'
  <2>1. ASSUME NEW r \in Sample, captured'[r] > 0
        PROVE  (r \in stored \cup exposed \/ phone[r] # "NONE" \/ Expired(r))'
    <3>1. CASE r = s
      BY <1>1, <3>1 DEF TrailTypeOK
    <3>2. CASE r # s
      BY <1>1, <1>3, <2>1, <3>2 DEF TrailKept, Expired, TrailTypeOK
    <3> QED
      BY <3>1, <3>2
  <2>2. stored # {} => Newest(stored)' = Newest(stored)
    <3> SUFFICES ASSUME stored # {} PROVE Newest(stored)' = Newest(stored)
      OBVIOUS
    <3>1. {captured'[r] : r \in stored} = {captured[r] : r \in stored}
      BY <1>1, <1>3 DEF TrailTypeOK
    <3>2. \A r \in stored : captured'[r] = captured[r]
      BY <1>1, <1>3 DEF TrailTypeOK
    <3> QED
      BY <1>1, <3>1, <3>2 DEF Newest
  <2> QED
    BY <1>1, <2>1, <2>2 DEF TrailKept
<1>5. ASSUME NEW w \in Sender PROVE Covers(w)'
  <2>1. Covers(w)
    BY DEF TrailInv
  <2>2. sender[w] # NoReplay => \A r \in sender[w].batch : captured'[r] > 0
    BY <1>1, <1>3, <2>1 DEF Covers, TrailTypeOK
  <2> QED
    BY <1>1, <1>3, <2>1, <2>2 DEF Covers
<1>6. \A r \in Queued' \cup stored' : captured'[r] > 0
  BY <1>1, <1>3 DEF TrailInv, TrailTypeOK, Queued
<1> QED
  BY <1>2, <1>4, <1>5, <1>6 DEF TrailInv

(* A replay drops what is expired and selects what it sends.                 *)
LEMMA SelectInv ==
    ASSUME TrailInv, NEW w \in Sender, replayDeliveryOfflineWork(w)
    PROVE  TrailInv'
<1> DEFINE batch == {s \in Waiting : ~Expired(s)}
           kept == {s \in Queued : ~Expired(s)}
<1>1. /\ TrailTypeOK /\ sender[w] = NoReplay
      /\ phone' = [s \in Sample |-> IF s \in kept THEN phone[s] ELSE "NONE"]
      /\ UNCHANGED <<trailTime, captured, tracking, session, stored, lastLocationAt, launches>>
      /\ IF batch = {} THEN UNCHANGED <<sender, exposed>>
         ELSE /\ sender' = [sender EXCEPT ![w] = [at |-> "SELECTED", batch |-> batch]]
              /\ exposed' = exposed \cup (kept \ batch)
  BY DEF TrailInv, replayDeliveryOfflineWork
<1>2. /\ kept \subseteq Queued /\ batch \subseteq Queued /\ Queued \subseteq Sample
      /\ \A s \in Queued : s \in kept \/ Expired(s)
  BY DEF Queued, Waiting
<1>3. Queued' = kept
  BY <1>1, <1>2 DEF Queued
<1> HIDE DEF batch, kept
<1>4. TrailTypeOK'
  <2>1. phone' \in [Sample -> QueueState \cup {"NONE"}]
    BY <1>1 DEF TrailTypeOK
  <2>2. CASE batch = {}
    BY <1>1, <2>1, <2>2 DEF TrailTypeOK
  <2>3. CASE batch # {}
    <3>1. batch \in SUBSET Sample /\ exposed' \in SUBSET Sample
      BY <1>1, <1>2, <2>3 DEF TrailTypeOK
    <3>2. [at |-> "SELECTED", batch |-> batch]
            \in [at : {"IDLE", "SELECTED", "MARKED", "OK", "REFUSED"}, batch : SUBSET Sample]
      BY <3>1
    <3> QED
      BY <1>1, <2>1, <2>3, <3>1, <3>2 DEF TrailTypeOK
  <2> QED
    BY <2>2, <2>3
<1>5. /\ exposed \subseteq exposed' /\ trailTime' >= trailTime
      /\ \A s \in Sample : /\ phone[s] = "NONE" => phone'[s] = "NONE"
                           /\ phone[s] # "NONE" => phone'[s] # "NONE" \/ Expired(s)
  BY <1>1, <1>2, TrailTimes DEF TrailTypeOK, Queued
<1>6. ASSUME NEW x \in Sender
      PROVE  \/ sender'[x] = NoReplay
             \/ /\ sender[x] # NoReplay /\ sender'[x].batch = sender[x].batch
                /\ sender'[x].at = "OK" => sender[x].at = "OK"
             \/ /\ Queued' \subseteq sender'[x].batch \cup exposed'
                /\ sender'[x].at # "OK"
                /\ sender'[x].batch \subseteq Queued
  <2>1. CASE x # w \/ batch = {}
    BY <1>1, <2>1 DEF TrailTypeOK
  <2>2. CASE x = w /\ batch # {}
    <3>1. sender'[x] = [at |-> "SELECTED", batch |-> batch]
      BY <1>1, <2>2 DEF TrailTypeOK
    <3>2. kept \subseteq batch \cup exposed'
      BY <1>1, <2>2
    <3> QED
      BY <1>2, <1>3, <3>1, <3>2
  <2> QED
    BY <2>1, <2>2
<1> QED
  BY <1>1, <1>4, <1>5, <1>6, TrailQuiet

(* Between the selection and the answer, and after a refusal.                *)
LEMMA ReplayStepTyped ==
    ASSUME TrailTypeOK, NEW w \in Sender, NEW at \in {"MARKED", "OK", "REFUSED"},
           sender' = [sender EXCEPT ![w].at = at]
    PROVE  /\ sender' \in [Sender -> [at : {"IDLE", "SELECTED", "MARKED", "OK", "REFUSED"},
                                      batch : SUBSET Sample]]
           /\ sender'[w].at = at /\ sender'[w].batch = sender[w].batch
           /\ \A x \in Sender \ {w} : sender'[x] = sender[x]
BY DEF TrailTypeOK

LEMMA UnderWayInv ==
    ASSUME TrailInv, NEW w \in Sender,
           \/ Mark(w)
           \/ NoConnectionToServer(w)
           \/ recordLocations(w) /\ ~Accepts(sender[w].batch)
    PROVE  TrailInv'
<1>1. /\ TrailTypeOK /\ sender[w] # NoReplay
      /\ sender' = [sender EXCEPT ![w].at = IF Mark(w) THEN "MARKED" ELSE "REFUSED"]
      /\ UNCHANGED <<trailTime, captured, tracking, session, stored, lastLocationAt, launches, exposed>>
  BY DEF TrailInv, Mark, NoConnectionToServer, recordLocations, NoReplay
<1>2. /\ \A s \in Sample : phone[s] = "NONE" <=> phone'[s] = "NONE"
      /\ phone' \in [Sample -> QueueState \cup {"NONE"}]
  BY <1>1 DEF TrailTypeOK, QueueState, Mark, NoConnectionToServer, recordLocations, Waiting
<1>3. PICK at \in {"MARKED", "REFUSED"} : sender' = [sender EXCEPT ![w].at = at]
  BY <1>1
<1>4. TrailTypeOK' /\ trailTime' >= trailTime
  BY <1>1, <1>2, <1>3, ReplayStepTyped, TrailTimes DEF TrailTypeOK
<1>5. ASSUME NEW x \in Sender
      PROVE  \/ sender'[x] = NoReplay
             \/ /\ sender[x] # NoReplay /\ sender'[x].batch = sender[x].batch
                /\ sender'[x].at = "OK" => sender[x].at = "OK"
  BY <1>1, <1>3, ReplayStepTyped DEF TrailTypeOK
<1> QED
  BY <1>1, <1>2, <1>4, <1>5, TrailQuiet

LEMMA RequeueInv == ASSUME TrailInv, NEW w \in Sender, Requeue(w) PROVE TrailInv'
<1>1. /\ TrailTypeOK
      /\ phone' = [s \in Sample |-> IF s \in Queued THEN "FAILED" ELSE phone[s]]
      /\ sender' = [sender EXCEPT ![w] = NoReplay]
      /\ UNCHANGED <<trailTime, captured, tracking, session, stored, lastLocationAt, launches, exposed>>
  BY DEF TrailInv, Requeue
<1>2. /\ \A s \in Sample : phone[s] = "NONE" <=> phone'[s] = "NONE"
      /\ phone' \in [Sample -> QueueState \cup {"NONE"}]
  BY <1>1 DEF TrailTypeOK, QueueState, Queued
<1>3. /\ sender' \in [Sender -> [at : {"IDLE", "SELECTED", "MARKED", "OK", "REFUSED"},
                                 batch : SUBSET Sample]]
      /\ \A x \in Sender : sender'[x] \in {sender[x], NoReplay}
  BY <1>1 DEF TrailTypeOK, NoReplay
<1>4. TrailTypeOK' /\ trailTime' >= trailTime
  BY <1>1, <1>2, <1>3, TrailTimes DEF TrailTypeOK
<1> QED
  BY <1>1, <1>2, <1>3, <1>4, TrailQuiet

(* The server takes the samples of the request.                              *)
LEMMA RecordInv ==
    ASSUME TrailInv, NEW w \in Sender, recordLocations(w), Accepts(sender[w].batch)
    PROVE  TrailInv'
<1> DEFINE batch == sender[w].batch
<1>1. /\ TrailTypeOK /\ TrailKept /\ sender[w] # NoReplay
      /\ batch \in SUBSET Sample /\ \A s \in batch : captured[s] > 0
      /\ batch = {s \in batch : InSession(s)}
  BY DEF TrailInv, TrailTypeOK, recordLocations, NoReplay, Covers, Accepts
<1>2. /\ stored' = stored \cup batch
      /\ \E answer \in {"OK", "REFUSED"} : sender' = [sender EXCEPT ![w].at = answer]
      /\ UNCHANGED <<trailTime, captured, phone, tracking, session, launches, exposed>>
  BY <1>1 DEF recordLocations
<1>3. LET newest == IF batch = {} THEN 0 ELSE Newest(batch)
      IN  lastLocationAt' = IF newest > lastLocationAt THEN newest ELSE lastLocationAt
  BY <1>1 DEF recordLocations
<1>4. PICK answer \in {"OK", "REFUSED"} : sender' = [sender EXCEPT ![w].at = answer]
  BY <1>2
<1>5. /\ sender' \in [Sender -> [at : {"IDLE", "SELECTED", "MARKED", "OK", "REFUSED"},
                                 batch : SUBSET Sample]]
      /\ sender'[w].at = answer /\ sender'[w].batch = batch
      /\ \A x \in Sender \ {w} : sender'[x] = sender[x]
  BY <1>1, <1>4, ReplayStepTyped
<1> HIDE DEF batch
<1>6. Queued' = Queued /\ stored \subseteq stored'
  BY <1>2 DEF Queued
<1>7. /\ \A s \in Sample : captured[s] \in 0 .. TrailEnd
      /\ TrailEnd \in Nat /\ stored \in SUBSET Sample /\ lastLocationAt \in 0 .. TrailEnd
  BY <1>1, TrailTimes DEF TrailTypeOK
<1>8. /\ lastLocationAt' \in 0 .. TrailEnd
      /\ lastLocationAt' = IF stored' = {} THEN 0 ELSE Newest(stored)'
  <2>1. Newest(stored') = Newest(stored)'
    BY <1>2 DEF Newest
  <2>2. CASE batch = {}
    <3>1. lastLocationAt' = lastLocationAt /\ stored' = stored
      BY <1>2, <1>3, <1>7, <2>2
    <3> QED
      BY <1>1, <1>7, <2>1, <3>1 DEF TrailKept
  <2>3. CASE batch # {}
    <3>1. PICK s \in batch : captured[s] = Newest(batch)
      BY <1>1, <2>3, NewestOf
    <3>2. \A r \in batch : captured[r] <= captured[s]
      BY <1>1, <2>3, <3>1, NewestOf
    <3>3. s \in stored' /\ stored' # {} /\ captured[s] > 0 /\ stored' \in SUBSET Sample
      BY <1>1, <1>2, <1>7
    <3>4. CASE stored = {}
      <4>1. stored' = batch /\ lastLocationAt = 0
        BY <1>1, <1>2, <3>4 DEF TrailKept
      <4>2. lastLocationAt' = captured[s]
        BY <1>1, <1>3, <1>7, <2>3, <3>1, <3>3, <4>1
      <4> QED
        BY <1>1, <1>7, <2>1, <3>1, <3>3, <4>1, <4>2
    <3>5. CASE stored # {}
      <4>1. lastLocationAt = Newest(stored)
        BY <1>1, <3>5 DEF TrailKept
      <4>2. /\ \E r \in stored : captured[r] = lastLocationAt
            /\ \A r \in stored : captured[r] <= lastLocationAt
        BY <1>1, <1>7, <3>5, <4>1, NewestOf
      <4>3. lastLocationAt' = IF captured[s] > lastLocationAt THEN captured[s] ELSE lastLocationAt
        BY <1>3, <2>3, <3>1
      <4>4. /\ \E r \in stored' : captured[r] = lastLocationAt'
            /\ \A r \in stored' : captured[r] <= lastLocationAt'
            /\ lastLocationAt' \in 0 .. TrailEnd
        <5>1. CASE captured[s] > lastLocationAt
          BY <1>1, <1>2, <1>7, <3>2, <3>3, <4>2, <4>3, <5>1
        <5>2. CASE ~(captured[s] > lastLocationAt)
          BY <1>1, <1>2, <1>7, <3>2, <4>2, <4>3, <5>2
        <5> QED
          BY <5>1, <5>2
      <4>5. lastLocationAt' \in Nat
        BY <1>7, <4>4
      <4>6. lastLocationAt' = Newest(stored')
        BY <1>1, <3>3, <4>4, <4>5, NewestIs
      <4> QED
        BY <2>1, <3>3, <4>4, <4>6
    <3> QED
      BY <3>4, <3>5
  <2> QED
    BY <2>2, <2>3
<1>9. TrailTypeOK'
  BY <1>1, <1>2, <1>5, <1>8 DEF TrailTypeOK
<1>10. TrailKept'
  <2>1. ASSUME NEW s \in Sample, captured'[s] > 0
        PROVE  (s \in stored \cup exposed \/ phone[s] # "NONE" \/ Expired(s))'
    BY <1>1, <1>2, <2>1 DEF TrailKept, Expired
  <2> QED
    BY <1>8, <2>1 DEF TrailKept
<1>11. ASSUME NEW x \in Sender PROVE Covers(x)'
  <2>1. Covers(x)
    BY DEF TrailInv
  <2>2. CASE x # w
    BY <1>2, <1>5, <1>6, <2>1, <2>2 DEF Covers
  <2>3. CASE x = w
    BY <1>1, <1>2, <1>5, <1>6, <2>1, <2>3 DEF Covers, batch
  <2> QED
    BY <2>2, <2>3
<1>12. \A s \in Queued' \cup stored' : captured'[s] > 0
  BY <1>1, <1>2, <1>6 DEF TrailInv
<1> QED
  BY <1>9, <1>10, <1>11, <1>12 DEF TrailInv

(* After an OK the queue of the job is emptied.                              *)
LEMMA AcknowledgeInv == ASSUME TrailInv, NEW w \in Sender, Acknowledge(w) PROVE TrailInv'
<1>1. /\ TrailTypeOK /\ TrailKept /\ sender[w].at = "OK" /\ sender[w] # NoReplay
      /\ phone' = [s \in Sample |-> "NONE"]
      /\ sender' = [sender EXCEPT ![w] = NoReplay]
      /\ UNCHANGED <<trailTime, captured, tracking, session, stored, lastLocationAt, launches, exposed>>
  BY DEF TrailInv, Acknowledge, NoReplay
<1>2. /\ TrailTypeOK'
      /\ \A x \in Sender : sender'[x] \in {sender[x], NoReplay}
  BY <1>1 DEF TrailTypeOK, NoReplay
<1>3. Queued' = {} /\ Queued \subseteq stored \cup exposed
  BY <1>1 DEF Queued, TrailInv, Covers
<1>4. TrailKept'
  <2>1. Newest(stored)' = Newest(stored)
    BY <1>1 DEF Newest
  <2>2. ASSUME NEW s \in Sample, captured'[s] > 0
        PROVE  (s \in stored \cup exposed \/ phone[s] # "NONE" \/ Expired(s))'
    BY <1>1, <1>3, <2>2 DEF TrailKept, Expired, Queued
  <2> QED
    BY <1>1, <2>1, <2>2 DEF TrailKept
<1>5. ASSUME NEW x \in Sender PROVE Covers(x)'
  BY <1>1, <1>2, <1>3, <1>5 DEF TrailInv, Covers
<1> QED
  BY <1>1, <1>2, <1>3, <1>4, <1>5 DEF TrailInv

LEMMA TrailStep == ASSUME TrailInv, [TrailNext]_trailVars PROVE TrailInv'
<1>1. ASSUME NEW w \in Sender, recordLocations(w) PROVE TrailInv'
  BY <1>1, RecordInv, UnderWayInv
<1> QED
  BY <1>1, TrailSettings, EnqueueInv, SelectInv, UnderWayInv, RequeueInv, AcknowledgeInv DEF TrailNext

(* Phone, server and replays keep their types. *)
THEOREM TrailTyped == TrailSpec => []TrailTypeOK
<1>1. TrailInv => TrailTypeOK
  BY DEF TrailInv
<1> QED
  BY <1>1, TrailStart, TrailStep, PTL DEF TrailSpec

(* No sample is lost while it is to be kept, and the job shows the newest.   *)
THEOREM TrailIsKept == TrailSpec => []TrailKept
<1>1. TrailInv => TrailKept
  BY DEF TrailInv
<1> QED
  BY <1>1, TrailStart, TrailStep, PTL DEF TrailSpec

-----------------------------------------------------------------------------
(* The figures of a dashboard.  A day begins for the rows, whose day is that *)
(* of the clock, where it begins for the service, unless the clock changes   *)
(* between the two midnights.                                                *)
LEMMA Multiples ==
    ASSUME NEW h \in Nat \ {0}, NEW a \in Int, NEW b \in Int
    PROVE  a <= b <=> a * h <= b * h
  OBVIOUS

LEMMA WholeDays ==
    ASSUME NEW h \in Nat \ {0}, NEW x \in Int
    PROVE  /\ x \div h \in Int
           /\ (x \div h) * h <= x
           /\ x < (x \div h + 1) * h
  OBVIOUS

LEMMA DivisionOrdered ==
    ASSUME NEW h \in Nat \ {0}, NEW x \in Int, NEW d \in Int
    PROVE  d <= x \div h <=> d * h <= x
<1> DEFINE q == x \div h
<1>1. q \in Int /\ q * h <= x /\ x < (q + 1) * h
  BY WholeDays
<1> HIDE DEF q
<1>2. ASSUME d <= q PROVE d * h <= x
  <2>1. d * h <= q * h
    BY <1>1, <1>2, Multiples
  <2>2. d * h \in Int /\ q * h \in Int
    BY <1>1
  <2> QED BY <1>1, <2>1, <2>2
<1>3. ASSUME d * h <= x PROVE d <= q
  <2>1. ~(q + 1 <= d)
    <3> SUFFICES ASSUME q + 1 <= d PROVE FALSE
      OBVIOUS
    <3>1. (q + 1) * h <= d * h
      BY <1>1, Multiples
    <3>2. d * h \in Int /\ (q + 1) * h \in Int
      BY <1>1
    <3> QED BY <1>1, <1>3, <3>1, <3>2
  <2> QED BY <1>1, <2>1
<1> QED
  BY <1>2, <1>3 DEF q

LEMMA DayOfInstant ==
    ASSUME NEW z \in Zone, NEW t \in Instant
    PROVE  dayOf(z, t) \in Int
<1>1. t \in Int /\ Offset(z, t) \in Int /\ DayHours \in Nat \ {0}
  BY CalendarAssumption, ZoneAssumption
<1> QED
  BY <1>1, WholeDays DEF dayOf

LEMMA DayBegins ==
    ASSUME NEW z \in Zone, NEW d \in Int, d * DayHours \in Instant, Steady(z, d), NEW t \in Instant
    PROVE  zoneStart(z, d) <= t <=> d <= dayOf(z, t)
<1> DEFINE m == zoneStart(z, d)
           u == d * DayHours
<1>1. /\ u \in Instant /\ m \in Instant /\ m - 1 \in Instant
      /\ m = u - Offset(z, u)
      /\ Offset(z, m) = Offset(z, u)
      /\ Offset(z, m - 1) <= Offset(z, m)
  BY DEF Steady, zoneStart
<1>2. DayHours \in Nat \ {0} /\ Instant \subseteq Int
  BY CalendarAssumption
<1>3. d <= dayOf(z, t) <=> u <= t + Offset(z, t)
  <2>1. t + Offset(z, t) \in Int
    BY <1>2, ZoneAssumption
  <2> QED
    BY <1>2, <2>1, DivisionOrdered DEF dayOf
<1> HIDE DEF m, u
<1>4. /\ Offset(z, m) \in Int /\ Offset(z, m - 1) \in Int /\ Offset(z, t) \in Int /\ Offset(z, u) \in Int
      /\ u \in Int /\ m \in Int /\ t \in Int
  BY <1>1, <1>2, ZoneAssumption
<1>5. ASSUME m <= t PROVE u <= t + Offset(z, t)
  <2>1. Offset(z, t) - Offset(z, m) \in (m - t)..(t - m)
    BY <1>1, <1>5, ZoneAssumption
  <2> QED
    BY <1>1, <1>4, <1>5, <2>1
<1>6. ASSUME ~(m <= t) PROVE ~(u <= t + Offset(z, t))
  <2>1. t <= m - 1
    BY <1>4, <1>6
  <2>2. Offset(z, m - 1) - Offset(z, t) \in (t - (m - 1))..((m - 1) - t)
    BY <1>1, <2>1, ZoneAssumption
  <2> QED
    BY <1>1, <1>4, <2>1, <2>2
<1> QED
  BY <1>3, <1>5, <1>6 DEF m

(* The days of the service begin in their order.                             *)
LEMMA DaysInOrder ==
    ASSUME NEW z \in Zone, NEW a \in Int, NEW b \in Int, a <= b,
           a * DayHours \in Instant, b * DayHours \in Instant
    PROVE  zoneStart(z, a) <= zoneStart(z, b)
<1> DEFINE s == a * DayHours
           t == b * DayHours
<1>1. s \in Instant /\ t \in Instant
  OBVIOUS
<1>2. s \in Int /\ t \in Int /\ s <= t
  BY <1>1, CalendarAssumption, Multiples
<1>3. zoneStart(z, a) = s - Offset(z, s) /\ zoneStart(z, b) = t - Offset(z, t)
  BY DEF zoneStart
<1> HIDE DEF s, t
<1>4. /\ Offset(z, s) \in Int /\ Offset(z, t) \in Int
      /\ Offset(z, t) - Offset(z, s) \in (s - t)..(t - s)
  BY <1>1, <1>2, ZoneAssumption
<1> QED
  BY <1>2, <1>3, <1>4

(* A row within a period is one of its days.                                 *)
LEMMA WithinItsDays ==
    ASSUME NEW z \in Zone, NEW r \in Period, Reached(r), Steady(z, r.from), Steady(z, r.to + 1),
           NEW t \in Instant
    PROVE  Within(t, z, r) <=> dayOf(z, t) \in dateSeries(r)
<1>1. /\ r.from \in Int /\ r.to \in Int /\ r.to + 1 \in Int
      /\ r.from * DayHours \in Instant /\ (r.to + 1) * DayHours \in Instant
  BY DEF Period, Reached
<1>2. zoneStart(z, r.from) <= t <=> r.from <= dayOf(z, t)
  BY <1>1, DayBegins
<1>3. zoneStart(z, r.to + 1) <= t <=> r.to + 1 <= dayOf(z, t)
  BY <1>1, DayBegins
<1>4. zoneStart(z, r.to + 1) \in Int /\ t \in Int /\ dayOf(z, t) \in Int
  <2>1. Offset(z, (r.to + 1) * DayHours) \in Int /\ (r.to + 1) * DayHours \in Int
    BY <1>1, CalendarAssumption, ZoneAssumption
  <2> QED
    BY <2>1, CalendarAssumption, DayOfInstant DEF zoneStart
<1> QED
  BY <1>1, <1>2, <1>3, <1>4 DEF Within, bounds, dateSeries

(* The period compared with.                                                 *)
LEMMA PreviousTyped ==
    ASSUME NEW c \in Comparison, NEW r \in AskedPeriod
    PROVE  r \in Period /\ previousRange(c, r) \in Period
  BY CalendarAssumption DEF Comparison, previousRange, Period, NoPeriod

LEMMA PreviousIsBefore ==
    ASSUME NEW c \in Comparison, NEW r \in AskedPeriod, previousRange(c, r) # NoPeriod,
           YearBefore(r.to) < r.from
    PROVE  previousRange(c, r).to + 1 <= r.from
<1>1. r.from \in Int /\ r.to \in Int /\ r.from <= r.to
  BY CalendarAssumption DEF Period
<1>2. /\ YearBefore(r.to) \in Int
      /\ FirstOf(MonthOf(r.from)) \in Int /\ FirstOf(MonthOf(r.from)) <= r.from
  BY CalendarAssumption
<1>3. CASE c = "PREVIOUS_YEAR"
  BY <1>1, <1>2, <1>3 DEF previousRange
<1>4. CASE c = "PREVIOUS_MONTH"
  BY <1>1, <1>2, <1>4 DEF previousRange
<1>5. CASE c = "PREVIOUS_PERIOD"
  BY <1>1, <1>5 DEF previousRange
<1>6. CASE c = "NONE"
  BY <1>6 DEF previousRange
<1> QED
  BY <1>3, <1>4, <1>5, <1>6 DEF Comparison

-----------------------------------------------------------------------------
(* A request and its answer.  What it asks for: *)
PeriodsAsked ==
    /\ report.now \in AskedPeriod /\ Reached(report.now)
    /\ report.before # NoPeriod =>
         /\ Reached(report.before)
         /\ \E c \in Comparison : report.before = previousRange(c, report.now)

QueriesAsked ==
    /\ report.found \in [report.asked \cup {Attention} -> SUBSET Fact]
    /\ report.todo \subseteq report.asked
    /\ Attention \notin report.asked
    /\ LeadTrend \in report.asked => ByStatus("LEAD", "NOW") \in report.asked
    /\ \A q \in report.asked : q.when = "BEFORE" => report.before # NoPeriod
    /\ report.step # "COUNTING" => report.todo = {}

(* what was found of a row that has not changed, and *)
FoundAsItIs ==
    /\ \A q \in report.asked \ report.todo : \A f \in Fact \ report.changed :
          f \in report.found[q] <=> Counts(q, f)
    /\ \A f \in report.found[Attention] \ report.changed : Counts(Attention, f)

(* of one that may have: its date is what it was, unless it is a schedule.   *)
FoundInTime ==
    \A q \in report.asked \ report.todo : \A f \in report.found[q] :
        q.kind \notin Scheduled \cup {"UNIT"} =>
            /\ facts[f] # NoFact /\ KindOf[f] = q.kind
            /\ Within(facts[f].at, report.zone, InQuestion(q))

FiguresInv ==
    /\ FiguresTypeOK
    /\ report # NoReport => PeriodsAsked /\ QueriesAsked /\ FoundAsItIs /\ FoundInTime

LEMMA FiguresStart == ASSUME FiguresInit PROVE FiguresInv
  BY DEF FiguresInit, FiguresInv, FiguresTypeOK

LEMMA CountsAsBefore ==
    ASSUME NEW q, NEW f, facts'[f] = facts[f],
           report'.of = report.of, report'.zone = report.zone,
           report'.now = report.now, report'.before = report.before
    PROVE  Counts(q, f)' <=> Counts(q, f)
  BY DEF Counts, Visible, Within, InQuestion, bounds, zoneStart

LEMMA NotNoFact == \A row \in FactRow : row # NoFact
  BY DEF FactRow, NoFact

LEMMA AnswerIsAnAnswer == \A a \in Answer : a # NoReport
  BY DEF Answer, NoReport

(* A row is written, and noted where a report is under way.                  *)
LEMMA FactWritten ==
    ASSUME FiguresInv, NEW f \in Fact, NEW row \in FactRow,
           facts' = [facts EXCEPT ![f] = row], Noted(f), clientZone' = clientZone,
           facts[f] # NoFact /\ KindOf[f] \notin Scheduled => row.at = facts[f].at
    PROVE  FiguresInv'
<1>1. /\ facts' \in [Fact -> FactRow \cup {NoFact}] /\ facts'[f] = row
      /\ \A g \in Fact : g # f => facts'[g] = facts[g]
  BY DEF FiguresInv, FiguresTypeOK
<1>2. CASE report = NoReport
  BY <1>1, <1>2 DEF Noted, FiguresInv, FiguresTypeOK
<1>3. CASE report # NoReport
  <2>1. report \in Answer
    BY <1>3 DEF FiguresInv, FiguresTypeOK
  <2>2. /\ report' \in Answer /\ report'.changed = report.changed \cup {f}
        /\ report'.of = report.of /\ report'.step = report.step /\ report'.zone = report.zone
        /\ report'.now = report.now /\ report'.before = report.before
        /\ report'.asked = report.asked /\ report'.todo = report.todo
        /\ report'.found = report.found
    BY <1>3, <2>1 DEF Noted, Answer
  <2>3. PeriodsAsked' /\ QueriesAsked'
    BY <1>3, <2>2 DEF FiguresInv, PeriodsAsked, QueriesAsked, Reached
  <2>4. \A q, g : g \in Fact \ {f} => (Counts(q, g)' <=> Counts(q, g))
    BY <1>1, <2>2, CountsAsBefore
  <2>5. FoundAsItIs'
    <3>1. \A g \in report.found[Attention] : g \in Fact
      BY <1>3 DEF FiguresInv, QueriesAsked
    <3> QED
      BY <1>3, <2>2, <2>4, <3>1 DEF FiguresInv, FoundAsItIs
  <2>6. FoundInTime'
    <3> SUFFICES ASSUME NEW q \in report.asked \ report.todo, NEW g \in report.found[q],
                        q.kind \notin Scheduled \cup {"UNIT"}
                 PROVE  /\ facts'[g] # NoFact /\ KindOf[g] = q.kind
                        /\ Within(facts'[g].at, report.zone, InQuestion(q))
      BY <2>2 DEF FoundInTime, InQuestion, Within, bounds, zoneStart
    <3>1. /\ facts[g] # NoFact /\ KindOf[g] = q.kind
          /\ Within(facts[g].at, report.zone, InQuestion(q))
      BY <1>3 DEF FiguresInv, FoundInTime
    <3>2. g \in Fact
      BY <1>3 DEF FiguresInv, QueriesAsked
    <3>3. facts'[g].at = facts[g].at /\ facts'[g] # NoFact
      BY <1>1, <3>1, <3>2, NotNoFact
    <3> QED
      BY <3>1, <3>3
  <2> QED
    BY <1>1, <2>2, <2>3, <2>5, <2>6 DEF FiguresInv, FiguresTypeOK
<1> QED
  BY <1>2, <1>3

LEMMA RowsInv == ASSUME FiguresInv, NEW f \in Fact, Appear(f) \/ Alter(f) PROVE FiguresInv'
<1>1. CASE Appear(f)
  <2>1. PICK t \in Moment, b \in BOOLEAN :
           facts' = [facts EXCEPT ![f] = [at |-> t, mine |-> b, done |-> FALSE]]
    BY <1>1 DEF Appear
  <2>2. [at |-> t, mine |-> b, done |-> FALSE] \in FactRow
    BY DEF FactRow
  <2> QED
    BY <1>1, <2>1, <2>2, FactWritten DEF Appear
<1>2. CASE Alter(f)
  <2>1. PICK t \in Moment, b \in BOOLEAN, d \in BOOLEAN :
           /\ KindOf[f] \notin Scheduled => t = facts[f].at
           /\ facts' = [facts EXCEPT ![f] = [at |-> t, mine |-> b, done |-> d]]
    BY <1>2 DEF Alter
  <2>2. [at |-> t, mine |-> b, done |-> d] \in FactRow
    BY DEF FactRow
  <2> QED
    BY <1>2, <2>1, <2>2, FactWritten DEF Alter
<1> QED
  BY <1>1, <1>2

LEMMA EditZoneInv == ASSUME FiguresInv, NEW z \in Zone, EditZone(z) PROVE FiguresInv'
<1>1. facts' = facts /\ report' = report /\ clientZone' \in Zone
  BY DEF EditZone
<1> QED
  BY <1>1 DEF FiguresInv, FiguresTypeOK, PeriodsAsked, QueriesAsked, FoundAsItIs, FoundInTime,
              Reached, Counts, Visible, Within, InQuestion, bounds, zoneStart

(* A request is answered from nothing.                                       *)
LEMMA OpenedInv ==
    ASSUME FiguresInv, NEW of \in {"OVERVIEW", "PLATFORM"}, NEW z \in Zone,
           NEW r \in AskedPeriod, NEW c \in Comparison, NEW Q \in SUBSET Query,
           Opened(of, z, r, previousRange(c, r), Q),
           Attention \notin Q,
           LeadTrend \in Q => ByStatus("LEAD", "NOW") \in Q,
           \A q \in Q : q.when = "BEFORE" => previousRange(c, r) # NoPeriod
    PROVE  FiguresInv'
<1> DEFINE prior == previousRange(c, r)
           none == [q \in Q \cup {Attention} |-> {}]
<1>1. r \in Period /\ prior \in Period
  BY PreviousTyped
<1> HIDE DEF prior
<1>2. Attention \in Query
  BY DEF Attention, Query, Kind
<1>3. /\ none \in [Q \cup {Attention} -> SUBSET Fact]
      /\ none \in UNION {[P -> SUBSET Fact] : P \in SUBSET Query}
      /\ \A q \in Q \cup {Attention} : none[q] = {}
  BY <1>2
<1> HIDE DEF none
<1>4. report' = [of |-> of, step |-> IF Q = {} THEN "DONE" ELSE "COUNTING", zone |-> z,
                 now |-> r, before |-> prior, asked |-> Q, todo |-> Q,
                 found |-> none, changed |-> {}]
  BY DEF Opened, none, prior
<1>5. report' \in Answer
  BY <1>1, <1>3, <1>4 DEF Answer
<1>6. PeriodsAsked'
  BY <1>4 DEF PeriodsAsked, Opened, prior, Reached
<1>7. QueriesAsked'
  BY <1>3, <1>4 DEF QueriesAsked, prior
<1>8. FoundAsItIs' /\ FoundInTime'
  BY <1>3, <1>4 DEF FoundAsItIs, FoundInTime
<1> QED
  BY <1>5, <1>6, <1>7, <1>8 DEF Opened, FiguresInv, FiguresTypeOK

LEMMA SnapshotQueries ==
    ASSUME NEW K \in SUBSET Kind, NEW prior
    PROVE  LET Q == UNION {snapshot(K, w) : w \in Whens(prior)}
           IN  /\ Q \subseteq Query
               /\ \A q \in Q : q.by = "STATUS" /\ (q.when = "BEFORE" => prior # NoPeriod)
               /\ "LEAD" \in K => ByStatus("LEAD", "NOW") \in Q
  BY DEF snapshot, Whens, ByStatus, Query

LEMMA NotByStatus ==
    /\ LeadTrend \in Query /\ LeadSources \in Query
    /\ LeadTrend.by = "DAY" /\ LeadSources.by = "SOURCE" /\ Attention.by = "ATTENTION"
    /\ LeadTrend.when = "NOW" /\ LeadSources.when = "NOW"
  BY DEF LeadTrend, LeadSources, Attention, Query, Kind

LEMMA AskInv ==
    ASSUME FiguresInv, NEW r \in AskedPeriod, NEW c \in Comparison
    PROVE  /\ \A can \in Permissions : AskOverview(r, c, can) => FiguresInv'
           /\ \A z \in Zone : AskPlatform(r, c, z) => FiguresInv'
<1> DEFINE prior == previousRange(c, r)
<1>1. ASSUME NEW can \in Permissions, AskOverview(r, c, can) PROVE FiguresInv'
  <2>1. can \in SUBSET Kind
    BY FactAssumption
  <2>2. /\ overview(can, prior) \in SUBSET Query
        /\ Attention \notin overview(can, prior)
        /\ LeadTrend \in overview(can, prior) => ByStatus("LEAD", "NOW") \in overview(can, prior)
        /\ \A q \in overview(can, prior) : q.when = "BEFORE" => prior # NoPeriod
    BY <2>1, SnapshotQueries, NotByStatus DEF overview
  <2>3. clientZone \in Zone
    BY DEF FiguresInv, FiguresTypeOK
  <2> QED
    BY <1>1, <2>2, <2>3, OpenedInv DEF AskOverview
<1>2. ASSUME NEW z \in Zone, AskPlatform(r, c, z) PROVE FiguresInv'
  <2>1. {"LEAD", "BOOKING", "DELIVERY"} \in SUBSET Kind
    BY DEF Kind
  <2>2. /\ platform(prior) \in SUBSET Query
        /\ Attention \notin platform(prior)
        /\ ByStatus("LEAD", "NOW") \in platform(prior)
        /\ \A q \in platform(prior) : q.when = "BEFORE" => prior # NoPeriod
    BY <2>1, SnapshotQueries, NotByStatus DEF platform
  <2> QED
    BY <1>2, <2>2, OpenedInv DEF AskPlatform
<1> QED
  BY <1>1, <1>2

(* A query finds the rows as they are.                                       *)
LEMMA RunQueryInv == ASSUME FiguresInv, NEW p \in Query, RunQuery(p) PROVE FiguresInv'
<1>1. report # NoReport /\ report \in Answer /\ p \in report.todo /\ p \in report.asked /\ p # Attention
  BY DEF RunQuery, FiguresInv, FiguresTypeOK, QueriesAsked
<1> DEFINE F == {f \in Fact : Counts(p, f)}
<1>2. report.found \in [report.asked \cup {Attention} -> SUBSET Fact]
  BY <1>1 DEF FiguresInv, QueriesAsked
<1>3. /\ report'.of = report.of /\ report'.zone = report.zone
      /\ report'.now = report.now /\ report'.before = report.before
      /\ report'.asked = report.asked /\ report'.changed = report.changed
      /\ report'.todo = report.todo \ {p}
      /\ report'.found = [report.found EXCEPT ![p] = F]
      /\ report'.step \in {"COUNTING", "ATTENTION", "DONE"}
      /\ report'.step # "COUNTING" => report.todo = {p}
      /\ facts' = facts /\ clientZone' = clientZone
  BY <1>1 DEF RunQuery, Answer
<1>4. report' = [report EXCEPT !.todo = report'.todo, !.found = report'.found, !.step = report'.step]
  BY <1>1 DEF RunQuery, Answer
<1> HIDE DEF F
<1>5. F \in SUBSET Fact
  BY DEF F
<1>6. /\ report'.found \in [report.asked \cup {Attention} -> SUBSET Fact]
      /\ report'.found[p] = F
      /\ \A q \in report.asked \cup {Attention} : q # p => report'.found[q] = report.found[q]
  BY <1>1, <1>2, <1>3, <1>5
<1>7. report' \in Answer
  <2>1. report.asked \cup {Attention} \in SUBSET Query
    BY <1>1 DEF Answer, Attention, Query, Kind
  <2>2. report'.found \in UNION {[P -> SUBSET Fact] : P \in SUBSET Query}
    BY <1>6, <2>1
  <2>3. report'.todo \in SUBSET Query
    BY <1>1, <1>3 DEF Answer
  <2> QED
    BY <1>1, <1>3, <1>4, <2>2, <2>3 DEF Answer
<1>8. PeriodsAsked'
  BY <1>1, <1>3 DEF FiguresInv, PeriodsAsked, Reached
<1>9. QueriesAsked'
  BY <1>1, <1>3, <1>6 DEF FiguresInv, QueriesAsked
<1>10. \A q, f : Counts(q, f)' <=> Counts(q, f)
  BY <1>3, CountsAsBefore
<1>11. FoundAsItIs'
  BY <1>1, <1>3, <1>6, <1>10 DEF FiguresInv, FoundAsItIs, F
<1>12. FoundInTime'
  <2> SUFFICES ASSUME NEW q \in report'.asked \ report'.todo, NEW f \in report'.found[q],
                      q.kind \notin Scheduled \cup {"UNIT"}
               PROVE  /\ facts[f] # NoFact /\ KindOf[f] = q.kind
                      /\ Within(facts[f].at, report.zone, InQuestion(q))
    BY <1>3 DEF FoundInTime, InQuestion, Within, bounds, zoneStart
  <2>1. CASE q = p
    BY <1>6, <2>1 DEF F, Counts
  <2>2. CASE q # p
    BY <1>1, <1>3, <1>6, <2>2 DEF FiguresInv, FoundInTime
  <2> QED BY <2>1, <2>2
<1> QED
  BY <1>3, <1>7, <1>8, <1>9, <1>11, <1>12 DEF FiguresInv, FiguresTypeOK

LEMMA RunAttentionInv == ASSUME FiguresInv, RunAttention PROVE FiguresInv'
<1>1. report # NoReport /\ report \in Answer /\ report.step = "ATTENTION"
  BY DEF RunAttention, FiguresInv, FiguresTypeOK
<1>2. PICK F \in SUBSET {f \in Fact : Counts(Attention, f)} :
         report' = [report EXCEPT !.step = "DONE", !.found[Attention] = F]
  BY DEF RunAttention
<1>3. /\ report.found \in [report.asked \cup {Attention} -> SUBSET Fact]
      /\ Attention \notin report.asked /\ report.todo = {}
  BY <1>1 DEF FiguresInv, QueriesAsked
<1>4. /\ report'.of = report.of /\ report'.zone = report.zone
      /\ report'.now = report.now /\ report'.before = report.before
      /\ report'.asked = report.asked /\ report'.changed = report.changed
      /\ report'.todo = report.todo /\ report'.step = "DONE"
      /\ report'.found = [report.found EXCEPT ![Attention] = F]
      /\ facts' = facts /\ clientZone' = clientZone
  BY <1>1, <1>2 DEF RunAttention, Answer
<1>5. report' = [report EXCEPT !.found = report'.found, !.step = "DONE"]
  BY <1>1, <1>2 DEF Answer
<1>6. /\ report'.found \in [report.asked \cup {Attention} -> SUBSET Fact]
      /\ report'.found[Attention] = F
      /\ \A q \in report.asked : report'.found[q] = report.found[q]
  BY <1>2, <1>3, <1>4
<1>7. report' \in Answer
  <2>1. report.asked \cup {Attention} \in SUBSET Query
    BY <1>1 DEF Answer, Attention, Query, Kind
  <2>2. report'.found \in UNION {[P -> SUBSET Fact] : P \in SUBSET Query}
    BY <1>6, <2>1
  <2> QED
    BY <1>1, <1>5, <2>2 DEF Answer
<1>8. PeriodsAsked'
  BY <1>1, <1>4 DEF FiguresInv, PeriodsAsked, Reached
<1>9. QueriesAsked'
  BY <1>1, <1>4, <1>6 DEF FiguresInv, QueriesAsked
<1>10. \A q, f : Counts(q, f)' <=> Counts(q, f)
  BY <1>4, CountsAsBefore
<1>11. FoundAsItIs'
  BY <1>1, <1>2, <1>4, <1>6, <1>10 DEF FiguresInv, FoundAsItIs
<1>12. FoundInTime'
  BY <1>1, <1>4, <1>6 DEF FiguresInv, FoundInTime, InQuestion, Within, bounds, zoneStart
<1> QED
  BY <1>4, <1>7, <1>8, <1>9, <1>11, <1>12 DEF FiguresInv, FiguresTypeOK

LEMMA FiguresStep == ASSUME FiguresInv, [FiguresNext]_figureVars PROVE FiguresInv'
<1>1. CASE UNCHANGED figureVars
  BY <1>1 DEF FiguresInv, FiguresTypeOK, PeriodsAsked, QueriesAsked, FoundAsItIs, FoundInTime,
              Reached, Counts, Visible, Within, InQuestion, bounds, zoneStart, figureVars
<1> QED
  BY <1>1, RowsInv, EditZoneInv, AskInv, RunQueryInv, RunAttentionInv DEF FiguresNext

-----------------------------------------------------------------------------
(* What the invariant says of an answer.                                     *)
LEMMA FoundIsDated ==
    ASSUME FiguresInv, NEW f \in Fact, facts[f] # NoFact PROVE facts[f].at \in Instant
  BY CalendarAssumption DEF FiguresInv, FiguresTypeOK, FactRow

LEMMA CountedByDays ==
    ASSUME FiguresInv, report # NoReport, NEW q \in report.asked, q.kind # "UNIT",
           SteadyAtEnds(InQuestion(q)), NEW f \in Fact
    PROVE  Counts(q, f) <=> /\ facts[f] # NoFact /\ KindOf[f] = q.kind /\ Visible(f)
                            /\ dayOf(report.zone, facts[f].at) \in dateSeries(InQuestion(q))
<1>1. report \in Answer
  BY DEF FiguresInv, FiguresTypeOK
<1>2. InQuestion(q) \in Period /\ Reached(InQuestion(q))
  BY <1>1 DEF FiguresInv, PeriodsAsked, QueriesAsked, InQuestion, Answer, Query
<1>3. report.zone \in Zone
  BY <1>1 DEF Answer
<1>4. ASSUME facts[f] # NoFact
      PROVE  Within(facts[f].at, report.zone, InQuestion(q))
               <=> dayOf(report.zone, facts[f].at) \in dateSeries(InQuestion(q))
  BY <1>2, <1>3, <1>4, FoundIsDated, WithinItsDays DEF SteadyAtEnds
<1> QED
  BY <1>4 DEF Counts

LEMMA ShownAgree ==
    ASSUME FiguresInv, Shown PROVE CardsAgreeWithCharts
<1> SUFFICES ASSUME LeadTrend \in report.asked
             PROVE  CardsAgreeWithCharts
  BY DEF CardsAgreeWithCharts
<1>1. /\ report # NoReport /\ report \in Answer /\ report.todo = {}
      /\ ByStatus("LEAD", "NOW") \in report.asked
      /\ report.found \in [report.asked \cup {Attention} -> SUBSET Fact]
  BY DEF Shown, FiguresInv, FiguresTypeOK, QueriesAsked
<1>2. \A q \in report.asked : \A f \in Fact \ report.changed : f \in Rows(q) <=> Counts(q, f)
  BY <1>1 DEF FiguresInv, FoundAsItIs, Rows
<1>3. \A f \in Rows(Attention) \ report.changed : Counts(Attention, f)
  BY <1>1 DEF FiguresInv, FoundAsItIs, Rows
<1>4. \A f : /\ Counts(ByStatus("LEAD", "NOW"), f) <=> Counts(LeadTrend, f)
             /\ Counts(LeadSources, f) <=> Counts(LeadTrend, f)
             /\ Counts(Attention, f) <=> Counts(LeadTrend, f)
  BY DEF Counts, InQuestion, ByStatus, LeadTrend, LeadSources, Attention
<1>5. \A f \in Fact \ report.changed :
         /\ f \in Rows(ByStatus("LEAD", "NOW")) <=> f \in Rows(LeadTrend)
         /\ LeadSources \in report.asked => (f \in Rows(LeadSources) <=> f \in Rows(LeadTrend))
         /\ f \in Rows(Attention) => f \in Rows(LeadTrend)
  BY <1>1, <1>2, <1>3, <1>4
<1>6. ASSUME report.changed = {}, SteadyAtEnds(report.now)
      PROVE  Card("LEAD").value = Cardinality(Chart)
  <2>1. Rows(LeadTrend) \subseteq Fact /\ Rows(ByStatus("LEAD", "NOW")) \subseteq Fact
    BY <1>1 DEF Rows
  <2>2. Rows(ByStatus("LEAD", "NOW")) = Rows(LeadTrend)
    BY <1>5, <1>6, <2>1
  <2>3. \A f \in Rows(LeadTrend) : dayOf(report.zone, facts[f].at) \in dateSeries(report.now)
    <3>1. LeadTrend.kind # "UNIT" /\ InQuestion(LeadTrend) = report.now
      BY DEF LeadTrend, InQuestion
    <3> QED
      BY <1>1, <1>2, <1>6, <2>1, <3>1, CountedByDays
  <2>4. \A f \in Rows(LeadTrend) : dayOf(report.zone, facts[f].at) \in Columns
    BY <2>3 DEF Columns
  <2>5. Chart = Rows(LeadTrend)
    BY <2>4 DEF Chart, Column
  <2> QED
    BY <2>2, <2>5 DEF Card
<1> QED
  BY <1>5, <1>6 DEF CardsAgreeWithCharts

LEMMA ShownOfTheDays ==
    ASSUME FiguresInv, Shown PROVE FiguresAreOfTheDays
<1>1. report # NoReport /\ report.todo = {}
  BY DEF Shown, FiguresInv, FiguresTypeOK, QueriesAsked
<1>2. \A q \in report.asked : \A f \in Fact \ report.changed : f \in Rows(q) <=> Counts(q, f)
  BY <1>1 DEF FiguresInv, FoundAsItIs, Rows
<1> QED
  BY <1>1, <1>2, CountedByDays DEF FiguresAreOfTheDays

LEMMA ShownApart ==
    ASSUME FiguresInv, Shown PROVE PeriodsApart
<1>1. report # NoReport /\ report \in Answer /\ report.todo = {} /\ report.zone \in Zone
  BY DEF Shown, FiguresInv, FiguresTypeOK, QueriesAsked, Answer
<1> SUFFICES ASSUME YearBefore(report.now.to) < report.now.from,
                    NEW k \in Kind \ {"UNIT"},
                    ByStatus(k, "NOW") \in report.asked, ByStatus(k, "BEFORE") \in report.asked,
                    NEW f \in Rows(ByStatus(k, "NOW")) \cap Rows(ByStatus(k, "BEFORE"))
             PROVE  k \in Scheduled /\ f \in report.changed
  BY DEF PeriodsApart
<1> DEFINE now == report.now
           before == report.before
<1>2. f \in Fact /\ f \in report.found[ByStatus(k, "NOW")] /\ f \in report.found[ByStatus(k, "BEFORE")]
  BY <1>1 DEF FiguresInv, QueriesAsked, Rows
<1>3. /\ ByStatus(k, "NOW").kind = k /\ ByStatus(k, "BEFORE").kind = k
      /\ InQuestion(ByStatus(k, "NOW")) = now /\ InQuestion(ByStatus(k, "BEFORE")) = before
      /\ ByStatus(k, "BEFORE").when = "BEFORE"
  BY DEF ByStatus, InQuestion
<1>4. before # NoPeriod
  BY <1>1, <1>3 DEF FiguresInv, QueriesAsked
<1>5. PICK c \in Comparison : before = previousRange(c, now)
  BY <1>1, <1>4 DEF FiguresInv, PeriodsAsked
<1>6. now \in AskedPeriod /\ Reached(now) /\ Reached(before)
  BY <1>1, <1>4 DEF FiguresInv, PeriodsAsked
<1>7. now \in Period /\ before \in Period
  BY <1>1 DEF Answer
<1>8. before.to + 1 <= now.from
  BY <1>4, <1>5, <1>6, PreviousIsBefore
<1>9. zoneStart(report.zone, before.to + 1) <= zoneStart(report.zone, now.from)
  BY <1>1, <1>6, <1>7, <1>8, DaysInOrder DEF Reached, Period
<1>10. /\ zoneStart(report.zone, before.to + 1) \in Int
       /\ zoneStart(report.zone, now.from) \in Int
  <2>1. ASSUME NEW t \in Instant PROVE t \in Int /\ Offset(report.zone, t) \in Int
    BY <1>1, CalendarAssumption, ZoneAssumption
  <2>2. (before.to + 1) * DayHours \in Instant /\ now.from * DayHours \in Instant
    BY <1>6 DEF Reached
  <2> QED
    BY <2>1, <2>2 DEF zoneStart
<1>11. ASSUME facts[f] # NoFact, Within(facts[f].at, report.zone, now),
              Within(facts[f].at, report.zone, before)
       PROVE  FALSE
  <2>1. facts[f].at \in Int
    BY <1>2, <1>11, FoundIsDated, CalendarAssumption
  <2> QED
    BY <1>9, <1>10, <1>11, <2>1 DEF Within, bounds
<1>12. k \in Scheduled
  BY <1>1, <1>2, <1>3, <1>11 DEF FiguresInv, FoundInTime
<1>13. f \in report.changed
  BY <1>1, <1>2, <1>3, <1>11 DEF FiguresInv, FoundAsItIs, Counts
<1> QED
  BY <1>12, <1>13

(* For every calendar, zone and set of rows, whatever the order in which the *)
(* queries end: cards, charts and sources agree and count the rows of their  *)
(* days, and no row is in two periods, but for the rows that changed.        *)
THEOREM FiguresAgreeThroughout == FiguresSpec => []FiguresAddUp
<1>1. FiguresInv => FiguresAddUp
  BY ShownAgree, ShownOfTheDays, ShownApart DEF FiguresAddUp
<1> QED
  BY <1>1, FiguresStart, FiguresStep, PTL DEF FiguresSpec

-----------------------------------------------------------------------------
(* The integration centre.  What a decided row's events, and the requests    *)
(* that have written a decision and not told of it, can be: of all of them   *)
(* one tells of a decision, and of the one that stands.                      *)
Tells(w, e) == telling[w] # Done /\ telling[w].row = e
Decides(w, e) == Tells(w, e) /\ telling[w].as \in Decision

Reviewed == Asset \cup Recording

OneDecision ==
    \A e \in Reviewed :
        /\ \A w \in Manager : Decides(w, e) => telling[w].as = centre[e]
        /\ \A v, w \in Manager : Decides(v, e) /\ Decides(w, e) => v = w
        /\ \A w \in Manager, i \in DOMAIN told[e] :
              ~(Decides(w, e) /\ told[e][i] \in Decision)

(* An event of the row that may be its last one.                             *)
Matches(s, e) ==
    \/ s = centre[e]
    \/ e \in Asset /\ centre[e] = "REVIEW_PENDING" /\ s = "MODERATION_PENDING"

(* Of a row that no two requests crossed on, one request at most has not     *)
(* told, and it will tell of the row as it is.                               *)
OneTeller ==
    /\ \A e \in Entity \ overtaken : \A v, w \in Manager : Tells(v, e) /\ Tells(w, e) => v = w
    /\ \A e \in Entity \ (untold \cup overtaken) :
          \A w \in Manager : Tells(w, e) => Matches(telling[w].as, e)

CentreInv ==
    /\ CentreTypeOK /\ DecidedOnce /\ LastTold
    /\ OneDecision /\ OneTeller

LEMMA CentreStart == ASSUME CentreInit PROVE CentreInv
<1>1. CentreTypeOK
  BY DEF CentreInit, CentreTypeOK, Stand
<1>2. DecidedOnce /\ LastTold
  BY DEF CentreInit, DecidedOnce, LastTold, Entity
<1>3. OneDecision /\ OneTeller
  BY DEF CentreInit, OneDecision, OneTeller, Tells, Decides
<1> QED
  BY <1>1, <1>2, <1>3 DEF CentreInv

(* A statement keeps what was decided where it writes a row that nobody has  *)
(* decided, or no decision.                                                  *)
LEMMA WriteInv ==
    ASSUME CentreInv, NEW u \in Manager, NEW e \in Entity, NEW s \in Stand, Write(u, e, s),
           e \in Reviewed => centre[e] \notin Decision
    PROVE  CentreInv'
<1>1. /\ centre' = [centre EXCEPT ![e] = s] /\ centre'[e] = s
      /\ \A f \in Entity : f # e => centre'[f] = centre[f]
      /\ told' = told /\ untold' = untold
  BY DEF CentreInv, CentreTypeOK, Write
<1>2. /\ telling[u] = Done
      /\ telling'[u] = [row |-> e, as |-> s]
      /\ \A w \in Manager : w # u => telling'[w] = telling[w]
  BY DEF CentreInv, CentreTypeOK, Write
<1>3. [row |-> e, as |-> s] # Done
  BY DEF Done
<1>4. CentreTypeOK'
  BY <1>1 DEF CentreInv, CentreTypeOK, Write
<1>5. \A w \in Manager, f \in Entity : Tells(w, f)' <=> (IF w = u THEN f = e ELSE Tells(w, f))
  BY <1>2, <1>3 DEF Tells
<1>6. \A w \in Manager, f \in Entity :
         Decides(w, f)' <=> (IF w = u THEN f = e /\ s \in Decision ELSE Decides(w, f))
  BY <1>2, <1>5 DEF Decides
<1>7. \A f \in Reviewed : f \in Entity
  BY DEF Reviewed, Entity
<1>8. e \in Reviewed => /\ \A i \in DOMAIN told[e] : told[e][i] \notin Decision
                        /\ \A w \in Manager : ~Decides(w, e)
  BY DEF CentreInv, DecidedOnce, OneDecision, Reviewed, Decides
<1>9. DecidedOnce'
  BY <1>1, <1>7, <1>8 DEF CentreInv, DecidedOnce, Reviewed
<1>10. OneDecision'
  <2>1. ASSUME NEW f \in Reviewed, NEW w \in Manager, Decides(w, f)'
        PROVE  telling'[w].as = centre'[f]
    BY <1>1, <1>2, <1>6, <1>7, <1>8, <2>1 DEF CentreInv, OneDecision
  <2>2. ASSUME NEW f \in Reviewed, NEW v \in Manager, NEW w \in Manager,
               Decides(v, f)', Decides(w, f)'
        PROVE  v = w
    BY <1>6, <1>7, <1>8, <2>2 DEF CentreInv, OneDecision
  <2>3. ASSUME NEW f \in Reviewed, NEW w \in Manager, NEW i \in DOMAIN told[f],
               Decides(w, f)', told[f][i] \in Decision
        PROVE  FALSE
    BY <1>6, <1>7, <1>8, <2>3 DEF CentreInv, OneDecision
  <2> QED
    BY <1>1, <2>1, <2>2, <2>3 DEF OneDecision
<1>11. /\ overtaken \subseteq overtaken'
       /\ e \notin overtaken' => \A w \in Manager : ~Tells(w, e)
  BY DEF Write, BeingTold, Tells
<1>12. OneTeller'
  <2>1. ASSUME NEW f \in Entity \ overtaken', NEW v \in Manager, NEW w \in Manager,
               Tells(v, f)', Tells(w, f)'
        PROVE  v = w
    BY <1>5, <1>11, <2>1 DEF CentreInv, OneTeller
  <2>2. ASSUME NEW f \in Entity \ (untold \cup overtaken'), NEW w \in Manager, Tells(w, f)'
        PROVE  Matches(telling[w].as, f)'
    <3>1. CASE f = e
      BY <1>1, <1>2, <1>5, <1>11, <2>2, <3>1 DEF Matches
    <3>2. CASE f # e
      BY <1>1, <1>2, <1>5, <1>11, <2>2, <3>2 DEF CentreInv, OneTeller, Matches
    <3> QED BY <3>1, <3>2
  <2> QED
    BY <1>1, <2>1, <2>2 DEF OneTeller
<1>13. LastTold'
  <2> SUFFICES ASSUME NEW f \in Entity \ (untold \cup overtaken'),
                      centre'[f] # "NONE", ~BeingTold(f)'
               PROVE  told[f] # <<>> /\ Matches(LastOf(told[f]), f)'
    BY <1>1 DEF LastTold, Matches
  <2>1. f # e
    BY <1>5 DEF BeingTold, Tells
  <2>2. ~BeingTold(f)
    BY <1>5, <2>1, <1>2 DEF BeingTold, Tells
  <2> QED
    BY <1>1, <1>11, <2>1, <2>2 DEF CentreInv, LastTold, Matches
<1> QED
  BY <1>4, <1>9, <1>10, <1>12, <1>13 DEF CentreInv

(* Moderation changes a row that is not decided, and its event still matches. *)
LEMMA ModeratedInv == ASSUME CentreInv, NEW a \in Asset, Moderated(a) PROVE CentreInv'
<1>1. /\ centre' = [centre EXCEPT ![a] = "REVIEW_PENDING"] /\ centre'[a] = "REVIEW_PENDING"
      /\ centre[a] = "MODERATION_PENDING"
      /\ \A f \in Entity : f # a => centre'[f] = centre[f]
      /\ UNCHANGED <<telling, told, untold, overtaken>>
  BY DEF CentreInv, CentreTypeOK, Moderated, Entity
<1>2. CentreTypeOK'
  BY <1>1 DEF CentreInv, CentreTypeOK, Stand
<1>3. /\ \A i \in DOMAIN told[a] : told[a][i] \notin Decision
      /\ \A w \in Manager : ~Decides(w, a)
  BY <1>1 DEF CentreInv, DecidedOnce, OneDecision, Reviewed, Decides, Decision
<1>4. DecidedOnce'
  BY <1>1, <1>3 DEF CentreInv, DecidedOnce, Entity
<1>5. \A w \in Manager, f \in Entity : (Decides(w, f)' <=> Decides(w, f)) /\ (Tells(w, f)' <=> Tells(w, f))
  BY <1>1 DEF Decides, Tells
<1>6. OneDecision'
  BY <1>1, <1>3, <1>5 DEF CentreInv, OneDecision, Reviewed, Entity
<1>7. \A s \in Stand, f \in Entity : Matches(s, f) => Matches(s, f)'
  BY <1>1 DEF Matches
<1>8. OneTeller'
  <2>1. \A w \in Manager, f \in Entity : Tells(w, f) => telling[w].as \in Stand
    BY DEF CentreInv, CentreTypeOK, Tells
  <2> QED
    BY <1>1, <1>5, <1>7, <2>1 DEF CentreInv, OneTeller
<1>9. LastTold'
  <2> SUFFICES ASSUME NEW f \in Entity \ (untold \cup overtaken),
                      centre'[f] # "NONE", ~BeingTold(f)
               PROVE  told[f] # <<>> /\ Matches(LastOf(told[f]), f)'
    BY <1>1 DEF LastTold, Matches, BeingTold
  <2>1. centre[f] # "NONE"
    BY <1>1
  <2> QED
    BY <1>1, <1>7, <2>1 DEF CentreInv, LastTold, Matches
<1> QED
  BY <1>2, <1>4, <1>6, <1>8, <1>9 DEF CentreInv

(* The event tells of what its request wrote. *)
LEMMA AuditInv == ASSUME CentreInv, NEW u \in Manager, audit(u) PROVE CentreInv'
<1> DEFINE e == telling[u].row
           s == telling[u].as
<1>1. e \in Entity /\ s \in Stand /\ Tells(u, e)
  BY DEF CentreInv, CentreTypeOK, audit, Tells
<1> HIDE DEF e, s
<1>2. /\ told' = [told EXCEPT ![e] = Append(@, s)]
      /\ telling' = [telling EXCEPT ![u] = Done]
      /\ UNCHANGED <<centre, untold, overtaken>>
  BY DEF audit, e, s
<1>3. CentreTypeOK'
  BY <1>1, <1>2 DEF CentreInv, CentreTypeOK
<1>4. /\ told[e] \in Seq(Stand)
      /\ told'[e] = Append(told[e], s)
      /\ \A f \in Entity : f # e => told'[f] = told[f]
  BY <1>1, <1>2 DEF CentreInv, CentreTypeOK
<1>5. /\ DOMAIN told'[e] = DOMAIN told[e] \cup {Len(told[e]) + 1}
      /\ \A i \in DOMAIN told[e] : told'[e][i] = told[e][i]
      /\ told'[e][Len(told[e]) + 1] = s
      /\ Len(told[e]) + 1 \notin DOMAIN told[e]
      /\ LastOf(told'[e]) = s /\ told'[e] # <<>>
  BY <1>1, <1>4 DEF LastOf
<1>6. \A w \in Manager, f \in Entity : /\ Tells(w, f)' <=> w # u /\ Tells(w, f)
                                       /\ Decides(w, f)' <=> w # u /\ Decides(w, f)
  BY <1>2 DEF CentreInv, CentreTypeOK, Tells, Decides
<1>7. \A w \in Manager : w # u => telling'[w] = telling[w]
  BY <1>2 DEF CentreInv, CentreTypeOK
<1>8. e \in Reviewed /\ s \in Decision => Decides(u, e) /\ s = centre[e]
  BY <1>1 DEF CentreInv, OneDecision, Decides, s
<1>9. \A f \in Reviewed : f \in Entity
  BY DEF Reviewed, Entity
<1>10. DecidedOnce'
  <2>1. ASSUME NEW f \in Reviewed, NEW i \in DOMAIN told'[f], told'[f][i] \in Decision
        PROVE  told'[f][i] = centre[f] /\ \A j \in DOMAIN told'[f] : told'[f][j] \in Decision => i = j
    <3>1. CASE f # e
      BY <1>4, <1>9, <2>1, <3>1 DEF CentreInv, DecidedOnce, Reviewed
    <3>2. CASE f = e
      BY <1>1, <1>4, <1>5, <1>8, <1>9, <2>1, <3>2 DEF CentreInv, DecidedOnce, OneDecision, Reviewed
    <3> QED BY <3>1, <3>2
  <2> QED
    BY <1>2, <2>1 DEF DecidedOnce, Reviewed
<1>11. OneDecision'
  <2>1. ASSUME NEW f \in Reviewed, NEW w \in Manager, NEW i \in DOMAIN told'[f],
               Decides(w, f)', told'[f][i] \in Decision
        PROVE  FALSE
    <3>1. CASE f # e
      BY <1>4, <1>6, <1>9, <2>1, <3>1 DEF CentreInv, OneDecision
    <3>2. CASE f = e
      BY <1>1, <1>5, <1>6, <1>8, <1>9, <2>1, <3>2 DEF CentreInv, OneDecision
    <3> QED BY <3>1, <3>2
  <2> QED
    BY <1>2, <1>6, <1>7, <1>9, <2>1 DEF CentreInv, OneDecision
<1>12. OneTeller'
  BY <1>2, <1>6, <1>7 DEF CentreInv, OneTeller, Matches
<1>13. LastTold'
  <2> SUFFICES ASSUME NEW f \in Entity \ (untold \cup overtaken),
                      centre[f] # "NONE", ~BeingTold(f)'
               PROVE  told'[f] # <<>> /\ Matches(LastOf(told'[f]), f)
    BY <1>2 DEF LastTold, Matches
  <2>1. CASE f = e
    BY <1>1, <1>5, <2>1 DEF CentreInv, OneTeller, s
  <2>2. CASE f # e
    <3>1. ~BeingTold(f)
      BY <1>1, <1>6, <2>2 DEF BeingTold, Tells
    <3> QED
      BY <1>4, <2>2, <3>1 DEF CentreInv, LastTold, Matches
  <2> QED BY <2>1, <2>2
<1> QED
  BY <1>3, <1>10, <1>11, <1>12, <1>13 DEF CentreInv

(* The death of a request leaves its row untold.                             *)
LEMMA DiesInv == ASSUME CentreInv, NEW u \in Manager, Dies(u) PROVE CentreInv'
<1>1. /\ telling[u] # Done /\ telling[u].row \in Entity
      /\ untold' = untold \cup {telling[u].row}
      /\ telling' = [telling EXCEPT ![u] = Done]
      /\ UNCHANGED <<centre, told, overtaken>>
  BY DEF CentreInv, CentreTypeOK, Dies
<1>2. CentreTypeOK'
  BY <1>1 DEF CentreInv, CentreTypeOK
<1>3. \A w \in Manager, f \in Entity : /\ Tells(w, f)' <=> w # u /\ Tells(w, f)
                                       /\ Decides(w, f)' <=> w # u /\ Decides(w, f)
  BY <1>1 DEF CentreInv, CentreTypeOK, Tells, Decides
<1>4. \A w \in Manager : w # u => telling'[w] = telling[w]
  BY <1>1 DEF CentreInv, CentreTypeOK
<1>5. DecidedOnce'
  BY <1>1 DEF CentreInv, DecidedOnce
<1>6. OneDecision'
  BY <1>1, <1>3, <1>4 DEF CentreInv, OneDecision, Reviewed, Entity
<1>7. OneTeller'
  BY <1>1, <1>3, <1>4 DEF CentreInv, OneTeller, Matches
<1>8. LastTold'
  <2> SUFFICES ASSUME NEW f \in Entity \ (untold' \cup overtaken),
                      centre[f] # "NONE", ~BeingTold(f)'
               PROVE  told[f] # <<>> /\ Matches(LastOf(told[f]), f)
    BY <1>1 DEF LastTold, Matches
  <2>1. ~BeingTold(f)
    BY <1>1, <1>4 DEF BeingTold
  <2> QED
    BY <1>1, <2>1 DEF CentreInv, LastTold, Matches
<1> QED
  BY <1>2, <1>5, <1>6, <1>7, <1>8 DEF CentreInv

LEMMA CentreStep == ASSUME CentreInv, [CentreNext]_centreVars PROVE CentreInv'
<1> USE IntegrationsAssumption
<1>1. ASSUME NEW w \in Manager, NEW p \in Provider, connect(w, p) \/ disconnect(w, p)
      PROVE  CentreInv'
  <2>1. p \in Entity /\ p \notin Reviewed
    BY DEF Entity, Reviewed
  <2> QED
    BY <1>1, <2>1, WriteInv DEF connect, disconnect, Stand
<1>2. ASSUME NEW w \in Manager, NEW i \in ChecklistItem, updateOnboarding(w, i) PROVE CentreInv'
  <2>1. i \in Entity /\ i \notin Reviewed
    BY DEF Entity, Reviewed
  <2> QED
    BY <1>2, <2>1, WriteInv DEF updateOnboarding, Stand
<1>3. ASSUME NEW w \in Manager, NEW a \in Asset, requestCreative(w, a) \/ reviewCreative(w, a)
      PROVE  CentreInv'
  BY <1>3, WriteInv DEF requestCreative, reviewCreative, Entity, Stand, Decision
<1>4. ASSUME NEW w \in Manager, NEW r \in Recording,
             createTranscriptSuggestion(w, r) \/ reviewTranscriptSuggestion(w, r)
      PROVE  CentreInv'
  BY <1>4, WriteInv DEF createTranscriptSuggestion, reviewTranscriptSuggestion, Entity, Stand, Decision
<1>5. CASE UNCHANGED centreVars
  BY <1>5 DEF CentreInv, CentreTypeOK, DecidedOnce, LastTold, OneDecision, OneTeller, centreVars,
              Tells, Decides, Matches, BeingTold
<1> QED
  BY <1>1, <1>2, <1>3, <1>4, <1>5, ModeratedInv, AuditInv, DiesInv DEF CentreNext

(* For every number of managers, rows and events, the audit events of the    *)
(* integration centre tell of one decision and, where no command overtook    *)
(* another and none died, of the row as it is.                               *)
THEOREM CentreAudited == CentreSpec => []CentreIsAudited
<1>1. CentreInv => CentreIsAudited
  BY DEF CentreInv, CentreIsAudited
<1> QED
  BY <1>1, CentreStart, CentreStep, PTL DEF CentreSpec
=============================================================================
