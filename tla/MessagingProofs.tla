-------------------------- MODULE MessagingProofs --------------------------
(* Proofs about the two sides of the inbox, Messaging and Conversations,   *)
(* for every set of messages, workers, events, customers and agents.       *)
EXTENDS Messaging, Conversations, FiniteSetTheorems, WellFoundedInduction, TLAPS

(* The claim of a message whose sending nobody has asked to repeat keeps    *)
(* its outbox row away from other claims, and the provider has the message  *)
(* at most once, sent by the one worker that is still there to record it.   *)
Unasked(m) == "PERSON" \notin cause[m]
Explained(m) == cause[m] \cap {"PERSON", "UNKNOWN"} # {}

SendInv ==
    /\ \A m \in Message : message[m].status = "NONE" => outbox[m].status = "NONE" /\ ~message[m].media
    /\ \A w \in Worker : At(w, "RETRY") => outbox[task[w].message].status # "NONE"
    /\ \A w \in Worker, m \in Message :
          Sending(w, m) /\ Unasked(m) => outbox[m].status \in {"PROCESSING", "DEAD_LETTER"}
    /\ SendersAlone
    /\ \A m \in Message :
          accepted[m] > 0 /\ ~Explained(m) =>
             /\ accepted[m] = 1
             /\ outbox[m].status \in {"PROCESSING", "SENT", "DEAD_LETTER"}
             /\ \A w \in Worker : Sending(w, m) => task[w].step = "ANSWERED"

(* Where an event is in the history. *)
Where(e) == {x \in Message \X Nat : x[2] \in DOMAIN history[x[1]] /\ e \in history[x[1]][x[2]].by}

Handling(w, e) == task[w].step \in EventStep /\ task[w].event = e

EventInv ==
    /\ \A e \in Event : \A x, y \in Where(e) : x = y
    /\ \A e \in Event : webhook[e].status \in {"PROCESSED", "DUPLICATE"} => Where(e) # {}
    /\ \A w \in Worker, e \in Event : Handling(w, e) =>
          /\ webhook[e].status # "NONE"
          /\ task[w].attempts <= webhook[e].attempts
          /\ webhook[e].status \in Settled => task[w].attempts # webhook[e].attempts
          /\ task[w].step = "PROJECTED" => Where(e) = {}
          /\ task[w].step \in {"RECORDED", "REPEATED"} => Where(e) # {}
    /\ \A v, w \in Worker, e \in Event : v # w /\ Handling(v, e) /\ Handling(w, e) =>
          /\ task[v].attempts # task[w].attempts
          /\ ~(task[v].step = "PROJECTED" /\ task[w].step = "PROJECTED")

IInv == TypeOK /\ SendInv /\ EventInv

USE MessagingAssumption

LEMMA InitIInv == ASSUME Init PROVE IInv
<1>1. TypeOK
  BY DEF Init, TypeOK, MessageRow, OutboxRow, Task, Idle
<1>2. SendInv
  BY DEF Init, SendInv, Sending, SendStep, Idle, At, SendersAlone
<1>3. EventInv
  BY DEF Init, EventInv, Handling, EventStep, Idle, Where, NoWebhook, Settled
<1> QED BY <1>1, <1>2, <1>3 DEF IInv

-----------------------------------------------------------------------------
(* The shapes of tasks. *)
LEMMA TaskShape ==
    ASSUME NEW t \in Task
    PROVE  /\ t.step = "RETRY" => t.message \in Message
           /\ t.step \in DispatchStep \cup SendStep =>
                 /\ t.message \in Message /\ t.attempts \in Nat /\ t.sent \in Nat
                 /\ t.jobs \in SUBSET Job
                 /\ t = [step |-> t.step, message |-> t.message, attempts |-> t.attempts,
                         sent |-> t.sent, jobs |-> t.jobs]
           /\ t.step \in EventStep =>
                 /\ t.event \in Event /\ t.attempts \in Nat /\ t.status \in DeliveryStatus
                 /\ t.seen \in Nat
                 /\ t = [step |-> t.step, event |-> t.event, attempts |-> t.attempts,
                         status |-> t.status, seen |-> t.seen]
BY DEF Task, DispatchStep, SendStep, EventStep

LEMMA SendTask ==
    ASSUME NEW s \in DispatchStep \cup SendStep, NEW m \in Message, NEW a \in Nat, NEW n \in Nat,
           NEW J \in SUBSET Job
    PROVE  [step |-> s, message |-> m, attempts |-> a, sent |-> n, jobs |-> J] \in Task
BY DEF Task

LEMMA EventTask ==
    ASSUME NEW s \in EventStep, NEW e \in Event, NEW a \in Nat, NEW d \in DeliveryStatus, NEW n \in Nat
    PROVE  [step |-> s, event |-> e, attempts |-> a, status |-> d, seen |-> n] \in Task
BY DEF Task

LEMMA SimpleTask == Idle \in Task /\ \A m \in Message : [step |-> "RETRY", message |-> m] \in Task
BY DEF Task, Idle

(* What the history says is a delivery status. *)
LEMMA ProjectionTyped ==
    ASSUME NEW h \in Seq(HistoryRow)
    PROVE  Projection(h) \in DeliveryStatus
<1> DEFINE failures == {i \in DOMAIN h : h[i].status = "FAILED"}
           after == {i \in DOMAIN h \ failures : \A f \in failures : Before(h, f, i)}
           rank(i) == Rank[h[i].status]
           Has(k) == \E i \in after : rank(i) = k
<1>1. \A i \in DOMAIN h : h[i] \in HistoryRow
  OBVIOUS
<1>2. \A i \in DOMAIN h : h[i].status \in DeliveryStatus /\ rank(i) \in 0..5
  BY <1>1 DEF HistoryRow, Rank, DeliveryStatus
<1>3. ASSUME after # {} PROVE \E i \in after : \A j \in after : rank(j) <= rank(i)
  <2>1. \E k \in 0..5 : Has(k) /\ \A l \in 0..5 : Has(l) => l <= k
    <3>1. \E k \in 0..5 : Has(k)
      BY <1>2, <1>3
    <3> HIDE DEF Has
    <3> QED BY <3>1
  <2>2. PICK k \in 0..5 : Has(k) /\ \A l \in 0..5 : Has(l) => l <= k
    BY <2>1
  <2>3. PICK i \in after : rank(i) = k
    BY <2>2
  <2>4. \A j \in after : rank(j) <= k
    <3> TAKE j \in after
    <3>1. Has(rank(j)) /\ rank(j) \in 0..5
      BY <1>2
    <3> HIDE DEF Has, rank
    <3> QED BY <3>1, <2>2
  <2> QED BY <2>3, <2>4
<1>4. \/ Projection(h) \in {"FAILED", "QUEUED"}
      \/ \E i \in after : Projection(h) = h[i].status
  <2> CASE after = {}
    BY DEF Projection
  <2> CASE after # {}
    BY <1>3 DEF Projection
  <2> QED OBVIOUS
<1> QED BY <1>2, <1>4 DEF DeliveryStatus

-----------------------------------------------------------------------------
(* A row appended to one history leaves every event where it was and adds   *)
(* the place of the one it is by.                                           *)
LEMMA Appended ==
    ASSUME history \in [Message -> Seq(HistoryRow)], NEW m \in Message, NEW row \in HistoryRow,
           history' = [history EXCEPT ![m] = Append(@, row)]
    PROVE  /\ history' \in [Message -> Seq(HistoryRow)]
           /\ \A e \in Event :
                 Where(e)' = Where(e) \cup (IF e \in row.by THEN {<<m, Len(history[m]) + 1>>} ELSE {})
<1> DEFINE new == Len(history[m]) + 1
<1>1. /\ history[m] \in Seq(HistoryRow) /\ Len(history[m]) \in Nat
      /\ DOMAIN history[m] = 1..Len(history[m])
  OBVIOUS
<1>2. /\ history'[m] = Append(history[m], row)
      /\ \A n \in Message \ {m} : history'[n] = history[n]
  OBVIOUS
<1>3. /\ DOMAIN history'[m] = 1..new /\ history'[m][new] = row
      /\ \A i \in 1..Len(history[m]) : history'[m][i] = history[m][i]
      /\ history'[m] \in Seq(HistoryRow)
  BY <1>1, <1>2
<1>4. history' \in [Message -> Seq(HistoryRow)]
  BY <1>3
<1>5. ASSUME NEW e \in Event, NEW n \in Message, NEW i \in Nat
      PROVE  <<n, i>> \in Where(e)' <=>
                <<n, i>> \in Where(e) \cup (IF e \in row.by THEN {<<m, new>>} ELSE {})
  <2>1. CASE n # m
    BY <2>1, <1>2 DEF Where
  <2>2. CASE n = m
    <3>1. <<m, i>> \in Where(e)' <=> i \in 1..new /\ e \in history'[m][i].by
      BY <1>3 DEF Where
    <3>2. <<m, i>> \in Where(e) <=> i \in 1..Len(history[m]) /\ e \in history[m][i].by
      BY <1>1 DEF Where
    <3> QED BY <2>2, <3>1, <3>2, <1>1, <1>3
  <2> QED BY <2>1, <2>2
<1>6. ASSUME NEW e \in Event
      PROVE  Where(e)' = Where(e) \cup (IF e \in row.by THEN {<<m, new>>} ELSE {})
  <2>1. /\ \A x \in Where(e)' : x \in Message \X Nat
        /\ \A x \in Where(e) : x \in Message \X Nat
        /\ <<m, new>> \in Message \X Nat
    BY <1>1 DEF Where
  <2> QED BY <2>1, <1>5
<1> QED BY <1>4, <1>6

LEMMA RecordedWhere ==
    ASSUME history \in [Message -> Seq(HistoryRow)], NEW e \in Event
    PROVE  Recorded(e) <=> Where(e) # {}
<1>1. ASSUME NEW m \in Message, NEW i \in DOMAIN history[m], e \in history[m][i].by
      PROVE  <<m, i>> \in Where(e)
  <2>1. DOMAIN history[m] \subseteq Nat
    OBVIOUS
  <2> QED BY <1>1, <2>1 DEF Where
<1>2. ASSUME NEW x \in Where(e)
      PROVE  x[1] \in Message /\ x[2] \in DOMAIN history[x[1]] /\ e \in history[x[1]][x[2]].by
  BY DEF Where
<1>3. Recorded(e) => Where(e) # {}
  BY <1>1 DEF Recorded
<1>4. Where(e) # {} => Recorded(e)
  BY <1>2 DEF Recorded
<1> QED BY <1>3, <1>4

-----------------------------------------------------------------------------
(* A worker that goes to a step at which it does not send changes nothing   *)
(* about who sends, and neither does a row that is queued, given up or      *)
(* queued again by a person.                                                *)
LEMMA SendQuiet ==
    ASSUME TypeOK, SendInv,
           \A v \in Worker : \/ task'[v] = task[v]
                             \/ task'[v].step \notin SendStep \cup {"RETRY"}
                             \/ /\ task'[v].step = "RETRY" /\ task'[v].message \in Message
                                /\ outbox[task'[v].message].status # "NONE",
           \A m \in Message :
              \/ outbox'[m].status = outbox[m].status
              \/ outbox[m].status = "NONE" /\ outbox'[m].status # "NONE" /\ message'[m].status # "NONE"
              \/ outbox[m].status = "PROCESSING" /\ outbox'[m].status = "DEAD_LETTER"
              \/ "PERSON" \in cause'[m] /\ outbox[m].status # "NONE" /\ outbox'[m].status # "NONE",
           accepted' = accepted,
           \A m \in Message : cause[m] \subseteq cause'[m],
           \A m \in Message : message'[m].status = "NONE" => message'[m] = message[m]
    PROVE  SendInv'
<1>1. \A v \in Worker : task'[v].message \in Message \/ task'[v].step # "RETRY" \/ task'[v] # task[v]
  BY TaskShape DEF TypeOK
<1>2. \A v \in Worker, m \in Message : Sending(v, m)' => Sending(v, m) /\ task'[v] = task[v]
  BY DEF Sending, SendStep
<1>3. \A m \in Message : message'[m].status = "NONE" => outbox'[m].status = "NONE" /\ ~message'[m].media
  BY DEF SendInv
<1>4. ASSUME NEW v \in Worker, task'[v].step = "RETRY"
      PROVE  outbox'[task'[v].message].status # "NONE"
  <2>1. CASE task'[v] = task[v]
    <3>1. outbox[task[v].message].status # "NONE" /\ task[v].message \in Message
      BY <1>1, <1>4, <2>1 DEF SendInv, At
    <3> QED BY <2>1, <3>1
  <2>2. CASE outbox[task'[v].message].status # "NONE" /\ task'[v].message \in Message
    BY <2>2
  <2> QED BY <1>4, <2>1, <2>2
<1>5. ASSUME NEW v \in Worker, NEW m \in Message, Sending(v, m)', Unasked(m)'
      PROVE  outbox'[m].status \in {"PROCESSING", "DEAD_LETTER"}
  <2>1. Sending(v, m) /\ Unasked(m)
    BY <1>2, <1>5 DEF Sending, Unasked
  <2>2. outbox[m].status \in {"PROCESSING", "DEAD_LETTER"}
    BY <2>1 DEF SendInv
  <2> QED BY <2>2, <1>5 DEF Unasked
<1>6. SendersAlone'
  BY <1>2 DEF SendInv, SendersAlone
<1>7. ASSUME NEW m \in Message, accepted'[m] > 0, ~Explained(m)'
      PROVE  /\ accepted'[m] = 1
             /\ outbox'[m].status \in {"PROCESSING", "SENT", "DEAD_LETTER"}
             /\ \A v \in Worker : Sending(v, m)' => task'[v].step = "ANSWERED"
  <2>1. accepted[m] > 0 /\ ~Explained(m) /\ "PERSON" \notin cause'[m]
    BY <1>7 DEF Explained
  <2>2. /\ accepted[m] = 1
        /\ outbox[m].status \in {"PROCESSING", "SENT", "DEAD_LETTER"}
        /\ \A v \in Worker : Sending(v, m) => task[v].step = "ANSWERED"
    BY <2>1 DEF SendInv
  <2> QED BY <2>1, <2>2, <1>2
<1> QED BY <1>3, <1>4, <1>5, <1>6, <1>7 DEF SendInv, At

(* A worker that is sending goes on, and leaves the row of its message as   *)
(* the invariant wants it.                                                  *)
LEMMA SendOn ==
    ASSUME TypeOK, SendInv, NEW w \in Worker, NEW m \in Message, Sending(w, m), NEW t \in Task,
           task' = [task EXCEPT ![w] = t],
           t.step \in SendStep => t.message = m, t.step # "RETRY",
           \A n \in Message \ {m} : outbox'[n] = outbox[n] /\ accepted'[n] = accepted[n],
           \A n \in Message : cause[n] \subseteq cause'[n],
           \A n \in Message : message'[n].status = "NONE" => message'[n] = message[n],
           \/ outbox'[m].status = outbox[m].status
           \/ outbox'[m].status # "NONE" /\ message'[m].status # "NONE",
           "PERSON" \notin cause'[m] /\ t.step \in SendStep =>
               outbox'[m].status \in {"PROCESSING", "DEAD_LETTER"},
           accepted'[m] > 0 /\ cause'[m] \cap {"PERSON", "UNKNOWN"} = {} =>
               /\ accepted'[m] = 1
               /\ outbox'[m].status \in {"PROCESSING", "SENT", "DEAD_LETTER"}
               /\ t.step \in SendStep => t.step = "ANSWERED"
    PROVE  SendInv'
<1>1. \A v \in Worker : task'[v] = IF v = w THEN t ELSE task[v]
  BY DEF TypeOK
<1>2. \A v \in Worker, n \in Message : Sending(v, n)' => Sending(v, n)
  BY <1>1 DEF Sending
<1>3. \A n \in Message : message'[n].status = "NONE" => outbox'[n].status = "NONE" /\ ~message'[n].media
  BY DEF SendInv
<1>4. ASSUME NEW v \in Worker, task'[v].step = "RETRY"
      PROVE  outbox'[task'[v].message].status # "NONE"
  <2>1. v # w /\ task'[v] = task[v] /\ task[v].step = "RETRY"
    BY <1>1, <1>4
  <2>2. task[v].message \in Message /\ outbox[task[v].message].status # "NONE"
    BY <2>1, TaskShape DEF SendInv, At, TypeOK
  <2> QED BY <2>1, <2>2
<1>5. ASSUME NEW v \in Worker, NEW n \in Message, v # w, Sending(v, m)', n = m
      PROVE  "PERSON" \in cause'[m]
  BY <1>2, <1>5 DEF SendInv, SendersAlone
<1>6. ASSUME NEW v \in Worker, NEW n \in Message, Sending(v, n)', Unasked(n)'
      PROVE  outbox'[n].status \in {"PROCESSING", "DEAD_LETTER"}
  <2>1. CASE n # m
    <3>1. Sending(v, n) /\ Unasked(n)
      BY <1>2, <1>6 DEF Sending, Unasked
    <3> QED BY <2>1, <3>1 DEF SendInv
  <2>2. CASE n = m
    BY <2>2, <1>1, <1>5, <1>6 DEF Unasked, Sending
  <2> QED BY <2>1, <2>2
<1>7. SendersAlone'
  BY <1>2 DEF SendInv, SendersAlone
<1>8. ASSUME NEW n \in Message, accepted'[n] > 0, ~Explained(n)'
      PROVE  /\ accepted'[n] = 1
             /\ outbox'[n].status \in {"PROCESSING", "SENT", "DEAD_LETTER"}
             /\ \A v \in Worker : Sending(v, n)' => task'[v].step = "ANSWERED"
  <2>1. CASE n # m
    <3>1. accepted[n] > 0 /\ ~Explained(n)
      BY <2>1, <1>8 DEF Explained
    <3>2. /\ accepted[n] = 1
          /\ outbox[n].status \in {"PROCESSING", "SENT", "DEAD_LETTER"}
          /\ \A v \in Worker : Sending(v, n) => task[v].step = "ANSWERED"
      BY <3>1 DEF SendInv
    <3>3. ~Sending(w, n)
      BY <2>1 DEF Sending
    <3> QED BY <2>1, <3>2, <3>3, <1>1, <1>2
  <2>2. CASE n = m
    <3>1. \A v \in Worker : Sending(v, m)' => v = w
      BY <2>2, <1>5, <1>8 DEF Explained
    <3> QED BY <2>2, <3>1, <1>1, <1>8 DEF Explained, Sending
  <2> QED BY <2>1, <2>2
<1> QED BY <1>3, <1>4, <1>6, <1>7, <1>8 DEF SendInv, At

(* A worker that goes to a step at which it handles no event changes        *)
(* nothing about events, and neither does an event that is received.        *)
LEMMA EventQuiet ==
    ASSUME TypeOK, EventInv,
           \A v \in Worker : task'[v] = task[v] \/ task'[v].step \notin EventStep,
           \A e \in Event : \/ webhook'[e] = webhook[e]
                            \/ webhook[e].status = "NONE" /\ webhook'[e].status = "RECEIVED",
           \A e \in Event : Where(e)' = Where(e)
    PROVE  EventInv'
<1>2. \A v \in Worker, e \in Event : Handling(v, e)' => Handling(v, e) /\ task'[v] = task[v]
  BY DEF Handling
<1>3. /\ \A e \in Event : \A x, y \in Where(e)' : x = y
      /\ \A e \in Event : webhook'[e].status \in {"PROCESSED", "DUPLICATE"} => Where(e)' # {}
  BY DEF EventInv
<1>4. ASSUME NEW v \in Worker, NEW e \in Event, Handling(v, e)'
      PROVE  /\ webhook'[e].status # "NONE"
             /\ task'[v].attempts <= webhook'[e].attempts
             /\ webhook'[e].status \in Settled => task'[v].attempts # webhook'[e].attempts
             /\ task'[v].step = "PROJECTED" => Where(e)' = {}
             /\ task'[v].step \in {"RECORDED", "REPEATED"} => Where(e)' # {}
  <2>1. Handling(v, e) /\ task'[v] = task[v]
    BY <1>2, <1>4
  <2>2. webhook'[e] = webhook[e]
    BY <2>1 DEF EventInv
  <2> QED BY <2>1, <2>2 DEF EventInv
<1>5. ASSUME NEW u \in Worker, NEW v \in Worker, NEW e \in Event,
             u # v, Handling(u, e)', Handling(v, e)'
      PROVE  /\ task'[u].attempts # task'[v].attempts
             /\ ~(task'[u].step = "PROJECTED" /\ task'[v].step = "PROJECTED")
  BY <1>2, <1>5 DEF EventInv
<1> QED BY <1>3, <1>4, <1>5 DEF EventInv, Settled

(* Showing a status writes no event. *)
LEMMA ShowStep ==
    ASSUME TypeOK, NEW m \in Message, NEW status \in DeliveryStatus, NEW sent \in Nat,
           Show(m, status, sent)
    PROVE  /\ message' \in [Message -> MessageRow]
           /\ history' \in [Message -> Seq(HistoryRow)]
           /\ \A e \in Event : Where(e)' = Where(e)
           /\ \A n \in Message : message'[n].status = "NONE" => message'[n] = message[n]
           /\ message'[m].status = status
<1>1. Row(status, Now, {}) \in HistoryRow /\ Row(status, Now, {}).by = {}
  BY DEF Row, HistoryRow, Now
<1> DEFINE shown == [[message[m] EXCEPT !.status = status] EXCEPT !.sent = sent]
<1>8. shown \in MessageRow /\ shown.status = status
  BY DEF TypeOK, MessageRow
<1>9. message' = [message EXCEPT ![m] = shown]
  BY DEF TypeOK, Show
<1> HIDE DEF shown
<1>2. message' \in [Message -> MessageRow]
  BY <1>8, <1>9 DEF TypeOK
<1>3. /\ \A n \in Message : message'[n].status = "NONE" => message'[n] = message[n]
      /\ message'[m].status = status
  BY <1>8, <1>9 DEF TypeOK, DeliveryStatus
<1> DEFINE row == Row(status, Now, {})
<1>4. history \in [Message -> Seq(HistoryRow)] /\ history' = [history EXCEPT ![m] = Append(@, row)]
  BY DEF TypeOK, Show
<1>5. row \in HistoryRow /\ row.by = {}
  BY <1>1
<1> HIDE DEF row
<1>6. /\ history' \in [Message -> Seq(HistoryRow)]
      /\ \A e \in Event :
            Where(e)' = Where(e) \cup (IF e \in row.by THEN {<<m, Len(history[m]) + 1>>} ELSE {})
  BY <1>4, <1>5, Appended
<1>7. \A e \in Event : Where(e)' = Where(e)
  BY <1>5, <1>6
<1> QED BY <1>2, <1>3, <1>6, <1>7

-----------------------------------------------------------------------------
(* What the changes to a worker's task give.                                *)
LEMMA TaskStep ==
    ASSUME NEW t \in Task, t.step \in DispatchStep \cup SendStep,
           NEW s \in DispatchStep \cup SendStep
    PROVE  \E u \in Task : u = [t EXCEPT !.step = s] /\ u.step = s /\ u.message = t.message
<1>1. PICK c \in DispatchStep \cup SendStep, m \in Message, b \in Nat, n \in Nat, J \in SUBSET Job :
         t = [step |-> c, message |-> m, attempts |-> b, sent |-> n, jobs |-> J]
  BY TaskShape
<1> DEFINE r == [t EXCEPT !.step = s]
<1>2. r = [step |-> s, message |-> m, attempts |-> b, sent |-> n, jobs |-> J] /\ t.message = m
  BY <1>1
<1>3. r \in Task /\ r.step = s /\ r.message = t.message
  BY <1>2, SendTask
<1> QED BY <1>3

LEMMA TaskCount ==
    ASSUME NEW t \in Task, t.step \in DispatchStep \cup SendStep, NEW a \in Nat
    PROVE  /\ \E u \in Task : u = [t EXCEPT !.attempts = a] /\ u.step = t.step /\ u.message = t.message
           /\ \E u \in Task : u = [t EXCEPT !.sent = a] /\ u.step = t.step /\ u.message = t.message
<1>1. PICK c \in DispatchStep \cup SendStep, m \in Message, b \in Nat, n \in Nat, J \in SUBSET Job :
         t = [step |-> c, message |-> m, attempts |-> b, sent |-> n, jobs |-> J]
  BY TaskShape
<1>2. [t EXCEPT !.attempts = a] = [step |-> c, message |-> m, attempts |-> a, sent |-> n, jobs |-> J]
  BY <1>1
<1>3. [t EXCEPT !.sent = a] = [step |-> c, message |-> m, attempts |-> b, sent |-> a, jobs |-> J]
  BY <1>1
<1>4. t.step = c /\ t.message = m
  BY <1>1
<1> QED BY <1>2, <1>3, <1>4, SendTask

LEMMA EventTaskStep ==
    ASSUME NEW t \in Task, t.step \in EventStep, NEW s \in EventStep
    PROVE  \E u \in Task : /\ u = [t EXCEPT !.step = s]
                           /\ u.step = s /\ u.event = t.event /\ u.attempts = t.attempts
<1>1. PICK b \in EventStep, e \in Event, a \in Nat, c \in DeliveryStatus, k \in Nat :
         t = [step |-> b, event |-> e, attempts |-> a, status |-> c, seen |-> k]
  BY TaskShape
<1>2. [t EXCEPT !.step = s] = [step |-> s, event |-> e, attempts |-> a, status |-> c, seen |-> k]
  BY <1>1
<1>3. t.event = e /\ t.attempts = a
  BY <1>1
<1> QED BY <1>2, <1>3, EventTask

LEMMA EventTaskSeen ==
    ASSUME NEW t \in Task, t.step \in EventStep, NEW n \in Nat
    PROVE  \E u \in Task : /\ u = [t EXCEPT !.seen = n]
                           /\ u.step = t.step /\ u.event = t.event /\ u.attempts = t.attempts
<1>1. PICK b \in EventStep, e \in Event, a \in Nat, c \in DeliveryStatus, k \in Nat :
         t = [step |-> b, event |-> e, attempts |-> a, status |-> c, seen |-> k]
  BY TaskShape
<1>2. [t EXCEPT !.seen = n] = [step |-> b, event |-> e, attempts |-> a, status |-> c, seen |-> n]
  BY <1>1
<1>3. t.step = b /\ t.event = e /\ t.attempts = a
  BY <1>1
<1> QED BY <1>2, <1>3, EventTask

LEMMA EventTaskStatus ==
    ASSUME NEW t \in Task, t.step \in EventStep, NEW d \in DeliveryStatus
    PROVE  \E u \in Task : /\ u = [t EXCEPT !.status = d]
                           /\ u.step = t.step /\ u.event = t.event /\ u.attempts = t.attempts
<1>1. PICK b \in EventStep, e \in Event, a \in Nat, c \in DeliveryStatus, k \in Nat :
         t = [step |-> b, event |-> e, attempts |-> a, status |-> c, seen |-> k]
  BY TaskShape
<1>2. [t EXCEPT !.status = d] = [step |-> b, event |-> e, attempts |-> a, status |-> d, seen |-> k]
  BY <1>1
<1>3. t.step = b /\ t.event = e /\ t.attempts = a
  BY <1>1
<1> QED BY <1>2, <1>3, EventTask

LEMMA Tasked ==
    ASSUME TypeOK, NEW w \in Worker, NEW t \in Task, SetTask(w, t)
    PROVE  /\ task' \in [Worker -> Task] /\ task' = [task EXCEPT ![w] = t]
           /\ \A v \in Worker : task'[v] = IF v = w THEN t ELSE task[v]
BY DEF TypeOK, SetTask

LEMMA HistoryKept ==
    ASSUME history' = history PROVE \A e \in Event : Where(e)' = Where(e)
BY DEF Where

LEMMA ComposeStep ==
    ASSUME TypeOK, SendInv, NEW m \in Message, NEW media \in BOOLEAN, Compose(m, media)
    PROVE  /\ message' \in [Message -> MessageRow]
           /\ history' \in [Message -> Seq(HistoryRow)]
           /\ \A e \in Event : Where(e)' = Where(e)
           /\ \A n \in Message : message'[n].status = "NONE" => message'[n] = message[n]
           /\ message'[m].status # "NONE" /\ outbox[m].status = "NONE"
<1> DEFINE row == Row("QUEUED", Now, {})
           r == [status |-> "QUEUED", sent |-> 0, media |-> media]
<1>1. row \in HistoryRow /\ row.by = {} /\ r \in MessageRow /\ r.status = "QUEUED"
  BY DEF Row, HistoryRow, MessageRow, DeliveryStatus, Now
<1>2. /\ history \in [Message -> Seq(HistoryRow)] /\ history' = [history EXCEPT ![m] = Append(@, row)]
      /\ message \in [Message -> MessageRow] /\ message' = [message EXCEPT ![m] = r]
      /\ message[m].status = "NONE" /\ outbox[m].status = "NONE"
  BY DEF TypeOK, Compose, SendInv
<1> HIDE DEF row, r
<1>3. /\ history' \in [Message -> Seq(HistoryRow)]
      /\ \A e \in Event :
            Where(e)' = Where(e) \cup (IF e \in row.by THEN {<<m, Len(history[m]) + 1>>} ELSE {})
  BY <1>1, <1>2, Appended
<1>4. \A e \in Event : Where(e)' = Where(e)
  BY <1>1, <1>3
<1> QED BY <1>1, <1>2, <1>3, <1>4

-----------------------------------------------------------------------------
(* The invariant is preserved, an action at a time.                         *)
LEMMA ComposeKeeps ==
    ASSUME IInv, NEW m \in Message,
           \/ QueueAutomatedReminder(m) \/ BeginMediaUpload(m)
           \/ \E w \in Worker : SendMessage(w, m)
    PROVE  IInv'
<1> USE DEF IInv
<1>1. \E media \in BOOLEAN : Compose(m, media)
  BY DEF QueueAutomatedReminder, BeginMediaUpload, SendMessage
<1>2. /\ message' \in [Message -> MessageRow]
      /\ history' \in [Message -> Seq(HistoryRow)]
      /\ \A e \in Event : Where(e)' = Where(e)
      /\ \A n \in Message : message'[n].status = "NONE" => message'[n] = message[n]
      /\ message'[m].status # "NONE" /\ outbox[m].status = "NONE"
  BY <1>1, ComposeStep
<1>3. outbox' = outbox \/ outbox' = [outbox EXCEPT ![m] = Queued]
  BY DEF QueueAutomatedReminder, BeginMediaUpload, SendMessage
<1>4. UNCHANGED <<webhook, job, accepted, cause>>
  BY DEF QueueAutomatedReminder, BeginMediaUpload, SendMessage
<1>5. Queued \in OutboxRow /\ Queued.status = "PENDING"
  BY DEF Queued, OutboxRow, OutboxStatus
<1>6. /\ task' \in [Worker -> Task]
      /\ \A v \in Worker : task'[v] = task[v] \/ task'[v].step = "DISPATCH"
  <2>1. CASE task' = task
    BY <2>1 DEF TypeOK
  <2>2. ASSUME NEW w \in Worker, SendMessage(w, m)
        PROVE  /\ task' \in [Worker -> Task]
               /\ \A v \in Worker : task'[v] = task[v] \/ task'[v].step = "DISPATCH"
    <3>1. Dispatching(m, {}) \in Task /\ Dispatching(m, {}).step = "DISPATCH"
      BY SendTask DEF Dispatching, DispatchStep
    <3>2. SetTask(w, Dispatching(m, {}))
      BY <2>2 DEF SendMessage
    <3> QED BY <3>1, <3>2, Tasked
  <2> QED BY <2>1, <2>2 DEF QueueAutomatedReminder, BeginMediaUpload
<1>7. TypeOK'
  <2>1. outbox' \in [Message -> OutboxRow]
    BY <1>3, <1>5 DEF TypeOK
  <2>2. /\ webhook' = webhook /\ job' = job /\ accepted' = accepted /\ cause' = cause
        /\ message' \in [Message -> MessageRow] /\ history' \in [Message -> Seq(HistoryRow)]
        /\ task' \in [Worker -> Task]
    BY <1>2, <1>4, <1>6
  <2> QED BY <2>1, <2>2 DEF TypeOK
<1>8. SendInv'
  <2>1. \A n \in Message :
           \/ outbox'[n].status = outbox[n].status
           \/ outbox[n].status = "NONE" /\ outbox'[n].status # "NONE" /\ message'[n].status # "NONE"
    BY <1>2, <1>3, <1>5 DEF TypeOK
  <2>2. \A v \in Worker : task'[v] = task[v] \/ task'[v].step \notin SendStep \cup {"RETRY"}
    BY <1>6 DEF SendStep
  <2> QED BY <1>2, <1>4, <2>1, <2>2, SendQuiet
<1>9. EventInv'
  BY <1>2, <1>4, <1>6, EventQuiet DEF EventStep
<1> QED BY <1>7, <1>8, <1>9

LEMMA TaskOnly ==
    ASSUME IInv, NEW w \in Worker, NEW t \in Task, SetTask(w, t),
           t.step \notin SendStep \cup EventStep,
           t.step = "RETRY" => t.message \in Message /\ outbox[t.message].status # "NONE",
           UNCHANGED <<message, history, webhook, accepted>>, outbox' = outbox, job' \subseteq Job,
           cause' \in [Message -> SUBSET {"PERSON", "UNKNOWN", "CRASH", "OVERLAP"}],
           \A m \in Message : cause[m] \subseteq cause'[m]
    PROVE  IInv'
<1> USE DEF IInv
<1>1. /\ task' \in [Worker -> Task]
      /\ \A v \in Worker : task'[v] = IF v = w THEN t ELSE task[v]
  BY Tasked
<1>2. TypeOK'
  BY <1>1 DEF TypeOK
<1>3. SendInv'
  BY <1>1, SendQuiet
<1>4. EventInv'
  BY <1>1, HistoryKept, EventQuiet
<1> QED BY <1>2, <1>3, <1>4

LEMMA RetryKeeps == ASSUME IInv, NEW w \in Worker, NEW m \in Message, Retry(w, m) PROVE IInv'
<1> DEFINE t == [step |-> "RETRY", message |-> m]
<1>1. t \in Task /\ t.step = "RETRY" /\ t.message = m
  BY SimpleTask
<1>2. SetTask(w, t) /\ outbox[m].status # "NONE" /\ UNCHANGED <<db, job, accepted, cause>>
  BY DEF Retry
<1>3. /\ UNCHANGED <<message, history, webhook, accepted>> /\ outbox' = outbox /\ job' \subseteq Job
      /\ cause' \in [Message -> SUBSET {"PERSON", "UNKNOWN", "CRASH", "OVERLAP"}]
      /\ \A n \in Message : cause[n] \subseteq cause'[n]
  BY <1>2 DEF db, IInv, TypeOK
<1> HIDE DEF t
<1> QED BY <1>1, <1>2, <1>3, TaskOnly DEF SendStep, EventStep

LEMMA DispatchKeeps ==
    ASSUME IInv, NEW w \in Worker,
           \/ \E j \in job : RunJob(w, j)
           \/ FindsAbandoned(w) \/ NothingToClaim(w) \/ Crash(w)
    PROVE  IInv'
<1> USE DEF IInv
<1>1. task[w] \in Task
  BY DEF TypeOK
<1>2. PICK t \in Task : SetTask(w, t) /\ t.step \in {"IDLE", "DISPATCH", "ABANDONED"}
  <2>1. ASSUME NEW j \in job, RunJob(w, j)
        PROVE  \E t \in Task : SetTask(w, t) /\ t.step \in {"IDLE", "DISPATCH", "ABANDONED"}
    <3>1. j.message \in Message /\ {j} \in SUBSET Job
      BY DEF TypeOK, Job
    <3>2. Dispatching(j.message, {j}) \in Task /\ Dispatching(j.message, {j}).step = "DISPATCH"
      BY <3>1, SendTask DEF Dispatching, DispatchStep
    <3> QED BY <2>1, <3>2 DEF RunJob
  <2>2. ASSUME FindsAbandoned(w)
        PROVE  \E t \in Task : SetTask(w, t) /\ t.step \in {"IDLE", "DISPATCH", "ABANDONED"}
    <3>1. task[w].step \in DispatchStep \cup SendStep /\ "ABANDONED" \in DispatchStep \cup SendStep
      BY <2>2 DEF FindsAbandoned, At, DispatchStep
    <3>2. \E t \in Task : t = [task[w] EXCEPT !.step = "ABANDONED"] /\ t.step = "ABANDONED"
      BY <1>1, <3>1, TaskStep
    <3> QED BY <2>2, <3>2 DEF FindsAbandoned
  <2>3. Idle \in Task /\ Idle.step = "IDLE"
    BY SimpleTask DEF Idle
  <2>4. CASE NothingToClaim(w) \/ Crash(w)
    BY <2>3, <2>4 DEF NothingToClaim, Crash, Finished
  <2> QED BY <2>1, <2>2, <2>4
<1>3. UNCHANGED <<message, history, webhook, accepted>> /\ outbox' = outbox /\ job' \subseteq job
  BY DEF RunJob, FindsAbandoned, NothingToClaim, Finished, Crash, db
<1>4. /\ cause' \in [Message -> SUBSET {"PERSON", "UNKNOWN", "CRASH", "OVERLAP"}]
      /\ \A m \in Message : cause[m] \subseteq cause'[m]
  <2>1. CASE cause' = cause
    BY <2>1 DEF TypeOK
  <2>2. CASE Crash(w) /\ task[w].step \in SendStep
    <3>1. PICK m \in Message : task[w].message = m
      BY <1>1, <2>2, TaskShape
    <3>2. cause' = [cause EXCEPT ![m] = @ \cup {"CRASH"}]
      BY <2>2, <3>1 DEF Crash
    <3> QED BY <3>2 DEF TypeOK
  <2> QED BY <2>1, <2>2 DEF RunJob, FindsAbandoned, NothingToClaim, Crash
<1> QED BY <1>2, <1>3, <1>4, TaskOnly DEF SendStep, EventStep, TypeOK

LEMMA CompleteKeeps ==
    ASSUME IInv, NEW w \in Worker, NEW m \in Message, CompleteMediaUpload(w, m) PROVE IInv'
<1> USE DEF IInv
<1>1. Dispatching(m, {}) \in Task /\ Dispatching(m, {}).step = "DISPATCH"
  BY SendTask DEF Dispatching, DispatchStep
<1>2. /\ message[m].media
      /\ outbox' = [outbox EXCEPT ![m] = IF @.status = "NONE" THEN Queued ELSE @]
      /\ SetTask(w, Dispatching(m, {}))
      /\ UNCHANGED <<message, history, webhook, job, accepted, cause>>
  BY DEF CompleteMediaUpload
<1>3. /\ task' \in [Worker -> Task]
      /\ \A v \in Worker : task'[v] = task[v] \/ task'[v].step = "DISPATCH"
  BY <1>1, <1>2, Tasked
<1>4. Queued \in OutboxRow /\ Queued.status = "PENDING"
  BY DEF Queued, OutboxRow, OutboxStatus
<1>5. TypeOK'
  BY <1>2, <1>3, <1>4 DEF TypeOK
<1>6. SendInv'
  <2>1. message[m].status # "NONE"
    BY <1>2 DEF SendInv
  <2>2. \A n \in Message :
           \/ outbox'[n].status = outbox[n].status
           \/ outbox[n].status = "NONE" /\ outbox'[n].status # "NONE" /\ message'[n].status # "NONE"
    BY <1>2, <1>4, <2>1 DEF TypeOK
  <2>3. \A v \in Worker : task'[v] = task[v] \/ task'[v].step \notin SendStep \cup {"RETRY"}
    BY <1>3 DEF SendStep
  <2> QED BY <1>2, <2>2, <2>3, SendQuiet
<1>7. EventInv'
  BY <1>2, <1>3, HistoryKept, EventQuiet DEF EventStep
<1> QED BY <1>5, <1>6, <1>7

LEMMA RequeueKeeps == ASSUME IInv, NEW w \in Worker, Requeue(w) PROVE IInv'
<1> USE DEF IInv
<1>1. PICK m \in Message : task[w].message = m /\ outbox[m].status # "NONE"
  <2>1. task[w] \in Task /\ task[w].step = "RETRY"
    BY DEF Requeue, At, TypeOK
  <2>2. task[w].message \in Message
    BY <2>1, TaskShape
  <2>3. outbox[task[w].message].status # "NONE"
    BY <2>1 DEF SendInv, At
  <2> QED BY <2>2, <2>3
<1>2. Dispatching(m, {}) \in Task /\ Dispatching(m, {}).step = "DISPATCH"
  BY SendTask DEF Dispatching, DispatchStep
<1>3. /\ outbox' = [outbox EXCEPT ![m].status = "PENDING"]
      /\ cause' = [cause EXCEPT ![m] = @ \cup {"PERSON"}]
      /\ SetTask(w, Dispatching(m, {}))
      /\ UNCHANGED <<message, history, webhook, job, accepted>>
  BY <1>1 DEF Requeue
<1>4. /\ task' \in [Worker -> Task]
      /\ \A v \in Worker : task'[v] = task[v] \/ task'[v].step = "DISPATCH"
  BY <1>2, <1>3, Tasked
<1>5. /\ outbox' \in [Message -> OutboxRow]
      /\ \A n \in Message : outbox'[n] = outbox[n] \/ (n = m /\ outbox'[n].status = "PENDING")
  <2> DEFINE r == [outbox[m] EXCEPT !.status = "PENDING"]
  <2>1. r \in OutboxRow /\ r.status = "PENDING" /\ outbox' = [outbox EXCEPT ![m] = r]
    BY <1>3 DEF TypeOK, OutboxRow, OutboxStatus
  <2> HIDE DEF r
  <2> QED BY <2>1 DEF TypeOK
<1>6. /\ cause' \in [Message -> SUBSET {"PERSON", "UNKNOWN", "CRASH", "OVERLAP"}]
      /\ \A n \in Message : cause[n] \subseteq cause'[n]
      /\ "PERSON" \in cause'[m]
  BY <1>3 DEF TypeOK
<1>7. TypeOK'
  BY <1>3, <1>4, <1>5, <1>6 DEF TypeOK
<1>8. SendInv'
  <2>1. \A n \in Message :
           \/ outbox'[n].status = outbox[n].status
           \/ "PERSON" \in cause'[n] /\ outbox[n].status # "NONE" /\ outbox'[n].status # "NONE"
    BY <1>1, <1>5, <1>6
  <2>2. \A v \in Worker : task'[v] = task[v] \/ task'[v].step \notin SendStep \cup {"RETRY"}
    BY <1>4 DEF SendStep
  <2> QED BY <1>3, <1>6, <2>1, <2>2, SendQuiet
<1>9. EventInv'
  BY <1>3, <1>4, HistoryKept, EventQuiet DEF EventStep
<1> QED BY <1>7, <1>8, <1>9

LEMMA DeadLetterKeeps == ASSUME IInv, NEW w \in Worker, DeadLetter(w) PROVE IInv'
<1> USE DEF IInv
<1>1. PICK m \in Message : task[w].message = m
  BY TaskShape DEF DeadLetter, At, DispatchStep, TypeOK
<1>2. /\ Show(m, "FAILED", message[m].sent)
      /\ outbox' = [outbox EXCEPT ![m] =
                       IF @.status = "PROCESSING" THEN [@ EXCEPT !.status = "DEAD_LETTER"] ELSE @]
      /\ SetTask(w, Idle) /\ job' \subseteq job
      /\ UNCHANGED <<webhook, accepted, cause>>
  BY <1>1 DEF DeadLetter, Finished
<1>3. message[m].sent \in Nat /\ "FAILED" \in DeliveryStatus
  BY DEF TypeOK, MessageRow, DeliveryStatus
<1>4. /\ message' \in [Message -> MessageRow]
      /\ history' \in [Message -> Seq(HistoryRow)]
      /\ \A e \in Event : Where(e)' = Where(e)
      /\ \A n \in Message : message'[n].status = "NONE" => message'[n] = message[n]
  BY <1>2, <1>3, ShowStep
<1>5. /\ task' \in [Worker -> Task]
      /\ \A v \in Worker : task'[v] = task[v] \/ task'[v].step = "IDLE"
  BY <1>2, Tasked, SimpleTask DEF Idle
<1>6. /\ outbox' \in [Message -> OutboxRow]
      /\ \A n \in Message :
            \/ outbox'[n] = outbox[n]
            \/ outbox[n].status = "PROCESSING" /\ outbox'[n].status = "DEAD_LETTER"
  BY <1>2 DEF TypeOK, OutboxRow, OutboxStatus
<1>7. TypeOK'
  BY <1>2, <1>4, <1>5, <1>6 DEF TypeOK
<1>8. SendInv'
  <2>1. \A v \in Worker : task'[v] = task[v] \/ task'[v].step \notin SendStep \cup {"RETRY"}
    BY <1>5 DEF SendStep
  <2> QED BY <1>2, <1>4, <1>6, <2>1, SendQuiet
<1>9. EventInv'
  BY <1>2, <1>4, <1>5, EventQuiet DEF EventStep
<1> QED BY <1>7, <1>8, <1>9

(* Claiming: nobody is sending the message unless a person asked for it.    *)
LEMMA ClaimKeeps == ASSUME IInv, NEW w \in Worker, Claim(w) PROVE IInv'
<1> USE DEF IInv
<1>1. task[w] \in Task /\ task[w].step \in DispatchStep \cup SendStep
  BY DEF TypeOK, Claim, At, DispatchStep
<1>2. PICK m \in Message : task[w].message = m
  BY <1>1, TaskShape
<1>3. /\ outbox[m].status \in {"PENDING", "FAILED"}
      /\ outbox' = [outbox EXCEPT ![m].status = "PROCESSING", ![m].attempts = @ + 1]
      /\ UNCHANGED <<message, history, webhook, job, accepted, cause>>
  BY <1>2 DEF Claim, Claimable
<1>4. PICK t \in Task : SetTask(w, t) /\ t.step = "CLAIMED" /\ t.message = m
  <2> DEFINE a == outbox[m].attempts + 1
             r == [task[w] EXCEPT !.step = "CLAIMED"]
  <2>1. a \in Nat /\ "CLAIMED" \in DispatchStep \cup SendStep
    BY DEF TypeOK, OutboxRow, SendStep
  <2>2. [task[w] EXCEPT !.step = "CLAIMED", !.attempts = a] = [r EXCEPT !.attempts = a]
    OBVIOUS
  <2>3. SetTask(w, [task[w] EXCEPT !.step = "CLAIMED", !.attempts = a])
    BY <1>2 DEF Claim
  <2>4. r \in Task /\ r.step = "CLAIMED" /\ r.message = m
    BY <1>1, <1>2, <2>1, TaskStep
  <2> HIDE DEF a, r
  <2>5. \E u \in Task : u = [r EXCEPT !.attempts = a] /\ u.step = r.step /\ u.message = r.message
    BY <2>1, <2>4, TaskCount
  <2> QED BY <2>2, <2>3, <2>4, <2>5
<1>5. /\ task' \in [Worker -> Task]
      /\ \A v \in Worker : task'[v] = IF v = w THEN t ELSE task[v]
  BY <1>4, Tasked
<1>6. /\ outbox' \in [Message -> OutboxRow]
      /\ \A n \in Message \ {m} : outbox'[n] = outbox[n]
      /\ outbox'[m].status = "PROCESSING"
  <2> DEFINE r == [outbox[m] EXCEPT !.status = "PROCESSING"]
             q == [r EXCEPT !.attempts = outbox[m].attempts + 1]
  <2>1. r \in OutboxRow /\ r.status = "PROCESSING" /\ r.attempts = outbox[m].attempts
    BY DEF TypeOK, OutboxRow, OutboxStatus
  <2>2. outbox' = [outbox EXCEPT ![m] = q]
    BY <1>3, <2>1 DEF TypeOK
  <2> HIDE DEF r
  <2>3. q \in OutboxRow /\ q.status = "PROCESSING"
    <3>1. outbox[m].attempts + 1 \in Nat
      BY DEF TypeOK, OutboxRow
    <3> QED BY <2>1, <3>1 DEF OutboxRow
  <2> HIDE DEF q
  <2> QED BY <2>2, <2>3 DEF TypeOK
<1>7. TypeOK'
  BY <1>3, <1>5, <1>6 DEF TypeOK
<1>8. SendInv'
  <2>1. ASSUME NEW v \in Worker, NEW n \in Message, Sending(v, n)', v # w \/ n # m
        PROVE  Sending(v, n) /\ task'[v] = task[v] /\ v # w
    <3>1. v # w
      BY <1>4, <1>5, <2>1 DEF Sending
    <3>2. task'[v] = task[v]
      BY <1>5, <3>1
    <3> QED BY <2>1, <3>1, <3>2 DEF Sending
  <2>2. \A n \in Message : message'[n].status = "NONE" => outbox'[n].status = "NONE" /\ ~message'[n].media
    BY <1>3, <1>6 DEF SendInv
  <2>3. ASSUME NEW v \in Worker, task'[v].step = "RETRY"
        PROVE  outbox'[task'[v].message].status # "NONE"
    <3>1. task'[v] = task[v] /\ task[v].step = "RETRY" /\ task[v] \in Task
      BY <1>4, <1>5, <2>3 DEF TypeOK
    <3>2. task[v].message \in Message /\ outbox[task[v].message].status # "NONE"
      BY <3>1, TaskShape DEF SendInv, At
    <3> QED BY <1>6, <3>1, <3>2
  <2>4. ASSUME NEW v \in Worker, NEW n \in Message, Sending(v, n)', Unasked(n)'
        PROVE  outbox'[n].status \in {"PROCESSING", "DEAD_LETTER"}
    <3>1. CASE n = m
      BY <1>6, <3>1
    <3>2. CASE n # m
      <4>1. Sending(v, n) /\ Unasked(n)
        BY <1>3, <2>1, <2>4, <3>2 DEF Unasked, Sending
      <4> QED BY <1>6, <3>2, <4>1 DEF SendInv
    <3> QED BY <3>1, <3>2
  <2>5. \A v \in Worker : Sending(v, m) => "PERSON" \in cause[m]
    BY <1>3 DEF SendInv, Unasked
  <2>6. SendersAlone'
    <3> SUFFICES ASSUME NEW n \in Message, NEW u \in Worker, NEW v \in Worker,
                        u # v, Sending(u, n)', Sending(v, n)'
                 PROVE  "PERSON" \in cause'[n]
      BY DEF SendersAlone
    <3>1. CASE u # w /\ v # w
      <4>1. Sending(u, n) /\ Sending(v, n)
        BY <2>1, <3>1
      <4> QED BY <1>3, <4>1 DEF SendInv, SendersAlone
    <3>2. CASE n = m
      <4>1. Sending(u, m) \/ Sending(v, m)
        BY <2>1, <3>2
      <4> QED BY <1>3, <2>5, <3>2, <4>1
    <3>3. CASE n # m
      BY <2>1, <3>1, <3>3
    <3> QED BY <3>2, <3>3
  <2>7. ASSUME NEW n \in Message, accepted'[n] > 0, ~Explained(n)'
        PROVE  /\ accepted'[n] = 1
               /\ outbox'[n].status \in {"PROCESSING", "SENT", "DEAD_LETTER"}
               /\ \A v \in Worker : Sending(v, n)' => task'[v].step = "ANSWERED"
    <3>1. accepted[n] > 0 /\ ~Explained(n)
      BY <1>3, <2>7 DEF Explained
    <3>2. /\ accepted[n] = 1
          /\ outbox[n].status \in {"PROCESSING", "SENT", "DEAD_LETTER"}
          /\ \A v \in Worker : Sending(v, n) => task[v].step = "ANSWERED"
      BY <3>1 DEF SendInv
    <3>3. n # m
      BY <1>3, <3>2
    <3> QED BY <1>3, <1>6, <2>1, <3>2, <3>3
  <2> QED BY <2>2, <2>3, <2>4, <2>6, <2>7 DEF SendInv, At
<1>9. EventInv'
  BY <1>3, <1>4, <1>5, HistoryKept, EventQuiet DEF EventStep
<1> QED BY <1>7, <1>8, <1>9

(* The steps of a worker that is sending.                                   *)
LEMMA SendTurn ==
    ASSUME TypeOK, NEW w \in Worker, task[w].step \in SendStep
    PROVE  /\ task[w] \in Task /\ task[w].step \in DispatchStep \cup SendStep
           /\ task[w].attempts \in Nat /\ task[w].sent \in Nat /\ task[w].jobs \in SUBSET Job
           /\ \E m \in Message : task[w].message = m /\ Sending(w, m)
BY TaskShape DEF TypeOK, Sending

LEMMA OnwardKeeps ==
    ASSUME IInv, NEW w \in Worker, MarkSending(w) \/ Rejected(w) PROVE IInv'
<1> USE DEF IInv
<1>1. task[w].step \in {"CLAIMED", "SENDING"}
  BY DEF MarkSending, Rejected, At
<1>2. PICK m \in Message : task[w].message = m /\ Sending(w, m)
  BY <1>1, SendTurn DEF SendStep
<1>3. PICK s \in {"SENDING", "ERRED"} : SetTask(w, [task[w] EXCEPT !.step = s])
  BY DEF MarkSending, Rejected
<1>4. PICK t \in Task : SetTask(w, t) /\ t.step \in {"SENDING", "ERRED"} /\ t.message = m
  <2>1. /\ task[w] \in Task /\ task[w].step \in DispatchStep \cup SendStep
        /\ s \in DispatchStep \cup SendStep
    BY <1>1, SendTurn DEF SendStep
  <2>2. \E u \in Task : u = [task[w] EXCEPT !.step = s] /\ u.step = s /\ u.message = task[w].message
    BY <2>1, TaskStep
  <2> QED BY <1>2, <1>3, <2>2
<1>5. /\ task' \in [Worker -> Task] /\ task' = [task EXCEPT ![w] = t]
      /\ \A v \in Worker : task'[v] = IF v = w THEN t ELSE task[v]
  BY <1>4, Tasked
<1>6. UNCHANGED <<history, outbox, webhook, job, accepted, cause>>
  BY DEF MarkSending, Rejected, db
<1>7. /\ message' \in [Message -> MessageRow]
      /\ \A n \in Message : message'[n].status = "NONE" => message'[n] = message[n]
  <2>1. CASE message' = message
    BY <2>1 DEF TypeOK
  <2>2. CASE message' = [message EXCEPT ![m].status = "SENDING"]
    <3> DEFINE r == [message[m] EXCEPT !.status = "SENDING"]
    <3>1. r \in MessageRow /\ r.status = "SENDING" /\ message' = [message EXCEPT ![m] = r]
      BY <2>2 DEF TypeOK, MessageRow, DeliveryStatus
    <3> HIDE DEF r
    <3> QED BY <3>1 DEF TypeOK
  <2> QED BY <1>2, <2>1, <2>2 DEF MarkSending, Rejected, db
<1>8. TypeOK'
  BY <1>5, <1>6, <1>7 DEF TypeOK
<1>9. SendInv'
  <2>1. "PERSON" \notin cause[m] => outbox[m].status \in {"PROCESSING", "DEAD_LETTER"}
    BY <1>2 DEF SendInv, Unasked
  <2>2. ~(accepted[m] > 0 /\ cause[m] \cap {"PERSON", "UNKNOWN"} = {})
    BY <1>1, <1>2 DEF SendInv, Explained
  <2> QED BY <1>2, <1>4, <1>5, <1>6, <1>7, <2>1, <2>2, SendOn
<1>10. EventInv'
  BY <1>4, <1>5, <1>6, HistoryKept, EventQuiet DEF EventStep
<1> QED BY <1>8, <1>9, <1>10

LEMMA AnsweredKeeps == ASSUME IInv, NEW w \in Worker, Answered(w) PROVE IInv'
<1> USE DEF IInv
<1>1. task[w].step = "SENDING"
  BY DEF Answered, At
<1>2. PICK m \in Message : task[w].message = m /\ Sending(w, m)
  BY <1>1, SendTurn DEF SendStep
<1>3. /\ accepted' = [accepted EXCEPT ![m] = @ + 1] /\ accepted[m] \in Nat
      /\ UNCHANGED <<message, history, outbox, webhook, job, cause>>
  BY <1>2 DEF Answered, Accept, db, TypeOK
<1>4. PICK t \in Task : SetTask(w, t) /\ t.step = "ANSWERED" /\ t.message = m
  <2> DEFINE a == accepted[m] + 1
             r == [task[w] EXCEPT !.step = "ANSWERED"]
  <2>1. /\ task[w] \in Task /\ task[w].step \in DispatchStep \cup SendStep
        /\ a \in Nat /\ "ANSWERED" \in DispatchStep \cup SendStep
    BY <1>1, <1>3, SendTurn DEF SendStep
  <2>2. [task[w] EXCEPT !.step = "ANSWERED", !.sent = a] = [r EXCEPT !.sent = a]
    OBVIOUS
  <2>3. SetTask(w, [task[w] EXCEPT !.step = "ANSWERED", !.sent = a])
    BY <1>2 DEF Answered
  <2>4. r \in Task /\ r.step = "ANSWERED" /\ r.message = m
    BY <1>2, <2>1, TaskStep
  <2> HIDE DEF a, r
  <2>5. \E u \in Task : u = [r EXCEPT !.sent = a] /\ u.step = r.step /\ u.message = r.message
    BY <2>1, <2>4, TaskCount
  <2> QED BY <2>2, <2>3, <2>4, <2>5
<1>5. /\ task' \in [Worker -> Task] /\ task' = [task EXCEPT ![w] = t]
      /\ \A v \in Worker : task'[v] = IF v = w THEN t ELSE task[v]
  BY <1>4, Tasked
<1>6. TypeOK'
  BY <1>3, <1>5 DEF TypeOK
<1>7. SendInv'
  <2>1. "PERSON" \notin cause[m] => outbox[m].status \in {"PROCESSING", "DEAD_LETTER"}
    BY <1>2 DEF SendInv, Unasked
  <2>2. ~(accepted[m] > 0 /\ cause[m] \cap {"PERSON", "UNKNOWN"} = {})
    BY <1>1, <1>2 DEF SendInv, Explained
  <2>3. accepted'[m] = accepted[m] + 1
    BY <1>3 DEF TypeOK
  <2>4. accepted'[m] > 0 /\ cause'[m] \cap {"PERSON", "UNKNOWN"} = {} =>
           /\ accepted'[m] = 1
           /\ outbox'[m].status \in {"PROCESSING", "SENT", "DEAD_LETTER"}
    BY <1>3, <2>1, <2>2, <2>3
  <2>5. \A n \in Message \ {m} : outbox'[n] = outbox[n] /\ accepted'[n] = accepted[n]
    BY <1>3 DEF TypeOK
  <2> QED BY <1>2, <1>3, <1>4, <1>5, <2>1, <2>4, <2>5, SendOn
<1>8. EventInv'
  BY <1>3, <1>4, <1>5, HistoryKept, EventQuiet DEF EventStep
<1> QED BY <1>6, <1>7, <1>8

(* An answer that is lost or not recorded explains a second send.           *)
LEMMA UnknownKeeps ==
    ASSUME IInv, NEW w \in Worker, AnswerLost(w) \/ RecordingFails(w) PROVE IInv'
<1> USE DEF IInv
<1>1. task[w].step \in {"SENDING", "ANSWERED"}
  BY DEF AnswerLost, RecordingFails, At
<1>2. PICK m \in Message : task[w].message = m /\ Sending(w, m)
  BY <1>1, SendTurn DEF SendStep
<1>3. /\ cause' = [cause EXCEPT ![m] = @ \cup {"UNKNOWN"}]
      /\ UNCHANGED <<message, history, outbox, webhook, job>>
      /\ accepted' = accepted \/ accepted' = [accepted EXCEPT ![m] = @ + 1]
  BY <1>2 DEF AnswerLost, RecordingFails, Accept, db
<1>4. PICK t \in Task : SetTask(w, t) /\ t.step = "ERRED" /\ t.message = m
  <2> DEFINE r == [task[w] EXCEPT !.step = "ERRED"]
  <2>1. /\ task[w] \in Task /\ task[w].step \in DispatchStep \cup SendStep
        /\ "ERRED" \in DispatchStep \cup SendStep
    BY <1>1, SendTurn DEF SendStep
  <2>2. r \in Task /\ r.step = "ERRED" /\ r.message = m
    BY <1>2, <2>1, TaskStep
  <2>3. [task[w] EXCEPT !.step = "ERRED", !.sent = 0] = [r EXCEPT !.sent = 0]
    OBVIOUS
  <2>4. SetTask(w, r) \/ SetTask(w, [task[w] EXCEPT !.step = "ERRED", !.sent = 0])
    BY DEF AnswerLost, RecordingFails
  <2> HIDE DEF r
  <2>5. \E u \in Task : u = [r EXCEPT !.sent = 0] /\ u.step = r.step /\ u.message = r.message
    BY <2>1, <2>2, TaskCount
  <2> QED BY <2>2, <2>3, <2>4, <2>5
<1>5. /\ task' \in [Worker -> Task] /\ task' = [task EXCEPT ![w] = t]
      /\ \A v \in Worker : task'[v] = IF v = w THEN t ELSE task[v]
  BY <1>4, Tasked
<1>6. /\ cause' \in [Message -> SUBSET {"PERSON", "UNKNOWN", "CRASH", "OVERLAP"}]
      /\ \A n \in Message : cause[n] \subseteq cause'[n]
      /\ "UNKNOWN" \in cause'[m]
      /\ "PERSON" \notin cause'[m] => "PERSON" \notin cause[m]
  BY <1>3 DEF TypeOK
<1>7. /\ accepted' \in [Message -> Nat]
      /\ \A n \in Message \ {m} : accepted'[n] = accepted[n]
  <2>1. accepted[m] + 1 \in Nat
    BY DEF TypeOK
  <2>2. CASE accepted' = accepted
    BY <2>2 DEF TypeOK
  <2>3. CASE accepted' = [accepted EXCEPT ![m] = @ + 1]
    BY <2>1, <2>3 DEF TypeOK
  <2> QED BY <1>3, <2>2, <2>3
<1>8. TypeOK'
  BY <1>3, <1>5, <1>6, <1>7 DEF TypeOK
<1>9. SendInv'
  <2>1. "PERSON" \notin cause'[m] => outbox'[m].status \in {"PROCESSING", "DEAD_LETTER"}
    BY <1>2, <1>3, <1>6 DEF SendInv, Unasked
  <2>2. cause'[m] \cap {"PERSON", "UNKNOWN"} # {}
    BY <1>6
  <2> QED BY <1>2, <1>3, <1>4, <1>5, <1>6, <1>7, <2>1, <2>2, SendOn
<1>10. EventInv'
  BY <1>3, <1>4, <1>5, HistoryKept, EventQuiet DEF EventStep
<1> QED BY <1>8, <1>9, <1>10

(* What came of a send is recorded.                                         *)
LEMMA RecordKeeps ==
    ASSUME IInv, NEW w \in Worker, RecordSent(w) \/ RecordFailure(w) PROVE IInv'
<1> USE DEF IInv
<1>1. task[w].step \in {"ANSWERED", "ERRED"}
  BY DEF RecordSent, RecordFailure, At
<1>2. /\ task[w].attempts \in Nat /\ task[w].sent \in Nat /\ task[w].jobs \in SUBSET Job
      /\ \E m \in Message : task[w].message = m /\ Sending(w, m)
  BY <1>1, SendTurn DEF SendStep
<1>3. PICK m \in Message : task[w].message = m /\ Sending(w, m)
  BY <1>2
<1>4. UNCHANGED <<webhook, accepted, cause>> /\ SetTask(w, Idle)
  BY DEF RecordSent, RecordFailure, Finished
<1>5. PICK status \in DeliveryStatus, sent \in Nat : Show(m, status, sent)
  <2>1. message[m].sent \in Nat /\ "SENT" \in DeliveryStatus /\ "FAILED" \in DeliveryStatus
    BY DEF TypeOK, MessageRow, DeliveryStatus
  <2> QED BY <1>2, <1>3, <2>1 DEF RecordSent, RecordFailure
<1>6. /\ message' \in [Message -> MessageRow]
      /\ history' \in [Message -> Seq(HistoryRow)]
      /\ \A e \in Event : Where(e)' = Where(e)
      /\ \A n \in Message : message'[n].status = "NONE" => message'[n] = message[n]
      /\ message'[m].status # "NONE"
  BY <1>5, ShowStep DEF DeliveryStatus
<1>7. /\ outbox' \in [Message -> OutboxRow]
      /\ \A n \in Message \ {m} : outbox'[n] = outbox[n]
      /\ outbox'[m].status # "NONE"
      /\ task[w].step = "ANSWERED" => outbox'[m].status = "SENT"
  <2>1. CASE RecordSent(w)
    <3> DEFINE r == [outbox[m] EXCEPT !.status = "SENT"]
    <3>1. r \in OutboxRow /\ r.status = "SENT" /\ outbox' = [outbox EXCEPT ![m] = r]
      BY <1>3, <2>1 DEF RecordSent, TypeOK, OutboxRow, OutboxStatus
    <3> HIDE DEF r
    <3> QED BY <3>1 DEF TypeOK
  <2>2. CASE RecordFailure(w)
    <3> DEFINE r == [status |-> IF Terminal(w) THEN "DEAD_LETTER" ELSE "FAILED",
                     attempts |-> task[w].attempts]
    <3>1. r \in OutboxRow /\ r.status # "NONE"
      BY <1>2 DEF OutboxRow, OutboxStatus
    <3>2. outbox' = [outbox EXCEPT ![m] = r] /\ task[w].step = "ERRED"
      BY <1>3, <2>2 DEF RecordFailure, At
    <3> HIDE DEF r
    <3> QED BY <3>1, <3>2 DEF TypeOK
  <2> QED BY <2>1, <2>2
<1>8. job' \subseteq Job
  <2>1. CASE RecordSent(w)
    BY <2>1 DEF RecordSent, Finished, TypeOK
  <2>2. CASE RecordFailure(w)
    <3>1. [message |-> m, attempts |-> task[w].attempts] \in Job
      BY <1>2 DEF Job
    <3> QED BY <1>3, <2>2, <3>1 DEF RecordFailure, TypeOK
  <2> QED BY <2>1, <2>2
<1>9. /\ task' \in [Worker -> Task] /\ task' = [task EXCEPT ![w] = Idle]
      /\ \A v \in Worker : task'[v] = IF v = w THEN Idle ELSE task[v]
      /\ Idle \in Task /\ Idle.step = "IDLE"
  BY <1>4, Tasked, SimpleTask DEF Idle
<1>10. TypeOK'
  BY <1>4, <1>6, <1>7, <1>8, <1>9 DEF TypeOK
<1>11. SendInv'
  <2>1. accepted[m] > 0 /\ cause[m] \cap {"PERSON", "UNKNOWN"} = {} =>
           accepted[m] = 1 /\ outbox'[m].status \in {"PROCESSING", "SENT", "DEAD_LETTER"}
    BY <1>3, <1>7 DEF SendInv, Explained
  <2>2. Idle.step \notin SendStep /\ Idle.step # "RETRY"
    BY <1>9 DEF SendStep
  <2>3. /\ \A n \in Message \ {m} : outbox'[n] = outbox[n] /\ accepted'[n] = accepted[n]
        /\ \A n \in Message : cause[n] \subseteq cause'[n]
        /\ \A n \in Message : message'[n].status = "NONE" => message'[n] = message[n]
        /\ outbox'[m].status # "NONE" /\ message'[m].status # "NONE"
    BY <1>4, <1>6, <1>7
  <2>4. accepted' = accepted /\ cause' = cause /\ Sending(w, m)
    BY <1>3, <1>4
  <2>5. TypeOK /\ SendInv /\ Idle \in Task /\ task' = [task EXCEPT ![w] = Idle]
    BY <1>9
  <2>6. /\ Idle.step \in SendStep => Idle.message = m
        /\ "PERSON" \notin cause'[m] /\ Idle.step \in SendStep => outbox'[m].status \in {"PROCESSING", "DEAD_LETTER"}
        /\ accepted'[m] > 0 /\ cause'[m] \cap {"PERSON", "UNKNOWN"} = {} =>
              /\ accepted'[m] = 1
              /\ outbox'[m].status \in {"PROCESSING", "SENT", "DEAD_LETTER"}
              /\ Idle.step \in SendStep => Idle.step = "ANSWERED"
    BY <2>1, <2>2, <2>4
  <2>7. \/ outbox'[m].status = outbox[m].status
        \/ outbox'[m].status # "NONE" /\ message'[m].status # "NONE"
    BY <2>3
  <2> QED BY <2>2, <2>3, <2>4, <2>5, <2>6, <2>7, SendOn
<1>12. EventInv'
  BY <1>4, <1>6, <1>9, EventQuiet DEF EventStep
<1> QED BY <1>10, <1>11, <1>12

-----------------------------------------------------------------------------
(* Webhooks.                                                                *)
LEMMA ReceiveKeeps == ASSUME IInv, NEW e \in Event, ReceiveWebhook(e) PROVE IInv'
<1> USE DEF IInv
<1>1. PICK m \in Message, report \in Reported, at \in Stamp : \E sent \in 1..accepted[m] :
         webhook' = [webhook EXCEPT ![e] =
              [status |-> "RECEIVED", attempts |-> 0,
               message |-> m, sent |-> sent, report |-> report, at |-> at]]
  BY DEF ReceiveWebhook
<1>9. PICK sent \in 1..accepted[m] :
         webhook' = [webhook EXCEPT ![e] =
              [status |-> "RECEIVED", attempts |-> 0,
               message |-> m, sent |-> sent, report |-> report, at |-> at]]
  BY <1>1
<1>2. webhook[e].status = "NONE" /\ UNCHANGED <<message, history, outbox, job, task, accepted, cause>>
  BY DEF ReceiveWebhook
<1> DEFINE r == [status |-> "RECEIVED", attempts |-> 0,
                 message |-> m, sent |-> sent, report |-> report, at |-> at]
<1>3. r \in WebhookRow /\ r.status = "RECEIVED"
  BY DEF WebhookRow, WebhookStatus, TypeOK
<1>4. webhook' = [webhook EXCEPT ![e] = r]
  BY <1>9
<1> HIDE DEF r
<1>5. /\ webhook' \in [Event -> WebhookRow \cup {NoWebhook}]
      /\ \A f \in Event : \/ webhook'[f] = webhook[f]
                          \/ webhook[f].status = "NONE" /\ webhook'[f].status = "RECEIVED"
  BY <1>2, <1>3, <1>4 DEF TypeOK
<1>6. TypeOK'
  BY <1>2, <1>5 DEF TypeOK
<1>7. SendInv'
  BY <1>2, SendQuiet
<1>8. EventInv'
  BY <1>2, <1>5, HistoryKept, EventQuiet
<1> QED BY <1>6, <1>7, <1>8

(* A worker that handles an event goes on with it and writes nothing.       *)
LEMMA HandleKeeps ==
    ASSUME IInv, NEW w \in Worker, ProcessStatus(w) \/ AlreadyRecorded(w) \/ EventFails(w) PROVE IInv'
<1> USE DEF IInv
<1>1. task[w] \in Task /\ task[w].step \in {"EVENT", "PROJECTED"} /\ task[w].step \in EventStep
  BY DEF TypeOK, ProcessStatus, AlreadyRecorded, EventFails, At, EventStep
<1>2. UNCHANGED <<message, history, outbox, webhook, job, accepted, cause>>
  BY DEF ProcessStatus, AlreadyRecorded, EventFails, db
<1>3. PICK e \in Event : task[w].event = e /\ Handling(w, e)
  BY <1>1, TaskShape DEF Handling
<1>4. PICK t \in Task : /\ SetTask(w, t) /\ t.event = e /\ t.attempts = task[w].attempts
                        /\ \/ t.step = "PROJECTED" /\ ProcessStatus(w)
                           \/ t.step = "REPEATED" /\ AlreadyRecorded(w)
                           \/ t.step = "BROKEN"
  <2>1. ASSUME NEW s \in EventStep
        PROVE  \E u \in Task : /\ u = [task[w] EXCEPT !.step = s]
                               /\ u.step = s /\ u.event = e /\ u.attempts = task[w].attempts
    BY <1>1, <1>3, EventTaskStep
  <2>2. CASE AlreadyRecorded(w)
    <3>1. "REPEATED" \in EventStep
      BY DEF EventStep
    <3> QED BY <2>1, <2>2, <3>1 DEF AlreadyRecorded
  <2>3. CASE EventFails(w)
    <3>1. "BROKEN" \in EventStep
      BY DEF EventStep
    <3> QED BY <2>1, <2>3, <3>1 DEF EventFails
  <2>4. CASE ProcessStatus(w)
    <3> DEFINE h == history[webhook[e].message]
               row == Row(webhook[e].report, webhook[e].at, {e})
               n == Len(h)
               d == Projection(Append(h, row))
               r == [task[w] EXCEPT !.step = "PROJECTED"]
    <3>1. webhook[e] \in WebhookRow
      BY <1>3 DEF EventInv, TypeOK, NoWebhook
    <3>2. h \in Seq(HistoryRow) /\ row \in HistoryRow
      BY <3>1 DEF TypeOK, WebhookRow, HistoryRow, Row, DeliveryStatus
    <3>3. n \in Nat /\ d \in DeliveryStatus
      <4> HIDE DEF h, row
      <4>1. n \in Nat /\ Append(h, row) \in Seq(HistoryRow)
        BY <3>2
      <4> QED BY <4>1, ProjectionTyped
    <3>4. SetTask(w, [task[w] EXCEPT !.step = "PROJECTED", !.seen = n, !.status = d])
      BY <1>3, <2>4 DEF ProcessStatus
    <3> HIDE DEF n, d
    <3> DEFINE q == [r EXCEPT !.seen = n]
    <3>5. [task[w] EXCEPT !.step = "PROJECTED", !.seen = n, !.status = d] = [q EXCEPT !.status = d]
      OBVIOUS
    <3>6. r \in Task /\ r.step = "PROJECTED" /\ r.event = e /\ r.attempts = task[w].attempts
      BY <2>1 DEF EventStep
    <3> HIDE DEF r
    <3>7. q \in Task /\ q.step = "PROJECTED" /\ q.event = e /\ q.attempts = task[w].attempts
      <4>1. \E u \in Task : u = [r EXCEPT !.seen = n] /\ u.step = r.step /\ u.event = r.event
                             /\ u.attempts = r.attempts
        BY <3>3, <3>6, EventTaskSeen DEF EventStep
      <4> QED BY <3>6, <4>1
    <3> HIDE DEF q
    <3>8. \E u \in Task : /\ u = [q EXCEPT !.status = d]
                          /\ u.step = "PROJECTED" /\ u.event = e /\ u.attempts = task[w].attempts
      BY <3>3, <3>7, EventTaskStatus DEF EventStep
    <3> QED BY <2>4, <3>4, <3>5, <3>8
  <2> QED BY <2>2, <2>3, <2>4
<1>5. /\ task' \in [Worker -> Task]
      /\ \A v \in Worker : task'[v] = IF v = w THEN t ELSE task[v]
  BY <1>4, Tasked
<1>6. TypeOK'
  BY <1>2, <1>5 DEF TypeOK
<1>7. SendInv'
  <2>1. \A v \in Worker : task'[v] = task[v] \/ task'[v].step \notin SendStep \cup {"RETRY"}
    BY <1>4, <1>5 DEF SendStep
  <2> QED BY <1>2, <2>1, SendQuiet
<1>8. EventInv'
  <2>1. \A f \in Event : Where(f)' = Where(f)
    BY <1>2, HistoryKept
  <2>2. \A v \in Worker, f \in Event :
           Handling(v, f)' => Handling(v, f) /\ task'[v].attempts = task[v].attempts
    BY <1>3, <1>4, <1>5 DEF Handling
  <2>3. (Where(e) # {}) <=> Recorded(e)
    BY RecordedWhere DEF TypeOK
  <2>4. ASSUME NEW v \in Worker, NEW f \in Event, Handling(v, f)'
        PROVE  /\ webhook'[f].status # "NONE"
               /\ task'[v].attempts <= webhook'[f].attempts
               /\ webhook'[f].status \in Settled => task'[v].attempts # webhook'[f].attempts
               /\ task'[v].step = "PROJECTED" => Where(f)' = {}
               /\ task'[v].step \in {"RECORDED", "REPEATED"} => Where(f)' # {}
    <3>1. Handling(v, f) /\ task'[v].attempts = task[v].attempts
      BY <2>2, <2>4
    <3>2. CASE v # w
      <4>1. task'[v] = task[v]
        BY <1>5, <3>2
      <4> QED BY <1>2, <2>1, <3>1, <4>1 DEF EventInv
    <3>3. CASE v = w
      <4>1. f = e /\ task'[v] = t
        BY <1>3, <1>5, <3>1, <3>3 DEF Handling
      <4>2. /\ t.step = "PROJECTED" => Where(e) = {}
            /\ t.step \in {"RECORDED", "REPEATED"} => Where(e) # {}
        BY <1>3, <1>4, <2>3 DEF ProcessStatus, AlreadyRecorded
      <4> QED BY <1>2, <2>1, <3>1, <4>1, <4>2 DEF EventInv
    <3> QED BY <3>2, <3>3
  <2>5. ASSUME NEW u \in Worker, NEW v \in Worker, NEW f \in Event,
               u # v, Handling(u, f)', Handling(v, f)'
        PROVE  /\ task'[u].attempts # task'[v].attempts
               /\ ~(task'[u].step = "PROJECTED" /\ task'[v].step = "PROJECTED")
    <3>1. /\ Handling(u, f) /\ Handling(v, f)
          /\ task'[u].attempts = task[u].attempts /\ task'[v].attempts = task[v].attempts
      BY <2>2, <2>5
    <3>2. task[u].attempts # task[v].attempts
      BY <2>5, <3>1 DEF EventInv
    <3>3. ASSUME NEW x \in Worker, x # w, Handling(x, f), f = e
          PROVE  ~(task'[x].step = "PROJECTED" /\ t.step = "PROJECTED")
      <4>1. task'[x] = task[x]
        BY <1>5, <3>3
      <4>2. ProcessStatus(w) => task[x].step # "PROJECTED"
        BY <1>3, <3>3 DEF ProcessStatus, Handling
      <4> QED BY <1>4, <4>1, <4>2
    <3>4. CASE u = w
      BY <1>3, <1>5, <2>5, <3>1, <3>3, <3>4, <3>2 DEF Handling
    <3>5. CASE v = w
      BY <1>3, <1>5, <2>5, <3>1, <3>3, <3>5, <3>2 DEF Handling
    <3>6. CASE u # w /\ v # w
      BY <1>5, <2>5, <3>1, <3>6 DEF EventInv
    <3> QED BY <3>1, <3>2, <3>4, <3>5, <3>6
  <2>6. \A f \in Event : \A x, y \in Where(f)' : x = y
    BY <2>1 DEF EventInv
  <2>7. \A f \in Event : webhook'[f].status \in {"PROCESSED", "DUPLICATE"} => Where(f)' # {}
    BY <1>2, <2>1 DEF EventInv
  <2> QED BY <2>4, <2>5, <2>6, <2>7 DEF EventInv, Settled
<1> QED BY <1>6, <1>7, <1>8

LEMMA ClaimEventKeeps == ASSUME IInv, NEW w \in Worker, NEW e \in Event, ClaimEvent(w, e) PROVE IInv'
<1> USE DEF IInv
<1>1. /\ webhook[e].status \in {"RECEIVED", "FAILED", "PROCESSING"} /\ webhook[e] \in WebhookRow
      /\ UNCHANGED <<message, history, outbox, job, accepted, cause>>
  BY DEF ClaimEvent, TypeOK, NoWebhook
<1> DEFINE a == webhook[e].attempts + 1
           t == [step |-> "EVENT", event |-> e, attempts |-> a, status |-> "QUEUED", seen |-> 0]
           q == [webhook[e] EXCEPT !.status = "PROCESSING"]
           r == [q EXCEPT !.attempts = a]
<1>2. webhook[e].attempts \in Nat /\ a \in Nat /\ a > webhook[e].attempts
  BY <1>1 DEF WebhookRow
<1>3. webhook' = [webhook EXCEPT ![e].status = "PROCESSING", ![e].attempts = @ + 1] /\ SetTask(w, t)
  BY DEF ClaimEvent
<1>4. q \in WebhookRow /\ q.status = "PROCESSING" /\ q.attempts = webhook[e].attempts
  BY <1>1 DEF WebhookRow, WebhookStatus
<1>5. webhook' = [webhook EXCEPT ![e] = r]
  BY <1>3, <1>4 DEF TypeOK
<1>6. t \in Task /\ t.step = "EVENT" /\ t.event = e /\ t.attempts = a
  BY <1>2, EventTask DEF EventStep, DeliveryStatus
<1> HIDE DEF a, q, t
<1>7. r \in WebhookRow /\ r.status = "PROCESSING" /\ r.attempts = a
  BY <1>2, <1>4 DEF WebhookRow
<1> HIDE DEF r
<1>8. /\ task' \in [Worker -> Task]
      /\ \A v \in Worker : task'[v] = IF v = w THEN t ELSE task[v]
  BY <1>3, <1>6, Tasked
<1>9. /\ webhook' \in [Event -> WebhookRow \cup {NoWebhook}] /\ webhook'[e] = r
      /\ \A f \in Event \ {e} : webhook'[f] = webhook[f]
  BY <1>5, <1>7 DEF TypeOK
<1>10. TypeOK'
  BY <1>1, <1>8, <1>9 DEF TypeOK
<1>11. SendInv'
  <2>1. \A v \in Worker : task'[v] = task[v] \/ task'[v].step \notin SendStep \cup {"RETRY"}
    BY <1>6, <1>8 DEF SendStep
  <2> QED BY <1>1, <2>1, SendQuiet
<1>12. EventInv'
  <2>1. \A f \in Event : Where(f)' = Where(f)
    BY <1>1, HistoryKept
  <2>2. ASSUME NEW v \in Worker, NEW f \in Event, Handling(v, f)', v # w
        PROVE  Handling(v, f) /\ task'[v] = task[v] /\ task[v].attempts \in Nat
    <3>1. task'[v] = task[v]
      BY <1>8, <2>2
    <3>2. Handling(v, f)
      BY <2>2, <3>1 DEF Handling
    <3> QED BY <3>1, <3>2, TaskShape DEF Handling, TypeOK
  <2>3. ASSUME NEW f \in Event, Handling(w, f)'
        PROVE  f = e /\ task'[w] = t
    BY <1>6, <1>8, <2>3 DEF Handling
  <2>4. ASSUME NEW v \in Worker, NEW f \in Event, Handling(v, f)'
        PROVE  /\ webhook'[f].status # "NONE"
               /\ task'[v].attempts <= webhook'[f].attempts
               /\ webhook'[f].status \in Settled => task'[v].attempts # webhook'[f].attempts
               /\ task'[v].step = "PROJECTED" => Where(f)' = {}
               /\ task'[v].step \in {"RECORDED", "REPEATED"} => Where(f)' # {}
    <3>1. CASE v = w
      BY <1>2, <1>6, <1>7, <1>9, <2>3, <2>4, <3>1 DEF Settled
    <3>2. CASE v # w
      <4>1. Handling(v, f) /\ task'[v] = task[v] /\ task[v].attempts \in Nat
        BY <2>2, <2>4, <3>2
      <4>2. /\ webhook[f].status # "NONE"
            /\ task[v].attempts <= webhook[f].attempts
            /\ webhook[f].status \in Settled => task[v].attempts # webhook[f].attempts
            /\ task[v].step = "PROJECTED" => Where(f) = {}
            /\ task[v].step \in {"RECORDED", "REPEATED"} => Where(f) # {}
        BY <4>1 DEF EventInv
      <4>3. CASE f # e
        BY <1>9, <2>1, <4>1, <4>2, <4>3
      <4>4. CASE f = e
        <5>1. task[v].attempts <= a
          BY <1>2, <4>1, <4>2, <4>4
        <5> QED BY <1>7, <1>9, <2>1, <4>1, <4>2, <4>4, <5>1 DEF Settled
      <4> QED BY <4>3, <4>4
    <3> QED BY <3>1, <3>2
  <2>5. ASSUME NEW u \in Worker, NEW f \in Event, u # w, Handling(u, f)', f = e
        PROVE  task'[u].attempts # a
    <3>1. Handling(u, e) /\ task'[u] = task[u] /\ task[u].attempts \in Nat
      BY <2>2, <2>5
    <3>2. task[u].attempts <= webhook[e].attempts
      BY <3>1 DEF EventInv
    <3> QED BY <1>2, <3>1, <3>2
  <2>6. ASSUME NEW u \in Worker, NEW v \in Worker, NEW f \in Event,
               u # v, Handling(u, f)', Handling(v, f)'
        PROVE  /\ task'[u].attempts # task'[v].attempts
               /\ ~(task'[u].step = "PROJECTED" /\ task'[v].step = "PROJECTED")
    <3>1. CASE u = w
      BY <1>6, <2>3, <2>5, <2>6, <3>1
    <3>2. CASE v = w
      BY <1>6, <2>3, <2>5, <2>6, <3>2
    <3>3. CASE u # w /\ v # w
      BY <2>2, <2>6, <3>3 DEF EventInv
    <3> QED BY <3>1, <3>2, <3>3
  <2>7. \A f \in Event : \A x, y \in Where(f)' : x = y
    BY <2>1 DEF EventInv
  <2>8. \A f \in Event : webhook'[f].status \in {"PROCESSED", "DUPLICATE"} => Where(f)' # {}
    BY <1>7, <1>9, <2>1 DEF EventInv
  <2> QED BY <2>4, <2>6, <2>7, <2>8 DEF EventInv, Settled
<1> QED BY <1>10, <1>11, <1>12

(* The event is in the history only now, and no other worker is about to    *)
(* put it there.                                                            *)
LEMMA CommitKeeps == ASSUME IInv, NEW w \in Worker, CommitStatus(w) PROVE IInv'
<1> USE DEF IInv
<1>1. task[w] \in Task /\ task[w].step = "PROJECTED" /\ task[w].step \in EventStep
  BY DEF TypeOK, CommitStatus, At, EventStep
<1>2. PICK e \in Event : task[w].event = e /\ Handling(w, e) /\ task[w].status \in DeliveryStatus
  BY <1>1, TaskShape DEF Handling
<1>3. webhook[e] \in WebhookRow
  BY <1>2 DEF EventInv, TypeOK, NoWebhook
<1>4. PICK m \in Message : webhook[e].message = m
  BY <1>3 DEF WebhookRow
<1> DEFINE row == Row(webhook[e].report, webhook[e].at, {e})
           r == [message[m] EXCEPT !.status = task[w].status]
<1>5. /\ history' = [history EXCEPT ![m] = Append(@, row)]
      /\ message' = [message EXCEPT ![m].status = task[w].status]
      /\ cause' = [cause EXCEPT ![m] =
                       IF Len(history[m]) # task[w].seen THEN @ \cup {"OVERLAP"} ELSE @]
      /\ SetTask(w, [task[w] EXCEPT !.step = "RECORDED"])
      /\ UNCHANGED <<outbox, webhook, job, accepted>>
  BY <1>2, <1>4 DEF CommitStatus
<1>6. row \in HistoryRow /\ row.by = {e}
  BY <1>3 DEF WebhookRow, HistoryRow, Row, DeliveryStatus, TypeOK
<1>7. r \in MessageRow /\ r.status = task[w].status /\ message' = [message EXCEPT ![m] = r]
  BY <1>2, <1>5 DEF TypeOK, MessageRow
<1>8. PICK t \in Task : /\ SetTask(w, t) /\ t.step = "RECORDED" /\ t.event = e
                        /\ t.attempts = task[w].attempts
  <2>1. "RECORDED" \in EventStep
    BY DEF EventStep
  <2>2. \E u \in Task : /\ u = [task[w] EXCEPT !.step = "RECORDED"]
                        /\ u.step = "RECORDED" /\ u.event = e /\ u.attempts = task[w].attempts
    BY <1>1, <1>2, <2>1, EventTaskStep
  <2> QED BY <1>5, <2>2
<1>9. /\ task' \in [Worker -> Task]
      /\ \A v \in Worker : task'[v] = IF v = w THEN t ELSE task[v]
  BY <1>8, Tasked
<1> HIDE DEF row, r
<1>10. /\ history' \in [Message -> Seq(HistoryRow)]
       /\ \A f \in Event :
             Where(f)' = Where(f) \cup (IF f \in row.by THEN {<<m, Len(history[m]) + 1>>} ELSE {})
  BY <1>5, <1>6, Appended DEF TypeOK
<1>11. /\ message' \in [Message -> MessageRow]
       /\ \A n \in Message : message'[n].status = "NONE" => message'[n] = message[n]
  BY <1>2, <1>7 DEF TypeOK, DeliveryStatus
<1>12. /\ cause' \in [Message -> SUBSET {"PERSON", "UNKNOWN", "CRASH", "OVERLAP"}]
       /\ \A n \in Message : cause[n] \subseteq cause'[n]
  BY <1>5 DEF TypeOK
<1>13. TypeOK'
  BY <1>5, <1>9, <1>10, <1>11, <1>12 DEF TypeOK
<1>14. SendInv'
  <2>1. \A v \in Worker : task'[v] = task[v] \/ task'[v].step \notin SendStep \cup {"RETRY"}
    BY <1>8, <1>9 DEF SendStep
  <2> QED BY <1>5, <1>11, <1>12, <2>1, SendQuiet
<1>15. EventInv'
  <2>1. /\ \A f \in Event \ {e} : Where(f)' = Where(f)
        /\ Where(e) = {} /\ Where(e)' = {<<m, Len(history[m]) + 1>>}
    <3>1. Where(e) = {}
      BY <1>1, <1>2 DEF EventInv
    <3> QED BY <1>6, <1>10, <3>1
  <2>2. \A v \in Worker, f \in Event :
           Handling(v, f)' => Handling(v, f) /\ task'[v].attempts = task[v].attempts
    BY <1>2, <1>8, <1>9 DEF Handling
  <2>3. ASSUME NEW v \in Worker, NEW f \in Event, Handling(v, f)'
        PROVE  /\ webhook'[f].status # "NONE"
               /\ task'[v].attempts <= webhook'[f].attempts
               /\ webhook'[f].status \in Settled => task'[v].attempts # webhook'[f].attempts
               /\ task'[v].step = "PROJECTED" => Where(f)' = {}
               /\ task'[v].step \in {"RECORDED", "REPEATED"} => Where(f)' # {}
    <3>1. Handling(v, f) /\ task'[v].attempts = task[v].attempts
      BY <2>2, <2>3
    <3>2. /\ webhook'[f].status # "NONE"
          /\ task'[v].attempts <= webhook'[f].attempts
          /\ webhook'[f].status \in Settled => task'[v].attempts # webhook'[f].attempts
      BY <1>5, <3>1 DEF EventInv
    <3>3. CASE v = w
      BY <1>2, <1>8, <1>9, <2>1, <3>1, <3>2, <3>3 DEF Handling
    <3>4. CASE v # w
      <4>1. task'[v] = task[v]
        BY <1>9, <3>4
      <4>2. f = e => task[v].step # "PROJECTED"
        BY <1>1, <1>2, <3>1, <3>4 DEF EventInv
      <4>3. /\ task[v].step = "PROJECTED" => Where(f) = {}
            /\ task[v].step \in {"RECORDED", "REPEATED"} => Where(f) # {}
        BY <3>1 DEF EventInv
      <4> QED BY <2>1, <3>2, <4>1, <4>2, <4>3
    <3> QED BY <3>3, <3>4
  <2>4. ASSUME NEW u \in Worker, NEW v \in Worker, NEW f \in Event,
               u # v, Handling(u, f)', Handling(v, f)'
        PROVE  /\ task'[u].attempts # task'[v].attempts
               /\ ~(task'[u].step = "PROJECTED" /\ task'[v].step = "PROJECTED")
    <3>1. /\ Handling(u, f) /\ Handling(v, f)
          /\ task'[u].attempts = task[u].attempts /\ task'[v].attempts = task[v].attempts
      BY <2>2, <2>4
    <3>2. /\ task[u].attempts # task[v].attempts
          /\ ~(task[u].step = "PROJECTED" /\ task[v].step = "PROJECTED")
      BY <2>4, <3>1 DEF EventInv
    <3> QED BY <1>8, <1>9, <3>1, <3>2
  <2>5. \A f \in Event : \A x, y \in Where(f)' : x = y
    BY <2>1 DEF EventInv
  <2>6. \A f \in Event : webhook'[f].status \in {"PROCESSED", "DUPLICATE"} => Where(f)' # {}
    BY <1>5, <2>1 DEF EventInv
  <2> QED BY <2>3, <2>4, <2>5, <2>6 DEF EventInv, Settled
<1> QED BY <1>13, <1>14, <1>15

LEMMA FinishKeeps == ASSUME IInv, NEW w \in Worker, FinishEvent(w) PROVE IInv'
<1> USE DEF IInv
<1>1. /\ task[w] \in Task /\ task[w].step \in {"RECORDED", "REPEATED", "BROKEN"}
      /\ task[w].step \in EventStep
  BY DEF TypeOK, FinishEvent, EventStep
<1>2. PICK e \in Event : task[w].event = e /\ Handling(w, e)
  BY <1>1, TaskShape DEF Handling
<1>3. webhook[e] \in WebhookRow
  BY <1>2 DEF EventInv, TypeOK, NoWebhook
<1> DEFINE r == [webhook[e] EXCEPT !.status = Verdict(w)]
<1>4. /\ r \in WebhookRow /\ r.status = Verdict(w) /\ r.attempts = webhook[e].attempts
      /\ r.status \in {"PROCESSED", "DUPLICATE"} => task[w].step \in {"RECORDED", "REPEATED"}
      /\ r.status # "NONE"
  BY <1>3 DEF WebhookRow, WebhookStatus, Verdict, At
<1>5. /\ \/ webhook' = webhook
         \/ webhook' = [webhook EXCEPT ![e] = r] /\ webhook[e].attempts = task[w].attempts
      /\ SetTask(w, Idle)
      /\ UNCHANGED <<message, history, outbox, job, accepted, cause>>
  BY <1>2 DEF FinishEvent, StillMine, TypeOK
<1> HIDE DEF r
<1>6. /\ task' \in [Worker -> Task] /\ Idle.step = "IDLE"
      /\ \A v \in Worker : task'[v] = IF v = w THEN Idle ELSE task[v]
  BY <1>5, Tasked, SimpleTask DEF Idle
<1>7. /\ webhook' \in [Event -> WebhookRow \cup {NoWebhook}]
      /\ \A f \in Event \ {e} : webhook'[f] = webhook[f]
      /\ \/ webhook'[e] = webhook[e]
         \/ webhook'[e] = r /\ webhook[e].attempts = task[w].attempts
  BY <1>4, <1>5 DEF TypeOK
<1>8. TypeOK'
  BY <1>5, <1>6, <1>7 DEF TypeOK
<1>9. SendInv'
  <2>1. \A v \in Worker : task'[v] = task[v] \/ task'[v].step \notin SendStep \cup {"RETRY"}
    BY <1>6 DEF SendStep
  <2> QED BY <1>5, <2>1, SendQuiet
<1>10. EventInv'
  <2>1. \A f \in Event : Where(f)' = Where(f)
    BY <1>5, HistoryKept
  <2>2. ASSUME NEW v \in Worker, NEW f \in Event, Handling(v, f)'
        PROVE  Handling(v, f) /\ task'[v] = task[v] /\ v # w
    <3>1. v # w
      BY <1>6, <2>2 DEF Handling, EventStep
    <3>2. task'[v] = task[v]
      BY <1>6, <3>1
    <3> QED BY <2>2, <3>1, <3>2 DEF Handling
  <2>3. ASSUME NEW v \in Worker, NEW f \in Event, Handling(v, f)'
        PROVE  /\ webhook'[f].status # "NONE"
               /\ task'[v].attempts <= webhook'[f].attempts
               /\ webhook'[f].status \in Settled => task'[v].attempts # webhook'[f].attempts
               /\ task'[v].step = "PROJECTED" => Where(f)' = {}
               /\ task'[v].step \in {"RECORDED", "REPEATED"} => Where(f)' # {}
    <3>1. Handling(v, f) /\ task'[v] = task[v] /\ v # w
      BY <2>2, <2>3
    <3>2. /\ webhook[f].status # "NONE"
          /\ task[v].attempts <= webhook[f].attempts
          /\ webhook[f].status \in Settled => task[v].attempts # webhook[f].attempts
          /\ task[v].step = "PROJECTED" => Where(f) = {}
          /\ task[v].step \in {"RECORDED", "REPEATED"} => Where(f) # {}
      BY <3>1 DEF EventInv
    <3>3. f = e => task[v].attempts # task[w].attempts
      BY <1>2, <3>1 DEF EventInv
    <3> QED BY <1>4, <1>7, <2>1, <3>1, <3>2, <3>3
  <2>4. ASSUME NEW u \in Worker, NEW v \in Worker, NEW f \in Event,
               u # v, Handling(u, f)', Handling(v, f)'
        PROVE  /\ task'[u].attempts # task'[v].attempts
               /\ ~(task'[u].step = "PROJECTED" /\ task'[v].step = "PROJECTED")
    BY <2>2, <2>4 DEF EventInv
  <2>5. \A f \in Event : \A x, y \in Where(f)' : x = y
    BY <2>1 DEF EventInv
  <2>6. ASSUME NEW f \in Event, webhook'[f].status \in {"PROCESSED", "DUPLICATE"}
        PROVE  Where(f)' # {}
    <3>1. task[w].step \in {"RECORDED", "REPEATED"} => Where(e) # {}
      BY <1>2 DEF EventInv
    <3>2. webhook[f].status \in {"PROCESSED", "DUPLICATE"} => Where(f) # {}
      BY DEF EventInv
    <3> QED BY <1>4, <1>7, <2>1, <2>6, <3>1, <3>2
  <2> QED BY <2>3, <2>4, <2>5, <2>6 DEF EventInv, Settled
<1> QED BY <1>8, <1>9, <1>10

LEMMA StepIInv == ASSUME IInv, [Next]_vars PROVE IInv'
<1>1. CASE UNCHANGED vars
  <2>1. /\ UNCHANGED <<message, history, outbox, webhook, job, task, accepted, cause>>
    BY <1>1 DEF vars
  <2>2. TypeOK'
    BY <2>1 DEF IInv, TypeOK
  <2>3. SendInv'
    BY <2>1, SendQuiet DEF IInv
  <2>4. EventInv'
    BY <2>1, HistoryKept, EventQuiet DEF IInv
  <2> QED BY <2>2, <2>3, <2>4 DEF IInv
<1>2. ASSUME NEW m \in Message, QueueAutomatedReminder(m) \/ BeginMediaUpload(m) PROVE IInv'
  BY <1>2, ComposeKeeps
<1>3. ASSUME NEW w \in Worker, NEW m \in Message,
             SendMessage(w, m) \/ CompleteMediaUpload(w, m) \/ Retry(w, m)
      PROVE  IInv'
  BY <1>3, ComposeKeeps, CompleteKeeps, RetryKeeps
<1>4. ASSUME NEW w \in Worker, NEW j \in job, RunJob(w, j) PROVE IInv'
  BY <1>4, DispatchKeeps
<1>5. ASSUME NEW w \in Worker, NEW e \in Event, ClaimEvent(w, e) PROVE IInv'
  BY <1>5, ClaimEventKeeps
<1>6. ASSUME NEW e \in Event, ReceiveWebhook(e) PROVE IInv'
  BY <1>6, ReceiveKeeps
<1>7. ASSUME NEW w \in Worker, Advance(w) \/ Crash(w) PROVE IInv'
  BY <1>7, RequeueKeeps, DispatchKeeps, DeadLetterKeeps, ClaimKeeps, OnwardKeeps, AnsweredKeeps,
     UnknownKeeps, RecordKeeps, HandleKeeps, CommitKeeps, FinishKeeps DEF Advance
<1> QED BY <1>1, <1>2, <1>3, <1>4, <1>5, <1>6, <1>7 DEF Next

-----------------------------------------------------------------------------
(* The inductive invariant holds in every reachable state.                  *)
THEOREM Inductive == Spec => []IInv
<1>1. Init => IInv
  BY InitIInv
<1>2. IInv /\ [Next]_vars => IInv'
  BY StepIInv
<1> QED BY <1>1, <1>2, PTL DEF Spec

(* Every variable keeps its type: whatever happens, the rows of a message,  *)
(* its outbox and its events hold values the schema allows.                 *)
THEOREM TypeCorrect == Spec => []TypeOK
<1>1. IInv => TypeOK
  BY DEF IInv
<1> QED BY <1>1, Inductive, PTL

(* Two workers are never sending one message at the same time, unless a     *)
(* person asked for it to be sent again.                                    *)
THEOREM SendersNeverOverlap == Spec => []SendersAlone
<1>1. IInv => SendersAlone
  BY DEF IInv, SendInv
<1> QED BY <1>1, Inductive, PTL

(* The provider has a message twice only when a person retried it or an     *)
(* answer of the provider was lost or could not be recorded.                *)
THEOREM SecondSendsExplained == Spec => []SecondSendExplained
<1>1. IInv => SecondSendExplained
  <2> SUFFICES ASSUME IInv, NEW m \in Message, accepted[m] > 1, ~Explained(m)
               PROVE  FALSE
    BY DEF SecondSendExplained, Explained
  <2>1. accepted[m] \in Nat /\ accepted[m] > 0
    BY DEF IInv, TypeOK
  <2>2. accepted[m] = 1
    BY <2>1 DEF IInv, SendInv
  <2> QED BY <2>2
<1> QED BY <1>1, Inductive, PTL

(* An event is in the history at most once, and it is there once it was     *)
(* processed or found to be a duplicate.                                    *)
THEOREM EventsOnce == Spec => []EventsRecordedOnce
<1>1. IInv => EventsRecordedOnce
  <2> SUFFICES ASSUME IInv PROVE EventsRecordedOnce
    OBVIOUS
  <2>1. ASSUME NEW e \in Event, NEW m \in Message, NEW n \in Message,
               NEW i \in DOMAIN history[m], NEW j \in DOMAIN history[n],
               e \in history[m][i].by, e \in history[n][j].by
        PROVE  m = n /\ i = j
    <3>1. i \in Nat /\ j \in Nat
      BY DEF IInv, TypeOK
    <3>2. <<m, i>> \in Where(e) /\ <<n, j>> \in Where(e)
      BY <2>1, <3>1 DEF Where
    <3>3. <<m, i>> = <<n, j>>
      BY <3>2 DEF IInv, EventInv
    <3> QED BY <3>3
  <2>2. ASSUME NEW e \in Event, webhook[e].status \in {"PROCESSED", "DUPLICATE"}
        PROVE  Recorded(e)
    BY <2>2, RecordedWhere DEF IInv, EventInv, TypeOK
  <2> QED BY <2>1, <2>2 DEF EventsRecordedOnce
<1> QED BY <1>1, Inductive, PTL

(* A verdict on an event stands: the worker whose claim was taken over does *)
(* not change it.                                                           *)
THEOREM VerdictsStand == Spec => VerdictFinal
<1>1. ASSUME IInv, [Next]_vars, NEW e \in Event, webhook[e].status \in Settled
      PROVE  webhook'[e] = webhook[e]
  <2>1. CASE webhook' = webhook
    BY <2>1
  <2>2. ASSUME NEW f \in Event, ReceiveWebhook(f) PROVE webhook'[e] = webhook[e]
    <3>1. e # f
      BY <1>1, <2>2 DEF ReceiveWebhook, Settled
    <3> QED BY <1>1, <2>2, <3>1 DEF ReceiveWebhook, IInv, TypeOK
  <2>3. ASSUME NEW w \in Worker, NEW f \in Event, ClaimEvent(w, f) PROVE webhook'[e] = webhook[e]
    <3>1. e # f
      BY <1>1, <2>3 DEF ClaimEvent, Settled
    <3> QED BY <1>1, <2>3, <3>1 DEF ClaimEvent, IInv, TypeOK
  <2>4. ASSUME NEW w \in Worker, FinishEvent(w) PROVE webhook'[e] = webhook[e]
    <3>1. task[w].step \in EventStep
      BY <2>4 DEF FinishEvent, EventStep
    <3>2. CASE task[w].event = e
      <4>1. ~StillMine(w)
        BY <1>1, <3>1, <3>2 DEF IInv, EventInv, Handling, StillMine
      <4> QED BY <2>4, <4>1 DEF FinishEvent
    <3>3. CASE task[w].event # e
      BY <1>1, <2>4, <3>3 DEF FinishEvent, IInv, TypeOK
    <3> QED BY <3>2, <3>3
  <2> QED BY <1>1, <2>1, <2>2, <2>3, <2>4
        DEF Next, Advance, vars, db, QueueAutomatedReminder, BeginMediaUpload, SendMessage,
            CompleteMediaUpload, Retry, Requeue, RunJob, FindsAbandoned, DeadLetter, Claim,
            NothingToClaim, MarkSending, Rejected, Answered, AnswerLost, RecordSent,
            RecordingFails, RecordFailure, ProcessStatus, AlreadyRecorded, EventFails,
            CommitStatus, Crash
<1>2. IInv /\ [Next]_vars =>
         [\A e \in Event : webhook[e].status \in Settled => webhook'[e] = webhook[e]]_vars
  BY <1>1
<1> QED BY <1>2, Inductive, PTL DEF Spec, VerdictFinal

-----------------------------------------------------------------------------
(* The status shown.                                                        *)
Report(w) == Row(webhook[task[w].event].report, webhook[task[w].event].at, {task[w].event})
Reports(w) == webhook[task[w].event].message

(* The provider's id of a message is written once, when the send is         *)
(* recorded, and with it ends what is sent on its own.                      *)
SentOnce ==
    /\ \A m \in Message : message[m].status = "NONE" => history[m] = <<>> /\ message[m].sent = 0
    /\ \A e \in Event : webhook[e].status # "NONE" => webhook[e].sent # 0
    /\ \A w \in Worker : At(w, "ANSWERED") => task[w].sent # 0
    /\ \A m \in Message : message[m].sent # 0 /\ Unasked(m) =>
          outbox[m].status = "SENT" /\ \A w \in Worker : ~Sending(w, m)

(* Until then nothing the provider reported is in the history.              *)
OursOnly ==
    \A m \in Message : message[m].sent = 0 =>
        \A i \in DOMAIN history[m] : history[m][i].status \in {"QUEUED", "SENT", "FAILED"}

(* A transaction that has projected the history shows what the history says *)
(* with its row, as long as nobody has added to it.                         *)
ReadsStand ==
    \A w \in Worker : At(w, "PROJECTED") =>
        /\ message[Reports(w)].sent # 0
        /\ task[w].seen <= Len(history[Reports(w)])
        /\ task[w].seen = Len(history[Reports(w)]) =>
              task[w].status = Projection(Append(history[Reports(w)], Report(w)))

ShownInv == SentOnce /\ OursOnly /\ ReadsStand /\ StatusIsProjection

-----------------------------------------------------------------------------
(* What a row that is stamped no earlier than the rest does to the          *)
(* projection.                                                              *)
LEMMA ProjectionOfFailure ==
    ASSUME NEW h \in Seq(HistoryRow), \A i \in DOMAIN h : h[i].at <= Now
    PROVE  Projection(Append(h, Row("FAILED", Now, {}))) = "FAILED"
<1> DEFINE g == Append(h, Row("FAILED", Now, {}))
           last == Len(h) + 1
           failures == {i \in DOMAIN g : g[i].status = "FAILED"}
           after == {i \in DOMAIN g \ failures : \A f \in failures : Before(g, f, i)}
<1>1. /\ DOMAIN g = 1..last /\ Len(h) \in Nat
      /\ g[last] = Row("FAILED", Now, {})
      /\ \A i \in 1..Len(h) : g[i] = h[i] /\ g[i] \in HistoryRow /\ g[i].at <= Now
  OBVIOUS
<1>2. last \in failures /\ g[last].at = 1
  BY <1>1 DEF Row, Now
<1>3. ASSUME NEW i \in after PROVE FALSE
  <2>1. i \in 1..Len(h) /\ Before(g, last, i)
    BY <1>1, <1>2
  <2>2. g[i].at \in Nat /\ g[i].at <= 1
    BY <1>1, <2>1 DEF HistoryRow, Now
  <2> QED BY <1>1, <1>2, <2>1, <2>2 DEF Before
<1> QED BY <1>2, <1>3 DEF Projection

LEMMA ProjectionOfSend ==
    ASSUME NEW h \in Seq(HistoryRow), \A i \in DOMAIN h : h[i].at <= Now,
           \A i \in DOMAIN h : h[i].status \in {"QUEUED", "SENT", "FAILED"}
    PROVE  Projection(Append(h, Row("SENT", Now, {}))) = "SENT"
<1> DEFINE g == Append(h, Row("SENT", Now, {}))
           last == Len(h) + 1
           failures == {i \in DOMAIN g : g[i].status = "FAILED"}
           after == {i \in DOMAIN g \ failures : \A f \in failures : Before(g, f, i)}
           top == CHOOSE i \in after : \A j \in after : Rank[g[j].status] <= Rank[g[i].status]
<1>1. /\ DOMAIN g = 1..last /\ Len(h) \in Nat
      /\ g[last] = Row("SENT", Now, {})
      /\ \A i \in 1..Len(h) : g[i] = h[i] /\ g[i] \in HistoryRow /\ g[i].at <= Now
      /\ \A i \in 1..Len(h) : g[i].status \in {"QUEUED", "SENT", "FAILED"}
  OBVIOUS
<1>2. g[last].status = "SENT" /\ g[last].at = 1 /\ last \notin failures
  BY <1>1 DEF Row, Now
<1>3. last \in after
  <2>1. ASSUME NEW f \in failures PROVE Before(g, f, last)
    <3>1. f \in 1..Len(h) /\ g[f].at \in Nat /\ g[f].at <= 1
      BY <1>1, <1>2 DEF HistoryRow, Now
    <3> QED BY <1>1, <1>2, <3>1 DEF Before
  <2> QED BY <1>1, <1>2, <2>1
<1>4. \A i \in after : g[i].status \in {"QUEUED", "SENT"}
  BY <1>1, <1>2
<1>5. \A i \in after : Rank[g[i].status] <= Rank[g[last].status]
  BY <1>2, <1>4 DEF Rank
<1>6. Projection(g) = g[top].status
  BY <1>3 DEF Projection
<1>7. top \in after /\ Rank[g[last].status] <= Rank[g[top].status]
  <2> HIDE DEF after, g
  <2> QED BY <1>3, <1>5
<1> HIDE DEF top, after, g
<1>8. g[top].status = "SENT"
  <2>1. CASE g[top].status = "QUEUED"
    BY <1>2, <1>7, <2>1 DEF Rank
  <2> QED BY <1>4, <1>7, <2>1
<1> QED BY <1>6, <1>8 DEF g

LEMMA ProjectionOfFirst == Projection(Append(<<>>, Row("QUEUED", Now, {}))) = "QUEUED"
<1> DEFINE g == Append(<<>>, Row("QUEUED", Now, {}))
<1> DEFINE failures == {i \in DOMAIN g : g[i].status = "FAILED"}
           after == {i \in DOMAIN g \ failures : \A f \in failures : Before(g, f, i)}
           top == CHOOSE i \in after : \A j \in after : Rank[g[j].status] <= Rank[g[i].status]
<1>1. DOMAIN g = {1} /\ g[1].status = "QUEUED"
  BY DEF Row
<1>2. failures = {} /\ after = {1}
  BY <1>1
<1>3. Projection(g) = g[top].status
  BY <1>2 DEF Projection
<1>4. top = 1
  BY <1>1, <1>2 DEF Rank
<1> QED BY <1>1, <1>3, <1>4

-----------------------------------------------------------------------------
(* What a step does to the row of a message and to its history.             *)
Adds(m, row) == history'[m] = Append(history[m], row)
Untold(m) == message'[m] = message[m] /\ history'[m] = history[m]
Begun(m) ==
    /\ message[m].status = "NONE" /\ message'[m].status = "QUEUED" /\ message'[m].sent = 0
    /\ Adds(m, Row("QUEUED", Now, {}))
Marked(m) ==
    /\ message'[m].status = "SENDING" /\ message'[m].sent = message[m].sent
    /\ history'[m] = history[m]
GivenUp(m) ==
    /\ message'[m].status = "FAILED" /\ message'[m].sent = message[m].sent
    /\ Adds(m, Row("FAILED", Now, {}))
SentNow(m) ==
    /\ Unasked(m) => message[m].sent = 0 /\ \A v \in Worker : ~Sending(v, m)'
    /\ message'[m].status = "SENT" /\ message'[m].sent # 0 /\ outbox'[m].status = "SENT"
    /\ Adds(m, Row("SENT", Now, {}))
Told(w, m) ==
    /\ At(w, "PROJECTED") /\ Reports(w) = m
    /\ message'[m].status = task[w].status /\ message'[m].sent = message[m].sent
    /\ Adds(m, Report(w))
    /\ Len(history[m]) # task[w].seen => "OVERLAP" \in cause'[m]

Written(m) ==
    \/ Untold(m) \/ Begun(m) \/ Marked(m) \/ GivenUp(m) \/ SentNow(m)
    \/ \E w \in Worker : Told(w, m)

LEMMA ShownRow ==
    ASSUME TypeOK, NEW m \in Message, NEW status, NEW sent, Show(m, status, sent)
    PROVE  /\ message'[m].status = status /\ message'[m].sent = sent
           /\ Adds(m, Row(status, Now, {}))
           /\ \A n \in Message \ {m} : Untold(n)
<1>1. message[m] \in MessageRow
  BY DEF TypeOK
<1>2. message' = [message EXCEPT ![m] = [[@ EXCEPT !.status = status] EXCEPT !.sent = sent]]
  BY DEF Show
<1>3. /\ message'[m] = [[message[m] EXCEPT !.status = status] EXCEPT !.sent = sent]
      /\ \A n \in Message \ {m} : message'[n] = message[n]
  BY <1>2 DEF TypeOK
<1>4. message'[m].status = status /\ message'[m].sent = sent
  BY <1>1, <1>3 DEF MessageRow
<1>5. Adds(m, Row(status, Now, {})) /\ \A n \in Message \ {m} : history'[n] = history[n]
  BY DEF Show, TypeOK, Adds
<1> QED BY <1>3, <1>4, <1>5 DEF Untold

LEMMA MessageWritten == ASSUME IInv, SentOnce, Next PROVE \A m \in Message : Written(m)
<1> USE DEF IInv
<1>1. CASE message' = message /\ history' = history
  BY <1>1 DEF Written, Untold
<1>2. ASSUME NEW n \in Message, NEW media, Compose(n, media)
      PROVE  \A m \in Message : Written(m)
  BY <1>2 DEF Compose, Written, Untold, Begun, Adds, TypeOK
<1>3. ASSUME NEW w \in Worker, MarkSending(w) PROVE \A m \in Message : Written(m)
  <2>1. task[w].message \in Message
    BY <1>3, TaskShape DEF MarkSending, At, TypeOK, SendStep
  <2>2. message[task[w].message] \in MessageRow
    BY <2>1 DEF TypeOK
  <2>3. /\ message'[task[w].message] = [message[task[w].message] EXCEPT !.status = "SENDING"]
        /\ \A m \in Message \ {task[w].message} : message'[m] = message[m]
        /\ history' = history
    BY <1>3, <2>1 DEF MarkSending, TypeOK
  <2>4. Marked(task[w].message)
    BY <2>2, <2>3 DEF Marked, MessageRow
  <2> QED BY <2>3, <2>4 DEF Written, Untold
<1>4. ASSUME NEW w \in Worker, DeadLetter(w) \/ RecordFailure(w) PROVE \A m \in Message : Written(m)
  <2> DEFINE n == task[w].message
  <2>1. n \in Message
    BY <1>4, TaskShape DEF DeadLetter, RecordFailure, At, TypeOK, SendStep, DispatchStep
  <2>2. Show(n, "FAILED", message[n].sent)
    BY <1>4 DEF DeadLetter, RecordFailure
  <2> HIDE DEF n
  <2>3. GivenUp(n) /\ \A m \in Message \ {n} : Untold(m)
    BY <2>1, <2>2, ShownRow DEF GivenUp
  <2> QED BY <2>3 DEF Written
<1>5. ASSUME NEW w \in Worker, RecordSent(w) PROVE \A m \in Message : Written(m)
  <2>1. PICK n \in Message : task[w].message = n /\ Sending(w, n) /\ task[w].sent # 0
    BY <1>5, TaskShape DEF RecordSent, At, TypeOK, SendStep, SentOnce, Sending
  <2>2. Show(n, "SENT", task[w].sent) /\ outbox'[n].status = "SENT"
    BY <1>5, <2>1 DEF RecordSent, TypeOK, OutboxRow
  <2>3. task' = [task EXCEPT ![w] = Idle]
    BY <1>5 DEF RecordSent, Finished, SetTask
  <2>4. ASSUME Unasked(n)
        PROVE  message[n].sent = 0 /\ \A v \in Worker : ~Sending(v, n)'
    <3>1. message[n].sent = 0
      BY <2>1, <2>4 DEF SentOnce
    <3>2. ASSUME NEW v \in Worker, Sending(v, n)' PROVE FALSE
      <4>1. v # w /\ task'[v] = task[v]
        BY <2>3, <3>2 DEF Sending, TypeOK, SendStep, Idle
      <4>2. Sending(v, n)
        BY <3>2, <4>1 DEF Sending
      <4> QED BY <2>1, <2>4, <4>1, <4>2 DEF SendInv, SendersAlone, Unasked
    <3> QED BY <3>1, <3>2
  <2>5. SentNow(n) /\ \A m \in Message \ {n} : Untold(m)
    BY <2>1, <2>2, <2>4, ShownRow DEF SentNow
  <2> QED BY <2>5 DEF Written
<1>6. ASSUME NEW w \in Worker, CommitStatus(w) PROVE \A m \in Message : Written(m)
  <2> DEFINE n == Reports(w)
  <2>1. task[w].event \in Event /\ Handling(w, task[w].event)
    BY <1>6, TaskShape DEF CommitStatus, At, TypeOK, EventStep, Handling
  <2>2. webhook[task[w].event] \in WebhookRow
    BY <2>1 DEF EventInv, TypeOK, NoWebhook
  <2>3. n \in Message
    BY <2>2 DEF WebhookRow, Reports
  <2>4. message[n] \in MessageRow
    BY <2>3 DEF TypeOK
  <2>5. /\ message' = [message EXCEPT ![n] = [@ EXCEPT !.status = task[w].status]]
        /\ history' = [history EXCEPT ![n] = Append(@, Report(w))]
        /\ cause' = [cause EXCEPT ![n] =
                        IF Len(history[n]) # task[w].seen THEN @ \cup {"OVERLAP"} ELSE @]
        /\ At(w, "PROJECTED")
    BY <1>6 DEF CommitStatus, Reports, Report, Row
  <2> HIDE DEF n
  <2>6. /\ message'[n] = [message[n] EXCEPT !.status = task[w].status]
        /\ \A m \in Message \ {n} : message'[m] = message[m] /\ history'[m] = history[m]
        /\ Adds(n, Report(w))
        /\ Len(history[n]) # task[w].seen => "OVERLAP" \in cause'[n]
    BY <2>3, <2>5 DEF TypeOK, Adds
  <2>7. message'[n].status = task[w].status /\ message'[n].sent = message[n].sent
    BY <2>4, <2>6 DEF MessageRow
  <2>8. Told(w, n)
    BY <2>5, <2>6, <2>7 DEF Told, n
  <2> QED BY <2>6, <2>8 DEF Written, Untold
<1> QED
  BY <1>1, <1>2, <1>3, <1>4, <1>5, <1>6
     DEF Next, Advance, db, QueueAutomatedReminder, BeginMediaUpload, SendMessage,
         CompleteMediaUpload, Retry, Requeue, RunJob, FindsAbandoned, Claim, NothingToClaim,
         Rejected, Answered, AnswerLost, RecordingFails, ProcessStatus, AlreadyRecorded,
         EventFails, ClaimEvent, ReceiveWebhook, FinishEvent, Crash

-----------------------------------------------------------------------------
(* What a step does to the other rows and to the tasks.                     *)
Projects(v) ==
    LET e == task'[v].event
        m == webhook[e].message
    IN  /\ task'[v].step = "PROJECTED" /\ UNCHANGED <<message, history, webhook>>
        /\ e \in Event /\ webhook[e].status # "NONE" /\ message[m].sent = webhook[e].sent
        /\ task'[v].seen = Len(history[m])
        /\ task'[v].status =
              Projection(Append(history[m], Row(webhook[e].report, webhook[e].at, {e})))

Goes(v) ==
    \/ task'[v] = task[v]
    \/ task'[v].step \notin SendStep \cup {"PROJECTED"}
    \/ /\ task'[v].step \in SendStep /\ task'[v].message = task[v].message
       /\ task[v].step \in SendStep \/ Claimable(task[v].message)
       /\ task'[v].step = "ANSWERED" => task'[v].sent # 0
    \/ Projects(v)

LEMMA TasksGo == ASSUME IInv, Next PROVE \A v \in Worker : Goes(v)
<1> USE DEF IInv
<1>1. ASSUME NEW w \in Worker, NEW t, SetTask(w, t)
      PROVE  /\ task'[w] = t
             /\ \A v \in Worker \ {w} : task'[v] = task[v]
  BY <1>1 DEF SetTask, TypeOK
<1>2. CASE task' = task
  BY <1>2 DEF Goes
<1>3. ASSUME NEW w \in Worker, NEW t, SetTask(w, t), t.step \notin SendStep \cup {"PROJECTED"}
      PROVE  \A v \in Worker : Goes(v)
  BY <1>1, <1>3 DEF Goes
<1>4. ASSUME NEW w \in Worker, NEW m, NEW jobs, SetTask(w, Dispatching(m, jobs))
      PROVE  \A v \in Worker : Goes(v)
  <2>1. Dispatching(m, jobs).step = "DISPATCH"
    BY DEF Dispatching
  <2> HIDE DEF Dispatching
  <2> QED BY <1>3, <1>4, <2>1 DEF SendStep
<1>5. ASSUME NEW w \in Worker, NEW m \in Message, Retry(w, m) PROVE \A v \in Worker : Goes(v)
  <2> DEFINE t == [step |-> "RETRY", message |-> m]
  <2>1. SetTask(w, t) /\ t.step = "RETRY"
    BY <1>5 DEF Retry
  <2> HIDE DEF t
  <2> QED BY <1>3, <2>1 DEF SendStep
<1>6. ASSUME NEW w \in Worker,
              \/ \E j \in job : RunJob(w, j)
              \/ Requeue(w) \/ \E m \in Message : SendMessage(w, m) \/ CompleteMediaUpload(w, m)
       PROVE  \A v \in Worker : Goes(v)
  BY <1>4, <1>6 DEF RunJob, Requeue, SendMessage, CompleteMediaUpload
<1>7. ASSUME NEW w \in Worker,
             \/ DeadLetter(w) \/ NothingToClaim(w) \/ RecordSent(w) \/ RecordFailure(w)
             \/ FinishEvent(w) \/ Crash(w)
      PROVE  \A v \in Worker : Goes(v)
  <2>1. SetTask(w, Idle)
    BY <1>7 DEF DeadLetter, NothingToClaim, RecordSent, RecordFailure, FinishEvent, Crash, Finished
  <2> QED BY <1>3, <2>1 DEF SendStep, Idle
<1>8. ASSUME NEW w \in Worker, NEW e \in Event, ClaimEvent(w, e) PROVE \A v \in Worker : Goes(v)
  BY <1>1, <1>8 DEF ClaimEvent, Goes, SendStep
<1>9. ASSUME NEW w \in Worker, FindsAbandoned(w) PROVE \A v \in Worker : Goes(v)
  <2>1. [task[w] EXCEPT !.step = "ABANDONED"].step = "ABANDONED"
    BY <1>9, TaskShape DEF FindsAbandoned, At, TypeOK, DispatchStep
  <2>2. SetTask(w, [task[w] EXCEPT !.step = "ABANDONED"])
    BY <1>9 DEF FindsAbandoned
  <2> QED BY <1>3, <2>1, <2>2 DEF SendStep
<1>10. ASSUME NEW w \in Worker, Claim(w) PROVE \A v \in Worker : Goes(v)
  <2> DEFINE r == [task[w] EXCEPT !.step = "CLAIMED", !.attempts = outbox[task[w].message].attempts + 1]
  <2>1. r.step = "CLAIMED" /\ r.message = task[w].message
    BY <1>10, TaskShape DEF Claim, At, TypeOK, DispatchStep
  <2>2. SetTask(w, r) /\ Claimable(task[w].message)
    BY <1>10 DEF Claim
  <2> HIDE DEF r
  <2> QED BY <1>1, <2>1, <2>2 DEF Goes, SendStep
<1>11. ASSUME NEW w \in Worker,
             \/ MarkSending(w) \/ Rejected(w) \/ Answered(w) \/ AnswerLost(w) \/ RecordingFails(w)
      PROVE  \A v \in Worker : Goes(v)
  <2>1. task[w].step \in SendStep /\ task[w] \in Task
    BY <1>11 DEF MarkSending, Rejected, Answered, AnswerLost, RecordingFails, At, SendStep, TypeOK
  <2>2. /\ task[w].message \in Message
        /\ task[w] = [step |-> task[w].step, message |-> task[w].message,
                       attempts |-> task[w].attempts, sent |-> task[w].sent, jobs |-> task[w].jobs]
    BY <2>1, TaskShape
  <2>3. accepted[task[w].message] + 1 # 0
    BY <2>2 DEF TypeOK
  <2>4. \E t : /\ SetTask(w, t) /\ t.step \in SendStep /\ t.message = task[w].message
               /\ t.step = "ANSWERED" => t.sent # 0
    <3>1. CASE MarkSending(w)
      BY <3>1, <2>2 DEF MarkSending, SendStep
    <3>2. CASE Rejected(w) \/ AnswerLost(w)
      BY <3>2, <2>2 DEF Rejected, AnswerLost, SendStep
    <3>3. CASE Answered(w)
      <4> DEFINE t == [[task[w] EXCEPT !.step = "ANSWERED"] EXCEPT !.sent = accepted[task[w].message] + 1]
      <4>1. SetTask(w, t)
        BY <3>3 DEF Answered
      <4>2. t.step = "ANSWERED" /\ t.message = task[w].message /\ t.sent # 0
        BY <2>2, <2>3
      <4> HIDE DEF t
      <4> QED BY <4>1, <4>2 DEF SendStep
    <3>4. CASE RecordingFails(w)
      <4> DEFINE t == [[task[w] EXCEPT !.step = "ERRED"] EXCEPT !.sent = 0]
      <4>1. SetTask(w, t)
        BY <3>4 DEF RecordingFails
      <4>2. t.step = "ERRED" /\ t.message = task[w].message
        BY <2>2
      <4> HIDE DEF t
      <4> QED BY <4>1, <4>2 DEF SendStep
    <3> QED BY <1>11, <3>1, <3>2, <3>3, <3>4
  <2> QED BY <1>1, <2>1, <2>4 DEF Goes
<1>12. ASSUME NEW w \in Worker, AlreadyRecorded(w) \/ EventFails(w) \/ CommitStatus(w)
       PROVE  \A v \in Worker : Goes(v)
  <2>1. task[w].step \in EventStep /\ task[w] \in Task
    BY <1>12 DEF AlreadyRecorded, EventFails, CommitStatus, At, EventStep, TypeOK
  <2>2. PICK s \in {"REPEATED", "BROKEN", "RECORDED"} : SetTask(w, [task[w] EXCEPT !.step = s])
    BY <1>12 DEF AlreadyRecorded, EventFails, CommitStatus
  <2>3. [task[w] EXCEPT !.step = s].step = s
    BY <2>1, TaskShape
  <2> QED BY <1>3, <2>2, <2>3 DEF SendStep
<1>13. ASSUME NEW w \in Worker, ProcessStatus(w) PROVE \A v \in Worker : Goes(v)
  <2> DEFINE e == task[w].event
             m == webhook[e].message
             p == Projection(Append(history[m], Row(webhook[e].report, webhook[e].at, {e})))
             n == Len(history[m])
             r == [[[task[w] EXCEPT !.step = "PROJECTED"] EXCEPT !.seen = n] EXCEPT !.status = p]
  <2>1. task[w].step \in EventStep /\ task[w] \in Task
    BY <1>13 DEF ProcessStatus, At, EventStep, TypeOK
  <2>2. e \in Event /\ Handling(w, e)
        /\ task[w] = [step |-> task[w].step, event |-> task[w].event, attempts |-> task[w].attempts,
                      status |-> task[w].status, seen |-> task[w].seen]
    BY <2>1, TaskShape DEF Handling
  <2>3. webhook[e].status # "NONE"
    BY <2>2 DEF EventInv
  <2>4. SetTask(w, r) /\ Known(e) /\ UNCHANGED <<message, history, webhook>>
    BY <1>13 DEF ProcessStatus, db
  <2> HIDE DEF e, m, p, n
  <2>5. r.step = "PROJECTED" /\ r.event = task[w].event /\ r.seen = n /\ r.status = p
    BY <2>2
  <2> HIDE DEF r
  <2>6. task'[w] = r /\ \A v \in Worker \ {w} : task'[v] = task[v]
    BY <1>1, <2>4
  <2>7. r.event = e
    BY <2>5 DEF e
  <2>8. Projects(w)
    BY <2>2, <2>3, <2>4, <2>5, <2>6, <2>7 DEF Projects, Known, m, n, p
  <2> QED BY <2>6, <2>8 DEF Goes
<1> QED
  BY <1>2, <1>5, <1>6, <1>7, <1>8, <1>9, <1>10, <1>11, <1>12, <1>13
     DEF Next, Advance, QueueAutomatedReminder, BeginMediaUpload, ReceiveWebhook

LEMMA EventsStay ==
    ASSUME IInv, Next, NEW e \in Event
    PROVE  /\ webhook[e].status # "NONE" =>
                 /\ webhook'[e].message = webhook[e].message /\ webhook'[e].sent = webhook[e].sent
                 /\ webhook'[e].report = webhook[e].report /\ webhook'[e].at = webhook[e].at
           /\ webhook[e].status = "NONE" /\ webhook'[e].status # "NONE" => webhook'[e].sent # 0
<1> USE DEF IInv
<1>1. CASE webhook' = webhook
  BY <1>1
<1>2. ASSUME NEW f \in Event, ReceiveWebhook(f)
      PROVE  /\ webhook[e].status # "NONE" => webhook'[e] = webhook[e]
             /\ webhook[e].status = "NONE" /\ webhook'[e].status # "NONE" => webhook'[e].sent # 0
  <2>1. PICK m \in Message, report \in Reported, at \in Stamp : \E sent \in 1..accepted[m] :
           webhook' = [webhook EXCEPT ![f] =
               [status |-> "RECEIVED", attempts |-> 0, message |-> m, sent |-> sent,
                report |-> report, at |-> at]]
    BY <1>2 DEF ReceiveWebhook
  <2>2. webhook[f].status = "NONE" /\ accepted[m] \in Nat
    BY <1>2 DEF ReceiveWebhook, TypeOK
  <2> QED BY <2>1, <2>2 DEF TypeOK
<1>3. ASSUME NEW w \in Worker, NEW f \in Event, NEW row,
             webhook' = [webhook EXCEPT ![f] = row], webhook[f].status # "NONE",
             \E status, attempts :
                row = [[webhook[f] EXCEPT !.status = status] EXCEPT !.attempts = attempts]
      PROVE  /\ webhook'[e].message = webhook[e].message /\ webhook'[e].sent = webhook[e].sent
             /\ webhook'[e].report = webhook[e].report /\ webhook'[e].at = webhook[e].at
             /\ webhook[e].status = "NONE" => webhook'[e] = webhook[e]
  <2>1. webhook[f] \in WebhookRow
    BY <1>3 DEF TypeOK, NoWebhook
  <2>2. /\ row.message = webhook[f].message /\ row.sent = webhook[f].sent
        /\ row.report = webhook[f].report /\ row.at = webhook[f].at
    BY <1>3, <2>1 DEF WebhookRow
  <2> QED BY <1>3, <2>2 DEF TypeOK
<1>4. ASSUME NEW w \in Worker, NEW f \in Event, ClaimEvent(w, f)
      PROVE  /\ webhook'[e].message = webhook[e].message /\ webhook'[e].sent = webhook[e].sent
             /\ webhook'[e].report = webhook[e].report /\ webhook'[e].at = webhook[e].at
             /\ webhook[e].status = "NONE" => webhook'[e] = webhook[e]
  <2> DEFINE row == [[webhook[f] EXCEPT !.status = "PROCESSING"] EXCEPT !.attempts = @ + 1]
  <2>1. webhook' = [webhook EXCEPT ![f] = row] /\ webhook[f].status # "NONE"
    BY <1>4 DEF ClaimEvent
  <2>2. webhook[f] \in WebhookRow
    BY <2>1 DEF TypeOK, NoWebhook
  <2>3. row = [[webhook[f] EXCEPT !.status = "PROCESSING"] EXCEPT !.attempts = webhook[f].attempts + 1]
    BY <2>2 DEF WebhookRow
  <2> HIDE DEF row
  <2> QED BY <1>3, <2>1, <2>3
<1>5. ASSUME NEW w \in Worker, FinishEvent(w), webhook' # webhook
      PROVE  /\ webhook'[e].message = webhook[e].message /\ webhook'[e].sent = webhook[e].sent
             /\ webhook'[e].report = webhook[e].report /\ webhook'[e].at = webhook[e].at
             /\ webhook[e].status = "NONE" => webhook'[e] = webhook[e]
  <2> DEFINE f == task[w].event
             row == [webhook[f] EXCEPT !.status = Verdict(w)]
  <2>1. f \in Event /\ Handling(w, f)
    BY <1>5, TaskShape DEF FinishEvent, TypeOK, EventStep, Handling
  <2>2. webhook[f].status # "NONE"
    BY <2>1 DEF EventInv
  <2>3. webhook[f] \in WebhookRow /\ webhook' = [webhook EXCEPT ![f] = row]
    BY <1>5, <2>1, <2>2 DEF FinishEvent, TypeOK, NoWebhook
  <2>4. row = [[webhook[f] EXCEPT !.status = Verdict(w)] EXCEPT !.attempts = webhook[f].attempts]
    BY <2>3 DEF WebhookRow
  <2> HIDE DEF row, f
  <2> QED BY <1>3, <2>1, <2>2, <2>3, <2>4
<1> QED
  BY <1>1, <1>2, <1>4, <1>5
     DEF Next, Advance, db, QueueAutomatedReminder, BeginMediaUpload, SendMessage,
         CompleteMediaUpload, Retry, Requeue, RunJob, FindsAbandoned, DeadLetter, Claim,
         NothingToClaim, MarkSending, Rejected, Answered, AnswerLost, RecordSent,
         RecordingFails, RecordFailure, ProcessStatus, AlreadyRecorded, EventFails,
         CommitStatus, Crash

LEMMA CausesStay == IInv /\ Next => \A m \in Message : cause[m] \subseteq cause'[m]
<1> SUFFICES ASSUME IInv, Next, NEW m \in Message PROVE cause[m] \subseteq cause'[m]
  OBVIOUS
<1>1. CASE cause' = cause
  BY <1>1
<1>2. ASSUME NEW w \in Worker,
             Requeue(w) \/ AnswerLost(w) \/ RecordingFails(w) \/ CommitStatus(w) \/ Crash(w)
      PROVE  \A n \in Message : cause'[n] = cause[n] \/ \E more : cause'[n] = cause[n] \cup more
  <2>1. CASE Requeue(w)
    BY <2>1 DEF Requeue, IInv, TypeOK
  <2>2. CASE AnswerLost(w) \/ RecordingFails(w)
    BY <2>2 DEF AnswerLost, RecordingFails, IInv, TypeOK
  <2>3. CASE CommitStatus(w)
    BY <2>3 DEF CommitStatus, IInv, TypeOK
  <2>4. CASE Crash(w)
    BY <2>4 DEF Crash, IInv, TypeOK
  <2> QED BY <1>2, <2>1, <2>2, <2>3, <2>4
<1>3. ASSUME \E more : cause'[m] = cause[m] \cup more PROVE cause[m] \subseteq cause'[m]
  BY <1>3
<1>4. \/ cause' = cause
      \/ \E w \in Worker :
            Requeue(w) \/ AnswerLost(w) \/ RecordingFails(w) \/ CommitStatus(w) \/ Crash(w)
  BY DEF Next, Advance, db, QueueAutomatedReminder, BeginMediaUpload, SendMessage,
       CompleteMediaUpload, Retry, RunJob, ClaimEvent, ReceiveWebhook, FindsAbandoned,
       DeadLetter, Claim, NothingToClaim, MarkSending, Rejected, Answered,
       RecordSent, RecordFailure, ProcessStatus, AlreadyRecorded, EventFails, FinishEvent
<1> QED BY <1>1, <1>2, <1>3, <1>4

(* The outbox row of a message that was sent stays sent, unless a person    *)
(* has it sent again.                                                       *)
LEMMA SentRowStays ==
    ASSUME IInv, Next, NEW m \in Message, outbox[m].status = "SENT", Unasked(m)',
           \A w \in Worker : ~Sending(w, m)
    PROVE  outbox'[m].status = "SENT"
<1> USE DEF IInv
<1>1. CASE outbox' = outbox
  BY <1>1
<1>2. CASE outbox'[m] = outbox[m]
  BY <1>2
<1>3. ASSUME NEW n \in Message, QueueAutomatedReminder(n) \/ \E w \in Worker : SendMessage(w, n)
      PROVE  outbox'[m] = outbox[m]
  <2>1. n # m
    BY <1>3 DEF QueueAutomatedReminder, SendMessage, Compose, SendInv
  <2> QED BY <1>3, <2>1 DEF QueueAutomatedReminder, SendMessage, TypeOK
<1>4. ASSUME NEW w \in Worker, NEW n \in Message, CompleteMediaUpload(w, n)
      PROVE  outbox'[m] = outbox[m]
  BY <1>4 DEF CompleteMediaUpload, TypeOK
<1>5. ASSUME NEW w \in Worker, Requeue(w) PROVE outbox'[m] = outbox[m]
  <2>1. task[w].message \in Message
    BY <1>5, TaskShape DEF Requeue, At, TypeOK
  <2>2. "PERSON" \in cause'[task[w].message]
    BY <1>5, <2>1 DEF Requeue, TypeOK
  <2> QED BY <1>5, <2>1, <2>2 DEF Requeue, Unasked, TypeOK
<1>6. ASSUME NEW w \in Worker, DeadLetter(w) PROVE outbox'[m] = outbox[m]
  <2>1. CASE task[w].message = m
    BY <1>6, <2>1 DEF DeadLetter, TypeOK
  <2>2. CASE task[w].message # m
    BY <1>6, <2>2 DEF DeadLetter, TypeOK
  <2> QED BY <2>1, <2>2
<1>7. ASSUME NEW w \in Worker, Claim(w) PROVE outbox'[m] = outbox[m]
  <2>1. task[w].message # m
    BY <1>7 DEF Claim, Claimable
  <2> QED BY <1>7, <2>1 DEF Claim, TypeOK
<1>8. ASSUME NEW w \in Worker, RecordSent(w) \/ RecordFailure(w) PROVE outbox'[m] = outbox[m]
  <2>1. task[w].message # m
    BY <1>8 DEF RecordSent, RecordFailure, At, SendStep, Sending
  <2> QED BY <1>8, <2>1 DEF RecordSent, RecordFailure, TypeOK
<1> QED
  BY <1>1, <1>2, <1>3, <1>4, <1>5, <1>6, <1>7, <1>8
     DEF Next, Advance, db, BeginMediaUpload, Retry, RunJob, FindsAbandoned, NothingToClaim,
         MarkSending, Rejected, Answered, AnswerLost, RecordingFails, ProcessStatus,
         AlreadyRecorded, EventFails, ClaimEvent, ReceiveWebhook, CommitStatus, FinishEvent, Crash

-----------------------------------------------------------------------------
(* The parts of the invariant are kept, one after the other.                *)
LEMMA HistoryAdded ==
    ASSUME TypeOK, NEW m \in Message, NEW row, Adds(m, row)
    PROVE  /\ Len(history[m]) \in Nat /\ DOMAIN history[m] = 1..Len(history[m])
           /\ Len(history'[m]) = Len(history[m]) + 1
           /\ DOMAIN history'[m] = 1..(Len(history[m]) + 1)
           /\ \A i \in DOMAIN history[m] : history'[m][i] = history[m][i]
           /\ history'[m][Len(history[m]) + 1] = row
BY DEF TypeOK, Adds

LEMMA SentOnceKept == ASSUME IInv, SentOnce, Next PROVE SentOnce'
<1>1. ASSUME NEW m \in Message, message'[m].status = "NONE"
      PROVE  history'[m] = <<>> /\ message'[m].sent = 0
  <2>1. Written(m)
    BY MessageWritten
  <2>2. ASSUME NEW w \in Worker, Told(w, m) PROVE FALSE
    <3>1. task[w].status \in DeliveryStatus
      BY <2>2, TaskShape DEF Told, At, IInv, TypeOK, EventStep
    <3> QED BY <1>1, <2>2, <3>1 DEF Told, DeliveryStatus
  <2>3. Untold(m)
    BY <1>1, <2>1, <2>2 DEF Written, Begun, Marked, GivenUp, SentNow
  <2> QED BY <1>1, <2>3 DEF Untold, SentOnce
<1>2. ASSUME NEW e \in Event, webhook'[e].status # "NONE" PROVE webhook'[e].sent # 0
  BY <1>2, EventsStay DEF SentOnce
<1>3. ASSUME NEW w \in Worker, task'[w].step = "ANSWERED" PROVE task'[w].sent # 0
  <2>1. Goes(w)
    BY TasksGo
  <2> QED BY <1>3, <2>1 DEF Goes, Projects, SentOnce, At, SendStep
<1>4. ASSUME NEW m \in Message, message'[m].sent # 0, Unasked(m)'
      PROVE  outbox'[m].status = "SENT" /\ \A w \in Worker : ~Sending(w, m)'
  <2>1. Written(m) /\ Unasked(m)
    BY <1>4, MessageWritten, CausesStay DEF Unasked
  <2>2. CASE SentNow(m)
    BY <2>1, <2>2 DEF SentNow
  <2>3. CASE message[m].sent # 0
    <3>1. outbox[m].status = "SENT" /\ \A w \in Worker : ~Sending(w, m)
      BY <2>1, <2>3 DEF SentOnce
    <3>2. ASSUME NEW w \in Worker, Sending(w, m)' PROVE FALSE
      <4>1. Goes(w) /\ ~Sending(w, m) /\ ~Claimable(m)
        BY <3>1, TasksGo DEF Claimable
      <4> QED BY <3>2, <4>1 DEF Goes, Projects, Sending, SendStep
    <3> QED BY <1>4, <3>1, <3>2, SentRowStays
  <2>4. CASE message[m].sent = 0 /\ ~SentNow(m)
    <3>1. message'[m].sent = message[m].sent
      BY <1>4, <2>1, <2>4 DEF Written, Untold, Begun, Marked, GivenUp, Told
    <3> QED BY <1>4, <2>4, <3>1
  <2> QED BY <2>2, <2>3, <2>4
<1> QED BY <1>1, <1>2, <1>3, <1>4 DEF SentOnce, At

LEMMA OursOnlyKept == ASSUME IInv, SentOnce, OursOnly, ReadsStand, Next PROVE OursOnly'
<1> SUFFICES ASSUME NEW m \in Message, message'[m].sent = 0, NEW i \in DOMAIN history'[m]
             PROVE  history'[m][i].status \in {"QUEUED", "SENT", "FAILED"}
  BY DEF OursOnly
<1>1. Written(m)
  BY MessageWritten
<1>2. ~SentNow(m) /\ \A w \in Worker : ~Told(w, m)
  BY DEF SentNow, Told, ReadsStand
<1>3. CASE Untold(m) \/ Marked(m)
  BY <1>3 DEF Untold, Marked, OursOnly
<1>4. ASSUME NEW status \in {"QUEUED", "FAILED"}, Adds(m, Row(status, Now, {})), message[m].sent = 0
      PROVE  history'[m][i].status \in {"QUEUED", "SENT", "FAILED"}
  <2> DEFINE row == Row(status, Now, {})
  <2>1. row.status = status /\ Adds(m, row)
    BY <1>4 DEF Row
  <2> HIDE DEF row
  <2>2. i \in DOMAIN history[m] \/ i = Len(history[m]) + 1
    BY <2>1, HistoryAdded DEF IInv
  <2>3. \A j \in DOMAIN history[m] : history[m][j].status \in {"QUEUED", "SENT", "FAILED"}
    BY <1>4 DEF OursOnly
  <2> QED BY <2>1, <2>2, <2>3, HistoryAdded DEF IInv
<1>5. CASE Begun(m)
  BY <1>4, <1>5 DEF Begun, SentOnce
<1>6. CASE GivenUp(m)
  BY <1>4, <1>6 DEF GivenUp
<1> QED BY <1>1, <1>2, <1>3, <1>5, <1>6 DEF Written

LEMMA ReadsKept == ASSUME IInv, SentOnce, ReadsStand, Next PROVE ReadsStand'
<1> SUFFICES ASSUME NEW w \in Worker, task'[w].step = "PROJECTED"
             PROVE  /\ message'[Reports(w)'].sent # 0
                    /\ task'[w].seen <= Len(history'[Reports(w)'])
                    /\ task'[w].seen = Len(history'[Reports(w)']) =>
                          task'[w].status = Projection(Append(history'[Reports(w)'], Report(w)'))
  BY DEF ReadsStand, At
<1>1. Goes(w)
  BY TasksGo
<1>2. CASE Projects(w)
  <2> DEFINE e == task'[w].event
             m == webhook[e].message
  <2>1. /\ e \in Event /\ webhook' = webhook /\ message' = message /\ history' = history
        /\ Reports(w)' = m /\ Report(w)' = Row(webhook[e].report, webhook[e].at, {e})
    BY <1>2 DEF Projects, Reports, Report
  <2>2. message[m].sent # 0
    BY <1>2, <2>1 DEF Projects, SentOnce
  <2>3. m \in Message
    BY <1>2, <2>1 DEF Projects, IInv, TypeOK, WebhookRow, NoWebhook
  <2>4. /\ task'[w].seen = Len(history[m]) /\ Len(history[m]) \in Nat
        /\ task'[w].status = Projection(Append(history[m], Row(webhook[e].report, webhook[e].at, {e})))
    BY <1>2, <2>3 DEF Projects, IInv, TypeOK
  <2> QED BY <2>1, <2>2, <2>4
<1>3. CASE task'[w] = task[w]
  <2>1. /\ task[w].step = "PROJECTED" /\ task[w].event \in Event /\ task[w].seen \in Nat
        /\ Handling(w, task[w].event)
    BY <1>3, TaskShape DEF IInv, TypeOK, EventStep, Handling
  <2>2. webhook[task[w].event].status # "NONE"
    BY <2>1 DEF IInv, EventInv
  <2>3. Reports(w)' = Reports(w) /\ Report(w)' = Report(w)
    BY <1>3, <2>1, <2>2, EventsStay DEF Reports, Report
  <2>4. PICK m \in Message : Reports(w) = m
    <3>1. webhook[task[w].event] \in WebhookRow
      BY <2>1, <2>2 DEF IInv, TypeOK, NoWebhook
    <3> QED BY <3>1 DEF WebhookRow, Reports
  <2>5. /\ message[m].sent # 0 /\ task[w].seen <= Len(history[m])
        /\ task[w].seen = Len(history[m]) => task[w].status = Projection(Append(history[m], Report(w)))
        /\ Len(history[m]) \in Nat
    BY <2>1, <2>4 DEF ReadsStand, At, IInv, TypeOK
  <2>6. Written(m)
    BY MessageWritten
  <2>7. message'[m].sent # 0
    BY <2>5, <2>6 DEF Written, Untold, Begun, Marked, GivenUp, SentNow, Told, SentOnce
  <2>8. CASE history'[m] = history[m]
    BY <1>3, <2>3, <2>4, <2>5, <2>7, <2>8
  <2>9. CASE \E row : Adds(m, row)
    <3>1. Len(history'[m]) = Len(history[m]) + 1
      BY <2>9, HistoryAdded DEF IInv
    <3> QED BY <1>3, <2>1, <2>3, <2>4, <2>5, <2>7, <3>1
  <2>10. history'[m] = history[m] \/ \E row : Adds(m, row)
    BY <2>6 DEF Written, Untold, Begun, Marked, GivenUp, SentNow, Told
  <2> QED BY <2>8, <2>9, <2>10
<1> QED BY <1>1, <1>2, <1>3 DEF Goes, SendStep

LEMMA ProjectionKept == ASSUME IInv, ShownInv, Next PROVE StatusIsProjection'
<1> USE DEF ShownInv
<1> SUFFICES ASSUME NEW m \in Message, message'[m].status \notin {"NONE", "SENDING"},
                    cause'[m] \cap {"PERSON", "OVERLAP"} = {}, Punctual(m)'
             PROVE  message'[m].status = Projection(history'[m])
  BY DEF StatusIsProjection
<1>1. Written(m)
  BY MessageWritten
<1>2. cause[m] \cap {"PERSON", "OVERLAP"} = {} /\ Unasked(m)
  BY CausesStay DEF Unasked
<1>3. history[m] \in Seq(HistoryRow)
  BY DEF IInv, TypeOK
<1>4. ASSUME NEW row, Adds(m, row) PROVE \A i \in DOMAIN history[m] : history[m][i].at <= Now
  <2>1. DOMAIN history[m] \subseteq DOMAIN history'[m]
    BY <1>4, HistoryAdded DEF IInv
  <2> QED BY <1>4, <2>1, HistoryAdded DEF IInv, Punctual
<1>5. CASE Untold(m)
  BY <1>2, <1>5 DEF Untold, StatusIsProjection, Punctual
<1>6. CASE Begun(m)
  BY <1>6, ProjectionOfFirst DEF Begun, SentOnce, Adds
<1>7. CASE Marked(m)
  BY <1>7 DEF Marked
<1>8. CASE GivenUp(m)
  BY <1>3, <1>4, <1>8, ProjectionOfFailure DEF GivenUp, Adds
<1>9. CASE SentNow(m)
  <2>1. \A i \in DOMAIN history[m] : history[m][i].status \in {"QUEUED", "SENT", "FAILED"}
    BY <1>2, <1>9 DEF SentNow, OursOnly
  <2>2. \A i \in DOMAIN history[m] : history[m][i].at <= Now
    BY <1>4, <1>9 DEF SentNow
  <2> QED BY <1>3, <1>9, <2>1, <2>2, ProjectionOfSend DEF SentNow, Adds
<1>10. ASSUME NEW w \in Worker, Told(w, m) PROVE message'[m].status = Projection(history'[m])
  <2>1. Len(history[m]) = task[w].seen
    BY <1>10 DEF Told
  <2>2. task[w].status = Projection(Append(history[m], Report(w)))
    BY <1>10, <2>1 DEF Told, ReadsStand
  <2> QED BY <1>10, <2>2 DEF Told, Adds
<1> QED BY <1>1, <1>5, <1>6, <1>7, <1>8, <1>9, <1>10 DEF Written

LEMMA InitShown == Init => ShownInv
BY DEF Init, ShownInv, SentOnce, OursOnly, ReadsStand, StatusIsProjection, NoWebhook, At, Idle

LEMMA StepShown == IInv /\ ShownInv /\ [Next]_vars => ShownInv'
<1> SUFFICES ASSUME IInv, ShownInv, [Next]_vars PROVE ShownInv'
  OBVIOUS
<1>1. CASE UNCHANGED vars
  BY <1>1 DEF vars, ShownInv, SentOnce, OursOnly, ReadsStand, StatusIsProjection, Punctual, At,
              Unasked, Sending, Reports, Report
<1>2. CASE Next
  BY <1>2, SentOnceKept, OursOnlyKept, ReadsKept, ProjectionKept DEF ShownInv
<1> QED BY <1>1, <1>2

(* The status of a message is what its history says, for any number of      *)
(* workers, events and messages, while no row is stamped ahead of our       *)
(* clock, no two transactions overlapped and no person retried.             *)
THEOREM StatusFollowsHistory == Spec => []StatusIsProjection
<1>1. Init => ShownInv
  BY InitShown
<1>2. IInv /\ ShownInv /\ [Next]_vars => ShownInv'
  BY StepShown
<1>3. ShownInv => StatusIsProjection
  BY DEF ShownInv
<1> QED BY <1>1, <1>2, <1>3, Inductive, PTL DEF Spec

-----------------------------------------------------------------------------
(* Conversations.                                                           *)

(* A try that had found no conversation when another opened it. *)
Passed(e, n) ==
    threads[SenderOf[e]].open /\ [event |-> e, attempt |-> n] \in threads[SenderOf[e]].met
Excused(e, n) == Kept(e) \/ Passed(e, n)
InHand(h) == desk[h].step # "IDLE"

(* What a handler in the middle of an event may rely on. *)
HandlerInv(h) ==
    /\ InHand(h) => desk[h].event \in Inbound
    /\ desk[h].step \in {"MATCH", "OPEN"} /\ threads[Sender(h)].open
          => Passed(desk[h].event, desk[h].attempt)
    /\ desk[h].step = "RECORD" => threads[Sender(h)].open
    /\ desk[h].step = "DONE" => Kept(desk[h].event)
    /\ desk[h].step = "UNIQUE" => Excused(desk[h].event, desk[h].attempt)
VerdictInv(e) ==
    /\ receipts[e].status = "PROCESSED" => Kept(e)
    /\ receipts[e].status = "DUPLICATE" => Excused(e, receipts[e].attempts)
IdsApart == \A i, j \in DOMAIN timeline : timeline[i].id = timeline[j].id => i = j

DeskInv ==
    /\ \A h \in Handler : HandlerInv(h)
    /\ \A e \in Inbound : VerdictInv(e)
    /\ IdsApart

(* The last inbound time of a conversation is the time of one of its rows. *)
Fresher(c) == \E i \in Received(c) : timeline[i].kind = "INBOUND" /\ timeline[i].at = threads[c].lastIn
WindowInv ==
    /\ \A i \in DOMAIN timeline :
          timeline[i].kind = "INBOUND" => threads[timeline[i].customer].open
    /\ \A c \in Customer : HasWritten(c) => Fresher(c)
    /\ TextRestsOnInbound

(* What has been shown of a thread: everything of what was there when it    *)
(* was opened, but for what is before the cursor and what cursors skipped.  *)
ReadFrom(a) ==
    \A i \in Received(reader[a].customer) : i <= reader[a].first =>
        \/ i \in reader[a].seen \/ SkippedBy(i, reader[a].cursors)
        \/ reader[a].more /\ PastCursor(i, reader[a].before)
ReaderInv(a) ==
    /\ reader[a].more => reader[a].customer # None /\ reader[a].before \in DOMAIN timeline
    /\ reader[a].cursors \subseteq DOMAIN timeline
    /\ reader[a].customer # None => reader[a].first <= Len(timeline) /\ ReadFrom(a)
ReadInv == \A a \in Agent : ReaderInv(a)

(* What an agent's request has read. *)
DraftInv(a) ==
    /\ draft[a].step # "NONE" => draft[a].customer \in Customer /\ threads[draft[a].customer].open
    /\ draft[a].step = "CHECKED" => draft[a].kind \in {"TEXT", "TEMPLATE"}
    /\ draft[a].step \in {"OPENED", "ASSIGNING"} => draft[a].seen <= threads[draft[a].customer].version
    /\ draft[a].step = "ASSIGNING" /\ draft[a].seen = threads[draft[a].customer].version
          => draft[a].from = threads[draft[a].customer].owner
OwnersInv ==
    /\ \A a \in Agent : DraftInv(a)
    /\ \A c \in Customer : handovers[c] # <<>> => threads[c].open
    /\ HandoversAreAChain

ConvInv == ConversationsTypeOK /\ DeskInv /\ WindowInv /\ ReadInv /\ OwnersInv

HIDE MessagingAssumption
USE ConversationsAssumption

-----------------------------------------------------------------------------
LEMMA ConvInitInv == ASSUME ConversationsInit PROVE ConvInv
<1>1. ConversationsTypeOK
  BY DEF ConversationsInit, ConversationsTypeOK, NoThread, AtRest, NoDraft, NoPage, ThreadRow, Receipt
<1>2. DeskInv
  BY DEF ConversationsInit, DeskInv, HandlerInv, VerdictInv, IdsApart, InHand, AtRest
<1>3. WindowInv
  BY DEF ConversationsInit, WindowInv, HasWritten, TextRestsOnInbound, NoDraft
<1>4. ReadInv
  BY DEF ConversationsInit, ReadInv, ReaderInv, NoPage
<1>5. OwnersInv
  BY DEF ConversationsInit, OwnersInv, DraftInv, NoDraft, HandoversAreAChain
<1> QED BY <1>1, <1>2, <1>3, <1>4, <1>5 DEF ConvInv

-----------------------------------------------------------------------------
(* Types.                                                                   *)
ThreadsTyped == threads \in [Customer -> ThreadRow]
DeskTyped ==
    desk \in [Handler -> [step: {"IDLE", "CLAIMED", "MATCH", "OPEN", "RECORD", "DONE", "UNIQUE", "ERROR"},
                          event: Inbound \cup {None}, attempt: 0..MaxInboundClaims]]
DraftRow == [step: {"NONE", "CHECKED", "OPENED", "ASSIGNING"}, customer: Customer \cup {None},
             kind: {"NONE", "TEXT", "TEMPLATE"}, at: 0..MaxHour, seen: Nat, from: Owner \cup {None}]
DraftTyped == draft \in [Agent -> DraftRow]
ReaderTyped ==
    reader \in [Agent -> [customer: Customer \cup {None}, before: Nat, first: Nat,
                          seen: SUBSET Nat, cursors: SUBSET Nat, more: BOOLEAN]]
HandoverRow == [from: Owner \cup {None}, to: Owner \cup {None}]
HandoversTyped == handovers \in [Customer -> Seq(HandoverRow)]

LEMMA ConvTypes ==
    ConversationsTypeOK <=>
        /\ leads \subseteq Customer /\ ThreadsTyped /\ receipts \in [Inbound -> Receipt]
        /\ timeline \in Seq(ThreadMessage) /\ HandoversTyped /\ DeskTyped /\ DraftTyped /\ ReaderTyped
        /\ hour \in 0..MaxHour
BY DEF ConversationsTypeOK, ThreadsTyped, HandoversTyped, HandoverRow, DeskTyped, DraftRow, DraftTyped, ReaderTyped

(* A handler turns to another step of its event. *)
LEMMA TurnTyped ==
    ASSUME DeskTyped, NEW h \in Handler,
           NEW s \in {"IDLE", "CLAIMED", "MATCH", "OPEN", "RECORD", "DONE", "UNIQUE", "ERROR"},
           desk' = [desk EXCEPT ![h].step = s]
    PROVE  DeskTyped'
BY DEF DeskTyped

LEMMA ThreadFields ==
    ASSUME ThreadsTyped, NEW c \in Customer
    PROVE  /\ threads[c].open \in BOOLEAN /\ threads[c].owner \in Owner \cup {None}
           /\ threads[c].version \in Nat /\ threads[c].unread \in Nat /\ threads[c].lastIn \in 0..MaxHour
           /\ threads[c].met \in SUBSET Try
BY DEF ThreadsTyped, ThreadRow

(* What each change of a row keeps. *)
LEMMA ReceiptWritten ==
    ASSUME receipts \in [Inbound -> Receipt], NEW e \in Inbound, NEW row \in Receipt,
           receipts' = [receipts EXCEPT ![e] = row]
    PROVE  /\ receipts' \in [Inbound -> Receipt] /\ receipts'[e] = row
           /\ \A f \in Inbound \ {e} : receipts'[f] = receipts[f]
OBVIOUS

LEMMA ThreadWritten ==
    ASSUME ThreadsTyped, NEW c \in Customer, NEW row \in ThreadRow, threads' = [threads EXCEPT ![c] = row]
    PROVE  ThreadsTyped' /\ threads'[c] = row /\ \A d \in Customer \ {c} : threads'[d] = threads[d]
BY DEF ThreadsTyped

LEMMA ThreadRecorded ==
    ASSUME ThreadsTyped, NEW c \in Customer, NEW t \in 0..MaxHour,
           threads' = [threads EXCEPT ![c].lastIn = t, ![c].unread = @ + 1]
    PROVE  /\ ThreadsTyped'
           /\ \A d \in Customer : threads'[d].open = threads[d].open /\ threads'[d].owner = threads[d].owner
                                 /\ threads'[d].version = threads[d].version /\ threads'[d].met = threads[d].met
           /\ threads'[c].lastIn = t
           /\ \A d \in Customer \ {c} : threads'[d] = threads[d]
<1> DEFINE row == [threads[c] EXCEPT !.lastIn = t, !.unread = threads[c].unread + 1]
<1>1. threads' = [threads EXCEPT ![c] = row]
  BY DEF ThreadsTyped, ThreadRow
<1>2. row \in ThreadRow /\ row.open = threads[c].open /\ row.owner = threads[c].owner
      /\ row.version = threads[c].version /\ row.lastIn = t /\ row.met = threads[c].met
  BY DEF ThreadsTyped, ThreadRow
<1> HIDE DEF row
<1>3. ThreadsTyped' /\ threads'[c] = row /\ \A d \in Customer \ {c} : threads'[d] = threads[d]
  BY <1>1, <1>2, ThreadWritten
<1> QED BY <1>2, <1>3

LEMMA ThreadAssigned ==
    ASSUME ThreadsTyped, NEW c \in Customer, NEW o \in Owner \cup {None},
           threads' = [threads EXCEPT ![c].owner = o, ![c].version = @ + 1]
    PROVE  /\ ThreadsTyped'
           /\ \A d \in Customer : threads'[d].open = threads[d].open /\ threads'[d].lastIn = threads[d].lastIn
                                 /\ threads'[d].met = threads[d].met
           /\ threads'[c].owner = o /\ threads'[c].version = threads[c].version + 1
           /\ \A d \in Customer \ {c} : threads'[d] = threads[d]
<1> DEFINE row == [threads[c] EXCEPT !.owner = o, !.version = threads[c].version + 1]
<1>1. threads' = [threads EXCEPT ![c] = row]
  BY DEF ThreadsTyped, ThreadRow
<1>2. row \in ThreadRow /\ row.open = threads[c].open /\ row.owner = o
      /\ row.version = threads[c].version + 1 /\ row.lastIn = threads[c].lastIn
      /\ row.met = threads[c].met
  BY DEF ThreadsTyped, ThreadRow
<1> HIDE DEF row
<1>3. ThreadsTyped' /\ threads'[c] = row /\ \A d \in Customer \ {c} : threads'[d] = threads[d]
  BY <1>1, <1>2, ThreadWritten
<1> QED BY <1>2, <1>3

LEMMA ThreadOpened ==
    ASSUME ThreadsTyped, NEW c \in Customer, NEW o \in Owner \cup {None}, NEW tries \in SUBSET Try,
           threads' = [threads EXCEPT ![c] = [NoThread EXCEPT !.open = TRUE, !.owner = o,
                                                              !.version = 1, !.met = tries]]
    PROVE  /\ ThreadsTyped'
           /\ threads'[c].open /\ threads'[c].met = tries
           /\ \A d \in Customer \ {c} : threads'[d] = threads[d]
<1> DEFINE yes == TRUE
           row == [NoThread EXCEPT !.open = yes, !.owner = o, !.version = 1, !.met = tries]
<1>1. yes \in BOOLEAN /\ yes
  OBVIOUS
<1>2. threads' = [threads EXCEPT ![c] = row]
  OBVIOUS
<1> HIDE DEF yes
<1>3. NoThread \in ThreadRow
  BY DEF ThreadRow, NoThread
<1>4. row \in ThreadRow /\ row.open = yes /\ row.met = tries
  BY <1>1, <1>3 DEF ThreadRow
<1> HIDE DEF row
<1> QED BY <1>1, <1>2, <1>4 DEF ThreadsTyped

(* The conversation of a message is opened. *)
LEMMA OpenedWith ==
    ASSUME ConversationsTypeOK, NEW h \in Handler, OpenThread(h), Sender(h) \in Customer,
           ~threads[Sender(h)].open
    PROVE  /\ ThreadsTyped'
           /\ threads'[Sender(h)].open /\ threads'[Sender(h)].met = Meeting(h)
           /\ \A d \in Customer \ {Sender(h)} : threads'[d] = threads[d]
<1>1. ThreadsTyped
  BY ConvTypes
<1>2. PICK o \in Owner \cup {None} :
        threads' = [threads EXCEPT ![Sender(h)] = [NoThread EXCEPT !.open = TRUE, !.owner = o,
                                                     !.version = 1, !.met = Meeting(h)]]
  BY DEF OpenThread
<1>3. Meeting(h) \in SUBSET Try
  <2>1. \A g \in Handler : desk[g].event \in Inbound \cup {None} /\ desk[g].attempt \in 0..MaxInboundClaims
    BY DEF ConversationsTypeOK
  <2>2. \A g \in Handler : TryOf(g) \in Try
    BY <2>1 DEF TryOf, Try
  <2> QED BY <2>2 DEF Meeting
<1>4. PICK tries \in SUBSET Try : tries = Meeting(h)
  BY <1>3
<1>5. PICK c \in Customer : c = Sender(h)
  OBVIOUS
<1>6. threads' = [threads EXCEPT ![c] = [NoThread EXCEPT !.open = TRUE, !.owner = o,
                                           !.version = 1, !.met = tries]]
  BY <1>2, <1>4, <1>5
<1> QED BY <1>1, <1>4, <1>5, <1>6, ThreadOpened

LEMMA DraftWritten ==
    ASSUME DraftTyped, NEW a \in Agent, NEW d \in DraftRow, draft' = [draft EXCEPT ![a] = d]
    PROVE  DraftTyped' /\ draft'[a] = d /\ \A b \in Agent \ {a} : draft'[b] = draft[b]
BY DEF DraftTyped

LEMMA DraftsMade ==
    ASSUME DraftTyped, NEW a \in Agent, NEW c \in Customer, NEW n \in Nat,
           NEW o \in Owner \cup {None}, NEW k \in {"TEXT", "TEMPLATE"}, NEW t \in 0..MaxHour
    PROVE  /\ NoDraft \in DraftRow
           /\ [NoDraft EXCEPT !.step = "OPENED", !.customer = c, !.seen = n] \in DraftRow
           /\ [NoDraft EXCEPT !.step = "CHECKED", !.customer = c, !.kind = k, !.at = t] \in DraftRow
           /\ [draft[a] EXCEPT !.step = "ASSIGNING", !.from = o] \in DraftRow
<1>1. NoDraft \in DraftRow
  BY DEF NoDraft, DraftRow
<1>2. [NoDraft EXCEPT !.step = "OPENED", !.customer = c, !.seen = n] \in DraftRow
  BY <1>1 DEF DraftRow
<1>3. [NoDraft EXCEPT !.step = "CHECKED", !.customer = c, !.kind = k, !.at = t] \in DraftRow
  BY <1>1 DEF DraftRow
<1>4. [draft[a] EXCEPT !.step = "ASSIGNING", !.from = o] \in DraftRow
  BY DEF DraftTyped, DraftRow
<1> QED BY <1>1, <1>2, <1>3, <1>4

LEMMA RowsAppended ==
    ASSUME NEW m \in ThreadMessage, timeline \in Seq(ThreadMessage), timeline' = Append(timeline, m)
    PROVE  /\ timeline' \in Seq(ThreadMessage)
           /\ Len(timeline') = Len(timeline) + 1
           /\ DOMAIN timeline' = DOMAIN timeline \cup {Len(timeline) + 1}
           /\ DOMAIN timeline = 1..Len(timeline)
           /\ \A i \in DOMAIN timeline : timeline'[i] = timeline[i]
           /\ timeline'[Len(timeline) + 1] = m
OBVIOUS

LEMMA LineTyped ==
    ASSUME NEW id \in Inbound \cup Outbound, NEW c \in Customer, NEW at \in 0..MaxHour,
           NEW kind \in {"INBOUND", "TEXT", "TEMPLATE", "NOTE"}, NEW t \in Moment
    PROVE  Line(id, c, at, kind, t) \in ThreadMessage
BY DEF Line, ThreadMessage

-----------------------------------------------------------------------------
(* Pages.                                                                   *)

LEMMA RowOrder ==
    ASSUME timeline \in Seq(ThreadMessage), NEW i \in DOMAIN timeline
    PROVE  MsOf(i) \in Nat /\ UsOf(i) \in Nat /\ IdOf(i) \in Nat
<1>1. timeline[i] \in ThreadMessage
  OBVIOUS
<1>2. timeline[i].received \in Moment /\ timeline[i].id \in Inbound \cup Outbound
  BY <1>1 DEF ThreadMessage
<1>3. timeline[i].received \in [ms: Nat, us: 0..999] /\ timeline[i].id \in Nat
  BY <1>2, RowsAssumption
<1>4. timeline[i].received.ms \in Nat /\ timeline[i].received.us \in 0..999
  BY <1>3
<1>5. \A u \in 0..999 : u \in Nat
  OBVIOUS
<1> QED BY <1>3, <1>4, <1>5 DEF MsOf, UsOf, IdOf

(* Rows are in one order by the time they were received and their ids. *)
LEMMA OlderOrder ==
    ASSUME timeline \in Seq(ThreadMessage), NEW i \in DOMAIN timeline, NEW j \in DOMAIN timeline,
           NEW k \in DOMAIN timeline
    PROVE  /\ ~Older(i, i)
           /\ Older(i, j) /\ Older(j, k) => Older(i, k)
           /\ IdsApart /\ i # j => Older(i, j) \/ Older(j, i)
<1>1. /\ MsOf(i) \in Nat /\ UsOf(i) \in Nat /\ IdOf(i) \in Nat
      /\ MsOf(j) \in Nat /\ UsOf(j) \in Nat /\ IdOf(j) \in Nat
      /\ MsOf(k) \in Nat /\ UsOf(k) \in Nat /\ IdOf(k) \in Nat
  BY RowOrder
<1>2. IdsApart /\ i # j => IdOf(i) # IdOf(j)
  BY DEF IdsApart, IdOf
<1> QED BY <1>1, <1>2 DEF Older

(* A page holds the last rows, and all of them when they fit. *)
LEMMA PageShape ==
    ASSUME timeline \in Seq(ThreadMessage), NEW c \in Customer,
           NEW rows \in SUBSET Received(c)
    PROVE  /\ rows \subseteq DOMAIN timeline /\ rows \subseteq Nat /\ Cardinality(rows) \in Nat
           /\ Page(rows) \subseteq rows
           /\ Cardinality(rows) <= ThreadPage => Page(rows) = rows
           /\ IdsApart => \A i \in rows \ Page(rows), p \in Page(rows) : Older(i, p)
<1> DEFINE after(i) == {j \in rows : Older(i, j)}
<1>1. Len(timeline) \in Nat /\ DOMAIN timeline = 1..Len(timeline)
  OBVIOUS
<1>2. rows \in SUBSET (1..Len(timeline)) /\ rows \subseteq Nat /\ rows \subseteq DOMAIN timeline
  BY <1>1 DEF Received
<1>3. IsFiniteSet(1..Len(timeline))
  BY <1>1, FS_Interval
<1>4. IsFiniteSet(rows)
  BY <1>2, <1>3, FS_Subset
<1>5. Cardinality(rows) \in Nat
  BY <1>4, FS_CardinalityType
<1>6. \A i : IsFiniteSet(after(i)) /\ Cardinality(after(i)) \in Nat
  <2> SUFFICES ASSUME NEW i PROVE IsFiniteSet(after(i)) /\ Cardinality(after(i)) \in Nat
    OBVIOUS
  <2>1. after(i) \in SUBSET rows
    OBVIOUS
  <2> HIDE DEF after
  <2>2. IsFiniteSet(after(i))
    BY <1>4, <2>1, FS_Subset
  <2> QED BY <2>2, FS_CardinalityType
<1>7. Page(rows) = {i \in rows : Cardinality(after(i)) < ThreadPage}
  BY DEF Page, Latest
<1>8. \A i, p \in rows : Older(p, i) => after(i) \in SUBSET after(p)
  <2> SUFFICES ASSUME NEW i \in rows, NEW p \in rows, Older(p, i), NEW k \in rows, Older(i, k)
               PROVE  Older(p, k)
    OBVIOUS
  <2> QED BY <1>2, OlderOrder
<1>9. \A i \in rows : i \notin after(i) /\ after(i) \in SUBSET rows
  BY <1>2, OlderOrder
<1> HIDE DEF after
<1>10. ASSUME IdsApart, NEW i \in rows \ Page(rows), NEW p \in Page(rows) PROVE Older(i, p)
  <2>1. p \in rows /\ Cardinality(after(p)) < ThreadPage /\ ~(Cardinality(after(i)) < ThreadPage) /\ i # p
    BY <1>7
  <2>2. Older(i, p) \/ Older(p, i)
    BY <1>2, <1>10, <2>1, OlderOrder
  <2>3. ~Older(p, i)
    <3> SUFFICES ASSUME Older(p, i) PROVE FALSE
      OBVIOUS
    <3>1. Cardinality(after(i)) <= Cardinality(after(p))
      BY <1>6, <1>8, <2>1, FS_Subset
    <3> QED BY <1>6, <2>1, <3>1
  <2> QED BY <2>2, <2>3
<1>11. ASSUME Cardinality(rows) <= ThreadPage, NEW i \in rows PROVE i \in Page(rows)
  <2>1. after(i) # rows /\ after(i) \in SUBSET rows
    BY <1>9
  <2>2. Cardinality(after(i)) <= Cardinality(rows) /\ Cardinality(after(i)) # Cardinality(rows)
    BY <1>4, <2>1, FS_Subset
  <2>3. Cardinality(after(i)) \in Nat
    BY <1>6
  <2> QED BY <1>5, <1>7, <1>11, <2>2, <2>3
<1> QED BY <1>2, <1>5, <1>7, <1>10, <1>11

(* What a page tells its reader, f being the first row shown of it. *)
PageOf(a, c, rows, n, r, f) ==
    LET more == Cardinality(rows) > ThreadPage
    IN  /\ reader' = [reader EXCEPT ![a] =
                        [customer |-> c, before |-> f, first |-> n, seen |-> r.seen \cup Page(rows),
                         cursors |-> r.cursors \cup ({f} \ {0}), more |-> more]]
        /\ IF more THEN f \in Page(rows) ELSE f = 0

LEMMA PageBegun ==
    ASSUME timeline \in Seq(ThreadMessage), NEW a \in Agent, NEW c \in Customer,
           NEW rows \in SUBSET Received(c), NEW n, NEW r, readMessagePage(a, c, rows, n, r)
    PROVE  \E f : f \in Nat /\ PageOf(a, c, rows, n, r, f)
<1>1. Page(rows) \subseteq Nat
  BY PageShape
<1>2. PICK f \in IF Cardinality(rows) > ThreadPage THEN FirstShown(Page(rows)) ELSE {0} :
        reader' = [reader EXCEPT ![a] =
                    [customer |-> c, before |-> f, first |-> n, seen |-> r.seen \cup Page(rows),
                     cursors |-> r.cursors \cup ({f} \ {0}), more |-> Cardinality(rows) > ThreadPage]]
  BY DEF readMessagePage
<1>3. IF Cardinality(rows) > ThreadPage THEN f \in Page(rows) ELSE f = 0
  BY <1>2 DEF FirstShown
<1> QED BY <1>1, <1>2, <1>3 DEF PageOf

(* What a claim leaves alone, and what only an agent's steps change. *)
LEMMA HandlerTypes ==
    ASSUME ConversationsTypeOK, DeskInv, NEW h \in Handler, HandlerStep(h)
    PROVE  ConversationsTypeOK'
<1>1. /\ leads \subseteq Customer /\ ThreadsTyped /\ receipts \in [Inbound -> Receipt]
      /\ timeline \in Seq(ThreadMessage) /\ HandoversTyped /\ DeskTyped /\ DraftTyped /\ ReaderTyped
      /\ hour \in 0..MaxHour
  BY ConvTypes
<1>2. InHand(h) => desk[h].event \in Inbound /\ Sender(h) \in Customer
  BY DEF DeskInv, HandlerInv, Sender
<1>3. HandoversTyped' /\ DraftTyped' /\ ReaderTyped' /\ hour' \in 0..MaxHour
  <2>1. handovers' = handovers /\ draft' = draft /\ reader' = reader /\ hour' = hour
    BY DEF HandlerStep, ClaimInbound, FindThread, MatchLead, OpenThread, RecordInbound, Interrupted,
         HandlerDies, FinishInbound, inbox
  <2> QED BY <1>1, <2>1 DEF HandoversTyped, DraftTyped, ReaderTyped
<1>4. CASE \E e \in Inbound : ClaimInbound(h, e)
  <2>1. PICK e \in Inbound : ClaimInbound(h, e)
    BY <1>4
  <2>2. receipts' \in [Inbound -> Receipt] /\ receipts[e].attempts + 1 \in 0..MaxInboundClaims
    <3> DEFINE row == [receipts[e] EXCEPT !.status = "PROCESSING", !.attempts = receipts[e].attempts + 1]
    <3>1. receipts[e].attempts + 1 \in 0..MaxInboundClaims
      BY <1>1, <2>1 DEF ClaimInbound, Receipt
    <3>2. receipts' = [receipts EXCEPT ![e] = row]
      BY <1>1, <2>1, Zenon DEF ClaimInbound
    <3>3. row \in Receipt
      BY <1>1, <3>1, Zenon DEF Receipt
    <3> HIDE DEF row
    <3> QED BY <1>1, <3>1, <3>2, <3>3, ReceiptWritten
  <2>3. DeskTyped'
    BY <1>1, <2>1, <2>2 DEF ClaimInbound, DeskTyped
  <2> QED BY <1>1, <1>3, <2>1, <2>2, <2>3, ConvTypes DEF ClaimInbound, inbox, ConversationsTypeOK
<1>5. CASE FindThread(h)
  <2>1. PICK s \in {"RECORD", "MATCH"} : desk' = [desk EXCEPT ![h].step = s]
    BY <1>5 DEF FindThread, Turn
  <2>2. DeskTyped'
    BY <1>1, <2>1, TurnTyped
  <2> QED BY <1>1, <1>3, <1>5, <2>2 DEF FindThread, inbox, ConversationsTypeOK, DeskTyped
<1>6. CASE MatchLead(h)
  <2>1. PICK s \in {"OPEN", "ERROR"} : desk' = [desk EXCEPT ![h].step = s]
    BY <1>6 DEF MatchLead, Turn
  <2>2. DeskTyped'
    BY <1>1, <2>1, TurnTyped
  <2>3. leads' \subseteq Customer
    BY <1>1, <1>2, <1>6 DEF MatchLead, Busy, InHand
  <2> QED BY <1>1, <1>3, <1>6, <2>2, <2>3 DEF MatchLead, ConversationsTypeOK, DeskTyped
<1>7. CASE OpenThread(h)
  <2>1. PICK s \in {"UNIQUE", "RECORD"} : desk' = [desk EXCEPT ![h].step = s]
    BY <1>7 DEF OpenThread, Turn
  <2>2. DeskTyped'
    BY <1>1, <2>1, TurnTyped
  <2>3. ThreadsTyped'
    <3>1. Sender(h) \in Customer
      BY <1>2, <1>7 DEF OpenThread, Busy, InHand
    <3>2. CASE threads[Sender(h)].open
      BY <1>1, <1>7, <3>2 DEF OpenThread, ThreadsTyped
    <3> QED BY <1>7, <3>1, <3>2, OpenedWith
  <2> QED BY <1>1, <1>3, <1>7, <2>2, <2>3 DEF OpenThread, ConversationsTypeOK, DeskTyped, ThreadsTyped
<1>8. CASE RecordInbound(h)
  <2>1. PICK s \in {"UNIQUE", "DONE"} : desk' = [desk EXCEPT ![h].step = s]
    BY <1>8 DEF RecordInbound, Turn
  <2>2. DeskTyped'
    BY <1>1, <2>1, TurnTyped
  <2>3. desk[h].event \in Inbound /\ Sender(h) \in Customer
    BY <1>2, <1>8 DEF RecordInbound, Busy, InHand
  <2>4. receipts[desk[h].event].at \in 0..MaxHour
    BY <1>1, <2>3 DEF Receipt
  <2>5. ThreadsTyped'
    <3>1. CASE threads' = threads
      BY <1>1, <3>1 DEF ThreadsTyped
    <3>2. CASE threads' # threads
      <4>1. threads' = [threads EXCEPT ![Sender(h)].lastIn = receipts[desk[h].event].at,
                                       ![Sender(h)].unread = @ + 1]
        BY <1>8, <3>2 DEF RecordInbound
      <4> QED BY <1>1, <2>3, <2>4, <4>1, ThreadRecorded
    <3> QED BY <3>1, <3>2
  <2>6. timeline' \in Seq(ThreadMessage)
    <3>1. \A t \in Moment :
            Line(desk[h].event, Sender(h), receipts[desk[h].event].at, "INBOUND", t) \in ThreadMessage
      BY <2>3, <2>4, LineTyped
    <3>2. CASE timeline' = timeline
      BY <1>1, <3>2
    <3>3. CASE timeline' # timeline
      <4>1. PICK t \in Moment :
              timeline' = Append(timeline, Line(desk[h].event, Sender(h), receipts[desk[h].event].at,
                                                "INBOUND", t))
        BY <1>8, <3>3 DEF RecordInbound
      <4> QED BY <1>1, <3>1, <4>1
    <3> QED BY <3>2, <3>3
  <2> QED BY <1>1, <1>3, <1>8, <2>2, <2>5, <2>6 DEF RecordInbound, ConversationsTypeOK, DeskTyped, ThreadsTyped
<1>9. CASE Interrupted(h)
  <2>1. DeskTyped'
    BY <1>1, <1>9, TurnTyped DEF Interrupted, Turn
  <2> QED BY <1>1, <1>3, <1>9, <2>1 DEF Interrupted, inbox, ConversationsTypeOK, DeskTyped
<1>10. CASE HandlerDies(h)
  <2>1. DeskTyped'
    BY <1>1, <1>10 DEF HandlerDies, DeskTyped, AtRest
  <2> QED BY <1>1, <1>3, <1>10, <2>1 DEF HandlerDies, inbox, ConversationsTypeOK, DeskTyped
<1>11. CASE FinishInbound(h)
  <2>1. DeskTyped'
    BY <1>1, <1>11 DEF FinishInbound, DeskTyped, AtRest
  <2>2. InboundVerdict(desk[h].step, desk[h].attempt) \in {"PROCESSED", "DUPLICATE", "DEAD_LETTER", "FAILED"}
    BY <1>11 DEF FinishInbound, InboundVerdict
  <2>3. receipts' \in [Inbound -> Receipt]
    <3>1. PICK verdict \in {"PROCESSED", "DUPLICATE", "DEAD_LETTER", "FAILED"} :
            verdict = InboundVerdict(desk[h].step, desk[h].attempt)
      BY <2>2
    <3>2. \/ receipts' = receipts
          \/ receipts' = [receipts EXCEPT ![desk[h].event].status = verdict]
      BY <1>11, <3>1 DEF FinishInbound
    <3>3. CASE receipts' = receipts
      BY <1>1, <3>3
    <3>4. CASE receipts' = [receipts EXCEPT ![desk[h].event].status = verdict]
      <4> DEFINE row == [receipts[desk[h].event] EXCEPT !.status = verdict]
      <4>1. desk[h].event \in Inbound
        BY <1>2, <1>11 DEF FinishInbound, InHand
      <4>2. receipts[desk[h].event] \in Receipt
        BY <1>1, <4>1
      <4>3. row \in Receipt
        BY <4>2 DEF Receipt
      <4>4. receipts' = [receipts EXCEPT ![desk[h].event] = row]
        BY <3>4
      <4> HIDE DEF row
      <4> QED BY <1>1, <4>1, <4>3, <4>4, ReceiptWritten
    <3> QED BY <3>2, <3>3, <3>4
  <2> QED BY <1>1, <1>3, <1>11, <2>1, <2>3 DEF FinishInbound, inbox, ConversationsTypeOK, DeskTyped
<1> QED BY <1>4, <1>5, <1>6, <1>7, <1>8, <1>9, <1>10, <1>11 DEF HandlerStep

LEMMA AgentTypes ==
    ASSUME ConversationsTypeOK, ReadInv, OwnersInv, NEW a \in Agent, AgentStep(a)
    PROVE  ConversationsTypeOK'
<1>1. /\ leads \subseteq Customer /\ ThreadsTyped /\ receipts \in [Inbound -> Receipt]
      /\ timeline \in Seq(ThreadMessage) /\ HandoversTyped /\ DeskTyped /\ DraftTyped /\ ReaderTyped
      /\ hour \in 0..MaxHour
  BY ConvTypes
<1>2. ASSUME NEW c \in Customer, OpenDetail(a, c) PROVE ConversationsTypeOK'
  <2>1. threads[c].version \in Nat
    BY <1>1, ThreadFields
  <2>2. DraftTyped'
    <3>1. [NoDraft EXCEPT !.step = "OPENED", !.customer = c, !.seen = threads[c].version] \in DraftRow
      BY <1>1, <2>1, DraftsMade
    <3> QED BY <1>1, <1>2, <3>1, DraftWritten DEF OpenDetail, Prepare
  <2> QED BY <1>1, <1>2, <2>2 DEF OpenDetail, Prepare, inbox, ConversationsTypeOK, DraftTyped, DraftRow
<1>3. ASSUME NEW c \in Customer, NEW kind \in {"TEXT", "TEMPLATE"}, CheckSend(a, c, kind)
      PROVE  ConversationsTypeOK'
  <2>1. DraftTyped'
    <3>1. [NoDraft EXCEPT !.step = "CHECKED", !.customer = c, !.kind = kind, !.at = hour] \in DraftRow
      BY <1>1, DraftsMade
    <3> QED BY <1>1, <1>3, <3>1, DraftWritten DEF CheckSend, Prepare
  <2> QED BY <1>1, <1>3, <2>1 DEF CheckSend, Prepare, inbox, ConversationsTypeOK, DraftTyped, DraftRow
<1>4. ASSUME NEW c \in Customer, NEW m \in Outbound, addInternalNote(a, c, m)
      PROVE  ConversationsTypeOK'
  <2>1. timeline' \in Seq(ThreadMessage)
    BY <1>1, <1>4, LineTyped DEF addInternalNote, Post
  <2> QED BY <1>1, <1>4, <2>1 DEF addInternalNote, Post, ConversationsTypeOK
<1>5. ASSUME NEW m \in Outbound, CommitSend(a, m) PROVE ConversationsTypeOK'
  <2>1. DraftTyped'
    BY <1>1, <1>5 DEF CommitSend, DraftTyped, DraftRow, NoDraft
  <2>2. draft[a].customer \in Customer /\ draft[a].kind \in {"TEXT", "TEMPLATE"}
    BY <1>5 DEF OwnersInv, DraftInv, CommitSend
  <2>3. \A t \in Moment : Line(m, draft[a].customer, hour, draft[a].kind, t) \in ThreadMessage
    BY <1>1, <2>2, LineTyped
  <2>4. timeline' \in Seq(ThreadMessage)
    <3>1. \/ timeline' = timeline
          \/ \E t \in Moment : timeline' = Append(timeline, Line(m, draft[a].customer, hour, draft[a].kind, t))
      BY <1>5 DEF CommitSend, Post, inbox
    <3>2. timeline' = timeline \/ \E line \in ThreadMessage : timeline' = Append(timeline, line)
      BY <2>3, <3>1
    <3> QED BY <1>1, <3>2
  <2> QED BY <1>1, <1>5, <2>1, <2>4 DEF CommitSend, Post, inbox, ConversationsTypeOK, DraftTyped, DraftRow
<1>6. CASE BeginAssign(a)
  <2>1. draft[a].customer \in Customer
    BY <1>6 DEF OwnersInv, DraftInv, BeginAssign
  <2>2. threads[draft[a].customer].owner \in Owner \cup {None}
    BY <1>1, <2>1, ThreadFields
  <2>3. DraftTyped'
    <3>1. [draft[a] EXCEPT !.step = "ASSIGNING", !.from = threads[draft[a].customer].owner] \in DraftRow
      BY <1>1, <2>1, <2>2, DraftsMade
    <3> QED BY <1>1, <1>6, <3>1, DraftWritten DEF BeginAssign, Prepare
  <2> QED BY <1>1, <1>6, <2>3 DEF BeginAssign, Prepare, inbox, ConversationsTypeOK, DraftTyped, DraftRow
<1>7. ASSUME NEW o \in Owner \cup {None}, CommitAssign(a, o) PROVE ConversationsTypeOK'
  <2>1. draft[a].customer \in Customer /\ draft[a].from \in Owner \cup {None}
    BY <1>1, <1>7 DEF OwnersInv, DraftInv, CommitAssign, DraftTyped, DraftRow
  <2>2. DraftTyped'
    BY <1>1, <1>7 DEF CommitAssign, DraftTyped, DraftRow, NoDraft
  <2>3. ThreadsTyped'
    <3>1. CASE threads' = threads
      BY <1>1, <3>1 DEF ThreadsTyped
    <3>2. CASE threads' # threads
      <4>1. threads' = [threads EXCEPT ![draft[a].customer].owner = o, ![draft[a].customer].version = @ + 1]
        BY <1>7, <3>2 DEF CommitAssign
      <4> QED BY <1>1, <1>7, <2>1, <4>1, ThreadAssigned
    <3> QED BY <3>1, <3>2
  <2>4. HandoversTyped'
    <3> DEFINE row == [from |-> draft[a].from, to |-> o]
    <3>1. row \in HandoverRow
      BY <1>7, <2>1 DEF HandoverRow
    <3>2. \/ handovers' = handovers
          \/ handovers' = [handovers EXCEPT ![draft[a].customer] = Append(@, row)]
      BY <1>7 DEF CommitAssign
    <3> HIDE DEF row
    <3>3. Append(handovers[draft[a].customer], row) \in Seq(HandoverRow)
      BY <1>1, <2>1, <3>1 DEF HandoversTyped
    <3> QED BY <1>1, <3>2, <3>3 DEF HandoversTyped
  <2> QED BY <1>1, <1>7, <2>2, <2>3, <2>4
       DEF CommitAssign, ConversationsTypeOK, DraftTyped, DraftRow, ThreadsTyped, HandoversTyped, HandoverRow
<1>8. ASSUME NEW c \in Customer, NEW rows \in SUBSET Received(c), NEW n \in Nat, NEW r,
             r.seen \in SUBSET Nat, r.cursors \in SUBSET Nat, readMessagePage(a, c, rows, n, r)
      PROVE  ConversationsTypeOK'
  <2>1. PICK f : f \in Nat /\ PageOf(a, c, rows, n, r, f)
    BY <1>1, <1>8, PageBegun
  <2>2. PICK more \in BOOLEAN : more = (Cardinality(rows) > ThreadPage)
    <3>1. (Cardinality(rows) > ThreadPage) \in BOOLEAN
      BY <1>1, PageShape
    <3> QED BY <3>1
  <2>3. PICK shown \in SUBSET Nat : shown = r.seen \cup Page(rows)
    BY <1>1, <1>8, PageShape
  <2>4. PICK cuts \in SUBSET Nat : cuts = r.cursors \cup ({f} \ {0})
    BY <1>8, <2>1
  <2>5. reader' = [reader EXCEPT ![a] = [customer |-> c, before |-> f, first |-> n, seen |-> shown,
                                         cursors |-> cuts, more |-> more]]
    BY <2>1, <2>2, <2>3, <2>4 DEF PageOf
  <2>6. ReaderTyped'
    BY <1>1, <2>1, <2>5 DEF ReaderTyped
  <2> QED BY <1>1, <1>8, <2>6 DEF readMessagePage, inbox, ConversationsTypeOK, ReaderTyped
<1>9. ASSUME NEW c \in Customer, detail(a, c) PROVE ConversationsTypeOK'
  <2>1. NoPage.seen \in SUBSET Nat /\ NoPage.cursors \in SUBSET Nat
    BY DEF NoPage
  <2> QED BY <1>1, <1>8, <1>9, <2>1 DEF detail
<1>10. CASE messagePage(a)
  <2>1. /\ reader[a].customer \in Customer /\ reader[a].first \in Nat
        /\ reader[a].seen \in SUBSET Nat /\ reader[a].cursors \in SUBSET Nat
    BY <1>1, <1>10 DEF messagePage, ReadInv, ReaderInv, ReaderTyped
  <2> QED BY <1>8, <1>10, <2>1 DEF messagePage
<1> QED BY <1>2, <1>3, <1>4, <1>5, <1>6, <1>7, <1>9, <1>10 DEF AgentStep

-----------------------------------------------------------------------------
(* Handlers.                                                                *)
Keeps ==
    /\ \A c \in Customer : threads[c].open => threads'[c].open /\ threads'[c].met = threads[c].met
    /\ \A e \in Inbound : Kept(e) => Kept(e)'

LEMMA Attempts ==
    ASSUME ConversationsTypeOK
    PROVE  \A e \in Inbound : receipts[e].attempts \in Nat /\ SenderOf[e] \in Customer
BY DEF ConversationsTypeOK, Receipt

LEMMA ExcusedStays ==
    ASSUME Keeps, NEW e \in Inbound, NEW n
    PROVE  (Passed(e, n) => Passed(e, n)') /\ (Excused(e, n) => Excused(e, n)')
BY DEF Keeps, Passed, Excused

(* A row with an id of its own. *)
LEMMA RowAdded ==
    ASSUME timeline \in Seq(ThreadMessage), NEW m \in ThreadMessage, IdsApart, ~Kept(m.id),
           timeline' = Append(timeline, m)
    PROVE  IdsApart' /\ \A id : Kept(id)' <=> Kept(id) \/ id = m.id
<1>1. /\ DOMAIN timeline' = DOMAIN timeline \cup {Len(timeline) + 1}
      /\ \A i \in DOMAIN timeline : timeline'[i] = timeline[i]
      /\ timeline'[Len(timeline) + 1] = m
  BY RowsAppended
<1>2. IdsApart'
  BY <1>1 DEF IdsApart, Kept
<1>3. \A id : Kept(id)' <=> Kept(id) \/ id = m.id
  BY <1>1 DEF Kept
<1> QED BY <1>2, <1>3

(* What a handler has come to stays true while others work, if a            *)
(* conversation that was opened under its hands was opened past it.         *)
LEMMA HandlerStays ==
    ASSUME Keeps, NEW g \in Handler, HandlerInv(g), desk'[g] = desk[g],
           desk[g].step \in {"MATCH", "OPEN"} /\ threads'[Sender(g)].open =>
              threads[Sender(g)].open \/ TryOf(g) \in threads'[Sender(g)].met
    PROVE  HandlerInv(g)'
<1>1. InHand(g)' <=> InHand(g)
  BY DEF InHand
<1>2. CASE ~InHand(g)
  BY <1>1, <1>2 DEF HandlerInv, InHand
<1>3. CASE InHand(g)
  <2>1. desk[g].event \in Inbound /\ Sender(g) = SenderOf[desk[g].event] /\ Sender(g)' = Sender(g)
        /\ Sender(g) \in Customer
    BY <1>3 DEF HandlerInv, Sender
  <2>2. PICK e \in Inbound : e = desk[g].event
    BY <2>1
  <2>3. PICK n : n = desk[g].attempt
    OBVIOUS
  <2>4. /\ Passed(e, n) => Passed(e, n)'
        /\ Excused(e, n) => Excused(e, n)'
        /\ Kept(e) => Kept(e)'
    BY ExcusedStays DEF Keeps
  <2>5. desk'[g].event = e /\ desk'[g].attempt = n /\ desk'[g].step = desk[g].step
    BY <2>2, <2>3
  <2>6. desk[g].step \in {"MATCH", "OPEN"} /\ threads'[Sender(g)].open => Passed(e, n)'
    <3> SUFFICES ASSUME desk[g].step \in {"MATCH", "OPEN"}, threads'[Sender(g)].open PROVE Passed(e, n)'
      OBVIOUS
    <3>1. CASE threads[Sender(g)].open
      BY <2>2, <2>3, <2>4, <3>1 DEF HandlerInv
    <3>2. CASE TryOf(g) \in threads'[Sender(g)].met
      BY <2>1, <2>2, <2>3, <3>2 DEF Passed, TryOf
    <3> QED BY <3>1, <3>2
  <2>7. desk[g].step = "RECORD" => threads'[Sender(g)].open
    BY <2>1 DEF HandlerInv, Keeps
  <2>8. (desk[g].step = "DONE" => Kept(e)') /\ (desk[g].step = "UNIQUE" => Excused(e, n)')
    BY <2>2, <2>3, <2>4 DEF HandlerInv
  <2> QED BY <1>1, <1>3, <2>1, <2>2, <2>3, <2>5, <2>6, <2>7, <2>8 DEF HandlerInv
<1> QED BY <1>2, <1>3

(* Steps of agents and of the clock. *)
LEMMA DeskUntouched ==
    ASSUME ConversationsTypeOK, DeskInv, desk' = desk, receipts' = receipts,
           \A c \in Customer : threads'[c].open = threads[c].open /\ threads'[c].met = threads[c].met,
           \/ timeline' = timeline
           \/ \E m \in ThreadMessage : ~Kept(m.id) /\ timeline' = Append(timeline, m)
    PROVE  DeskInv' /\ Keeps
<1>1. timeline \in Seq(ThreadMessage)
  BY DEF ConversationsTypeOK
<1>2. IdsApart' /\ \A id : Kept(id) => Kept(id)'
  BY <1>1, RowAdded DEF DeskInv, IdsApart, Kept
<1>3. Keeps
  BY <1>2 DEF Keeps
<1>4. \A h \in Handler : HandlerInv(h)'
  <2> SUFFICES ASSUME NEW h \in Handler PROVE HandlerInv(h)'
    OBVIOUS
  <2>1. desk[h].step \in {"MATCH", "OPEN"} => Sender(h) \in Customer
    BY Attempts DEF DeskInv, HandlerInv, InHand, Sender
  <2> QED BY <1>3, <2>1, HandlerStays DEF DeskInv
<1>5. ASSUME NEW e \in Inbound PROVE VerdictInv(e)'
  <2>1. PICK n : n = receipts[e].attempts
    OBVIOUS
  <2>2. (Excused(e, n) => Excused(e, n)') /\ (Kept(e) => Kept(e)')
    BY <1>3, ExcusedStays DEF Keeps
  <2> QED BY <2>1, <2>2 DEF DeskInv, VerdictInv
<1> QED BY <1>2, <1>3, <1>4, <1>5 DEF DeskInv

(* A handler goes on with its event; another that has found no conversation *)
(* finds one only where it was passed.                                      *)
LEMMA TurnDesk ==
    ASSUME ConversationsTypeOK, DeskInv, Keeps, NEW h \in Handler,
           NEW s \in {"CLAIMED", "MATCH", "OPEN", "RECORD", "DONE", "UNIQUE", "ERROR"},
           desk' = [desk EXCEPT ![h].step = s], receipts' = receipts, IdsApart', HandlerInv(h)',
           \A g \in Handler \ {h} :
              desk[g].step \in {"MATCH", "OPEN"} /\ threads'[Sender(g)].open =>
                 threads[Sender(g)].open \/ TryOf(g) \in threads'[Sender(g)].met
    PROVE  DeskInv'
<1>1. \A g \in Handler \ {h} : desk'[g] = desk[g]
  BY DEF ConversationsTypeOK
<1>2. \A g \in Handler : HandlerInv(g)'
  BY <1>1, HandlerStays DEF DeskInv
<1>3. ASSUME NEW e \in Inbound PROVE VerdictInv(e)'
  <2>1. PICK n : n = receipts[e].attempts
    OBVIOUS
  <2>2. (Excused(e, n) => Excused(e, n)') /\ (Kept(e) => Kept(e)')
    BY ExcusedStays DEF Keeps
  <2> QED BY <2>1, <2>2 DEF DeskInv, VerdictInv
<1> QED BY <1>2, <1>3 DEF DeskInv

(* A handler puts its event down, with a verdict or without. *)
LEMMA RestDesk ==
    ASSUME ConversationsTypeOK, DeskInv, NEW h \in Handler,
           desk' = [desk EXCEPT ![h] = AtRest], threads' = threads, timeline' = timeline,
           \A e \in Inbound : VerdictInv(e)'
    PROVE  DeskInv'
<1>1. desk'[h] = AtRest /\ \A g \in Handler \ {h} : desk'[g] = desk[g]
  BY DEF ConversationsTypeOK
<1>2. Keeps
  BY DEF Keeps, Kept
<1>3. HandlerInv(h)'
  BY <1>1 DEF HandlerInv, InHand, AtRest
<1>4. \A g \in Handler : HandlerInv(g)'
  BY <1>1, <1>2, <1>3, HandlerStays DEF DeskInv
<1>5. IdsApart'
  BY DEF DeskInv, IdsApart
<1> QED BY <1>4, <1>5 DEF DeskInv

LEMMA HandlerDesk ==
    ASSUME ConversationsTypeOK, ConversationsTypeOK', DeskInv, NEW h \in Handler, HandlerStep(h)
    PROVE  DeskInv'
<1>1. /\ ThreadsTyped /\ receipts \in [Inbound -> Receipt] /\ timeline \in Seq(ThreadMessage) /\ DeskTyped
      /\ \A e \in Inbound : receipts[e].attempts \in Nat /\ receipts[e].at \in 0..MaxHour
  BY ConvTypes DEF Receipt
<1>2. InHand(h) => /\ desk[h].event \in Inbound /\ Sender(h) = SenderOf[desk[h].event]
                   /\ Sender(h) \in Customer
  BY DEF DeskInv, HandlerInv, Sender
<1>3. IdsApart
  BY DEF DeskInv
<1>4. CASE \E e \in Inbound : ClaimInbound(h, e)
  <2>1. PICK e \in Inbound : ClaimInbound(h, e)
    BY <1>4
  <2>2. /\ receipts'[e].attempts = receipts[e].attempts + 1 /\ receipts'[e].status = "PROCESSING"
        /\ \A f \in Inbound \ {e} : receipts'[f] = receipts[f]
    BY <1>1, <2>1 DEF ClaimInbound, Receipt
  <2>3. /\ desk'[h].step = "CLAIMED" /\ desk'[h].event = e /\ desk'[h].attempt = receipts[e].attempts + 1
        /\ \A g \in Handler \ {h} : desk'[g] = desk[g]
    BY <1>1, <2>1 DEF ClaimInbound, DeskTyped
  <2>4. threads' = threads /\ timeline' = timeline
    BY <2>1 DEF ClaimInbound, inbox
  <2>5. Keeps
    BY <2>4 DEF Keeps, Kept
  <2>6. HandlerInv(h)'
    BY <2>3 DEF HandlerInv, InHand
  <2>7. \A g \in Handler : HandlerInv(g)'
    BY <2>3, <2>4, <2>5, <2>6, HandlerStays DEF DeskInv
  <2>8. IdsApart'
    BY <1>3, <2>4 DEF IdsApart
  <2>9. ASSUME NEW f \in Inbound PROVE VerdictInv(f)'
    <3>1. CASE f = e
      BY <2>2, <3>1 DEF VerdictInv
    <3>2. CASE f # e
      BY <2>2, <2>4, <3>2 DEF DeskInv, VerdictInv, Excused, Passed, Kept
    <3> QED BY <3>1, <3>2
  <2> QED BY <2>7, <2>8, <2>9 DEF DeskInv
<1>5. CASE FindThread(h)
  <2>1. PICK s \in {"RECORD", "MATCH"} :
          desk' = [desk EXCEPT ![h].step = s] /\ s = IF threads[Sender(h)].open THEN "RECORD" ELSE "MATCH"
    BY <1>5 DEF FindThread, Turn
  <2>2. threads' = threads /\ timeline' = timeline /\ receipts' = receipts /\ desk[h].step = "CLAIMED" /\ InHand(h)
    BY <1>5 DEF FindThread, inbox, Busy, InHand
  <2>3. desk'[h].step = s /\ desk'[h].event = desk[h].event /\ desk'[h].attempt = desk[h].attempt
    BY <1>1, <2>1 DEF DeskTyped
  <2>4. HandlerInv(h)'
    BY <2>1, <2>2, <2>3 DEF DeskInv, HandlerInv, InHand, Sender
  <2>5. Keeps /\ IdsApart'
    BY <1>1, <1>3, <2>2 DEF Keeps, Kept, IdsApart
  <2> QED BY <2>1, <2>2, <2>4, <2>5, TurnDesk
<1>6. CASE MatchLead(h)
  <2>1. PICK s \in {"OPEN", "ERROR"} : desk' = [desk EXCEPT ![h].step = s]
    BY <1>6 DEF MatchLead, Turn
  <2>2. threads' = threads /\ timeline' = timeline /\ receipts' = receipts /\ desk[h].step = "MATCH" /\ InHand(h)
    BY <1>6 DEF MatchLead, Busy, InHand
  <2>3. desk'[h].step = s /\ desk'[h].event = desk[h].event /\ desk'[h].attempt = desk[h].attempt
    BY <1>1, <2>1 DEF DeskTyped
  <2>4. HandlerInv(h)'
    BY <1>2, <2>1, <2>2, <2>3 DEF DeskInv, HandlerInv, InHand, Sender, Passed
  <2>5. Keeps /\ IdsApart'
    BY <1>1, <1>3, <2>2 DEF Keeps, Kept, IdsApart
  <2> QED BY <2>1, <2>2, <2>4, <2>5, TurnDesk
<1>7. CASE OpenThread(h)
  <2>1. timeline' = timeline /\ receipts' = receipts /\ desk[h].step = "OPEN" /\ InHand(h)
    BY <1>7 DEF OpenThread, Busy, InHand
  <2>2. desk[h].event \in Inbound /\ Sender(h) = SenderOf[desk[h].event] /\ Sender(h) \in Customer
    BY <1>2, <2>1
  <2>3. IdsApart'
    BY <1>3, <2>1 DEF IdsApart
  <2>4. CASE threads[Sender(h)].open
    <3>1. desk' = [desk EXCEPT ![h].step = "UNIQUE"] /\ threads' = threads
      BY <1>7, <2>4 DEF OpenThread, Turn
    <3>2. desk'[h].step = "UNIQUE" /\ desk'[h].event = desk[h].event /\ desk'[h].attempt = desk[h].attempt
      BY <1>1, <3>1 DEF DeskTyped
    <3>3. HandlerInv(h)'
      BY <2>1, <2>2, <2>4, <3>1, <3>2 DEF DeskInv, HandlerInv, InHand, Excused, Passed, Kept
    <3>4. Keeps
      BY <1>1, <2>1, <3>1 DEF Keeps, Kept
    <3> QED BY <2>1, <2>3, <3>1, <3>3, <3>4, TurnDesk
  <2>5. CASE ~threads[Sender(h)].open
    <3>1. desk' = [desk EXCEPT ![h].step = "RECORD"]
      BY <1>7, <2>5 DEF OpenThread, Turn
    <3>3. /\ threads'[Sender(h)].open /\ threads'[Sender(h)].met = Meeting(h)
          /\ \A d \in Customer \ {Sender(h)} : threads'[d] = threads[d]
      BY <1>7, <2>2, <2>5, OpenedWith
    <3>4. desk'[h].step = "RECORD" /\ desk'[h].event = desk[h].event /\ desk'[h].attempt = desk[h].attempt
      BY <1>1, <3>1 DEF DeskTyped
    <3>5. HandlerInv(h)'
      BY <2>1, <2>2, <3>3, <3>4 DEF DeskInv, HandlerInv, InHand, Sender
    <3>6. Keeps
      BY <2>1, <2>5, <3>3 DEF Keeps, Kept
    <3>7. ASSUME NEW g \in Handler \ {h}, desk[g].step \in {"MATCH", "OPEN"}, threads'[Sender(g)].open
          PROVE  threads[Sender(g)].open \/ TryOf(g) \in threads'[Sender(g)].met
      <4>1. Sender(g) \in Customer
        BY <3>7, Attempts DEF DeskInv, HandlerInv, InHand, Sender
      <4>2. Sender(g) = Sender(h) => TryOf(g) \in Meeting(h)
        BY <3>7 DEF Meeting
      <4> QED BY <3>3, <3>7, <4>1, <4>2
    <3> QED BY <2>1, <2>3, <3>1, <3>5, <3>6, <3>7, TurnDesk
  <2> QED BY <2>4, <2>5
<1>8. CASE RecordInbound(h)
  <2>1. receipts' = receipts /\ desk[h].step = "RECORD" /\ InHand(h)
    BY <1>8 DEF RecordInbound, Busy, InHand
  <2>2. desk[h].event \in Inbound /\ Sender(h) = SenderOf[desk[h].event] /\ Sender(h) \in Customer
    BY <1>2, <2>1
  <2>3. CASE Kept(desk[h].event)
    <3>1. desk' = [desk EXCEPT ![h].step = "UNIQUE"] /\ threads' = threads /\ timeline' = timeline
      BY <1>8, <2>3 DEF RecordInbound, Fresh, Turn
    <3>2. desk'[h].step = "UNIQUE" /\ desk'[h].event = desk[h].event /\ desk'[h].attempt = desk[h].attempt
      BY <1>1, <3>1 DEF DeskTyped
    <3>3. Keeps /\ IdsApart' /\ Kept(desk[h].event)'
      BY <1>1, <1>3, <2>1, <2>3, <3>1, <3>2 DEF Keeps, Kept, IdsApart
    <3>4. HandlerInv(h)'
      BY <2>1, <2>2, <3>2, <3>3 DEF DeskInv, HandlerInv, InHand, Excused
    <3> QED BY <2>1, <3>1, <3>3, <3>4, TurnDesk
  <2>4. CASE ~Kept(desk[h].event)
    <3>0. PICK t \in Moment :
            timeline' = Append(timeline, Line(desk[h].event, Sender(h), receipts[desk[h].event].at,
                                              "INBOUND", t))
      BY <1>8, <2>4 DEF RecordInbound, Fresh
    <3> DEFINE m == Line(desk[h].event, Sender(h), receipts[desk[h].event].at, "INBOUND", t)
    <3>1. /\ desk' = [desk EXCEPT ![h].step = "DONE"] /\ timeline' = Append(timeline, m)
          /\ threads' = [threads EXCEPT ![Sender(h)].lastIn = receipts[desk[h].event].at,
                                        ![Sender(h)].unread = @ + 1]
      BY <1>8, <2>4, <3>0 DEF RecordInbound, Fresh, Turn
    <3>2. desk'[h].step = "DONE" /\ desk'[h].event = desk[h].event /\ desk'[h].attempt = desk[h].attempt
      BY <1>1, <3>1 DEF DeskTyped
    <3>3. \A d \in Customer : threads'[d].open = threads[d].open /\ threads'[d].met = threads[d].met
      BY <1>1, <2>2, <3>1, ThreadRecorded
    <3>4. m \in ThreadMessage /\ m.id = desk[h].event
      BY <1>1, <2>2, LineTyped DEF Line
    <3>5. IdsApart' /\ \A id : Kept(id)' <=> Kept(id) \/ id = desk[h].event
      <4> HIDE DEF m
      <4> QED BY <1>1, <1>3, <2>4, <3>1, <3>4, RowAdded
    <3>6. Keeps
      BY <3>3, <3>5 DEF Keeps
    <3>7. HandlerInv(h)'
      <4>1. Kept(desk[h].event)'
        BY <3>2, <3>5
      <4> QED BY <2>1, <2>2, <3>2, <4>1 DEF DeskInv, HandlerInv, InHand
    <3>8. ASSUME NEW g \in Handler, desk[g].step \in {"MATCH", "OPEN"}, threads'[Sender(g)].open
          PROVE  threads[Sender(g)].open
      <4>1. Sender(g) \in Customer
        BY <3>8, Attempts DEF DeskInv, HandlerInv, InHand, Sender
      <4> QED BY <3>3, <3>8, <4>1
    <3> QED BY <2>1, <3>1, <3>5, <3>6, <3>7, <3>8, TurnDesk
  <2> QED BY <2>3, <2>4
<1>9. CASE Interrupted(h)
  <2>1. desk' = [desk EXCEPT ![h].step = "ERROR"]
    BY <1>9 DEF Interrupted, Turn
  <2>2. threads' = threads /\ timeline' = timeline /\ receipts' = receipts /\ InHand(h)
    BY <1>9 DEF Interrupted, inbox, InHand
  <2>3. desk'[h].step = "ERROR" /\ desk'[h].event = desk[h].event /\ desk'[h].attempt = desk[h].attempt
    BY <1>1, <2>1 DEF DeskTyped
  <2>4. HandlerInv(h)'
    BY <1>2, <2>2, <2>3 DEF DeskInv, HandlerInv, InHand
  <2>5. Keeps /\ IdsApart'
    BY <1>1, <1>3, <2>2 DEF Keeps, Kept, IdsApart
  <2> QED BY <2>1, <2>2, <2>4, <2>5, TurnDesk
<1>10. CASE HandlerDies(h)
  <2>1. /\ threads' = threads /\ timeline' = timeline /\ receipts' = receipts
        /\ desk' = [desk EXCEPT ![h] = AtRest]
    BY <1>10 DEF HandlerDies, inbox
  <2>3. \A e \in Inbound : VerdictInv(e)'
    BY <2>1 DEF DeskInv, VerdictInv, Kept, Excused, Passed
  <2> QED BY <2>1, <2>3, RestDesk
<1>11. CASE FinishInbound(h)
  <2>1. /\ threads' = threads /\ timeline' = timeline /\ desk' = [desk EXCEPT ![h] = AtRest] /\ InHand(h)
        /\ desk[h].step \in {"DONE", "UNIQUE", "ERROR"}
    BY <1>11 DEF FinishInbound, inbox, InHand
  <2>2. desk[h].event \in Inbound
    BY <1>2, <2>1
  <2>3. CASE receipts' = receipts
    <3>1. \A e \in Inbound : VerdictInv(e)'
      BY <2>1, <2>3 DEF DeskInv, VerdictInv, Kept, Excused, Passed
    <3> QED BY <2>1, <3>1, RestDesk
  <2>4. CASE receipts' # receipts
    <3>1. PICK e \in Inbound : e = desk[h].event
      BY <2>2
    <3>2. PICK verdict : verdict = InboundVerdict(desk[h].step, desk[h].attempt)
      OBVIOUS
    <3>3. receipts[e].attempts = desk[h].attempt /\ receipts' = [receipts EXCEPT ![e].status = verdict]
      BY <1>11, <2>4, <3>1, <3>2 DEF FinishInbound
    <3>4. /\ receipts'[e].attempts = receipts[e].attempts /\ receipts'[e].status = verdict
          /\ \A f \in Inbound \ {e} : receipts'[f] = receipts[f]
      BY <1>1, <3>3 DEF Receipt
    <3>5. /\ verdict = "PROCESSED" => desk[h].step = "DONE"
          /\ verdict = "DUPLICATE" => desk[h].step = "UNIQUE"
      BY <2>1, <3>2 DEF InboundVerdict
    <3>6. /\ desk[h].step = "DONE" => Kept(e)
          /\ desk[h].step = "UNIQUE" => Excused(e, receipts[e].attempts)
      BY <3>1, <3>3 DEF DeskInv, HandlerInv
    <3>7. ASSUME NEW f \in Inbound PROVE VerdictInv(f)'
      <4>1. CASE f = e
        BY <2>1, <3>4, <3>5, <3>6, <4>1 DEF VerdictInv, Kept, Excused, Passed
      <4>2. CASE f # e
        BY <2>1, <3>4, <4>2 DEF DeskInv, VerdictInv, Kept, Excused, Passed
      <4> QED BY <4>1, <4>2
    <3> QED BY <2>1, <3>7, RestDesk
  <2> QED BY <2>3, <2>4
<1> QED BY <1>4, <1>5, <1>6, <1>7, <1>8, <1>9, <1>10, <1>11 DEF HandlerStep

-----------------------------------------------------------------------------
(* The window.                                                              *)

LEMMA Owned ==
    ASSUME timeline \in Seq(ThreadMessage)
    PROVE  \A i \in DOMAIN timeline : timeline[i].customer \in Customer /\ timeline[i].at \in 0..MaxHour
<1>1. \A i \in DOMAIN timeline : timeline[i] \in ThreadMessage
  OBVIOUS
<1> QED BY <1>1 DEF ThreadMessage

(* Free text that was allowed stays explained while rows are only added. *)
LEMMA TextStays ==
    ASSUME timeline \in Seq(ThreadMessage), timeline' \in Seq(ThreadMessage), TextRestsOnInbound,
           \/ timeline' = timeline
           \/ \E m \in ThreadMessage : timeline' = Append(timeline, m),
           \A a \in Agent : draft'[a] = draft[a] \/ draft'[a].step # "CHECKED"
    PROVE  TextRestsOnInbound'
<1>1. /\ DOMAIN timeline \subseteq DOMAIN timeline'
      /\ \A i \in DOMAIN timeline : timeline'[i] = timeline[i]
  BY RowsAppended
<1> SUFFICES ASSUME NEW a \in Agent, draft'[a].step = "CHECKED", draft'[a].kind = "TEXT"
             PROVE  \E i \in Received(draft[a].customer)' :
                        timeline'[i].kind = "INBOUND" /\ timeline'[i].at + Window > draft'[a].at
  BY DEF TextRestsOnInbound
<1>2. draft'[a] = draft[a]
  OBVIOUS
<1>3. PICK i \in Received(draft[a].customer) :
            timeline[i].kind = "INBOUND" /\ timeline[i].at + Window > draft[a].at
  BY <1>2 DEF TextRestsOnInbound
<1>4. i \in Received(draft[a].customer)'
  BY <1>1, <1>2, <1>3 DEF Received
<1> QED BY <1>1, <1>2, <1>3, <1>4 DEF Received

(* A step that changes neither the last inbound times nor who wrote what. *)
LEMMA WindowStays ==
    ASSUME ConversationsTypeOK, ConversationsTypeOK', WindowInv,
           \/ timeline' = timeline
           \/ \E m \in ThreadMessage : m.kind # "INBOUND" /\ timeline' = Append(timeline, m),
           \A c \in Customer : /\ threads[c].open => threads'[c].open
                               /\ threads'[c].lastIn = threads[c].lastIn \/ ~threads[c].open,
           \A a \in Agent : draft'[a] = draft[a] \/ draft'[a].step # "CHECKED"
    PROVE  WindowInv'
<1>1. timeline \in Seq(ThreadMessage) /\ timeline' \in Seq(ThreadMessage)
  BY DEF ConversationsTypeOK
<1>2. /\ DOMAIN timeline \subseteq DOMAIN timeline'
      /\ \A i \in DOMAIN timeline : timeline'[i] = timeline[i]
      /\ \A i \in DOMAIN timeline' \ DOMAIN timeline : timeline'[i].kind # "INBOUND"
  BY <1>1, RowsAppended
<1>3. \A i \in DOMAIN timeline' : timeline'[i].kind = "INBOUND" => i \in DOMAIN timeline
  BY <1>2
<1>4. ASSUME NEW i \in DOMAIN timeline', timeline'[i].kind = "INBOUND"
      PROVE  threads'[timeline'[i].customer].open
  BY <1>1, <1>2, <1>3, <1>4, Owned DEF WindowInv
<1>5. ASSUME NEW c \in Customer, HasWritten(c)' PROVE Fresher(c)'
  <2>1. PICK i \in DOMAIN timeline : timeline[i].customer = c /\ timeline[i].kind = "INBOUND"
    BY <1>2, <1>3, <1>5 DEF HasWritten
  <2>2. threads[c].open /\ threads'[c].lastIn = threads[c].lastIn
    BY <2>1 DEF WindowInv
  <2>3. PICK j \in Received(c) : timeline[j].kind = "INBOUND" /\ timeline[j].at = threads[c].lastIn
    BY <2>1 DEF WindowInv, HasWritten, Fresher
  <2>4. j \in Received(c)' /\ timeline'[j] = timeline[j]
    BY <1>2, <2>3 DEF Received
  <2> QED BY <2>2, <2>3, <2>4 DEF Fresher
<1>6. TextRestsOnInbound'
  BY <1>1, TextStays DEF WindowInv
<1> QED BY <1>4, <1>5, <1>6 DEF WindowInv

LEMMA HandlerWindow ==
    ASSUME ConversationsTypeOK, ConversationsTypeOK', DeskInv, WindowInv, NEW h \in Handler, HandlerStep(h)
    PROVE  WindowInv'
<1>1. /\ ThreadsTyped /\ receipts \in [Inbound -> Receipt] /\ timeline \in Seq(ThreadMessage)
      /\ timeline' \in Seq(ThreadMessage)
  BY ConvTypes DEF ConversationsTypeOK
<1>2. draft' = draft
  BY DEF HandlerStep, ClaimInbound, FindThread, MatchLead, OpenThread, RecordInbound, Interrupted,
       HandlerDies, FinishInbound
<1>3. CASE threads' = threads /\ timeline' = timeline
  BY <1>2, <1>3, WindowStays
<1>4. CASE OpenThread(h) /\ threads' # threads
  <2>1. timeline' = timeline /\ InHand(h) /\ ~threads[Sender(h)].open
    BY <1>4 DEF OpenThread, Busy, InHand
  <2>2. Sender(h) \in Customer
    BY <2>1, Attempts DEF DeskInv, HandlerInv, Sender
  <2>3. threads'[Sender(h)].open /\ \A d \in Customer \ {Sender(h)} : threads'[d] = threads[d]
    BY <1>4, <2>1, <2>2, OpenedWith
  <2> QED BY <1>2, <2>1, <2>3, WindowStays
<1>5. CASE RecordInbound(h) /\ ~(threads' = threads /\ timeline' = timeline)
  <2>0. PICK t \in Moment :
          timeline' = Append(timeline, Line(desk[h].event, Sender(h), receipts[desk[h].event].at, "INBOUND", t))
    BY <1>5 DEF RecordInbound
  <2> DEFINE e == desk[h].event
             c == Sender(h)
             m == Line(e, c, receipts[e].at, "INBOUND", t)
  <2>1. /\ desk[h].step = "RECORD" /\ InHand(h) /\ timeline' = Append(timeline, m)
        /\ threads' = [threads EXCEPT ![c].lastIn = receipts[e].at, ![c].unread = @ + 1]
    BY <1>5, <2>0 DEF RecordInbound, Busy, InHand
  <2>2. e \in Inbound /\ c \in Customer
    BY <2>1, Attempts DEF DeskInv, HandlerInv, Sender
  <2>3. threads[c].open
    BY <2>1 DEF DeskInv, HandlerInv
  <2>4. receipts[e].at \in 0..MaxHour
    BY <1>1, <2>2 DEF Receipt
  <2>5. m \in ThreadMessage /\ m.customer = c /\ m.at = receipts[e].at /\ m.kind = "INBOUND"
    BY <2>2, <2>4, LineTyped DEF Line
  <2>6. /\ \A d \in Customer : threads'[d].open = threads[d].open
        /\ threads'[c].lastIn = m.at
        /\ \A d \in Customer \ {c} : threads'[d] = threads[d]
    BY <1>1, <2>1, <2>2, <2>4, <2>5, ThreadRecorded
  <2> HIDE DEF e, c, m
  <2>7. /\ DOMAIN timeline' = DOMAIN timeline \cup {Len(timeline) + 1}
        /\ \A i \in DOMAIN timeline : timeline'[i] = timeline[i]
        /\ timeline'[Len(timeline) + 1] = m
    BY <1>1, <2>1, <2>5, RowsAppended
  <2>8. ASSUME NEW i \in DOMAIN timeline', timeline'[i].kind = "INBOUND"
        PROVE  threads'[timeline'[i].customer].open
    <3>1. CASE i \in DOMAIN timeline
      <4>1. timeline[i].customer \in Customer /\ threads[timeline[i].customer].open
        BY <1>1, <2>7, <2>8, <3>1, Owned DEF WindowInv
      <4> QED BY <2>6, <2>7, <3>1, <4>1
    <3>2. CASE i \notin DOMAIN timeline
      BY <2>2, <2>3, <2>5, <2>6, <2>7, <3>2
    <3> QED BY <3>1, <3>2
  <2>9. ASSUME NEW d \in Customer, HasWritten(d)' PROVE Fresher(d)'
    <3>1. CASE d = c
      <4>1. Len(timeline) + 1 \in Received(d)'
        BY <2>5, <2>7, <3>1 DEF Received
      <4> QED BY <2>5, <2>6, <2>7, <3>1, <4>1 DEF Fresher
    <3>2. CASE d # c
      <4>1. HasWritten(d)
        BY <2>5, <2>7, <2>9, <3>2 DEF HasWritten
      <4>2. PICK j \in Received(d) : timeline[j].kind = "INBOUND" /\ timeline[j].at = threads[d].lastIn
        BY <4>1 DEF WindowInv, Fresher
      <4>3. j \in Received(d)' /\ timeline'[j] = timeline[j]
        BY <2>7, <4>2 DEF Received
      <4> QED BY <2>6, <3>2, <4>2, <4>3 DEF Fresher
    <3> QED BY <3>1, <3>2
  <2>10. TextRestsOnInbound'
    BY <1>1, <1>2, <2>1, <2>5, TextStays DEF WindowInv
  <2> QED BY <2>8, <2>9, <2>10 DEF WindowInv
<1>6. (threads' = threads /\ timeline' = timeline) \/ OpenThread(h) \/ RecordInbound(h)
  BY DEF HandlerStep, ClaimInbound, FindThread, MatchLead, Interrupted, HandlerDies, FinishInbound, inbox
<1>7. OpenThread(h) => timeline' = timeline
  BY DEF OpenThread
<1> QED BY <1>3, <1>4, <1>5, <1>6, <1>7

LEMMA AgentWindow ==
    ASSUME ConversationsTypeOK, ConversationsTypeOK', WindowInv, OwnersInv, NEW a \in Agent, AgentStep(a)
    PROVE  WindowInv'
<1>1. ThreadsTyped /\ DraftTyped /\ timeline \in Seq(ThreadMessage) /\ hour \in 0..MaxHour
  BY ConvTypes
<1>2. ASSUME NEW c \in Customer, CheckSend(a, c, "TEXT") PROVE WindowInv'
  <2>1. /\ draft' = [draft EXCEPT ![a] = [NoDraft EXCEPT !.step = "CHECKED", !.customer = c,
                                                          !.kind = "TEXT", !.at = hour]]
        /\ threads' = threads /\ timeline' = timeline /\ HasWritten(c) /\ threads[c].lastIn + Window > hour
    BY <1>2 DEF CheckSend, Prepare, WindowOpen, inbox
  <2>2. draft'[a].customer = c /\ draft'[a].at = hour /\ \A b \in Agent \ {a} : draft'[b] = draft[b]
    BY <1>1, <2>1 DEF DraftTyped, NoDraft
  <2>3. PICK i \in Received(c) : timeline[i].kind = "INBOUND" /\ timeline[i].at = threads[c].lastIn
    BY <2>1 DEF WindowInv, Fresher
  <2>4. TextRestsOnInbound'
    <3> SUFFICES ASSUME NEW b \in Agent, draft'[b].step = "CHECKED", draft'[b].kind = "TEXT"
                 PROVE  \E j \in Received(draft[b].customer)' :
                          timeline'[j].kind = "INBOUND" /\ timeline'[j].at + Window > draft'[b].at
      BY DEF TextRestsOnInbound
    <3>1. CASE b = a
      BY <2>1, <2>2, <2>3, <3>1 DEF Received
    <3>2. CASE b # a
      BY <2>1, <2>2, <3>2 DEF WindowInv, TextRestsOnInbound, Received
    <3> QED BY <3>1, <3>2
  <2> QED BY <2>1, <2>4 DEF WindowInv, HasWritten, Fresher, Received
<1>3. ASSUME NEW c \in Customer, CheckSend(a, c, "TEMPLATE") PROVE WindowInv'
  <2>1. /\ draft' = [draft EXCEPT ![a] = [NoDraft EXCEPT !.step = "CHECKED", !.customer = c,
                                                          !.kind = "TEMPLATE", !.at = hour]]
        /\ threads' = threads /\ timeline' = timeline
    BY <1>3 DEF CheckSend, Prepare, inbox
  <2>2. draft'[a].kind = "TEMPLATE" /\ \A b \in Agent \ {a} : draft'[b] = draft[b]
    BY <1>1, <2>1 DEF DraftTyped, NoDraft
  <2>3. TextRestsOnInbound'
    BY <2>1, <2>2 DEF WindowInv, TextRestsOnInbound, Received
  <2> QED BY <2>1, <2>3 DEF WindowInv, HasWritten, Fresher, Received
<1>4. ASSUME NEW c \in Customer, NEW id \in Outbound, addInternalNote(a, c, id) PROVE WindowInv'
  <2>1. PICK t \in Moment : timeline' = Append(timeline, Line(id, c, hour, "NOTE", t))
    BY <1>4 DEF addInternalNote, Post
  <2>2. Line(id, c, hour, "NOTE", t) \in ThreadMessage /\ Line(id, c, hour, "NOTE", t).kind # "INBOUND"
    BY <1>1, LineTyped DEF Line
  <2>3. threads' = threads /\ draft' = draft
    BY <1>4 DEF addInternalNote, Post
  <2> QED BY <2>1, <2>2, <2>3, WindowStays
<1>5. ASSUME NEW id \in Outbound, CommitSend(a, id) PROVE WindowInv'
  <2>1. /\ draft' = [draft EXCEPT ![a] = NoDraft] /\ threads' = threads
        /\ \/ timeline' = timeline
           \/ \E t \in Moment :
                timeline' = Append(timeline, Line(id, draft[a].customer, hour, draft[a].kind, t))
    BY <1>5 DEF CommitSend, Post, inbox
  <2>2. draft[a].customer \in Customer /\ draft[a].kind \in {"TEXT", "TEMPLATE"}
    BY <1>5 DEF OwnersInv, DraftInv, CommitSend
  <2>3. \A t \in Moment : /\ Line(id, draft[a].customer, hour, draft[a].kind, t) \in ThreadMessage
                          /\ Line(id, draft[a].customer, hour, draft[a].kind, t).kind # "INBOUND"
    BY <1>1, <2>2, LineTyped DEF Line
  <2>4. \A b \in Agent : draft'[b] = draft[b] \/ draft'[b].step # "CHECKED"
    BY <1>1, <2>1 DEF DraftTyped, NoDraft
  <2> QED BY <2>1, <2>3, <2>4, WindowStays
<1>6. ASSUME threads' = threads, timeline' = timeline,
             draft' = draft \/ \E d : draft' = [draft EXCEPT ![a] = d] /\ d.step # "CHECKED"
      PROVE  WindowInv'
  <2>1. \A b \in Agent : draft'[b] = draft[b] \/ draft'[b].step # "CHECKED"
    BY <1>1, <1>6 DEF DraftTyped
  <2> QED BY <1>6, <2>1, WindowStays
<1>7. ASSUME NEW c \in Customer, OpenDetail(a, c) PROVE WindowInv'
  <2>1. [NoDraft EXCEPT !.step = "OPENED", !.customer = c, !.seen = threads[c].version].step = "OPENED"
    BY DEF NoDraft
  <2> QED BY <1>6, <1>7, <2>1 DEF OpenDetail, Prepare, inbox
<1>8. CASE BeginAssign(a)
  <2>1. [draft[a] EXCEPT !.step = "ASSIGNING", !.from = threads[draft[a].customer].owner].step = "ASSIGNING"
    BY <1>1 DEF DraftTyped, DraftRow
  <2> QED BY <1>6, <1>8, <2>1 DEF BeginAssign, Prepare, inbox
<1>9. ASSUME NEW c \in Customer, detail(a, c) PROVE WindowInv'
  BY <1>6, <1>9 DEF detail, readMessagePage, inbox
<1>10. CASE messagePage(a)
  BY <1>6, <1>10 DEF messagePage, readMessagePage, inbox
<1>11. ASSUME NEW o \in Owner \cup {None}, CommitAssign(a, o) PROVE WindowInv'
  <2>1. /\ timeline' = timeline /\ draft' = [draft EXCEPT ![a] = NoDraft]
        /\ \/ threads' = threads
           \/ threads' = [threads EXCEPT ![draft[a].customer].owner = o, ![draft[a].customer].version = @ + 1]
    BY <1>11 DEF CommitAssign
  <2>2. draft[a].customer \in Customer
    BY <1>11 DEF OwnersInv, DraftInv, CommitAssign
  <2>3. \A c \in Customer : threads'[c].open = threads[c].open /\ threads'[c].lastIn = threads[c].lastIn
    BY <1>1, <2>1, <2>2, ThreadAssigned
  <2>4. \A b \in Agent : draft'[b] = draft[b] \/ draft'[b].step # "CHECKED"
    BY <1>1, <2>1 DEF DraftTyped, NoDraft
  <2> QED BY <2>1, <2>3, <2>4, WindowStays
<1> QED BY <1>2, <1>3, <1>4, <1>5, <1>7, <1>8, <1>9, <1>10, <1>11 DEF AgentStep

-----------------------------------------------------------------------------
(* Reading.                                                                 *)

(* What the pages of a reader cover stays covered while rows are added. *)
LEMMA ReadStays ==
    ASSUME ConversationsTypeOK, NEW a \in Agent, ReaderInv(a), reader'[a] = reader[a],
           \/ timeline' = timeline
           \/ \E m \in ThreadMessage : timeline' = Append(timeline, m)
    PROVE  ReaderInv(a)'
<1>1. timeline \in Seq(ThreadMessage) /\ Len(timeline) \in Nat /\ DOMAIN timeline = 1..Len(timeline)
  BY DEF ConversationsTypeOK
<1>2. /\ DOMAIN timeline \subseteq DOMAIN timeline' /\ Len(timeline') \in Nat
      /\ DOMAIN timeline' \subseteq Nat /\ Len(timeline) <= Len(timeline')
      /\ \A i \in DOMAIN timeline : timeline'[i] = timeline[i]
  BY <1>1, RowsAppended
<1>3. \A i \in DOMAIN timeline : MsOf(i)' = MsOf(i) /\ UsOf(i)' = UsOf(i) /\ IdOf(i)' = IdOf(i)
  BY <1>2 DEF MsOf, UsOf, IdOf
<1>4. \A i, f \in DOMAIN timeline : (PastCursor(i, f)' <=> PastCursor(i, f)) /\ (Older(i, f)' <=> Older(i, f))
  BY <1>3 DEF PastCursor, Older
<1>5. \A i \in DOMAIN timeline, F \in SUBSET DOMAIN timeline : SkippedBy(i, F) => SkippedBy(i, F)'
  BY <1>3, <1>4 DEF SkippedBy
<1>6. ASSUME reader[a].customer # None PROVE reader'[a].first <= Len(timeline') /\ ReadFrom(a)'
  <2>1. reader[a].first <= Len(timeline) /\ ReadFrom(a) /\ reader[a].first \in Nat
    BY <1>6 DEF ReaderInv, ConversationsTypeOK
  <2>2. ASSUME NEW i \in Received(reader[a].customer)', i <= reader[a].first
        PROVE  \/ i \in reader[a].seen \/ SkippedBy(i, reader[a].cursors)'
               \/ reader[a].more /\ PastCursor(i, reader[a].before)'
    <3>1. i \in DOMAIN timeline' /\ timeline'[i].customer = reader[a].customer
      BY <2>2 DEF Received
    <3>2. i \in DOMAIN timeline
      BY <1>1, <1>2, <2>1, <2>2, <3>1
    <3>3. i \in Received(reader[a].customer)
      BY <1>2, <3>1, <3>2 DEF Received
    <3>4. reader[a].cursors \in SUBSET DOMAIN timeline /\ (reader[a].more => reader[a].before \in DOMAIN timeline)
      BY DEF ReaderInv
    <3>5. PICK F \in SUBSET DOMAIN timeline : F = reader[a].cursors
      BY <3>4
    <3>6. F = reader'[a].cursors
      BY <3>5
    <3>7. CASE SkippedBy(i, reader[a].cursors)
      <4>1. SkippedBy(i, F)
        BY <3>5, <3>7
      <4>2. SkippedBy(i, F)'
        BY <1>5, <3>2, <4>1
      <4> QED BY <3>6, <4>2
    <3>8. CASE reader[a].more /\ PastCursor(i, reader[a].before)
      <4>1. PICK f \in DOMAIN timeline : f = reader[a].before
        BY <3>4, <3>8
      <4>2. f = reader'[a].before
        BY <4>1
      <4>3. PastCursor(i, f)'
        BY <1>4, <3>2, <3>8, <4>1
      <4> QED BY <3>8, <4>2, <4>3
    <3> QED BY <2>1, <2>2, <3>3, <3>7, <3>8 DEF ReadFrom
  <2>3. ReadFrom(a)'
    BY <2>2 DEF ReadFrom
  <2> QED BY <1>1, <1>2, <2>1, <2>3
<1> QED BY <1>2, <1>6 DEF ReaderInv

(* A page closes the gap between the rows it is cut from and those that     *)
(* were read before, but for what its cursor skips.                         *)
LEMMA PageRead ==
    ASSUME ConversationsTypeOK, IdsApart, NEW a \in Agent, NEW c \in Customer, NEW rows \in SUBSET Received(c),
           NEW n \in Nat, NEW r, n <= Len(timeline), readMessagePage(a, c, rows, n, r),
           r.cursors \subseteq DOMAIN timeline,
           \A i \in Received(c) : i <= n => i \in rows \/ i \in r.seen \/ SkippedBy(i, r.cursors)
    PROVE  ReaderInv(a)'
<1>1. ReaderTyped /\ timeline \in Seq(ThreadMessage) /\ timeline' = timeline
  BY ConvTypes DEF readMessagePage, inbox
<1>2. PICK f : f \in Nat /\ PageOf(a, c, rows, n, r, f)
  BY <1>1, PageBegun
<1>3. /\ rows \subseteq DOMAIN timeline /\ Page(rows) \subseteq rows /\ Cardinality(rows) \in Nat
      /\ Cardinality(rows) <= ThreadPage => Page(rows) = rows
      /\ \A i \in rows \ Page(rows), p \in Page(rows) : Older(i, p)
  BY <1>1, PageShape
<1> DEFINE more == Cardinality(rows) > ThreadPage
           page == [customer |-> c, before |-> f, first |-> n, seen |-> r.seen \cup Page(rows),
                    cursors |-> r.cursors \cup ({f} \ {0}), more |-> more]
<1>4. /\ reader'[a].customer = c /\ reader'[a].first = n /\ reader'[a].seen = r.seen \cup Page(rows)
      /\ reader'[a].before = f /\ reader'[a].more = more
      /\ reader'[a].cursors = r.cursors \cup ({f} \ {0})
  <2>1. /\ page.customer = c /\ page.first = n /\ page.seen = r.seen \cup Page(rows) /\ page.before = f
        /\ page.more = more /\ page.cursors = r.cursors \cup ({f} \ {0})
    OBVIOUS
  <2>2. reader' = [reader EXCEPT ![a] = page]
    BY <1>2 DEF PageOf
  <2> HIDE DEF page
  <2>3. reader'[a] = page
    BY <1>1, <2>2 DEF ReaderTyped
  <2> QED BY <2>1, <2>3
<1>5. IF more THEN f \in Page(rows) ELSE f = 0
  BY <1>2 DEF PageOf
<1>6. ~more => Page(rows) = rows
  BY <1>3
<1> HIDE DEF more, page
<1>7. /\ f # 0 => f \in DOMAIN timeline
      /\ more => f \in DOMAIN timeline /\ f # 0
  BY <1>1, <1>3, <1>5
<1>8. ASSUME NEW i \in Received(c), i <= n
      PROVE  \/ i \in r.seen \cup Page(rows) \/ SkippedBy(i, r.cursors \cup ({f} \ {0}))
             \/ more /\ PastCursor(i, f)
  <2>1. CASE i \in r.seen \/ i \in Page(rows)
    BY <2>1
  <2>2. CASE SkippedBy(i, r.cursors)
    BY <2>2 DEF SkippedBy
  <2>3. CASE i \in rows \ Page(rows)
    <3>1. more /\ f \in Page(rows)
      BY <1>5, <1>6, <2>3
    <3>2. Older(i, f)
      BY <1>3, <2>3, <3>1
    <3>3. PastCursor(i, f) \/ MsOf(i) = MsOf(f)
      BY <3>2 DEF Older, PastCursor
    <3>4. f \in r.cursors \cup ({f} \ {0})
      BY <1>7, <3>1
    <3> QED BY <3>1, <3>2, <3>3, <3>4 DEF SkippedBy
  <2> QED BY <1>8, <2>1, <2>2, <2>3
<1>9. ReadFrom(a)'
  <2>2. \A i \in Received(c) : (PastCursor(i, f)' <=> PastCursor(i, f))
                               /\ (SkippedBy(i, r.cursors \cup ({f} \ {0})) =>
                                    \E g \in r.cursors \cup ({f} \ {0}) :
                                        (MsOf(i) = MsOf(g) /\ Older(i, g) /\ ~PastCursor(i, g))')
    BY <1>1 DEF PastCursor, SkippedBy, Older, MsOf, UsOf, IdOf
  <2>0. Received(reader[a].customer)' = Received(c) /\ reader'[a].first = n
    BY <1>1, <1>4 DEF Received
  <2> SUFFICES ASSUME NEW i \in Received(c), i <= n
               PROVE  \/ i \in reader'[a].seen \/ SkippedBy(i, reader[a].cursors)'
                      \/ reader'[a].more /\ PastCursor(i, reader[a].before)'
    BY <2>0 DEF ReadFrom
  <2>3. CASE i \in r.seen \cup Page(rows)
    BY <1>4, <2>3
  <2>4. CASE SkippedBy(i, r.cursors \cup ({f} \ {0}))
    <3>1. SkippedBy(i, reader[a].cursors)'
      BY <1>4, <2>2, <2>4 DEF SkippedBy
    <3> QED BY <3>1
  <2>5. CASE more /\ PastCursor(i, f)
    BY <1>4, <2>2, <2>5
  <2> QED BY <1>8, <2>3, <2>4, <2>5
<1>10. c # None
  OBVIOUS
<1> QED BY <1>1, <1>4, <1>7, <1>9, <1>10 DEF ReaderInv

LEMMA ReadersStep ==
    ASSUME ConversationsTypeOK, IdsApart, ReadInv, NEW a \in Agent,
           (\E c \in Customer : detail(a, c)) \/ messagePage(a)
    PROVE  ReadInv'
<1>1. ReaderTyped /\ timeline \in Seq(ThreadMessage)
  BY ConvTypes
<1>2. /\ timeline' = timeline
      /\ \A b \in Agent \ {a} : reader'[b] = reader[b]
  <2>1. timeline' = timeline /\ \E page : reader' = [reader EXCEPT ![a] = page]
    BY DEF detail, messagePage, readMessagePage, inbox
  <2> QED BY <1>1, <2>1 DEF ReaderTyped
<1>3. ReaderInv(a)'
  <2>1. CASE \E c \in Customer : detail(a, c)
    <3>1. PICK c \in Customer : detail(a, c)
      BY <2>1
    <3>2. readMessagePage(a, c, Received(c), Len(timeline), NoPage) /\ Len(timeline) \in Nat
      BY <1>1, <3>1 DEF detail
    <3>3. NoPage.cursors \subseteq DOMAIN timeline
      BY DEF NoPage
    <3> QED BY <3>2, <3>3, PageRead
  <2>2. CASE messagePage(a)
    <3>1. /\ reader[a].customer \in Customer /\ reader[a].first \in Nat
          /\ reader[a].first <= Len(timeline) /\ ReadFrom(a) /\ reader[a].more
          /\ reader[a].cursors \subseteq DOMAIN timeline
      BY <1>1, <2>2 DEF messagePage, ReadInv, ReaderInv, ReaderTyped
    <3>2. PICK c \in Customer : c = reader[a].customer
      BY <3>1
    <3>3. PICK n \in Nat : n = reader[a].first
      BY <3>1
    <3>4. PICK r : r = reader[a]
      OBVIOUS
    <3> DEFINE rows == {i \in Received(c) : PastCursor(i, r.before)}
    <3>5. readMessagePage(a, c, rows, n, r)
      BY <2>2, <3>2, <3>3, <3>4 DEF messagePage
    <3>6. \A i \in Received(c) : i <= n => i \in rows \/ i \in r.seen \/ SkippedBy(i, r.cursors)
      BY <3>1, <3>2, <3>3, <3>4 DEF ReadFrom
    <3>7. rows \in SUBSET Received(c) /\ n <= Len(timeline) /\ r.cursors \subseteq DOMAIN timeline
      BY <3>1, <3>3, <3>4
    <3> HIDE DEF rows
    <3> QED BY <3>5, <3>6, <3>7, PageRead
  <2> QED BY <2>1, <2>2
<1>4. \A b \in Agent \ {a} : ReaderInv(b)'
  BY <1>2, ReadStays DEF ReadInv
<1> QED BY <1>3, <1>4 DEF ReadInv

-----------------------------------------------------------------------------
(* Owners.                                                                  *)

(* A step that changes no conversation that is open, and one request. *)
LEMMA OwnersStay ==
    ASSUME ConversationsTypeOK, OwnersInv, handovers' = handovers,
           \A c \in Customer : threads[c].open =>
               /\ threads'[c].open /\ threads'[c].owner = threads[c].owner
               /\ threads'[c].version = threads[c].version,
           \A a \in Agent : draft'[a] = draft[a] \/ DraftInv(a)'
    PROVE  OwnersInv'
<1>1. \A a \in Agent : DraftInv(a)'
  <2> SUFFICES ASSUME NEW a \in Agent, draft'[a] = draft[a] PROVE DraftInv(a)'
    OBVIOUS
  <2>1. DraftInv(a)
    BY DEF OwnersInv
  <2>2. CASE draft[a].step = "NONE"
    BY <2>2 DEF DraftInv
  <2>3. CASE draft[a].step # "NONE"
    BY <2>1, <2>3 DEF DraftInv
  <2> QED BY <2>2, <2>3
<1>2. \A c \in Customer : handovers'[c] # <<>> => threads'[c].open
  BY DEF OwnersInv
<1>3. HandoversAreAChain'
  BY DEF OwnersInv, HandoversAreAChain
<1> QED BY <1>1, <1>2, <1>3 DEF OwnersInv

LEMMA HandlerOwners ==
    ASSUME ConversationsTypeOK, DeskInv, OwnersInv, NEW h \in Handler, HandlerStep(h)
    PROVE  OwnersInv'
<1>1. ThreadsTyped /\ receipts \in [Inbound -> Receipt]
  BY ConvTypes
<1>2. draft' = draft /\ handovers' = handovers
  BY DEF HandlerStep, ClaimInbound, FindThread, MatchLead, OpenThread, RecordInbound, Interrupted,
       HandlerDies, FinishInbound, inbox
<1>3. InHand(h) => desk[h].event \in Inbound /\ Sender(h) \in Customer
  BY Attempts DEF DeskInv, HandlerInv, Sender
<1>4. threads' = threads \/ OpenThread(h) \/ RecordInbound(h)
  BY DEF HandlerStep, ClaimInbound, FindThread, MatchLead, Interrupted, HandlerDies, FinishInbound, inbox
<1>5. \A c \in Customer : threads[c].open =>
         /\ threads'[c].open /\ threads'[c].owner = threads[c].owner
         /\ threads'[c].version = threads[c].version
  <2>1. CASE threads' = threads
    BY <2>1
  <2>2. CASE OpenThread(h) /\ threads' # threads
    <3>1. InHand(h) /\ ~threads[Sender(h)].open
      BY <2>2 DEF OpenThread, Busy, InHand
    <3>3. \A d \in Customer \ {Sender(h)} : threads'[d] = threads[d]
      BY <1>3, <2>2, <3>1, OpenedWith
    <3> QED BY <3>1, <3>3
  <2>3. CASE RecordInbound(h) /\ threads' # threads
    <3>1. InHand(h) /\ threads' = [threads EXCEPT ![Sender(h)].lastIn = receipts[desk[h].event].at,
                                                  ![Sender(h)].unread = @ + 1]
      BY <2>3 DEF RecordInbound, Busy, InHand
    <3>2. receipts[desk[h].event].at \in 0..MaxHour
      BY <1>1, <1>3, <3>1 DEF Receipt
    <3> QED BY <1>1, <1>3, <3>1, <3>2, ThreadRecorded
  <2> QED BY <1>4, <2>1, <2>2, <2>3
<1> QED BY <1>2, <1>5, OwnersStay

LEMMA AgentOwners ==
    ASSUME ConversationsTypeOK, OwnersInv, NEW a \in Agent, AgentStep(a)
    PROVE  OwnersInv'
<1>1. ThreadsTyped /\ DraftTyped /\ HandoversTyped /\ hour \in 0..MaxHour
  BY ConvTypes
<1>2. ASSUME threads' = threads, handovers' = handovers, NEW d \in DraftRow,
             draft' = [draft EXCEPT ![a] = d], DraftInv(a)'
      PROVE  OwnersInv'
  BY <1>1, <1>2, OwnersStay DEF DraftTyped
<1>3. ASSUME threads' = threads, handovers' = handovers, draft' = draft PROVE OwnersInv'
  BY <1>3, OwnersStay
<1>4. NoDraft \in DraftRow
  BY DEF NoDraft, DraftRow
<1>5. ASSUME NEW c \in Customer, OpenDetail(a, c) PROVE OwnersInv'
  <2> DEFINE d == [NoDraft EXCEPT !.step = "OPENED", !.customer = c, !.seen = threads[c].version]
  <2>1. threads[c].version \in Nat
    BY <1>1, ThreadFields
  <2>2. d \in DraftRow /\ d.step = "OPENED" /\ d.customer = c /\ d.seen = threads[c].version
    BY <1>1, <2>1, DraftsMade DEF NoDraft
  <2>3. draft' = [draft EXCEPT ![a] = d] /\ threads' = threads /\ handovers' = handovers /\ threads[c].open
    BY <1>5 DEF OpenDetail, Prepare, inbox
  <2> HIDE DEF d
  <2>4. draft'[a] = d
    BY <1>1, <2>3 DEF DraftTyped
  <2>5. DraftInv(a)'
    BY <2>1, <2>2, <2>3, <2>4 DEF DraftInv
  <2> QED BY <1>2, <2>2, <2>3, <2>5
<1>6. ASSUME NEW c \in Customer, NEW kind \in {"TEXT", "TEMPLATE"}, CheckSend(a, c, kind) PROVE OwnersInv'
  <2> DEFINE d == [NoDraft EXCEPT !.step = "CHECKED", !.customer = c, !.kind = kind, !.at = hour]
  <2>1. d \in DraftRow /\ d.step = "CHECKED" /\ d.customer = c /\ d.kind = kind
    BY <1>1, DraftsMade DEF NoDraft
  <2>2. draft' = [draft EXCEPT ![a] = d] /\ threads' = threads /\ handovers' = handovers /\ threads[c].open
    BY <1>6 DEF CheckSend, Prepare, inbox
  <2> HIDE DEF d
  <2>3. draft'[a] = d
    BY <1>1, <2>2 DEF DraftTyped
  <2>4. DraftInv(a)'
    BY <2>1, <2>2, <2>3 DEF DraftInv
  <2> QED BY <1>2, <2>1, <2>2, <2>4
<1>7. ASSUME NEW c \in Customer, NEW m \in Outbound, addInternalNote(a, c, m) PROVE OwnersInv'
  BY <1>3, <1>7 DEF addInternalNote, Post
<1>8. ASSUME NEW m \in Outbound, CommitSend(a, m) PROVE OwnersInv'
  <2>1. threads' = threads /\ handovers' = handovers /\ draft' = [draft EXCEPT ![a] = NoDraft]
    BY <1>8 DEF CommitSend, Post, inbox
  <2>2. DraftInv(a)'
    BY <1>1, <2>1 DEF DraftTyped, DraftInv, NoDraft
  <2> QED BY <1>2, <1>4, <2>1, <2>2
<1>9. CASE BeginAssign(a)
  <2> DEFINE d == [draft[a] EXCEPT !.step = "ASSIGNING", !.from = threads[draft[a].customer].owner]
  <2>1. draft[a].step = "OPENED" /\ draft[a].customer \in Customer /\ threads[draft[a].customer].open
        /\ draft[a].seen <= threads[draft[a].customer].version
    BY <1>9 DEF BeginAssign, OwnersInv, DraftInv
  <2>2. threads[draft[a].customer].owner \in Owner \cup {None}
    BY <1>1, <2>1, ThreadFields
  <2>3. d \in DraftRow /\ d.step = "ASSIGNING" /\ d.customer = draft[a].customer /\ d.seen = draft[a].seen
        /\ d.from = threads[draft[a].customer].owner
    <3>1. draft[a] \in DraftRow
      BY <1>1 DEF DraftTyped
    <3>2. PICK o \in Owner \cup {None} : o = threads[draft[a].customer].owner
      BY <2>2
    <3>3. PICK r \in DraftRow : r = draft[a]
      BY <3>1
    <3>4. d = [r EXCEPT !.step = "ASSIGNING", !.from = o]
      BY <3>2, <3>3
    <3>5. d \in DraftRow
      BY <1>1, <2>1, <3>2, DraftsMade
    <3>6. [r EXCEPT !.step = "ASSIGNING", !.from = o].step = "ASSIGNING"
          /\ [r EXCEPT !.step = "ASSIGNING", !.from = o].customer = r.customer
          /\ [r EXCEPT !.step = "ASSIGNING", !.from = o].seen = r.seen
          /\ [r EXCEPT !.step = "ASSIGNING", !.from = o].from = o
      BY <3>3 DEF DraftRow
    <3> QED BY <3>2, <3>3, <3>4, <3>5, <3>6
  <2>4. draft' = [draft EXCEPT ![a] = d] /\ threads' = threads /\ handovers' = handovers
    BY <1>9 DEF BeginAssign, Prepare, inbox
  <2> HIDE DEF d
  <2>5. draft'[a] = d
    BY <1>1, <2>4 DEF DraftTyped
  <2>6. DraftInv(a)'
    BY <2>1, <2>3, <2>4, <2>5 DEF DraftInv
  <2> QED BY <1>2, <2>3, <2>4, <2>6
<1>10. ASSUME NEW c \in Customer, detail(a, c) PROVE OwnersInv'
  BY <1>3, <1>10 DEF detail, readMessagePage, inbox
<1>11. CASE messagePage(a)
  BY <1>3, <1>11 DEF messagePage, readMessagePage, inbox
<1>12. ASSUME NEW o \in Owner \cup {None}, CommitAssign(a, o) PROVE OwnersInv'
  <2>1. draft[a].step = "ASSIGNING" /\ draft' = [draft EXCEPT ![a] = NoDraft]
    BY <1>12 DEF CommitAssign
  <2>2. draft'[a] = NoDraft /\ \A b \in Agent \ {a} : draft'[b] = draft[b]
    BY <1>1, <2>1 DEF DraftTyped
  <2>3. DraftInv(a)'
    BY <2>2 DEF DraftInv, NoDraft
  <2> DEFINE c == draft[a].customer
             row == [from |-> draft[a].from, to |-> o]
  <2>4. c \in Customer /\ threads[c].open /\ draft[a].from \in Owner \cup {None}
    BY <1>1, <2>1 DEF OwnersInv, DraftInv, DraftTyped, DraftRow
  <2>5. CASE ~UnchangedSince(a)
    <3>1. threads' = threads /\ handovers' = handovers
      BY <1>12, <2>5 DEF CommitAssign
    <3> QED BY <1>2, <1>4, <2>1, <2>3, <3>1
  <2>6. CASE UnchangedSince(a)
    <3>1. /\ threads' = [threads EXCEPT ![c].owner = o, ![c].version = @ + 1]
          /\ handovers' = [handovers EXCEPT ![c] = Append(@, row)]
          /\ draft[a].from = threads[c].owner
      BY <1>12, <2>1, <2>6 DEF CommitAssign, UnchangedSince, OwnersInv, DraftInv
    <3>2. /\ \A d \in Customer : threads'[d].open = threads[d].open
          /\ threads'[c].owner = o /\ threads'[c].version = threads[c].version + 1
          /\ \A d \in Customer \ {c} : threads'[d] = threads[d]
      <4> HIDE DEF c
      <4> QED BY <1>1, <1>12, <2>4, <3>1, ThreadAssigned
    <3>3. threads[c].version \in Nat /\ row \in HandoverRow
      BY <1>1, <1>12, <2>4, ThreadFields DEF HandoverRow
    <3>4. row.from = threads[c].owner /\ row.to = o
      BY <3>1
    <3> HIDE DEF row
    <3>5. /\ handovers'[c] = Append(handovers[c], row) /\ handovers[c] \in Seq(HandoverRow)
          /\ \A d \in Customer \ {c} : handovers'[d] = handovers[d]
      BY <1>1, <2>4, <3>1 DEF HandoversTyped
    <3>6. \A b \in Agent : DraftInv(b)'
      <4> SUFFICES ASSUME NEW b \in Agent \ {a} PROVE DraftInv(b)'
        BY <2>3
      <4>1. DraftInv(b) /\ draft[b].seen \in Nat
        BY <1>1 DEF OwnersInv, DraftTyped, DraftRow
      <4>2. CASE draft[b].step = "NONE"
        BY <2>2, <4>2 DEF DraftInv
      <4>3. CASE draft[b].step # "NONE" /\ draft[b].customer = c
        BY <2>2, <2>4, <3>2, <3>3, <4>1, <4>3 DEF DraftInv
      <4>4. CASE draft[b].step # "NONE" /\ draft[b].customer # c
        BY <2>2, <3>2, <4>1, <4>4 DEF DraftInv
      <4> QED BY <4>2, <4>3, <4>4
    <3>7. \A d \in Customer : handovers'[d] # <<>> => threads'[d].open
      BY <2>4, <3>2, <3>5 DEF OwnersInv
    <3>8. HandoversAreAChain'
      <4> SUFFICES ASSUME NEW d \in Customer
                   PROVE  /\ \A i \in 1..(Len(handovers'[d]) - 1) : handovers'[d][i + 1].from = handovers'[d][i].to
                          /\ handovers'[d] # <<>> => handovers'[d][Len(handovers'[d])].to = threads'[d].owner
        BY DEF HandoversAreAChain
      <4>1. /\ \A i \in 1..(Len(handovers[d]) - 1) : handovers[d][i + 1].from = handovers[d][i].to
            /\ handovers[d] # <<>> => handovers[d][Len(handovers[d])].to = threads[d].owner
        BY DEF OwnersInv, HandoversAreAChain
      <4>2. CASE d # c
        BY <3>2, <3>5, <4>1, <4>2
      <4>3. CASE d = c
        <5>1. Len(handovers'[c]) = Len(handovers[c]) + 1 /\ Len(handovers[c]) \in Nat
              /\ handovers'[c][Len(handovers[c]) + 1] = row
              /\ \A i \in 1..Len(handovers[c]) : handovers'[c][i] = handovers[c][i]
          BY <3>5
        <5>2. handovers'[c][Len(handovers'[c])].to = threads'[c].owner
          BY <3>2, <3>4, <5>1
        <5>3. ASSUME NEW i \in 1..Len(handovers[c])
              PROVE  handovers'[c][i + 1].from = handovers'[c][i].to
          <6>1. CASE i = Len(handovers[c])
            <7>1. handovers[c] # <<>>
              BY <5>3, <6>1
            <7> QED BY <3>4, <4>1, <4>3, <5>1, <6>1, <7>1
          <6>2. CASE i # Len(handovers[c])
            <7>1. i \in 1..(Len(handovers[c]) - 1) /\ i + 1 \in 1..Len(handovers[c])
              BY <5>1, <6>2
            <7>2. handovers[c][i + 1].from = handovers[c][i].to
              BY <4>1, <4>3, <7>1
            <7>3. handovers'[c][i + 1] = handovers[c][i + 1] /\ handovers'[c][i] = handovers[c][i]
              BY <5>1, <7>1
            <7> QED BY <7>2, <7>3
          <6> QED BY <6>1, <6>2
        <5>4. Len(handovers'[c]) - 1 = Len(handovers[c])
          BY <5>1
        <5> QED BY <4>3, <5>2, <5>3, <5>4
      <4> QED BY <4>2, <4>3
    <3> QED BY <3>6, <3>7, <3>8 DEF OwnersInv
  <2> QED BY <2>5, <2>6
<1> QED BY <1>5, <1>6, <1>7, <1>8, <1>9, <1>10, <1>11, <1>12 DEF AgentStep

-----------------------------------------------------------------------------
(* Every step.                                                              *)

LEMMA HandlerKeeps ==
    ASSUME ConvInv, NEW h \in Handler, HandlerStep(h)
    PROVE  ConvInv'
<1>1. ConversationsTypeOK'
  BY HandlerTypes DEF ConvInv
<1>2. DeskInv' /\ WindowInv' /\ OwnersInv'
  BY <1>1, HandlerDesk, HandlerWindow, HandlerOwners DEF ConvInv
<1>3. reader' = reader
  BY DEF HandlerStep, ClaimInbound, FindThread, MatchLead, OpenThread, RecordInbound, Interrupted,
       HandlerDies, FinishInbound
<1>4. timeline' = timeline \/ \E m \in ThreadMessage : timeline' = Append(timeline, m)
  <2>1. CASE timeline' = timeline
    BY <2>1
  <2>2. CASE timeline' # timeline
    <3>1. RecordInbound(h)
      BY <2>2 DEF HandlerStep, ClaimInbound, FindThread, MatchLead, OpenThread, Interrupted, HandlerDies,
           FinishInbound, inbox
    <3>2. PICK t \in Moment :
            timeline' = Append(timeline, Line(desk[h].event, Sender(h), receipts[desk[h].event].at, "INBOUND", t))
      BY <2>2, <3>1 DEF RecordInbound
    <3>3. desk[h].event \in Inbound /\ Sender(h) \in Customer
      BY <3>1, Attempts DEF ConvInv, DeskInv, HandlerInv, InHand, RecordInbound, Busy, Sender
    <3>4. receipts[desk[h].event].at \in 0..MaxHour
      BY <3>3 DEF ConvInv, ConversationsTypeOK, Receipt
    <3> QED BY <3>2, <3>3, <3>4, LineTyped
  <2> QED BY <2>1, <2>2
<1>5. ReadInv'
  BY <1>1, <1>3, <1>4, ReadStays DEF ConvInv, ReadInv
<1> QED BY <1>1, <1>2, <1>5 DEF ConvInv

LEMMA AgentKeeps ==
    ASSUME ConvInv, NEW a \in Agent, AgentStep(a)
    PROVE  ConvInv'
<1>1. ConversationsTypeOK'
  BY AgentTypes DEF ConvInv
<1>2. WindowInv' /\ OwnersInv'
  BY <1>1, AgentWindow, AgentOwners DEF ConvInv
<1>3. /\ ThreadsTyped /\ timeline \in Seq(ThreadMessage) /\ hour \in 0..MaxHour
  BY ConvTypes DEF ConvInv
<1>4. desk' = desk /\ receipts' = receipts
  BY DEF AgentStep, OpenDetail, CheckSend, addInternalNote, CommitSend, BeginAssign, CommitAssign, detail,
       messagePage, readMessagePage, Prepare, Post
<1>5. \A c \in Customer : threads'[c].open = threads[c].open /\ threads'[c].met = threads[c].met
  <2>1. CASE threads' = threads
    BY <2>1
  <2>2. CASE threads' # threads
    <3>1. PICK o \in Owner \cup {None} : CommitAssign(a, o)
      BY <2>2 DEF AgentStep, OpenDetail, CheckSend, addInternalNote, CommitSend, BeginAssign, detail,
           messagePage, readMessagePage, Prepare, Post, inbox
    <3>2. draft[a].customer \in Customer
      BY <3>1 DEF ConvInv, OwnersInv, DraftInv, CommitAssign
    <3>3. threads' = [threads EXCEPT ![draft[a].customer].owner = o, ![draft[a].customer].version = @ + 1]
      BY <2>2, <3>1 DEF CommitAssign
    <3> QED BY <1>3, <3>2, <3>3, ThreadAssigned
  <2> QED BY <2>1, <2>2
<1>6. \/ timeline' = timeline
      \/ \E m \in ThreadMessage : ~Kept(m.id) /\ timeline' = Append(timeline, m)
  <2>1. ASSUME NEW c \in Customer, NEW id \in Outbound, addInternalNote(a, c, id)
        PROVE  \E m \in ThreadMessage : ~Kept(m.id) /\ timeline' = Append(timeline, m)
    <3>1. \A t \in Moment : Line(id, c, hour, "NOTE", t) \in ThreadMessage /\ Line(id, c, hour, "NOTE", t).id = id
      BY <1>3, LineTyped DEF Line
    <3> QED BY <2>1, <3>1 DEF addInternalNote, Post
  <2>2. ASSUME NEW id \in Outbound, CommitSend(a, id), timeline' # timeline
        PROVE  \E m \in ThreadMessage : ~Kept(m.id) /\ timeline' = Append(timeline, m)
    <3>1. draft[a].customer \in Customer /\ draft[a].kind \in {"TEXT", "TEMPLATE"}
      BY <2>2 DEF ConvInv, OwnersInv, DraftInv, CommitSend
    <3>2. \A t \in Moment : /\ Line(id, draft[a].customer, hour, draft[a].kind, t) \in ThreadMessage
                            /\ Line(id, draft[a].customer, hour, draft[a].kind, t).id = id
      BY <1>3, <3>1, LineTyped DEF Line
    <3> QED BY <2>2, <3>2 DEF CommitSend, Post, inbox
  <2>3. \/ timeline' = timeline
        \/ \E c \in Customer, id \in Outbound : addInternalNote(a, c, id)
        \/ \E id \in Outbound : CommitSend(a, id)
    BY DEF AgentStep, OpenDetail, CheckSend, BeginAssign, CommitAssign, detail, messagePage, readMessagePage,
         Prepare, inbox
  <2> QED BY <2>1, <2>2, <2>3
<1>7. DeskInv'
  BY <1>1, <1>4, <1>5, <1>6, DeskUntouched DEF ConvInv
<1>8. CASE (\E c \in Customer : detail(a, c)) \/ messagePage(a)
  BY <1>1, <1>2, <1>7, <1>8, ReadersStep DEF ConvInv, DeskInv
<1>9. CASE ~((\E c \in Customer : detail(a, c)) \/ messagePage(a))
  <2>1. reader' = reader
    BY <1>9 DEF AgentStep, OpenDetail, CheckSend, addInternalNote, CommitSend, BeginAssign, CommitAssign,
         Prepare, Post
  <2>2. ReadInv'
    BY <1>1, <1>6, <2>1, ReadStays DEF ConvInv, ReadInv
  <2> QED BY <1>1, <1>2, <1>7, <2>2 DEF ConvInv
<1> QED BY <1>8, <1>9

(* What the provider, the clock and a reader's acknowledgement do. *)
LEMMA QuietKeeps ==
    ASSUME ConvInv, ConversationsTypeOK', DeskInv', timeline' = timeline, handovers' = handovers,
           draft' = draft, reader' = reader,
           \A c \in Customer : /\ threads'[c].open = threads[c].open /\ threads'[c].lastIn = threads[c].lastIn
                               /\ threads'[c].owner = threads[c].owner
                               /\ threads'[c].version = threads[c].version
    PROVE  ConvInv'
<1>1. WindowInv'
  BY WindowStays DEF ConvInv
<1>2. OwnersInv'
  BY OwnersStay DEF ConvInv
<1>3. ReadInv'
  BY ReadStays DEF ConvInv, ReadInv
<1> QED BY <1>1, <1>2, <1>3 DEF ConvInv

LEMMA ReceiptKeeps ==
    ASSUME ConvInv, NEW e \in Inbound, registerWebhookEvent(e)
    PROVE  ConvInv'
<1>1. /\ receipts \in [Inbound -> Receipt] /\ hour \in 0..MaxHour
      /\ \A f \in Inbound : receipts[f].attempts \in Nat
  BY DEF ConvInv, ConversationsTypeOK, Receipt
<1>2. PICK at \in 0..hour : receipts' = [receipts EXCEPT ![e].status = "RECEIVED", ![e].at = at]
  BY DEF registerWebhookEvent
<1>3. /\ receipts' \in [Inbound -> Receipt]
      /\ \A f \in Inbound : receipts'[f].attempts = receipts[f].attempts
      /\ receipts'[e].status = "RECEIVED" /\ \A f \in Inbound \ {e} : receipts'[f] = receipts[f]
  <2> DEFINE row == [receipts[e] EXCEPT !.status = "RECEIVED", !.at = at]
  <2>1. at \in 0..MaxHour
    BY <1>1
  <2>2. receipts' = [receipts EXCEPT ![e] = row]
    BY <1>1, <1>2, Zenon
  <2>3. receipts[e] \in Receipt
    BY <1>1
  <2>4. row \in Receipt
    BY <2>1, <2>3, Zenon DEF Receipt
  <2>5. row.attempts = receipts[e].attempts /\ row.status = "RECEIVED"
    BY <2>3 DEF Receipt
  <2> HIDE DEF row
  <2> QED BY <1>1, <2>2, <2>4, <2>5, ReceiptWritten
<1>4. /\ leads' = leads /\ threads' = threads /\ timeline' = timeline /\ handovers' = handovers
      /\ desk' = desk /\ draft' = draft /\ reader' = reader /\ hour' = hour
  BY DEF registerWebhookEvent, inbox
<1>5. ConversationsTypeOK'
  BY <1>3, <1>4 DEF ConvInv, ConversationsTypeOK
<1>6. Keeps
  BY <1>4 DEF Keeps, Kept
<1>7. \A h \in Handler : HandlerInv(h)'
  BY <1>4, <1>6, HandlerStays DEF ConvInv, DeskInv
<1>8. IdsApart'
  BY <1>4 DEF ConvInv, DeskInv, IdsApart
<1>9. ASSUME NEW f \in Inbound PROVE VerdictInv(f)'
  <2>1. CASE f = e
    BY <1>3, <2>1 DEF VerdictInv
  <2>2. CASE f # e
    BY <1>3, <1>4, <2>2 DEF ConvInv, DeskInv, VerdictInv, Excused, Passed, Kept
  <2> QED BY <2>1, <2>2
<1>10. DeskInv'
  BY <1>7, <1>8, <1>9 DEF DeskInv
<1> QED BY <1>4, <1>5, <1>10, QuietKeeps

LEMMA ReadMarkKeeps ==
    ASSUME ConvInv, NEW c \in Customer, markRead(c)
    PROVE  ConvInv'
<1>1. ThreadsTyped
  BY ConvTypes DEF ConvInv
<1>2. threads' = [threads EXCEPT ![c].unread = 0]
  BY DEF markRead
<1> DEFINE row == [threads[c] EXCEPT !.unread = 0]
<1>3. row \in ThreadRow /\ row.open = threads[c].open /\ row.owner = threads[c].owner
      /\ row.version = threads[c].version /\ row.lastIn = threads[c].lastIn /\ row.met = threads[c].met
  BY <1>1 DEF ThreadsTyped, ThreadRow
<1>4. threads' = [threads EXCEPT ![c] = row]
  BY <1>1, <1>2 DEF ThreadsTyped
<1> HIDE DEF row
<1>5. ThreadsTyped' /\ threads'[c] = row /\ \A d \in Customer \ {c} : threads'[d] = threads[d]
  BY <1>1, <1>3, <1>4, ThreadWritten
<1>6. /\ leads' = leads /\ timeline' = timeline /\ handovers' = handovers /\ receipts' = receipts
      /\ desk' = desk /\ draft' = draft /\ reader' = reader /\ hour' = hour
  BY DEF markRead
<1>7. ConversationsTypeOK'
  BY <1>5, <1>6 DEF ConvInv, ConversationsTypeOK, ThreadsTyped
<1>8. \A d \in Customer : /\ threads'[d].open = threads[d].open /\ threads'[d].lastIn = threads[d].lastIn
                          /\ threads'[d].owner = threads[d].owner /\ threads'[d].version = threads[d].version
                          /\ threads'[d].met = threads[d].met
  BY <1>3, <1>5
<1>9. DeskInv'
  BY <1>6, <1>7, <1>8, DeskUntouched DEF ConvInv
<1> QED BY <1>6, <1>7, <1>8, <1>9, QuietKeeps

LEMMA HourKeeps ==
    ASSUME ConvInv, HourPasses
    PROVE  ConvInv'
<1>1. /\ leads' = leads /\ threads' = threads /\ timeline' = timeline /\ handovers' = handovers
      /\ receipts' = receipts /\ desk' = desk /\ draft' = draft /\ reader' = reader
  BY DEF HourPasses, inbox
<1>2. hour' \in 0..MaxHour
  BY DEF HourPasses, ConvInv, ConversationsTypeOK
<1>3. ConversationsTypeOK'
  BY <1>1, <1>2 DEF ConvInv, ConversationsTypeOK
<1>4. DeskInv'
  BY <1>1, <1>3, DeskUntouched DEF ConvInv
<1> QED BY <1>1, <1>3, <1>4, QuietKeeps

LEMMA ConvStep == ConvInv /\ [ConversationsNext]_convVars => ConvInv'
<1> SUFFICES ASSUME ConvInv, [ConversationsNext]_convVars PROVE ConvInv'
  OBVIOUS
<1>1. CASE ConversationsNext
  BY <1>1, HandlerKeeps, AgentKeeps, ReceiptKeeps, ReadMarkKeeps, HourKeeps DEF ConversationsNext
<1>2. CASE UNCHANGED convVars
  <2>1. /\ leads' = leads /\ threads' = threads /\ timeline' = timeline /\ handovers' = handovers
        /\ receipts' = receipts /\ desk' = desk /\ draft' = draft /\ reader' = reader /\ hour' = hour
    BY <1>2 DEF convVars, inbox
  <2>2. ConversationsTypeOK'
    BY <2>1 DEF ConvInv, ConversationsTypeOK
  <2>3. DeskInv'
    BY <2>1, <2>2, DeskUntouched DEF ConvInv
  <2> QED BY <2>1, <2>2, <2>3, QuietKeeps
<1> QED BY <1>1, <1>2

THEOREM ConversationsInductive == ConversationsSpec => []ConvInv
<1>1. ConversationsInit => ConvInv
  BY ConvInitInv
<1> QED BY <1>1, ConvStep, PTL DEF ConversationsSpec

(* A customer's message is never lost once it was processed and never kept  *)
(* twice; one that passes for a duplicate without being there lost the race *)
(* to open the conversation: the try that passed it had found none when     *)
(* another try opened it.                                                   *)
THEOREM InboundExplained == ConversationsSpec => []LostOnlyAtOpening
<1>1. ConvInv => LostOnlyAtOpening
  BY DEF ConvInv, DeskInv, VerdictInv, Excused, Passed, LostOnlyAtOpening, IdsApart
<1> QED BY <1>1, ConversationsInductive, PTL

(* Free text rests on what the customer wrote less than a window ago. *)
THEOREM TextExplained == ConversationsSpec => []TextRestsOnInbound
<1>1. ConvInv => TextRestsOnInbound
  BY DEF ConvInv, WindowInv
<1> QED BY <1>1, ConversationsInductive, PTL

(* The hand-overs of a conversation lead from its first owner to its last. *)
THEOREM OwnersChain == ConversationsSpec => []HandoversAreAChain
<1>1. ConvInv => HandoversAreAChain
  BY DEF ConvInv, OwnersInv
<1> QED BY <1>1, ConversationsInductive, PTL

(* Whoever reads a thread to its beginning has seen all of what was there   *)
(* when it was opened but for the rows that one of the cursors skipped,     *)
(* received in the millisecond of its row, before it.                       *)
THEOREM ThreadSeenWhole == ConversationsSpec => []ThreadReadToTheEnd
<1>1. ConvInv => ThreadReadToTheEnd
  <2> SUFFICES ASSUME ConvInv, NEW a \in Agent, reader[a].customer # None, ~reader[a].more,
                      NEW i \in Received(reader[a].customer), i <= reader[a].first
               PROVE  i \in reader[a].seen \/ SkippedBy(i, reader[a].cursors)
    BY DEF ThreadReadToTheEnd
  <2> QED BY DEF ConvInv, ReadInv, ReaderInv, ReadFrom
<1> QED BY <1>1, ConversationsInductive, PTL
=============================================================================
