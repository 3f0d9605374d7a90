------------------------------- MODULE Trail -------------------------------
(* The location trail of a delivery on its way:                              *)
(* src/apps/mobile/src/platform/delivery-location.ts (the background task),  *)
(* src/apps/mobile/src/data/delivery-offline.ts (the queue on the phone and  *)
(* its replay) and `locations` of                                            *)
(* src/apps/api/src/delivery/delivery.service.ts (what the server accepts).  *)
(* A replay is a chain of awaited statements around one request; nothing     *)
(* keeps the task, or a second replay, from running between them.            *)
EXTENDS Integers, FiniteSets

CONSTANTS
    Sample,         \* location samples of the one delivery job
    Sender,         \* replays that can be under way at once
    Window,         \* activeTimeoutMinutes: how long a session lasts
    Life,           \* how long a sample is kept on the phone
    TrailEnd,       \* bound on time
    MaxLaunches     \* bound: starts of the app after it was killed

ASSUME TrailTimes ==
    /\ {Window, Life, TrailEnd} \subseteq Nat \ {0}
    /\ MaxLaunches \in Nat

VARIABLES
    trailTime,
    captured,       \* sample -> when it was captured, 0 before
    phone,          \* delivery_location_queue: sample -> its state, or "NONE"
    tracking,       \* active_delivery_tracking: when it expires, 0 if there is no row
    session,        \* the running delivery_location_session, or NoSession
    stored,         \* delivery_location_samples
    lastLocationAt, \* of the job
    sender,         \* sender -> where its replay is
    launches,
    exposed         \* history: samples on the phone that a replay under way did not select

trailVars == <<trailTime, captured, phone, tracking, session, stored, lastLocationAt,
               sender, launches, exposed>>

-----------------------------------------------------------------------------
NoSession == [start |-> 0, expires |-> 0]
NoReplay == [at |-> "IDLE", batch |-> {}]
QueueState == {"QUEUED", "REPLAYING", "FAILED"}

TrailTypeOK ==
    /\ trailTime \in 1 .. TrailEnd
    /\ captured \in [Sample -> 0 .. TrailEnd]
    /\ phone \in [Sample -> QueueState \cup {"NONE"}]
    /\ tracking \in 0 .. TrailEnd + Window
    /\ session \in [start : 0 .. TrailEnd, expires : 0 .. TrailEnd + Window]
    /\ stored \in SUBSET Sample
    /\ lastLocationAt \in 0 .. TrailEnd
    /\ sender \in [Sender -> [at : {"IDLE", "SELECTED", "MARKED", "OK", "REFUSED"},
                              batch : SUBSET Sample]]
    /\ launches \in 0 .. MaxLaunches
    /\ exposed \in SUBSET Sample

TrailInit ==
    /\ trailTime = 1
    /\ captured = [s \in Sample |-> 0]
    /\ phone = [s \in Sample |-> "NONE"]
    /\ tracking = 0
    /\ session = NoSession
    /\ stored = {}
    /\ lastLocationAt = 0
    /\ sender = [w \in Sender |-> NoReplay]
    /\ launches = 0
    /\ exposed = {}

-----------------------------------------------------------------------------
Queued == {s \in Sample : phone[s] # "NONE"}
Waiting == {s \in Sample : phone[s] \in {"QUEUED", "FAILED"}}
Expired(s) == captured[s] + Life <= trailTime

TrailTick ==
    /\ trailTime < TrailEnd
    /\ trailTime' = trailTime + 1
    /\ UNCHANGED <<captured, phone, tracking, session, stored, lastLocationAt,
                   sender, launches, exposed>>

(* The delivery sets out, the first time or after it was delayed: the server *)
(* opens a session, and its answer starts the task on the phone.             *)
startDelivery ==
    /\ session = NoSession
    /\ session' = [start |-> trailTime, expires |-> trailTime + Window]
    /\ UNCHANGED <<trailTime, captured, phone, tracking, stored, lastLocationAt,
                   sender, launches, exposed>>

startDeliveryLocationTracking ==
    /\ session # NoSession
    /\ tracking' = session.expires
    /\ UNCHANGED <<trailTime, captured, phone, session, stored, lastLocationAt,
                   sender, launches, exposed>>

(* The delivery ends, or the server finds its session expired.              *)
stopTrackingTx ==
    /\ session # NoSession
    /\ session' = NoSession
    /\ UNCHANGED <<trailTime, captured, phone, tracking, stored, lastLocationAt,
                   sender, launches, exposed>>

stopDeliveryLocationTracking ==
    /\ tracking # 0
    /\ tracking' = 0
    /\ UNCHANGED <<trailTime, captured, phone, session, stored, lastLocationAt,
                   sender, launches, exposed>>

(* The task is given a location: it is queued while the tracking row says so.*)
(* A replay under way has selected its samples already.                      *)
enqueueDeliveryLocationSample(s) ==
    /\ captured[s] = 0 /\ tracking > trailTime
    /\ captured' = [captured EXCEPT ![s] = trailTime]
    /\ phone' = [phone EXCEPT ![s] = "QUEUED"]
    /\ exposed' = IF \E w \in Sender : sender[w] # NoReplay THEN exposed \cup {s} ELSE exposed
    /\ UNCHANGED <<trailTime, tracking, session, stored, lastLocationAt, sender, launches>>

-----------------------------------------------------------------------------
(* replayDeliveryOfflineWork, for the one job.  Expired samples go, the ones *)
(* to send are selected ...                                                  *)
replayDeliveryOfflineWork(w) ==
    LET batch == {s \in Waiting : ~Expired(s)}
        kept == {s \in Queued : ~Expired(s)}
    IN  /\ sender[w] = NoReplay
        /\ phone' = [s \in Sample |-> IF s \in kept THEN phone[s] ELSE "NONE"]
        /\ IF batch = {}
           THEN UNCHANGED <<sender, exposed>>
           ELSE /\ sender' = [sender EXCEPT ![w] = [at |-> "SELECTED", batch |-> batch]]
                /\ exposed' = exposed \cup (kept \ batch)
        /\ UNCHANGED <<trailTime, captured, tracking, session, stored, lastLocationAt, launches>>

(* ... whatever waits for the job by now is marked ...                       *)
Mark(w) ==
    /\ sender[w].at = "SELECTED"
    /\ phone' = [s \in Sample |-> IF s \in Waiting THEN "REPLAYING" ELSE phone[s]]
    /\ sender' = [sender EXCEPT ![w].at = "MARKED"]
    /\ UNCHANGED <<trailTime, captured, tracking, session, stored, lastLocationAt,
                   launches, exposed>>

(* ... the server takes all the samples of the request or none ...           *)
InSession(s) == captured[s] >= session.start
FaultyAccepts(batch) == session # NoSession /\ session.expires > trailTime
Accepts(batch) ==
    /\ session # NoSession /\ session.expires > trailTime
    /\ \A s \in batch : InSession(s)

Newest(batch) ==
    CHOOSE t \in {captured[s] : s \in batch} : \A s \in batch : captured[s] <= t

recordLocations(w) ==
    /\ sender[w].at = "MARKED"
    /\ LET batch == sender[w].batch
       IN  IF Accepts(batch)
           THEN LET kept == {s \in batch : InSession(s)}
                    newest == IF kept = {} THEN 0 ELSE Newest(kept)
                IN  /\ stored' = stored \cup kept
                    /\ lastLocationAt' =
                         IF newest > lastLocationAt THEN newest ELSE lastLocationAt
                    /\ \E answer \in {"OK", "REFUSED"} :     \* the answer can be lost
                         sender' = [sender EXCEPT ![w].at = answer]
           ELSE /\ sender' = [sender EXCEPT ![w].at = "REFUSED"]
                /\ UNCHANGED <<stored, lastLocationAt>>
    /\ UNCHANGED <<trailTime, captured, phone, tracking, session, launches, exposed>>

NoConnectionToServer(w) ==
    /\ sender[w].at = "MARKED"
    /\ sender' = [sender EXCEPT ![w].at = "REFUSED"]
    /\ UNCHANGED <<trailTime, captured, phone, tracking, session, stored, lastLocationAt,
                   launches, exposed>>

(* ... and what is done after the answer is done to every row of the job.    *)
Acknowledge(w) ==
    /\ sender[w].at = "OK"
    /\ phone' = [s \in Sample |-> "NONE"]
    /\ sender' = [sender EXCEPT ![w] = NoReplay]
    /\ UNCHANGED <<trailTime, captured, tracking, session, stored, lastLocationAt,
                   launches, exposed>>

Requeue(w) ==
    /\ sender[w].at = "REFUSED"
    /\ phone' = [s \in Sample |-> IF s \in Queued THEN "FAILED" ELSE phone[s]]
    /\ sender' = [sender EXCEPT ![w] = NoReplay]
    /\ UNCHANGED <<trailTime, captured, tracking, session, stored, lastLocationAt,
                   launches, exposed>>

(* The app is killed: its requests are forgotten, the rows stay as they are, *)
(* and the task ends with it (killServiceOnDestroy), its row does not.       *)
Relaunch ==
    /\ launches < MaxLaunches
    /\ launches' = launches + 1
    /\ sender' = [w \in Sender |-> NoReplay]
    /\ UNCHANGED <<trailTime, captured, phone, tracking, session, stored, lastLocationAt, exposed>>

-----------------------------------------------------------------------------
TrailNext ==
    \/ TrailTick \/ startDelivery \/ startDeliveryLocationTracking \/ stopTrackingTx
    \/ stopDeliveryLocationTracking \/ Relaunch
    \/ \E s \in Sample : enqueueDeliveryLocationSample(s)
    \/ \E w \in Sender :
         \/ replayDeliveryOfflineWork(w) \/ Mark(w) \/ recordLocations(w)
         \/ NoConnectionToServer(w) \/ Acknowledge(w) \/ Requeue(w)

TrailSpec == TrailInit /\ [][TrailNext]_trailVars

-----------------------------------------------------------------------------
(* Refusals, lost answers, retries, a second replay and kills of the app     *)
(* lose no sample of the trail while it is to be kept: it is on the phone or *)
(* with the server, and the job shows the time of the newest one.  The       *)
(* exception is a sample that a replay under way had not selected, as its    *)
(* answer empties the whole queue of the job.                                *)
(* (replayDeliveryOfflineWork, locations)                                    *)
TrailKept ==
    /\ \A s \in Sample :
         captured[s] > 0 =>
            s \in stored \cup exposed \/ phone[s] # "NONE" \/ Expired(s)
    /\ lastLocationAt = IF stored = {} THEN 0 ELSE Newest(stored)
=============================================================================
