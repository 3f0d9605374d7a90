--------------------------- MODULE DeliveryProofs ---------------------------
(* Proofs about the delivery of a sold vehicle: the job on the server, for   *)
(* every set of bookings, callers and sweeps, and the outbox of the phone,   *)
(* which with the command receipts implements ExactlyOnce.                   *)
EXTENDS Handover, OfflineCommands, TLAPS

-----------------------------------------------------------------------------
(* The job.                                                                  *)
(* The part of TypeOK that does not speak of versions of the stock: a       *)
(* request keeps one that it read, and its type is the stock's affair.      *)
RowsTyped ==
    /\ job \in [Booking -> JobRow]
    /\ photo \in [Booking -> Photo]
    /\ session \in [Booking -> BOOLEAN]
    /\ sweep \in [Sweeper -> [Booking -> Nat]]
    /\ tx = [c \in Caller |-> [op |-> tx[c].op, job |-> tx[c].job, by |-> tx[c].by,
                              alloc |-> tx[c].alloc, seen |-> tx[c].seen]]
    /\ \A k \in Booking : job[k].status = "NONE" => job[k].version = 0

(* A job whose lock is held is where the holder found it, and one request   *)
(* holds it.                                                                *)
TxPlaced ==
    /\ \A c \in Caller : tx[c].op # "NONE" => tx[c].job \in Booking
    /\ \A c \in Caller : tx[c].op = "START" => job[tx[c].job].status = "DELIVERY_SCHEDULED"
    /\ \A c \in Caller : tx[c].op = "COMPLETE" => job[tx[c].job].status = "OUT_FOR_DELIVERY"
    /\ \A c, d \in Caller :
          /\ tx[c].op \in {"START", "COMPLETE"} /\ tx[d].op \in {"START", "COMPLETE"}
          /\ tx[c].job = tx[d].job
          => c = d

(* A swept job that still has the version the sweep read is on the road. *)
SweepsPlaced ==
    \A w \in Sweeper, k \in Booking :
        /\ sweep[w][k] <= job[k].version
        /\ sweep[w][k] # 0 /\ sweep[w][k] = job[k].version
             => job[k].status = "OUT_FOR_DELIVERY"

JobInv == RowsTyped /\ TrackedOnTheRoad /\ TxPlaced /\ SweepsPlaced

LEMMA JobStart == ASSUME Init PROVE JobInv
BY DEF Init, JobInv, RowsTyped, TrackedOnTheRoad, TxPlaced, SweepsPlaced, JobRow, JobStatus, Photo,
       NoJob, NoPhoto, NoTx, Opened, NoSweep

-----------------------------------------------------------------------------
(* One job moves to row r, its session to s. *)
LEMMA OneJob ==
    ASSUME JobInv, NEW k \in Booking, NEW r \in JobRow, NEW s \in BOOLEAN,
           job' = [job EXCEPT ![k] = r], session' = [session EXCEPT ![k] = s],
           r.version = job[k].version + 1,
           r.status # "NONE",
           r.status = "OUT_FOR_DELIVERY" <=> r.tracking,
           s <=> r.tracking,
           \A w \in Sweeper, o \in Booking : sweep'[w][o] \in {0, sweep[w][o]}
    PROVE  /\ job' \in [Booking -> JobRow] /\ session' \in [Booking -> BOOLEAN]
           /\ TrackedOnTheRoad' /\ SweepsPlaced'
           /\ \A o \in Booking : job'[o].status = "NONE" => job'[o].version = 0
           /\ job'[k] = r
           /\ \A o \in Booking \ {k} : job'[o] = job[o]
<1> USE DEF JobInv
<1>1. /\ job' \in [Booking -> JobRow] /\ session' \in [Booking -> BOOLEAN]
      /\ job'[k] = r /\ session'[k] = s
      /\ \A o \in Booking \ {k} : job'[o] = job[o] /\ session'[o] = session[o]
  BY DEF RowsTyped
<1>2. TrackedOnTheRoad'
  BY <1>1 DEF TrackedOnTheRoad
<1>3. SweepsPlaced'
  <2> SUFFICES ASSUME NEW w \in Sweeper, NEW o \in Booking
               PROVE  /\ sweep'[w][o] <= job'[o].version
                      /\ sweep'[w][o] # 0 /\ sweep'[w][o] = job'[o].version
                           => job'[o].status = "OUT_FOR_DELIVERY"
    BY DEF SweepsPlaced
  <2>1. /\ sweep[w][o] <= job[o].version /\ sweep[w][o] \in Nat /\ job[o].version \in Nat
        /\ sweep'[w][o] = 0 \/ sweep'[w][o] = sweep[w][o]
    BY DEF SweepsPlaced, RowsTyped, JobRow
  <2>2. CASE o = k
    BY <1>1, <2>1, <2>2
  <2>3. CASE o # k
    BY <1>1, <2>1, <2>3 DEF SweepsPlaced
  <2> QED
    BY <2>2, <2>3
<1>4. \A o \in Booking : job'[o].status = "NONE" => job'[o].version = 0
  BY <1>1 DEF RowsTyped
<1> QED
  BY <1>1, <1>2, <1>3, <1>4

(* What a command on an unlocked job keeps; a sweep may forget it. *)
LEMMA SweptJob ==
    ASSUME JobInv, NEW k \in Booking, ~Locked(k), NEW r \in JobRow, NEW s \in BOOLEAN,
           job' = [job EXCEPT ![k] = r], session' = [session EXCEPT ![k] = s],
           r.version = job[k].version + 1,
           r.status # "NONE",
           r.status = "OUT_FOR_DELIVERY" <=> r.tracking,
           s <=> r.tracking,
           UNCHANGED tx, photo' \in [Booking -> Photo],
           sweep' \in [Sweeper -> [Booking -> Nat]],
           \A w \in Sweeper, o \in Booking : sweep'[w][o] \in {0, sweep[w][o]}
    PROVE  JobInv'
<1>1. /\ job' \in [Booking -> JobRow] /\ session' \in [Booking -> BOOLEAN]
      /\ TrackedOnTheRoad' /\ SweepsPlaced'
      /\ \A o \in Booking : job'[o].status = "NONE" => job'[o].version = 0
      /\ \A o \in Booking \ {k} : job'[o] = job[o]
  BY OneJob
<1>2. TxPlaced'
  BY <1>1 DEF JobInv, TxPlaced, Locked
<1>3. RowsTyped'
  BY <1>1 DEF JobInv, RowsTyped
<1> QED
  BY <1>1, <1>2, <1>3 DEF JobInv

LEMMA FreeJob ==
    ASSUME JobInv, NEW k \in Booking, ~Locked(k), NEW r \in JobRow, NEW s \in BOOLEAN,
           job' = [job EXCEPT ![k] = r], session' = [session EXCEPT ![k] = s],
           r.version = job[k].version + 1,
           r.status # "NONE",
           r.status = "OUT_FOR_DELIVERY" <=> r.tracking,
           s <=> r.tracking,
           UNCHANGED <<tx, sweep>>, photo' \in [Booking -> Photo]
    PROVE  JobInv'
<1>1. sweep' \in [Sweeper -> [Booking -> Nat]]
      /\ \A w \in Sweeper, o \in Booking : sweep'[w][o] \in {0, sweep[w][o]}
  BY DEF JobInv, RowsTyped
<1> QED
  BY <1>1, SweptJob

(* The row updateJob writes. *)
LEMMA UpdatedRow ==
    ASSUME RowsTyped, NEW k \in Booking, NEW s \in JobStatus \ {"NONE"}
    PROVE  /\ Updated(k, s) \in JobRow
           /\ Updated(k, s).status = s /\ Updated(k, s).version = job[k].version + 1
           /\ Updated(k, s).tracking = job[k].tracking
           /\ OffRoad(k, s) \in JobRow
           /\ OffRoad(k, s).status = s /\ OffRoad(k, s).version = job[k].version + 1
           /\ OffRoad(k, s).tracking = FALSE
           /\ \A e \in Executive : [Updated(k, s) EXCEPT !.executive = e] \in JobRow
           /\ \A b \in BOOLEAN : [Updated(k, s) EXCEPT !.checked = b] \in JobRow
           /\ [Updated(k, s) EXCEPT !.tracking = TRUE] \in JobRow
<1>1. job[k] \in JobRow /\ s \in JobStatus
  BY DEF RowsTyped
<1>2. ASSUME NEW r \in JobRow, NEW n \in Nat
      PROVE  /\ [r EXCEPT !.version = n] \in JobRow
             /\ [r EXCEPT !.version = n].status = r.status
             /\ [r EXCEPT !.version = n].version = n
             /\ [r EXCEPT !.version = n].tracking = r.tracking
  BY DEF JobRow
<1>3. /\ [job[k] EXCEPT !.status = s] \in JobRow
      /\ [job[k] EXCEPT !.status = s].status = s
      /\ [job[k] EXCEPT !.status = s].tracking = job[k].tracking
      /\ job[k].version + 1 \in Nat
  BY <1>1 DEF JobRow
<1>5. /\ Updated(k, s) \in JobRow
      /\ Updated(k, s).status = s /\ Updated(k, s).version = job[k].version + 1
      /\ Updated(k, s).tracking = job[k].tracking
  BY <1>2, <1>3 DEF Updated
<1>4. ASSUME NEW r \in JobRow
      PROVE  /\ [r EXCEPT !.tracking = FALSE, !.overdue = FALSE] \in JobRow
             /\ [r EXCEPT !.tracking = FALSE, !.overdue = FALSE].status = r.status
             /\ [r EXCEPT !.tracking = FALSE, !.overdue = FALSE].version = r.version
             /\ [r EXCEPT !.tracking = FALSE, !.overdue = FALSE].tracking = FALSE
             /\ \A e \in Executive : [r EXCEPT !.executive = e] \in JobRow
             /\ \A b \in BOOLEAN : [r EXCEPT !.checked = b] \in JobRow
             /\ [r EXCEPT !.tracking = TRUE] \in JobRow
  BY DEF JobRow
<1> QED
  BY <1>4, <1>5 DEF OffRoad

(* Where the flag and the session agree, stopping closes the session. *)
LEMMA StoppedCloses ==
    ASSUME RowsTyped, TrackedOnTheRoad, NEW k \in Booking
    PROVE  Stopped(k) = [session EXCEPT ![k] = FALSE]
<1>1. session \in [Booking -> BOOLEAN] /\ (session[k] <=> job[k].tracking)
  BY DEF RowsTyped, TrackedOnTheRoad
<1>2. ASSUME ~job[k].tracking PROVE session = [session EXCEPT ![k] = FALSE]
  BY <1>1, <1>2
<1> QED
  BY <1>2 DEF Stopped

-----------------------------------------------------------------------------
(* The commands on a job that take one step. *)
LEMMA PrepareKeeps == ASSUME JobInv, PrepareNext PROVE JobInv'
<1> USE DEF JobInv
<1>0. PICK k \in Booking :
         \/ \E e \in Executive \cup {None} : CreateJob(k, e)
         \/ \E e \in Executive : Assign(k, e)
         \/ \E complete \in BOOLEAN : Checklist(k, complete)
         \/ MarkReady(k) \/ Schedule(k)
  BY DEF PrepareNext
<1>1. /\ job[k] \in JobRow /\ session[k] \in BOOLEAN
      /\ job[k].status \in JobStatus /\ job[k].version \in Nat
      /\ job[k].status = "OUT_FOR_DELIVERY" <=> job[k].tracking
      /\ session[k] <=> job[k].tracking
      /\ photo \in [Booking -> Photo] /\ session = [session EXCEPT ![k] = session[k]]
  BY DEF RowsTyped, JobRow, TrackedOnTheRoad
<1>2. ASSUME NEW e \in Executive \cup {None}, CreateJob(k, e) PROVE JobInv'
  <2> DEFINE r == [NoJob EXCEPT !.status = "VEHICLE_ALLOCATED", !.version = 1,
                                !.unit = booking[k].selected, !.executive = e]
  <2>1. /\ job' = [job EXCEPT ![k] = r] /\ job[k].status = "NONE"
        /\ booking[k].selected \in Unit
        /\ UNCHANGED <<photo, session, tx, sweep>>
    BY <1>2 DEF CreateJob, rest
  <2>2. /\ r \in JobRow /\ r.status = "VEHICLE_ALLOCATED" /\ r.version = 1
        /\ r.tracking = FALSE
    BY <2>1 DEF JobRow, JobStatus, NoJob
  <2>3. ~Locked(k)
    BY <2>1 DEF Locked, TxPlaced
  <2>4. job[k].version = 0
    BY <2>1 DEF RowsTyped
  <2> HIDE DEF r
  <2>5. r.version = job[k].version + 1 /\ r.status # "NONE"
        /\ (r.status = "OUT_FOR_DELIVERY" <=> r.tracking) /\ (session[k] <=> r.tracking)
    BY <1>1, <2>1, <2>2, <2>4
  <2> QED
    BY <1>1, <2>1, <2>2, <2>3, <2>5, FreeJob
<1>3. ASSUME NEW e \in Executive, Assign(k, e) PROVE JobInv'
  <2> DEFINE r == [Updated(k, job[k].status) EXCEPT !.executive = e]
  <2>1. /\ ~Locked(k) /\ job[k].status # "NONE" /\ job' = [job EXCEPT ![k] = r]
        /\ UNCHANGED <<photo, session, tx, sweep>>
    BY <1>3 DEF Assign, Ready, rest
  <2>2. r \in JobRow
    BY <1>1, <2>1, UpdatedRow
  <2>3. r.status = job[k].status /\ r.version = job[k].version + 1
        /\ r.tracking = job[k].tracking
    BY <1>1 DEF Updated, JobRow
  <2> HIDE DEF r
  <2> QED
    BY <1>1, <2>1, <2>2, <2>3, FreeJob
<1>4. ASSUME NEW b \in BOOLEAN, Checklist(k, b) PROVE JobInv'
  <2> DEFINE r == [Updated(k, "VEHICLE_PREPARATION") EXCEPT !.checked = b]
  <2>1. /\ ~Locked(k) /\ job[k].status # "OUT_FOR_DELIVERY" /\ job' = [job EXCEPT ![k] = r]
        /\ UNCHANGED <<photo, session, tx, sweep>>
    BY <1>4 DEF Checklist, Ready, rest
  <2>2. r \in JobRow
    BY UpdatedRow DEF JobStatus
  <2>3. /\ r.status = "VEHICLE_PREPARATION" /\ r.version = job[k].version + 1
        /\ r.tracking = job[k].tracking
    BY <1>1 DEF Updated, JobRow
  <2> HIDE DEF r
  <2> QED
    BY <1>1, <2>1, <2>2, <2>3, FreeJob
<1>5. ASSUME NEW s \in JobStatus \ {"NONE", "OUT_FOR_DELIVERY"},
             ~Locked(k), job[k].status # "OUT_FOR_DELIVERY",
             job' = [job EXCEPT ![k] = Updated(k, s)],
             UNCHANGED <<photo, session, tx, sweep>>
      PROVE  JobInv'
  <2> DEFINE r == Updated(k, s)
  <2>1. r \in JobRow /\ r.status = s /\ r.version = job[k].version + 1
        /\ r.tracking = job[k].tracking
    BY UpdatedRow
  <2>2. job' = [job EXCEPT ![k] = r]
    BY <1>5
  <2> HIDE DEF r
  <2> QED
    BY <1>1, <1>5, <2>1, <2>2, FreeJob
<1>6. ASSUME MarkReady(k) PROVE JobInv'
  BY <1>5, <1>6 DEF MarkReady, Ready, rest, JobStatus
<1>7. ASSUME Schedule(k) PROVE JobInv'
  BY <1>5, <1>7 DEF Schedule, Ready, rest, JobStatus
<1> QED
  BY <1>0, <1>2, <1>3, <1>4, <1>6, <1>7

LEMMA RoadKeeps == ASSUME JobInv, RoadNext PROVE JobInv'
<1> USE DEF JobInv
<1>0. PICK k \in Booking :
         \/ RecordProof(k) \/ InitiateUpload(k) \/ Expire(k)
         \/ \E clean \in BOOLEAN : CompleteUpload(k, clean)
         \/ \E target \in {"DELAYED", "FAILED"} : Exception(k, target)
         \/ CancelJob(k) \/ RequestReschedule(k)
         \/ \E target \in {"DELIVERY_SCHEDULED", "FAILED"} : DecideReschedule(k, target)
  BY DEF RoadNext
<1>1. /\ job[k] \in JobRow /\ session[k] \in BOOLEAN
      /\ job[k].status \in JobStatus /\ job[k].version \in Nat
      /\ job[k].status = "OUT_FOR_DELIVERY" <=> job[k].tracking
      /\ session[k] <=> job[k].tracking
      /\ photo \in [Booking -> Photo] /\ session = [session EXCEPT ![k] = session[k]]
  BY DEF RowsTyped, JobRow, TrackedOnTheRoad
(* The commands that leave the tracking as it is, *)
<1>2. ASSUME NEW s \in JobStatus \ {"NONE"}, ~Locked(k),
             s = "OUT_FOR_DELIVERY" <=> job[k].status = "OUT_FOR_DELIVERY",
             job' = [job EXCEPT ![k] = Updated(k, s)], photo' \in [Booking -> Photo],
             UNCHANGED <<session, tx, sweep>>
      PROVE  JobInv'
  <2> DEFINE r == Updated(k, s)
  <2>1. r \in JobRow /\ r.status = s /\ r.version = job[k].version + 1
        /\ r.tracking = job[k].tracking
    BY UpdatedRow
  <2>2. job' = [job EXCEPT ![k] = r]
    BY <1>2
  <2> HIDE DEF r
  <2> QED
    BY <1>1, <1>2, <2>1, <2>2, FreeJob
(* and those that end it. *)
<1>3. ASSUME NEW s \in JobStatus \ {"NONE", "OUT_FOR_DELIVERY"}, ~Locked(k),
             job' = [job EXCEPT ![k] = OffRoad(k, s)], session' = Stopped(k),
             UNCHANGED <<photo, tx, sweep>>
      PROVE  JobInv'
  <2> DEFINE r == OffRoad(k, s)
  <2>1. r \in JobRow /\ r.status = s /\ r.version = job[k].version + 1 /\ r.tracking = FALSE
    BY UpdatedRow
  <2>2. job' = [job EXCEPT ![k] = r] /\ session' = [session EXCEPT ![k] = FALSE]
    BY <1>3, StoppedCloses
  <2> HIDE DEF r
  <2> QED
    BY <1>1, <1>3, <2>1, <2>2, FreeJob
<1>4. ASSUME RecordProof(k) PROVE JobInv'
  BY <1>1, <1>2, <1>4 DEF RecordProof, Ready, rest, JobStatus
<1>5. ASSUME InitiateUpload(k) PROVE JobInv'
  <2>1. UNCHANGED <<job, session, tx, sweep>> /\ photo' = [photo EXCEPT ![k].status = "PENDING_UPLOAD"]
    BY <1>5 DEF InitiateUpload
  <2>2. photo' \in [Booking -> Photo]
    BY <1>1, <2>1 DEF Photo
  <2> QED
    BY <2>1, <2>2 DEF RowsTyped, TrackedOnTheRoad, TxPlaced, SweepsPlaced
<1>6. ASSUME Expire(k) PROVE JobInv'
  <2>1. UNCHANGED <<photo, session, tx, sweep>> /\ job' = [job EXCEPT ![k].overdue = TRUE]
    BY <1>6 DEF Expire, rest
  <2>2. job' \in [Booking -> JobRow]
    BY <1>1, <2>1 DEF RowsTyped, JobRow
  <2>3. \A o \in Booking : /\ job'[o].status = job[o].status
                          /\ job'[o].version = job[o].version
                          /\ job'[o].tracking = job[o].tracking
    BY <1>1, <2>1 DEF RowsTyped, JobRow
  <2> QED
    BY <2>1, <2>2, <2>3 DEF RowsTyped, TrackedOnTheRoad, TxPlaced, SweepsPlaced
<1>7. ASSUME NEW clean \in BOOLEAN, CompleteUpload(k, clean) PROVE JobInv'
  <2>1. /\ ~Locked(k) /\ job[k].status # "NONE" /\ UNCHANGED <<session, tx, sweep>>
        /\ job' = [job EXCEPT ![k] = Updated(k, job[k].status)]
        /\ photo' = [photo EXCEPT ![k] = [status |-> IF clean THEN "PENDING_SCAN" ELSE "REJECTED",
                                         clean |-> clean]]
    BY <1>7 DEF CompleteUpload, Ready
  <2>2. photo' \in [Booking -> Photo]
    BY <1>1, <2>1 DEF Photo
  <2> QED
    BY <1>1, <1>2, <2>1, <2>2
<1>8. ASSUME NEW target \in {"DELAYED", "FAILED"}, Exception(k, target) PROVE JobInv'
  BY <1>3, <1>8 DEF Exception, Ready, rest, JobStatus
<1>9. ASSUME CancelJob(k) PROVE JobInv'
  BY <1>3, <1>9 DEF CancelJob, Ready, rest, JobStatus
<1>10. ASSUME RequestReschedule(k) PROVE JobInv'
  BY <1>3, <1>10 DEF RequestReschedule, Ready, rest, JobStatus
<1>11. ASSUME NEW target \in {"DELIVERY_SCHEDULED", "FAILED"}, DecideReschedule(k, target)
       PROVE  JobInv'
  BY <1>1, <1>2, <1>11 DEF DecideReschedule, Ready, rest, JobStatus
<1> QED
  BY <1>0, <1>4, <1>5, <1>6, <1>7, <1>8, <1>9, <1>10, <1>11

-----------------------------------------------------------------------------
(* The shape of a request. *)
IsRequest(q) ==
    q = [op |-> q.op, job |-> q.job, by |-> q.by, alloc |-> q.alloc, seen |-> q.seen]

(* A request becomes q, and takes no lock that another one holds. *)
LEMMA RequestMoves ==
    ASSUME JobInv, NEW c \in Caller, NEW q, IsRequest(q), tx' = [tx EXCEPT ![c] = q],
           UNCHANGED <<job, session, sweep>>, photo' \in [Booking -> Photo],
           q.op # "NONE" => q.job \in Booking,
           q.op = "START" => job[q.job].status = "DELIVERY_SCHEDULED",
           q.op = "COMPLETE" => job[q.job].status = "OUT_FOR_DELIVERY",
           q.op \in {"START", "COMPLETE"} => ~Locked(q.job)
    PROVE  JobInv'
<1>1. /\ tx'[c] = q /\ \A d \in Caller \ {c} : tx'[d] = tx[d]
      /\ tx' = [d \in Caller |-> IF d = c THEN q ELSE tx[d]]
  BY DEF JobInv, RowsTyped
<1>2. RowsTyped'
  <2>1. tx' = [d \in Caller |-> [op |-> tx'[d].op, job |-> tx'[d].job, by |-> tx'[d].by,
                                alloc |-> tx'[d].alloc, seen |-> tx'[d].seen]]
    <3>1. \A d \in Caller : IsRequest(tx[d])
      BY DEF JobInv, RowsTyped, IsRequest
    <3>2. \A d \in Caller : IsRequest(tx'[d])
      BY <1>1, <3>1
    <3> QED
      BY <1>1, <3>2 DEF IsRequest
  <2> QED
    BY <2>1 DEF JobInv, RowsTyped
<1>3. TxPlaced'
  <2>1. ASSUME NEW d \in Caller, NEW e \in Caller,
               tx'[d].op \in {"START", "COMPLETE"}, tx'[e].op \in {"START", "COMPLETE"},
               tx'[d].job = tx'[e].job
        PROVE  d = e
    BY <1>1, <2>1 DEF JobInv, TxPlaced, Locked
  <2>2. ASSUME NEW d \in Caller
        PROVE  /\ tx'[d].op # "NONE" => tx'[d].job \in Booking
               /\ tx'[d].op = "START" => job'[tx'[d].job].status = "DELIVERY_SCHEDULED"
               /\ tx'[d].op = "COMPLETE" => job'[tx'[d].job].status = "OUT_FOR_DELIVERY"
    <3>1. CASE d = c
      BY <1>1, <3>1
    <3>2. CASE d # c
      BY <1>1, <3>2 DEF JobInv, TxPlaced
    <3> QED
      BY <3>1, <3>2
  <2> QED
    BY <2>1, <2>2 DEF TxPlaced
<1> QED
  BY <1>2, <1>3 DEF JobInv, TrackedOnTheRoad, SweepsPlaced

(* The holder of a job's lock writes the job and is done. *)
LEMMA HolderCommits ==
    ASSUME JobInv, NEW c \in Caller, tx[c].op \in {"START", "COMPLETE"},
           NEW r \in JobRow, NEW s \in BOOLEAN,
           job' = [job EXCEPT ![tx[c].job] = r], session' = [session EXCEPT ![tx[c].job] = s],
           r.version = job[tx[c].job].version + 1,
           r.status # "NONE",
           r.status = "OUT_FOR_DELIVERY" <=> r.tracking,
           s <=> r.tracking,
           tx' = [tx EXCEPT ![c] = NoTx], UNCHANGED <<photo, sweep>>
    PROVE  JobInv'
<1> DEFINE k == tx[c].job
<1>0. k \in Booking /\ \A w \in Sweeper, o \in Booking : sweep'[w][o] \in {0, sweep[w][o]}
  BY DEF JobInv, TxPlaced
<1>1. /\ job' \in [Booking -> JobRow] /\ session' \in [Booking -> BOOLEAN]
      /\ TrackedOnTheRoad' /\ SweepsPlaced'
      /\ \A o \in Booking : job'[o].status = "NONE" => job'[o].version = 0
      /\ \A o \in Booking \ {k} : job'[o] = job[o]
  <2> HIDE DEF k
  <2>1. job' = [job EXCEPT ![k] = r] /\ session' = [session EXCEPT ![k] = s]
        /\ r.version = job[k].version + 1
    BY DEF k
  <2> QED
    BY <1>0, <2>1, OneJob
<1>2. /\ tx'[c] = NoTx /\ \A d \in Caller \ {c} : tx'[d] = tx[d]
      /\ tx' = [d \in Caller |-> IF d = c THEN NoTx ELSE tx[d]]
  BY DEF JobInv, RowsTyped
<1>3. RowsTyped'
  <2>1. \A d \in Caller : IsRequest(tx'[d])
    BY <1>2 DEF JobInv, RowsTyped, IsRequest, NoTx, Opened
  <2>2. tx' = [d \in Caller |-> [op |-> tx'[d].op, job |-> tx'[d].job, by |-> tx'[d].by,
                                alloc |-> tx'[d].alloc, seen |-> tx'[d].seen]]
    BY <1>2, <2>1 DEF IsRequest
  <2> QED
    BY <1>1, <2>2 DEF JobInv, RowsTyped
<1>4. TxPlaced'
  <2>1. ASSUME NEW d \in Caller, NEW e \in Caller,
               tx'[d].op \in {"START", "COMPLETE"}, tx'[e].op \in {"START", "COMPLETE"},
               tx'[d].job = tx'[e].job
        PROVE  d = e
    BY <1>2, <2>1 DEF JobInv, TxPlaced, NoTx, Opened
  <2>2. ASSUME NEW d \in Caller
        PROVE  /\ tx'[d].op # "NONE" => tx'[d].job \in Booking
               /\ tx'[d].op = "START" => job'[tx'[d].job].status = "DELIVERY_SCHEDULED"
               /\ tx'[d].op = "COMPLETE" => job'[tx'[d].job].status = "OUT_FOR_DELIVERY"
    <3>1. CASE d = c
      BY <1>2, <3>1 DEF NoTx, Opened
    <3>2. CASE d # c
      <4>1. tx[d].op \in {"START", "COMPLETE"} => tx[d].job # k
        BY <3>2 DEF JobInv, TxPlaced
      <4> QED
        BY <1>1, <1>2, <3>2, <4>1 DEF JobInv, TxPlaced
    <3> QED
      BY <3>1, <3>2
  <2> QED
    BY <2>1, <2>2 DEF TxPlaced
<1> QED
  BY <1>1, <1>3, <1>4 DEF JobInv

LEMMA RequestsKeep == ASSUME JobInv, RequestNext PROVE JobInv'
<1> USE DEF JobInv
<1>0. PICK c \in Caller :
         \/ \E k \in Booking : EvaluateReadiness(c, k) \/ BeginReview(c, k)
         \/ \E k \in Booking, a \in Alloc : BeginComplete(c, k, a)
         \/ \E decision \in {"VERIFIED", "REJECTED"} : CommitReview(c, decision)
         \/ BeginStart(c) \/ CommitStart(c) \/ CommitComplete(c) \/ Rollback(c)
  BY DEF RequestNext
<1>1. IsRequest(tx[c]) /\ IsRequest(NoTx) /\ NoTx.op = "NONE" /\ photo \in [Booking -> Photo]
  BY DEF RowsTyped, IsRequest, NoTx, Opened
<1>2. ASSUME NEW k \in Booking, EvaluateReadiness(c, k) PROVE JobInv'
  <2> DEFINE q == Opened("READY", k, job[k].executive, None, 0)
  <2>1. tx' = [tx EXCEPT ![c] = q] /\ UNCHANGED <<job, photo, session, sweep>>
    BY <1>2 DEF EvaluateReadiness
  <2>2. IsRequest(q) /\ q.op = "READY" /\ q.job = k
    BY DEF Opened, IsRequest
  <2> HIDE DEF q
  <2> QED
    BY <1>1, <2>1, <2>2, RequestMoves
<1>3. ASSUME NEW k \in Booking, BeginReview(c, k) PROVE JobInv'
  <2> DEFINE q == Opened("REVIEW", k, None, None, 0)
  <2>1. tx' = [tx EXCEPT ![c] = q] /\ UNCHANGED <<job, photo, session, sweep>>
    BY <1>3 DEF BeginReview
  <2>2. IsRequest(q) /\ q.op = "REVIEW" /\ q.job = k
    BY DEF Opened, IsRequest
  <2> HIDE DEF q
  <2> QED
    BY <1>1, <2>1, <2>2, RequestMoves
<1>4. ASSUME NEW k \in Booking, NEW a \in Alloc, BeginComplete(c, k, a) PROVE JobInv'
  <2> DEFINE q == Opened("COMPLETE", k, job[k].executive, a, unit[job[k].unit].version)
  <2>1. /\ tx' = [tx EXCEPT ![c] = q] /\ UNCHANGED <<job, photo, session, sweep>>
        /\ ~Locked(k) /\ job[k].status = "OUT_FOR_DELIVERY"
    BY <1>4 DEF BeginComplete, Ready
  <2>2. IsRequest(q) /\ q.op = "COMPLETE" /\ q.job = k
    BY DEF Opened, IsRequest
  <2> HIDE DEF q
  <2> QED
    BY <1>1, <2>1, <2>2, RequestMoves
<1>5. ASSUME NEW decision \in {"VERIFIED", "REJECTED"}, CommitReview(c, decision) PROVE JobInv'
  <2>1. /\ tx' = [tx EXCEPT ![c] = NoTx] /\ UNCHANGED <<job, session, sweep>>
        /\ photo' = [photo EXCEPT ![tx[c].job].status = decision] /\ tx[c].op = "REVIEW"
    BY <1>5 DEF CommitReview
  <2>2. photo' \in [Booking -> Photo]
    BY <1>1, <2>1 DEF Photo, TxPlaced
  <2> QED
    BY <1>1, <2>1, <2>2, RequestMoves
<1>6. ASSUME BeginStart(c) PROVE JobInv'
  <2> DEFINE q == [tx[c] EXCEPT !.op = "START"]
  <2>1. /\ tx' = [tx EXCEPT ![c] = q] /\ UNCHANGED <<job, photo, session, sweep>>
        /\ ~Locked(tx[c].job) /\ job[tx[c].job].status = "DELIVERY_SCHEDULED"
        /\ tx[c].job \in Booking
    BY <1>6 DEF BeginStart, Ready, TxPlaced
  <2>2. q = [op |-> "START", job |-> tx[c].job, by |-> tx[c].by, alloc |-> tx[c].alloc,
             seen |-> tx[c].seen]
    BY <1>1 DEF IsRequest
  <2>3. IsRequest(q) /\ q.op = "START" /\ q.job = tx[c].job
    BY <2>2 DEF IsRequest
  <2> HIDE DEF q
  <2> QED
    BY <1>1, <2>1, <2>3, RequestMoves
<1>7. ASSUME CommitStart(c) PROVE JobInv'
  <2> DEFINE r == [Updated(tx[c].job, "OUT_FOR_DELIVERY") EXCEPT !.tracking = TRUE]
  <2>1. /\ tx[c].op = "START" /\ tx[c].job \in Booking
        /\ job' = [job EXCEPT ![tx[c].job] = r]
        /\ session' = [session EXCEPT ![tx[c].job] = TRUE]
        /\ tx' = [tx EXCEPT ![c] = NoTx] /\ UNCHANGED <<photo, sweep>>
    BY <1>7 DEF CommitStart, TxPlaced
  <2>2. /\ r \in JobRow /\ Updated(tx[c].job, "OUT_FOR_DELIVERY") \in JobRow
        /\ Updated(tx[c].job, "OUT_FOR_DELIVERY").status = "OUT_FOR_DELIVERY"
        /\ Updated(tx[c].job, "OUT_FOR_DELIVERY").version = job[tx[c].job].version + 1
    BY <2>1, UpdatedRow DEF JobStatus
  <2>3. /\ r.status = "OUT_FOR_DELIVERY" /\ r.tracking = TRUE
        /\ r.version = job[tx[c].job].version + 1
    BY <2>2 DEF JobRow
  <2> HIDE DEF r
  <2> QED
    BY <2>1, <2>2, <2>3, HolderCommits
<1>8. ASSUME CommitComplete(c) PROVE JobInv'
  <2> DEFINE r == OffRoad(tx[c].job, "DELIVERED")
  <2>1. /\ tx[c].op = "COMPLETE" /\ tx[c].job \in Booking
        /\ job' = [job EXCEPT ![tx[c].job] = r] /\ session' = Stopped(tx[c].job)
        /\ tx' = [tx EXCEPT ![c] = NoTx] /\ UNCHANGED <<photo, sweep>>
    BY <1>8 DEF CommitComplete, TxPlaced
  <2>2. /\ r \in JobRow /\ r.status = "DELIVERED" /\ r.tracking = FALSE
        /\ r.version = job[tx[c].job].version + 1
    BY <2>1, UpdatedRow DEF JobStatus
  <2>3. session' = [session EXCEPT ![tx[c].job] = FALSE]
    BY <2>1, StoppedCloses
  <2> HIDE DEF r
  <2> QED
    BY <2>1, <2>2, <2>3, HolderCommits
<1>9. ASSUME Rollback(c) PROVE JobInv'
  <2>1. tx' = [tx EXCEPT ![c] = NoTx] /\ UNCHANGED <<job, photo, session, sweep>>
    BY <1>9 DEF Rollback
  <2> QED
    BY <1>1, <2>1, RequestMoves
<1> QED
  BY <1>0, <1>2, <1>3, <1>4, <1>5, <1>6, <1>7, <1>8, <1>9

LEMMA SweepsKeep == ASSUME JobInv, SweepNext PROVE JobInv'
<1> USE DEF JobInv
<1>0. PICK w \in Sweeper :
         \/ ScanTracking(w) \/ AbortSweep(w)
         \/ \E k \in Booking : ExpireTracking(w, k)
  BY DEF SweepNext
<1>1. ASSUME UNCHANGED <<job, photo, session, tx>>, NEW f \in [Booking -> Nat],
             sweep' = [sweep EXCEPT ![w] = f],
             \A k \in Booking : f[k] # 0 => /\ f[k] = job[k].version
                                           /\ job[k].status = "OUT_FOR_DELIVERY"
      PROVE  JobInv'
  <2>1. sweep' \in [Sweeper -> [Booking -> Nat]] /\ sweep'[w] = f
        /\ \A v \in Sweeper \ {w} : sweep'[v] = sweep[v]
    BY <1>1 DEF RowsTyped
  <2>2. \A k \in Booking : job[k].version \in Nat
    BY DEF RowsTyped, JobRow
  <2>3. SweepsPlaced'
    <3> SUFFICES ASSUME NEW v \in Sweeper, NEW k \in Booking
                 PROVE  /\ sweep'[v][k] <= job[k].version
                        /\ sweep'[v][k] # 0 /\ sweep'[v][k] = job[k].version
                             => job[k].status = "OUT_FOR_DELIVERY"
      BY <1>1 DEF SweepsPlaced
    <3>1. CASE v = w
      <4>1. sweep'[v][k] = f[k] /\ f[k] \in Nat /\ job[k].version \in Nat
        BY <1>1, <2>1, <2>2, <3>1
      <4> QED
        BY <1>1, <4>1
    <3>2. CASE v # w
      BY <2>1, <3>2 DEF SweepsPlaced
    <3> QED
      BY <3>1, <3>2
  <2> QED
    BY <1>1, <2>1, <2>3 DEF RowsTyped, TrackedOnTheRoad, TxPlaced
<1>2. ASSUME ScanTracking(w) PROVE JobInv'
  <2> DEFINE due == {k \in Booking : job[k].tracking /\ job[k].overdue}
             f == [k \in Booking |-> IF k \in due THEN job[k].version ELSE 0]
  <2>1. UNCHANGED <<job, photo, session, tx>> /\ sweep' = [sweep EXCEPT ![w] = f]
    BY <1>2 DEF ScanTracking
  <2>2. f \in [Booking -> Nat]
    BY DEF RowsTyped, JobRow
  <2>3. \A k \in Booking : f[k] # 0 => /\ f[k] = job[k].version
                                      /\ job[k].status = "OUT_FOR_DELIVERY"
    BY DEF TrackedOnTheRoad
  <2> HIDE DEF f
  <2> QED
    BY <1>1, <2>1, <2>2, <2>3
<1>3. ASSUME AbortSweep(w) PROVE JobInv'
  <2>1. UNCHANGED <<job, photo, session, tx>> /\ sweep' = [sweep EXCEPT ![w] = NoSweep]
    BY <1>3 DEF AbortSweep
  <2>2. NoSweep \in [Booking -> Nat] /\ \A k \in Booking : NoSweep[k] = 0
    BY DEF NoSweep
  <2> QED
    BY <1>1, <2>1, <2>2
<1>4. ASSUME NEW k \in Booking, ExpireTracking(w, k) PROVE JobInv'
  <2> DEFINE r == OffRoad(k, "DELAYED")
  <2>1. /\ ~Locked(k) /\ job' = [job EXCEPT ![k] = r]
        /\ session' = [session EXCEPT ![k] = FALSE]
        /\ sweep' = [sweep EXCEPT ![w][k] = 0] /\ UNCHANGED <<photo, tx>>
    BY <1>4 DEF ExpireTracking
  <2>2. /\ r \in JobRow /\ r.status = "DELAYED" /\ r.tracking = FALSE
        /\ r.version = job[k].version + 1
    BY UpdatedRow DEF JobStatus
  <2>3. /\ sweep' \in [Sweeper -> [Booking -> Nat]] /\ photo' \in [Booking -> Photo]
        /\ \A v \in Sweeper, o \in Booking : sweep'[v][o] \in {0, sweep[v][o]}
    BY <2>1 DEF RowsTyped
  <2> HIDE DEF r
  <2> QED
    BY <2>1, <2>2, <2>3, SweptJob
<1> QED
  BY <1>0, <1>2, <1>3, <1>4

LEMMA JobStep == ASSUME JobInv, [Next]_vars PROVE JobInv'
<1>1. ASSUME UNCHANGED <<job, photo, session, tx, sweep>> PROVE JobInv'
  BY <1>1 DEF JobInv, RowsTyped, TrackedOnTheRoad, TxPlaced, SweepsPlaced
<1> QED
  BY <1>1, PrepareKeeps, RoadKeeps, RequestsKeep, SweepsKeep DEF Next, StockNext, vars

(* The inductive invariant: rows typed, the tracking on the road, held      *)
(* locks exclusive and sweeps that can only find a job on the road.         *)
THEOREM JobInductive == Spec => []JobInv
<1>1. Init => JobInv
  BY JobStart
<1>2. JobInv /\ [Next]_vars => JobInv'
  BY JobStep
<1> QED
  BY <1>1, <1>2, PTL DEF Spec

(* Location is collected exactly while the job is on the road, for every    *)
(* number of jobs, requests and sweeps.                                     *)
THEOREM TrackingEndsWithTheRoad == Spec => []TrackedOnTheRoad
<1>1. JobInv => TrackedOnTheRoad
  BY DEF JobInv
<1> QED
  BY <1>1, JobInductive, PTL

-----------------------------------------------------------------------------
(* A finished delivery is never reopened, by no late command or sweep.      *)
THEOREM FinishedIsFinal == Spec => EndedJobsAreFinal
<1> DEFINE Keeps == \A k \in Booking : job[k].status \in {"DELIVERED", "CANCELLED"}
                                        => job'[k].status = job[k].status
<1>1. ASSUME JobInv, [Next]_vars PROVE Keeps
  <2> SUFFICES ASSUME NEW k \in Booking, job[k].status \in {"DELIVERED", "CANCELLED"}
               PROVE  job'[k].status = job[k].status
    OBVIOUS
  <2>1. job \in [Booking -> JobRow] /\ job[k] \in JobRow
    BY <1>1 DEF JobInv, RowsTyped
  <2>2. ASSUME NEW o \in Booking, NEW r, job' = [job EXCEPT ![o] = r], o # k
        PROVE  job'[k].status = job[k].status
    BY <2>1, <2>2
  <2>3. CASE PrepareNext
    <3>1. PICK o \in Booking :
             \/ \E e \in Executive \cup {None} : CreateJob(o, e)
             \/ \E e \in Executive : Assign(o, e)
             \/ \E complete \in BOOLEAN : Checklist(o, complete)
             \/ MarkReady(o) \/ Schedule(o)
      BY <2>3 DEF PrepareNext
    <3>2. o # k
      BY <3>1 DEF CreateJob, Assign, Checklist, MarkReady, Schedule, Ready
    <3> QED
      BY <2>2, <3>1, <3>2 DEF CreateJob, Assign, Checklist, MarkReady, Schedule
  <2>4. CASE RoadNext
    <3>1. PICK o \in Booking :
             \/ RecordProof(o) \/ InitiateUpload(o) \/ Expire(o)
             \/ \E clean \in BOOLEAN : CompleteUpload(o, clean)
             \/ \E target \in {"DELAYED", "FAILED"} : Exception(o, target)
             \/ CancelJob(o) \/ RequestReschedule(o)
             \/ \E target \in {"DELIVERY_SCHEDULED", "FAILED"} : DecideReschedule(o, target)
      BY <2>4 DEF RoadNext
    <3>2. CASE InitiateUpload(o)
      BY <3>2 DEF InitiateUpload
    <3>3. CASE \E clean \in BOOLEAN : CompleteUpload(o, clean)
      <4>1. job' = [job EXCEPT ![o] = Updated(o, job[o].status)]
        BY <3>3 DEF CompleteUpload
      <4>2. o = k => job'[k] = Updated(k, job[k].status)
        BY <2>1, <4>1
      <4>3. Updated(k, job[k].status).status = job[k].status
        BY <1>1, UpdatedRow DEF JobInv, JobStatus
      <4> QED
        BY <2>2, <4>1, <4>2, <4>3
    <3>4. CASE Expire(o)
      <4>1. job' = [job EXCEPT ![o].overdue = TRUE]
        BY <3>4 DEF Expire
      <4> QED
        BY <2>1, <4>1 DEF JobRow
    <3>5. CASE ~InitiateUpload(o) /\ ~Expire(o) /\ ~\E clean \in BOOLEAN : CompleteUpload(o, clean)
      <4>1. o # k
        BY <3>1, <3>5 DEF RecordProof, Exception, CancelJob, RequestReschedule, DecideReschedule,
                          Ready
      <4> QED
        BY <2>2, <3>1, <3>5, <4>1 DEF RecordProof, Exception, CancelJob, RequestReschedule,
                                      DecideReschedule
    <3> QED
      BY <3>2, <3>3, <3>4, <3>5
  <2>5. CASE RequestNext
    <3>1. PICK c \in Caller :
             \/ \E o \in Booking : EvaluateReadiness(c, o) \/ BeginReview(c, o)
             \/ \E o \in Booking, a \in Alloc : BeginComplete(c, o, a)
             \/ \E decision \in {"VERIFIED", "REJECTED"} : CommitReview(c, decision)
             \/ BeginStart(c) \/ CommitStart(c) \/ CommitComplete(c) \/ Rollback(c)
      BY <2>5 DEF RequestNext
    <3>2. CASE CommitStart(c) \/ CommitComplete(c)
      <4>1. tx[c].job \in Booking /\ tx[c].job # k
        BY <1>1, <3>2 DEF CommitStart, CommitComplete, JobInv, TxPlaced
      <4>2. \E r : job' = [job EXCEPT ![tx[c].job] = r]
        BY <3>2 DEF CommitStart, CommitComplete
      <4> QED
        BY <2>2, <4>1, <4>2
    <3>3. CASE ~CommitStart(c) /\ ~CommitComplete(c)
      BY <3>1, <3>3 DEF EvaluateReadiness, BeginReview, BeginComplete, CommitReview, BeginStart,
                        Rollback
    <3> QED
      BY <3>2, <3>3
  <2>6. CASE SweepNext
    <3>1. PICK w \in Sweeper :
             \/ ScanTracking(w) \/ AbortSweep(w)
             \/ \E o \in Booking : ExpireTracking(w, o)
      BY <2>6 DEF SweepNext
    <3>2. ASSUME NEW o \in Booking, ExpireTracking(w, o) PROVE job'[k].status = job[k].status
      <4>1. o # k
        BY <1>1, <3>2 DEF ExpireTracking, JobInv, SweepsPlaced
      <4> QED
        BY <2>2, <3>2, <4>1 DEF ExpireTracking
    <3> QED
      BY <3>1, <3>2 DEF ScanTracking, AbortSweep
  <2>7. CASE StockNext \/ UNCHANGED vars
    BY <2>7 DEF StockNext, vars
  <2> QED
    BY <1>1, <2>3, <2>4, <2>5, <2>6, <2>7 DEF Next
<1>2. JobInv /\ [Next]_vars => [Keeps]_vars
  BY <1>1
<1> QED
  BY <1>2, JobInductive, PTL DEF Spec, EndedJobsAreFinal

-----------------------------------------------------------------------------
(* The outbox, its replays and the command receipts, for every number of     *)
(* commands, screens, copies and kills.                                      *)
(* A receipt stands for exactly one effect; a copy that was answered with a *)
(* success has one, and one copy at most is inside its transaction, which   *)
(* has none yet.                                                            *)
ReceiptsCount ==
    /\ \A o \in Op : effects[o] = IF receipt[o] THEN 1 ELSE 0
    /\ \A o \in Op, n \in Place : copy[o][n] = "OK" => receipt[o]
    /\ \A o \in Op, n \in Place : copy[o][n] = "RUNNING" => ~receipt[o]
    /\ \A o \in Op, m, n \in Place :
          copy[o][m] = "RUNNING" /\ copy[o][n] = "RUNNING" => m = n

(* A screen that awaits an answer has sent something; what a replay works   *)
(* on was stored before; and a command that is done for its issuer has been *)
(* applied.                                                                 *)
AnswersPlaced ==
    /\ \A o \in Op : call[o] # 0 => row[o] = "DIRECT"
    /\ \A p \in Replayer : sending[p] # {} => call[p] \in Place
    /\ \A p \in Replayer, o \in Op :
          o \in todo[p] \cup sending[p] => row[o] \notin {"NONE", "DIRECT"}
DoneIsApplied == \A o \in Op : row[o] = "DONE" => receipt[o]

OutboxInv == OutboxTypeOK /\ ReceiptsCount /\ AnswersPlaced /\ DoneIsApplied

LEMMA OutboxStart == ASSUME OutboxInit PROVE OutboxInv
<1> USE OfflineAssumption
<1>1. OutboxTypeOK
  BY DEF OutboxInit, OutboxTypeOK, Row, Copy
<1>2. ReceiptsCount /\ AnswersPlaced /\ DoneIsApplied
  BY DEF OutboxInit, ReceiptsCount, AnswersPlaced, DoneIsApplied, Sender
<1> QED
  BY <1>1, <1>2 DEF OutboxInv

-----------------------------------------------------------------------------
(* A step that rewrites one copy. *)
LEMMA OneCopy ==
    ASSUME OutboxTypeOK, NEW o \in Op, NEW n \in Place, NEW v \in Copy,
           copy' = [copy EXCEPT ![o][n] = v]
    PROVE  /\ copy' \in [Op -> [Place -> Copy]]
           /\ \A q \in Op, m \in Place :
                 copy'[q][m] = IF q = o /\ m = n THEN v ELSE copy[q][m]
BY DEF OutboxTypeOK

(* A copy that is neither started nor answered with a success leaves what   *)
(* the server has counted as it is.                                         *)
LEMMA CopyOnly ==
    ASSUME OutboxTypeOK, ReceiptsCount, UNCHANGED server, NEW o \in Op, NEW n \in Place,
           NEW v \in Copy \ {"OK", "RUNNING"}, copy' = [copy EXCEPT ![o][n] = v]
    PROVE  ReceiptsCount' /\ copy' \in [Op -> [Place -> Copy]]
<1>1. /\ copy' \in [Op -> [Place -> Copy]]
      /\ \A q \in Op, m \in Place :
            copy'[q][m] = IF q = o /\ m = n THEN v ELSE copy[q][m]
  BY OneCopy
<1> QED
  BY <1>1 DEF ReceiptsCount, server

(* Where it is settled, a row is in one of the outbox's states, and is done *)
(* only by a success.                                                       *)
LEMMA SettledRow ==
    ASSUME OutboxTypeOK, NEW o \in Op, row[o] \notin {"NONE", "DIRECT"}, NEW answer
    PROVE  /\ Settled(o, answer) \in Row \ {"NONE", "DIRECT"}
           /\ Settled(o, answer) = "DONE" => answer = "OK" \/ row[o] = "DONE"
<1>1. CASE answer = "OK"
  BY <1>1 DEF Settled, Row
<1>2. CASE answer # "OK" /\ row[o] \notin Stored
  <2>1. Settled(o, answer) = row[o]
    BY <1>2 DEF Settled
  <2> QED
    BY <2>1 DEF OutboxTypeOK
<1>3. CASE answer # "OK" /\ row[o] \in Stored
  <2>1. Settled(o, answer) \in {"CONFLICT", "FAILED"}
    BY <1>3 DEF Settled
  <2> QED
    BY <2>1 DEF Row
<1> QED
  BY <1>1, <1>2, <1>3

-----------------------------------------------------------------------------
(* What the steps of the phone preserve. *)
LEMMA PhoneKeeps == ASSUME OutboxInv, PhoneNext PROVE OutboxInv'
<1> USE OfflineAssumption DEF OutboxInv
<1>1. ASSUME NEW o \in Op, Enqueue(o) \/ FallBack(o) PROVE OutboxInv'
  <2>1. row' = [row EXCEPT ![o] = "QUEUED"] /\ row[o] \in {"NONE", "DIRECT"}
    BY <1>1 DEF Enqueue, FallBack
  <2>2. UNCHANGED <<todo, sending, copy, server, kills>>
    BY <1>1 DEF Enqueue, FallBack, memory
  <2>3. /\ call' \in [Sender -> 0..MaxCopies]
        /\ call'[o] = 0
        /\ \A s \in Sender \ {o} : call'[s] = call[s]
    <3>1. CASE Enqueue(o)
      BY <3>1 DEF Enqueue, memory, OutboxTypeOK, AnswersPlaced, Sender
    <3>2. CASE FallBack(o)
      BY <3>2 DEF FallBack, OutboxTypeOK, Sender
    <3> QED
      BY <1>1, <3>1, <3>2
  <2>4. OutboxTypeOK' /\ ReceiptsCount' /\ DoneIsApplied'
    BY <2>1, <2>2, <2>3 DEF OutboxTypeOK, Row, ReceiptsCount, DoneIsApplied, server
  <2>5. AnswersPlaced'
    BY <2>1, <2>2, <2>3 DEF OutboxTypeOK, AnswersPlaced, Sender
  <2> QED
    BY <2>4, <2>5
<1>2. ASSUME NEW o \in Op, NEW n \in Place, SendDirectly(o, n) PROVE OutboxInv'
  <2>1. ReceiptsCount' /\ copy' \in [Op -> [Place -> Copy]]
    BY <1>2, CopyOnly DEF SendDirectly, Send, Copy
  <2> QED
    BY <1>2, <2>1
       DEF SendDirectly, Send, OutboxTypeOK, Row, AnswersPlaced, DoneIsApplied, server, Sender, Place
<1>3. ASSUME NEW o \in Op, DirectAnswer(o) PROVE OutboxInv'
  <2> DEFINE n == call[o]
  <2>1. n \in Place /\ row[o] = "DIRECT" /\ UNCHANGED server
    BY <1>3 DEF DirectAnswer, OutboxTypeOK, Place, Sender, AnswersPlaced
  <2>2. ReceiptsCount' /\ copy' \in [Op -> [Place -> Copy]]
    BY <1>3, <2>1, CopyOnly DEF DirectAnswer, Copy
  <2>3. row' = [row EXCEPT ![o] = IF copy[o][n] = "OK" THEN "DONE" ELSE "REFUSED"]
    BY <1>3 DEF DirectAnswer
  <2>4. AnswersPlaced' /\ DoneIsApplied'
    BY <1>3, <2>1, <2>3
       DEF DirectAnswer, OutboxTypeOK, AnswersPlaced, DoneIsApplied, ReceiptsCount, server, Sender
  <2> QED
    BY <1>3, <2>2, <2>3, <2>4 DEF DirectAnswer, OutboxTypeOK, Row, server, Sender
<1>4. ASSUME NEW p \in Replayer, BeginReplay(p) PROVE OutboxInv'
  BY <1>4 DEF BeginReplay, Pending, OutboxTypeOK, ReceiptsCount, AnswersPlaced, DoneIsApplied, server
<1>5. ASSUME NEW p \in Replayer, NEW o \in Op, NEW n \in Place, Replay(p, o, n) PROVE OutboxInv'
  <2>1. UNCHANGED server /\ copy' = [copy EXCEPT ![o][n] = "SENT"]
    BY <1>5 DEF Replay, Send
  <2>2. ReceiptsCount' /\ copy' \in [Op -> [Place -> Copy]]
    BY <2>1, CopyOnly DEF Copy
  <2>3. /\ row' \in [Op -> Row]
        /\ \A q \in Op : /\ row[q] = "DIRECT" => row'[q] = "DIRECT"
                         /\ row'[q] = "DONE" => row[q] = "DONE"
    BY <1>5 DEF Replay, OutboxTypeOK, Row, Stored
  <2>4. call' = [call EXCEPT ![p] = n] /\ sending' = [sending EXCEPT ![p] = {o}]
    BY <1>5 DEF Replay, Send
  <2>6. /\ todo' = [todo EXCEPT ![p] = @ \ {o}] /\ o \in todo[p]
        /\ \A q \in Op : row[q] \notin {"NONE", "DIRECT"} => row'[q] \notin {"NONE", "DIRECT"}
    BY <1>5 DEF Replay, OutboxTypeOK, Stored
  <2>5. AnswersPlaced' /\ DoneIsApplied'
    BY <2>1, <2>3, <2>4, <2>6 DEF OutboxTypeOK, AnswersPlaced, DoneIsApplied, server, Sender, Place
  <2> QED
    BY <1>5, <2>1, <2>2, <2>3, <2>4, <2>5 DEF Replay, OutboxTypeOK, server, Sender, Place
<1>6. ASSUME NEW p \in Replayer, NEW o \in Op, ReplayAnswer(p, o) \/ GiveUp(p, o)
      PROVE  OutboxInv'
  <2> DEFINE answer == IF ReplayAnswer(p, o) THEN copy[o][call[p]] ELSE "ERROR"
  <2>1. call[p] \in Place
    BY <1>6 DEF ReplayAnswer, GiveUp, AnswersPlaced
  <2>2. ReceiptsCount' /\ copy' \in [Op -> [Place -> Copy]]
    <3>1. CASE ReplayAnswer(p, o)
      BY <3>1, <2>1, CopyOnly DEF ReplayAnswer, Copy
    <3>2. CASE GiveUp(p, o)
      BY <3>2 DEF GiveUp, ReceiptsCount, OutboxTypeOK, server
    <3> QED
      BY <1>6, <3>1, <3>2
  <2>3. row' = [row EXCEPT ![o] = Settled(o, answer)]
    BY <1>6 DEF ReplayAnswer, GiveUp
  <2>4. answer = "OK" => receipt[o]
    BY <2>1 DEF ReceiptsCount
  <2>5. /\ UNCHANGED <<todo, server, kills>>
        /\ call' = [call EXCEPT ![p] = 0]
        /\ sending' = [sending EXCEPT ![p] = {}]
    BY <1>6 DEF ReplayAnswer, GiveUp
  <2>9. row[o] \notin {"NONE", "DIRECT"}
    BY <1>6 DEF ReplayAnswer, GiveUp, AnswersPlaced
  <2>6. /\ row' \in [Op -> Row] /\ DoneIsApplied'
        /\ row'[o] \notin {"NONE", "DIRECT"}
        /\ \A q \in Op : q # o => row'[q] = row[q]
    <3> HIDE DEF answer
    <3> QED
      BY <2>3, <2>4, <2>5, <2>9, SettledRow DEF OutboxTypeOK, DoneIsApplied, server
  <2>7. call[o] = 0
    BY <2>9 DEF AnswersPlaced
  <2> QED
    BY <2>1, <2>2, <2>5, <2>6, <2>7 DEF OutboxTypeOK, AnswersPlaced, server, Sender
<1>7. CASE Kill
  BY <1>7 DEF Kill, OutboxTypeOK, Row, ReceiptsCount, AnswersPlaced, DoneIsApplied, server, Sender
<1> QED
  BY <1>1, <1>2, <1>3, <1>4, <1>5, <1>6, <1>7 DEF PhoneNext

-----------------------------------------------------------------------------
(* What the steps of the network and the server preserve. *)
LEMMA ServerKeeps == ASSUME OutboxInv, ServerNext PROVE OutboxInv'
<1> USE OfflineAssumption DEF OutboxInv
<1>1. PICK o \in Op, n \in Place :
         \/ Vanish(o, n) \/ BeginCommand(o, n) \/ CommitCommand(o, n)
         \/ \E answer \in Answer : AbortCommand(o, n, answer)
  BY DEF ServerNext
<1>2. /\ UNCHANGED <<row, todo, sending, call, kills>>
      /\ \A q \in Op : receipt[q] => receipt'[q]
  BY <1>1 DEF Vanish, BeginCommand, CommitCommand, AbortCommand, memory, server, OutboxTypeOK
<1>3. AnswersPlaced' /\ DoneIsApplied'
  BY <1>2 DEF AnswersPlaced, DoneIsApplied
<1>4. ASSUME UNCHANGED server, copy' \in [Op -> [Place -> Copy]] PROVE OutboxTypeOK'
  BY <1>2, <1>4 DEF OutboxTypeOK, server
<1>5. CASE Vanish(o, n) \/ \E answer \in Answer : AbortCommand(o, n, answer)
  <2>1. PICK v \in Copy \ {"OK", "RUNNING"} : copy' = [copy EXCEPT ![o][n] = v]
    BY <1>5 DEF Vanish, AbortCommand, Answer, Copy
  <2>2. UNCHANGED server
    BY <1>5 DEF Vanish, AbortCommand
  <2> QED
    BY <2>1, <2>2, CopyOnly, <1>3, <1>4
<1>6. CASE BeginCommand(o, n)
  <2> DEFINE v == IF receipt[o] THEN "OK" ELSE "RUNNING"
  <2>1. /\ copy' \in [Op -> [Place -> Copy]]
        /\ \A q \in Op, m \in Place :
              copy'[q][m] = IF q = o /\ m = n THEN v ELSE copy[q][m]
    <3>1. v \in Copy /\ copy' = [copy EXCEPT ![o][n] = v]
      BY <1>6 DEF BeginCommand, Copy
    <3> HIDE DEF v
    <3> QED
      BY <3>1 DEF OutboxTypeOK
  <2>2. UNCHANGED server /\ \A m \in Place : copy[o][m] # "RUNNING"
    BY <1>6 DEF BeginCommand
  <2>3. ReceiptsCount'
    BY <2>1, <2>2 DEF ReceiptsCount, server
  <2> QED
    BY <2>1, <2>2, <2>3, <1>3, <1>4
<1>7. CASE CommitCommand(o, n)
  <2>1. /\ copy' \in [Op -> [Place -> Copy]]
        /\ \A q \in Op, m \in Place :
              copy'[q][m] = IF q = o /\ m = n THEN "OK" ELSE copy[q][m]
    <3>1. "OK" \in Copy /\ copy' = [copy EXCEPT ![o][n] = "OK"]
      BY <1>7 DEF CommitCommand, Copy
    <3> QED
      BY <3>1 DEF OutboxTypeOK
  <2>2. /\ receipt' = [receipt EXCEPT ![o] = TRUE]
        /\ effects' = [effects EXCEPT ![o] = @ + 1]
        /\ copy[o][n] = "RUNNING"
    BY <1>7 DEF CommitCommand
  <2>3. effects[o] = 0
    BY <2>2 DEF ReceiptsCount
  <2>4. ReceiptsCount'
    BY <2>1, <2>2, <2>3 DEF ReceiptsCount, OutboxTypeOK
  <2>5. OutboxTypeOK'
    BY <2>1, <2>2, <2>3, <1>2 DEF OutboxTypeOK
  <2> QED
    BY <2>4, <2>5, <1>3
<1> QED
  BY <1>1, <1>5, <1>6, <1>7

(* The inductive invariant holds throughout. *)
THEOREM OutboxInductive == OutboxSpec => []OutboxInv
<1>1. OutboxInv /\ [OutboxNext]_outboxVars => OutboxInv'
  <2>1. OutboxInv /\ UNCHANGED outboxVars => OutboxInv'
    BY DEF OutboxInv, OutboxTypeOK, ReceiptsCount, AnswersPlaced, DoneIsApplied, outboxVars, Settled
  <2> QED
    BY <2>1, PhoneKeeps, ServerKeeps DEF OutboxNext
<1> QED
  BY <1>1, OutboxStart, PTL DEF OutboxSpec

(* Rows, copies, receipts and counts keep their types; in particular no     *)
(* command is ever counted beyond the bound.                                *)
THEOREM OutboxTyped == OutboxSpec => []OutboxTypeOK
<1>1. OutboxInv => OutboxTypeOK
  BY DEF OutboxInv
<1> QED
  BY <1>1, OutboxInductive, PTL

-----------------------------------------------------------------------------
(* What the issuer sees of o after a step: what was done stays done, and a  *)
(* command is done only if it was applied.                                  *)
LEMMA DoneStays ==
    ASSUME OutboxInv, OutboxInv', [OutboxNext]_outboxVars, NEW o \in Op
    PROVE  row[o] = "DONE" => row'[o] = "DONE"
<1> USE DEF OutboxInv
<1>1. ASSUME NEW q \in Op, Enqueue(q) \/ FallBack(q) \/ DirectAnswer(q), row[o] = "DONE"
      PROVE  row'[o] = "DONE"
  <2>1. row[q] # "DONE"
    BY <1>1 DEF Enqueue, FallBack, DirectAnswer, AnswersPlaced
  <2> QED
    BY <1>1, <2>1 DEF Enqueue, FallBack, DirectAnswer, OutboxTypeOK
<1>2. ASSUME NEW q \in Op, NEW n \in Place, SendDirectly(q, n), row[o] = "DONE"
      PROVE  row'[o] = "DONE"
  BY <1>2 DEF SendDirectly, OutboxTypeOK
<1>3. ASSUME NEW p \in Replayer, NEW q \in Op, NEW n \in Place, Replay(p, q, n),
             row[o] = "DONE"
      PROVE  row'[o] = "DONE"
  BY <1>3 DEF Replay, OutboxTypeOK, Stored
<1>4. ASSUME NEW p \in Replayer, NEW q \in Op, ReplayAnswer(p, q) \/ GiveUp(p, q),
             row[o] = "DONE"
      PROVE  row'[o] = "DONE"
  <2>1. \A answer : row[q] = "DONE" => Settled(q, answer) = "DONE"
    BY DEF Settled, Stored
  <2> QED
    BY <1>4, <2>1 DEF ReplayAnswer, GiveUp, OutboxTypeOK
<1>5. Kill \/ (\E p \in Replayer : BeginReplay(p)) \/ ServerNext \/ UNCHANGED outboxVars
        => (row[o] = "DONE" => row'[o] = "DONE")
  BY DEF Kill, BeginReplay, ServerNext, Vanish, BeginCommand, CommitCommand, AbortCommand, outboxVars
<1> QED
  BY <1>1, <1>2, <1>3, <1>4, <1>5 DEF OutboxNext, PhoneNext

(* A step of the phone or the network tells the issuer of one command, or   *)
(* of none, and applies nothing.                                            *)
LEMMA OneIsTold ==
    ASSUME OutboxInv, PhoneNext
    PROVE  /\ effects' = effects
           /\ \/ Told' = Told
              \/ \E o \in Op, news \in {"WAITING", "CONFLICT", "DONE"} :
                    Told' = [Told EXCEPT ![o] = news]
<1> USE DEF OutboxInv
<1> DEFINE News(o) == IF row'[o] = "DONE" THEN "DONE"
                      ELSE IF row'[o] = "CONFLICT" THEN "CONFLICT" ELSE "WAITING"
<1>1. ASSUME NEW o \in Op, \A q \in Op \ {o} : row'[q] = row[q]
      PROVE  Told' = [Told EXCEPT ![o] = News(o)]
  BY <1>1 DEF Told
<1>2. \A o \in Op : News(o) \in {"WAITING", "CONFLICT", "DONE"}
  OBVIOUS
<1>3. CASE Kill
  BY <1>3 DEF Kill, Told, server
<1>4. ASSUME NEW p \in Replayer, BeginReplay(p)
      PROVE  Told' = Told /\ effects' = effects
  BY <1>4 DEF BeginReplay, Told, server
<1>5. CASE ~Kill /\ ~\E p \in Replayer : BeginReplay(p)
  <2>1. /\ effects' = effects
        /\ \E o \in Op : \A q \in Op \ {o} : row'[q] = row[q]
    BY <1>5 DEF PhoneNext, Enqueue, FallBack, DirectAnswer, SendDirectly, ReplayAnswer, GiveUp,
       Replay, OutboxTypeOK, server
  <2> QED
    BY <1>1, <1>2, <2>1
<1> QED
  BY <1>3, <1>4, <1>5

(* The outbox, its retries and the receipts implement the promise: a        *)
(* command takes effect at most once, and one reported as done has.         *)
THEOREM PromiseIsKept == OutboxSpec => KeepsPromise
<1>1. OutboxInit => Promise!Init
  BY DEF OutboxInit, Promise!Init, Told
<1>2. ASSUME OutboxInv, OutboxInv', [OutboxNext]_outboxVars
      PROVE  [Promise!Next]_<<effects, Told>>
  <2>1. CASE PhoneNext
    <3>1. effects' = effects
      BY <2>1, <1>2, OneIsTold
    <3>2. ASSUME NEW o \in Op, NEW news \in {"WAITING", "CONFLICT", "DONE"},
                 Told' = [Told EXCEPT ![o] = news], Told' # Told
          PROVE  Promise!Tell(o, news)
      <4>1. Told[o] # "DONE"
        <5>1. Told[o] = "DONE" => Told'[o] = "DONE"
          BY <1>2, DoneStays DEF Told
        <5> QED
          BY <3>2, <5>1 DEF Told
      <4>2. news = "DONE" => effects[o] = 1
        <5>1. Told'[o] = news
          BY <3>2 DEF Told
        <5>2. news = "DONE" => row'[o] = "DONE"
          BY <5>1 DEF Told
        <5>3. row'[o] = "DONE" => effects'[o] = 1
          BY <1>2 DEF OutboxInv, DoneIsApplied, ReceiptsCount
        <5> QED
          BY <3>1, <5>2, <5>3
      <4> QED
        BY <3>1, <3>2, <4>1, <4>2 DEF Promise!Tell
    <3> QED
      BY <1>2, <2>1, <3>1, <3>2, OneIsTold DEF Promise!Next
  <2>2. ASSUME NEW o \in Op, NEW n \in Place, CommitCommand(o, n)
        PROVE  Promise!TakeEffect(o)
    <3>1. effects[o] = 0 /\ UNCHANGED row
      BY <1>2, <2>2 DEF CommitCommand, OutboxInv, ReceiptsCount
    <3> QED
      BY <2>2, <3>1 DEF CommitCommand, Promise!TakeEffect, OutboxInv, OutboxTypeOK, Told
  <2>3. ASSUME NEW o \in Op, NEW n \in Place,
               Vanish(o, n) \/ BeginCommand(o, n) \/ \E a \in Answer : AbortCommand(o, n, a)
        PROVE  UNCHANGED <<effects, Told>>
    BY <2>3 DEF Vanish, BeginCommand, AbortCommand, server, Told
  <2>4. UNCHANGED outboxVars => UNCHANGED <<effects, Told>>
    BY DEF outboxVars, Told
  <2> QED
    BY <1>2, <2>1, <2>2, <2>3, <2>4 DEF OutboxNext, ServerNext, Promise!Next
<1> QED
  BY <1>1, <1>2, OutboxInductive, PTL DEF OutboxSpec, KeepsPromise, Promise!Spec
=============================================================================
