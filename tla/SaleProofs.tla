---------------------------- MODULE SaleProofs -----------------------------
(* Proofs about the parts of a sale that are not the ledger: registration    *)
(* cases, the lists with their pages and figures, the file of a booking and  *)
(* the exports of reports.                                                   *)
EXTENDS Registration, BookingFile, Reports, FiniteSetTheorems, SequenceTheorems,
        WellFoundedInduction, TLAPS

-----------------------------------------------------------------------------
(* Registration, for every set of cases, copies and requests.                *)
(* A copy waits for its upload until it is scanned, and its case is there.   *)
CopiesPlaced ==
    /\ \A d \in Copy : copies[d] # NoCopy =>
           /\ copies[d].status = "PENDING_UPLOAD" <=> copies[d].scan = "NONE"
           /\ cases[copies[d].of] # NoCase
    /\ \A d \in handed : copies[d] # NoCopy

(* The document a completion read is the one it writes, if its case still    *)
(* has the version the client named.                                         *)
CompletionPlaced(t) ==
    /\ copies[t.copy] # NoCopy
    /\ copies[t.copy].of = t.seen.of
    /\ t.expected <= cases[t.seen.of].version
    /\ t.seen.status = "PENDING_UPLOAD" /\ t.expected = cases[t.seen.of].version
           => copies[t.copy] = t.seen

(* A result of the scanner that a review read is never replaced.             *)
ReviewPlaced(t) ==
    /\ copies[t.copy] # NoCopy
    /\ t.seen.status = "PENDING_UPLOAD" <=> t.seen.scan = "NONE"
    /\ t.seen.scan # "NONE" => copies[t.copy].scan = t.seen.scan

ClerksPlaced ==
    \A s \in Clerk :
        /\ clerks[s].step = "COMPLETING" => CompletionPlaced(clerks[s])
        /\ clerks[s].step = "REVIEWING" => ReviewPlaced(clerks[s])

RegistrationInv == RegistrationTypeOK /\ CopiesPlaced /\ CopiesHandedAreClean /\ ClerksPlaced

LEMMA RegistrationStart == ASSUME RegistrationInit PROVE RegistrationInv
BY DEF RegistrationInit, RegistrationInv, RegistrationTypeOK, CopiesPlaced, CopiesHandedAreClean,
       ClerksPlaced, ClerkTask, NoCopy

-----------------------------------------------------------------------------
(* The rows of cases when one command moves one of them on. *)
LEMMA MovedCase ==
    ASSUME RegistrationTypeOK, NEW c \in Case, NEW allowed \in SUBSET CaseStatus, NEW row,
           cases[c] \in CaseRow => row \in CaseRow,
           CaseMoves(c, allowed, row)
    PROVE  /\ cases[c] \in CaseRow
           /\ cases' \in [Case -> CaseRow \cup {NoCase}]
           /\ cases'[c] # NoCase
           /\ cases'[c].version = cases[c].version + 1
           /\ \A o \in Case \ {c} : cases'[o] = cases[o]
<1>1. cases[c] \in CaseRow
  BY DEF RegistrationTypeOK, CaseMoves, NoCase, CaseStatus
<1> DEFINE moved == [row EXCEPT !.version = cases[c].version + 1]
<1>2. moved \in CaseRow /\ moved.version = cases[c].version + 1
  BY <1>1, RegistrationAssumption DEF CaseMoves, CaseRow
<1>3. cases' = [cases EXCEPT ![c] = moved]
  BY DEF CaseMoves
<1>4. moved # NoCase
  BY <1>2 DEF CaseRow, NoCase, CaseStatus
<1> HIDE DEF moved
<1> QED
  BY <1>1, <1>2, <1>3, <1>4 DEF RegistrationTypeOK

(* A case that moves on disturbs nothing else. *)
LEMMA QuietCases ==
    ASSUME RegistrationInv,
           cases' \in [Case -> CaseRow \cup {NoCase}],
           \A c \in Case : cases[c] # NoCase =>
               cases'[c] # NoCase /\ cases'[c].version >= cases[c].version,
           cars' \in [Case \cup ExternalCar -> CarRow \cup {NoCar}],
           delivered' \subseteq Case,
           UNCHANGED <<copies, handed, clerks>>
    PROVE  RegistrationInv'
<1> USE DEF RegistrationInv
<1>1. RegistrationTypeOK'
  BY DEF RegistrationTypeOK
<1>2. CopiesPlaced'
  <2>1. ASSUME NEW d \in Copy, copies[d] # NoCopy
        PROVE  cases'[copies[d].of] # NoCase
    BY <2>1 DEF CopiesPlaced, RegistrationTypeOK, CopyRow
  <2> QED
    BY <2>1 DEF CopiesPlaced
<1>3. CopiesHandedAreClean'
  BY DEF CopiesHandedAreClean
<1>4. ClerksPlaced'
  <2> SUFFICES ASSUME NEW s \in Clerk
               PROVE  /\ clerks[s].step = "COMPLETING" => CompletionPlaced(clerks[s])'
                      /\ clerks[s].step = "REVIEWING" => ReviewPlaced(clerks[s])'
    BY DEF ClerksPlaced, CompletionPlaced, ReviewPlaced
  <2> DEFINE t == clerks[s]
  <2>1. ASSUME t.step = "COMPLETING"
        PROVE  CompletionPlaced(t)'
    <3>1. CompletionPlaced(t)
      BY <2>1 DEF ClerksPlaced
    <3>2. /\ t.copy \in Copy /\ t.seen.of \in Case /\ t.expected \in Nat
          /\ copies[t.copy] # NoCopy /\ copies[t.copy].of = t.seen.of
      BY <2>1, <3>1 DEF RegistrationTypeOK, ClerkTask, CopyRow, CompletionPlaced
    <3>3. cases[t.seen.of] # NoCase
      BY <3>2 DEF CopiesPlaced
    <3>4. /\ cases[t.seen.of].version \in Nat /\ cases'[t.seen.of].version \in Nat
          /\ cases'[t.seen.of].version >= cases[t.seen.of].version
      BY <3>2, <3>3 DEF RegistrationTypeOK, CaseRow
    <3> QED
      BY <3>1, <3>2, <3>4 DEF CompletionPlaced
  <2>2. ASSUME t.step = "REVIEWING"
        PROVE  ReviewPlaced(t)'
    BY <2>2 DEF ClerksPlaced, ReviewPlaced
  <2> QED
    BY <2>1, <2>2
<1> QED
  BY <1>1, <1>2, <1>3, <1>4

(* Commands that move the case, and of the vehicle at most its row. *)
LEMMA QuietMove ==
    ASSUME RegistrationInv, NEW c \in Case, NEW allowed \in SUBSET CaseStatus, NEW row,
           cases[c] \in CaseRow => row \in CaseRow,
           CaseMoves(c, allowed, row),
           cars' \in [Case \cup ExternalCar -> CarRow \cup {NoCar}],
           UNCHANGED <<copies, handed, delivered, clerks>>
    PROVE  RegistrationInv'
<1>1. /\ cases[c] \in CaseRow
      /\ cases' \in [Case -> CaseRow \cup {NoCase}]
      /\ cases'[c] # NoCase
      /\ cases'[c].version = cases[c].version + 1
      /\ \A o \in Case \ {c} : cases'[o] = cases[o]
  BY MovedCase DEF RegistrationInv
<1>2. \A o \in Case : cases[o] # NoCase =>
          cases'[o] # NoCase /\ cases'[o].version >= cases[o].version
  <2> SUFFICES ASSUME NEW o \in Case, cases[o] # NoCase
               PROVE  cases'[o] # NoCase /\ cases'[o].version >= cases[o].version
    OBVIOUS
  <2>1. cases[o] \in CaseRow
    BY DEF RegistrationInv, RegistrationTypeOK
  <2>2. cases[o].version \in Nat
    BY <2>1 DEF CaseRow
  <2> QED
    BY <1>1, <2>2
<1> QED
  BY <1>1, <1>2, QuietCases DEF RegistrationInv, RegistrationTypeOK

LEMMA QuietTurn ==
    ASSUME RegistrationInv, NEW c \in Case, NEW allowed \in SUBSET CaseStatus,
           NEW status, cases[c] \in CaseRow => status \in CaseStatus,
           CaseTurns(c, allowed, status)
    PROVE  RegistrationInv'
<1>1. cases[c] \in CaseRow => [cases[c] EXCEPT !.status = status] \in CaseRow
  BY DEF CaseRow
<1>2. /\ CaseMoves(c, allowed, [cases[c] EXCEPT !.status = status])
      /\ cars' \in [Case \cup ExternalCar -> CarRow \cup {NoCar}]
      /\ UNCHANGED <<copies, handed, delivered, clerks>>
  BY DEF CaseTurns, RegistrationInv, RegistrationTypeOK
<1> HIDE DEF CaseMoves
<1> QED
  BY <1>1, <1>2, QuietMove

(* Nothing but cars and deliveries changes. *)
LEMMA QuietCars ==
    ASSUME RegistrationInv,
           cars' \in [Case \cup ExternalCar -> CarRow \cup {NoCar}],
           delivered' \subseteq Case,
           UNCHANGED <<cases, copies, handed, clerks>>
    PROVE  RegistrationInv'
<1>1. /\ cases' \in [Case -> CaseRow \cup {NoCase}]
      /\ \A c \in Case : cases[c] # NoCase =>
             cases'[c] # NoCase /\ cases'[c].version >= cases[c].version
  <2>1. \A c \in Case : cases[c] # NoCase => cases[c].version \in Nat
    BY DEF RegistrationInv, RegistrationTypeOK, CaseRow
  <2> QED
    BY <2>1 DEF RegistrationInv, RegistrationTypeOK
<1> QED
  BY <1>1, QuietCases

-----------------------------------------------------------------------------
(* A request reads, or puts aside what it read; the rows of cases and copies *)
(* stay.                                                                     *)
LEMMA QuietClerk ==
    ASSUME RegistrationInv, NEW s \in Clerk, NEW t \in ClerkTask,
           Clerks(s, t),
           t.step = "COMPLETING" => CompletionPlaced(t),
           t.step = "REVIEWING" => ReviewPlaced(t),
           cars' \in [Case \cup ExternalCar -> CarRow \cup {NoCar}],
           UNCHANGED <<cases, copies, handed, delivered>>
    PROVE  RegistrationInv'
<1> USE DEF RegistrationInv
<1>1. /\ clerks' \in [Clerk -> ClerkTask] /\ clerks'[s] = t
      /\ \A o \in Clerk \ {s} : clerks'[o] = clerks[o]
  BY DEF Clerks, RegistrationTypeOK
<1>2. RegistrationTypeOK'
  BY <1>1 DEF RegistrationTypeOK
<1>3. CopiesPlaced' /\ CopiesHandedAreClean'
  BY DEF CopiesPlaced, CopiesHandedAreClean
<1>4. ClerksPlaced'
  <2> SUFFICES ASSUME NEW o \in Clerk
               PROVE  /\ clerks'[o].step = "COMPLETING" => CompletionPlaced(clerks[o])'
                      /\ clerks'[o].step = "REVIEWING" => ReviewPlaced(clerks[o])'
    BY DEF ClerksPlaced, CompletionPlaced, ReviewPlaced
  <2>1. CASE o = s
    BY <1>1, <2>1 DEF CompletionPlaced, ReviewPlaced
  <2>2. CASE o # s
    BY <1>1, <2>2 DEF ClerksPlaced, CompletionPlaced, ReviewPlaced
  <2> QED
    BY <2>1, <2>2
<1> QED
  BY <1>2, <1>3, <1>4

LEMMA BeginCompletionKeeps ==
    ASSUME RegistrationInv, NEW s \in Clerk, NEW d \in Copy, BeginCompletion(s, d)
    PROVE  RegistrationInv'
<1> DEFINE t == [step |-> "COMPLETING", copy |-> d, seen |-> copies[d],
                 expected |-> cases[copies[d].of].version]
<1>1. copies[d] \in CopyRow /\ copies[d].of \in Case
  BY DEF BeginCompletion, RegistrationInv, RegistrationTypeOK, CopyRow
<1>2. cases[copies[d].of] \in CaseRow
  BY <1>1 DEF BeginCompletion, RegistrationInv, CopiesPlaced, RegistrationTypeOK
<1>3. cases[copies[d].of].version \in 1..MaxCaseVersion
  BY <1>2 DEF CaseRow
<1>4. t \in ClerkTask
  BY <1>1, <1>3 DEF ClerkTask
<1>5. CompletionPlaced(t) /\ t.step = "COMPLETING"
  BY <1>3, RegistrationAssumption DEF BeginCompletion, CompletionPlaced
<1>6. /\ Clerks(s, t) /\ UNCHANGED <<cases, copies, handed, delivered>>
      /\ cars' \in [Case \cup ExternalCar -> CarRow \cup {NoCar}]
  BY DEF BeginCompletion, caseRows, RegistrationInv, RegistrationTypeOK
<1> HIDE DEF t
<1> QED
  BY <1>4, <1>5, <1>6, QuietClerk

LEMMA BeginReviewCopyKeeps ==
    ASSUME RegistrationInv, NEW s \in Clerk, NEW d \in Copy, BeginReviewCopy(s, d)
    PROVE  RegistrationInv'
<1> DEFINE t == [step |-> "REVIEWING", copy |-> d, seen |-> copies[d]]
<1>1. copies[d] \in CopyRow
  BY DEF BeginReviewCopy, RegistrationInv, RegistrationTypeOK
<1>2. t \in ClerkTask
  BY <1>1 DEF ClerkTask
<1>3. ReviewPlaced(t) /\ t.step = "REVIEWING"
  BY DEF BeginReviewCopy, RegistrationInv, CopiesPlaced, ReviewPlaced
<1>4. /\ Clerks(s, t) /\ UNCHANGED <<cases, copies, handed, delivered>>
      /\ cars' \in [Case \cup ExternalCar -> CarRow \cup {NoCar}]
  BY DEF BeginReviewCopy, caseRows, RegistrationInv, RegistrationTypeOK
<1> HIDE DEF t
<1> QED
  BY <1>2, <1>3, <1>4, QuietClerk

(* A request that ends without a document: refused, or a vehicle's. *)
LEMMA IdleKeeps ==
    ASSUME RegistrationInv, NEW s \in Clerk, Idles(s),
           cars' \in [Case \cup ExternalCar -> CarRow \cup {NoCar}],
           UNCHANGED <<cases, copies, handed, delivered>>
    PROVE  RegistrationInv'
<1> DEFINE t == [step |-> "IDLE"]
<1>1. t \in ClerkTask /\ t.step = "IDLE" /\ Clerks(s, t)
  BY DEF ClerkTask, Idles
<1> HIDE DEF t
<1> QED
  BY <1>1, QuietClerk

LEMMA VehicleKeeps ==
    ASSUME RegistrationInv, NEW s \in Clerk,
           \/ \E c \in Case : BeginVehicle(s, c)
           \/ createDealershipVehicle(s)
           \/ Refused(s)
    PROVE  RegistrationInv'
<1>1. CASE \E c \in Case : BeginVehicle(s, c)
  <2>1. PICK c \in Case : BeginVehicle(s, c)
    BY <1>1
  <2> DEFINE number == IF cases[c] = NoCase THEN "NONE" ELSE cases[c].number
             t == [step |-> "HANDOVER", of |-> c, number |-> number]
  <2>2. number \in Number
    BY DEF RegistrationInv, RegistrationTypeOK, CaseRow, Number
  <2>3. /\ Clerks(s, t) /\ UNCHANGED <<cases, copies, handed, delivered>>
        /\ cars' \in [Case \cup ExternalCar -> CarRow \cup {NoCar}]
    BY <2>1 DEF BeginVehicle, caseRows, RegistrationInv, RegistrationTypeOK
  <2> HIDE DEF number
  <2>4. t \in ClerkTask /\ t.step = "HANDOVER"
    BY <2>2 DEF ClerkTask
  <2> HIDE DEF t
  <2> QED
    BY <2>3, <2>4, QuietClerk
<1>2. CASE createDealershipVehicle(s)
  <2> DEFINE row == [number |-> clerks[s].number, version |-> 1]
  <2>1. clerks[s].of \in Case /\ row \in CarRow
    BY <1>2, RegistrationAssumption
    DEF createDealershipVehicle, Does, RegistrationInv, RegistrationTypeOK, ClerkTask, CarRow
  <2>2. cars' = [cars EXCEPT ![clerks[s].of] = row]
    BY <1>2 DEF createDealershipVehicle
  <2> HIDE DEF row
  <2>3. cars' \in [Case \cup ExternalCar -> CarRow \cup {NoCar}]
    BY <2>1, <2>2 DEF RegistrationInv, RegistrationTypeOK
  <2> QED
    BY <1>2, <2>3, IdleKeeps DEF createDealershipVehicle
<1>3. CASE Refused(s)
  BY <1>3, IdleKeeps DEF Refused, caseRows, RegistrationInv, RegistrationTypeOK
<1> QED
  BY <1>1, <1>2, <1>3

-----------------------------------------------------------------------------
(* A new copy of a case that receives them; nobody has read it. *)
LEMMA InitiateKeeps ==
    ASSUME RegistrationInv, NEW c \in Case, NEW d \in Copy, initiateRcUpload(c, d)
    PROVE  RegistrationInv'
<1> USE DEF RegistrationInv
<1> DEFINE new == [status |-> "PENDING_UPLOAD", scan |-> "NONE", of |-> c]
<1>1. /\ copies[d] = NoCopy /\ copies' = [copies EXCEPT ![d] = new]
      /\ cases[c] # NoCase
      /\ UNCHANGED <<cases, handed, cars, delivered, clerks>>
  BY DEF initiateRcUpload, Receiving, NoCase
<1>2. new \in CopyRow /\ new.of = c
      /\ new.status = "PENDING_UPLOAD" /\ new.scan = "NONE" /\ new # NoCopy
  BY DEF CopyRow, NoCopy
<1> HIDE DEF new
<1>3. /\ copies' \in [Copy -> CopyRow \cup {NoCopy}] /\ copies'[d] = new
      /\ \A o \in Copy \ {d} : copies'[o] = copies[o]
  BY <1>1, <1>2 DEF RegistrationTypeOK
<1>4. RegistrationTypeOK'
  BY <1>1, <1>3 DEF RegistrationTypeOK
<1>5. CopiesPlaced'
  BY <1>1, <1>2, <1>3 DEF CopiesPlaced, RegistrationTypeOK
<1>6. CopiesHandedAreClean'
  <2> SUFFICES ASSUME NEW o \in Copy, o \in handed \/ copies'[o].status = "VERIFIED"
               PROVE  copies'[o].scan = "CLEAN"
    BY <1>1 DEF CopiesHandedAreClean
  <2>1. o # d
    BY <1>1, <1>2, <1>3 DEF CopiesPlaced
  <2> QED
    BY <1>3, <2>1 DEF CopiesHandedAreClean
<1>7. ClerksPlaced'
  <2> SUFFICES ASSUME NEW s \in Clerk
               PROVE  /\ clerks[s].step = "COMPLETING" => CompletionPlaced(clerks[s])'
                      /\ clerks[s].step = "REVIEWING" => ReviewPlaced(clerks[s])'
    BY <1>1 DEF ClerksPlaced, CompletionPlaced, ReviewPlaced
  <2>1. ASSUME clerks[s].step \in {"COMPLETING", "REVIEWING"}
        PROVE  clerks[s].copy \in Copy /\ clerks[s].copy # d
    BY <1>1, <2>1 DEF ClerksPlaced, CompletionPlaced, ReviewPlaced, RegistrationTypeOK, ClerkTask
  <2>2. ASSUME clerks[s].step = "COMPLETING" PROVE CompletionPlaced(clerks[s])'
    BY <1>1, <1>3, <2>1, <2>2 DEF ClerksPlaced, CompletionPlaced
  <2>3. ASSUME clerks[s].step = "REVIEWING" PROVE ReviewPlaced(clerks[s])'
    BY <1>1, <1>3, <2>1, <2>3 DEF ClerksPlaced, ReviewPlaced
  <2> QED
    BY <2>2, <2>3
<1> QED
  BY <1>4, <1>5, <1>6, <1>7

(* The version the client named is the case's, so the document is still the  *)
(* one that was read; every other completion of the case is now too late.    *)
LEMMA CompleteKeeps ==
    ASSUME RegistrationInv, NEW s \in Clerk, NEW scan \in ScanResult, completeRcUpload(s, scan)
    PROVE  RegistrationInv'
<1> USE DEF RegistrationInv
<1> DEFINE t == clerks[s]
           c == clerks[s].seen.of
           d == clerks[s].copy
           row == Scanned(copies[d], scan)
           moved == [cases[c] EXCEPT !.status = "RC_RECEIVED"]
           idle == [step |-> "IDLE"]
<1>1. /\ t.step = "COMPLETING" /\ Expected(c, t.expected)
      /\ t.seen.status = "PENDING_UPLOAD"
      /\ copies' = [copies EXCEPT ![d] = row]
      /\ CaseMoves(c, Receiving, moved)
      /\ clerks' = [clerks EXCEPT ![s] = idle]
      /\ UNCHANGED <<handed, cars, delivered>>
  BY DEF completeRcUpload, Does, Idles, Clerks
<1>2. /\ d \in Copy /\ c \in Case /\ t.seen \in CopyRow
      /\ t.expected \in Nat
  BY <1>1 DEF RegistrationTypeOK, ClerkTask, CopyRow
<1>3. /\ copies[d] = t.seen /\ copies[d] # NoCopy
      /\ t.expected = cases[c].version
  BY <1>1 DEF ClerksPlaced, CompletionPlaced, Expected
<1>4. copies[d].scan = "NONE" /\ copies[d].of = c /\ copies[d].status = "PENDING_UPLOAD"
  BY <1>1, <1>2, <1>3 DEF CopiesPlaced
<1>6. /\ row \in CopyRow /\ row.scan = scan /\ row.of = c /\ scan # "NONE"
      /\ row.status \in {"REJECTED", "PENDING_SCAN"} /\ row # NoCopy
  BY <1>2, <1>4 DEF Scanned, CopyRow, ScanResult, NoCopy
<1>5. copies' = [copies EXCEPT ![d] = row]
  BY <1>1
<1>7. cases[c] \in CaseRow => moved \in CaseRow
  BY DEF CaseRow, CaseStatus
<1>8. Receiving \in SUBSET CaseStatus
  BY DEF Receiving, CaseStatus
<1>m. CaseMoves(c, Receiving, moved)
  BY <1>1
<1> HIDE DEF moved
<1>9. /\ cases[c] \in CaseRow
      /\ cases' \in [Case -> CaseRow \cup {NoCase}]
      /\ cases'[c] # NoCase
      /\ cases'[c].version = cases[c].version + 1
      /\ \A o \in Case \ {c} : cases'[o] = cases[o]
  BY <1>2, <1>7, <1>8, <1>m, MovedCase
<1> HIDE DEF row
<1>10. /\ copies' \in [Copy -> CopyRow \cup {NoCopy}] /\ copies'[d] = row
       /\ \A o \in Copy \ {d} : copies'[o] = copies[o]
  BY <1>2, <1>5, <1>6 DEF RegistrationTypeOK
<1>11. idle \in ClerkTask /\ idle.step = "IDLE"
  BY DEF ClerkTask
<1>i. clerks' = [clerks EXCEPT ![s] = idle]
  BY <1>1
<1> HIDE DEF idle
<1>12. /\ clerks' \in [Clerk -> ClerkTask] /\ clerks'[s].step = "IDLE"
       /\ \A o \in Clerk \ {s} : clerks'[o] = clerks[o]
  BY <1>i, <1>11 DEF RegistrationTypeOK
<1>13. RegistrationTypeOK'
  BY <1>1, <1>9, <1>10, <1>12 DEF RegistrationTypeOK
<1>14. CopiesPlaced'
  <2>1. ASSUME NEW o \in Copy, copies'[o] # NoCopy
        PROVE  /\ copies'[o].status = "PENDING_UPLOAD" <=> copies'[o].scan = "NONE"
               /\ cases'[copies'[o].of] # NoCase
    <3>1. CASE o = d
      BY <1>6, <1>9, <1>10, <3>1
    <3>2. CASE o # d
      <4>1. copies'[o] = copies[o] /\ copies[o].of \in Case /\ cases[copies[o].of] # NoCase
        BY <1>10, <2>1, <3>2 DEF CopiesPlaced, RegistrationTypeOK, CopyRow
      <4>2. cases'[copies[o].of] # NoCase
        BY <1>9, <4>1
      <4> QED
        BY <2>1, <4>1, <4>2 DEF CopiesPlaced
    <3> QED
      BY <3>1, <3>2
  <2>2. \A o \in handed' : copies'[o] # NoCopy
    BY <1>1, <1>6, <1>10 DEF CopiesPlaced, RegistrationTypeOK
  <2> QED
    BY <2>1, <2>2 DEF CopiesPlaced
<1>15. CopiesHandedAreClean'
  <2>1. d \notin handed
    BY <1>2, <1>4 DEF CopiesHandedAreClean
  <2> SUFFICES ASSUME NEW o \in Copy, o \in handed \/ copies'[o].status = "VERIFIED"
               PROVE  copies'[o].scan = "CLEAN"
    BY <1>1 DEF CopiesHandedAreClean
  <2>2. o # d
    BY <1>6, <1>10, <2>1
  <2> QED
    BY <1>10, <2>2 DEF CopiesHandedAreClean
<1>16. ClerksPlaced'
  <2> SUFFICES ASSUME NEW o \in Clerk, o # s
               PROVE  /\ clerks[o].step = "COMPLETING" => (CompletionPlaced(clerks[o]))'
                      /\ clerks[o].step = "REVIEWING" => (ReviewPlaced(clerks[o]))'
    BY <1>12 DEF ClerksPlaced, CompletionPlaced, ReviewPlaced
  <2> DEFINE u == clerks[o]
  <2>0. clerks'[o] = u
    BY <1>12
  <2>1. ASSUME u.step = "COMPLETING" PROVE (CompletionPlaced(clerks[o]))'
    <3>1. CompletionPlaced(u) /\ u.copy \in Copy /\ u.seen.of \in Case /\ u.expected \in Nat
      BY <2>1 DEF ClerksPlaced, RegistrationTypeOK, ClerkTask, CopyRow
    <3>2. CASE u.seen.of = c
      <4>1. u.expected <= cases[c].version /\ cases[c].version \in Nat
        BY <1>9, <3>1, <3>2 DEF CompletionPlaced, CaseRow
      <4>2. u.expected < cases'[c].version
        BY <1>9, <3>1, <4>1
      <4>3. copies'[u.copy] # NoCopy /\ copies'[u.copy].of = u.seen.of
        BY <1>4, <1>6, <1>10, <3>1 DEF CompletionPlaced
      <4> QED
        BY <2>0, <3>1, <3>2, <4>2, <4>3, <1>9 DEF CompletionPlaced, CaseRow
    <3>3. CASE u.seen.of # c
      <4>1. u.copy # d
        BY <1>4, <3>1, <3>3 DEF CompletionPlaced
      <4> QED
        BY <2>0, <1>9, <1>10, <3>1, <3>3, <4>1 DEF CompletionPlaced
    <3> QED
      BY <3>2, <3>3
  <2>2. ASSUME u.step = "REVIEWING" PROVE (ReviewPlaced(clerks[o]))'
    <3>1. ReviewPlaced(u) /\ u.copy \in Copy
      BY <2>2 DEF ClerksPlaced, RegistrationTypeOK, ClerkTask
    <3>2. u.copy = d => u.seen.scan = "NONE"
      BY <1>4, <3>1 DEF ReviewPlaced
    <3> QED
      BY <2>0, <1>6, <1>10, <3>1, <3>2 DEF ReviewPlaced
  <2> QED
    BY <2>1, <2>2
<1> QED
  BY <1>13, <1>14, <1>15, <1>16

(* A review decides on a document that was scanned: its scan stays. *)
LEMMA ReviewKeeps ==
    ASSUME RegistrationInv, NEW s \in Clerk, NEW decision \in {"VERIFIED", "REJECTED"},
           reviewDocument(s, decision)
    PROVE  RegistrationInv'
<1> USE DEF RegistrationInv
<1> DEFINE t == clerks[s]
           d == clerks[s].copy
           row == [copies[d] EXCEPT !.status = decision]
           idle == [step |-> "IDLE"]
<1>1. /\ t.step = "REVIEWING"
      /\ decision = "VERIFIED" => t.seen.scan = "CLEAN"
      /\ t.seen.status \in {"PENDING_SCAN", "REJECTED"}
      /\ copies' = [copies EXCEPT ![d] = row]
      /\ clerks' = [clerks EXCEPT ![s] = idle]
      /\ UNCHANGED <<cases, handed, cars, delivered>>
  BY DEF reviewDocument, Does, Idles, Clerks, Verifiable
<1>2. d \in Copy /\ ReviewPlaced(t)
  BY <1>1 DEF RegistrationTypeOK, ClerkTask, ClerksPlaced
<1>3. /\ copies[d] \in CopyRow /\ copies[d] # NoCopy
      /\ t.seen.scan # "NONE" /\ copies[d].scan = t.seen.scan
  BY <1>1, <1>2 DEF ReviewPlaced, RegistrationTypeOK
<1>4. /\ row \in CopyRow /\ row # NoCopy /\ row.status = decision
      /\ row.scan = copies[d].scan /\ row.of = copies[d].of
  BY <1>3 DEF CopyRow, NoCopy
<1>5. copies' = [copies EXCEPT ![d] = row] /\ clerks' = [clerks EXCEPT ![s] = idle]
  BY <1>1
<1>6. idle \in ClerkTask /\ idle.step = "IDLE"
  BY DEF ClerkTask
<1> HIDE DEF row, idle
<1>7. /\ copies' \in [Copy -> CopyRow \cup {NoCopy}] /\ copies'[d] = row
      /\ \A o \in Copy \ {d} : copies'[o] = copies[o]
  BY <1>2, <1>4, <1>5 DEF RegistrationTypeOK
<1>8. /\ clerks' \in [Clerk -> ClerkTask] /\ clerks'[s].step = "IDLE"
      /\ \A o \in Clerk \ {s} : clerks'[o] = clerks[o]
  BY <1>5, <1>6 DEF RegistrationTypeOK
<1>9. RegistrationTypeOK'
  BY <1>1, <1>7, <1>8 DEF RegistrationTypeOK
<1>10. CopiesPlaced'
  <2>1. ASSUME NEW o \in Copy, copies'[o] # NoCopy
        PROVE  /\ copies'[o].status = "PENDING_UPLOAD" <=> copies'[o].scan = "NONE"
               /\ cases'[copies'[o].of] # NoCase
    <3>1. CASE o = d
      BY <1>1, <1>2, <1>3, <1>4, <1>7, <3>1 DEF CopiesPlaced
    <3>2. CASE o # d
      BY <1>1, <1>7, <2>1, <3>2 DEF CopiesPlaced
    <3> QED
      BY <3>1, <3>2
  <2>2. \A o \in handed' : copies'[o] # NoCopy
    BY <1>1, <1>4, <1>7 DEF CopiesPlaced, RegistrationTypeOK
  <2> QED
    BY <2>1, <2>2 DEF CopiesPlaced
<1>11. CopiesHandedAreClean'
  <2> SUFFICES ASSUME NEW o \in Copy, o \in handed \/ copies'[o].status = "VERIFIED"
               PROVE  copies'[o].scan = "CLEAN"
    BY <1>1 DEF CopiesHandedAreClean
  <2>1. CASE o = d
    BY <1>1, <1>2, <1>3, <1>4, <1>7, <2>1 DEF CopiesHandedAreClean
  <2>2. CASE o # d
    BY <1>7, <2>2 DEF CopiesHandedAreClean
  <2> QED
    BY <2>1, <2>2
<1>12. ClerksPlaced'
  <2> SUFFICES ASSUME NEW o \in Clerk, o # s
               PROVE  /\ clerks[o].step = "COMPLETING" => (CompletionPlaced(clerks[o]))'
                      /\ clerks[o].step = "REVIEWING" => (ReviewPlaced(clerks[o]))'
    BY <1>8 DEF ClerksPlaced, CompletionPlaced, ReviewPlaced
  <2> DEFINE u == clerks[o]
  <2>0. clerks'[o] = u
    BY <1>8
  <2>1. ASSUME u.step = "COMPLETING" PROVE (CompletionPlaced(clerks[o]))'
    <3>1. CompletionPlaced(u) /\ u.copy \in Copy /\ u.seen \in CopyRow
      BY <2>1 DEF ClerksPlaced, RegistrationTypeOK, ClerkTask
    <3>2. CASE u.copy = d
      <4>1. copies[d].status # "PENDING_UPLOAD"
        BY <1>2, <1>3 DEF CopiesPlaced
      <4>2. ~(u.seen.status = "PENDING_UPLOAD" /\ u.expected = cases[u.seen.of].version)
        BY <3>1, <3>2, <4>1 DEF CompletionPlaced
      <4> QED
        BY <1>1, <1>4, <1>7, <2>0, <3>1, <3>2, <4>2 DEF CompletionPlaced
    <3>3. CASE u.copy # d
      BY <1>1, <1>7, <2>0, <3>1, <3>3 DEF CompletionPlaced
    <3> QED
      BY <3>2, <3>3
  <2>2. ASSUME u.step = "REVIEWING" PROVE (ReviewPlaced(clerks[o]))'
    <3>1. ReviewPlaced(u) /\ u.copy \in Copy
      BY <2>2 DEF ClerksPlaced, RegistrationTypeOK, ClerkTask
    <3> QED
      BY <1>4, <1>7, <2>0, <3>1 DEF ReviewPlaced
  <2> QED
    BY <2>1, <2>2
<1> QED
  BY <1>9, <1>10, <1>11, <1>12

(* A copy that is handed over was verified. *)
LEMMA ShareKeeps ==
    ASSUME RegistrationInv, NEW c \in Case, NEW d \in Copy, share(c, d)
    PROVE  RegistrationInv'
<1> DEFINE row == [cases[c] EXCEPT !.status = "RC_SHARED_COLLECTED"]
<1>1. /\ copies[d].status = "VERIFIED" /\ CaseMoves(c, {"RC_RECEIVED"}, row)
      /\ handed' = handed \cup {d}
      /\ UNCHANGED <<copies, cars, delivered, clerks>>
  BY DEF share
<1>2. cases[c] \in CaseRow => row \in CaseRow
  BY DEF CaseRow, CaseStatus
<1>3. {"RC_RECEIVED"} \in SUBSET CaseStatus
  BY DEF CaseStatus
<1>4. CaseMoves(c, {"RC_RECEIVED"}, row)
  BY <1>1
<1> HIDE DEF row
<1>5. /\ cases[c] \in CaseRow
      /\ cases' \in [Case -> CaseRow \cup {NoCase}]
      /\ cases'[c] # NoCase
      /\ cases'[c].version = cases[c].version + 1
      /\ \A o \in Case \ {c} : cases'[o] = cases[o]
  BY <1>2, <1>3, <1>4, MovedCase DEF RegistrationInv
<1>6. ASSUME NEW o \in Case, cases[o] # NoCase
      PROVE  /\ cases'[o] # NoCase
             /\ cases'[o].version \in Nat /\ cases[o].version \in Nat
             /\ cases'[o].version >= cases[o].version
  <2>1. cases[o] \in CaseRow
    BY <1>6 DEF RegistrationInv, RegistrationTypeOK
  <2>2. cases[o].version \in Nat
    BY <2>1 DEF CaseRow
  <2> QED
    BY <1>5, <1>6, <2>2
<1>7. RegistrationTypeOK'
  BY <1>1, <1>5 DEF RegistrationInv, RegistrationTypeOK
<1>8. CopiesPlaced'
  <2>1. ASSUME NEW o \in Copy, copies[o] # NoCopy
        PROVE  /\ copies[o].status = "PENDING_UPLOAD" <=> copies[o].scan = "NONE"
               /\ cases'[copies[o].of] # NoCase
    BY <1>6, <2>1 DEF RegistrationInv, CopiesPlaced, RegistrationTypeOK, CopyRow
  <2>2. \A o \in handed' : copies[o] # NoCopy
    BY <1>1 DEF RegistrationInv, CopiesPlaced, NoCopy
  <2> QED
    BY <1>1, <2>1, <2>2 DEF CopiesPlaced
<1>9. CopiesHandedAreClean'
  BY <1>1 DEF RegistrationInv, CopiesHandedAreClean
<1>10. ClerksPlaced'
  <2> SUFFICES ASSUME NEW s \in Clerk
               PROVE  /\ clerks[s].step = "COMPLETING" => (CompletionPlaced(clerks[s]))'
                      /\ clerks[s].step = "REVIEWING" => (ReviewPlaced(clerks[s]))'
    BY <1>1 DEF ClerksPlaced, CompletionPlaced, ReviewPlaced
  <2> DEFINE t == clerks[s]
  <2>1. ASSUME t.step = "COMPLETING" PROVE (CompletionPlaced(clerks[s]))'
    <3>1. /\ CompletionPlaced(t) /\ t.copy \in Copy /\ t.seen.of \in Case /\ t.expected \in Nat
      BY <2>1 DEF RegistrationInv, ClerksPlaced, RegistrationTypeOK, ClerkTask, CopyRow
    <3>2. cases[t.seen.of] # NoCase
      BY <3>1 DEF RegistrationInv, CopiesPlaced, CompletionPlaced
    <3> QED
      BY <1>1, <1>6, <3>1, <3>2 DEF CompletionPlaced
  <2>2. ASSUME t.step = "REVIEWING" PROVE (ReviewPlaced(clerks[s]))'
    BY <1>1, <2>2 DEF RegistrationInv, ClerksPlaced, ReviewPlaced
  <2> QED
    BY <2>1, <2>2
<1> QED
  BY <1>7, <1>8, <1>9, <1>10 DEF RegistrationInv

-----------------------------------------------------------------------------
LEMMA OpenKeeps ==
    ASSUME RegistrationInv, NEW c \in Case, openCase(c)
    PROVE  RegistrationInv'
<1> DEFINE row == [status |-> "DOCUMENTS_READY", filed |-> FALSE, number |-> "NONE", version |-> 1]
<1>1. /\ cases[c] = NoCase /\ cases' = [cases EXCEPT ![c] = row]
      /\ UNCHANGED <<copies, handed, cars, delivered, clerks>>
  BY DEF openCase
<1>2. row \in CaseRow /\ row # NoCase
  BY RegistrationAssumption DEF CaseRow, CaseStatus, Number, NoCase
<1> HIDE DEF row
<1>3. /\ cases' \in [Case -> CaseRow \cup {NoCase}] /\ cases'[c] = row
      /\ \A o \in Case \ {c} : cases'[o] = cases[o]
  BY <1>1, <1>2 DEF RegistrationInv, RegistrationTypeOK
<1>4. \A o \in Case : cases[o] # NoCase =>
          cases'[o] # NoCase /\ cases'[o].version >= cases[o].version
  <2> SUFFICES ASSUME NEW o \in Case, cases[o] # NoCase
               PROVE  cases'[o] # NoCase /\ cases'[o].version >= cases[o].version
    OBVIOUS
  <2>1. cases[o] \in CaseRow /\ cases'[o] = cases[o]
    BY <1>1, <1>3 DEF RegistrationInv, RegistrationTypeOK
  <2>2. cases[o].version \in Nat
    BY <2>1 DEF CaseRow
  <2> QED
    BY <2>1, <2>2
<1> QED
  BY <1>1, <1>3, <1>4, QuietCases DEF RegistrationInv, RegistrationTypeOK

(* A vehicle's row moves to its next version. *)
LEMMA UpdatedCar ==
    ASSUME RegistrationTypeOK, NEW v \in Case \cup ExternalCar, NEW number \in Number,
           CarUpdated(v, number)
    PROVE  cars' \in [Case \cup ExternalCar -> CarRow \cup {NoCar}]
<1> DEFINE row == [number |-> number, version |-> cars[v].version + 1]
<1>1. cars[v].version \in Nat
  BY DEF RegistrationTypeOK, CarRow, NoCar
<1>2. row \in CarRow
  BY <1>1, RegistrationAssumption DEF CarUpdated, CarRow
<1>3. cars' = [cars EXCEPT ![v] = row]
  BY DEF CarUpdated
<1> HIDE DEF row
<1> QED
  BY <1>2, <1>3 DEF RegistrationTypeOK

LEMMA AllotKeeps ==
    ASSUME RegistrationInv, NEW c \in Case, NEW number \in Number, allotNumber(c, number)
    PROVE  RegistrationInv'
<1> DEFINE row == [cases[c] EXCEPT !.status = "NUMBER_ALLOTTED", !.number = number]
<1>1. /\ CaseMoves(c, {"RTO_SUBMITTED"}, row)
      /\ IF cars[c] = NoCar THEN UNCHANGED cars ELSE CarUpdated(c, number)
      /\ UNCHANGED <<copies, handed, delivered, clerks>>
  BY DEF allotNumber
<1>2. cases[c] \in CaseRow => row \in CaseRow
  BY DEF CaseRow, CaseStatus, Number
<1>3. {"RTO_SUBMITTED"} \in SUBSET CaseStatus
  BY DEF CaseStatus
<1>4. cars' \in [Case \cup ExternalCar -> CarRow \cup {NoCar}]
  BY <1>1, UpdatedCar DEF RegistrationInv, RegistrationTypeOK
<1> HIDE DEF row
<1> QED
  BY <1>1, <1>2, <1>3, <1>4, QuietMove

LEMMA CommandKeeps ==
    ASSUME RegistrationInv, NEW c \in Case, CaseCommand(c)
    PROVE  RegistrationInv'
<1>0. cases[c] \in CaseRow => cases[c].status \in CaseStatus
  BY DEF CaseRow
<1>1. ASSUME NEW allowed, NEW status \in CaseStatus, allowed \subseteq CaseStatus,
             CaseTurns(c, allowed, status)
      PROVE  RegistrationInv'
  BY <1>1, QuietTurn
<1>2. CASE assignClerk(c)
  BY <1>0, <1>2, QuietTurn DEF assignClerk
<1>3. CASE startCase(c) \/ markPending(c) \/ reopen(c) \/ close(c)
  BY <1>1, <1>3 DEF startCase, markPending, reopen, close, CaseStatus
<1>4. CASE submitRto(c)
  <2> DEFINE row == [cases[c] EXCEPT !.status = "RTO_SUBMITTED", !.filed = TRUE]
  <2>1. /\ CaseMoves(c, {"REGISTRATION_STARTED"}, row)
        /\ UNCHANGED <<copies, handed, delivered, clerks>>
        /\ cars' \in [Case \cup ExternalCar -> CarRow \cup {NoCar}]
    BY <1>4 DEF submitRto, RegistrationInv, RegistrationTypeOK
  <2>2. cases[c] \in CaseRow => row \in CaseRow
    BY DEF CaseRow, CaseStatus
  <2>3. {"REGISTRATION_STARTED"} \in SUBSET CaseStatus
    BY DEF CaseStatus
  <2> HIDE DEF row
  <2> QED
    BY <2>1, <2>2, <2>3, QuietMove
<1>5. CASE BookingDelivered(c)
  BY <1>5, QuietCars DEF BookingDelivered, RegistrationInv, RegistrationTypeOK
<1>6. CASE \E number \in Number \ {"NONE"} : allotNumber(c, number)
  BY <1>6, AllotKeeps
<1>7. CASE \E d \in Copy : initiateRcUpload(c, d) \/ share(c, d)
  BY <1>7, InitiateKeeps, ShareKeeps
<1>8. CASE \E filed \in BOOLEAN, number \in Number : correct(c, filed, number)
  <2>1. PICK filed \in BOOLEAN, number \in Number : correct(c, filed, number)
    BY <1>8
  <2> DEFINE row == [cases[c] EXCEPT !.filed = filed, !.number = number]
  <2>2. /\ CaseMoves(c, CaseStatus, row)
        /\ UNCHANGED <<copies, handed, delivered, clerks>>
        /\ cars' \in [Case \cup ExternalCar -> CarRow \cup {NoCar}]
    BY <2>1 DEF correct, RegistrationInv, RegistrationTypeOK
  <2>3. cases[c] \in CaseRow => row \in CaseRow
    BY DEF CaseRow
  <2> HIDE DEF row
  <2> QED
    BY <2>2, <2>3, QuietMove
<1> QED
  BY <1>2, <1>3, <1>4, <1>5, <1>6, <1>7, <1>8, OpenKeeps DEF CaseCommand

LEMMA ClerkStepKeeps ==
    ASSUME RegistrationInv, NEW s \in Clerk, ClerkStep(s)
    PROVE  RegistrationInv'
BY BeginCompletionKeeps, BeginReviewCopyKeeps, CompleteKeeps, ReviewKeeps, VehicleKeeps
DEF ClerkStep

LEMMA CarKeeps ==
    ASSUME RegistrationInv,
           \/ \E v \in ExternalCar, number \in Number : createExternalVehicle(v, number)
           \/ \E v \in Case \cup ExternalCar : updateVehicleCoverage(v)
    PROVE  RegistrationInv'
<1>1. CASE \E v \in ExternalCar, number \in Number : createExternalVehicle(v, number)
  <2>1. PICK v \in ExternalCar, number \in Number : createExternalVehicle(v, number)
    BY <1>1
  <2> DEFINE row == [number |-> number, version |-> 1]
  <2>2. row \in CarRow /\ cars' = [cars EXCEPT ![v] = row]
    BY <2>1, RegistrationAssumption DEF createExternalVehicle, CarRow
  <2> HIDE DEF row
  <2>3. cars' \in [Case \cup ExternalCar -> CarRow \cup {NoCar}]
    BY <2>2 DEF RegistrationInv, RegistrationTypeOK
  <2> QED
    BY <2>1, <2>3, QuietCars DEF createExternalVehicle, RegistrationInv, RegistrationTypeOK
<1>2. CASE \E v \in Case \cup ExternalCar : updateVehicleCoverage(v)
  <2>1. PICK v \in Case \cup ExternalCar : updateVehicleCoverage(v)
    BY <1>2
  <2>2. cars[v].number \in Number
    BY <2>1 DEF updateVehicleCoverage, RegistrationInv, RegistrationTypeOK, CarRow
  <2>3. cars' \in [Case \cup ExternalCar -> CarRow \cup {NoCar}]
    BY <2>1, <2>2, UpdatedCar DEF updateVehicleCoverage, RegistrationInv
  <2> QED
    BY <2>1, <2>3, QuietCars DEF updateVehicleCoverage, RegistrationInv, RegistrationTypeOK
<1> QED
  BY <1>1, <1>2

LEMMA RegistrationStep == ASSUME RegistrationInv, [RegistrationNext]_caseVars PROVE RegistrationInv'
<1>1. CASE UNCHANGED caseVars
  BY <1>1 DEF caseVars, RegistrationInv, RegistrationTypeOK, CopiesPlaced, CopiesHandedAreClean,
              ClerksPlaced, CompletionPlaced, ReviewPlaced
<1> QED
  BY <1>1, CommandKeeps, ClerkStepKeeps, CarKeeps DEF RegistrationNext

LEMMA RegistrationInductive == RegistrationSpec => []RegistrationInv
BY RegistrationStart, RegistrationStep, PTL DEF RegistrationSpec

-----------------------------------------------------------------------------
(* The rows of cases, copies and vehicles keep their types. *)
THEOREM TypeCorrect == RegistrationSpec => []RegistrationTypeOK
<1>1. RegistrationInv => RegistrationTypeOK
  BY DEF RegistrationInv
<1> QED
  BY <1>1, RegistrationInductive, PTL

(* A copy that is verified, and one a customer has been given, is one the    *)
(* scanner found clean, though completeRcUpload and reviewDocument read it   *)
(* before they lock its case.                                                *)
THEOREM HandedAreClean == RegistrationSpec => []CopiesHandedAreClean
<1>1. RegistrationInv => CopiesHandedAreClean
  BY DEF RegistrationInv
<1> QED
  BY <1>1, RegistrationInductive, PTL
-----------------------------------------------------------------------------
(* Lists, for every set of rows, contexts, branches and teams.               *)
(* A row as a list describes it to the policy and to the query: any column   *)
(* may be one the list does not have, and any team or owner one it lacks.    *)
Described(s) == s.team \in Team \cup {Null, Absent}

(* Two rules for the team of a row: a team manager's are those managed, of   *)
(* the other members those selected; the query takes either.                 *)
TeamsDiffer(c, s) ==
    /\ s.team \in Team
    /\ CASE c.role # "TEAM_MANAGER" -> c.teamMode = "SELECTED" /\ s.team \in c.managed \ c.teams
         [] c.role = "TEAM_MANAGER" /\ c.teamMode = "ALL" -> s.team \notin c.managed
         [] c.role = "TEAM_MANAGER" /\ c.teamMode = "SELECTED" -> s.team \in c.teams \ c.managed
         [] c.role = "TEAM_MANAGER" /\ c.teamMode = "NONE" -> s.team \in c.managed

(* The query asks nothing of a column that its list does not have. *)
ColumnMissing(c, s) ==
    \/ c.assignment = "ASSIGNED" /\ s.assignee = Absent
    \/ c.assignment = "OWNED" /\ s.owner = Absent

LEMMA TeamsCompared ==
    ASSUME NEW c \in AuthorizationContext, NEW s, s.team \in Team
    PROVE  /\ ~TeamsDiffer(c, s) <=>
                (nullableScopeModeCondition(c.teamMode, c.teams \cup c.managed, s.team)
                    <=> canAccessTeam(c, s.team))
           /\ canAccessTeam(c, s.team)
                /\ ~nullableScopeModeCondition(c.teamMode, c.teams \cup c.managed, s.team) =>
                c.role = "TEAM_MANAGER" /\ c.teamMode = "NONE" /\ s.team \in c.managed
<1>1. c.teamMode \in {"ALL", "SELECTED", "NONE"} /\ s.team # Null
  BY ListsAssumption DEF AuthorizationContext, Mode
<1>2. CASE c.role # "TEAM_MANAGER"
  BY <1>1, <1>2 DEF TeamsDiffer, nullableScopeModeCondition, canAccessTeam
<1>3. CASE c.role = "TEAM_MANAGER"
  BY <1>1, <1>3 DEF TeamsDiffer, nullableScopeModeCondition, canAccessTeam
<1> QED BY <1>2, <1>3

(* The parts in which the two agree for every context and row. *)
LEMMA PartsCompared ==
    ASSUME NEW c \in AuthorizationContext, NEW s, Described(s)
    PROVE  /\ scopeModeCondition(c.branchMode, c.branches, s.branch) <=> canAccessBranch(c, s.branch)
           /\ s.team \notin Team /\ s.team # Absent =>
                /\ nullableScopeModeCondition(c.departmentMode, c.departments, departmentOf(s.team))
                /\ nullableScopeModeCondition(c.teamMode, c.teams \cup c.managed, s.team)
           /\ s.team \in Team =>
                /\ s.team \notin {Absent, Null}
                /\ nullableScopeModeCondition(c.departmentMode, c.departments, departmentOf(s.team))
                     <=> canAccessDepartment(c, DepartmentOf[s.team])
           /\ s.team \notin Team => s.team \in {Absent, Null}
<1>1. scopeModeCondition(c.branchMode, c.branches, s.branch) <=> canAccessBranch(c, s.branch)
  BY DEF scopeModeCondition, canAccessBranch
<1>2. ASSUME s.team \notin Team, s.team # Absent
      PROVE  /\ nullableScopeModeCondition(c.departmentMode, c.departments, departmentOf(s.team))
             /\ nullableScopeModeCondition(c.teamMode, c.teams \cup c.managed, s.team)
  <2>1. s.team = Null /\ departmentOf(s.team) = Null
    BY <1>2 DEF Described, departmentOf
  <2> QED BY <2>1 DEF nullableScopeModeCondition
<1>3. ASSUME s.team \in Team
      PROVE  /\ s.team \notin {Absent, Null}
             /\ nullableScopeModeCondition(c.departmentMode, c.departments, departmentOf(s.team))
                  <=> canAccessDepartment(c, DepartmentOf[s.team])
  <2>1. departmentOf(s.team) = DepartmentOf[s.team] /\ DepartmentOf[s.team] # Null
        /\ s.team \notin {Absent, Null}
    BY <1>3, ListsAssumption DEF departmentOf
  <2> QED BY <2>1 DEF nullableScopeModeCondition, canAccessDepartment
<1> QED BY <1>1, <1>2, <1>3 DEF Described

(* AuthorizationPolicy and its mirror in SQL agree on every row for every    *)
(* context, but on a row of a team for which they have different rules and   *)
(* where the list lacks the column of the assignment scope.  There the query *)
(* finds rows that the check refuses; a row that the check would let open    *)
(* and the query never finds is one of a team that a manager without a team  *)
(* scope manages.                                                            *)
THEOREM MirrorsPolicy ==
    ASSUME NEW c \in AuthorizationContext, NEW s, Described(s)
    PROVE  /\ ~TeamsDiffer(c, s) /\ ~ColumnMissing(c, s) =>
                (authorizationScopeCondition(c, s) <=> canAccessResource(c, s))
           /\ TeamsDiffer(c, s) \/ ColumnMissing(c, s) =>
                ~(authorizationScopeCondition(c, s) /\ canAccessResource(c, s))
           /\ canAccessResource(c, s) /\ ~authorizationScopeCondition(c, s) =>
                c.role = "TEAM_MANAGER" /\ c.teamMode = "NONE" /\ s.team \in Team \cap c.managed
<1>1. Me # Absent /\ Me # Null
  BY ListsAssumption
<1>2. CASE s.team \in Team
  BY <1>1, <1>2, PartsCompared, TeamsCompared
  DEF authorizationScopeCondition, canAccessResource, TeamAndDepartment, ColumnMissing
<1>3. CASE s.team \notin Team
  <2>1. ~TeamsDiffer(c, s)
    BY <1>3 DEF TeamsDiffer
  <2> QED BY <1>1, <1>3, <2>1, PartsCompared
          DEF authorizationScopeCondition, canAccessResource, TeamAndDepartment, ColumnMissing
<1> QED BY <1>2, <1>3

-----------------------------------------------------------------------------
(* A row that has a branch and perhaps a team, as every list of work has. *)
Placed(r) == r.branch \in Branch /\ r.team \in Team \cup {Null}
                 /\ Absent \notin {r.owner, r.holder, r.assignee}

(* The leads counted are the leads listed. *)
LEMMA LeadsCounted ==
    ASSUME NEW c \in AuthorizationContext, NEW r, Placed(r), LeadsCountedAsListed(c)
    PROVE  leadAccess(c, r) <=> authorizationScopeCondition(c, leadScope(r)) /\ canAccessLead(c, r)
<1> DEFINE s == leadScope(r)
<1>1. s.branch = r.branch /\ s.team = r.team /\ s.owner = r.owner /\ s.assignee = r.holder
  BY DEF leadScope
<1>2. leadScope(r) = s
  OBVIOUS
<1> HIDE DEF s
<1>3. branchAccess(c, r.branch) <=> canAccessBranch(c, r.branch)
  BY DEF branchAccess, scopeModeCondition, canAccessBranch
<1>4. s.team # Absent /\ s.assignee # Absent /\ s.owner # Absent
  BY <1>1, ListsAssumption DEF Placed
<1>5. c.departmentMode \in {"ALL", "SELECTED"} /\ c.teamMode \in {"ALL", "SELECTED"}
  BY DEF LeadsCountedAsListed, AuthorizationContext, Mode
<1>6. CASE r.team = Null
  <2>1. r.team \notin Team /\ departmentOf(r.team) = Null
    BY <1>6, ListsAssumption DEF departmentOf
  <2>2. c.managed \subseteq Team /\ c.teams \subseteq Team
    BY DEF AuthorizationContext
  <2> QED
    BY <1>1, <1>2, <1>3, <1>4, <1>5, <1>6, <2>1, <2>2
    DEF leadAccess, branchAccess, authorizationScopeCondition, canAccessLead, canAccessResource,
        nullableScopeModeCondition, TeamAndDepartment, LeadsCountedAsListed, AuthorizationContext
<1>7. CASE r.team \in Team
  <2>1. departmentOf(r.team) = DepartmentOf[r.team] /\ DepartmentOf[r.team] # Null /\ r.team # Null
    BY <1>7, ListsAssumption DEF departmentOf
  <2> QED
    BY <1>1, <1>2, <1>3, <1>4, <1>5, <1>7, <2>1
    DEF leadAccess, branchAccess, authorizationScopeCondition, canAccessLead, canAccessResource,
        nullableScopeModeCondition, TeamAndDepartment, canAccessTeam, canAccessDepartment,
        LeadsCountedAsListed, AuthorizationContext
<1> QED
  BY <1>6, <1>7 DEF Placed

(* So are deliveries and cases, and the stock. *)
LEMMA JobsCounted ==
    ASSUME NEW c \in AuthorizationContext, NEW r, Placed(r), c.assignment \notin {"TEAM", "OWNED"}
    PROVE  domainAccess(c, r)
             <=> authorizationScopeCondition(c, deliveryScope(r))
                   /\ canAccessResource(c, deliveryScope(r))
BY ListsAssumption
DEF domainAccess, branchAccess, authorizationScopeCondition, canAccessResource, deliveryScope,
    scopeModeCondition, canAccessBranch, TeamAndDepartment, AuthorizationContext, Placed

LEMMA UnitsCounted ==
    ASSUME NEW c \in AuthorizationContext, NEW r, c.assignment \in {"ALL", "OWNED", "ASSIGNED"}
    PROVE  branchAccess(c, r.branch)
             <=> authorizationScopeCondition(c, unitScope(r)) /\ canAccessBranch(c, r.branch)
BY DEF branchAccess, authorizationScopeCondition, unitScope, vehicleScope, scopeModeCondition,
       canAccessBranch

(* Whatever the list, the figure and the list agree on a row. *)
LEMMA RowCounted ==
    ASSUME NEW k \in Kinds, NEW c \in AuthorizationContext, NEW r, Placed(r), CountedAsListed(k, c)
    PROVE  Figures(k, c, r) <=> Selects(k, c, r) /\ Opens(k, c, r)
<1>1. k \in {"LEADS", "DELIVERIES", "CASES", "UNITS"}
  BY ListsAssumption DEF CountedAsListed
<1>2. CASE k = "LEADS"
  <2>1. LeadsCountedAsListed(c)
    BY <1>2 DEF CountedAsListed
  <2> QED
    BY <1>2, <2>1, LeadsCounted DEF Figures, Selects, Opens, Scope, leadDetail
<1>3. CASE k = "DELIVERIES"
  <2>1. c.assignment \notin {"TEAM", "OWNED"}
    BY <1>3 DEF CountedAsListed
  <2> QED
    BY <1>3, <2>1, JobsCounted DEF Figures, Selects, Opens, Scope, deliveryDetail
<1>4. CASE k = "CASES"
  <2>1. c.assignment \notin {"TEAM", "OWNED"}
    BY <1>4 DEF CountedAsListed
  <2> QED
    BY <1>4, <2>1, JobsCounted DEF Figures, Selects, Opens, Scope, caseDetail, caseScope
<1>5. CASE k = "UNITS"
  <2>1. c.assignment \in {"ALL", "OWNED", "ASSIGNED"}
    BY <1>5 DEF CountedAsListed
  <2> QED
    BY <1>5, <2>1, UnitsCounted DEF Figures, Selects, Opens, Scope, unitDetail
<1> QED
  BY <1>1, <1>2, <1>3, <1>4, <1>5

-----------------------------------------------------------------------------
(* What the figures rest on: rows of the list's kind, and a context of the   *)
(* member's membership.                                                      *)
ListsPlaced ==
    /\ kind \in Kinds
    /\ context \in Contexts
    /\ rows \in [ListRow -> Records(kind) \cup {Blank}]

LEMMA ListsInductive ==
    ASSUME ListsPlaced, [ListsNext]_listVars
    PROVE  ListsPlaced'
<1>1. ASSUME NEW x \in ListRow, Arrive(x) \/ Reassign(x) \/ MessageComes(x)
      PROVE  ListsPlaced'
  BY <1>1 DEF Arrive, Reassign, MessageComes, ListsPlaced
<1>2. ASSUME NEW c \in Contexts, Rescope(c)
      PROVE  ListsPlaced'
  BY <1>2 DEF Rescope, ListsPlaced
<1>3. CASE FetchPage \/ Restart \/ UNCHANGED listVars
  BY <1>3 DEF FetchPage, Restart, listVars, ListsPlaced
<1> QED
  BY <1>1, <1>2, <1>3 DEF ListsNext

LEMMA PlacedAgrees ==
    ASSUME ListsPlaced
    PROVE  FiguresAgree
<1> SUFFICES ASSUME CountedAsListed(kind, context), NEW x \in ListRow, rows[x] # Blank
             PROVE  Figures(kind, context, rows[x]) <=>
                      Selects(kind, context, rows[x]) /\ Opens(kind, context, rows[x])
  BY DEF FiguresAgree
<1>1. kind \in Kinds \ {"USERS"}
  BY DEF CountedAsListed, ListsPlaced
<1>2. rows[x] \in Records(kind)
  BY DEF ListsPlaced
<1>3. Placed(rows[x])
  BY <1>1, <1>2, RecordsAssumption DEF Placed
<1>4. context \in AuthorizationContext
  BY ContextsAssumption DEF ListsPlaced
<1> QED
  BY <1>1, <1>3, <1>4, RowCounted

(* The figures of the dashboard are those of the lists, for every context    *)
(* whose scopes mean the same in both.                                       *)
THEOREM FiguresAreOfTheLists == ListsSpec => []FiguresAgree
<1>1. ListsInit => ListsPlaced
  BY DEF ListsInit, ListsPlaced
<1>2. ListsPlaced /\ [ListsNext]_listVars => ListsPlaced'
  BY ListsInductive
<1>3. ListsPlaced => FiguresAgree
  BY PlacedAgrees
<1> QED
  BY <1>1, <1>2, <1>3, PTL DEF ListsSpec

-----------------------------------------------------------------------------
(* The pages of a list, for every set of rows, contexts and page size.       *)
(* A set of numbers that is not empty has a least one. *)
LEMMA LeastOf ==
    ASSUME NEW T \in SUBSET Nat, T # {}
    PROVE  \E x \in T : \A y \in T : x <= y
<1> DEFINE R == OpToRel(<, Nat)
<1>1. IsWellFoundedOn(R, Nat)
  BY NatLessThanWellFounded
<1>2. \A x, y \in Nat : x < y => <<x, y>> \in R
  BY DEF OpToRel
<1> HIDE DEF R
<1>3. PICK x \in T : \A y \in T : ~(<<y, x>> \in R)
  BY <1>1, WFMin
<1>4. \A y \in T : y \in Nat
  OBVIOUS
<1>5. \A y \in T : ~(y < x)
  BY <1>2, <1>3, <1>4
<1> QED BY <1>3, <1>4, <1>5

(* A function that lists the positions in I in ascending order. *)
Ascends(f, I) ==
    /\ f \in [1 .. Cardinality(I) -> I]
    /\ \A i, j \in 1 .. Cardinality(I) : i < j => f[i] < f[j]

(* A position after all the others is listed last. *)
LEMMA AscendsOneMore ==
    ASSUME NEW N \in Nat, NEW I \in SUBSET (1 .. N), N \in I,
           \E g : Ascends(g, I \ {N})
    PROVE  \E f : Ascends(f, I)
<1> DEFINE J == I \ {N}
<1> DEFINE n == Cardinality(J)
<1>1. IsFiniteSet(I)
  <2>1. IsFiniteSet(1 .. N)
    BY FS_Interval
  <2> QED
    BY <2>1, FS_Subset
<1>2. IsFiniteSet(J) /\ Cardinality(J) = Cardinality(I) - 1
  BY <1>1, FS_RemoveElement
<1>3. n \in Nat /\ Cardinality(I) \in Nat
  BY <1>1, <1>2, FS_CardinalityType
<1>4. Cardinality(I) = n + 1
  BY <1>2, <1>3
<1>5. PICK g : Ascends(g, J)
  OBVIOUS
<1> DEFINE f == [k \in 1 .. n + 1 |-> IF k = n + 1 THEN N ELSE g[k]]
<1>6. J \subseteq I /\ \A x \in J : x < N
  <2>1. \A x \in I : x \in 1 .. N
    OBVIOUS
  <2>2. \A x \in 1 .. N : x # N => x < N
    OBVIOUS
  <2> QED
    BY <2>1, <2>2
<1>7. g \in [1 .. n -> J] /\ \A i, j \in 1 .. n : i < j => g[i] < g[j]
  BY <1>5 DEF Ascends
<1> HIDE DEF n, J
<1>8. \A k \in 1 .. n + 1 : k # n + 1 => k \in 1 .. n
  BY <1>3
<1>9. f \in [1 .. n + 1 -> I]
  <2> SUFFICES ASSUME NEW k \in 1 .. n + 1 PROVE (IF k = n + 1 THEN N ELSE g[k]) \in I
    OBVIOUS
  <2> QED
    BY <1>6, <1>7, <1>8
<1>10. \A i, j \in 1 .. n + 1 : i < j => f[i] < f[j]
  <2> SUFFICES ASSUME NEW i \in 1 .. n + 1, NEW j \in 1 .. n + 1, i < j
               PROVE  f[i] < f[j]
    OBVIOUS
  <2>1. i \in 1 .. n /\ f[i] = g[i] /\ g[i] \in J
    BY <1>3, <1>7, <1>8
  <2>2. CASE j = n + 1
    <3>1. f[j] = N
      BY <2>2
    <3>2. g[i] < N
      BY <1>6, <2>1
    <3> QED
      BY <2>1, <3>1, <3>2
  <2>3. CASE j # n + 1
    BY <1>7, <1>8, <2>1, <2>3
  <2> QED
    BY <2>2, <2>3
<1> HIDE DEF f
<1>11. Ascends(f, I)
  BY <1>4, <1>9, <1>10 DEF Ascends
<1> QED
  BY <1>11

(* Every set of positions is listed in ascending order. *)
LEMMA AscendsExists ==
    ASSUME NEW M \in Nat, NEW I \in SUBSET (1 .. M)
    PROVE  \E f : Ascends(f, I)
<1> DEFINE Short(N) == \A K \in SUBSET (1 .. N) : \E f : Ascends(f, K)
<1> DEFINE Bad == {N \in Nat : ~Short(N)}
<1> SUFFICES Short(M)
  OBVIOUS
<1> SUFFICES ASSUME ~Short(M) PROVE FALSE
  OBVIOUS
<1>1. M \in Bad
  OBVIOUS
<1>2. PICK N \in Bad : \A y \in Bad : N <= y
  <2>1. Bad \in SUBSET Nat /\ Bad # {}
    BY <1>1
  <2> HIDE DEF Bad
  <2> QED
    BY <2>1, LeastOf
<1>3. N \in Nat /\ ~Short(N)
  BY <1>2
<1>4. PICK K \in SUBSET (1 .. N) : ~\E f : Ascends(f, K)
  BY <1>3
<1>5. N # 0
  <2> SUFFICES ASSUME N = 0 PROVE FALSE
    OBVIOUS
  <2>1. K = {}
    BY <1>4
  <2>2. Cardinality(K) = 0
    BY <2>1, FS_EmptySet
  <2>3. Ascends([k \in 1 .. 0 |-> 0], K)
    BY <2>1, <2>2 DEF Ascends
  <2> QED
    BY <1>4, <2>3
<1>6. N - 1 \in Nat
  BY <1>3, <1>5
<1>7. Short(N - 1)
  <2>1. N - 1 \notin Bad
    BY <1>2, <1>3, <1>6
  <2> QED
    BY <1>6, <2>1
<1>8. K \ {N} \in SUBSET (1 .. N - 1)
  BY <1>3, <1>4
<1>9. \E g : Ascends(g, K \ {N})
  BY <1>7, <1>8
<1>10. N \in K
  <2> SUFFICES ASSUME N \notin K PROVE FALSE
    OBVIOUS
  <2>1. K \ {N} = K
    OBVIOUS
  <2> QED
    BY <1>4, <1>9, <2>1
<1> QED
  BY <1>3, <1>4, <1>9, <1>10, AscendsOneMore

(* So Ascending lists them, each of them once. *)
LEMMA AscendingLists ==
    ASSUME NEW M \in Nat, NEW I \in SUBSET (1 .. M)
    PROVE  /\ Cardinality(I) \in Nat
           /\ Ascending(I) \in [1 .. Cardinality(I) -> I]
           /\ \A i, j \in 1 .. Cardinality(I) : i # j => Ascending(I)[i] # Ascending(I)[j]
           /\ \A p \in I : \E k \in 1 .. Cardinality(I) : Ascending(I)[k] = p
<1> DEFINE n == Cardinality(I)
<1> DEFINE f == Ascending(I)
<1>1. IsFiniteSet(I)
  <2>1. IsFiniteSet(1 .. M)
    BY FS_Interval
  <2> QED
    BY <2>1, FS_Subset
<1>2. n \in Nat
  BY <1>1, FS_CardinalityType
<1>3. f \in [1 .. n -> I] /\ \A i, j \in 1 .. n : i < j => f[i] < f[j]
  <2>1. \E g \in [1 .. n -> I] : \A i, j \in 1 .. n : i < j => g[i] < g[j]
    BY AscendsExists DEF Ascends
  <2> QED
    BY <2>1 DEF Ascending
<1> HIDE DEF f
<1>4. \A i \in 1 .. n : f[i] \in 1 .. M
  BY <1>3
<1>5. \A i, j \in 1 .. n : i # j => f[i] # f[j]
  <2> SUFFICES ASSUME NEW i \in 1 .. n, NEW j \in 1 .. n, i # j
               PROVE  f[i] # f[j]
    OBVIOUS
  <2>1. i < j \/ j < i
    BY <1>2
  <2>2. f[i] < f[j] \/ f[j] < f[i]
    BY <1>3, <2>1
  <2> QED
    BY <1>4, <2>2
<1> HIDE DEF n
<1>6. f \in Injection(1 .. n, I)
  BY <1>3, <1>5 DEF Injection, IsInjective
<1>7. Cardinality(1 .. n) = Cardinality(I)
  BY <1>2, FS_Interval DEF n
<1>8. f \in Surjection(1 .. n, I)
  BY <1>1, <1>6, <1>7, FS_Injection
<1>9. \A p \in I : \E k \in 1 .. n : f[k] = p
  BY <1>8 DEF Surjection
<1> QED
  BY <1>2, <1>3, <1>5, <1>9 DEF f, n

(* The rows taken at some positions are the rows there, once each if every   *)
(* row is in the list once.                                                  *)
LEMMA TakenRows ==
    ASSUME NEW S, NEW s \in Seq(S), NEW I \in SUBSET DOMAIN s
    PROVE  /\ Taken(s, I) \in Seq(S)
           /\ Len(Taken(s, I)) = Cardinality(I)
           /\ Cardinality(I) \in Nat
           /\ \A k \in 1 .. Cardinality(I) : \E p \in I : Taken(s, I)[k] = s[p]
           /\ \A p \in I : \E k \in 1 .. Cardinality(I) : Taken(s, I)[k] = s[p]
           /\ (\A p, q \in DOMAIN s : p # q => s[p] # s[q])
                => \A j, k \in 1 .. Cardinality(I) : j # k => Taken(s, I)[j] # Taken(s, I)[k]
<1> DEFINE n == Cardinality(I)
<1> DEFINE f == Ascending(I)
<1> DEFINE t == Taken(s, I)
<1>1. Len(s) \in Nat /\ DOMAIN s = 1 .. Len(s) /\ \A p \in DOMAIN s : s[p] \in S
  OBVIOUS
<1>2. /\ n \in Nat
      /\ f \in [1 .. n -> I]
      /\ \A i, j \in 1 .. n : i # j => f[i] # f[j]
      /\ \A p \in I : \E k \in 1 .. n : f[k] = p
  BY <1>1, AscendingLists
<1>3. t = [k \in 1 .. n |-> s[f[k]]]
  BY DEF Taken
<1> HIDE DEF f, n, t
<1>4. \A k \in 1 .. n : f[k] \in I /\ t[k] = s[f[k]]
  BY <1>2, <1>3
<1>5. t \in [1 .. n -> S]
  BY <1>1, <1>2, <1>3
<1>6. t \in Seq(S) /\ Len(t) = n
  BY <1>2, <1>5
<1>7. ASSUME \A p, q \in DOMAIN s : p # q => s[p] # s[q], NEW j \in 1 .. n, NEW k \in 1 .. n, j # k
      PROVE  t[j] # t[k]
  BY <1>2, <1>4, <1>7
<1> QED
  BY <1>2, <1>4, <1>6, <1>7 DEF n, t

(* Nothing is left out when every position is taken, *)
LEMMA AllTaken ==
    ASSUME NEW S, NEW s \in Seq(S)
    PROVE  Taken(s, DOMAIN s) = s
<1> DEFINE n == Len(s)
<1> DEFINE f == Ascending(1 .. n)
<1>1. n \in Nat /\ DOMAIN s = 1 .. n /\ s \in [1 .. n -> S]
  OBVIOUS
<1>2. Cardinality(1 .. n) = n
  BY <1>1, FS_Interval
<1> HIDE DEF n
<1>3. \E g \in [1 .. n -> 1 .. n] : \A i, j \in 1 .. n : i < j => g[i] < g[j]
  <2>1. [k \in 1 .. n |-> k] \in [1 .. n -> 1 .. n]
    OBVIOUS
  <2> QED
    BY <2>1
<1>4. f \in [1 .. n -> 1 .. n] /\ \A i, j \in 1 .. n : i < j => f[i] < f[j]
  BY <1>2, <1>3 DEF Ascending
<1>5. \A p \in 1 .. n : \E k \in 1 .. n : f[k] = p
  BY <1>1, <1>2, AscendingLists
<1>6. \A k \in 1 .. n : f[k] = k
  <2> HIDE DEF f
  <2> DEFINE Low == {k \in 1 .. n : f[k] # k}
  <2> SUFFICES ASSUME Low # {} PROVE FALSE
    OBVIOUS
  <2>1. Low \in SUBSET Nat
    OBVIOUS
  <2>2. PICK k \in Low : \A j \in Low : k <= j
    <3> HIDE DEF Low
    <3> QED
      BY <2>1, LeastOf
  <2>3. k \in 1 .. n /\ f[k] # k /\ f[k] \in 1 .. n
    BY <1>4, <2>2
  <2>4. \A j \in 1 .. n : j < k => f[j] = j
    BY <2>2, <2>3
  \* Below k it would meet itself again, and above k nothing is left for k.
  <2>5. ~(f[k] < k)
    <3> SUFFICES ASSUME f[k] < k PROVE FALSE
      OBVIOUS
    <3>1. f[f[k]] = f[k]
      BY <2>3, <2>4
    <3>2. f[f[k]] < f[k]
      BY <1>4, <2>3
    <3> QED
      BY <2>3, <3>1, <3>2
  <2>6. PICK p \in 1 .. n : f[p] = k
    BY <1>5, <2>3
  <2>7. ~(p < k) /\ p # k
    BY <2>3, <2>4, <2>6
  <2>8. k < p
    BY <2>3, <2>6, <2>7
  <2>9. f[k] < k
    BY <1>4, <2>3, <2>6, <2>8
  <2> QED
    BY <2>5, <2>9
<1>7. Taken(s, 1 .. n) = [k \in 1 .. n |-> s[k]]
  BY <1>2, <1>6 DEF Taken
<1> QED
  BY <1>1, <1>7

(* and nothing remains when none is. *)
LEMMA NoneTaken ==
    ASSUME NEW s
    PROVE  Taken(s, {}) = <<>>
BY FS_EmptySet DEF Taken

-----------------------------------------------------------------------------
(* A list of work with a team finds what the check lets open. *)
LEMMA WorkFound ==
    ASSUME NEW c \in AuthorizationContext, NEW r, Placed(r),
           NEW k \in {"LEADS", "CALLS", "RIDES", "CONVERSATIONS"}, Mirrored(k, c),
           NEW a, a \in {r.holder, r.assignee}
    PROVE  LET s == [branch |-> r.branch, team |-> r.team, owner |-> r.owner, assignee |-> a]
           IN  authorizationScopeCondition(c, s) <=> canAccessResource(c, s)
<1> DEFINE s == [branch |-> r.branch, team |-> r.team, owner |-> r.owner, assignee |-> a]
<1>1. /\ s.team = r.team /\ s.owner # Absent /\ s.assignee # Absent
      /\ r.team \in Team \cup {Null}
  BY DEF Placed
<1> HIDE DEF s
<1>2. Described(s)
  BY <1>1 DEF Described
<1>3. ~ColumnMissing(c, s)
  BY <1>1 DEF ColumnMissing
<1>4. ~TeamsDiffer(c, s)
  <2>1. CASE c.role = "TEAM_MANAGER"
    <3>1. c.teamMode = "SELECTED" /\ c.teams \subseteq c.managed
      BY <2>1 DEF Mirrored
    <3> QED BY <2>1, <3>1 DEF TeamsDiffer
  <2>2. CASE c.role # "TEAM_MANAGER"
    <3>1. c.teamMode = "SELECTED" => c.managed \subseteq c.teams
      BY <2>2 DEF Mirrored
    <3> QED BY <2>2, <3>1 DEF TeamsDiffer
  <2> QED BY <2>1, <2>2
<1> QED
  BY <1>2, <1>3, <1>4, MirrorsPolicy DEF s

(* A list without a column for the owner, or for the assignee, still finds   *)
(* the rows of its branches for a member who may open none of them.          *)
Closed(k, c) ==
    \/ k \in {"DELIVERIES", "CASES"} /\ c.assignment = "OWNED"
    \/ k \in {"VEHICLES", "PLANS", "REMINDERS"} /\ c.assignment \in {"OWNED", "ASSIGNED"}

LEMMA ClosedOpensNone ==
    ASSUME NEW k, NEW c, NEW r, Closed(k, c)
    PROVE  ~Opens(k, c, r)
BY ListsAssumption
DEF Closed, Opens, deliveryDetail, caseDetail, vehicleDetail, accessibleInstance, canAccessResource,
    caseScope, deliveryScope, vehicleScope, reminderScope

(* A salesperson who works on what is assigned to them has the common rule. *)
LEMMA LeadFound ==
    ASSUME NEW c \in AuthorizationContext, NEW r, Placed(r),
           NEW k \in {"LEADS", "CALLS"}, Mirrored(k, c)
    PROVE  authorizationScopeCondition(c, leadScope(r)) <=> canAccessLead(c, r)
<1>1. authorizationScopeCondition(c, leadScope(r)) <=> canAccessResource(c, leadScope(r))
  BY WorkFound DEF leadScope
<1>2. canAccessLead(c, r) <=> canAccessResource(c, leadScope(r))
  <2>1. CASE c.role # "SALESPERSON"
    BY <2>1 DEF canAccessLead
  <2>2. CASE c.role = "SALESPERSON"
    <3>1. c.assignment = "ASSIGNED"
      BY <2>2 DEF Mirrored
    <3> QED
      BY <2>2, <3>1 DEF canAccessLead, canAccessResource, leadScope
  <2> QED
    BY <2>1, <2>2
<1> QED
  BY <1>1, <1>2

(* Jobs have no owner and no team, stock not even an assignee. *)
LEMMA JobFound ==
    ASSUME NEW c \in AuthorizationContext, NEW r, Placed(r), c.assignment # "OWNED"
    PROVE  authorizationScopeCondition(c, deliveryScope(r)) <=> canAccessResource(c, deliveryScope(r))
BY ListsAssumption
DEF authorizationScopeCondition, canAccessResource, deliveryScope, scopeModeCondition,
    canAccessBranch, TeamAndDepartment, Placed

LEMMA StockFound ==
    ASSUME NEW c \in AuthorizationContext, NEW r, Placed(r), c.assignment \notin {"OWNED", "ASSIGNED"}
    PROVE  authorizationScopeCondition(c, vehicleScope(r)) <=> canAccessResource(c, vehicleScope(r))
BY ListsAssumption
DEF authorizationScopeCondition, canAccessResource, vehicleScope, scopeModeCondition,
    canAccessBranch, TeamAndDepartment, Placed

LEMMA UnitFound ==
    ASSUME NEW c, NEW r, c.assignment \in {"ALL", "OWNED", "ASSIGNED"}
    PROVE  authorizationScopeCondition(c, vehicleScope(r)) <=> canAccessBranch(c, r.branch)
BY DEF authorizationScopeCondition, vehicleScope, scopeModeCondition, canAccessBranch

LEMMA MemberFound ==
    ASSUME NEW c \in AuthorizationContext, NEW r
    PROVE  listTenantUsers(c, r) <=> branchVisible(c, r) /\ teamVisible(c, r)
BY DEF listTenantUsers, branchVisible, teamVisible, AuthorizationContext, Mode

(* Whatever the list, it finds a row when the check lets it be opened. *)
LEMMA ListFinds ==
    ASSUME NEW k \in Kinds, NEW c \in AuthorizationContext, NEW r, k # "USERS" => Placed(r),
           Mirrored(k, c), ~Closed(k, c)
    PROVE  Selects(k, c, r) <=> Opens(k, c, r)
<1>1. CASE k \in {"LEADS", "CALLS"}
  BY <1>1, LeadFound DEF Selects, Opens, Scope, leadDetail, callDetail, callScope
<1>2. CASE k = "RIDES"
  <2>1. authorizationScopeCondition(c, rideScope(r)) <=> canAccessResource(c, rideScope(r))
    BY <1>2, WorkFound DEF rideScope
  <2>2. canAccessRide(c, r) <=> canAccessResource(c, rideScope(r))
    BY <1>2 DEF Mirrored, canAccessRide
  <2> QED
    BY <1>2, <2>1, <2>2 DEF Selects, Opens, Scope, rideDetail
<1>3. CASE k = "CONVERSATIONS"
  <2>1. authorizationScopeCondition(c, rideScope(r)) <=> canAccessResource(c, rideScope(r))
    BY <1>3, WorkFound DEF rideScope
  <2> QED
    BY <1>3, <2>1 DEF Selects, Opens, Scope, scopedConversation, conversationScope
<1>4. CASE k \in {"DELIVERIES", "CASES"}
  <2>1. c.assignment # "OWNED"
    BY <1>4 DEF Closed
  <2> QED
    BY <1>4, <2>1, JobFound DEF Selects, Opens, Scope, deliveryDetail, caseDetail, caseScope
<1>5. CASE k \in {"VEHICLES", "PLANS", "REMINDERS"}
  <2>1. c.assignment \notin {"OWNED", "ASSIGNED"}
    BY <1>5 DEF Closed
  <2> QED
    BY <1>5, <2>1, StockFound
    DEF Selects, Opens, Scope, vehicleDetail, accessibleInstance, planScope, reminderScope
<1>6. CASE k \in {"UNITS", "BOOKINGS"}
  <2>1. c.assignment \in {"ALL", "OWNED", "ASSIGNED"}
    BY <1>6 DEF Mirrored
  <2>2. authorizationScopeCondition(c, vehicleScope(r)) <=> canAccessBranch(c, r.branch)
    BY <2>1, UnitFound
  <2> QED
    BY <1>6, <2>2 DEF Selects, Opens, Scope, unitDetail, bookingDetail, unitScope, bookingScope
<1>7. CASE k = "USERS"
  BY <1>7, MemberFound DEF Selects, Opens
<1>8. k \in {"LEADS", "CALLS", "RIDES", "CONVERSATIONS", "DELIVERIES", "CASES",
             "VEHICLES", "PLANS", "REMINDERS", "UNITS", "BOOKINGS", "USERS"}
  BY ListsAssumption
<1> QED
  BY <1>1, <1>2, <1>3, <1>4, <1>5, <1>6, <1>7, <1>8

-----------------------------------------------------------------------------
(* The list holds each row of the table once. *)
OrderPlaced ==
    /\ order \in Seq(ListRow)
    /\ \A i, j \in DOMAIN order : i # j => order[i] # order[j]
    /\ \A x \in ListRow : rows[x] # Blank <=> \E i \in DOMAIN order : order[i] = x

ReadingPlaced ==
    /\ reading \in [page: Nat, shown: Seq(ListRow), more: BOOLEAN, calm: BOOLEAN]
    /\ reading.page = 0 => reading.shown = <<>> /\ reading.more = TRUE

(* While nothing changes, the pages read are the first ones of what the      *)
(* query selects, if the check lets all of it be opened,                     *)
AllOpen == \A i \in DOMAIN order : Selects(kind, context, rows[order[i]])
                                      <=> Opens(kind, context, rows[order[i]])
ReadSoFar ==
    /\ Len(reading.shown) = IF Len(Selected) < reading.page * PageSize
                               THEN Len(Selected) ELSE reading.page * PageSize
    /\ \A i \in 1 .. Len(reading.shown) : reading.shown[i] = Selected[i]
    /\ reading.more = TRUE <=> Len(Selected) > reading.page * PageSize

(* and nothing, if it lets none be opened. *)
NoneOpen == \A i \in DOMAIN order : ~Opens(kind, context, rows[order[i]])

PagesInv ==
    /\ ListsPlaced
    /\ OrderPlaced
    /\ ReadingPlaced
    /\ reading.calm = TRUE /\ reading.page > 0 /\ AllOpen => ReadSoFar
    /\ reading.calm = TRUE /\ NoneOpen => reading.shown = <<>>

(* The positions that the query selects. *)
LEMMA SelectedRows ==
    ASSUME OrderPlaced
    PROVE  /\ Selected \in Seq(ListRow)
           /\ \A k \in 1 .. Len(Selected) :
                 \E p \in DOMAIN order :
                     Selects(kind, context, rows[order[p]]) /\ Selected[k] = order[p]
           /\ \A p \in DOMAIN order :
                 Selects(kind, context, rows[order[p]]) =>
                     \E k \in 1 .. Len(Selected) : Selected[k] = order[p]
           /\ \A j, k \in 1 .. Len(Selected) : j # k => Selected[j] # Selected[k]
<1> DEFINE I == {i \in DOMAIN order : Selects(kind, context, rows[order[i]])}
<1>1. I \in SUBSET DOMAIN order /\ order \in Seq(ListRow)
  BY DEF OrderPlaced
<1>2. Selected = Taken(order, I)
  BY DEF Selected
<1>3. \A i, j \in DOMAIN order : i # j => order[i] # order[j]
  BY DEF OrderPlaced
<1>4. \A p \in I : p \in DOMAIN order /\ Selects(kind, context, rows[order[p]])
  OBVIOUS
<1>5. \A p \in DOMAIN order : Selects(kind, context, rows[order[p]]) => p \in I
  OBVIOUS
<1> HIDE DEF I
<1> DEFINE t == Taken(order, I)
<1>6. /\ t \in Seq(ListRow)
      /\ Len(t) = Cardinality(I)
      /\ \A k \in 1 .. Cardinality(I) : \E p \in I : t[k] = order[p]
      /\ \A p \in I : \E k \in 1 .. Cardinality(I) : t[k] = order[p]
      /\ (\A p, q \in DOMAIN order : p # q => order[p] # order[q])
           => \A j, k \in 1 .. Cardinality(I) : j # k => t[j] # t[k]
  BY <1>1, TakenRows
<1> HIDE DEF t
<1>7. /\ Selected \in Seq(ListRow)
      /\ Len(Selected) = Cardinality(I)
      /\ \A k \in 1 .. Cardinality(I) : \E p \in I : Selected[k] = order[p]
      /\ \A p \in I : \E k \in 1 .. Cardinality(I) : Selected[k] = order[p]
      /\ \A j, k \in 1 .. Cardinality(I) : j # k => Selected[j] # Selected[k]
  <2>1. Selected = t
    BY <1>2 DEF t
  <2> QED
    BY <1>3, <1>6, <2>1
<1>8. \A k \in 1 .. Len(Selected) :
         \E p \in DOMAIN order : Selects(kind, context, rows[order[p]]) /\ Selected[k] = order[p]
  <2> SUFFICES ASSUME NEW k \in 1 .. Cardinality(I)
               PROVE  \E p \in DOMAIN order :
                         Selects(kind, context, rows[order[p]]) /\ Selected[k] = order[p]
    BY <1>7
  <2>1. PICK p \in I : Selected[k] = order[p]
    BY <1>7
  <2> QED
    BY <1>4, <2>1
<1>9. \A p \in DOMAIN order :
         Selects(kind, context, rows[order[p]]) => \E k \in 1 .. Len(Selected) : Selected[k] = order[p]
  <2> SUFFICES ASSUME NEW p \in DOMAIN order, Selects(kind, context, rows[order[p]])
               PROVE  \E k \in 1 .. Len(Selected) : Selected[k] = order[p]
    OBVIOUS
  <2> QED
    BY <1>5, <1>7
<1> QED
  BY <1>7, <1>8, <1>9

(* How many rows a query that takes one more than a page gives. *)
LEMMA WindowLength ==
    ASSUME NEW n \in Nat, NEW q \in Nat, NEW size \in Nat, NEW last \in Nat,
           last = IF q + size + 1 > n THEN n ELSE q + size + 1
    PROVE  (IF q + 1 <= last THEN last - (q + 1) + 1 ELSE 0)
             = IF q >= n THEN 0 ELSE IF q + size + 1 > n THEN n - q ELSE size + 1
OBVIOUS

(* A page of it. *)
LEMMA FetchedRows ==
    ASSUME OrderPlaced, NEW page \in Nat, NEW q \in Nat, pageOffset(page + 1) = q
    PROVE  /\ Fetched(page + 1) \in Seq(ListRow)
           /\ Len(Fetched(page + 1)) = IF q >= Len(Selected) THEN 0
                                       ELSE IF q + PageSize + 1 > Len(Selected) THEN Len(Selected) - q
                                       ELSE PageSize + 1
           /\ \A i \in 1 .. Len(Fetched(page + 1)) :
                 q + i \in 1 .. Len(Selected) /\ Fetched(page + 1)[i] = Selected[q + i]
<1> DEFINE s == Selected
<1> DEFINE last == IF q + PageSize + 1 > Len(s) THEN Len(s) ELSE q + PageSize + 1
<1>1. s \in Seq(ListRow)
  BY SelectedRows
<1>2. PageSize \in Nat \ {0}
  BY ListsAssumption
<1>3. Fetched(page + 1) = SubSeq(s, q + 1, last)
  BY DEF Fetched, Sliced
<1> HIDE DEF s
<1>4. Len(s) \in Nat /\ \A i \in 1 .. Len(s) : s[i] \in ListRow
  BY <1>1
<1>5. last \in Nat /\ last <= Len(s) /\ last <= q + PageSize + 1
  BY <1>2, <1>4
<1>6. q + 1 \in Int /\ last \in Int /\ \A i \in q + 1 .. last : s[i] \in ListRow
  BY <1>4, <1>5
<1>7. last = Len(s) \/ last = q + PageSize + 1
  OBVIOUS
<1>8. last = IF q + PageSize + 1 > Len(s) THEN Len(s) ELSE q + PageSize + 1
  OBVIOUS
<1> HIDE DEF last
<1>9. /\ SubSeq(s, q + 1, last) \in Seq(ListRow)
      /\ Len(SubSeq(s, q + 1, last)) = IF q + 1 <= last THEN last - (q + 1) + 1 ELSE 0
      /\ \A i \in 1 .. last - (q + 1) + 1 : SubSeq(s, q + 1, last)[i] = s[q + 1 + i - 1]
  BY <1>6, SubSeqProperties
<1> DEFINE t == Fetched(page + 1)
<1>10. t \in Seq(ListRow) /\ Len(t) = IF q + 1 <= last THEN last - (q + 1) + 1 ELSE 0
  BY <1>3, <1>9
<1>11. Len(t) = IF q >= Len(s) THEN 0 ELSE IF q + PageSize + 1 > Len(s) THEN Len(s) - q ELSE PageSize + 1
  <2>1. (IF q + 1 <= last THEN last - (q + 1) + 1 ELSE 0)
           = IF q >= Len(s) THEN 0 ELSE IF q + PageSize + 1 > Len(s) THEN Len(s) - q ELSE PageSize + 1
    BY <1>2, <1>4, <1>5, <1>8, WindowLength
  <2> QED
    BY <1>10, <2>1, Zenon
<1>12. \A i \in 1 .. Len(t) : q + i \in 1 .. Len(s) /\ t[i] = s[q + i]
  <2> SUFFICES ASSUME NEW i \in 1 .. Len(t) PROVE q + i \in 1 .. Len(s) /\ t[i] = s[q + i]
    OBVIOUS
  <2>1. i \in 1 .. last - (q + 1) + 1
    BY <1>5, <1>10
  <2>2. q + i \in 1 .. Len(s)
    BY <1>4, <1>5, <2>1
  <2>3. q + 1 + i - 1 = q + i
    BY <2>1
  <2> QED
    BY <1>3, <1>9, <2>1, <2>3, <2>2
<1> QED
  BY <1>10, <1>11, <1>12 DEF s

(* The first rows of a sequence. *)
LEMMA FirstRows ==
    ASSUME NEW S, NEW s \in Seq(S), NEW n \in Nat
    PROVE  /\ Sliced(s, 1, n) \in Seq(S)
           /\ Len(Sliced(s, 1, n)) = IF n > Len(s) THEN Len(s) ELSE n
           /\ \A i \in 1 .. Len(Sliced(s, 1, n)) : Sliced(s, 1, n)[i] = s[i]
<1> DEFINE m == IF n > Len(s) THEN Len(s) ELSE n
<1>1. Len(s) \in Nat /\ \A i \in 1 .. Len(s) : s[i] \in S
  OBVIOUS
<1>2. m \in Nat /\ m <= Len(s)
  BY <1>1
<1>3. Sliced(s, 1, n) = SubSeq(s, 1, m)
  BY DEF Sliced
<1> HIDE DEF m
<1>4. \A i \in 1 .. m : s[i] \in S
  BY <1>1, <1>2
<1>5. /\ SubSeq(s, 1, m) \in Seq(S)
      /\ Len(SubSeq(s, 1, m)) = IF 1 <= m THEN m - 1 + 1 ELSE 0
      /\ \A i \in 1 .. m - 1 + 1 : SubSeq(s, 1, m)[i] = s[1 + i - 1]
  BY <1>2, <1>4, SubSeqProperties
<1>6. Len(SubSeq(s, 1, m)) = m
  BY <1>2, <1>5
<1>7. \A i \in 1 .. m : SubSeq(s, 1, m)[i] = s[i]
  <2> SUFFICES ASSUME NEW i \in 1 .. m PROVE SubSeq(s, 1, m)[i] = s[i]
    OBVIOUS
  <2>1. i \in 1 .. m - 1 + 1 /\ 1 + i - 1 = i
    BY <1>2
  <2> QED
    BY <1>5, <2>1
<1> QED
  BY <1>3, <1>5, <1>6, <1>7 DEF m

-----------------------------------------------------------------------------
(* Every row of a page is one of the list that the query selects. *)
LEMMA FetchedFromList ==
    ASSUME OrderPlaced, NEW page \in Nat, pageOffset(page + 1) \in Nat,
           NEW i \in 1 .. Len(Fetched(page + 1))
    PROVE  \E p \in DOMAIN order :
              Selects(kind, context, rows[order[p]]) /\ Fetched(page + 1)[i] = order[p]
<1> DEFINE q == pageOffset(page + 1)
<1>1. q + i \in 1 .. Len(Selected) /\ Fetched(page + 1)[i] = Selected[q + i]
  BY FetchedRows
<1> HIDE DEF q
<1>2. PICK p \in DOMAIN order :
          Selects(kind, context, rows[order[p]]) /\ Selected[q + i] = order[p]
  BY <1>1, SelectedRows
<1> QED
  BY <1>1, <1>2

(* What the check leaves of a page: a list of rows, all of it, or nothing. *)
LEMMA AccessibleRows ==
    ASSUME OrderPlaced, NEW page \in Nat, pageOffset(page + 1) \in Nat
    PROVE  /\ Accessible(page + 1) \in Seq(ListRow)
           /\ AllOpen => Accessible(page + 1) = Fetched(page + 1)
           /\ NoneOpen => Accessible(page + 1) = <<>>
<1> DEFINE t == Fetched(page + 1)
<1> DEFINE I == {i \in DOMAIN t : Opens(kind, context, rows[t[i]])}
<1>1. t \in Seq(ListRow)
  BY FetchedRows
<1>2. Accessible(page + 1) = Taken(t, I)
  BY DEF Accessible, Opened
<1>3. DOMAIN t = 1 .. Len(t)
  <2> HIDE DEF t
  <2> QED
    BY <1>1
<1>4. \A i \in DOMAIN t : \E p \in DOMAIN order :
         Selects(kind, context, rows[order[p]]) /\ t[i] = order[p]
  BY <1>3, FetchedFromList
<1>5. I \in SUBSET DOMAIN t
  OBVIOUS
<1>6. AllOpen => I = DOMAIN t
  BY <1>4 DEF AllOpen
<1>7. NoneOpen => I = {}
  BY <1>4 DEF NoneOpen
<1> HIDE DEF t, I
<1>8. Taken(t, I) \in Seq(ListRow)
  BY <1>1, <1>5, TakenRows
<1>9. Taken(t, DOMAIN t) = t
  BY <1>1, AllTaken
<1>10. Taken(t, {}) = <<>>
  BY NoneTaken
<1> QED
  BY <1>2, <1>6, <1>7, <1>8, <1>9, <1>10 DEF t

(* Pages are counted from one. *)
LEMMA NextOffset ==
    ASSUME NEW page \in Nat
    PROVE  /\ page * PageSize \in Nat
           /\ pageOffset(page + 1) = page * PageSize
           /\ (page + 1) * PageSize = page * PageSize + PageSize
           /\ page = 0 => page * PageSize = 0
<1>1. PageSize \in Nat
  BY ListsAssumption
<1>2. (page + 1) - 1 = page
  OBVIOUS
<1>3. page * PageSize \in Nat
  BY <1>1
<1>4. (page + 1) * PageSize = page * PageSize + PageSize
  BY <1>1
<1>5. page = 0 => page * PageSize = 0
  BY <1>1
<1> QED
  BY <1>2, <1>3, <1>4, <1>5 DEF pageOffset

(* The rows shown after a page, and whether there is another one. *)
LEMMA PageLength ==
    ASSUME NEW n \in Nat, NEW q \in Nat, NEW size \in Nat \ {0}, q <= n, NEW m,
           m = IF q >= n THEN 0 ELSE IF q + size + 1 > n THEN n - q ELSE size + 1
    PROVE  /\ m \in Nat
           /\ q + (IF size > m THEN m ELSE size) = IF n < q + size THEN n ELSE q + size
           /\ m > size <=> n > q + size
OBVIOUS

(* A client that was shown q rows and asks for the next page. *)
LEMMA PageRead ==
    ASSUME OrderPlaced, ReadingPlaced, AllOpen,
           reading.more = TRUE, reading.page > 0 => ReadSoFar
    PROVE  LET accessible == Accessible(reading.page + 1)
               shown == reading.shown \o Sliced(accessible, 1, PageSize)
               upTo == (reading.page + 1) * PageSize
           IN  /\ Len(shown) = IF Len(Selected) < upTo THEN Len(Selected) ELSE upTo
               /\ \A i \in 1 .. Len(shown) : shown[i] = Selected[i]
               /\ hasNext(accessible) <=> Len(Selected) > upTo
<1> DEFINE page == reading.page
<1> DEFINE sh == reading.shown
<1>1. page \in Nat /\ sh \in Seq(ListRow) /\ (page = 0 => sh = <<>>)
  BY DEF ReadingPlaced
<1>2. page > 0 => /\ Len(sh) = IF Len(Selected) < page * PageSize THEN Len(Selected) ELSE page * PageSize
                  /\ \A i \in 1 .. Len(sh) : sh[i] = Selected[i]
                  /\ Len(Selected) > page * PageSize
  BY DEF ReadSoFar
<1> DEFINE P == PageSize
<1> DEFINE t == Accessible(page + 1)
<1> DEFINE q == page * PageSize
<1> DEFINE n == Len(Selected)
<1> DEFINE s == Selected
<1> DEFINE m == Len(t)
<1> HIDE DEF page, sh
<1>3. /\ q \in Nat
      /\ pageOffset(page + 1) = q
      /\ (page + 1) * PageSize = q + P
      /\ page = 0 => q = 0
  BY <1>1, NextOffset
<1>4. s \in Seq(ListRow) /\ n \in Nat
  <2>1. Selected \in Seq(ListRow)
    BY SelectedRows
  <2> QED
    BY <2>1
<1>5. t = Fetched(page + 1)
  BY <1>1, <1>3, AccessibleRows
<1>6. /\ t \in Seq(ListRow)
      /\ m = IF q >= n THEN 0 ELSE IF q + P + 1 > n THEN n - q ELSE P + 1
      /\ \A i \in 1 .. m : t[i] = s[q + i]
  BY <1>1, <1>3, <1>5, FetchedRows
<1>7. Len(sh) = q /\ q <= n /\ \A i \in 1 .. q : sh[i] = s[i]
  <2>1. CASE page = 0
    <3>1. sh = <<>> /\ q = 0
      BY <1>1, <1>3, <2>1
    <3> HIDE DEF q, n, s
    <3> QED
      BY <1>4, <3>1
  <2>2. CASE page > 0
    <3>1. Len(sh) = (IF n < q THEN n ELSE q) /\ (\A i \in 1 .. Len(sh) : sh[i] = s[i]) /\ n > q
      BY <1>2, <2>2
    <3> HIDE DEF q, n, s
    <3> QED
      BY <1>3, <1>4, <3>1
  <2> HIDE DEF q, n, s
  <2> QED
    BY <1>1, <2>1, <2>2
<1>8. P \in Nat \ {0}
  BY ListsAssumption
<1> DEFINE u == Sliced(t, 1, P)
<1>9. /\ u \in Seq(ListRow)
      /\ Len(u) = IF P > m THEN m ELSE P
      /\ \A i \in 1 .. Len(u) : u[i] = t[i]
  <2> HIDE DEF t, P
  <2> QED
    BY <1>6, <1>8, FirstRows
<1> HIDE DEF P, t, q, n, s, m, u
<1>10. /\ m \in Nat
       /\ q + (IF P > m THEN m ELSE P) = IF n < q + P THEN n ELSE q + P
       /\ m > P <=> n > q + P
  BY <1>3, <1>4, <1>6, <1>7, <1>8, PageLength
<1>11. /\ Len(sh \o u) = q + Len(u)
       /\ \A i \in 1 .. q + Len(u) : (sh \o u)[i] = IF i <= q THEN sh[i] ELSE u[i - q]
  <2>1. /\ Len(sh \o u) = Len(sh) + Len(u)
        /\ \A i \in 1 .. Len(sh) + Len(u) :
              (sh \o u)[i] = IF i <= Len(sh) THEN sh[i] ELSE u[i - Len(sh)]
    BY <1>1, <1>9, ConcatProperties
  <2> QED
    BY <1>7, <2>1, Zenon
<1>12. Len(sh \o u) = IF n < q + P THEN n ELSE q + P
  BY <1>9, <1>10, <1>11
<1>13. Len(u) \in Nat /\ Len(u) <= m
  BY <1>8, <1>9, <1>10
<1>14. \A i \in 1 .. Len(sh \o u) : (sh \o u)[i] = s[i]
  <2> SUFFICES ASSUME NEW i \in 1 .. q + Len(u) PROVE (sh \o u)[i] = s[i]
    BY <1>11
  <2>1. CASE i <= q
    BY <1>3, <1>7, <1>11, <2>1
  <2>2. CASE ~(i <= q)
    <3>1. i - q \in 1 .. Len(u) /\ i - q \in 1 .. m /\ q + (i - q) = i
      BY <1>3, <1>10, <1>13, <2>2
    <3>2. (sh \o u)[i] = u[i - q]
      BY <1>11, <2>2
    <3>3. u[i - q] = t[i - q] /\ t[i - q] = s[q + (i - q)]
      BY <1>6, <1>9, <3>1
    <3> QED
      BY <3>1, <3>2, <3>3
  <2> QED
    BY <2>1, <2>2
<1>15. hasNext(t) <=> n > q + P
  BY <1>10 DEF hasNext, m, P
<1>16. (page + 1) * PageSize = q + P
  BY <1>3
<1> QED
  BY <1>12, <1>14, <1>15, <1>16 DEF page, sh, P, t, n, s, u

-----------------------------------------------------------------------------
(* A row that is put into the list. *)
LEMMA InsertedRows ==
    ASSUME NEW x \in ListRow, NEW i \in 0 .. Len(order), OrderPlaced, rows[x] = Blank
    PROVE  /\ InsertedAt(x, i) \in Seq(ListRow)
           /\ \A j, k \in DOMAIN InsertedAt(x, i) :
                 j # k => InsertedAt(x, i)[j] # InsertedAt(x, i)[k]
           /\ \E k \in DOMAIN InsertedAt(x, i) : InsertedAt(x, i)[k] = x
           /\ \A y \in ListRow \ {x} :
                 (\E k \in DOMAIN InsertedAt(x, i) : InsertedAt(x, i)[k] = y)
                   <=> \E k \in DOMAIN order : order[k] = y
<1> DEFINE n == Len(order)
<1> DEFINE a == SubSeq(order, 1, i)
<1> DEFINE b == SubSeq(order, i + 1, n)
<1> DEFINE t == InsertedAt(x, i)
<1>1. /\ order \in Seq(ListRow) /\ n \in Nat /\ DOMAIN order = 1 .. n
      /\ \A k \in 1 .. n : order[k] \in ListRow
  BY DEF OrderPlaced
<1>2. \A j, k \in 1 .. n : j # k => order[j] # order[k]
  BY <1>1 DEF OrderPlaced
<1>3. \A k \in 1 .. n : order[k] # x
  BY <1>1 DEF OrderPlaced
<1>4. t = (a \o <<x>>) \o b
  BY DEF InsertedAt
<1> HIDE DEF n, t
<1>5. i \in Nat /\ i <= n
  BY <1>1 DEF n
<1>6. /\ a \in Seq(ListRow)
      /\ Len(a) = i
      /\ \A k \in 1 .. i : a[k] = order[k]
  <2>1. \A k \in 1 .. i : order[k] \in ListRow
    BY <1>1, <1>5
  <2>2. /\ SubSeq(order, 1, i) \in Seq(ListRow)
        /\ Len(SubSeq(order, 1, i)) = IF 1 <= i THEN i - 1 + 1 ELSE 0
        /\ \A k \in 1 .. i - 1 + 1 : SubSeq(order, 1, i)[k] = order[1 + k - 1]
    BY <1>5, <2>1, SubSeqProperties
  <2>3. \A k \in 1 .. i : k \in 1 .. i - 1 + 1 /\ 1 + k - 1 = k
    BY <1>5
  <2> QED
    BY <1>5, <2>2, <2>3
<1>7. /\ b \in Seq(ListRow)
      /\ Len(b) = n - i
      /\ \A k \in 1 .. n - i : b[k] = order[i + k]
  <2>1. i + 1 \in Int /\ n \in Int /\ \A k \in i + 1 .. n : order[k] \in ListRow
    BY <1>1, <1>5
  <2>2. /\ SubSeq(order, i + 1, n) \in Seq(ListRow)
        /\ Len(SubSeq(order, i + 1, n)) = IF i + 1 <= n THEN n - (i + 1) + 1 ELSE 0
        /\ \A k \in 1 .. n - (i + 1) + 1 : SubSeq(order, i + 1, n)[k] = order[i + 1 + k - 1]
    BY <2>1, SubSeqProperties
  <2>3. \A k \in 1 .. n - i : k \in 1 .. n - (i + 1) + 1 /\ i + 1 + k - 1 = i + k
    BY <1>1, <1>5
  <2>4. Len(SubSeq(order, i + 1, n)) = n - i
    BY <1>1, <1>5, <2>2
  <2> QED
    BY <2>2, <2>3, <2>4
<1> HIDE DEF a, b
<1>8. /\ a \o <<x>> \in Seq(ListRow)
      /\ Len(a \o <<x>>) = i + 1
      /\ \A k \in 1 .. i + 1 : (a \o <<x>>)[k] = IF k <= i THEN order[k] ELSE x
  <2>1. <<x>> \in Seq(ListRow) /\ Len(<<x>>) = 1 /\ <<x>>[1] = x
    OBVIOUS
  <2>2. /\ a \o <<x>> \in Seq(ListRow)
        /\ Len(a \o <<x>>) = Len(a) + Len(<<x>>)
        /\ \A k \in 1 .. Len(a) + Len(<<x>>) :
              (a \o <<x>>)[k] = IF k <= Len(a) THEN a[k] ELSE <<x>>[k - Len(a)]
    BY <1>6, <2>1, ConcatProperties
  <2>3. \A k \in 1 .. i + 1 : k <= i \/ k - i = 1
    BY <1>5
  <2> QED
    BY <1>5, <1>6, <2>1, <2>2, <2>3
<1> DEFINE c == a \o <<x>>
<1>9. /\ t \in Seq(ListRow)
      /\ Len(t) = n + 1
      /\ \A k \in 1 .. n + 1 :
            t[k] = IF k <= i THEN order[k] ELSE IF k = i + 1 THEN x ELSE order[k - 1]
  <2>1. c \in Seq(ListRow) /\ Len(c) = i + 1
        /\ \A k \in 1 .. i + 1 : c[k] = IF k <= i THEN order[k] ELSE x
    BY <1>8
  <2> HIDE DEF c
  <2>2. /\ c \o b \in Seq(ListRow)
        /\ Len(c \o b) = Len(c) + Len(b)
        /\ \A k \in 1 .. Len(c) + Len(b) :
              (c \o b)[k] = IF k <= Len(c) THEN c[k] ELSE b[k - Len(c)]
    BY <1>7, <2>1, ConcatProperties
  <2>3. Len(c) + Len(b) = n + 1
    BY <1>1, <1>5, <1>7, <2>1
  <2>4. t = c \o b
    BY <1>4 DEF c
  <2>5. ASSUME NEW k \in 1 .. n + 1
        PROVE  t[k] = IF k <= i THEN order[k] ELSE IF k = i + 1 THEN x ELSE order[k - 1]
    <3>1. t[k] = IF k <= i + 1 THEN c[k] ELSE b[k - (i + 1)]
      BY <2>1, <2>2, <2>3, <2>4
    <3>2. CASE k <= i + 1
      <4>1. k \in 1 .. i + 1
        BY <1>5, <3>2
      <4> QED
        BY <1>5, <2>1, <3>1, <3>2, <4>1
    <3>3. CASE ~(k <= i + 1)
      <4>1. k - (i + 1) \in 1 .. n - i /\ i + (k - (i + 1)) = k - 1
        BY <1>1, <1>5, <3>3
      <4>2. t[k] = order[k - 1]
        BY <1>7, <3>1, <3>3, <4>1
      <4> QED
        BY <1>5, <3>3, <4>2
    <3> QED
      BY <3>2, <3>3
  <2> QED
    BY <2>2, <2>3, <2>4, <2>5
<1>10. DOMAIN t = 1 .. n + 1
  BY <1>9
<1>11. t[i + 1] = x /\ i + 1 \in 1 .. n + 1
  BY <1>1, <1>5, <1>9
<1>12. \A k \in 1 .. n + 1 :
          k # i + 1 => \E j \in 1 .. n : t[k] = order[j] /\ j = IF k <= i THEN k ELSE k - 1
  <2> SUFFICES ASSUME NEW k \in 1 .. n + 1, k # i + 1
               PROVE  \E j \in 1 .. n : t[k] = order[j] /\ j = IF k <= i THEN k ELSE k - 1
    OBVIOUS
  <2>1. (IF k <= i THEN k ELSE k - 1) \in 1 .. n
    BY <1>1, <1>5
  <2>2. t[k] = order[IF k <= i THEN k ELSE k - 1]
    BY <1>9
  <2> QED
    BY <2>1, <2>2
<1>13. ASSUME NEW j \in 1 .. n + 1, NEW k \in 1 .. n + 1, j # k
       PROVE  t[j] # t[k]
  <2>1. CASE j = i + 1
    BY <1>3, <1>11, <1>12, <1>13, <2>1
  <2>2. CASE k = i + 1
    BY <1>3, <1>11, <1>12, <1>13, <2>2
  <2>3. CASE j # i + 1 /\ k # i + 1
    <3>1. PICK p \in 1 .. n : t[j] = order[p] /\ p = IF j <= i THEN j ELSE j - 1
      BY <1>12, <2>3
    <3>2. PICK q \in 1 .. n : t[k] = order[q] /\ q = IF k <= i THEN k ELSE k - 1
      BY <1>12, <2>3
    <3>3. p # q
      BY <1>1, <1>5, <1>13, <2>3, <3>1, <3>2
    <3> QED
      BY <1>2, <3>1, <3>2, <3>3
  <2> QED
    BY <2>1, <2>2, <2>3
<1>14. ASSUME NEW k \in 1 .. n PROVE \E j \in 1 .. n + 1 : t[j] = order[k]
  <2>1. CASE k <= i
    <3>1. k \in 1 .. n + 1
      BY <1>1
    <3> QED
      BY <1>9, <2>1, <3>1
  <2>2. CASE ~(k <= i)
    <3>1. k + 1 \in 1 .. n + 1 /\ ~(k + 1 <= i) /\ k + 1 # i + 1 /\ k + 1 - 1 = k
      BY <1>1, <1>5, <2>2
    <3> QED
      BY <1>9, <3>1
  <2> QED
    BY <2>1, <2>2
<1>15. ASSUME NEW y \in ListRow \ {x}
       PROVE  (\E k \in 1 .. n + 1 : t[k] = y) <=> \E k \in 1 .. n : order[k] = y
  BY <1>11, <1>12, <1>14
<1> QED
  BY <1>1, <1>9, <1>10, <1>11, <1>13, <1>15 DEF t

(* A row that comes to the top of the list. *)
LEMMA ToppedRows ==
    ASSUME NEW x \in ListRow, OrderPlaced
    PROVE  /\ <<x>> \o Without(x) \in Seq(ListRow)
           /\ \A j, k \in DOMAIN (<<x>> \o Without(x)) :
                 j # k => (<<x>> \o Without(x))[j] # (<<x>> \o Without(x))[k]
           /\ \E k \in DOMAIN (<<x>> \o Without(x)) : (<<x>> \o Without(x))[k] = x
           /\ \A y \in ListRow \ {x} :
                 (\E k \in DOMAIN (<<x>> \o Without(x)) : (<<x>> \o Without(x))[k] = y)
                   <=> \E k \in DOMAIN order : order[k] = y
<1> DEFINE I == {i \in DOMAIN order : order[i] # x}
<1> DEFINE w == Without(x)
<1> DEFINE t == <<x>> \o w
<1> DEFINE n == Cardinality(I)
<1>1. order \in Seq(ListRow) /\ \A i, j \in DOMAIN order : i # j => order[i] # order[j]
  BY DEF OrderPlaced
<1>2. w = Taken(order, I)
  BY DEF Without
<1>3. I \in SUBSET DOMAIN order
  OBVIOUS
<1>4. \A p \in I : p \in DOMAIN order /\ order[p] # x
  OBVIOUS
<1>5. \A p \in DOMAIN order : order[p] # x => p \in I
  OBVIOUS
<1> HIDE DEF w, I
<1>6. /\ w \in Seq(ListRow) /\ Len(w) = n /\ n \in Nat
      /\ \A k \in 1 .. n : \E p \in I : w[k] = order[p]
      /\ \A p \in I : \E k \in 1 .. n : w[k] = order[p]
      /\ \A j, k \in 1 .. n : j # k => w[j] # w[k]
  <2> DEFINE v == Taken(order, I)
  <2>1. /\ v \in Seq(ListRow)
        /\ Len(v) = Cardinality(I)
        /\ Cardinality(I) \in Nat
        /\ \A k \in 1 .. Cardinality(I) : \E p \in I : v[k] = order[p]
        /\ \A p \in I : \E k \in 1 .. Cardinality(I) : v[k] = order[p]
        /\ (\A p, q \in DOMAIN order : p # q => order[p] # order[q])
             => \A j, k \in 1 .. Cardinality(I) : j # k => v[j] # v[k]
    BY <1>1, <1>3, TakenRows
  <2>2. w = v
    BY <1>2
  <2> HIDE DEF v
  <2> QED
    BY <1>1, <2>1, <2>2
<1> HIDE DEF n
<1>7. <<x>> \in Seq(ListRow) /\ Len(<<x>>) = 1 /\ <<x>>[1] = x
  OBVIOUS
<1>8. /\ t \in Seq(ListRow)
      /\ Len(t) = 1 + n
      /\ \A k \in 1 .. 1 + n : t[k] = IF k <= 1 THEN <<x>>[k] ELSE w[k - 1]
  <2>1. /\ t \in Seq(ListRow)
        /\ Len(t) = Len(<<x>>) + Len(w)
        /\ \A k \in 1 .. Len(<<x>>) + Len(w) :
              t[k] = IF k <= Len(<<x>>) THEN <<x>>[k] ELSE w[k - Len(<<x>>)]
    BY <1>6, <1>7, ConcatProperties
  <2> HIDE DEF t
  <2> QED
    BY <1>6, <1>7, <2>1
<1> HIDE DEF t
<1>9. DOMAIN t = 1 .. 1 + n
  BY <1>8
<1>10. t[1] = x /\ 1 \in 1 .. 1 + n
  BY <1>6, <1>7, <1>8
<1>11. \A k \in 1 .. 1 + n : k # 1 => k - 1 \in 1 .. n /\ t[k] = w[k - 1]
  BY <1>6, <1>8
<1>12. \A k \in 1 .. n : k + 1 \in 1 .. 1 + n /\ t[k + 1] = w[k]
  <2> SUFFICES ASSUME NEW k \in 1 .. n PROVE k + 1 \in 1 .. 1 + n /\ t[k + 1] = w[k]
    OBVIOUS
  <2>1. k + 1 \in 1 .. 1 + n /\ k + 1 # 1 /\ (k + 1) - 1 = k
    BY <1>6
  <2> QED
    BY <1>11, <2>1
<1>13. \A k \in 1 .. n : w[k] # x
  BY <1>6, <1>4
<1>14. ASSUME NEW j \in 1 .. 1 + n, NEW k \in 1 .. 1 + n, j # k
       PROVE  t[j] # t[k]
  <2>1. CASE j = 1
    BY <1>10, <1>11, <1>13, <1>14, <2>1
  <2>2. CASE k = 1
    BY <1>10, <1>11, <1>13, <1>14, <2>2
  <2>3. CASE j # 1 /\ k # 1
    <3>1. j - 1 # k - 1
      BY <1>6, <1>14
    <3>2. /\ j - 1 \in 1 .. n /\ t[j] = w[j - 1]
          /\ k - 1 \in 1 .. n /\ t[k] = w[k - 1]
      BY <1>11, <2>3
    <3> QED
      BY <1>6, <3>1, <3>2
  <2> QED
    BY <2>1, <2>2, <2>3
<1>15. ASSUME NEW y \in ListRow \ {x}
       PROVE  (\E k \in 1 .. 1 + n : t[k] = y) <=> \E k \in DOMAIN order : order[k] = y
  <2>1. ASSUME NEW k \in 1 .. 1 + n, t[k] = y
        PROVE  \E p \in DOMAIN order : order[p] = y
    <3>1. k # 1
      BY <1>10, <2>1
    <3>2. k - 1 \in 1 .. n /\ t[k] = w[k - 1]
      BY <1>11, <3>1
    <3> QED
      BY <1>6, <1>4, <2>1, <3>2
  <2>2. ASSUME NEW p \in DOMAIN order, order[p] = y
        PROVE  \E k \in 1 .. 1 + n : t[k] = y
    <3>1. p \in I
      BY <1>5, <2>2
    <3>2. PICK k \in 1 .. n : w[k] = order[p]
      BY <1>6, <3>1
    <3> QED
      BY <1>12, <2>2, <3>2
  <2> QED
    BY <2>1, <2>2
<1> QED
  BY <1>8, <1>9, <1>10, <1>14, <1>15 DEF t, w

-----------------------------------------------------------------------------
(* What disturbs the pages ends the claim about them, unless none is read. *)
LEMMA DisturbedPages ==
    ASSUME PagesInv, Disturb, ListsPlaced', OrderPlaced'
    PROVE  PagesInv'
<1>1. reading \in [page: Nat, shown: Seq(ListRow), more: BOOLEAN, calm: BOOLEAN]
  BY DEF PagesInv, ReadingPlaced
<1>2. reading.page \in Nat
  BY <1>1
<1>3. reading' \in [page: Nat, shown: Seq(ListRow), more: BOOLEAN, calm: BOOLEAN]
  BY <1>1 DEF Disturb
<1>4. /\ reading'.page = reading.page /\ reading'.shown = reading.shown
      /\ reading'.more = reading.more /\ (reading'.calm <=> reading.page = 0)
  BY <1>1 DEF Disturb
<1>5. ReadingPlaced'
  BY <1>3, <1>4 DEF PagesInv, ReadingPlaced
<1>6. reading'.calm = TRUE => reading'.page = 0
  BY <1>4
<1>7. (reading.calm = TRUE /\ reading.page > 0 /\ AllOpen => ReadSoFar)'
  BY <1>2, <1>4, <1>6
<1>8. (reading.calm = TRUE /\ NoneOpen => reading.shown = <<>>)'
  BY <1>5, <1>6 DEF ReadingPlaced
<1> QED
  BY <1>5, <1>7, <1>8 DEF PagesInv

LEMMA ArriveKeepsPages ==
    ASSUME PagesInv, NEW x \in ListRow, Arrive(x), ListsPlaced'
    PROVE  PagesInv'
<1>1. PICK i \in Places : order' = InsertedAt(x, i)
  BY DEF Arrive
<1>2. i \in 0 .. Len(order)
  BY <1>1 DEF Places, PagesInv, OrderPlaced
<1>3. OrderPlaced
  BY DEF PagesInv
<1>4. /\ order' \in Seq(ListRow)
      /\ \A j, k \in DOMAIN order' : j # k => order'[j] # order'[k]
      /\ \E k \in DOMAIN order' : order'[k] = x
      /\ \A y \in ListRow \ {x} :
            (\E k \in DOMAIN order' : order'[k] = y) <=> \E k \in DOMAIN order : order[k] = y
  BY <1>1, <1>2, <1>3, InsertedRows DEF Arrive
<1>5. PICK r \in Records(kind) : rows' = [rows EXCEPT ![x] = r]
  BY DEF Arrive
<1>6. r # Blank
  BY <1>5, RecordsAssumption DEF PagesInv, ListsPlaced
<1>7. rows'[x] = r /\ \A y \in ListRow \ {x} : rows'[y] = rows[y]
  BY <1>5 DEF PagesInv, ListsPlaced
<1>8. \A y \in ListRow : rows'[y] # Blank <=> \E k \in DOMAIN order' : order'[k] = y
  <2> SUFFICES ASSUME NEW y \in ListRow
               PROVE  rows'[y] # Blank <=> \E k \in DOMAIN order' : order'[k] = y
    OBVIOUS
  <2>1. CASE y = x
    BY <1>4, <1>6, <1>7, <2>1
  <2>2. CASE y # x
    <3>1. rows[y] # Blank <=> \E k \in DOMAIN order : order[k] = y
      BY <1>3 DEF OrderPlaced
    <3> QED
      BY <1>4, <1>7, <2>2, <3>1
  <2> QED
    BY <2>1, <2>2
<1>9. Disturb
  BY DEF Arrive
<1>10. Blank' = Blank
  BY DEF Blank
<1>11. OrderPlaced'
  BY <1>4, <1>8, <1>10 DEF OrderPlaced
<1> QED
  BY <1>9, <1>11, DisturbedPages

LEMMA ReassignKeepsPages ==
    ASSUME PagesInv, NEW x \in ListRow, Reassign(x), ListsPlaced'
    PROVE  PagesInv'
<1>1. PICK r \in Records(kind) : rows' = [rows EXCEPT ![x] = r]
  BY DEF Reassign
<1>2. r # Blank /\ rows[x] # Blank
  BY <1>1, RecordsAssumption DEF PagesInv, ListsPlaced, Reassign
<1>3. \A y \in ListRow : rows'[y] # Blank <=> rows[y] # Blank
  BY <1>1, <1>2 DEF PagesInv, ListsPlaced
<1>4. order' = order /\ Disturb
  BY DEF Reassign
<1>5. OrderPlaced'
  BY <1>3, <1>4 DEF PagesInv, OrderPlaced, Blank
<1> QED
  BY <1>4, <1>5, DisturbedPages

LEMMA MessageKeepsPages ==
    ASSUME PagesInv, NEW x \in ListRow, MessageComes(x), ListsPlaced'
    PROVE  PagesInv'
<1>1. OrderPlaced /\ rows[x] # Blank /\ rows' = rows /\ Disturb /\ order' = <<x>> \o Without(x)
  BY DEF PagesInv, MessageComes
<1>2. /\ order' \in Seq(ListRow)
      /\ \A j, k \in DOMAIN order' : j # k => order'[j] # order'[k]
      /\ \E k \in DOMAIN order' : order'[k] = x
      /\ \A y \in ListRow \ {x} :
            (\E k \in DOMAIN order' : order'[k] = y) <=> \E k \in DOMAIN order : order[k] = y
  <2> DEFINE t == <<x>> \o Without(x)
  <2>1. /\ t \in Seq(ListRow)
        /\ \A j, k \in DOMAIN t : j # k => t[j] # t[k]
        /\ \E k \in DOMAIN t : t[k] = x
        /\ \A y \in ListRow \ {x} :
              (\E k \in DOMAIN t : t[k] = y) <=> \E k \in DOMAIN order : order[k] = y
    BY <1>1, ToppedRows
  <2>2. order' = t
    BY <1>1
  <2> HIDE DEF t
  <2> QED
    BY <2>1, <2>2
<1>3. \A y \in ListRow : rows'[y] # Blank <=> \E k \in DOMAIN order' : order'[k] = y
  <2> SUFFICES ASSUME NEW y \in ListRow
               PROVE  rows'[y] # Blank <=> \E k \in DOMAIN order' : order'[k] = y
    OBVIOUS
  <2>1. CASE y = x
    BY <1>1, <1>2, <2>1
  <2>2. CASE y # x
    <3>1. rows[y] # Blank <=> \E k \in DOMAIN order : order[k] = y
      BY <1>1 DEF OrderPlaced
    <3> QED
      BY <1>1, <1>2, <2>2, <3>1
  <2> QED
    BY <2>1, <2>2
<1>4. Blank' = Blank
  BY DEF Blank
<1>5. OrderPlaced'
  BY <1>2, <1>3, <1>4 DEF OrderPlaced
<1> QED
  BY <1>1, <1>5, DisturbedPages

LEMMA RescopeKeepsPages ==
    ASSUME PagesInv, NEW c \in Contexts, Rescope(c), ListsPlaced'
    PROVE  PagesInv'
<1>1. order' = order /\ rows' = rows /\ Disturb
  BY DEF Rescope
<1>2. OrderPlaced'
  BY <1>1 DEF PagesInv, OrderPlaced, Blank
<1> QED
  BY <1>1, <1>2, DisturbedPages

LEMMA RestartKeepsPages ==
    ASSUME PagesInv, Restart, ListsPlaced'
    PROVE  PagesInv'
<1>1. order' = order /\ rows' = rows
  BY DEF Restart
<1>2. OrderPlaced'
  BY <1>1 DEF PagesInv, OrderPlaced, Blank
<1>3. reading' = [page |-> 0, shown |-> <<>>, more |-> TRUE, calm |-> TRUE]
  BY DEF Restart, Unread
<1>4. /\ reading' \in [page: Nat, shown: Seq(ListRow), more: BOOLEAN, calm: BOOLEAN]
      /\ reading'.page = 0 /\ reading'.shown = <<>> /\ reading'.more = TRUE
  BY <1>3
<1>5. ReadingPlaced'
  BY <1>4 DEF ReadingPlaced
<1>6. (reading.calm = TRUE /\ reading.page > 0 /\ AllOpen => ReadSoFar)'
  BY <1>4
<1> QED
  BY <1>2, <1>4, <1>5, <1>6 DEF PagesInv

(* The next page continues the first ones. *)
LEMMA FetchKeepsPages ==
    ASSUME PagesInv, FetchPage, ListsPlaced'
    PROVE  PagesInv'
<1> DEFINE t == Accessible(reading.page + 1)
<1> DEFINE u == Sliced(t, 1, PageSize)
<1>1. /\ order' = order /\ rows' = rows /\ kind' = kind /\ context' = context
      /\ reading.more = TRUE
  <2>1. reading.more \in BOOLEAN
    BY DEF PagesInv, ReadingPlaced
  <2> QED
    BY <2>1 DEF FetchPage
<1>2. reading' = [reading EXCEPT !.page = reading.page + 1, !.shown = reading.shown \o u,
                                 !.more = hasNext(t)]
  BY DEF FetchPage
<1>3. OrderPlaced /\ ReadingPlaced
  BY DEF PagesInv
<1>4. reading \in [page: Nat, shown: Seq(ListRow), more: BOOLEAN, calm: BOOLEAN]
  BY <1>3 DEF ReadingPlaced
<1>5. /\ reading.page \in Nat /\ reading.page * PageSize \in Nat
      /\ pageOffset(reading.page + 1) = reading.page * PageSize
  BY <1>4, NextOffset
<1>6. t \in Seq(ListRow) /\ (NoneOpen => t = <<>>)
  BY <1>3, <1>5, AccessibleRows
<1>7. PageSize \in Nat
  BY ListsAssumption
<1>8. u \in Seq(ListRow) /\ (t = <<>> => u = <<>>)
  <2> HIDE DEF t
  <2>1. u \in Seq(ListRow) /\ Len(u) = IF PageSize > Len(t) THEN Len(t) ELSE PageSize
    BY <1>6, <1>7, FirstRows
  <2> HIDE DEF u
  <2>2. t = <<>> => Len(u) = 0
    BY <1>7, <2>1
  <2> QED
    BY <2>1, <2>2
<1> HIDE DEF t, u
<1>9. reading.shown \o u \in Seq(ListRow) /\ hasNext(t) \in BOOLEAN
  BY <1>4, <1>8 DEF hasNext
<1>10. reading' \in [page: Nat, shown: Seq(ListRow), more: BOOLEAN, calm: BOOLEAN]
  <2>1. reading.page + 1 \in Nat /\ reading.calm \in BOOLEAN
    BY <1>4, <1>5
  <2> DEFINE next == reading.page + 1
  <2> DEFINE all == reading.shown \o u
  <2> DEFINE more == hasNext(t)
  <2>2. next \in Nat /\ all \in Seq(ListRow) /\ more \in BOOLEAN
    BY <1>9, <2>1
  <2>3. reading' = [reading EXCEPT !.page = next, !.shown = all, !.more = more]
    BY <1>2
  <2> HIDE DEF next, all, more
  <2> QED
    BY <1>4, <2>2, <2>3
<1>11. /\ reading'.page = reading.page + 1
       /\ reading'.shown = reading.shown \o u
       /\ reading'.more = hasNext(t)
       /\ reading'.calm = reading.calm
  BY <1>2, <1>4
<1>12. OrderPlaced'
  BY <1>1, <1>3 DEF OrderPlaced, Blank
<1>13. ReadingPlaced'
  BY <1>5, <1>10, <1>11 DEF ReadingPlaced
<1>14. Selected' = Selected
  BY <1>1 DEF Selected
<1>15. AllOpen' = AllOpen /\ NoneOpen' = NoneOpen
  BY <1>1 DEF AllOpen, NoneOpen
<1>16. ASSUME reading'.calm = TRUE, AllOpen'
       PROVE  ReadSoFar'
  <2>1. AllOpen /\ (reading.page > 0 => ReadSoFar)
    BY <1>11, <1>15, <1>16 DEF PagesInv
  <2>2. /\ Len(reading.shown \o u) = IF Len(Selected) < (reading.page + 1) * PageSize
                                         THEN Len(Selected) ELSE (reading.page + 1) * PageSize
        /\ \A i \in 1 .. Len(reading.shown \o u) : (reading.shown \o u)[i] = Selected[i]
        /\ hasNext(t) <=> Len(Selected) > (reading.page + 1) * PageSize
    BY <1>1, <1>3, <2>1, PageRead DEF t, u
  <2>3. /\ Len(reading'.shown) = IF Len(Selected') < reading'.page * PageSize
                                   THEN Len(Selected') ELSE reading'.page * PageSize
        /\ \A i \in 1 .. Len(reading'.shown) : reading'.shown[i] = Selected'[i]
        /\ reading'.more = TRUE <=> Len(Selected') > reading'.page * PageSize
    BY <1>9, <1>11, <1>14, <2>2, Zenon
  <2> QED
    BY <2>3 DEF ReadSoFar
<1>17. ASSUME reading'.calm = TRUE, NoneOpen'
       PROVE  reading'.shown = <<>>
  <2>1. reading.shown = <<>> /\ u = <<>>
    BY <1>6, <1>8, <1>11, <1>15, <1>17 DEF PagesInv
  <2> QED
    BY <1>11, <2>1
<1> QED
  BY <1>12, <1>13, <1>16, <1>17 DEF PagesInv

LEMMA PagesInductive ==
    ASSUME PagesInv, [ListsNext]_listVars
    PROVE  PagesInv'
<1>1. ListsPlaced'
  BY ListsInductive DEF PagesInv
<1>2. ASSUME NEW x \in ListRow, Arrive(x) \/ Reassign(x) \/ MessageComes(x)
      PROVE  PagesInv'
  BY <1>1, <1>2, ArriveKeepsPages, ReassignKeepsPages, MessageKeepsPages
<1>3. ASSUME NEW c \in Contexts, Rescope(c)
      PROVE  PagesInv'
  BY <1>1, <1>3, RescopeKeepsPages
<1>4. CASE FetchPage
  BY <1>1, <1>4, FetchKeepsPages
<1>5. CASE Restart
  BY <1>1, <1>5, RestartKeepsPages
<1>6. CASE UNCHANGED listVars
  BY <1>6 DEF listVars, PagesInv, ListsPlaced, OrderPlaced, ReadingPlaced, ReadSoFar, AllOpen,
              NoneOpen, Selected, Blank
<1> QED
  BY <1>2, <1>3, <1>4, <1>5, <1>6 DEF ListsNext

(* At the end everything selected is shown, and that is what may be opened. *)
LEMMA PagesEnd ==
    ASSUME PagesInv
    PROVE  PagesComplete
<1> DEFINE sh == reading.shown
<1> SUFFICES ASSUME reading.calm, ~reading.more, Mirrored(kind, context)
             PROVE  /\ {sh[i] : i \in DOMAIN sh}
                         = {x \in ListRow : rows[x] # Blank /\ Opens(kind, context, rows[x])}
                    /\ \A i, j \in DOMAIN sh : i # j => sh[i] # sh[j]
  BY DEF PagesComplete
<1>1. OrderPlaced /\ ListsPlaced /\ ReadingPlaced
  BY DEF PagesInv
<1>2. reading \in [page: Nat, shown: Seq(ListRow), more: BOOLEAN, calm: BOOLEAN]
  BY <1>1 DEF ReadingPlaced
<1>3. reading.calm = TRUE /\ reading.more = FALSE /\ reading.page \in Nat /\ reading.page # 0
  BY <1>1, <1>2 DEF ReadingPlaced
<1>4. context \in AuthorizationContext /\ kind \in Kinds
  BY <1>1, ContextsAssumption DEF ListsPlaced
<1>5. \A x \in ListRow : rows[x] # Blank <=> \E p \in DOMAIN order : order[p] = x
  BY <1>1 DEF OrderPlaced
<1>6. \A p \in DOMAIN order : order[p] \in ListRow
  BY <1>1 DEF OrderPlaced
<1>7. CASE Closed(kind, context)
  <2>1. \A x \in ListRow : ~Opens(kind, context, rows[x])
    BY <1>7, ClosedOpensNone
  <2>2. NoneOpen
    BY <1>6, <2>1 DEF NoneOpen
  <2>3. sh = <<>>
    BY <1>3, <2>2 DEF PagesInv
  <2> QED
    BY <2>1, <2>3
<1>8. CASE ~Closed(kind, context)
  <2>1. \A p \in DOMAIN order : kind # "USERS" => Placed(rows[order[p]])
    <3> SUFFICES ASSUME NEW p \in DOMAIN order, kind # "USERS" PROVE Placed(rows[order[p]])
      OBVIOUS
    <3>1. order[p] \in ListRow /\ rows[order[p]] # Blank
      BY <1>5, <1>6
    <3>2. rows[order[p]] \in Records(kind)
      BY <1>1, <3>1 DEF ListsPlaced
    <3> QED
      BY <1>4, <3>2, RecordsAssumption DEF Placed
  <2>2. AllOpen
    <3> SUFFICES ASSUME NEW p \in DOMAIN order
                 PROVE  Selects(kind, context, rows[order[p]]) <=> Opens(kind, context, rows[order[p]])
      BY DEF AllOpen
    <3>1. kind # "USERS" => Placed(rows[order[p]])
      BY <2>1
    <3> QED
      BY <1>4, <1>8, <3>1, ListFinds
  <2>3. ReadSoFar
    BY <1>3, <2>2 DEF PagesInv
  <2> DEFINE s == Selected
  <2>4. /\ s \in Seq(ListRow)
        /\ \A k \in 1 .. Len(s) :
              \E p \in DOMAIN order : Selects(kind, context, rows[order[p]]) /\ s[k] = order[p]
        /\ \A p \in DOMAIN order :
              Selects(kind, context, rows[order[p]]) => \E k \in 1 .. Len(s) : s[k] = order[p]
        /\ \A j, k \in 1 .. Len(s) : j # k => s[j] # s[k]
    BY <1>1, SelectedRows
  <2>5. reading.page * PageSize \in Nat
    BY <1>3, NextOffset
  <2>6. /\ Len(sh) = IF Len(s) < reading.page * PageSize THEN Len(s) ELSE reading.page * PageSize
        /\ \A i \in 1 .. Len(sh) : sh[i] = s[i]
        /\ ~(Len(s) > reading.page * PageSize)
    BY <1>3, <2>3 DEF ReadSoFar
  <2> DEFINE upTo == reading.page * PageSize
  <2> HIDE DEF s, upTo
  <2>7. Len(s) \in Nat
    BY <2>4
  <2>8. Len(sh) = Len(s)
    <3>1. upTo \in Nat /\ Len(sh) = (IF Len(s) < upTo THEN Len(s) ELSE upTo) /\ ~(Len(s) > upTo)
      BY <2>5, <2>6 DEF upTo
    <3> QED
      BY <2>7, <3>1
  <2>9. DOMAIN sh = 1 .. Len(s)
    BY <1>2, <2>8
  <2>10. \A i \in 1 .. Len(s) : sh[i] = s[i]
    BY <2>6, <2>8
  <2>11. \A i, j \in DOMAIN sh : i # j => sh[i] # sh[j]
    BY <2>4, <2>9, <2>10
  <2>12. ASSUME NEW i \in DOMAIN sh
         PROVE  sh[i] \in ListRow /\ rows[sh[i]] # Blank /\ Opens(kind, context, rows[sh[i]])
    <3>1. PICK p \in DOMAIN order : Selects(kind, context, rows[order[p]]) /\ s[i] = order[p]
      BY <2>4, <2>9
    <3>2. sh[i] = order[p]
      BY <2>9, <2>10, <3>1
    <3>3. Opens(kind, context, rows[order[p]])
      BY <2>2, <3>1 DEF AllOpen
    <3> QED
      BY <1>5, <1>6, <3>2, <3>3
  <2>13. ASSUME NEW x \in ListRow, rows[x] # Blank, Opens(kind, context, rows[x])
         PROVE  \E i \in DOMAIN sh : sh[i] = x
    <3>1. PICK p \in DOMAIN order : order[p] = x
      BY <1>5, <2>13
    <3>2. Selects(kind, context, rows[order[p]])
      BY <2>2, <2>13, <3>1 DEF AllOpen
    <3> QED
      BY <2>4, <2>9, <2>10, <3>1, <3>2
  <2> HIDE DEF sh
  <2> QED
    BY <2>11, <2>12, <2>13
<1> QED
  BY <1>7, <1>8

(* Whatever the rows, scopes and size of a page, a list that is read to its  *)
(* end while nothing changes has shown each row that may be opened, once.    *)
THEOREM PagesAreComplete == ListsSpec => []PagesComplete
<1>1. ListsInit => PagesInv
  <2> SUFFICES ASSUME ListsInit PROVE PagesInv
    OBVIOUS
  <2>1. ListsPlaced /\ order = <<>> /\ reading = Unread /\ \A x \in ListRow : rows[x] = Blank
    BY DEF ListsInit, ListsPlaced
  <2>2. OrderPlaced
    BY <2>1 DEF OrderPlaced
  <2>3. /\ reading \in [page: Nat, shown: Seq(ListRow), more: BOOLEAN, calm: BOOLEAN]
        /\ reading.page = 0 /\ reading.shown = <<>> /\ reading.more = TRUE
    BY <2>1 DEF Unread
  <2> QED
    BY <2>1, <2>2, <2>3 DEF PagesInv, ReadingPlaced
<1>2. PagesInv /\ [ListsNext]_listVars => PagesInv'
  BY PagesInductive
<1>3. PagesInv => PagesComplete
  BY PagesEnd
<1> QED
  BY <1>1, <1>2, <1>3, PTL DEF ListsSpec

-----------------------------------------------------------------------------
(* The booking's file, for every set of bookings, cases, papers and desks.   *)
(* A desk works on rows that exist; the newest finance case of a booking is  *)
(* one of its own; and what an evaluation has found is still there.          *)
DeskPlaced(d) ==
    LET t == desks[d] IN
    /\ t.step \in {"SCANNED", "WRITING"} => papers[t.paper] # NoRow
    /\ t.step = "EVALUATING" =>
         /\ "FINANCE_DISBURSED" \in t.met =>
              \E f \in Loan : loans[f].status = "DISBURSED" /\ loans[f].of = t.of
         /\ "INVOICE_RECORDED" \in t.met => t.of \in invoices

NewestPlaced ==
    \A k \in Deal : newest[k] # "NONE" => loans[newest[k]] # NoRow /\ loans[newest[k]].of = k

FileInv ==
    /\ FileTypeOK
    /\ NewestPlaced
    /\ \A d \in Desk : DeskPlaced(d)
    /\ ApprovedPapersAreClean
    /\ ReadyRestsOnEvidence

LEMMA FileStart == ASSUME FileInit PROVE FileInv
<1>1. FileTypeOK
  BY FileAssumption DEF FileInit, FileTypeOK, DeskTask
<1>2. NewestPlaced /\ ApprovedPapersAreClean /\ ReadyRestsOnEvidence
  BY DEF FileInit, NewestPlaced, ApprovedPapersAreClean, ReadyRestsOnEvidence, NoRow
<1>3. \A d \in Desk : DeskPlaced(d)
  BY DEF FileInit, DeskPlaced
<1> QED
  BY <1>1, <1>2, <1>3 DEF FileInv

(* What is recorded stays recorded: rows remain, a finance case keeps its    *)
(* booking, and one that was paid out or an invoice is never taken back.     *)
RecordsStay ==
    /\ \A p \in Paper : papers[p] # NoRow => papers'[p] # NoRow
    /\ \A f \in Loan : loans[f] # NoRow =>
         /\ loans'[f] # NoRow /\ loans'[f].of = loans[f].of
         /\ loans[f].status = "DISBURSED" => loans'[f].status = "DISBURSED"
    /\ invoices \subseteq invoices'

LEMMA EvidenceStays ==
    ASSUME FileInv, RecordsStay, NEW k
    PROVE  /\ (\E f \in Loan : loans[f].status = "DISBURSED" /\ loans[f].of = k)
                => (\E f \in Loan : loans'[f].status = "DISBURSED" /\ loans'[f].of = k)
           /\ k \in invoices => k \in invoices'
BY DEF RecordsStay, FileInv, FileTypeOK, NoRow

LEMMA DesksStay ==
    ASSUME FileInv, RecordsStay, \A d \in Desk : desks'[d] = desks[d] \/ DeskPlaced(d)'
    PROVE  \A d \in Desk : DeskPlaced(d)'
<1> SUFFICES ASSUME NEW d \in Desk, desks'[d] = desks[d] PROVE DeskPlaced(d)'
  OBVIOUS
<1>1. desks[d] \in DeskTask /\ DeskPlaced(d)
  BY DEF FileInv, FileTypeOK
<1>2. desks[d].step \in {"SCANNED", "WRITING"} => papers'[desks[d].paper] # NoRow
  BY <1>1 DEF DeskPlaced, RecordsStay, DeskTask
<1>3. ASSUME desks[d].step = "EVALUATING"
      PROVE  /\ "FINANCE_DISBURSED" \in desks[d].met =>
                   \E f \in Loan : loans'[f].status = "DISBURSED" /\ loans'[f].of = desks[d].of
             /\ "INVOICE_RECORDED" \in desks[d].met => desks[d].of \in invoices'
  BY <1>1, <1>3, EvidenceStays DEF DeskPlaced
<1> QED
  BY <1>2, <1>3 DEF DeskPlaced

(* A desk that has taken a task has it. *)
LEMMA TakesOne ==
    ASSUME FileTypeOK, NEW d \in Desk, NEW t \in DeskTask, Takes(d, t)
    PROVE  /\ desks' \in [Desk -> DeskTask]
           /\ desks'[d] = t
           /\ \A e \in Desk \ {d} : desks'[e] = desks[e]
BY DEF Takes, FileTypeOK

LEMMA ClearsOne ==
    ASSUME FileTypeOK, NEW d \in Desk, Clears(d)
    PROVE  /\ desks' \in [Desk -> DeskTask]
           /\ DeskPlaced(d)'
           /\ \A e \in Desk \ {d} : desks'[e] = desks[e]
<1>1. [step |-> "IDLE"] \in DeskTask
  BY DEF DeskTask
<1>2. /\ desks' \in [Desk -> DeskTask] /\ desks'[d].step = "IDLE"
      /\ \A e \in Desk \ {d} : desks'[e] = desks[e]
  BY <1>1, TakesOne DEF Clears
<1> QED
  BY <1>2 DEF DeskPlaced

(* Nothing that the readiness or the newest case rests on has changed.       *)
LEMMA EvidenceKept ==
    ASSUME FileInv, RecordsStay, UNCHANGED ready
    PROVE  ReadyRestsOnEvidence'
<1> SUFFICES ASSUME NEW k \in ready
             PROVE  /\ "FINANCE_DISBURSED" \in Required =>
                         \E f \in Loan : loans'[f].status = "DISBURSED" /\ loans'[f].of = k
                    /\ "INVOICE_RECORDED" \in Required => k \in invoices'
  BY DEF ReadyRestsOnEvidence
<1> QED
  BY EvidenceStays DEF FileInv, ReadyRestsOnEvidence

LEMMA NewestKept ==
    ASSUME FileInv, RecordsStay, UNCHANGED newest
    PROVE  NewestPlaced'
BY DEF FileInv, FileTypeOK, RecordsStay, NewestPlaced

(* Requests that write no row. *)
LEMMA ReadingInv ==
    ASSUME FileInv, UNCHANGED fileRows, NEW d \in Desk,
           desks' \in [Desk -> DeskTask], DeskPlaced(d)',
           \A e \in Desk \ {d} : desks'[e] = desks[e]
    PROVE  FileInv'
<1>1. RecordsStay
  BY DEF RecordsStay, fileRows
<1>2. FileTypeOK'
  BY DEF FileInv, FileTypeOK, fileRows
<1>3. \A e \in Desk : DeskPlaced(e)'
  BY <1>1, DesksStay
<1>4. ApprovedPapersAreClean'
  BY DEF FileInv, ApprovedPapersAreClean, fileRows
<1> QED
  BY <1>1, <1>2, <1>3, <1>4, EvidenceKept, NewestKept DEF FileInv, fileRows

LEMMA ReadsInv ==
    ASSUME FileInv, NEW d \in Desk,
           \/ \E k \in Deal : assertConfirmed(d, k) \/ BeginEvaluation(d, k)
           \/ \E p \in Paper, scan \in Scan : Preflight(d, p, scan)
           \/ ReadAgain(d)
           \/ \E item \in Item : ReadItem(d, item)
           \/ Abandon(d)
    PROVE  FileInv'
<1>1. FileTypeOK /\ desks[d] \in DeskTask /\ DeskPlaced(d)
  BY DEF FileInv, FileTypeOK
<1>2. ASSUME NEW k \in Deal, assertConfirmed(d, k) PROVE FileInv'
  <2>1. [step |-> "OPENING", of |-> k] \in DeskTask
    BY DEF DeskTask
  <2>2. /\ desks' \in [Desk -> DeskTask] /\ desks'[d].step = "OPENING"
        /\ \A e \in Desk \ {d} : desks'[e] = desks[e] /\ UNCHANGED fileRows
    BY <1>1, <1>2, <2>1, TakesOne DEF assertConfirmed
  <2> QED
    BY <1>2, <2>2, ReadingInv DEF DeskPlaced, assertConfirmed
<1>3. ASSUME NEW k \in Deal, BeginEvaluation(d, k) PROVE FileInv'
  <2> DEFINE t == [step |-> "EVALUATING", of |-> k, met |-> {}, left |-> Required]
  <2>1. t \in DeskTask /\ t.step = "EVALUATING" /\ t.met = {}
    BY FileAssumption DEF DeskTask
  <2>2. Takes(d, t) /\ UNCHANGED fileRows
    BY <1>3 DEF BeginEvaluation
  <2> HIDE DEF t
  <2>3. /\ desks' \in [Desk -> DeskTask] /\ desks'[d] = t
        /\ \A e \in Desk \ {d} : desks'[e] = desks[e]
    BY <1>1, <2>1, <2>2, TakesOne
  <2> QED
    BY <2>1, <2>2, <2>3, ReadingInv DEF DeskPlaced
<1>4. ASSUME NEW p \in Paper, NEW scan \in Scan, Preflight(d, p, scan) PROVE FileInv'
  <2> DEFINE t == [step |-> "SCANNED", paper |-> p, scan |-> scan]
  <2>1. t \in DeskTask /\ t.step = "SCANNED" /\ t.paper = p
    BY DEF DeskTask
  <2>2. Takes(d, t) /\ UNCHANGED fileRows /\ papers[p] # NoRow
    BY <1>4 DEF Preflight
  <2> HIDE DEF t
  <2>3. /\ desks' \in [Desk -> DeskTask] /\ desks'[d] = t
        /\ \A e \in Desk \ {d} : desks'[e] = desks[e]
    BY <1>1, <2>1, <2>2, TakesOne
  <2> QED
    BY <2>1, <2>2, <2>3, ReadingInv DEF DeskPlaced, fileRows
<1>5. CASE ReadAgain(d)
  <2> DEFINE t == [desks[d] EXCEPT !.step = "WRITING"]
  <2>1. t \in DeskTask /\ t.step = "WRITING" /\ t.paper = desks[d].paper
    BY <1>1, <1>5 DEF DeskTask, ReadAgain, On
  <2>2. Takes(d, t) /\ UNCHANGED fileRows /\ papers[t.paper] # NoRow
    BY <1>1, <1>5 DEF ReadAgain, On, DeskPlaced
  <2> HIDE DEF t
  <2>3. /\ desks' \in [Desk -> DeskTask] /\ desks'[d] = t
        /\ \A e \in Desk \ {d} : desks'[e] = desks[e]
    BY <1>1, <2>1, <2>2, TakesOne
  <2> QED
    BY <2>1, <2>2, <2>3, ReadingInv DEF DeskPlaced, fileRows
<1>6. ASSUME NEW item \in Item, ReadItem(d, item) PROVE FileInv'
  <2> DEFINE s == desks[d]
             t == [s EXCEPT !.left = @ \ {item},
                            !.met = IF Met(s.of, item) THEN @ \cup {item} ELSE @]
  <2>1. s \in [step: {"EVALUATING"}, of: Deal, met: SUBSET Item, left: SUBSET Item]
    BY <1>1, <1>6 DEF DeskTask, ReadItem, On
  <2>2. /\ t \in DeskTask /\ t.step = "EVALUATING" /\ t.of = s.of
        /\ t.met = IF Met(s.of, item) THEN s.met \cup {item} ELSE s.met
    BY <2>1 DEF DeskTask
  <2>3. Takes(d, t) /\ UNCHANGED fileRows
    BY <1>6 DEF ReadItem
  <2>4. "FINANCE_DISBURSED" \in t.met =>
           \E f \in Loan : loans[f].status = "DISBURSED" /\ loans[f].of = s.of
    <3>1. CASE item = "FINANCE_DISBURSED" /\ Met(s.of, item)
      <4>1. newest[s.of] # "NONE" /\ loans[newest[s.of]].status = "DISBURSED"
        BY <3>1 DEF Met
      <4>2. newest[s.of] \in Loan /\ loans[newest[s.of]].of = s.of
        BY <1>1, <2>1, <4>1 DEF FileInv, FileTypeOK, NewestPlaced
      <4> QED
        BY <4>1, <4>2
    <3>2. CASE "FINANCE_DISBURSED" \in s.met
      BY <1>1, <2>1, <3>2 DEF DeskPlaced
    <3> QED
      BY <2>2, <3>1, <3>2
  <2>5. "INVOICE_RECORDED" \in t.met => s.of \in invoices
    <3>1. CASE item = "INVOICE_RECORDED" /\ Met(s.of, item)
      BY <3>1 DEF Met
    <3>2. CASE "INVOICE_RECORDED" \in s.met
      BY <1>1, <2>1, <3>2 DEF DeskPlaced
    <3> QED
      BY <2>2, <3>1, <3>2
  <2> HIDE DEF s, t
  <2>6. /\ desks' \in [Desk -> DeskTask] /\ desks'[d] = t
        /\ \A e \in Desk \ {d} : desks'[e] = desks[e]
    BY <1>1, <2>2, <2>3, TakesOne
  <2> QED
    BY <2>2, <2>3, <2>4, <2>5, <2>6, ReadingInv DEF DeskPlaced, fileRows
<1>7. CASE Abandon(d)
  BY <1>1, <1>7, ClearsOne, ReadingInv DEF Abandon
<1> QED
  BY <1>2, <1>3, <1>4, <1>5, <1>6, <1>7

(* Requests that insert a row and are done. *)
LEMMA OpensInv ==
    ASSUME FileInv, NEW d \in Desk,
           \/ \E f \in Loan : createFinance(d, f)
           \/ \E status \in {"OPEN", "COMPLETE"} : createInsurance(d, status)
           \/ createInvoice(d)
           \/ \E x \in TradeIn : createExchange(d, x)
           \/ \E p \in Paper : initiateDocument(d, p)
    PROVE  FileInv'
<1>1. FileTypeOK /\ desks[d] \in DeskTask /\ Clears(d) /\ UNCHANGED <<deals, ready>>
  BY DEF FileInv, FileTypeOK, createFinance, createInsurance, createInvoice, createExchange,
     initiateDocument
<1>2. desks[d].of \in Deal
  BY <1>1 DEF DeskTask, On, createFinance, createInsurance, createInvoice, createExchange,
     initiateDocument
<1>3. /\ desks' \in [Desk -> DeskTask] /\ DeskPlaced(d)'
      /\ \A e \in Desk \ {d} : desks'[e] = desks[e]
  BY <1>1, ClearsOne
<1>4. CASE \E f \in Loan : createFinance(d, f)
  <2>1. PICK f \in Loan : createFinance(d, f)
    BY <1>4
  <2> DEFINE row == [status |-> "APPLIED", of |-> desks[d].of]
  <2>2. row \in LoanRow /\ row # NoRow /\ row.of = desks[d].of
    BY <1>2 DEF LoanRow, NoRow
  <2>3. /\ loans[f] = NoRow /\ loans' = [loans EXCEPT ![f] = row]
        /\ newest' = [newest EXCEPT ![desks[d].of] = f]
        /\ UNCHANGED <<policies, invoices, tradeIns, papers>>
    BY <2>1 DEF createFinance
  <2> HIDE DEF row
  <2>4. FileTypeOK'
    BY <1>1, <1>2, <1>3, <2>2, <2>3 DEF FileTypeOK
  <2>5. RecordsStay
    BY <1>1, <2>2, <2>3 DEF RecordsStay, FileTypeOK
  <2>6. NewestPlaced'
    BY <1>1, <1>2, <2>2, <2>3 DEF FileInv, FileTypeOK, NewestPlaced
  <2>7. ApprovedPapersAreClean'
    BY <2>3 DEF FileInv, ApprovedPapersAreClean
  <2> QED
    BY <1>1, <1>3, <2>4, <2>5, <2>6, <2>7, DesksStay, EvidenceKept DEF FileInv
<1>5. CASE \E status \in {"OPEN", "COMPLETE"} : createInsurance(d, status)
  <2>1. /\ policies' \in [Deal -> {"NONE", "OPEN", "COMPLETE"}]
        /\ UNCHANGED <<loans, newest, invoices, tradeIns, papers>>
    BY <1>1, <1>5 DEF createInsurance, FileTypeOK
  <2>2. FileTypeOK' /\ RecordsStay /\ ApprovedPapersAreClean'
    BY <1>1, <1>3, <2>1 DEF FileTypeOK, RecordsStay, FileInv, ApprovedPapersAreClean
  <2> QED
    BY <1>1, <1>3, <2>1, <2>2, DesksStay, EvidenceKept, NewestKept DEF FileInv
<1>6. CASE createInvoice(d)
  <2>1. /\ invoices' \subseteq Deal /\ invoices \subseteq invoices'
        /\ UNCHANGED <<loans, newest, policies, tradeIns, papers>>
    BY <1>1, <1>2, <1>6 DEF createInvoice, FileTypeOK
  <2>2. FileTypeOK' /\ RecordsStay /\ ApprovedPapersAreClean'
    BY <1>1, <1>3, <2>1 DEF FileTypeOK, RecordsStay, FileInv, ApprovedPapersAreClean
  <2> QED
    BY <1>1, <1>3, <2>1, <2>2, DesksStay, EvidenceKept, NewestKept DEF FileInv
<1>7. CASE \E x \in TradeIn : createExchange(d, x)
  <2>1. /\ tradeIns' \in [TradeIn -> TradeInRow \cup {NoRow}]
        /\ UNCHANGED <<loans, newest, policies, invoices, papers>>
    <3>1. [status |-> "REQUESTED", of |-> desks[d].of] \in TradeInRow
      BY <1>2 DEF TradeInRow
    <3> QED
      BY <1>1, <1>7, <3>1 DEF createExchange, FileTypeOK
  <2>2. FileTypeOK' /\ RecordsStay /\ ApprovedPapersAreClean'
    BY <1>1, <1>3, <2>1 DEF FileTypeOK, RecordsStay, FileInv, ApprovedPapersAreClean
  <2> QED
    BY <1>1, <1>3, <2>1, <2>2, DesksStay, EvidenceKept, NewestKept DEF FileInv
<1>8. CASE \E p \in Paper : initiateDocument(d, p)
  <2>1. PICK p \in Paper : initiateDocument(d, p)
    BY <1>8
  <2> DEFINE row == [status |-> "PENDING", of |-> desks[d].of,
                     upload |-> "PENDING_UPLOAD", scan |-> "PENDING"]
  <2>2. row \in PaperRow /\ row # NoRow /\ row.status = "PENDING"
    BY <1>2 DEF PaperRow, NoRow
  <2>3. /\ papers' = [papers EXCEPT ![p] = row]
        /\ UNCHANGED <<loans, newest, policies, invoices, tradeIns>>
    BY <2>1 DEF initiateDocument
  <2> HIDE DEF row
  <2>4. FileTypeOK' /\ RecordsStay /\ ApprovedPapersAreClean'
    BY <1>1, <1>3, <2>2, <2>3 DEF FileTypeOK, RecordsStay, FileInv, ApprovedPapersAreClean
  <2> QED
    BY <1>1, <1>3, <2>3, <2>4, DesksStay, EvidenceKept, NewestKept DEF FileInv
<1> QED
  BY <1>4, <1>5, <1>6, <1>7, <1>8

(* A paper is written: its upload is completed, or it is decided on.         *)
LEMMA PaperInv ==
    ASSUME FileInv, NEW p \in Paper, papers[p] # NoRow, NEW row \in PaperRow,
           papers' = [papers EXCEPT ![p] = row],
           row.status = "APPROVED" => row.upload = "UPLOADED" /\ row.scan = "CLEAN",
           UNCHANGED <<deals, loans, newest, policies, invoices, tradeIns, ready>>,
           desks' \in [Desk -> DeskTask], \A e \in Desk : desks'[e] = desks[e] \/ DeskPlaced(e)'
    PROVE  FileInv'
<1>1. FileTypeOK' /\ RecordsStay /\ ApprovedPapersAreClean'
  <2>1. row # NoRow
    BY DEF PaperRow, NoRow
  <2> QED
    BY <2>1 DEF FileTypeOK, RecordsStay, FileInv, ApprovedPapersAreClean
<1> QED
  BY <1>1, DesksStay, EvidenceKept, NewestKept DEF FileInv

LEMMA CompletesInv == ASSUME FileInv, NEW d \in Desk, completeDocument(d) PROVE FileInv'
<1> DEFINE t == desks[d]
           row == papers[t.paper]
           written == IF StillPending(t.paper)
                      THEN [row EXCEPT !.upload = "UPLOADED", !.scan = t.scan] ELSE row
           new == IF t.scan = "REJECTED" THEN [written EXCEPT !.status = "REJECTED"] ELSE written
<1>1. /\ FileTypeOK /\ Clears(d) /\ t \in DeskTask /\ t.step = "WRITING"
      /\ papers' = [papers EXCEPT ![t.paper] = new]
      /\ UNCHANGED <<deals, loans, newest, policies, invoices, tradeIns, ready>>
  BY DEF FileInv, FileTypeOK, completeDocument, On
<1>2. t.paper \in Paper /\ t.scan \in Scan /\ row # NoRow
  BY <1>1 DEF DeskTask, FileInv, DeskPlaced
<1>3. row \in PaperRow
  BY <1>1, <1>2 DEF FileTypeOK
<1>4. written \in PaperRow
  BY <1>2, <1>3 DEF PaperRow
<1>5. new \in PaperRow
  BY <1>4 DEF PaperRow
<1>6. new.status = "APPROVED" => new.upload = "UPLOADED" /\ new.scan = "CLEAN"
  <2>1. row.status = "APPROVED" => row.upload = "UPLOADED" /\ row.scan = "CLEAN"
    BY <1>2 DEF FileInv, ApprovedPapersAreClean
  <2>2. written.status = "APPROVED" => written.upload = "UPLOADED" /\ written.scan = "CLEAN"
    BY <1>3, <2>1 DEF StillPending, PaperRow
  <2> QED
    BY <1>4, <2>2 DEF PaperRow
<1>7. /\ desks' \in [Desk -> DeskTask] /\ DeskPlaced(d)'
      /\ \A e \in Desk \ {d} : desks'[e] = desks[e]
  BY <1>1, ClearsOne
<1> HIDE DEF t, row, written, new
<1> QED
  BY <1>1, <1>2, <1>5, <1>6, <1>7, PaperInv DEF row

LEMMA VerifiesInv ==
    ASSUME FileInv, NEW p \in Paper, NEW v \in {"APPROVED", "REJECTED"}, verifyDocument(p, v)
    PROVE  FileInv'
<1> DEFINE row == [papers[p] EXCEPT !.status = v]
<1>1. /\ FileTypeOK /\ papers[p] # NoRow /\ papers[p].upload = "UPLOADED"
      /\ v = "APPROVED" => papers[p].scan = "CLEAN"
      /\ papers' = [papers EXCEPT ![p] = row]
      /\ UNCHANGED <<deals, loans, newest, policies, invoices, tradeIns, ready, desks>>
  BY DEF FileInv, verifyDocument
<1>2. papers[p] \in PaperRow
  BY <1>1 DEF FileTypeOK
<1>3. /\ row \in PaperRow
      /\ row.status = "APPROVED" => row.upload = "UPLOADED" /\ row.scan = "CLEAN"
  BY <1>1, <1>2 DEF PaperRow
<1> HIDE DEF row
<1>4. desks' \in [Desk -> DeskTask]
  BY <1>1 DEF FileTypeOK
<1> QED
  BY <1>1, <1>3, <1>4, PaperInv

(* The finance cases after a decision, and the bookings and trade-ins.       *)
LoansKept ==
    /\ loans' \in [Loan -> LoanRow \cup {NoRow}]
    /\ \A f \in Loan : loans[f] # NoRow =>
         /\ loans'[f] # NoRow /\ loans'[f].of = loans[f].of
         /\ loans[f].status = "DISBURSED" => loans'[f].status = "DISBURSED"

DealsTyped ==
    /\ deals' \in [Deal -> {"CONFIRMED", "CANCELLED"}]
    /\ tradeIns' \in [TradeIn -> TradeInRow \cup {NoRow}]

(* Decisions about the other rows, under their locks. *)
LEMMA DecidesInv ==
    ASSUME FileInv,
           \/ \E k \in Deal : CancelDeal(k)
           \/ \E f \in Loan :
                disburseFinance(f) \/ \E v \in {"APPROVED", "REJECTED"} : decideFinance(f, v)
           \/ \E x \in TradeIn, v \in {"ACCEPTED", "REJECTED"} : decideExchange(x, v)
           \/ UNCHANGED fileVars
    PROVE  FileInv'
<1>1. FileTypeOK
  BY DEF FileInv
<1>2. UNCHANGED <<newest, policies, invoices, papers, ready, desks>>
  BY DEF CancelDeal, disburseFinance, decideFinance, LoanBecomes, decideExchange, fileVars
<1>3. LoansKept
  <2>1. CASE UNCHANGED loans
    BY <1>1, <2>1 DEF FileTypeOK, LoansKept
  <2>2. ASSUME NEW f \in Loan, NEW to \in {"APPROVED", "REJECTED", "DISBURSED"},
               NEW from \in {"APPLIED", "APPROVED"}, LoanBecomes(f, from, to)
        PROVE  LoansKept
    <3>1. loans[f] \in LoanRow /\ loans[f].status = from
      BY <1>1, <2>2 DEF FileTypeOK, LoanBecomes, OpenLoan, NoRow
    <3>2. /\ [loans[f] EXCEPT !.status = to] \in LoanRow
          /\ [loans[f] EXCEPT !.status = to].of = loans[f].of
      BY <3>1 DEF LoanRow
    <3>3. loans' = [loans EXCEPT ![f] = [loans[f] EXCEPT !.status = to]]
      BY <2>2 DEF LoanBecomes
    <3> QED
      BY <1>1, <3>1, <3>2, <3>3 DEF FileTypeOK, LoanRow, NoRow, LoansKept
  <2>3. (\E f \in Loan, to \in {"APPROVED", "REJECTED", "DISBURSED"},
              from \in {"APPLIED", "APPROVED"} : LoanBecomes(f, from, to))
        \/ UNCHANGED loans
    BY DEF CancelDeal, disburseFinance, decideFinance, decideExchange, fileVars
  <2> QED
    BY <2>1, <2>2, <2>3
<1>4. DealsTyped
  <2>1. CASE UNCHANGED <<deals, tradeIns>>
    BY <1>1, <2>1 DEF FileTypeOK, DealsTyped
  <2>2. CASE \E k \in Deal : CancelDeal(k)
    BY <1>1, <2>2 DEF FileTypeOK, CancelDeal, DealsTyped
  <2>3. ASSUME NEW x \in TradeIn, NEW v \in {"ACCEPTED", "REJECTED"}, decideExchange(x, v)
        PROVE  DealsTyped
    <3>1. tradeIns[x] \in TradeInRow
      BY <1>1, <2>3 DEF FileTypeOK, decideExchange, NoRow
    <3>2. [tradeIns[x] EXCEPT !.status = v] \in TradeInRow
      BY <3>1 DEF TradeInRow
    <3> QED
      BY <1>1, <2>3, <3>2 DEF FileTypeOK, decideExchange, DealsTyped
  <2> QED
    BY <2>1, <2>2, <2>3 DEF disburseFinance, decideFinance, LoanBecomes, fileVars
<1>5. FileTypeOK' /\ RecordsStay /\ ApprovedPapersAreClean'
  BY <1>1, <1>2, <1>3, <1>4 DEF FileTypeOK, RecordsStay, FileInv, ApprovedPapersAreClean, LoansKept, DealsTyped
<1> QED
  BY <1>2, <1>5, DesksStay, EvidenceKept, NewestKept DEF FileInv

(* The verdict is stored. *)
LEMMA EvaluatesInv ==
    ASSUME FileInv, NEW d \in Desk, NEW others \in BOOLEAN, evaluateReadiness(d, others)
    PROVE  FileInv'
<1> DEFINE k == desks[d].of
<1>1. /\ FileTypeOK /\ Clears(d) /\ desks[d] \in DeskTask /\ desks[d].step = "EVALUATING"
      /\ UNCHANGED <<deals, loans, newest, policies, invoices, tradeIns, papers>>
      /\ ready' = IF others /\ Satisfied(desks[d].met) THEN ready \cup {k} ELSE ready
  BY DEF FileInv, FileTypeOK, evaluateReadiness, On
<1>2. k \in Deal /\ DeskPlaced(d)
  BY <1>1 DEF DeskTask, FileInv
<1>3. /\ desks' \in [Desk -> DeskTask] /\ DeskPlaced(d)'
      /\ \A e \in Desk \ {d} : desks'[e] = desks[e]
  BY <1>1, ClearsOne
<1>4. FileTypeOK' /\ RecordsStay /\ ApprovedPapersAreClean'
  BY <1>1, <1>2, <1>3 DEF FileTypeOK, RecordsStay, FileInv, ApprovedPapersAreClean
<1>5. ReadyRestsOnEvidence'
  <2>1. ASSUME NEW b \in ready'
        PROVE  /\ "FINANCE_DISBURSED" \in Required =>
                     \E f \in Loan : loans[f].status = "DISBURSED" /\ loans[f].of = b
               /\ "INVOICE_RECORDED" \in Required => b \in invoices
    <3>1. CASE b \in ready
      BY <3>1 DEF FileInv, ReadyRestsOnEvidence
    <3>2. CASE b = k /\ Required \subseteq desks[d].met
      BY <1>1, <1>2, <3>2 DEF DeskPlaced
    <3> QED
      BY <1>1, <2>1, <3>1, <3>2 DEF Satisfied
  <2> QED
    BY <1>1, <2>1 DEF ReadyRestsOnEvidence
<1> QED
  BY <1>1, <1>3, <1>4, <1>5, DesksStay, NewestKept DEF FileInv

LEMMA FileStep == ASSUME FileInv, [FileNext]_fileVars PROVE FileInv'
<1>1. ASSUME NEW d \in Desk, DeskStep(d) PROVE FileInv'
  BY <1>1, ReadsInv, OpensInv, CompletesInv, EvaluatesInv DEF DeskStep
<1> QED
  BY <1>1, DecidesInv, VerifiesInv DEF FileNext

(* The rows of the file keep their types. *)
THEOREM FileTyped == FileSpec => []FileTypeOK
<1>1. FileInv => FileTypeOK
  BY DEF FileInv
<1> QED
  BY <1>1, FileStart, FileStep, PTL DEF FileSpec

(* An approved document is one that the scanner found clean.                 *)
THEOREM ApprovalsFollowScans == FileSpec => []ApprovedPapersAreClean
<1>1. FileInv => ApprovedPapersAreClean
  BY DEF FileInv
<1> QED
  BY <1>1, FileStart, FileStep, PTL DEF FileSpec

(* The finance and the invoice that a ready evaluation saw are still there.  *)
THEOREM ReadinessIsLasting == FileSpec => []ReadyRestsOnEvidence
<1>1. FileInv => ReadyRestsOnEvidence
  BY DEF FileInv
<1> QED
  BY <1>1, FileStart, FileStep, PTL DEF FileSpec

-----------------------------------------------------------------------------
(* The exports, for every set of leads, contexts, requests and workers.      *)
(* An export keeps the context in which it was asked for; a worker that has  *)
(* read the leads found those within that context's reach, and what a file   *)
(* tells is booked at a branch of the context.                               *)
ExportRow ==
    [status: {"QUEUED", "PROCESSING", "COMPLETED", "FAILED"}, kind: Report,
     filters: Filters, scope: Contexts, fresh: BOOLEAN]
Working == [job: Export \cup {Null}, told: SUBSET ListRow,
            step: {"IDLE", "READ", "STARTED", "SCOPED", "FAILING", "STORED"}]
Queued == [at: {"ABSENT", "WAITING", "ACTIVE", "ENDED"}, stalls: 0..MaxStalls,
           by: Runner \cup {Null}]

ExportsTyped ==
    /\ exports \in [Export -> ExportRow \cup {NoExport}]
    /\ asked \in [Export -> Contexts \cup {Null}]
    /\ queue \in [Export -> Queued]
    /\ runner \in [Runner -> Working]
    /\ file \in [Export -> {Null} \cup [told: SUBSET ListRow]]
    /\ within \in [Export -> SUBSET ListRow]
    /\ booked \in [ListRow -> Branch \cup {Null}]

Found(x, leads) ==
    IF exports[x].kind = "AUDIT_EVENTS" THEN ensureTenantWideAuditAccess(asked[x])
    ELSE BranchAllowed(asked[x], exports[x].filters) /\ leads \subseteq within[x]

Tells(x, told) ==
    IF exports[x].kind = "AUDIT_EVENTS" THEN ensureTenantWideAuditAccess(asked[x])
    ELSE \A r \in told :
           /\ r \in within[x] \/ (exports[x].kind # "LEAD_FUNNEL" /\ asked[x].assignment = "ALL")
           /\ exports[x].kind # "LEAD_FUNNEL" =>
                booked[r] # Null /\ canAccessBranch(asked[x], booked[r])

FileHonest(x) == file[x] # Null => Tells(x, file[x].told)

ExportPlaced(x) ==
    /\ exports[x] = NoExport => queue[x].at = "ABSENT" /\ file[x] = Null
    /\ exports[x] # NoExport => asked[x] = exports[x].scope
    /\ exports[x].status = "COMPLETED" => file[x] # Null
    /\ FileHonest(x)

RunnerPlaced(w) ==
    LET x == runner[w].job IN
    runner[w].step # "IDLE" =>
        /\ x \in Export /\ exports[x] # NoExport
        /\ runner[w].step = "SCOPED" => Found(x, runner[w].told)
        /\ runner[w].step = "STORED" => file[x] # Null

ReportsInv ==
    /\ kind = "LEADS" /\ ListsPlaced
    /\ ExportsTyped
    /\ \A x \in Export : ExportPlaced(x)
    /\ \A w \in Runner : RunnerPlaced(w)

(* An export's kind and context, what was booked, and what its context has   *)
(* reached stay.                                                             *)
ExportsKeep ==
    /\ \A x \in Export : exports[x] # NoExport =>
         /\ exports'[x] # NoExport /\ asked'[x] = asked[x]
         /\ exports'[x].kind = exports[x].kind /\ exports'[x].filters = exports[x].filters
         /\ within[x] \subseteq within'[x]
         /\ file[x] # Null => file'[x] # Null
    /\ \A r \in ListRow : booked[r] # Null => booked'[r] = booked[r]

LEMMA ReportsStart == ASSUME ReportsInit, ListsInit, kind = "LEADS" PROVE ReportsInv
<1>1. ListsPlaced
  BY DEF ListsInit, ListsPlaced
<1>2. [at |-> "ABSENT", stalls |-> 0, by |-> Null] \in Queued /\ Idle \in Working
  BY ReportsAssumption DEF Queued, Working, Idle
<1>3. ExportsTyped
  BY <1>2 DEF ReportsInit, ExportsTyped
<1>4. \A x \in Export : ExportPlaced(x)
  BY DEF ReportsInit, ExportPlaced, FileHonest, NoExport
<1>5. \A w \in Runner : RunnerPlaced(w)
  BY DEF ReportsInit, RunnerPlaced, Idle
<1> QED
  BY <1>1, <1>3, <1>4, <1>5 DEF ReportsInv

LEMMA FoundKept ==
    ASSUME ReportsInv, ExportsKeep, NEW x \in Export, exports[x] # NoExport, NEW leads, Found(x, leads)
    PROVE  Found(x, leads)'
BY DEF Found, ExportsKeep

LEMMA TellsKept ==
    ASSUME ReportsInv, ExportsKeep, NEW x \in Export, exports[x] # NoExport,
           NEW told \in SUBSET ListRow, Tells(x, told)
    PROVE  Tells(x, told)'
<1>1. CASE exports[x].kind = "AUDIT_EVENTS"
  BY <1>1 DEF Tells, ExportsKeep
<1>2. CASE exports[x].kind # "AUDIT_EVENTS"
  <2> SUFFICES ASSUME NEW r \in told
               PROVE  /\ r \in within'[x] \/ (exports[x].kind # "LEAD_FUNNEL" /\ asked[x].assignment = "ALL")
                      /\ exports[x].kind # "LEAD_FUNNEL" =>
                           booked'[r] # Null /\ canAccessBranch(asked[x], booked'[r])
    BY <1>2 DEF Tells, ExportsKeep
  <2> QED
    BY <1>2 DEF Tells, ExportsKeep
<1> QED
  BY <1>1, <1>2

(* What a context's filters admit, the context reaches. *)
LEMMA FilteredBranch ==
    ASSUME NEW c \in AuthorizationContext, NEW f, NEW b, BranchAllowed(c, f), branchFilter(c, f, b)
    PROVE  canAccessBranch(c, b)
BY DEF BranchAllowed, branchFilter, canAccessBranch, AuthorizationContext, Mode

LEMMA ScopedIsEntitled ==
    ASSUME NEW c \in AuthorizationContext, NEW f, NEW r,
           BranchAllowed(c, f), TeamAllowed(c, f), reportingScope(c, f, r)
    PROVE  Entitled(c, r)
<1>1. canAccessBranch(c, r.branch)
  BY FilteredBranch DEF reportingScope
<1>2. ASSUME c.assignment = "TEAM"
      PROVE  \E t \in Hierarchy(r) : t \in c.teams \cup c.managed \/ canAccessTeam(c, t)
  <2>1. CASE TeamsRestricted(c, f)
    <3>1. PICK t \in Hierarchy(r) : t \in EffectiveTeams(c, f)
      BY <2>1 DEF reportingScope
    <3>2. t \in c.teams \cup c.managed \/ canAccessTeam(c, t)
      BY <3>1 DEF EffectiveTeams, TeamAllowed
    <3> QED
      BY <3>2
  <2>2. CASE ~TeamsRestricted(c, f)
    BY <1>2, <2>2 DEF reportingScope
  <2> QED
    BY <2>1, <2>2
<1> QED
  BY <1>1, <1>2 DEF reportingScope, Entitled

(* What the next step makes of `within`. *)
Reached ==
    within' = [x \in Export |->
         IF asked'[x] = Null THEN {}
         ELSE within[x] \cup {r \in Present' : Entitled(asked'[x], rows'[r])}]

LEMMA WithinGrows ==
    ASSUME ExportsTyped, Reached
    PROVE  /\ within' \in [Export -> SUBSET ListRow]
           /\ \A x \in Export : asked'[x] # Null => within[x] \subseteq within'[x]
BY DEF ExportsTyped, Reached, Present

(* What a step may do, whichever it is. *)
LEMMA ReportsKept ==
    ASSUME ReportsInv, ListsPlaced', kind' = kind, ExportsTyped', ExportsKeep,
           \A x \in Export : \/ /\ exports[x] # NoExport /\ exports'[x].scope = exports[x].scope
                                /\ file'[x] = file[x] \/ FileHonest(x)'
                                /\ exports'[x].status = "COMPLETED" =>
                                      exports[x].status = "COMPLETED" \/ file[x] # Null
                             \/ ExportPlaced(x)',
           \A w \in Runner : runner'[w] = runner[w] \/ RunnerPlaced(w)'
    PROVE  ReportsInv'
<1>1. ASSUME NEW x \in Export PROVE ExportPlaced(x)'
  <2>1. CASE /\ exports[x] # NoExport /\ exports'[x].scope = exports[x].scope
             /\ file'[x] = file[x] \/ FileHonest(x)'
             /\ exports'[x].status = "COMPLETED" =>
                  exports[x].status = "COMPLETED" \/ file[x] # Null
    <3>1. /\ ExportPlaced(x) /\ exports'[x] # NoExport /\ asked'[x] = asked[x]
          /\ file[x] # Null => file'[x] # Null
      BY <2>1 DEF ReportsInv, ExportsKeep
    <3>2. ASSUME file'[x] = file[x] PROVE FileHonest(x)'
      <4> SUFFICES ASSUME NEW t, t = file[x], t # Null PROVE Tells(x, t.told)'
        BY <3>2 DEF FileHonest
      <4>1. t.told \in SUBSET ListRow
        BY DEF ReportsInv, ExportsTyped
      <4>2. Tells(x, t.told)
        BY <3>1 DEF ExportPlaced, FileHonest
      <4> QED
        BY <2>1, <4>1, <4>2, TellsKept
    <3> QED
      BY <2>1, <3>1, <3>2 DEF ExportPlaced
  <2> QED
    BY <1>1, <2>1
<1>2. ASSUME NEW w \in Runner, runner'[w] = runner[w] PROVE RunnerPlaced(w)'
  <2>1. RunnerPlaced(w)
    BY DEF ReportsInv
  <2>2. ASSUME runner[w].step # "IDLE" 
        PROVE  /\ exports'[runner[w].job] # NoExport
               /\ runner[w].step = "SCOPED" => Found(runner[w].job, runner[w].told)'
               /\ runner[w].step = "STORED" => file'[runner[w].job] # Null
    <3>1. runner[w].job \in Export /\ exports[runner[w].job] # NoExport
      BY <2>1, <2>2 DEF RunnerPlaced
    <3>2. ASSUME runner[w].step = "SCOPED" PROVE Found(runner[w].job, runner[w].told)'
      BY <2>1, <3>1, <3>2, FoundKept, <1>2 DEF RunnerPlaced
    <3> QED
      BY <2>1, <3>1, <3>2 DEF RunnerPlaced, ExportsKeep
  <2> QED
    BY <1>2, <2>1, <2>2 DEF RunnerPlaced
<1> QED
  BY <1>1, <1>2 DEF ReportsInv

LEMMA RowsKept ==
    ASSUME ReportsInv, Reached, ListsPlaced', kind' = kind, UNCHANGED <<asked, file>>,
           booked' \in [ListRow -> Branch \cup {Null}],
           \A r \in ListRow : booked[r] # Null => booked'[r] = booked[r],
           exports' \in [Export -> ExportRow \cup {NoExport}],
           queue' \in [Export -> Queued], runner' \in [Runner -> Working],
           \A x \in Export :
              IF exports[x] = NoExport THEN exports'[x] = NoExport /\ queue'[x].at = "ABSENT"
              ELSE /\ exports'[x] # NoExport /\ exports'[x].kind = exports[x].kind
                   /\ exports'[x].filters = exports[x].filters
                   /\ exports'[x].scope = exports[x].scope
                   /\ exports'[x].status = "COMPLETED" =>
                        exports[x].status = "COMPLETED" \/ file[x] # Null,
           \A w \in Runner : runner'[w] = runner[w] \/ RunnerPlaced(w)'
    PROVE  ReportsInv'
<1>1. ExportsTyped /\ (\A x \in Export : ExportPlaced(x))
  BY DEF ReportsInv
<1>2. ExportsTyped'
  BY <1>1, WithinGrows DEF ExportsTyped
<1>3. \A x \in Export : exports[x] # NoExport => asked[x] \in Contexts
  BY <1>1 DEF ExportsTyped, ExportPlaced, ExportRow
<1>4. ExportsKeep
  BY <1>1, <1>3, WithinGrows, ReportsAssumption DEF ExportsKeep
<1>5. ASSUME NEW x \in Export, exports[x] = NoExport PROVE ExportPlaced(x)'
  <2>1. exports'[x] = NoExport /\ queue'[x].at = "ABSENT" /\ file'[x] = Null
    BY <1>1, <1>5 DEF ExportPlaced
  <2> QED
    BY <2>1 DEF ExportPlaced, FileHonest, NoExport
<1> QED
  BY <1>2, <1>4, <1>5, ReportsKept

(* Leads come, move and are booked, and scopes are replaced. *)
LEMMA LeadsMoveInv == ASSUME ReportsInv, Reached, LeadsMove PROVE ReportsInv'
<1>1. ListsPlaced' /\ kind' = kind
  <2>1. ListsNext /\ kind' = kind
    BY DEF LeadsMove, ListsNext, Arrive, Reassign, Rescope
  <2> QED
    BY <2>1, ListsInductive DEF ReportsInv
<1>2. \A x \in Export : exports[x] = NoExport => queue[x].at = "ABSENT"
  BY DEF ReportsInv, ExportPlaced
<1> QED
  BY <1>1, <1>2, RowsKept DEF LeadsMove, ReportsInv, ExportsTyped

LEMMA SameLists == ASSUME ReportsInv, UNCHANGED listVars PROVE ListsPlaced' /\ kind' = kind
BY DEF ReportsInv, ListsPlaced, listVars

LEMMA BookInv == ASSUME ReportsInv, Reached, NEW r \in ListRow, Book(r) PROVE ReportsInv'
<1>1. ListsPlaced' /\ kind' = kind
  BY SameLists DEF Book
<1>2. \A x \in Export : exports[x] = NoExport => queue[x].at = "ABSENT"
  BY DEF ReportsInv, ExportPlaced
<1>3. rows[r].branch \in Branch
  BY ListsAssumption, RecordsAssumption DEF ReportsInv, ListsPlaced, Book
<1> QED
  BY <1>1, <1>2, <1>3, RowsKept DEF Book, ReportsInv, ExportsTyped

(* What changes the queue alone. *)
LEMMA QueueMoves ==
    ASSUME ReportsInv, Reached, NEW x \in Export, EnqueueExport(x) \/ Stall(x)
    PROVE  ReportsInv'
<1>1. ListsPlaced' /\ kind' = kind
  BY SameLists DEF EnqueueExport, Stall
<1>2. ExportsTyped /\ \A y \in Export : exports[y] = NoExport => queue[y].at = "ABSENT"
  BY DEF ReportsInv, ExportPlaced
<1>3. PICK q \in Queued : queue' = [queue EXCEPT ![x] = q] /\ exports[x] # NoExport
  <2>1. CASE EnqueueExport(x)
    <3>1. [queue[x] EXCEPT !.at = "WAITING"] \in Queued
      BY <1>2 DEF ExportsTyped, Queued
    <3>2. queue' = [queue EXCEPT ![x] = [queue[x] EXCEPT !.at = "WAITING"]] /\ exports[x] # NoExport
      BY <2>1 DEF EnqueueExport
    <3> QED
      BY <3>1, <3>2
  <2>2. CASE Stall(x)
    <3> DEFINE q == IF queue[x].stalls < MaxStalls
                    THEN [at |-> "WAITING", stalls |-> queue[x].stalls + 1, by |-> Null]
                    ELSE [at |-> "ENDED", stalls |-> queue[x].stalls, by |-> Null]
    <3>1. queue[x].stalls \in 0..MaxStalls
      BY <1>2 DEF ExportsTyped, Queued
    <3>2. q \in Queued
      BY <3>1, ReportsAssumption DEF Queued
    <3>3. queue' = [queue EXCEPT ![x] = q] /\ exports[x] # NoExport
      BY <1>2, <2>2 DEF Stall
    <3> QED
      BY <3>2, <3>3
  <2> QED
    BY <2>1, <2>2
<1>4. /\ queue' \in [Export -> Queued]
      /\ \A y \in Export : exports[y] = NoExport => queue'[y].at = "ABSENT"
  BY <1>2, <1>3 DEF ExportsTyped
<1>5. UNCHANGED <<booked, exports, runner, file, asked>>
  BY DEF EnqueueExport, Stall
<1> QED
  BY <1>1, <1>2, <1>4, <1>5, RowsKept DEF ExportsTyped

LEMMA ExpiresInv ==
    ASSUME ReportsInv, Reached, NEW x \in Export, ExportExpires(x)
    PROVE  ReportsInv'
<1>1. ListsPlaced' /\ kind' = kind
  BY SameLists DEF ExportExpires
<1>2. ExportsTyped /\ \A y \in Export : exports[y] = NoExport => queue[y].at = "ABSENT"
  BY DEF ReportsInv, ExportPlaced
<1>3. exports[x] \in ExportRow
  BY <1>2 DEF ExportsTyped, ExportExpires
<1>4. PICK e : e = [exports[x] EXCEPT !.fresh = FALSE]
  OBVIOUS
<1>5. /\ e \in ExportRow /\ e # NoExport /\ e.kind = exports[x].kind
      /\ e.filters = exports[x].filters /\ e.scope = exports[x].scope
      /\ e.status = exports[x].status
  BY <1>3, <1>4 DEF ExportRow, NoExport
<1>6. exports' = [exports EXCEPT ![x] = e] /\ exports[x] # NoExport
  BY <1>4 DEF ExportExpires
<1>7. UNCHANGED <<booked, queue, runner, file, asked>>
  BY DEF ExportExpires
<1> HIDE DEF ExportRow
<1> QED
  BY <1>1, <1>2, <1>5, <1>6, <1>7, RowsKept DEF ExportsTyped

(* An export that was asked for anew. *)
LEMMA CreateInv ==
    ASSUME ReportsInv, Reached, NEW x \in Export, NEW k \in Report, NEW f \in Filters,
           CreateExport(x, k, f)
    PROVE  ReportsInv'
<1>1. ListsPlaced' /\ kind' = kind /\ context \in Contexts
  BY SameLists DEF CreateExport, ReportsInv, ListsPlaced
<1>2. ExportsTyped /\ ExportPlaced(x)
  BY DEF ReportsInv
<1>3. PICK e : e = [status |-> "QUEUED", kind |-> k, filters |-> f, scope |-> context, fresh |-> FALSE]
  OBVIOUS
<1>4. e \in ExportRow /\ e # NoExport /\ e.scope = context /\ e.status = "QUEUED"
  BY <1>1, <1>3 DEF ExportRow, NoExport
<1>5. /\ exports' = [exports EXCEPT ![x] = e] /\ exports[x] = NoExport
      /\ asked' = [asked EXCEPT ![x] = context] /\ UNCHANGED <<booked, queue, runner, file>>
  BY <1>3 DEF CreateExport
<1>6. ExportsTyped'
  BY <1>1, <1>2, <1>4, <1>5, WithinGrows DEF ExportsTyped
<1>7. \A y \in Export : exports[y] # NoExport => asked[y] \in Contexts
  BY DEF ReportsInv, ExportsTyped, ExportPlaced, ExportRow
<1>8. ExportsKeep
  BY <1>2, <1>4, <1>5, <1>7, WithinGrows, ReportsAssumption DEF ExportsKeep, ExportsTyped
<1>9. ExportPlaced(x)'
  BY <1>2, <1>4, <1>5 DEF ExportsTyped, ExportPlaced, FileHonest
<1>10. ASSUME NEW y \in Export, y # x, exports[y] # NoExport
       PROVE  /\ exports'[y] = exports[y] /\ file'[y] = file[y]
              /\ exports[y].status = "COMPLETED" => file[y] # Null
  BY <1>2, <1>5, <1>10 DEF ExportsTyped, ReportsInv, ExportPlaced
<1>11. ASSUME NEW y \in Export, y # x, exports[y] = NoExport PROVE ExportPlaced(y)'
  <2>1. ExportPlaced(y)
    BY DEF ReportsInv
  <2>2. exports'[y] = NoExport /\ queue'[y].at = "ABSENT" /\ file'[y] = Null
    BY <1>2, <1>5, <1>11, <2>1 DEF ExportPlaced, ExportsTyped
  <2> QED
    BY <2>2 DEF ExportPlaced, FileHonest, NoExport
<1> QED
  BY <1>1, <1>5, <1>6, <1>8, <1>9, <1>10, <1>11, ReportsKept

(* A worker that goes on to a step which says no more than what it has.      *)
LEMMA GoesOn ==
    ASSUME ReportsInv, NEW w \in Runner, runner[w].step # "IDLE",
           NEW step \in {"STARTED", "FAILING"}, Goes(w, step)
    PROVE  /\ runner' \in [Runner -> Working]
           /\ runner'[w].job = runner[w].job /\ runner'[w].step = step
           /\ \A v \in Runner : v # w => runner'[v] = runner[v]
<1>1. runner \in [Runner -> Working]
  BY DEF ReportsInv, ExportsTyped
<1>2. PICK t : t = [runner[w] EXCEPT !.step = step]
  OBVIOUS
<1>3. t \in Working /\ t.job = runner[w].job /\ t.step = step
  BY <1>1, <1>2 DEF Working
<1>4. runner' = [runner EXCEPT ![w] = t]
  BY <1>2 DEF Goes
<1> QED
  BY <1>1, <1>3, <1>4

LEMMA ReadInv ==
    ASSUME ReportsInv, Reached, NEW w \in Runner, NEW x \in Export, ReadExport(w, x)
    PROVE  ReportsInv'
<1>1. ListsPlaced' /\ kind' = kind
  BY SameLists DEF ReadExport
<1>2. ExportsTyped /\ \A y \in Export : exports[y] = NoExport => queue[y].at = "ABSENT"
  BY DEF ReportsInv, ExportPlaced
<1>3. exports[x] # NoExport /\ queue[x] \in Queued
  BY <1>2 DEF ReadExport, ExportsTyped
<1>4. PICK q \in Queued : queue' = [queue EXCEPT ![x] = q]
  <2>1. /\ [queue[x] EXCEPT !.at = "ENDED"] \in Queued
        /\ [queue[x] EXCEPT !.at = "ACTIVE", !.by = w] \in Queued
    BY <1>3 DEF Queued
  <2>2. \/ queue' = [queue EXCEPT ![x] = [queue[x] EXCEPT !.at = "ENDED"]]
        \/ queue' = [queue EXCEPT ![x] = [queue[x] EXCEPT !.at = "ACTIVE", !.by = w]]
    BY DEF ReadExport
  <2> QED
    BY <2>1, <2>2
<1>5. /\ runner' \in [Runner -> Working]
      /\ \A v \in Runner : runner'[v] = runner[v] \/ RunnerPlaced(v)'
  <2>1. CASE UNCHANGED runner
    BY <1>2, <2>1 DEF ExportsTyped
  <2>2. PICK t : t = [job |-> x, step |-> "READ", told |-> {}]
    OBVIOUS
  <2>3. t \in Working /\ t.job = x /\ t.step = "READ"
    BY <2>2 DEF Working
  <2>4. CASE runner' = [runner EXCEPT ![w] = t]
    <3>1. /\ runner' \in [Runner -> Working] /\ runner'[w] = t
          /\ \A v \in Runner : v # w => runner'[v] = runner[v]
      BY <1>2, <2>3, <2>4 DEF ExportsTyped
    <3>2. RunnerPlaced(w)'
      BY <1>3, <2>3, <3>1 DEF RunnerPlaced, ReadExport
    <3> QED
      BY <3>1, <3>2
  <2> QED
    BY <2>1, <2>2, <2>4 DEF ReadExport
<1>6. queue' \in [Export -> Queued] /\ \A y \in Export : exports[y] = NoExport => queue'[y].at = "ABSENT"
  BY <1>2, <1>3, <1>4 DEF ExportsTyped
<1>7. UNCHANGED <<booked, exports, file, asked>>
  BY DEF ReadExport
<1> QED
  BY <1>1, <1>2, <1>5, <1>6, <1>7, RowsKept DEF ExportsTyped

(* An export whose status a worker sets. *)
LEMMA StatusSet ==
    ASSUME ExportsTyped, NEW x \in Export, exports[x] # NoExport,
           NEW s \in {"PROCESSING", "FAILED", "COMPLETED"}, NEW fresh \in BOOLEAN,
           exports' = [exports EXCEPT ![x] = [exports[x] EXCEPT !.status = s, !.fresh = fresh]]
    PROVE  /\ exports' \in [Export -> ExportRow \cup {NoExport}]
           /\ exports'[x] # NoExport /\ exports'[x].kind = exports[x].kind
           /\ exports'[x].filters = exports[x].filters /\ exports'[x].scope = exports[x].scope
           /\ exports'[x].status = s
           /\ \A y \in Export : y # x => exports'[y] = exports[y]
<1>1. exports[x] \in ExportRow
  BY DEF ExportsTyped
<1>2. PICK e : e = [exports[x] EXCEPT !.status = s, !.fresh = fresh]
  OBVIOUS
<1>3. /\ e \in ExportRow /\ e # NoExport /\ e.kind = exports[x].kind
      /\ e.filters = exports[x].filters /\ e.scope = exports[x].scope /\ e.status = s
  BY <1>1, <1>2 DEF ExportRow, NoExport
<1> HIDE DEF ExportRow
<1> QED
  BY <1>2, <1>3 DEF ExportsTyped

LEMMA StartInv ==
    ASSUME ReportsInv, Reached, NEW w \in Runner, StartExport(w)
    PROVE  ReportsInv'
<1>1. ListsPlaced' /\ kind' = kind
  BY SameLists DEF StartExport
<1>2. ExportsTyped /\ \A y \in Export : exports[y] = NoExport => queue[y].at = "ABSENT"
  BY DEF ReportsInv, ExportPlaced
<1>3. PICK x \in Export : x = runner[w].job /\ exports[x] # NoExport
  BY DEF ReportsInv, RunnerPlaced, StartExport
<1>4. exports[x] \in ExportRow
  BY <1>2, <1>3 DEF ExportsTyped
<1>5. exports' = [exports EXCEPT ![x] = [exports[x] EXCEPT !.status = "PROCESSING", !.fresh = exports[x].fresh]]
  BY <1>2, <1>3, <1>4 DEF StartExport, ExportRow, ExportsTyped
<1>6. exports[x].fresh \in BOOLEAN
  BY <1>4 DEF ExportRow
<1>7. /\ exports' \in [Export -> ExportRow \cup {NoExport}]
      /\ exports'[x] # NoExport /\ exports'[x].kind = exports[x].kind
      /\ exports'[x].filters = exports[x].filters /\ exports'[x].scope = exports[x].scope
      /\ exports'[x].status = "PROCESSING"
      /\ \A y \in Export : y # x => exports'[y] = exports[y]
  BY <1>2, <1>3, <1>5, <1>6, StatusSet
<1>8. /\ runner' \in [Runner -> Working]
      /\ runner'[w].job = x /\ runner'[w].step = "STARTED"
      /\ \A v \in Runner : v # w => runner'[v] = runner[v]
  BY <1>3, GoesOn DEF StartExport
<1>9. RunnerPlaced(w)'
  BY <1>7, <1>8 DEF RunnerPlaced
<1>10. UNCHANGED <<booked, queue, file, asked>>
  BY DEF StartExport
<1> QED
  BY <1>1, <1>2, <1>3, <1>7, <1>8, <1>9, <1>10, RowsKept DEF ExportsTyped

(* The leads that are found are within the context's reach. *)
LEMMA ReadScopeInv ==
    ASSUME ReportsInv, Reached, NEW w \in Runner, ReadScope(w)
    PROVE  ReportsInv'
<1>1. ListsPlaced' /\ kind' = kind /\ UNCHANGED rows
  BY SameLists DEF ReadScope, listVars
<1>2. ExportsTyped /\ \A y \in Export : exports[y] = NoExport => queue[y].at = "ABSENT"
  BY DEF ReportsInv, ExportPlaced
<1>3. PICK x \in Export : x = runner[w].job /\ exports[x] # NoExport
  BY DEF ReportsInv, RunnerPlaced, ReadScope
<1>4. exports[x] \in ExportRow /\ asked[x] = exports[x].scope /\ asked[x] \in AuthorizationContext
      /\ asked[x] \in Contexts
  BY <1>2, <1>3, ContextsAssumption DEF ExportsTyped, ExportRow, ReportsInv, ExportPlaced
<1>5. UNCHANGED <<booked, exports, queue, file, asked>>
  BY DEF ReadScope
<1>6. /\ runner' \in [Runner -> Working]
      /\ \A v \in Runner : runner'[v] = runner[v] \/ RunnerPlaced(v)'
  <2>1. CASE Goes(w, "FAILING")
    <3>1. /\ runner' \in [Runner -> Working]
          /\ runner'[w].job = x /\ runner'[w].step = "FAILING"
          /\ \A v \in Runner : v # w => runner'[v] = runner[v]
      BY <1>3, <2>1, GoesOn DEF ReadScope
    <3>2. RunnerPlaced(w)'
      BY <1>3, <1>5, <3>1 DEF RunnerPlaced
    <3> QED
      BY <3>1, <3>2
  <2>2. ASSUME NEW leads \in SUBSET Present, Found(x, leads)',
               runner' = [runner EXCEPT ![w].step = "SCOPED", ![w].told = leads]
        PROVE  /\ runner' \in [Runner -> Working]
               /\ \A v \in Runner : runner'[v] = runner[v] \/ RunnerPlaced(v)'
    <3>1. PICK t : t = [runner[w] EXCEPT !.step = "SCOPED", !.told = leads]
      OBVIOUS
    <3>2. t \in Working /\ t.job = x /\ t.step = "SCOPED" /\ t.told = leads
      BY <1>2, <1>3, <3>1 DEF ExportsTyped, Working, Present
    <3>3. runner' = [runner EXCEPT ![w] = t]
      BY <1>2, <2>2, <3>1 DEF ExportsTyped, Working
    <3>4. /\ runner' \in [Runner -> Working] /\ runner'[w] = t
          /\ \A v \in Runner : v # w => runner'[v] = runner[v]
      BY <1>2, <3>2, <3>3 DEF ExportsTyped
    <3>5. RunnerPlaced(w)'
      <4>1. Found(x, t.told)'
        BY <2>2, <3>2
      <4> QED
        BY <1>3, <1>5, <3>2, <3>4, <4>1 DEF RunnerPlaced
    <3> QED
      BY <3>4, <3>5
  <2>3. ASSUME exports[x].kind = "AUDIT_EVENTS", ensureTenantWideAuditAccess(exports[x].scope),
               NEW leads
        PROVE  Found(x, leads)'
    BY <1>4, <1>5, <2>3 DEF Found
  <2>4. ASSUME exports[x].kind # "AUDIT_EVENTS", TeamAllowed(exports[x].scope, exports[x].filters),
               BranchAllowed(exports[x].scope, exports[x].filters), NEW leads,
               leads = {r \in Present : reportingScope(exports[x].scope, exports[x].filters, rows[r])}
        PROVE  Found(x, leads)'
    <3>1. \A r \in leads : r \in Present /\ Entitled(asked[x], rows[r])
      BY <1>4, <2>4, ScopedIsEntitled
    <3>2. Present' = Present /\ asked'[x] # Null /\ asked'[x] = asked[x] /\ rows' = rows
      BY <1>1, <1>4, <1>5, ReportsAssumption DEF Present
    <3>3. leads \subseteq within'[x]
      BY <3>1, <3>2 DEF Reached
    <3> QED
      BY <1>4, <1>5, <2>4, <3>3 DEF Found
  <2>5. PICK leads : Goes(w, "FAILING") \/
           /\ leads \in SUBSET Present
           /\ runner' = [runner EXCEPT ![w].step = "SCOPED", ![w].told = leads]
           /\ IF exports[x].kind = "AUDIT_EVENTS" THEN ensureTenantWideAuditAccess(exports[x].scope)
              ELSE /\ TeamAllowed(exports[x].scope, exports[x].filters)
                   /\ BranchAllowed(exports[x].scope, exports[x].filters)
                   /\ leads = {r \in Present :
                                 reportingScope(exports[x].scope, exports[x].filters, rows[r])}
    <3>1. CASE exports[x].kind = "AUDIT_EVENTS" /\ ~Goes(w, "FAILING")
      <4> WITNESS Present
      <4> QED
        BY <1>3, <3>1 DEF ReadScope, restoreExportContext
    <3>2. CASE exports[x].kind # "AUDIT_EVENTS" /\ ~Goes(w, "FAILING")
      <4> WITNESS {r \in Present : reportingScope(exports[x].scope, exports[x].filters, rows[r])}
      <4> QED
        BY <1>3, <3>2 DEF ReadScope, restoreExportContext
    <3> QED
      BY <3>1, <3>2
  <2>6. CASE Goes(w, "FAILING")
    BY <2>1, <2>6
  <2>7. CASE ~Goes(w, "FAILING")
    <3>1. Found(x, leads)'
      BY <2>3, <2>4, <2>5, <2>7
    <3> QED
      BY <2>2, <2>5, <2>7, <3>1
  <2> QED
    BY <2>6, <2>7
<1> QED
  BY <1>1, <1>2, <1>5, <1>6, RowsKept DEF ExportsTyped

(* What a file tells is what the worker found, or what follows from it at a  *)
(* branch that the filter admits.                                            *)
LEMMA TellsFound ==
    ASSUME ReportsInv, NEW w \in Runner, runner[w].step = "SCOPED"
    PROVE  /\ rowsForExport(w) \in SUBSET ListRow
           /\ Tells(runner[w].job, rowsForExport(w))
<1>1. PICK x \in Export : x = runner[w].job /\ exports[x] # NoExport /\ Found(x, runner[w].told)
  BY DEF ReportsInv, RunnerPlaced
<1>2. exports[x] \in ExportRow /\ asked[x] = exports[x].scope /\ asked[x] \in AuthorizationContext
  BY <1>1, ContextsAssumption DEF ReportsInv, ExportsTyped, ExportRow, ExportPlaced
<1>3. runner[w].told \in SUBSET ListRow
  BY DEF ReportsInv, ExportsTyped, Working
<1>4. CASE exports[x].kind = "AUDIT_EVENTS"
  BY <1>1, <1>3, <1>4 DEF rowsForExport, Tells, Found
<1>5. CASE exports[x].kind # "AUDIT_EVENTS"
  <2> DEFINE c == asked[x]
             f == exports[x].filters
             there == {r \in ListRow : booked[r] # Null /\ branchFilter(c, f, booked[r])}
  <2>1. \A r \in there : booked[r] # Null /\ canAccessBranch(c, booked[r])
    BY <1>1, <1>2, <1>5, FilteredBranch DEF Found
  <2>2. rowsForExport(w) = dashboard(exports[x].kind, c, f, runner[w].told)
    BY <1>1, <1>2, <1>5 DEF rowsForExport, restoreExportContext
  <2>3. CASE exports[x].kind = "LEAD_FUNNEL"
    <3>1. rowsForExport(w) = runner[w].told
      BY <2>2, <2>3 DEF dashboard
    <3> QED
      BY <1>1, <1>3, <1>5, <2>3, <3>1 DEF Found, Tells
  <2>4. CASE exports[x].kind # "LEAD_FUNNEL"
    <3>1. exports[x].kind \in {"BOOKINGS", "DELIVERIES", "REGISTRATION_AGING", "REMINDERS"}
      BY <1>2, <1>5, <2>4, ReportsAssumption DEF ExportRow
    <3>2. \/ rowsForExport(w) = there \cap runner[w].told
          \/ rowsForExport(w) = there /\ c.assignment = "ALL"
      BY <2>2, <3>1 DEF dashboard, allowsUnassignedBranchRecords
    <3> HIDE DEF there
    <3>3. there \subseteq ListRow
      BY DEF there
    <3> QED
      BY <1>1, <1>5, <2>1, <2>4, <3>2, <3>3 DEF Found, Tells
  <2> QED
    BY <2>3, <2>4
<1> QED
  BY <1>4, <1>5

LEMMA PutInv ==
    ASSUME ReportsInv, Reached, NEW w \in Runner, PutPrivateObject(w)
    PROVE  ReportsInv'
<1>1. ListsPlaced' /\ kind' = kind
  BY SameLists DEF PutPrivateObject
<1>2. ExportsTyped
  BY DEF ReportsInv
<1>3. PICK x \in Export : x = runner[w].job /\ exports[x] # NoExport
  BY DEF ReportsInv, RunnerPlaced, PutPrivateObject
<1>4. PICK t : t = [told |-> rowsForExport(w)]
  OBVIOUS
<1>5. t \in [told: SUBSET ListRow] /\ t # Null /\ Tells(x, t.told)
  BY <1>3, <1>4, TellsFound, ReportsAssumption DEF PutPrivateObject
<1>6. /\ file' = [file EXCEPT ![x] = t] /\ UNCHANGED <<booked, exports, queue, asked>>
  BY <1>3, <1>4 DEF PutPrivateObject
<1>7. PICK v : v = [runner[w] EXCEPT !.step = "STORED"]
  OBVIOUS
<1>8. v \in Working /\ v.job = x /\ v.step = "STORED"
  BY <1>2, <1>3, <1>7 DEF ExportsTyped, Working
<1>9. runner' = [runner EXCEPT ![w] = v]
  BY <1>7 DEF PutPrivateObject, Goes
<1>10. ExportsTyped'
  BY <1>2, <1>5, <1>6, <1>8, <1>9, WithinGrows DEF ExportsTyped
<1>11. \A y \in Export : exports[y] # NoExport => asked[y] \in Contexts
  BY DEF ReportsInv, ExportsTyped, ExportPlaced, ExportRow
<1>12. ExportsKeep
  BY <1>2, <1>5, <1>6, <1>11, WithinGrows, ReportsAssumption DEF ExportsKeep, ExportsTyped
<1>13. FileHonest(x)'
  <2>1. file'[x] = t
    BY <1>2, <1>6 DEF ExportsTyped
  <2>2. t.told \in SUBSET ListRow
    BY <1>5
  <2>3. Tells(x, t.told)'
    BY <1>3, <1>5, <1>12, <2>2, TellsKept
  <2> QED
    BY <2>1, <2>3 DEF FileHonest
<1>14. RunnerPlaced(w)'
  BY <1>2, <1>3, <1>5, <1>6, <1>8, <1>9 DEF RunnerPlaced, ExportsTyped
<1>15. ASSUME NEW y \in Export, exports[y] = NoExport PROVE ExportPlaced(y)'
  <2>1. ExportPlaced(y)
    BY DEF ReportsInv
  <2>2. exports'[y] = NoExport /\ queue'[y].at = "ABSENT" /\ file'[y] = Null
    BY <1>2, <1>3, <1>6, <1>15, <2>1 DEF ExportPlaced, ExportsTyped
  <2> QED
    BY <2>2 DEF ExportPlaced, FileHonest, NoExport
<1>16. \A y \in Export : y # x => file'[y] = file[y]
  BY <1>2, <1>6 DEF ExportsTyped
<1>17. \A v1 \in Runner : v1 # w => runner'[v1] = runner[v1]
  BY <1>2, <1>9 DEF ExportsTyped
<1> QED
  BY <1>1, <1>6, <1>10, <1>12, <1>13, <1>14, <1>15, <1>16, <1>17, ReportsKept

(* A worker whose work is over. *)
LEMMA RestsNow ==
    ASSUME ReportsInv, NEW w \in Runner, runner' = [runner EXCEPT ![w] = Idle]
    PROVE  /\ runner' \in [Runner -> Working]
           /\ \A v \in Runner : runner'[v] = runner[v] \/ RunnerPlaced(v)'
<1>1. runner \in [Runner -> Working] /\ Idle \in Working /\ Idle.step = "IDLE"
  BY DEF ReportsInv, ExportsTyped, Idle, Working
<1> QED
  BY <1>1 DEF RunnerPlaced

LEMMA EndedJob ==
    ASSUME ReportsInv, NEW w \in Runner, runner[w].step # "IDLE", EndsJob(w)
    PROVE  /\ queue' \in [Export -> Queued]
           /\ \A x \in Export : exports[x] = NoExport => queue'[x].at = "ABSENT"
<1>1. PICK x \in Export : x = runner[w].job /\ exports[x] # NoExport
  BY DEF ReportsInv, RunnerPlaced
<1>2. queue \in [Export -> Queued] /\ \A y \in Export : exports[y] = NoExport => queue[y].at = "ABSENT"
  BY DEF ReportsInv, ExportsTyped, ExportPlaced
<1>3. PICK q : q = [queue[x] EXCEPT !.at = "ENDED", !.by = Null]
  OBVIOUS
<1>4. q \in Queued
  BY <1>2, <1>3 DEF Queued
<1>5. queue' = queue \/ queue' = [queue EXCEPT ![x] = q]
  BY <1>1, <1>2, <1>3 DEF EndsJob, Queued
<1> QED
  BY <1>1, <1>2, <1>4, <1>5

LEMMA EndsInv ==
    ASSUME ReportsInv, Reached, NEW w \in Runner, CompleteExport(w) \/ FailExport(w)
    PROVE  ReportsInv'
<1>1. ListsPlaced' /\ kind' = kind
  BY SameLists DEF CompleteExport, FailExport
<1>2. ExportsTyped /\ runner[w].step # "IDLE" /\ EndsJob(w) /\ UNCHANGED <<booked, file, asked>>
  BY DEF ReportsInv, CompleteExport, FailExport
<1>3. PICK x \in Export : x = runner[w].job /\ exports[x] # NoExport
  BY <1>2 DEF ReportsInv, RunnerPlaced
<1>4. exports[x] \in ExportRow
  BY <1>2, <1>3 DEF ExportsTyped
<1>5. PICK s \in {"COMPLETED", "FAILED"}, fresh \in BOOLEAN :
         /\ exports' = [exports EXCEPT ![x] = [exports[x] EXCEPT !.status = s, !.fresh = fresh]]
         /\ s = "COMPLETED" => file[x] # Null
  <2>1. CASE CompleteExport(w)
    <3>1. file[x] # Null
      BY <1>2, <1>3, <2>1 DEF ReportsInv, RunnerPlaced, CompleteExport
    <3>2. exports' = [exports EXCEPT ![x] = [exports[x] EXCEPT !.status = "COMPLETED", !.fresh = TRUE]]
      BY <1>2, <1>3, <1>4, <2>1 DEF CompleteExport, ExportsTyped, ExportRow
    <3> QED
      BY <3>1, <3>2
  <2>2. CASE FailExport(w)
    <3>1. exports[x].fresh \in BOOLEAN
      BY <1>4 DEF ExportRow
    <3>2. exports' = [exports EXCEPT ![x] = [exports[x] EXCEPT !.status = "FAILED", !.fresh = exports[x].fresh]]
      BY <1>2, <1>3, <1>4, <2>2 DEF FailExport, ExportsTyped, ExportRow
    <3> QED
      BY <3>1, <3>2
  <2> QED
    BY <2>1, <2>2
<1>6. /\ exports' \in [Export -> ExportRow \cup {NoExport}]
      /\ exports'[x] # NoExport /\ exports'[x].kind = exports[x].kind
      /\ exports'[x].filters = exports[x].filters /\ exports'[x].scope = exports[x].scope
      /\ exports'[x].status = s
      /\ \A y \in Export : y # x => exports'[y] = exports[y]
  BY <1>2, <1>3, <1>5, StatusSet
<1>7. /\ runner' \in [Runner -> Working]
      /\ \A v \in Runner : runner'[v] = runner[v] \/ RunnerPlaced(v)'
  BY <1>2, RestsNow DEF EndsJob
<1>8. /\ queue' \in [Export -> Queued]
      /\ \A y \in Export : exports[y] = NoExport => queue'[y].at = "ABSENT"
  BY <1>2, EndedJob
<1> QED
  BY <1>1, <1>2, <1>3, <1>5, <1>6, <1>7, <1>8, RowsKept DEF ExportsTyped

LEMMA FailsInv ==
    ASSUME ReportsInv, Reached, NEW w \in Runner, ReportFails(w) \/ RunnerDies(w)
    PROVE  ReportsInv'
<1>1. ListsPlaced' /\ kind' = kind
  BY SameLists DEF ReportFails, RunnerDies
<1>2. ExportsTyped /\ \A y \in Export : exports[y] = NoExport => queue[y].at = "ABSENT"
  BY DEF ReportsInv, ExportPlaced
<1>3. UNCHANGED <<booked, exports, queue, file, asked>>
  BY DEF ReportFails, RunnerDies
<1>4. /\ runner' \in [Runner -> Working]
      /\ \A v \in Runner : runner'[v] = runner[v] \/ RunnerPlaced(v)'
  <2>1. CASE RunnerDies(w)
    BY <2>1, RestsNow DEF RunnerDies
  <2>2. CASE ReportFails(w)
    <3>1. /\ runner' \in [Runner -> Working]
          /\ runner'[w].job = runner[w].job /\ runner'[w].step = "FAILING"
          /\ \A v \in Runner : v # w => runner'[v] = runner[v]
      BY <2>2, GoesOn DEF ReportFails
    <3>2. RunnerPlaced(w)
      BY DEF ReportsInv
    <3>3. RunnerPlaced(w)'
      BY <1>3, <2>2, <3>1, <3>2 DEF RunnerPlaced, ReportFails
    <3> QED
      BY <3>1, <3>3
  <2> QED
    BY <2>1, <2>2
<1> QED
  BY <1>1, <1>2, <1>3, <1>4, RowsKept DEF ExportsTyped

LEMMA ReportsStep ==
    ASSUME ReportsInv, [ReportsNext]_<<listVars, reportVars>>
    PROVE  ReportsInv'
<1>1. CASE UNCHANGED <<listVars, reportVars>>
  BY <1>1 DEF ReportsInv, ListsPlaced, ExportsTyped, ExportPlaced, FileHonest, Tells, RunnerPlaced,
              Found, listVars, reportVars
<1>2. CASE ReportsNext
  <2>1. Reached
    BY <1>2 DEF ReportsNext, Reached
  <2> QED
    BY <1>2, <2>1, LeadsMoveInv, BookInv, CreateInv, QueueMoves, ExpiresInv, ReadInv, StartInv,
       ReadScopeInv, PutInv, EndsInv, FailsInv DEF ReportsNext, ExportsMove
<1> QED
  BY <1>1, <1>2

(* Exports, their queue, workers and files keep their types. *)
THEOREM ReportsTyped == ReportsSpec => []ReportsTypeOK
<1>1. ReportsInv => ReportsTypeOK
  BY DEF ReportsInv, ExportsTyped, ReportsTypeOK, ExportRow, Queued, Working
<1> QED
  BY <1>1, ReportsStart, ReportsStep, PTL DEF ReportsSpec

(* A file that can be downloaded tells of nothing that was out of reach of   *)
(* the context in which its requester asked for it.                          *)
THEOREM ExportsAreScoped == ReportsSpec => []ExportsStayInScope
<1>1. ReportsInv => ExportsStayInScope
  <2> SUFFICES ASSUME ReportsInv, NEW x \in Export, exports[x] # NoExport, downloadExport(x)
               PROVE  /\ file[x] # Null
                      /\ exports[x].kind = "AUDIT_EVENTS" => ensureTenantWideAuditAccess(asked[x])
                      /\ exports[x].kind # "AUDIT_EVENTS" =>
                           \A r \in file[x].told :
                              /\ \/ r \in within[x]
                                 \/ exports[x].kind # "LEAD_FUNNEL" /\ asked[x].assignment = "ALL"
                              /\ exports[x].kind # "LEAD_FUNNEL" => canAccessBranch(asked[x], booked[r])
    BY DEF ExportsStayInScope
  <2>1. file[x] # Null /\ Tells(x, file[x].told)
    BY DEF ReportsInv, ExportPlaced, FileHonest, downloadExport
  <2> QED
    BY <2>1 DEF Tells
<1> QED
  BY <1>1, ReportsStart, ReportsStep, PTL DEF ReportsSpec
=============================================================================
