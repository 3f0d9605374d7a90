---------------------------- MODULE Registration ----------------------------
(***************************************************************************)
(* Registration of sold vehicles with the transport office:                *)
(* apps/api/src/registration/registration.service.ts.  A case goes through *)
(* the office's stages, its RC copies are uploaded, scanned, reviewed and  *)
(* shared, and the customer's vehicle is recorded beside it.               *)
(*                                                                         *)
(* The commands of a case lock its row before they read it, so each is one *)
(* action; a client sends the version it saw, which its guard compares.    *)
(* Two commands read a document before they lock the case, and the         *)
(* creation of a vehicle locks nothing: in those, reading and writing are  *)
(* steps apart.  A key that is repeated replays and changes nothing.       *)
(***************************************************************************)
EXTENDS Naturals

CONSTANTS
    Case,           \* registration cases, one of a booking
    Copy,           \* RC documents
    ExternalCar,    \* vehicles bought elsewhere
    Clerk,          \* requests in progress
    MaxCaseVersion  \* bound: versions of a case or a vehicle

ASSUME RegistrationAssumption ==
    /\ MaxCaseVersion \in Nat \ {0}
    /\ "NONE" \notin Case

VARIABLES
    cases,      \* registration_cases
    copies,     \* rc_documents
    handed,     \* rc_delivery_records: the copies that were shared or collected
    cars,       \* customer_vehicles, of the dealership by case and from elsewhere
    delivered,  \* the cases whose booking is delivered
    clerks      \* what each request has read

caseRows == <<cases, copies, handed, cars, delivered>>
caseVars == <<cases, copies, handed, cars, delivered, clerks>>

-----------------------------------------------------------------------------
CaseStatus == {"DOCUMENTS_READY", "REGISTRATION_STARTED", "RTO_SUBMITTED",
               "NUMBER_ALLOTTED", "RC_PENDING", "RC_RECEIVED", "RC_SHARED_COLLECTED",
               "CASE_CLOSED", "REOPENED"}
Receiving == {"NUMBER_ALLOTTED", "RC_PENDING", "RC_RECEIVED"}
Number == {"NONE", "TEMPORARY", "PERMANENT"}
ScanResult == {"CLEAN", "REJECTED", "UNAVAILABLE"}

NoCase == [status |-> "NONE"]
NoCopy == [status |-> "NONE"]
NoCar == [version |-> 0]
CaseRow == [status: CaseStatus, filed: BOOLEAN, number: Number, version: 1..MaxCaseVersion]
CopyRow == [status: {"PENDING_UPLOAD", "PENDING_SCAN", "VERIFIED", "REJECTED"},
            scan: ScanResult \cup {"NONE"}, of: Case]
CarRow == [number: Number, version: 1..MaxCaseVersion]
ClerkTask ==
    [step: {"IDLE"}]
    \cup [step: {"COMPLETING"}, copy: Copy, seen: CopyRow, expected: 1..MaxCaseVersion]
    \cup [step: {"REVIEWING"}, copy: Copy, seen: CopyRow]
    \cup [step: {"HANDOVER"}, of: Case, number: Number]

RegistrationTypeOK ==
    /\ cases \in [Case -> CaseRow \cup {NoCase}]
    /\ copies \in [Copy -> CopyRow \cup {NoCopy}]
    /\ handed \subseteq Copy
    /\ cars \in [Case \cup ExternalCar -> CarRow \cup {NoCar}]
    /\ delivered \subseteq Case
    /\ clerks \in [Clerk -> ClerkTask]

RegistrationInit ==
    /\ cases = [c \in Case |-> NoCase]
    /\ copies = [d \in Copy |-> NoCopy]
    /\ handed = {}
    /\ cars = [v \in Case \cup ExternalCar |-> NoCar]
    /\ delivered = {}
    /\ clerks = [s \in Clerk |-> [step |-> "IDLE"]]

-----------------------------------------------------------------------------
Clerks(s, t) == clerks' = [clerks EXCEPT ![s] = t]
Idles(s) == Clerks(s, [step |-> "IDLE"])
Does(s, step) == clerks[s].step = step

(* lockCase, assertStatus and updateCase.                                   *)
CaseMoves(c, allowed, row) ==
    /\ cases[c].status \in allowed /\ cases[c].version < MaxCaseVersion
    /\ cases' = [cases EXCEPT ![c] = [row EXCEPT !.version = cases[c].version + 1]]
CaseTurns(c, allowed, status) ==
    /\ CaseMoves(c, allowed, [cases[c] EXCEPT !.status = status])
    /\ UNCHANGED <<copies, handed, cars, delivered, clerks>>

(* create, of a confirmed booking with an allocated unit; delivery of the   *)
(* booking is another module's and may come before or after.                *)
openCase(c) ==
    /\ cases[c] = NoCase
    /\ cases' = [cases EXCEPT ![c] = [status |-> "DOCUMENTS_READY", filed |-> FALSE,
                                      number |-> "NONE", version |-> 1]]
    /\ UNCHANGED <<copies, handed, cars, delivered, clerks>>
BookingDelivered(c) ==
    /\ c \notin delivered
    /\ delivered' = delivered \cup {c}
    /\ UNCHANGED <<cases, copies, handed, cars, clerks>>

assignClerk(c) == CaseTurns(c, CaseStatus, cases[c].status)
startCase(c) == CaseTurns(c, {"DOCUMENTS_READY", "REOPENED"}, "REGISTRATION_STARTED")
submitRto(c) ==
    /\ CaseMoves(c, {"REGISTRATION_STARTED"},
                 [cases[c] EXCEPT !.status = "RTO_SUBMITTED", !.filed = TRUE])
    /\ UNCHANGED <<copies, handed, cars, delivered, clerks>>
markPending(c) == CaseTurns(c, {"RTO_SUBMITTED", "NUMBER_ALLOTTED"}, "RC_PENDING")

(* allotNumber also writes the vehicle's row, if there is one by now.       *)
CarUpdated(v, number) ==
    /\ cars[v].version < MaxCaseVersion
    /\ cars' = [cars EXCEPT ![v] = [number |-> number, version |-> cars[v].version + 1]]
allotNumber(c, number) ==
    /\ CaseMoves(c, {"RTO_SUBMITTED"},
                 [cases[c] EXCEPT !.status = "NUMBER_ALLOTTED", !.number = number])
    /\ IF cars[c] = NoCar THEN UNCHANGED cars ELSE CarUpdated(c, number)
    /\ UNCHANGED <<copies, handed, delivered, clerks>>

-----------------------------------------------------------------------------
initiateRcUpload(c, d) ==
    /\ cases[c].status \in Receiving
    /\ copies[d] = NoCopy
    /\ copies' = [copies EXCEPT ![d] = [status |-> "PENDING_UPLOAD", scan |-> "NONE", of |-> c]]
    /\ UNCHANGED <<cases, handed, cars, delivered, clerks>>

(* completeRcUpload reads the document, asks storage and scanner, and only  *)
(* then locks the case.  What it writes rests on the document it read.  The *)
(* version a client names is the case's when it asks: an older one fails.   *)
BeginCompletion(s, d) ==
    /\ Does(s, "IDLE") /\ copies[d] # NoCopy
    /\ Clerks(s, [step |-> "COMPLETING", copy |-> d, seen |-> copies[d],
                  expected |-> cases[copies[d].of].version])
    /\ UNCHANGED caseRows
FaultyExpected(c, version) == TRUE
Expected(c, version) == cases[c].version = version
Scanned(copy, scan) ==
    [status |-> IF scan = "REJECTED" THEN "REJECTED" ELSE "PENDING_SCAN",
     scan |-> scan, of |-> copy.of]
completeRcUpload(s, scan) ==
    LET t == clerks[s]
        c == t.seen.of
    IN
    /\ Does(s, "COMPLETING")
    /\ Expected(c, t.expected)
    /\ t.seen.status = "PENDING_UPLOAD"
    /\ copies' = [copies EXCEPT ![t.copy] = Scanned(@, scan)]
    /\ CaseMoves(c, Receiving, [cases[c] EXCEPT !.status = "RC_RECEIVED"])
    /\ Idles(s)
    /\ UNCHANGED <<handed, cars, delivered>>

(* reviewDocument reads the document before the lock, and asks for no       *)
(* version.                                                                 *)
BeginReviewCopy(s, d) ==
    /\ Does(s, "IDLE") /\ copies[d] # NoCopy
    /\ Clerks(s, [step |-> "REVIEWING", copy |-> d, seen |-> copies[d]])
    /\ UNCHANGED caseRows
Verifiable(copy) == copy.scan = "CLEAN"
reviewDocument(s, decision) ==
    LET t == clerks[s] IN
    /\ Does(s, "REVIEWING")
    /\ decision = "VERIFIED" => Verifiable(t.seen)
    /\ t.seen.status \in {"PENDING_SCAN", "REJECTED"}
    /\ copies' = [copies EXCEPT ![t.copy].status = decision]
    /\ Idles(s)
    /\ UNCHANGED <<cases, handed, cars, delivered>>

(* share hands over a verified copy; of several, the one reviewed last.     *)
share(c, d) ==
    /\ copies[d].status = "VERIFIED" /\ copies[d].of = c
    /\ CaseMoves(c, {"RC_RECEIVED"}, [cases[c] EXCEPT !.status = "RC_SHARED_COLLECTED"])
    /\ handed' = handed \cup {d}
    /\ UNCHANGED <<copies, cars, delivered, clerks>>

VerifiedCopies(c) == {d \in Copy : copies[d].status = "VERIFIED" /\ copies[d].of = c}
close(c) ==
    /\ cases[c].status = "RC_SHARED_COLLECTED"
    /\ cases[c].filed /\ cases[c].number = "PERMANENT"
    /\ VerifiedCopies(c) # {}
    /\ CaseTurns(c, {"RC_SHARED_COLLECTED"}, "CASE_CLOSED")
reopen(c) == CaseTurns(c, {"CASE_CLOSED"}, "REOPENED")

(* correct rewrites fields of the case at any stage, never the vehicle.     *)
correct(c, filed, number) ==
    /\ CaseMoves(c, CaseStatus, [cases[c] EXCEPT !.filed = filed, !.number = number])
    /\ UNCHANGED <<copies, handed, cars, delivered, clerks>>

-----------------------------------------------------------------------------
(* createDealershipVehicle reads the delivery and the case without a lock;  *)
(* a booking has one vehicle.                                               *)
BeginVehicle(s, c) ==
    /\ Does(s, "IDLE") /\ c \in delivered /\ cars[c] = NoCar
    /\ Clerks(s, [step |-> "HANDOVER", of |-> c,
                  number |-> IF cases[c] = NoCase THEN "NONE" ELSE cases[c].number])
    /\ UNCHANGED caseRows
createDealershipVehicle(s) ==
    LET t == clerks[s] IN
    /\ Does(s, "HANDOVER") /\ cars[t.of] = NoCar
    /\ cars' = [cars EXCEPT ![t.of] = [number |-> t.number, version |-> 1]]
    /\ Idles(s)
    /\ UNCHANGED <<cases, copies, handed, delivered>>
createExternalVehicle(v, number) ==
    /\ cars[v] = NoCar
    /\ cars' = [cars EXCEPT ![v] = [number |-> number, version |-> 1]]
    /\ UNCHANGED <<cases, copies, handed, delivered, clerks>>
updateVehicleCoverage(v) ==
    /\ cars[v] # NoCar
    /\ CarUpdated(v, cars[v].number)
    /\ UNCHANGED <<cases, copies, handed, delivered, clerks>>

(* A request that is refused or fails leaves nothing behind.                *)
Refused(s) == ~Does(s, "IDLE") /\ Idles(s) /\ UNCHANGED caseRows

-----------------------------------------------------------------------------
CaseCommand(c) ==
    \/ openCase(c) \/ BookingDelivered(c) \/ assignClerk(c) \/ startCase(c)
    \/ submitRto(c) \/ markPending(c) \/ close(c) \/ reopen(c)
    \/ \E number \in Number \ {"NONE"} : allotNumber(c, number)
    \/ \E d \in Copy : initiateRcUpload(c, d) \/ share(c, d)
    \/ \E filed \in BOOLEAN, number \in Number : correct(c, filed, number)

ClerkStep(s) ==
    \/ \E d \in Copy : BeginCompletion(s, d) \/ BeginReviewCopy(s, d)
    \/ \E scan \in ScanResult : completeRcUpload(s, scan)
    \/ \E decision \in {"VERIFIED", "REJECTED"} : reviewDocument(s, decision)
    \/ \E c \in Case : BeginVehicle(s, c)
    \/ createDealershipVehicle(s) \/ Refused(s)

RegistrationNext ==
    \/ \E c \in Case : CaseCommand(c)
    \/ \E s \in Clerk : ClerkStep(s)
    \/ \E v \in ExternalCar, number \in Number : createExternalVehicle(v, number)
    \/ \E v \in Case \cup ExternalCar : updateVehicleCoverage(v)

RegistrationSpec == RegistrationInit /\ [][RegistrationNext]_caseVars

-----------------------------------------------------------------------------
(* Whatever has been handed to a customer, and whatever may be handed over, *)
(* is a copy the scanner found clean: no second completion of its upload    *)
(* puts another result in its place.                                        *)
CopiesHandedAreClean ==
    \A d \in Copy :
        d \in handed \/ copies[d].status = "VERIFIED" => copies[d].scan = "CLEAN"
=============================================================================
