---------------------------- MODULE BookingFile ----------------------------
(***************************************************************************)
(* The file of a confirmed booking, apps/api/src/commercial/               *)
(* commercial.service.ts: finance, insurance, invoice, exchange vehicle,   *)
(* documents, and the readiness evaluations that delivery relies on.       *)
(*                                                                         *)
(* Decisions lock the row they decide and are one action.  What opens a    *)
(* case reads the booking without a lock before it inserts; the completion *)
(* of an upload asks storage and scanner in between; an evaluation reads   *)
(* table after table.  Those are several steps, and desks holds what a     *)
(* request has read.  Amounts only refuse and are left out, and a key that *)
(* is repeated replays.                                                    *)
(***************************************************************************)
EXTENDS Naturals

CONSTANTS
    Deal,       \* bookings
    Loan,       \* finance cases
    TradeIn,    \* exchange cases
    Paper,      \* commercial documents, each of one version
    Desk,       \* requests in progress
    Required    \* what commercial_settings ask for: some of Item

Item == {"FINANCE_DISBURSED", "INVOICE_RECORDED", "INSURANCE_COMPLETE", "DOCUMENT"}
ASSUME FileAssumption == Required \subseteq Item /\ "NONE" \notin Deal

VARIABLES
    deals,      \* bookings, by status
    loans,      \* finance_cases; newest: the latest of a booking
    newest,
    policies,   \* insurance_cases, one of a booking
    invoices,   \* the bookings with a row in commercial_invoices
    tradeIns,   \* exchange_cases
    papers,     \* commercial_documents with their version
    ready,      \* the bookings some evaluation called ready
    desks       \* what each request has read

fileRows == <<deals, loans, newest, policies, invoices, tradeIns, papers, ready>>
fileVars == <<deals, loans, newest, policies, invoices, tradeIns, papers, ready, desks>>

-----------------------------------------------------------------------------
Scan == {"CLEAN", "REJECTED", "PENDING_EXTERNAL_SCAN"}
NoRow == [status |-> "NONE"]
LoanRow == [status: {"APPLIED", "APPROVED", "REJECTED", "DISBURSED"}, of: Deal]
TradeInRow == [status: {"REQUESTED", "ACCEPTED", "REJECTED"}, of: Deal]
PaperRow == [status: {"PENDING", "APPROVED", "REJECTED"}, of: Deal,
             upload: {"PENDING_UPLOAD", "UPLOADED"}, scan: Scan \cup {"PENDING"}]
DeskTask ==
    [step: {"IDLE"}]
    \cup [step: {"OPENING"}, of: Deal]
    \cup [step: {"SCANNED", "WRITING"}, paper: Paper, scan: Scan]
    \cup [step: {"EVALUATING"}, of: Deal, met: SUBSET Item, left: SUBSET Item]

FileTypeOK ==
    /\ deals \in [Deal -> {"CONFIRMED", "CANCELLED"}]
    /\ loans \in [Loan -> LoanRow \cup {NoRow}]
    /\ newest \in [Deal -> Loan \cup {"NONE"}]
    /\ policies \in [Deal -> {"NONE", "OPEN", "COMPLETE"}]
    /\ invoices \subseteq Deal
    /\ tradeIns \in [TradeIn -> TradeInRow \cup {NoRow}]
    /\ papers \in [Paper -> PaperRow \cup {NoRow}]
    /\ ready \subseteq Deal
    /\ desks \in [Desk -> DeskTask]

FileInit ==
    /\ deals = [k \in Deal |-> "CONFIRMED"]
    /\ loans = [f \in Loan |-> NoRow]
    /\ newest = [k \in Deal |-> "NONE"]
    /\ policies = [k \in Deal |-> "NONE"]
    /\ invoices = {}
    /\ tradeIns = [x \in TradeIn |-> NoRow]
    /\ papers = [p \in Paper |-> NoRow]
    /\ ready = {}
    /\ desks = [d \in Desk |-> [step |-> "IDLE"]]

-----------------------------------------------------------------------------
Takes(d, t) == desks' = [desks EXCEPT ![d] = t]
Clears(d) == Takes(d, [step |-> "IDLE"])
On(d, step) == desks[d].step = step

CancelDeal(k) ==
    /\ deals[k] = "CONFIRMED"
    /\ deals' = [deals EXCEPT ![k] = "CANCELLED"]
    /\ UNCHANGED <<loans, newest, policies, invoices, tradeIns, papers, ready, desks>>

(* getBooking and assertConfirmed, without a lock.                          *)
assertConfirmed(d, k) ==
    /\ On(d, "IDLE") /\ deals[k] = "CONFIRMED"
    /\ Takes(d, [step |-> "OPENING", of |-> k])
    /\ UNCHANGED fileRows

(* finance_cases_active_booking_uidx, exchange_cases_active_booking_uidx.   *)
createFinance(d, f) ==
    LET k == desks[d].of IN
    /\ On(d, "OPENING") /\ loans[f] = NoRow
    /\ \A o \in Loan : loans[o].status \in {"APPLIED", "APPROVED"} => loans[o].of # k
    /\ loans' = [loans EXCEPT ![f] = [status |-> "APPLIED", of |-> k]]
    /\ newest' = [newest EXCEPT ![k] = f]
    /\ Clears(d)
    /\ UNCHANGED <<deals, policies, invoices, tradeIns, papers, ready>>
createInsurance(d, status) ==
    /\ On(d, "OPENING")
    /\ policies' = [policies EXCEPT ![desks[d].of] = status]
    /\ Clears(d)
    /\ UNCHANGED <<deals, loans, newest, invoices, tradeIns, papers, ready>>
createInvoice(d) ==
    /\ On(d, "OPENING")
    /\ invoices' = invoices \cup {desks[d].of}
    /\ Clears(d)
    /\ UNCHANGED <<deals, loans, newest, policies, tradeIns, papers, ready>>
createExchange(d, x) ==
    LET k == desks[d].of IN
    /\ On(d, "OPENING") /\ tradeIns[x] = NoRow
    /\ \A o \in TradeIn : tradeIns[o].status = "REQUESTED" => tradeIns[o].of # k
    /\ tradeIns' = [tradeIns EXCEPT ![x] = [status |-> "REQUESTED", of |-> k]]
    /\ Clears(d)
    /\ UNCHANGED <<deals, loans, newest, policies, invoices, papers, ready>>
initiateDocument(d, p) ==
    /\ On(d, "OPENING") /\ papers[p] = NoRow
    /\ papers' = [papers EXCEPT ![p] = [status |-> "PENDING", of |-> desks[d].of,
                                        upload |-> "PENDING_UPLOAD", scan |-> "PENDING"]]
    /\ Clears(d)
    /\ UNCHANGED <<deals, loans, newest, policies, invoices, tradeIns, ready>>

-----------------------------------------------------------------------------
OpenLoan(f, status) == loans[f].status = status
LoanBecomes(f, from, to) ==
    /\ OpenLoan(f, from)
    /\ loans' = [loans EXCEPT ![f].status = to]
    /\ UNCHANGED <<deals, newest, policies, invoices, tradeIns, papers, ready, desks>>
decideFinance(f, decision) == LoanBecomes(f, "APPLIED", decision)
disburseFinance(f) == LoanBecomes(f, "APPROVED", "DISBURSED")
decideExchange(x, decision) ==
    /\ tradeIns[x].status = "REQUESTED"
    /\ tradeIns' = [tradeIns EXCEPT ![x].status = decision]
    /\ UNCHANGED <<deals, loans, newest, policies, invoices, papers, ready, desks>>

-----------------------------------------------------------------------------
(* completeDocument: a preflight, storage and scanner, then a transaction   *)
(* that reads the document again and writes its version where the upload is *)
(* still pending.  A rejected scan rejects the document all the same.       *)
Preflight(d, p, scan) ==
    /\ On(d, "IDLE") /\ papers[p] # NoRow /\ papers[p].upload = "PENDING_UPLOAD"
    /\ Takes(d, [step |-> "SCANNED", paper |-> p, scan |-> scan])
    /\ UNCHANGED fileRows
ReadAgain(d) ==
    LET t == desks[d] IN
    /\ On(d, "SCANNED") /\ papers[t.paper].upload = "PENDING_UPLOAD"
    /\ Takes(d, [t EXCEPT !.step = "WRITING"])
    /\ UNCHANGED fileRows
FaultyStillPending(p) == TRUE
StillPending(p) == papers[p].upload = "PENDING_UPLOAD"
completeDocument(d) ==
    LET t == desks[d]
        row == papers[t.paper]
        written == IF StillPending(t.paper)
                   THEN [row EXCEPT !.upload = "UPLOADED", !.scan = t.scan] ELSE row
    IN
    /\ On(d, "WRITING")
    /\ papers' = [papers EXCEPT ![t.paper] =
           IF t.scan = "REJECTED" THEN [written EXCEPT !.status = "REJECTED"] ELSE written]
    /\ Clears(d)
    /\ UNCHANGED <<deals, loans, newest, policies, invoices, tradeIns, ready>>

(* verifyDocument, under the lock of the document.                          *)
verifyDocument(p, decision) ==
    /\ papers[p] # NoRow
    /\ papers[p].upload = "UPLOADED" /\ papers[p].status # "APPROVED"
    /\ decision = "APPROVED" => papers[p].scan = "CLEAN"
    /\ papers' = [papers EXCEPT ![p].status = decision]
    /\ UNCHANGED <<deals, loans, newest, policies, invoices, tradeIns, ready, desks>>

-----------------------------------------------------------------------------
(* evaluateReadiness reads the booking, then the rows of one item after the *)
(* other, in this order, and stores the verdict.  The payments, the         *)
(* allocation and the customer's confirmation are other modules': others    *)
(* says how they stand.                                                     *)
BeginEvaluation(d, k) ==
    /\ On(d, "IDLE") /\ deals[k] = "CONFIRMED"
    /\ Takes(d, [step |-> "EVALUATING", of |-> k, met |-> {}, left |-> Required])
    /\ UNCHANGED fileRows
Met(k, item) ==
    CASE item = "FINANCE_DISBURSED" ->
             newest[k] # "NONE" /\ loans[newest[k]].status = "DISBURSED"
      [] item = "INVOICE_RECORDED" -> k \in invoices
      [] item = "INSURANCE_COMPLETE" -> policies[k] = "COMPLETE"
      [] item = "DOCUMENT" ->
             \E p \in Paper : papers[p].status = "APPROVED" /\ papers[p].of = k
Turn == [FINANCE_DISBURSED |-> 1, INSURANCE_COMPLETE |-> 2, INVOICE_RECORDED |-> 3,
         DOCUMENT |-> 4]
ReadItem(d, item) ==
    LET t == desks[d] IN
    /\ On(d, "EVALUATING") /\ item \in t.left
    /\ \A o \in t.left : Turn[item] <= Turn[o]
    /\ Takes(d, [t EXCEPT !.left = @ \ {item},
                          !.met = IF Met(t.of, item) THEN @ \cup {item} ELSE @])
    /\ UNCHANGED fileRows
FaultySatisfied(met) == met # {}
Satisfied(met) == Required \subseteq met
evaluateReadiness(d, others) ==
    LET t == desks[d] IN
    /\ On(d, "EVALUATING") /\ t.left = {}
    /\ ready' = IF others /\ Satisfied(t.met) THEN ready \cup {t.of} ELSE ready
    /\ Clears(d)
    /\ UNCHANGED <<deals, loans, newest, policies, invoices, tradeIns, papers>>

Abandon(d) == ~On(d, "IDLE") /\ Clears(d) /\ UNCHANGED fileRows

-----------------------------------------------------------------------------
DeskStep(d) ==
    \/ \E k \in Deal : assertConfirmed(d, k) \/ BeginEvaluation(d, k)
    \/ \E f \in Loan : createFinance(d, f)
    \/ \E status \in {"OPEN", "COMPLETE"} : createInsurance(d, status)
    \/ createInvoice(d)
    \/ \E x \in TradeIn : createExchange(d, x)
    \/ \E p \in Paper : initiateDocument(d, p) \/ \E scan \in Scan : Preflight(d, p, scan)
    \/ ReadAgain(d) \/ completeDocument(d)
    \/ \E item \in Item : ReadItem(d, item)
    \/ \E others \in BOOLEAN : evaluateReadiness(d, others)
    \/ Abandon(d)

FileNext ==
    \/ \E d \in Desk : DeskStep(d)
    \/ \E k \in Deal : CancelDeal(k)
    \/ \E f \in Loan :
        disburseFinance(f) \/ \E v \in {"APPROVED", "REJECTED"} : decideFinance(f, v)
    \/ \E x \in TradeIn, v \in {"ACCEPTED", "REJECTED"} : decideExchange(x, v)
    \/ \E p \in Paper, v \in {"APPROVED", "REJECTED"} : verifyDocument(p, v)

FileSpec == FileInit /\ [][FileNext]_fileVars

-----------------------------------------------------------------------------
(* An approved document is the one the scanner found clean, however many    *)
(* completions of its upload are under way with whatever results.           *)
ApprovedPapersAreClean ==
    \A p \in Paper :
        papers[p].status = "APPROVED" =>
            papers[p].upload = "UPLOADED" /\ papers[p].scan = "CLEAN"

(* What a ready evaluation relied on stays: some loan of the booking was    *)
(* paid out, its invoice is recorded, although table after table was read   *)
(* while others decided.                                                    *)
ReadyRestsOnEvidence ==
    \A k \in ready :
        /\ "FINANCE_DISBURSED" \in Required =>
               \E f \in Loan : loans[f].status = "DISBURSED" /\ loans[f].of = k
        /\ "INVOICE_RECORDED" \in Required => k \in invoices
=============================================================================
