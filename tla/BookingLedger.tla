--------------------------- MODULE BookingLedger ---------------------------
(***************************************************************************)
(* Quotations, discount approvals, bookings and payment evidence:          *)
(* apps/api/src/commercial/commercial.service.ts.                          *)
(*                                                                         *)
(* A quotation row is a projection of its newest version; the versions and *)
(* the discount approvals beside them are kept for ever.  A booking copies *)
(* the price of one version.  Money that was received is a payment entry;  *)
(* it counts once a verification event says VERIFIED, and a mistake is     *)
(* corrected by a linked REVERSAL entry, never by an edit.                 *)
(*                                                                         *)
(* The quotation commands lock the quotation row before they read          *)
(* anything, so each is one action.  The payment commands lock the payment *)
(* entry only and read the booking and the other entries at READ           *)
(* COMMITTED: their reads and their commit are separate actions, and tx    *)
(* holds what an open transaction has read.                                *)
(***************************************************************************)
EXTENDS Integers, FiniteSets, FiniteSetsExt

CONSTANTS
    Quote, Booking, Payment,  \* row ids
    Staff,                    \* API callers, each with one open transaction
    None,                     \* SQL NULL
    Price,                    \* payable amounts, in minor units
    Amount,                   \* amounts received, in minor units
    MaxOffer                  \* bound: number of versions of a quotation

ASSUME LedgerAssumption ==
    /\ Booking \cap Payment = {}
    /\ None \notin Quote \cup Booking \cup Payment
    /\ Price \subseteq Nat \ {0} /\ Amount \subseteq Nat \ {0}
    /\ MaxOffer \in Nat \ {0}

VARIABLES
    quote,    \* quotations
    offer,    \* quotation_versions with the discount approval of each
    booking,  \* bookings
    pay,      \* payment_entries with the verification event of each
    tx        \* what the open transaction of a caller has read

ledgerVars == <<quote, offer, booking, pay, tx>>

-----------------------------------------------------------------------------
Approval == {"NONE", "NOT_REQUIRED", "PENDING", "APPROVED", "REJECTED"}
Bookable == {"NOT_REQUIRED", "APPROVED"}

QuoteRow == [status : {"NONE", "DRAFT", "ACTIVE"}, approval : Approval,
             version : 0..MaxOffer, payable : Price \cup {0}, lapsed : BOOLEAN]
OfferRow == [payable : Price \cup {0}, approval : Approval]
BookingRow == [status : {"NONE", "CONFIRMED", "CANCELLED"}, quote : Quote \cup {None},
               version : 0..MaxOffer, payable : Price \cup {0}, note : BOOLEAN]
PaymentRow == [kind : {"NONE", "PAYMENT", "REVERSAL"}, booking : Booking \cup {None},
               amount : Amount \cup {0}, original : Payment \cup {None},
               verdict : {"PENDING", "VERIFIED", "REJECTED"}]
Transaction == [op : {"NONE", "RECORD", "VERIFY", "CANCEL"},
                row : Booking \cup Payment \cup {None}, counts : SUBSET Payment]

NoOffer == [payable |-> 0, approval |-> "NONE"]
NoPayment == [kind |-> "NONE", booking |-> None, amount |-> 0, original |-> None,
              verdict |-> "PENDING"]
NoTx == [op |-> "NONE", row |-> None, counts |-> {}]

LedgerTypeOK ==
    /\ quote \in [Quote -> QuoteRow]
    /\ offer \in [Quote -> [1..MaxOffer -> OfferRow]]
    /\ booking \in [Booking -> BookingRow]
    /\ pay \in [Payment -> PaymentRow]
    /\ tx \in [Staff -> Transaction]

LedgerInit ==
    /\ quote = [q \in Quote |-> [status |-> "NONE", approval |-> "NONE", version |-> 0,
                                 payable |-> 0, lapsed |-> FALSE]]
    /\ offer = [q \in Quote |-> [v \in 1..MaxOffer |-> NoOffer]]
    /\ booking = [k \in Booking |-> [status |-> "NONE", quote |-> None, version |-> 0,
                                     payable |-> 0, note |-> FALSE]]
    /\ pay = [p \in Payment |-> NoPayment]
    /\ tx = [s \in Staff |-> NoTx]

-----------------------------------------------------------------------------
(* paymentBalancesTx: the verified entries of booking k, and their sum. *)
Counts(k) == {p \in Payment : pay[p].booking = k /\ pay[p].verdict = "VERIFIED"}
Total(entries) ==
    MapThenSumSet(LAMBDA p : IF pay[p].kind = "REVERSAL" THEN -pay[p].amount
                                                        ELSE pay[p].amount, entries)
Paid(k) == Total(Counts(k))

(* SELECT ... FOR UPDATE of a row waits while another transaction holds it. *)
Unlocked(row, ops) == \A s \in Staff : tx[s].op \in ops => tx[s].row # row

(* createQuotation and reviseQuotation write the price and what it needs. *)
Quoted(q, v, p, approval) ==
    /\ quote' = [quote EXCEPT ![q] =
                   [status |-> IF approval = "PENDING" THEN "DRAFT" ELSE "ACTIVE",
                    approval |-> approval, version |-> v, payable |-> p,
                    lapsed |-> FALSE]]
    /\ offer' = [offer EXCEPT ![q][v] = [payable |-> p, approval |-> approval]]
    /\ UNCHANGED <<booking, pay, tx>>

CreateQuotation(q, p, approval) ==
    /\ quote[q].status = "NONE"
    /\ Quoted(q, 1, p, approval)

ReviseQuotation(q, expected, p, approval) ==
    /\ quote[q].status # "NONE"
    /\ quote[q].version = expected
    /\ expected < MaxOffer
    /\ Quoted(q, expected + 1, p, approval)

DecideDiscount(q, expected, decision) ==
    /\ quote[q].version = expected
    /\ quote[q].approval = "PENDING"
    /\ offer[q][expected].approval = "PENDING"
    /\ offer' = [offer EXCEPT ![q][expected].approval = decision]
    /\ quote' = [quote EXCEPT ![q].approval = decision,
                              ![q].status = IF decision = "APPROVED" THEN "ACTIVE"
                                                                     ELSE "DRAFT"]
    /\ UNCHANGED <<booking, pay, tx>>

(* The clock passes expires_at. *)
Lapse(q) ==
    /\ quote[q].status # "NONE" /\ ~quote[q].lapsed
    /\ quote' = [quote EXCEPT ![q].lapsed = TRUE]
    /\ UNCHANGED <<offer, booking, pay, tx>>

(* Faulty: the version the customer agreed to is not compared. *)
BookableAtAnyVersion(q, v) ==
    quote[q].status = "ACTIVE" /\ quote[q].approval \in Bookable /\ ~quote[q].lapsed

BookableAt(q, v) ==
    /\ quote[q].version = v
    /\ quote[q].status = "ACTIVE"
    /\ quote[q].approval \in Bookable
    /\ ~quote[q].lapsed

(* bookings_quotation_version_uidx lets a version be booked once. *)
CreateBooking(k, q, v) ==
    /\ booking[k].status = "NONE"
    /\ BookableAt(q, v)
    /\ ~ \E o \in Booking : booking[o].quote = q /\ booking[o].version = v
    /\ booking' = [booking EXCEPT ![k] = [status |-> "CONFIRMED", quote |-> q, version |-> v,
                                          payable |-> quote[q].payable, note |-> FALSE]]
    /\ UNCHANGED <<quote, offer, pay, tx>>

-----------------------------------------------------------------------------
(* cancelBooking locks the booking, reads what was paid and commits later.  *)
(* In verifyPayment and here the reads of one transaction are taken         *)
(* together, at the last of them.                                           *)
BeginCancel(s, k) ==
    /\ tx[s] = NoTx
    /\ Unlocked(k, {"CANCEL"})
    /\ booking[k].status = "CONFIRMED"
    /\ tx' = [tx EXCEPT ![s] = [op |-> "CANCEL", row |-> k, counts |-> Counts(k)]]
    /\ UNCHANGED <<quote, offer, booking, pay>>

CancelBooking(s, k, note) ==
    /\ tx[s].op = "CANCEL" /\ tx[s].row = k
    /\ Total(tx[s].counts) > 0 => note
    /\ booking' = [booking EXCEPT ![k].status = "CANCELLED", ![k].note = note]
    /\ tx' = [tx EXCEPT ![s] = NoTx]
    /\ UNCHANGED <<quote, offer, pay>>

(* createPayment reads the booking without a lock.  Its INSERT then takes   *)
(* the foreign key's share lock, which waits for an open cancelBooking.     *)
BeginPayment(s, k) ==
    /\ tx[s] = NoTx
    /\ booking[k].status = "CONFIRMED"
    /\ tx' = [tx EXCEPT ![s] = [op |-> "RECORD", row |-> k, counts |-> {}]]
    /\ UNCHANGED <<quote, offer, booking, pay>>

CreatePayment(s, p, amount) ==
    LET k == tx[s].row IN
    /\ tx[s].op = "RECORD"
    /\ pay[p].kind = "NONE"
    /\ Unlocked(k, {"CANCEL"})
    /\ pay' = [pay EXCEPT ![p] = [NoPayment EXCEPT !.kind = "PAYMENT", !.booking = k,
                                                   !.amount = amount]]
    /\ tx' = [tx EXCEPT ![s] = NoTx]
    /\ UNCHANGED <<quote, offer, booking>>

(* verifyPayment locks the entry, which must have no decision yet. *)
Decidable(p) ==
    /\ pay[p].kind # "NONE" /\ pay[p].verdict = "PENDING"
    /\ Unlocked(p, {"VERIFY"})

BeginVerify(s, p) ==
    LET k == pay[p].booking IN
    /\ tx[s] = NoTx
    /\ Decidable(p)
    /\ booking[k].status = "CONFIRMED"
    /\ tx' = [tx EXCEPT ![s] = [op |-> "VERIFY", row |-> p, counts |-> Counts(k)]]
    /\ UNCHANGED <<quote, offer, booking, pay>>

VerifyPayment(s, p, decision) ==
    /\ tx[s].op = "VERIFY" /\ tx[s].row = p
    /\ decision = "VERIFIED" =>
         Total(tx[s].counts) + pay[p].amount <= booking[pay[p].booking].payable
    /\ pay' = [pay EXCEPT ![p].verdict = decision]
    /\ tx' = [tx EXCEPT ![s] = NoTx]
    /\ UNCHANGED <<quote, offer, booking>>

(* payment_entries_one_reversal_uidx *)
Reversed(p) == \E o \in Payment : pay[o].original = p

(* reversePayment.  Nothing it reads can change before it commits except    *)
(* the balance, and the balance cannot fall below the amount of an entry    *)
(* that is verified, unreversed and locked, so it is one action.            *)
ReversePayment(p, r) ==
    LET k == pay[p].booking IN
    /\ pay[p].kind = "PAYMENT" /\ pay[p].verdict = "VERIFIED"
    /\ pay[r].kind = "NONE"
    /\ ~Reversed(p)
    /\ Unlocked(k, {"CANCEL"})
    /\ Paid(k) - pay[p].amount >= 0
    /\ pay' = [pay EXCEPT ![r] = [kind |-> "REVERSAL", booking |-> k,
                                  amount |-> pay[p].amount, original |-> p,
                                  verdict |-> "VERIFIED"]]
    /\ UNCHANGED <<quote, offer, booking, tx>>

(* A rejection, a lost connection or a crash rolls the transaction back. *)
Rollback(s) ==
    /\ tx[s] # NoTx
    /\ tx' = [tx EXCEPT ![s] = NoTx]
    /\ UNCHANGED <<quote, offer, booking, pay>>

-----------------------------------------------------------------------------
QuoteNext ==
    \E q \in Quote :
        \/ \E p \in Price, approval \in {"NOT_REQUIRED", "PENDING"} :
             \/ CreateQuotation(q, p, approval)
             \/ \E v \in 1..MaxOffer : ReviseQuotation(q, v, p, approval)
        \/ \E v \in 1..MaxOffer, d \in {"APPROVED", "REJECTED"} : DecideDiscount(q, v, d)
        \/ Lapse(q)
        \/ \E k \in Booking, v \in 1..MaxOffer : CreateBooking(k, q, v)

StaffNext ==
    \E s \in Staff :
        \/ \E k \in Booking : BeginCancel(s, k) \/ BeginPayment(s, k)
        \/ \E k \in Booking, note \in BOOLEAN : CancelBooking(s, k, note)
        \/ \E p \in Payment, amount \in Amount : CreatePayment(s, p, amount)
        \/ \E p \in Payment : BeginVerify(s, p)
        \/ \E p \in Payment, d \in {"VERIFIED", "REJECTED"} : VerifyPayment(s, p, d)
        \/ Rollback(s)

LedgerNext == QuoteNext \/ StaffNext \/ (\E p, r \in Payment : ReversePayment(p, r))

LedgerSpec == LedgerInit /\ [][LedgerNext]_ledgerVars

-----------------------------------------------------------------------------
(* Properties.                                                             *)

(* A booking's price is the price of the version it names, and that         *)
(* version's discount needed no approval or was approved: a revision or a   *)
(* decision that lands beside the booking cannot mix two versions.  And a   *)
(* version is consumed by one booking.                                      *)
BookedAsOffered ==
    \A k \in Booking : booking[k].status # "NONE" =>
        LET o == offer[booking[k].quote][booking[k].version] IN
        /\ o.payable = booking[k].payable
        /\ o.approval \in Bookable
OneBookingPerVersion ==
    \A k, o \in Booking :
        booking[k].status # "NONE" /\ booking[k].quote = booking[o].quote
          /\ booking[k].version = booking[o].version => k = o
BookingsHonourOffers == BookedAsOffered /\ OneBookingPerVersion

(* The quotation row, written apart from its versions and approvals, shows  *)
(* the newest version and is ACTIVE exactly when that version is bookable.  *)
QuoteShowsOffer ==
    \A q \in Quote : quote[q].status # "NONE" =>
        LET o == offer[q][quote[q].version] IN
        /\ quote[q].payable = o.payable /\ quote[q].approval = o.approval
        /\ quote[q].status = "ACTIVE" <=> o.approval \in Bookable

(* A version's price and a decision once made are history, and so are the   *)
(* amount, the booking and the verdict of a payment entry: two verifiers of *)
(* one entry cannot both decide it.                                         *)
EvidenceKept ==
    /\ \A q \in Quote, v \in 1..MaxOffer :
         /\ offer[q][v] # NoOffer => offer'[q][v].payable = offer[q][v].payable
         /\ offer[q][v].approval \notin {"NONE", "PENDING"} => offer'[q][v] = offer[q][v]
    /\ \A p \in Payment : pay[p].kind # "NONE" =>
         /\ pay[p].verdict # "PENDING" => pay'[p] = pay[p]
         /\ pay'[p].amount = pay[p].amount /\ pay'[p].booking = pay[p].booking
EvidenceIsAppendOnly == [][EvidenceKept]_ledgerVars

(* Every reversal takes back one verified payment of the same booking, in   *)
(* full and once, although two callers may reverse the same payment.        *)
ReversalsBacked ==
    /\ \A r \in Payment : pay[r].kind = "REVERSAL" =>
         LET p == pay[r].original IN
         /\ p \in Payment /\ pay[p].kind = "PAYMENT" /\ pay[p].verdict = "VERIFIED"
         /\ pay[p].booking = pay[r].booking /\ pay[p].amount = pay[r].amount
    /\ \A r, o \in Payment :
         pay[r].kind = "REVERSAL" /\ pay[o].original = pay[r].original => r = o

(* The verified balance of a booking never falls below zero. *)
BalanceNeverNegative == \A k \in Booking : Paid(k) >= 0

(* What is verified for a booking never exceeds its price. *)
OverpaymentRejected == \A k \in Booking : Paid(k) <= booking[k].payable
=============================================================================
