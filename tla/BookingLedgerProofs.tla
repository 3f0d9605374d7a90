------------------------ MODULE BookingLedgerProofs ------------------------
(* Proofs about BookingLedger for every set of rows, callers and amounts.  *)
EXTENDS BookingLedger, TLAPS

(* Only the versions up to the current one have been written. *)
OffersPlaced ==
    \A q \in Quote :
        /\ quote[q].status # "NONE" => quote[q].version \in 1..MaxOffer
        /\ quote[q].status = "NONE" => quote[q].version = 0
        /\ \A v \in 1..MaxOffer : v > quote[q].version => offer[q][v] = NoOffer

(* A booking names a version that has been written. *)
BookingsPlaced ==
    \A k \in Booking : booking[k].status # "NONE" =>
        /\ booking[k].quote \in Quote
        /\ booking[k].version \in 1..MaxOffer
        /\ booking[k].version <= quote[booking[k].quote].version

EntriesPlaced ==
    \A p \in Payment : /\ pay[p].kind = "NONE" => pay[p] = NoPayment
                       /\ pay[p].kind # "NONE" => pay[p].booking \in Booking

(* An open transaction has read rows that exist, and the entry that one     *)
(* verifier holds is undecided and held by nobody else.                     *)
TxPlaced ==
    /\ \A s \in Staff : tx[s].op \in {"RECORD", "CANCEL"} =>
          tx[s].row \in Booking /\ booking[tx[s].row].status # "NONE"
    /\ \A s \in Staff : tx[s].op = "VERIFY" =>
          /\ tx[s].row \in Payment
          /\ pay[tx[s].row].kind # "NONE" /\ pay[tx[s].row].verdict = "PENDING"
    /\ \A s, t \in Staff :
          tx[s].op = "VERIFY" /\ tx[t].op = "VERIFY" /\ tx[s].row = tx[t].row => s = t

(* The inductive invariant, in a half about quotations and bookings and a   *)
(* half about payment entries and the transactions that hold them.          *)
QuoteHalf == OffersPlaced /\ BookingsPlaced /\ BookedAsOffered /\ OneBookingPerVersion
               /\ QuoteShowsOffer
MoneyHalf == EntriesPlaced /\ TxPlaced /\ ReversalsBacked
IInv == LedgerTypeOK /\ QuoteHalf /\ MoneyHalf

LEMMA InitIInv == ASSUME LedgerInit PROVE IInv
<1> USE LedgerAssumption
<1>1. LedgerTypeOK
  BY DEF LedgerInit, LedgerTypeOK, QuoteRow, OfferRow, BookingRow, PaymentRow, Transaction, Approval,
         NoOffer, NoPayment, NoTx
<1>2. QuoteHalf
  BY DEF LedgerInit, QuoteHalf, OffersPlaced, BookingsPlaced, BookedAsOffered,
         OneBookingPerVersion, QuoteShowsOffer
<1>3. MoneyHalf
  BY DEF LedgerInit, MoneyHalf, EntriesPlaced, TxPlaced, ReversalsBacked, NoPayment, NoTx
<1> QED
  BY <1>1, <1>2, <1>3 DEF IInv

-----------------------------------------------------------------------------
(* A step that leaves quotations alone and rewrites no terms of a booking   *)
(* keeps the quotation half.                                                *)
LEMMA QuoteHalfKept ==
    ASSUME IInv, UNCHANGED <<quote, offer>>,
           \A k \in Booking : /\ booking'[k].quote = booking[k].quote
                              /\ booking'[k].version = booking[k].version
                              /\ booking'[k].payable = booking[k].payable
                              /\ (booking'[k].status = "NONE") = (booking[k].status = "NONE")
    PROVE  QuoteHalf'
<1> USE DEF IInv, QuoteHalf
<1>1. OffersPlaced' /\ QuoteShowsOffer'
  BY DEF OffersPlaced, QuoteShowsOffer
<1>2. BookingsPlaced'
  BY DEF BookingsPlaced
<1>3. BookedAsOffered'
  BY DEF BookedAsOffered
<1>4. OneBookingPerVersion'
  BY DEF OneBookingPerVersion
<1> QED
  BY <1>1, <1>2, <1>3, <1>4

(* A step that leaves payments and transactions alone and unmakes no        *)
(* booking keeps the money half.                                            *)
LEMMA MoneyHalfKept ==
    ASSUME IInv, UNCHANGED <<pay, tx>>,
           \A k \in Booking : booking[k].status # "NONE" => booking'[k].status # "NONE"
    PROVE  MoneyHalf'
  BY DEF IInv, MoneyHalf, EntriesPlaced, TxPlaced, ReversalsBacked

-----------------------------------------------------------------------------
(* createQuotation and reviseQuotation write one version after the last.    *)
LEMMA QuotedStep ==
    ASSUME IInv, NEW q \in Quote, NEW p \in Price, NEW approval \in {"NOT_REQUIRED", "PENDING"},
           NEW v \in 1..MaxOffer, v = quote[q].version + 1, Quoted(q, v, p, approval)
    PROVE  IInv'
<1> USE LedgerAssumption
<1>0. /\ quote' = [quote EXCEPT ![q] =
                     [status |-> IF approval = "PENDING" THEN "DRAFT" ELSE "ACTIVE",
                      approval |-> approval, version |-> v, payable |-> p, lapsed |-> FALSE]]
      /\ offer' = [offer EXCEPT ![q][v] = [payable |-> p, approval |-> approval]]
      /\ UNCHANGED <<booking, pay, tx>>
  BY DEF Quoted
<1>1. LedgerTypeOK'
  BY <1>0 DEF IInv, LedgerTypeOK, QuoteRow, OfferRow, Approval
<1>2. /\ \A o \in Quote : o # q => quote'[o] = quote[o] /\ offer'[o] = offer[o]
      /\ \A w \in 1..MaxOffer : w # v => offer'[q][w] = offer[q][w]
      /\ offer'[q][v].payable = p /\ offer'[q][v].approval = approval
      /\ quote'[q].payable = p /\ quote'[q].approval = approval /\ quote'[q].version = v
      /\ quote'[q].status # "NONE"
      /\ quote'[q].status = "ACTIVE" <=> approval # "PENDING"
      /\ quote[q].version \in Nat
  BY <1>0 DEF IInv, LedgerTypeOK, QuoteRow, OfferRow
<1>3. OffersPlaced'
  BY <1>2 DEF IInv, QuoteHalf, OffersPlaced
<1>4. \A k \in Booking : booking[k].status # "NONE" =>
          offer'[booking[k].quote][booking[k].version] =
            offer[booking[k].quote][booking[k].version]
  BY <1>2 DEF IInv, QuoteHalf, BookingsPlaced
<1>5. BookingsPlaced'
  BY <1>0, <1>2 DEF IInv, QuoteHalf, BookingsPlaced
<1>6. BookedAsOffered' /\ OneBookingPerVersion'
  BY <1>0, <1>4 DEF IInv, QuoteHalf, BookedAsOffered, OneBookingPerVersion
<1>7. QuoteShowsOffer'
  BY <1>2 DEF IInv, QuoteHalf, QuoteShowsOffer, Bookable
<1>8. MoneyHalf'
  BY <1>0, MoneyHalfKept
<1> QED
  BY <1>1, <1>3, <1>5, <1>6, <1>7, <1>8 DEF IInv, QuoteHalf

LEMMA DecideDiscountStep ==
    ASSUME IInv, NEW q \in Quote, NEW v \in 1..MaxOffer, NEW d \in {"APPROVED", "REJECTED"},
           DecideDiscount(q, v, d)
    PROVE  IInv'
<1> USE LedgerAssumption
<1>0. /\ quote[q].version = v /\ offer[q][v].approval = "PENDING"
      /\ quote[q].approval = "PENDING"
      /\ offer' = [offer EXCEPT ![q][v].approval = d]
      /\ quote' = [quote EXCEPT ![q].approval = d,
                                ![q].status = IF d = "APPROVED" THEN "ACTIVE" ELSE "DRAFT"]
      /\ UNCHANGED <<booking, pay, tx>>
  BY DEF DecideDiscount
<1> DEFINE row == [quote[q] EXCEPT !.approval = d,
                                   !.status = IF d = "APPROVED" THEN "ACTIVE" ELSE "DRAFT"]
<1>a. quote' = [quote EXCEPT ![q] = row]
  BY <1>0
<1>b. quote[q] \in QuoteRow /\ offer[q][v] \in OfferRow
  BY DEF IInv, LedgerTypeOK
<1>c. row \in QuoteRow
  BY <1>b DEF QuoteRow, Approval
<1>d. [offer[q][v] EXCEPT !.approval = d] \in OfferRow
  BY <1>b DEF OfferRow, Approval
<1>e. quote' \in [Quote -> QuoteRow]
  BY <1>a, <1>c DEF IInv, LedgerTypeOK
<1>f. offer' \in [Quote -> [1..MaxOffer -> OfferRow]]
  BY <1>0, <1>d DEF IInv, LedgerTypeOK
<1>1. LedgerTypeOK'
  BY <1>0, <1>e, <1>f DEF IInv, LedgerTypeOK
<1>2. /\ \A o \in Quote : o # q => quote'[o] = quote[o] /\ offer'[o] = offer[o]
      /\ \A w \in 1..MaxOffer : w # v => offer'[q][w] = offer[q][w]
      /\ offer'[q][v].payable = offer[q][v].payable /\ offer'[q][v].approval = d
      /\ quote'[q].payable = quote[q].payable /\ quote'[q].approval = d
      /\ quote'[q].version = v
      /\ quote'[q].status = IF d = "APPROVED" THEN "ACTIVE" ELSE "DRAFT"
  BY <1>0, <1>a, <1>b DEF IInv, LedgerTypeOK, QuoteRow, OfferRow
<1>3. quote[q].status # "NONE"
  BY <1>0 DEF IInv, QuoteHalf, OffersPlaced
<1>g. \A o \in Quote : /\ quote'[o].version = quote[o].version
                       /\ quote'[o].payable = quote[o].payable
                       /\ quote'[o].status = "NONE" <=> quote[o].status = "NONE"
  <2>1. quote'[q].status # "NONE"
    BY <1>2
  <2> QED
    BY <1>0, <1>2, <1>3, <2>1
<1>h. \A o \in Quote, w \in 1..MaxOffer :
          o # q \/ w # quote[q].version => offer'[o][w] = offer[o][w]
  BY <1>0, <1>2
<1>4. OffersPlaced'
  <2>1. ASSUME NEW o \in Quote, NEW w \in 1..MaxOffer, w > quote[o].version
        PROVE  offer'[o][w] = NoOffer
    <3>1. offer[o][w] = NoOffer
      BY <2>1 DEF IInv, QuoteHalf, OffersPlaced
    <3>2. o # q \/ w # quote[q].version
      BY <2>1, <1>0
    <3> QED
      BY <3>1, <3>2, <1>h
  <2> QED
    BY <1>g, <2>1 DEF IInv, QuoteHalf, OffersPlaced
<1>5. \A k \in Booking : booking[k].status # "NONE" =>
          offer'[booking[k].quote][booking[k].version] =
            offer[booking[k].quote][booking[k].version]
  BY <1>0, <1>2 DEF IInv, QuoteHalf, BookingsPlaced, BookedAsOffered, Bookable
<1>i. booking' = booking
  BY <1>0
<1>6. BookingsPlaced'
  BY <1>g, <1>i DEF IInv, QuoteHalf, BookingsPlaced
<1>7. BookedAsOffered' /\ OneBookingPerVersion'
  BY <1>0, <1>5 DEF IInv, QuoteHalf, BookedAsOffered, OneBookingPerVersion
<1>8. QuoteShowsOffer'
  <2>1. ASSUME NEW o \in Quote, o # q, quote'[o].status # "NONE"
        PROVE  /\ quote'[o] = quote[o] /\ offer'[o] = offer[o]
    BY <2>1, <1>2
  <2>2. /\ quote'[q].payable = offer'[q][v].payable
        /\ quote'[q].approval = offer'[q][v].approval
        /\ quote'[q].status = "ACTIVE" <=> offer'[q][v].approval \in Bookable
    BY <1>0, <1>2, <1>3 DEF IInv, QuoteHalf, QuoteShowsOffer, Bookable
  <2> QED
    BY <1>2, <2>1, <2>2 DEF IInv, QuoteHalf, QuoteShowsOffer
<1>9. MoneyHalf'
  BY <1>0, MoneyHalfKept
<1> QED
  BY <1>1, <1>4, <1>6, <1>7, <1>8, <1>9 DEF IInv, QuoteHalf

LEMMA LapseStep ==
    ASSUME IInv, NEW q \in Quote, Lapse(q)
    PROVE  IInv'
<1>0. /\ quote' = [quote EXCEPT ![q].lapsed = TRUE]
      /\ UNCHANGED <<offer, booking, pay, tx>>
  BY DEF Lapse
<1>1. LedgerTypeOK'
  BY <1>0 DEF IInv, LedgerTypeOK, QuoteRow
<1>2. \A o \in Quote : /\ quote'[o].status = quote[o].status
                       /\ quote'[o].version = quote[o].version
                       /\ quote'[o].payable = quote[o].payable
                       /\ quote'[o].approval = quote[o].approval
  BY <1>0 DEF IInv, LedgerTypeOK, QuoteRow
<1>3. OffersPlaced' /\ QuoteShowsOffer'
  BY <1>0, <1>2 DEF IInv, QuoteHalf, OffersPlaced, QuoteShowsOffer
<1>4. BookingsPlaced' /\ BookedAsOffered' /\ OneBookingPerVersion'
  BY <1>0, <1>2 DEF IInv, QuoteHalf, BookingsPlaced, BookedAsOffered, OneBookingPerVersion
<1>5. MoneyHalf'
  BY <1>0, MoneyHalfKept
<1> QED
  BY <1>1, <1>3, <1>4, <1>5 DEF IInv, QuoteHalf

LEMMA CreateBookingStep ==
    ASSUME IInv, NEW k \in Booking, NEW q \in Quote, NEW v \in 1..MaxOffer,
           CreateBooking(k, q, v)
    PROVE  IInv'
<1> USE LedgerAssumption
<1>0. /\ booking[k].status = "NONE"
      /\ quote[q].version = v /\ quote[q].status = "ACTIVE" /\ quote[q].approval \in Bookable
      /\ \A o \in Booking : ~(booking[o].quote = q /\ booking[o].version = v)
      /\ booking' = [booking EXCEPT ![k] = [status |-> "CONFIRMED", quote |-> q, version |-> v,
                                            payable |-> quote[q].payable, note |-> FALSE]]
      /\ UNCHANGED <<quote, offer, pay, tx>>
  BY DEF CreateBooking, BookableAt
<1>1. LedgerTypeOK'
  BY <1>0 DEF IInv, LedgerTypeOK, BookingRow, QuoteRow
<1>2. /\ \A o \in Booking : o # k => booking'[o] = booking[o]
      /\ booking'[k].status = "CONFIRMED" /\ booking'[k].quote = q
      /\ booking'[k].version = v /\ booking'[k].payable = quote[q].payable
  BY <1>0 DEF IInv, LedgerTypeOK, BookingRow
<1>3. OffersPlaced' /\ QuoteShowsOffer'
  BY <1>0 DEF IInv, QuoteHalf, OffersPlaced, QuoteShowsOffer
<1>4. BookingsPlaced'
  BY <1>0, <1>2 DEF IInv, QuoteHalf, BookingsPlaced
<1>5. BookedAsOffered'
  BY <1>0, <1>2 DEF IInv, QuoteHalf, BookedAsOffered, QuoteShowsOffer
<1>6. OneBookingPerVersion'
  BY <1>0, <1>2 DEF IInv, QuoteHalf, OneBookingPerVersion
<1>7. MoneyHalf'
  BY <1>0, <1>2, MoneyHalfKept
<1> QED
  BY <1>1, <1>3, <1>4, <1>5, <1>6, <1>7 DEF IInv, QuoteHalf

-----------------------------------------------------------------------------
LEMMA BeginStep ==
    ASSUME IInv, NEW s \in Staff, NEW k \in Booking, BeginCancel(s, k) \/ BeginPayment(s, k)
    PROVE  IInv'
<1> USE LedgerAssumption
<1>0. /\ booking[k].status = "CONFIRMED"
      /\ \E op \in {"CANCEL", "RECORD"}, entries \in SUBSET Payment :
            tx' = [tx EXCEPT ![s] = [op |-> op, row |-> k, counts |-> entries]]
      /\ UNCHANGED <<quote, offer, booking, pay>>
  BY DEF BeginCancel, BeginPayment, Counts
<1>1. LedgerTypeOK'
  BY <1>0 DEF IInv, LedgerTypeOK, Transaction
<1>2. QuoteHalf'
  BY <1>0, QuoteHalfKept
<1>3. /\ \A t \in Staff : t # s => tx'[t] = tx[t]
      /\ tx'[s].op \in {"CANCEL", "RECORD"} /\ tx'[s].row = k
  BY <1>0 DEF IInv, LedgerTypeOK, Transaction
<1>4. TxPlaced'
  BY <1>0, <1>3 DEF IInv, MoneyHalf, TxPlaced
<1>5. EntriesPlaced' /\ ReversalsBacked'
  BY <1>0 DEF IInv, MoneyHalf, EntriesPlaced, ReversalsBacked
<1> QED
  BY <1>1, <1>2, <1>4, <1>5 DEF IInv, MoneyHalf

LEMMA CancelBookingStep ==
    ASSUME IInv, NEW s \in Staff, NEW k \in Booking, NEW note \in BOOLEAN,
           CancelBooking(s, k, note)
    PROVE  IInv'
<1> USE LedgerAssumption
<1>0. /\ tx[s].op = "CANCEL" /\ tx[s].row = k
      /\ booking' = [booking EXCEPT ![k].status = "CANCELLED", ![k].note = note]
      /\ tx' = [tx EXCEPT ![s] = NoTx]
      /\ UNCHANGED <<quote, offer, pay>>
  BY DEF CancelBooking
<1> DEFINE row == [booking[k] EXCEPT !.status = "CANCELLED", !.note = note]
<1>a. booking' = [booking EXCEPT ![k] = row]
  BY <1>0
<1>b. booking[k] \in BookingRow
  BY DEF IInv, LedgerTypeOK
<1>c. /\ row \in BookingRow /\ row.status = "CANCELLED"
      /\ row.quote = booking[k].quote /\ row.version = booking[k].version
      /\ row.payable = booking[k].payable
  BY <1>b DEF BookingRow
<1>d. NoTx \in Transaction
  BY DEF NoTx, Transaction
<1>e. tx' = [tx EXCEPT ![s] = NoTx] /\ UNCHANGED <<quote, offer, pay>>
  BY <1>0
<1> HIDE DEF row
<1>1. LedgerTypeOK'
  BY <1>a, <1>c, <1>d, <1>e DEF IInv, LedgerTypeOK
<1>2. booking[k].status # "NONE"
  BY <1>0 DEF IInv, MoneyHalf, TxPlaced
<1>3. \A o \in Booking : /\ booking'[o].quote = booking[o].quote
                         /\ booking'[o].version = booking[o].version
                         /\ booking'[o].payable = booking[o].payable
                         /\ (booking'[o].status = "NONE") = (booking[o].status = "NONE")
  BY <1>a, <1>c, <1>2 DEF IInv, LedgerTypeOK
<1>4. QuoteHalf'
  BY <1>0, <1>3, QuoteHalfKept
<1>5. /\ \A t \in Staff : t # s => tx'[t] = tx[t]
      /\ tx'[s].op = "NONE"
  BY <1>0 DEF IInv, LedgerTypeOK, Transaction, NoTx
<1>6. TxPlaced'
  <2>1. \A t \in Staff : tx'[t].op # "NONE" => t # s /\ tx'[t] = tx[t]
    BY <1>5
  <2> QED
    BY <1>e, <1>3, <2>1 DEF IInv, MoneyHalf, TxPlaced
<1>7. EntriesPlaced' /\ ReversalsBacked'
  BY <1>0 DEF IInv, MoneyHalf, EntriesPlaced, ReversalsBacked
<1> QED
  BY <1>1, <1>4, <1>6, <1>7 DEF IInv, MoneyHalf

LEMMA CreatePaymentStep ==
    ASSUME IInv, NEW s \in Staff, NEW p \in Payment, NEW amount \in Amount,
           CreatePayment(s, p, amount)
    PROVE  IInv'
<1> USE LedgerAssumption
<1> DEFINE k == tx[s].row
<1>0. /\ tx[s].op = "RECORD" /\ pay[p].kind = "NONE"
      /\ pay' = [pay EXCEPT ![p] = [NoPayment EXCEPT !.kind = "PAYMENT", !.booking = k,
                                                     !.amount = amount]]
      /\ tx' = [tx EXCEPT ![s] = NoTx]
      /\ UNCHANGED <<quote, offer, booking>>
  BY DEF CreatePayment
<1>1. k \in Booking
  BY <1>0 DEF IInv, MoneyHalf, TxPlaced
<1>2. LedgerTypeOK'
  BY <1>0, <1>1 DEF IInv, LedgerTypeOK, PaymentRow, NoPayment, Transaction, NoTx
<1>3. QuoteHalf'
  BY <1>0, QuoteHalfKept
<1>4. /\ \A o \in Payment : o # p => pay'[o] = pay[o]
      /\ pay'[p].kind = "PAYMENT" /\ pay'[p].booking = k /\ pay'[p].original = None
      /\ \A t \in Staff : t # s => tx'[t] = tx[t]
      /\ tx'[s].op = "NONE"
  BY <1>0 DEF IInv, LedgerTypeOK, PaymentRow, NoPayment, Transaction, NoTx
<1>5. EntriesPlaced'
  BY <1>1, <1>4 DEF IInv, MoneyHalf, EntriesPlaced
<1>6. TxPlaced'
  BY <1>0, <1>4 DEF IInv, MoneyHalf, TxPlaced
<1>7. ReversalsBacked'
  BY <1>0, <1>4 DEF IInv, MoneyHalf, ReversalsBacked
<1> QED
  BY <1>2, <1>3, <1>5, <1>6, <1>7 DEF IInv, MoneyHalf

LEMMA BeginVerifyStep ==
    ASSUME IInv, NEW s \in Staff, NEW p \in Payment, BeginVerify(s, p)
    PROVE  IInv'
<1> USE LedgerAssumption
<1>0. /\ pay[p].kind # "NONE" /\ pay[p].verdict = "PENDING"
      /\ \A t \in Staff : tx[t].op = "VERIFY" => tx[t].row # p
      /\ \E entries \in SUBSET Payment :
            tx' = [tx EXCEPT ![s] = [op |-> "VERIFY", row |-> p, counts |-> entries]]
      /\ UNCHANGED <<quote, offer, booking, pay>>
  BY DEF BeginVerify, Decidable, Unlocked, Counts
<1>1. LedgerTypeOK'
  BY <1>0 DEF IInv, LedgerTypeOK, Transaction
<1>2. QuoteHalf'
  BY <1>0, QuoteHalfKept
<1>3. /\ \A t \in Staff : t # s => tx'[t] = tx[t]
      /\ tx'[s].op = "VERIFY" /\ tx'[s].row = p
  BY <1>0 DEF IInv, LedgerTypeOK, Transaction
<1>4. TxPlaced'
  BY <1>0, <1>3 DEF IInv, MoneyHalf, TxPlaced
<1>5. EntriesPlaced' /\ ReversalsBacked'
  BY <1>0 DEF IInv, MoneyHalf, EntriesPlaced, ReversalsBacked
<1> QED
  BY <1>1, <1>2, <1>4, <1>5 DEF IInv, MoneyHalf

LEMMA VerifyPaymentStep ==
    ASSUME IInv, NEW s \in Staff, NEW p \in Payment, NEW d \in {"VERIFIED", "REJECTED"},
           VerifyPayment(s, p, d)
    PROVE  IInv'
<1> USE LedgerAssumption
<1>0. /\ tx[s].op = "VERIFY" /\ tx[s].row = p
      /\ pay' = [pay EXCEPT ![p].verdict = d]
      /\ tx' = [tx EXCEPT ![s] = NoTx]
      /\ UNCHANGED <<quote, offer, booking>>
  BY DEF VerifyPayment
<1>a. pay[p] \in PaymentRow
  BY DEF IInv, LedgerTypeOK
<1>b. [pay[p] EXCEPT !.verdict = d] \in PaymentRow
  BY <1>a DEF PaymentRow
<1>c. NoTx \in Transaction
  BY DEF NoTx, Transaction
<1>1. LedgerTypeOK'
  BY <1>0, <1>b, <1>c DEF IInv, LedgerTypeOK
<1>2. QuoteHalf'
  BY <1>0, QuoteHalfKept
<1>3. pay[p].kind # "NONE" /\ pay[p].verdict = "PENDING"
  BY <1>0 DEF IInv, MoneyHalf, TxPlaced
<1>4. /\ \A o \in Payment : o # p => pay'[o] = pay[o]
      /\ pay'[p].kind = pay[p].kind /\ pay'[p].booking = pay[p].booking
      /\ pay'[p].amount = pay[p].amount /\ pay'[p].original = pay[p].original
      /\ \A t \in Staff : t # s => tx'[t] = tx[t]
      /\ tx'[s].op = "NONE"
  BY <1>0 DEF IInv, LedgerTypeOK, PaymentRow, Transaction, NoTx
<1>5. EntriesPlaced'
  BY <1>3, <1>4 DEF IInv, MoneyHalf, EntriesPlaced
<1>6. TxPlaced'
  BY <1>0, <1>4 DEF IInv, MoneyHalf, TxPlaced
<1>7. ReversalsBacked'
  BY <1>3, <1>4 DEF IInv, MoneyHalf, ReversalsBacked
<1> QED
  BY <1>1, <1>2, <1>5, <1>6, <1>7 DEF IInv, MoneyHalf

LEMMA ReversePaymentStep ==
    ASSUME IInv, NEW p \in Payment, NEW r \in Payment, ReversePayment(p, r)
    PROVE  IInv'
<1> USE LedgerAssumption
<1>0. /\ pay[p].kind = "PAYMENT" /\ pay[p].verdict = "VERIFIED"
      /\ pay[r].kind = "NONE"
      /\ \A o \in Payment : pay[o].original # p
      /\ pay' = [pay EXCEPT ![r] = [kind |-> "REVERSAL", booking |-> pay[p].booking,
                                    amount |-> pay[p].amount, original |-> p,
                                    verdict |-> "VERIFIED"]]
      /\ UNCHANGED <<quote, offer, booking, tx>>
  BY DEF ReversePayment, Reversed
<1>1. LedgerTypeOK'
  BY <1>0 DEF IInv, LedgerTypeOK, PaymentRow
<1>2. QuoteHalf'
  BY <1>0, QuoteHalfKept
<1>3. /\ \A o \in Payment : o # r => pay'[o] = pay[o]
      /\ pay'[r].kind = "REVERSAL" /\ pay'[r].booking = pay[p].booking
      /\ pay'[r].amount = pay[p].amount /\ pay'[r].original = p
  BY <1>0 DEF IInv, LedgerTypeOK, PaymentRow
<1>4. EntriesPlaced'
  BY <1>0, <1>3 DEF IInv, MoneyHalf, EntriesPlaced
<1>5. TxPlaced'
  BY <1>0, <1>3 DEF IInv, MoneyHalf, TxPlaced
<1>6. ReversalsBacked'
  BY <1>0, <1>3 DEF IInv, MoneyHalf, ReversalsBacked
<1> QED
  BY <1>1, <1>2, <1>4, <1>5, <1>6 DEF IInv, MoneyHalf

LEMMA RollbackStep ==
    ASSUME IInv, NEW s \in Staff, Rollback(s)
    PROVE  IInv'
<1>0. tx' = [tx EXCEPT ![s] = NoTx] /\ UNCHANGED <<quote, offer, booking, pay>>
  BY DEF Rollback
<1>1. LedgerTypeOK'
  BY <1>0 DEF IInv, LedgerTypeOK, Transaction, NoTx
<1>2. QuoteHalf'
  BY <1>0, QuoteHalfKept
<1>3. (\A t \in Staff : t # s => tx'[t] = tx[t]) /\ tx'[s].op = "NONE"
  BY <1>0 DEF IInv, LedgerTypeOK, NoTx
<1>4. TxPlaced'
  BY <1>0, <1>3 DEF IInv, MoneyHalf, TxPlaced
<1>5. EntriesPlaced' /\ ReversalsBacked'
  BY <1>0 DEF IInv, MoneyHalf, EntriesPlaced, ReversalsBacked
<1> QED
  BY <1>1, <1>2, <1>4, <1>5 DEF IInv, MoneyHalf

-----------------------------------------------------------------------------
LEMMA QuoteNextStep == ASSUME IInv, QuoteNext PROVE IInv'
<1> USE LedgerAssumption
<1>1. PICK q \in Quote :
        \/ \E p \in Price, approval \in {"NOT_REQUIRED", "PENDING"} :
             \/ CreateQuotation(q, p, approval)
             \/ \E v \in 1..MaxOffer : ReviseQuotation(q, v, p, approval)
        \/ \E v \in 1..MaxOffer, d \in {"APPROVED", "REJECTED"} : DecideDiscount(q, v, d)
        \/ Lapse(q)
        \/ \E k \in Booking, v \in 1..MaxOffer : CreateBooking(k, q, v)
  BY DEF QuoteNext
<1>2. ASSUME NEW p \in Price, NEW approval \in {"NOT_REQUIRED", "PENDING"},
             CreateQuotation(q, p, approval)
      PROVE  IInv'
  <2>1. quote[q].version = 0
    BY <1>2 DEF CreateQuotation, IInv, QuoteHalf, OffersPlaced
  <2>2. 1 \in 1..MaxOffer /\ 1 = quote[q].version + 1
    BY <2>1
  <2> QED
    BY <1>2, <2>2, QuotedStep DEF CreateQuotation
<1>3. ASSUME NEW p \in Price, NEW approval \in {"NOT_REQUIRED", "PENDING"},
             NEW v \in 1..MaxOffer, ReviseQuotation(q, v, p, approval)
      PROVE  IInv'
  <2>1. v + 1 \in 1..MaxOffer /\ v + 1 = quote[q].version + 1
    BY <1>3 DEF ReviseQuotation
  <2> QED
    BY <1>3, <2>1, QuotedStep DEF ReviseQuotation
<1> QED
  BY <1>1, <1>2, <1>3, DecideDiscountStep, LapseStep, CreateBookingStep

LEMMA StaffNextStep == ASSUME IInv, StaffNext PROVE IInv'
  BY BeginStep, CancelBookingStep, CreatePaymentStep, BeginVerifyStep, VerifyPaymentStep,
     RollbackStep DEF StaffNext

LEMMA StutterStep == ASSUME IInv, UNCHANGED ledgerVars PROVE IInv'
  BY DEF ledgerVars, IInv, LedgerTypeOK, QuoteHalf, MoneyHalf, OffersPlaced, BookingsPlaced,
         BookedAsOffered, OneBookingPerVersion, QuoteShowsOffer, EntriesPlaced, TxPlaced,
         ReversalsBacked

(* The inductive invariant holds in every reachable state. *)
THEOREM Invariance == LedgerSpec => []IInv
<1>1. LedgerInit => IInv
  BY InitIInv
<1>2. IInv /\ [LedgerNext]_ledgerVars => IInv'
  BY QuoteNextStep, StaffNextStep, ReversePaymentStep, StutterStep DEF LedgerNext
<1> QED
  BY <1>1, <1>2, PTL DEF LedgerSpec

(* Every row keeps its shape. *)
THEOREM TypeCorrect == LedgerSpec => []LedgerTypeOK
  BY Invariance, PTL DEF IInv

(* A booking keeps the price of one written, bookable version, and no other *)
(* booking has that version.                                                *)
THEOREM OffersAreHonoured == LedgerSpec => []BookingsHonourOffers
<1>1. IInv => BookingsHonourOffers
  BY DEF IInv, QuoteHalf, BookingsHonourOffers
<1> QED
  BY <1>1, Invariance, PTL

(* The quotation row always shows its newest version. *)
THEOREM QuotesAreCurrent == LedgerSpec => []QuoteShowsOffer
<1>1. IInv => QuoteShowsOffer
  BY DEF IInv, QuoteHalf
<1> QED
  BY <1>1, Invariance, PTL

(* Every reversal takes back one verified payment, in full and once. *)
THEOREM ReversalsAreBacked == LedgerSpec => []ReversalsBacked
<1>1. IInv => ReversalsBacked
  BY DEF IInv, MoneyHalf
<1> QED
  BY <1>1, Invariance, PTL

-----------------------------------------------------------------------------
OfferKept(q, v) ==
    /\ offer[q][v] # NoOffer => offer'[q][v].payable = offer[q][v].payable
    /\ offer[q][v].approval \notin {"NONE", "PENDING"} => offer'[q][v] = offer[q][v]
EntryKept(p) ==
    pay[p].kind # "NONE" =>
        /\ pay[p].verdict # "PENDING" => pay'[p] = pay[p]
        /\ pay'[p].amount = pay[p].amount /\ pay'[p].booking = pay[p].booking

(* Quotation commands write only the next version or a pending approval. *)
LEMMA OffersKept ==
    ASSUME IInv, [LedgerNext]_ledgerVars, NEW o \in Quote, NEW w \in 1..MaxOffer
    PROVE  OfferKept(o, w)
<1>1. CASE offer' = offer
  BY <1>1 DEF OfferKept
<1>2. ASSUME NEW q \in Quote, NEW v \in 1..MaxOffer, NEW row,
             offer[q][v] = NoOffer, offer' = [offer EXCEPT ![q][v] = row]
      PROVE  OfferKept(o, w)
  BY <1>2 DEF OfferKept, IInv, LedgerTypeOK, NoOffer
<1>3. ASSUME NEW q \in Quote, NEW v \in 1..MaxOffer, NEW d,
             offer[q][v].approval = "PENDING", offer' = [offer EXCEPT ![q][v].approval = d]
      PROVE  OfferKept(o, w)
  BY <1>3 DEF OfferKept, IInv, LedgerTypeOK, OfferRow
<1>4. ASSUME NEW q \in Quote, NEW p \in Price, NEW approval, CreateQuotation(q, p, approval)
      PROVE  OfferKept(o, w)
  <2>1. 1 \in 1..MaxOffer /\ offer[q][1] = NoOffer
    BY <1>4, LedgerAssumption DEF CreateQuotation, IInv, QuoteHalf, OffersPlaced
  <2> QED
    BY <1>2, <1>4, <2>1 DEF CreateQuotation, Quoted
<1>5. ASSUME NEW q \in Quote, NEW v \in 1..MaxOffer, NEW p \in Price, NEW approval,
             ReviseQuotation(q, v, p, approval)
      PROVE  OfferKept(o, w)
  <2>1. v + 1 \in 1..MaxOffer /\ offer[q][v + 1] = NoOffer
    BY <1>5, LedgerAssumption DEF ReviseQuotation, IInv, QuoteHalf, OffersPlaced
  <2> QED
    BY <1>2, <1>5, <2>1 DEF ReviseQuotation, Quoted
<1>6. ASSUME NEW q \in Quote, NEW v \in 1..MaxOffer, NEW d, DecideDiscount(q, v, d)
      PROVE  OfferKept(o, w)
  BY <1>3, <1>6 DEF DecideDiscount
<1>7. CASE QuoteNext
  BY <1>1, <1>4, <1>5, <1>6, <1>7 DEF QuoteNext, Lapse, CreateBooking
<1>8. StaffNext \/ (\E p, r \in Payment : ReversePayment(p, r)) \/ UNCHANGED ledgerVars
        => offer' = offer
  BY DEF StaffNext, BeginCancel, BeginPayment, CancelBooking, CreatePayment, BeginVerify,
         VerifyPayment, Rollback, ReversePayment, ledgerVars
<1> QED
  BY <1>1, <1>7, <1>8 DEF LedgerNext

(* Payment commands insert an entry or decide one that is held undecided. *)
LEMMA EntriesKept ==
    ASSUME IInv, [LedgerNext]_ledgerVars, NEW o \in Payment
    PROVE  EntryKept(o)
<1>1. CASE pay' = pay
  BY <1>1 DEF EntryKept
<1>2. ASSUME NEW p \in Payment, NEW row, pay[p].kind = "NONE",
             pay' = [pay EXCEPT ![p] = row]
      PROVE  EntryKept(o)
  BY <1>2 DEF EntryKept, IInv, LedgerTypeOK
<1>3. ASSUME NEW s \in Staff, NEW p \in Payment, NEW d, VerifyPayment(s, p, d)
      PROVE  EntryKept(o)
  <2>1. pay[p].verdict = "PENDING"
    BY <1>3 DEF VerifyPayment, IInv, MoneyHalf, TxPlaced
  <2>2. pay' = [pay EXCEPT ![p].verdict = d]
    BY <1>3 DEF VerifyPayment
  <2> QED
    BY <2>1, <2>2 DEF EntryKept, IInv, LedgerTypeOK, PaymentRow
<1>4. ASSUME NEW s \in Staff, NEW p \in Payment, NEW a, CreatePayment(s, p, a)
      PROVE  EntryKept(o)
  BY <1>2, <1>4 DEF CreatePayment
<1>5. ASSUME NEW p \in Payment, NEW r \in Payment, ReversePayment(p, r)
      PROVE  EntryKept(o)
  BY <1>2, <1>5 DEF ReversePayment
<1>6. CASE StaffNext
  BY <1>1, <1>3, <1>4, <1>6 DEF StaffNext, BeginCancel, BeginPayment, CancelBooking,
     BeginVerify, Rollback
<1>7. QuoteNext \/ UNCHANGED ledgerVars => pay' = pay
  BY DEF QuoteNext, CreateQuotation, ReviseQuotation, Quoted, DecideDiscount, Lapse,
         CreateBooking, ledgerVars
<1> QED
  BY <1>1, <1>5, <1>6, <1>7 DEF LedgerNext

(* Prices, decisions and payment evidence are never rewritten. *)
THEOREM EvidenceIsKept == LedgerSpec => EvidenceIsAppendOnly
<1>1. IInv /\ [LedgerNext]_ledgerVars => [EvidenceKept]_ledgerVars
  BY OffersKept, EntriesKept DEF EvidenceKept, OfferKept, EntryKept
<1> QED
  BY <1>1, Invariance, PTL DEF LedgerSpec, EvidenceIsAppendOnly
=============================================================================
