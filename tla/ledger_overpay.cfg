SPECIFICATION LedgerSpec
CONSTANTS
    Quote = {q1}
    Booking = {k1, k2}
    Payment = {p1, p2, p3}
    Staff = {s1, s2}
    None = None
    Price <- Prices
    Amount <- Amounts
    MaxOffer = 2
SYMMETRY RowSymmetry
INVARIANT OverpaymentRejected
CHECK_DEADLOCK FALSE
