SPECIFICATION Spec
CONSTANTS
    b1 = b1
    Unit = {u1}
    Branch = {b1}
    Booking = {k1, k2}
    Rsv = {}
    Alloc = {a1, a2}
    Xfer = {}
    Client = {c1}
    Worker = {}
    Monitor = {}
    None = None
    BookingBilling <- FlagOn
    BatchSize = 1
    MaxVersion = 4
    MaxTime = 0
    Executive = {e1}
    Caller = {h1}
    Sweeper = {w1}
    PhotoRequired = FALSE
    MaxJobVersion = 6
SYMMETRY RowSymmetry
INVARIANT UnitServesOneBooking
CHECK_DEADLOCK FALSE
