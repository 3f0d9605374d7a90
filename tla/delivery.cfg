SPECIFICATION Spec
CONSTANTS
    b1 = b1
    Unit = {u1}
    Branch = {b1, b2}
    Booking = {k1, k2}
    Rsv = {r1}
    Alloc = {a1, a2}
    Xfer = {x1, x2}
    Client = {c1}
    Worker = {w1, w2}
    Monitor = {}
    None = None
    BookingBilling <- FlagOn
    BatchSize = 500
    MaxVersion = 5
    MaxTime = 1
    Executive = {e1}
    Caller = {h1}
    Sweeper = {s1}
    PhotoRequired = FALSE
    MaxJobVersion = 6
SYMMETRY RowSymmetry
CONSTRAINT Bounds
INVARIANTS TrackedOnTheRoad
CHECK_DEADLOCK FALSE
