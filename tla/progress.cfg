SPECIFICATION ProgressSpec
CONSTANTS
    b1 = b1
    Unit = {u1, u2}
    Branch = {b1}
    Booking = {}
    Rsv = {r1, r2}
    Alloc = {}
    Xfer = {}
    Client = {c1}
    Worker = {m1}
    Monitor = {m1}
    None = None
    BookingBilling <- FlagOff
    BatchSize = 1
    MaxVersion = 5
    MaxTime = 2
    Op <- OneOp
    Replayer = {p1, p2}
    MaxCopies = 3
    MaxEffects = 2
    MaxKills = 1
PROPERTIES ExpiryRespectsExtension ExpiredEventuallyReleased KeepsPromise SettledOrStranded
CHECK_DEADLOCK FALSE
