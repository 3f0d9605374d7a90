SPECIFICATION Spec
CONSTANTS
    b1 = b1
    Unit = {u1}
    Branch = {b1, b2}
    Booking = {}
    Rsv = {}
    Alloc = {}
    Xfer = {x1}
    Client = {}
    Worker = {}
    Monitor = {}
    None = None
    BookingBilling <- FlagOff
    BatchSize = 500
    MaxVersion = 6
    MaxTime = 0
INVARIANT DemoSaleAuthorized
CHECK_DEADLOCK FALSE
