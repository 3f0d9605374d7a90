SPECIFICATION OfficeSpec
CONSTANTS
    b1 = b1
    Unit = {u1, u2}
    Branch = {b1, b2}
    Booking = {k1, k2}
    Rsv = {r1}
    Alloc = {a1, a2}
    Xfer = {x1, x2}
    Client = {x1, x2}
    Worker = {}
    Monitor = {}
    None = None
    BookingBilling <- FlagToggles
    BatchSize = 1
    MaxVersion = 5
    MaxTime = 2
    Connection = {"development", "cloud"}
    Cloud = {"cloud"}
    Template = {"t1"}
    Hand = {x1, x2}
    MaxSecret = 2
    n1 = n1
    Send = {u1, u2, n1}
    Process = {"first", "second"}
    ProcessOf <- TwoOfThree
    Bucket = {"provider", "tenant"}
    TenantOf <- OneTenant
    Limit <- Limits
    Lease = 1
    LeaseEnd = 2
    Sample = {a1, a2}
    Sender = {x1, x2}
    Window = 2
    Life = 2
    TrailEnd = 3
    MaxLaunches = 1
    l1 = l1
    j1 = j1
    Fact = {l1, j1}
    KindOf <- Tables
    Instant <- Hours
    Moment <- Dates
    DayHours = 3
    Zone = {"forward", "back"}
    Offset <- Clock
    MonthOf <- MonthOfDay
    FirstOf <- FirstDay
    YearBefore <- YearAgo
    AskedPeriod <- Periods
    Permissions <- Readable
    Provider = {"provider"}
    ChecklistItem = {"item"}
    Asset = {"asset"}
    Recording = {"recording"}
    Manager = {x1, x2}
    MaxTold = 3
SYMMETRY RowSymmetry
CONSTRAINT AllBounds
INVARIANTS StockAgrees UsedWhenConfirmed PermitsWithinLimit TrailKept FiguresAddUp CentreIsAudited
CHECK_DEADLOCK FALSE
