SPECIFICATION FieldSpec
CONSTANTS
    e1 = e1
    e2 = e2
    e3 = e3
    c1 = c1
    c2 = c2
    c3 = c3
    n1 = n1
    Lead = {x1, x2}
    Contact = {x1, x2}
    LeadWorker = {w1, w2}
    Phone = {p1, p2}
    Email = {m1}
    Member = {n1}
    Queue = {q1}
    QueueOrder <- Rota
    Key = {z1, z2}
    CommandKey = {f1}
    MaxActive = 1
    MaxLeadVersion = 3
    Call = {c1, c2, c3}
    Inbound = {c2}
    Event = {e1, e2, e3}
    EventOf <- Told
    CallKey = {k1}
    Upload = {u1}
    CallWorker = {w1, w2}
    Ride = {x1, x2}
    Vehicle = {z1, z2}
    RideExecutive = {v1}
    RideWorker = {w1, w2}
    RideKey = {z1, z2}
    RideBranch = {b1, b2}
    Slot <- Hours
    MaxRideVersion = 7
    Rule = {r1}
    ByKilometres = {}
    Reminding = {w1, w2}
    MaxCarVersion = 2
    MaxSchedule = 2
    MaxDispatches = 2
SYMMETRY FieldSymmetry
CONSTRAINT Bounds
INVARIANTS DeadlineAgrees RotationRespectsLimit CallShowsEvents NothingBookedTwice RideHoldsItsVehicle
PROPERTY SentStands
CHECK_DEADLOCK FALSE
