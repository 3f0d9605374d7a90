SPECIFICATION AccessSpec
CONSTANTS
    m1 = m1
    m2 = m2
    k1 = k1
    Session = {s1, h1}
    Hosted = {h1}
    Elevation = {x1, x2}
    ResetToken = {r1}
    Membership = {m1, m2}
    Organisation = {ag, k1}
    Agency = ag
    Home <- Homes
    Caller = {w1, w2}
    MaxCloses = 1
    Handler = {w1, w2}
    Challenge = {y1, y2}
    Authenticator = {x1, x2}
    RecoveryCode = {x1, x2}
    TimeStep = {1, 2}
    CodesIssued = 1
    Attempts = 2
    GoogleChallenge = {g1}
    Nobody = Nobody
    PhoneSession = {x1, x2}
    WebSession = {b1}
    Tab = {w1, w2}
    MaxSequence = 3
    MaxFaults = 1
    User = {y1, y2}
    Seat = {m1, m2}
    AgencySeat = m1
    Call = {x1, x2}
    MaxLogins = 2
    MaxTroubles = 1
    Member = {x1, x2}
    Person = {y1, y2}
    Team = {t1}
    Officer = {w1, w2}
    NoManager = NoManager
    Node = {"CLIENT", "BRANCH", "DEPARTMENT", "TEAM"}
    KindOf <- Kinds
    Above <- Parents
    Sheet = {f1}
    Registrar = {w1, w2}
    Nothing = Nothing
    MaxStamp = 5
SYMMETRY AccessSymmetry
CONSTRAINT Bounds
INVARIANTS ElevationsEndWithSession ResetEndsSessions ReuseExplained FactorsServeOnce CacheOfOneContext OrganisationAgrees
PROPERTIES EndedStaysEnded EnrollmentStands AdminRemains
CHECK_DEADLOCK FALSE
