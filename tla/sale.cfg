SPECIFICATION SaleSpec
CONSTANTS
    Quote = {q1}
    Booking = {x1, x2}
    Payment = {p1, p2, p3}
    Staff = {w1, w2}
    None = None
    Price <- Prices
    Amount <- Amounts
    MaxOffer = 2
    Deal = {k1}
    Loan = {x1, x2}
    TradeIn = {t1}
    Paper = {d1}
    Desk = {w1, w2}
    Required <- AllItems
    Case = {k1}
    Copy = {x1, x2}
    ExternalCar = {t1}
    Clerk = {w1, w2}
    MaxCaseVersion = 9
    ListRow = {p1, p2, p3}
    Me = "me"
    Branch = {"b1", "b2"}
    Team = {"s1", "s2"}
    Department = {"sales", "service"}
    DepartmentOf <- Departments
    Null = Null
    Absent = Absent
    Kinds = {"LEADS", "CALLS", "RIDES", "CONVERSATIONS", "DELIVERIES", "CASES", "VEHICLES", "PLANS", "REMINDERS", "UNITS", "BOOKINGS", "USERS"}
    Records <- RecordsOf
    Contexts <- AllContexts
    PageSize = 1
    Export = {k1}
    Runner = {w1, w2}
    TeamsOf <- Teams
    Report = {"LEAD_FUNNEL", "BOOKINGS", "REMINDERS", "AUDIT_EVENTS"}
    Filters <- Asked
    MaxStalls = 1
SYMMETRY SaleSymmetry
CONSTRAINT Bounds
INVARIANTS BookingsHonourOffers ApprovedPapersAreClean ReadyRestsOnEvidence CopiesHandedAreClean PagesComplete FiguresAgree ExportsStayInScope
CHECK_DEADLOCK FALSE
