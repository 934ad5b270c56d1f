SPECIFICATION OfficeSpec
CONSTANTS
    a1 = a1
    q1 = q1
    q2 = q2
    NoRow = NoRow
    Requests = {r1, r2}
    Areas = {"contracts", "plans", "schedules", "policies", "cards", "parking", "accounts", "meters"}
    MaxOps <- AreaOps
    Apartments = {a1}
    Contracts = {c1, c2}
    Terms <- TermsOf
    Residents = {2}
    Ends <- EndsOf
    Rents <- RentsOf
    Deposits <- DepositsOf
    Edits <- ByHandRows
    HandRows <- EnteredByHand
    Counts <- CountsOf
    Percents = {30}
    SigningMonths = 2
    SigningCount = 3
    SigningPercent = 30
    Policies = {p1, p2, p3}
    Building = Building
    Home = a1
    Limits = {1, 2}
    LastDay = 2
    Cards = {k1, k2, k3}
    CardRequests = {q1, q2}
    TypeOf <- TypesOf
    Padded = 2
    ByHand = ByHand
    NaN = NaN
    DefaultLimit = 2
    Overrides = {0, 1}
    Zone = Zone
    Slots = {1, 2, 3, 4}
    SlotPadded = 2
    Tenants = {t1, t2}
    Accounts = {b1, b2}
    Holder = Holder
    Periods = {1, 2, 3}
    Values = {1, 2}
SYMMETRY Symmetry
CHECK_DEADLOCK FALSE
INVARIANTS OfficeTypeOK OneActiveContract ApartmentMatchesContract ScheduledOnce PlanSound OnePolicyADay GeneratedNumberFree RequestMatchesCard SlotsAsAsked OnePrimaryAccount
PROPERTIES CardLimitKept SlotKept BilledReadingStays
