SPECIFICATION LedgerSpec
CONSTANTS
    s1 = s1
    s2 = s2
    i1 = i1
    NoRow = NoRow
    Schedules = {s1, s2}
    Invoices = {i1}
    Payments = {p1, p2}
    Requests = {r1, r2}
    Expected <- ExpectedOf
    Total <- TotalOf
    PastDue = {s1, i1}
    InvoiceOf <- MonthOf
    Amounts = {1, 2}
    Initial = {s1}
    MaxOps = 5
    Earlier <- EarlierOf
    Matching <- MatchingOf
SYMMETRY Symmetry
CHECK_DEADLOCK FALSE
INVARIANTS InvoiceTypeOK ReceivedMatchesPayments ReportAwaitsDecision SyncedOncePerReport DecisionShown
PROPERTIES PaymentsKept PaidStaysUnlessLate
