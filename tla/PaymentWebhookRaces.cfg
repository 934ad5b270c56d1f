SPECIFICATION Spec
CONSTANTS
  t1 = t1 t2 = t2 t3 = t3 i1 = i1 i2 = i2 s1 = s1 h1 = h1 h2 = h2 p1 = p1 p2 = p2
  NoTx = NoTx NoEntity = NoEntity
  Tx = {t1, t2}
  Invoices = {i1}
  Schedules = {s1}
  Handlers = {h1, h2}
  Staff = {p1, p2}
  Amount <- AmountOf
  Expected <- ExpectedOf
  Ref <- RaceRef
  Mentions <- RaceMentions
  Tenanted = {i1, s1}
  InitialStatus = {"pending", "cancelled"}
  MaxFaults = 0
  MaxManual = 1
SYMMETRY Symmetry
CHECK_DEADLOCK FALSE
INVARIANTS TypeOK NoPaymentDropped NoPhantomMoney OnceUnlessRaced NoticePerCredit
