SPECIFICATION Spec
CONSTANTS
  t1 = t1 t2 = t2 t3 = t3 i1 = i1 i2 = i2 s1 = s1 h1 = h1 h2 = h2 p1 = p1 p2 = p2
  NoTx = NoTx NoEntity = NoEntity
  Tx = {t1, t2}
  Invoices = {}
  Schedules = {s1}
  Handlers = {h1}
  Staff = {}
  Amount <- SerialAmount
  Expected <- ExpectedOf
  Ref <- NamedRef
  Mentions <- NamedMentions
  Tenanted = {s1}
  InitialStatus = {"pending"}
  MaxFaults = 0
  MaxManual = 1
CHECK_DEADLOCK FALSE
INVARIANTS NoDoubleCredit
