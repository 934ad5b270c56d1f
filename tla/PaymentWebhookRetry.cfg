SPECIFICATION Spec
CONSTANTS
  t1 = t1 t2 = t2 t3 = t3 i1 = i1 i2 = i2 s1 = s1 h1 = h1 h2 = h2 p1 = p1 p2 = p2
  NoTx = NoTx NoEntity = NoEntity
  Tx = {t1}
  Invoices = {i1}
  Schedules = {}
  Handlers = {h1, h2}
  Staff = {}
  Amount <- SerialAmount
  Expected <- ExpectedOf
  Ref <- NoRef
  Mentions <- RivalMentions
  Tenanted = {i1}
  InitialStatus = {"pending"}
  MaxFaults = 0
  MaxManual = 0
CHECK_DEADLOCK FALSE
INVARIANTS NoRaceOnRetry
