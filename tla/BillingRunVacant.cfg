SPECIFICATION FairSpec
CONSTANTS
  rental = rental purchase = purchase twin = twin a1 = a1 a2 = a2 j1 = j1 j2 = j2 k1 = k1
  water = water upkeep = upkeep milestone = milestone
  NoOne = NoOne
  Contracts = {rental, purchase}
  Apartments = {a1, a2}
  Jobs = {j1, j2}
  Clerks = {}
  Readings = {water}
  Fees = {upkeep}
  Instalments = {milestone}
  Home <- HomeOf
  Debts <- DebtsOf
  Category <- CategoryOf
  Scope <- FullScope
  Reference <- OwnReference
  InitiallyActive = {rental, purchase}
  Padded = 1
  Attempts = 3
  MaxStalls = 1
  MaxFaults = 0
CHECK_DEADLOCK FALSE
PROPERTIES VacantNotInvoicedAgain
