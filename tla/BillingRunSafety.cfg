SPECIFICATION Spec
CONSTANTS
  rental = rental purchase = purchase twin = twin a1 = a1 a2 = a2 j1 = j1 j2 = j2 k1 = k1
  water = water upkeep = upkeep milestone = milestone
  NoOne = NoOne
  Contracts = {rental, purchase}
  Apartments = {a1}
  Jobs = {j1, j2}
  Clerks = {}
  Readings = {water}
  Fees = {upkeep}
  Instalments = {milestone}
  Home <- SuccessiveHome
  Debts <- DebtsOf
  Category <- CategoryOf
  Scope <- FullScope
  Reference <- OwnReference
  InitiallyActive = {rental}
  Padded = 1
  Attempts = 3
  MaxStalls = 1
  MaxFaults = 2
SYMMETRY Symmetry
CHECK_DEADLOCK FALSE
INVARIANTS TypeOK TotalMatchesLines CompletedMeansBilled ChargedOnceUnlessRaced
PROPERTIES SettledStaysUnlessLate
