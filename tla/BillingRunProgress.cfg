SPECIFICATION FairSpec
CONSTANTS
  rental = rental purchase = purchase twin = twin a1 = a1 a2 = a2 j1 = j1 j2 = j2 k1 = k1
  water = water upkeep = upkeep milestone = milestone
  NoOne = NoOne
  Contracts = {rental, twin}
  Apartments = {a1, a2}
  Jobs = {j1}
  Clerks = {k1}
  Readings = {water}
  Fees = {upkeep}
  Instalments = {milestone}
  Home <- TwinHome
  Debts <- TwinDebts
  Category <- CategoryOf
  Scope <- FullScope
  Reference <- TwinReference
  InitiallyActive = {rental, twin}
  Padded = 1
  Attempts = 3
  MaxStalls = 1
  MaxFaults = 1
CHECK_DEADLOCK FALSE
PROPERTIES JobEnds
