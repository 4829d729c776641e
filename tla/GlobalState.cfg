SPECIFICATION FairSpec
CONSTANTS
  NoRoute = NoRoute
  Routes = {r1, r2}
  Attempts = 2
  MaxChanges = 2
  Teams <- MCTeams
INVARIANTS
  TypeOK
  NoWaitCycle
PROPERTIES
  ImplementsPublication
  Converges
