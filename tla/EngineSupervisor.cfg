CONSTANTS
  Pids = {p1, p2}
  NoPid = NoPid
  MaxRestarts = 3
  Window = 2
  MaxFailures = 3
  MaxTries = 3
  Faults = {}
  MaxFaults = 4
SPECIFICATION LiveSpec
INVARIANT TypeOK
INVARIANT OneEngine
INVARIANT RestartBudget
PROPERTY OnlyOursKilled
PROPERTY EngineReturns
