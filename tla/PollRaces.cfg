CONSTANTS
  Tasks = {t1}
  NoGid = NoGid
  MaxFresh = 2
  MaxActive = 1
  SlowHalt = FALSE
  RpcFaults = {}
  HasSha = {t1}
  PollRaces = TRUE
  SpawnFails = FALSE
  DbFaults = FALSE
  ReadFails = FALSE
  MaxCrashes = 1
  MaxJobs = 1
SPECIFICATION Spec
INVARIANT OneTransfer
CHECK_DEADLOCK FALSE
