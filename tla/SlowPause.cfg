CONSTANTS
  Tasks = {t1}
  NoGid = NoGid
  MaxFresh = 2
  MaxActive = 1
  SlowHalt = TRUE
  RpcFaults = {}
  HasSha = {t1}
  PollRaces = FALSE
  SpawnFails = FALSE
  DbFaults = FALSE
  ReadFails = FALSE
  MaxCrashes = 1
  MaxJobs = 1
SPECIFICATION Spec
PROPERTY UserPauseKept
CHECK_DEADLOCK FALSE
