CONSTANTS
  Tasks = {t1}
  NoGid = NoGid
  MaxFresh = 2
  MaxActive = 1
  SlowHalt = TRUE
  RpcFaults = {}
  HasSha = {t1}
  PollRaces = FALSE
  SpawnFails = FALSE
  DbFaults = FALSE
  ReadFails = TRUE
  MaxCrashes = 1
  MaxJobs = 1
SPECIFICATION Spec
INVARIANT TypeOK
INVARIANT OneTransfer
INVARIANT SettledStopped
INVARIANT ConfirmedStopped
PROPERTY SettledIsFinal
PROPERTY ChecksumBeforeDone
CHECK_DEADLOCK FALSE
