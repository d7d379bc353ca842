CONSTANTS
  Tasks = {t1, t2}
  NoGid = NoGid
  MaxFresh = 1
  MaxActive = 1
  SlowHalt = FALSE
  RpcFaults = {}
  HasSha = {}
  PollRaces = FALSE
  SpawnFails = FALSE
  DbFaults = FALSE
  ReadFails = FALSE
  MaxCrashes = 1
  MaxJobs = 1
SPECIFICATION Spec
SYMMETRY Symmetry
INVARIANT RunningIsMapped
INVARIANT PausedStopped
PROPERTY UserPauseKept
CHECK_DEADLOCK FALSE
