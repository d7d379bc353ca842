CONSTANTS
  Tasks = {t1}
  NoGid = NoGid
  MaxFresh = 2
  MaxActive = 1
  SlowHalt = FALSE
  RpcFaults = {}
  HasSha = {t1}
  PollRaces = FALSE
  SpawnFails = FALSE
  DbFaults = FALSE
  ReadFails = FALSE
  MaxCrashes = 1
  MaxJobs = 3
SPECIFICATION HeldLiveSpec
INVARIANT HeldAfterRestart
PROPERTY VerificationEnds
PROPERTY SystemPauseLifted
PROPERTY AcceptedIsSubmitted
CHECK_DEADLOCK FALSE
