CONSTANTS
  Tasks = {t1, t2}
  Characters <- Letters
  RawNames <- Names
  MaxNameLen = 20
  Intruders = FALSE
  ListFails = FALSE
  MaxOutside = 3
SPECIFICATION Spec
SYMMETRY Symmetry
INVARIANT TypeOK
INVARIANT OwnPath
INVARIANT EveryFileDeletable
PROPERTY CleanupSparesOwn
CHECK_DEADLOCK FALSE
