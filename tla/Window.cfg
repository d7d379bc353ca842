CONSTANTS
  Requests = {r1, r2}
  Others = {u1}
  NoOne = NoOne
  MaxSends = 4
  MaxList = 2
  SameList = TRUE
  MaxLoops = 2
  Used = {r1}
SPECIFICATION Spec
INVARIANT TypeOK
INVARIANT OneSheet
INVARIANT OneTaskEach
PROPERTY AcceptedIsShown
CHECK_DEADLOCK FALSE
