CONSTANTS
  Tasks = {t1, t2, t3}
  Nobody = Nobody
  MaxActive = 1
  Lost = TRUE
  MaxActs = 3
SPECIFICATION Spec
SYMMETRY Symmetry
INVARIANT TypeOK
INVARIANT MoveIsMirrored
INVARIANT DragLands
PROPERTY MoveAsAsked
