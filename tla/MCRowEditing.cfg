CONSTANTS
  r1 = r1
  r2 = r2
  Rows = {r1, r2}
  Nobody = Nobody
  MaxEdits = 2
  MaxSaves = 2
  MaxMoves = 1
SPECIFICATION Spec
SYMMETRY RowSymmetry
CHECK_DEADLOCK FALSE
INVARIANTS OthersKept TableIsTold
PROPERTIES EditsKept
