SPECIFICATION Spec
CONSTANTS
  Threads = {t1, t2, t3}
  Pieces = 2
SYMMETRY ThreadSymmetry
INVARIANTS
  TypeOK
  InOnePlace
  IntactIsRight
