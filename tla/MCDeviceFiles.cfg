CONSTANTS
  Threads = {t1, t2}
  Names = {n1, n2}
  NoName = NoName
  Files = {f1, f2}
SPECIFICATION Spec
SYMMETRY Symmetry
INVARIANTS ShotIsFresh NoShotLeft
PROPERTIES DirIsComplete
