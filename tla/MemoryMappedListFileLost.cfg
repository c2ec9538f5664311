SPECIFICATION Spec
CONSTANTS
  Threads = {p1, p2}
  Values = {v1, v2}
  Faults = {}
  Piece = piece
INVARIANTS ChangesReflected
