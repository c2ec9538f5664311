SPECIFICATION Spec
CONSTANTS
  Threads = {p1, p2, p3}
  Values = {v1, v2}
  Faults = {"open", "write", "load"}
  Piece = piece
INVARIANTS QuiescentAgreement
PROPERTIES SoloTakesEffect
