SPECIFICATION Spec
CONSTANTS
  Tokens = {a, b, c}
  Faults = {"open", "read", "write", "unlink", "rename"}
  MaxLines = 4
SYMMETRY TokenSymmetry
INVARIANTS Agreement NoResurrection Recoverable
PROPERTIES DurableSpec
