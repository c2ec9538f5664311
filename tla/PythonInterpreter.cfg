SPECIFICATION Spec
CONSTANTS
  Objects = {o1, o2}
  Scripts <- MCScripts
  NoScript = NoScript
  MaxCalls = 2
SYMMETRY UserSymmetry
INVARIANTS Contained ReleasesCounted
\* Nothing is defined after an undefined call.
CHECK_DEADLOCK FALSE
