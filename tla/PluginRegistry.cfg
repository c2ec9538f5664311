SPECIFICATION Spec
CONSTANTS
  MoveFile = MoveFile
  Move = Move
  Cp = Cp
  NoClass = NoClass
  Absent = Absent
  Null = Null
  None = None
  Thrown = Thrown
  Threads = {p1, p2}
  Libs <- MCLibs
  Class <- MCClass
  Names <- MCNames
  Occurs <- MCOccurs
  Throwing = {Move}
  MaxCommands = 3
SYMMETRY ThreadSymmetry
INVARIANTS RightClass NullHasReason LoadedOnce
\* The bound on the commands stops a thread that would create one more.
CHECK_DEADLOCK FALSE
