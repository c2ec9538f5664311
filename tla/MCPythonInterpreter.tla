-------------------------- MODULE MCPythonInterpreter --------------------------
(* PythonInterpreter with a good script, one that has no execute, one whose   *)
(* execute and postExecute are no functions, one of whose postExecute this is *)
(* true alone, and one with no preExecute to call.                            *)
EXTENDS PythonInterpreter, TLC

File(pre, execute, post) ==
  [name \in Names |-> CASE name = "preExecute" -> pre
                        [] name = "execute" -> execute
                        [] OTHER -> post]

MCScripts ==
  {File("function", "function", "function"), File("function", "missing", "function"),
   File("function", "plain", "plain"), File("function", "function", "plain"),
   File("plain", "function", "missing")}
UserSymmetry == Permutations(Objects)
=============================================================================
