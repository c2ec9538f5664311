--------------------------- MODULE MCPluginRegistry ---------------------------
(* PluginRegistry with three libraries.  The path of the first, say           *)
(* libMoveFile.so, contains the name of the second, libMove.so.  The third is *)
(* on its own and has a name that makes no class, such as cp.so.              *)
EXTENDS PluginRegistry, TLC

CONSTANTS MoveFile, Move, Cp

MCLibs == 1..3
MCClass == <<MoveFile, Move, NoClass>>
MCOccurs == <<{MoveFile, Move}, {Move}, {Cp}>>
MCNames == {MoveFile, Move, Cp}
ThreadSymmetry == Permutations(Threads)
=============================================================================
