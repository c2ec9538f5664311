--------------------------- MODULE MCCachedFileList ---------------------------
(* CachedFileList on small files and a disk that fails.  Strings are          *)
(* interchangeable.                                                           *)
EXTENDS CachedFileList, TLC

TokenSymmetry == Permutations(Tokens)
=============================================================================
