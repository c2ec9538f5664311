------------------------ MODULE MCMemoryMappedListFile ------------------------
(* MemoryMappedListFile with few threads and values.                          *)
EXTENDS MemoryMappedListFile, TLC
=============================================================================
