------------------------- MODULE MCBasicAuthentication -------------------------
(* BasicAuthentication with a short clock.  One string is no token.           *)
EXTENDS BasicAuthentication, TLC

CONSTANT junk, LastToken

MCTokens == (0..LastToken) \union {junk}
MCGarbage == {junk}
=============================================================================
