----------------------------- MODULE MCTextReaders -----------------------------
(* TextReaders with a few words.  One path is empty, one status has no        *)
(* reason; one header sorts before Content-Length and one behind it.          *)
EXTENDS TextReaders, TLC

MCNumber == [n \in 0..12 |-> ToString(n)]
MCMethods == {"GET"}
MCStarts ==
  [request |-> {<<"GET", SP, "/p">>, <<"GET", SP>>, <<"PULL", SP, "/p">>},
   response |-> {<<"200">>, <<"304">>}]
MCReason == [s \in {"200", "304"} |-> IF s = "200" THEN <<"OK">> ELSE <<>>]
MCWords ==
  {"GET", "PULL", "/p", "200", "304", "OK", "Accept", "Host", "x", Version, ContentLength}
    \union {MCNumber[n] : n \in DOMAIN MCNumber}
Ordered ==
  <<LF, CR, SP, Colon, "Accept", ContentLength, "Host", "x", "GET", "PULL", "/p", "OK", Version>>
    \o <<"200", "304">> \o [n \in 1..13 |-> MCNumber[n - 1]]
MCRank == [c \in Chars |-> CHOOSE n \in DOMAIN Ordered : Ordered[n] = c]
MCKeys == {<<"Accept">>, <<ContentLength>>, <<"Host">>}
MCValues == {<<>>, <<"x">>, <<"x", SP>>, <<SP, "x">>, <<"x", Colon, "x">>}
MCContents ==
  {<<>>, <<"x">>, <<LF>>, <<"x", LF, LF, "x">>, <<CR, LF, "x">>, <<CR, LF, CR, LF>>}
MCCharacters == {CR, LF, "0", "x"}
=============================================================================
