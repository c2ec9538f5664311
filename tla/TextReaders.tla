------------------------------ MODULE TextReaders ------------------------------
(* The library has two ways to take text from the wire apart, the parsers of  *)
(* http/http_message.cpp and LineGrabber.h.  A program uses either; they      *)
(* share nothing, and what belongs to the other one stays as it is.           *)
EXTENDS HttpMessage

CONSTANTS Characters, Nul, Limit, MaxSize   \* of LineGrabber

ASSUME LimitAssumption == {CR, LF, Nul} \subseteq Characters /\ Limit \in Nat /\ MaxSize \in Nat

VARIABLES
  reader,  \* "http" or "lines"
  buffer, index, text, defined   \* of LineGrabber

Lines == INSTANCE LineGrabber

lineVars == <<buffer, index, text, defined>>

ReadersInit ==
  \/ reader = "http" /\ MessageInit /\ buffer = <<>> /\ index = 0 /\ text = <<>> /\ defined = TRUE
  \/ /\ reader = "lines" /\ Lines!Init
     /\ kind = "request" /\ message = NewMessage(<<>>) /\ sent = message
     /\ relayed = FALSE /\ wire = <<>> /\ place = "built" /\ hops = 0

ReadersNext ==
  \/ reader = "http" /\ MessageNext /\ UNCHANGED <<reader, lineVars>>
  \/ reader = "lines" /\ Lines!Step /\ UNCHANGED <<reader, messageVars>>

ReadersSpec == ReadersInit /\ [][ReadersNext]_<<reader, messageVars, lineVars>>
-----------------------------------------------------------------------------
(* LineGrabber loses nothing of a clean buffer: see the module.               *)
LinesAreFaithful == Lines!LinesAreFaithful
=============================================================================
