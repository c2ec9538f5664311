------------------------- MODULE MCAfcasAuthorization -------------------------
(* AfcasAuthorization with one good document, a longer one and a broken one.  *)
EXTENDS AfcasAuthorization, TLC

CONSTANTS alice, admins, read, write, table

P(op) == [principal |-> alice, operation |-> op, resource |-> table]

Small ==
  [principals |-> <<alice>>, groups |-> <<admins>>, operations |-> <<read>>,
   resources |-> <<table>>, predicates |-> <<P(read)>>]
Large == [Small EXCEPT !.operations = <<read, write>>, !.predicates = <<P(write), P(read)>>]
Broken == [s \in Sections \ {"groups"} |-> Small[s]]

MCDocuments == {Small, Large, Broken}
MCRequests == {<<>>, <<P(read)>>, <<P(read), P(write)>>}
MCServers == {{"operations"}, {"principals", "operations", "resources"}}
=============================================================================
