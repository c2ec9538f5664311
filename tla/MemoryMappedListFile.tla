------------------------- MODULE MemoryMappedListFile -------------------------
(* src/authentication/MemoryMappedListFile.h: a list in memory and a file,    *)
(* with three critical sections of the same mutex in every operation that     *)
(* changes it: change the list, write it to the file, load it from the file.  *)
(* The list is sorted and has no duplicates, so it is a set here.             *)
EXTENDS Naturals, FiniteSets

CONSTANTS
  Threads,   \* threads that share the object
  Values,    \* strings: no line break, not empty
  Piece,     \* the string that a failing write makes of a line
  Faults     \* what may fail: "open" for writing, "write" once open, "load"

ASSUME FileAssumption == Piece \notin Values /\ Faults \subseteq {"open", "write", "load"}

VARIABLES
  list,      \* the vector
  file,      \* the lines of the file
  pc,        \* each thread: "idle", "threw", or the section that comes next
  unwritten, \* history: the last writeToFile has not written the whole list
  solo,      \* history: no other operation has overlapped the one of a thread
  want,      \* history: the list as the first section of that operation has left it
  kept       \* history: values that an operation has put into the list and that
             \* no later one was asked to remove

vars == <<list, file, pc, unwritten, solo, want, kept>>

(* Outside every operation: the last one returned or threw.                   *)
Returned(t) == pc[t] \in {"idle", "threw"}

(* add, remove and removeList, as what they do to the list.                   *)
AddOp(v) == [add |-> {v}, drop |-> {}]
RemoveOp(v) == [add |-> {}, drop |-> {v}]
RemoveListOp(vs) == [add |-> {}, drop |-> vs]
Calls ==
  {AddOp(v) : v \in Values} \union {RemoveOp(v) : v \in Values}
    \union {RemoveListOp(vs) : vs \in SUBSET Values}

Apply(op, l) == (l \union op.add) \ op.drop

(* The constructor has loaded the file.                                       *)
Init ==
  /\ file \in SUBSET (Values \union {Piece}) /\ list = file
  /\ pc = [t \in Threads |-> "idle"]
  /\ solo = [t \in Threads |-> FALSE] /\ want = [t \in Threads |-> {}]
  /\ kept = {} /\ unwritten = FALSE

(* The first block of add, remove or removeList.                              *)
Change(t, op) ==
  LET others == {u \in Threads \ {t} : ~Returned(u)} IN
  /\ Returned(t)
  /\ list' = Apply(op, list)
  /\ want' = [want EXCEPT ![t] = list']
  /\ solo' = [u \in Threads |-> IF u = t THEN others = {} ELSE FALSE]
  /\ kept' = (kept \union op.add) \ op.drop
  /\ pc' = [pc EXCEPT ![t] = "write"]
  /\ UNCHANGED <<file, unwritten>>

(* What a write that fails leaves of the list in the file that the stream has *)
(* truncated: its first lines, of which the order is not modelled, and        *)
(* perhaps a piece of the next one.                                           *)
Fragments(l) ==
  UNION {{s, s \union {Piece}} : s \in {s \in SUBSET l : s # l}}

(* writeToFile: truncate and write the list.  A stream that does not open, or *)
(* fails while it writes, swallows every line that is left and says nothing.  *)
Write(t) ==
  /\ pc[t] = "write"
  /\ \/ file' = list /\ unwritten' = FALSE /\ UNCHANGED solo
     \/ /\ \/ "open" \in Faults /\ UNCHANGED file
           \/ "write" \in Faults /\ file' \in Fragments(list)
        /\ unwritten' = TRUE /\ solo' = [solo EXCEPT ![t] = FALSE]
  /\ pc' = [pc EXCEPT ![t] = "load"]
  /\ UNCHANGED <<list, want, kept>>

(* loadFromFile: an empty file leaves the list as it is, and so does every    *)
(* failure, by an exception that leaves the operation.                        *)
LoadMutantNoClear(t) ==
  /\ pc[t] = "load"
  /\ \/ list' = list \union file /\ pc' = [pc EXCEPT ![t] = "idle"]
     \/ "load" \in Faults /\ pc' = [pc EXCEPT ![t] = "threw"] /\ UNCHANGED list
  /\ want' = [want EXCEPT ![t] = {}] /\ solo' = [solo EXCEPT ![t] = FALSE]
  /\ UNCHANGED <<file, unwritten, kept>>

LoadMutantClearsFirst(t) ==
  /\ pc[t] = "load"
  /\ \/ list' = (IF file = {} THEN list ELSE file) /\ pc' = [pc EXCEPT ![t] = "idle"]
     \/ "load" \in Faults /\ pc' = [pc EXCEPT ![t] = "threw"] /\ list' = {}
  /\ want' = [want EXCEPT ![t] = {}] /\ solo' = [solo EXCEPT ![t] = FALSE]
  /\ UNCHANGED <<file, unwritten, kept>>

Load(t) ==
  /\ pc[t] = "load"
  /\ \/ list' = (IF file = {} THEN list ELSE file) /\ pc' = [pc EXCEPT ![t] = "idle"]
     \/ "load" \in Faults /\ pc' = [pc EXCEPT ![t] = "threw"] /\ UNCHANGED list
  /\ want' = [want EXCEPT ![t] = {}] /\ solo' = [solo EXCEPT ![t] = FALSE]
  /\ UNCHANGED <<file, unwritten, kept>>

Next == \E t \in Threads : Write(t) \/ Load(t) \/ \E op \in Calls : Change(t, op)

Spec == Init /\ [][Next]_vars
-----------------------------------------------------------------------------
(* However operations interleave, and although an empty file does not empty   *)
(* the list, memory and file agree when all have returned.  They differ only  *)
(* when the last write failed and left an empty file, or one has thrown.      *)
QuiescentAgreement ==
  (\A t \in Threads : pc[t] = "idle") => list = file \/ (unwritten /\ file = {})

(* An operation that no other one overlaps, and whose write neither fails to  *)
(* open the file nor fails later, does to the list and to the file what it    *)
(* says, whatever failed before it; when its load throws, it has done so all  *)
(* the same.                                                                  *)
SoloTakesEffect ==
  [][\A t \in Threads :
       (solo[t] /\ pc[t] = "load" /\ Returned(t)') => list' = want[t] /\ file' = want[t]]_vars

(* "Refresh mapping to reflect changes": when every operation has returned,   *)
(* the list has each value that one of them put in and that no later one was  *)
(* asked to remove.                                                           *)
ChangesReflected == (\A t \in Threads : Returned(t)) => kept \subseteq list
=============================================================================
