------------------------------ MODULE DurableSet ------------------------------
(* What CachedFileList promises its callers: a set of strings that a crash    *)
(* does not change, except that a crash during a compaction may lose all of   *)
(* it.  It never loses a part, and never brings an element back.              *)
CONSTANT Elements

VARIABLES members, up, compacting

setVars == <<members, up, compacting>>

Init == members \subseteq Elements /\ up = FALSE /\ compacting = FALSE

Open == ~up /\ up' = TRUE /\ UNCHANGED <<members, compacting>>

Insert(e) ==
  /\ up /\ ~compacting
  /\ members' = members \union {e}
  /\ UNCHANGED <<up, compacting>>

Delete(e) ==
  /\ up /\ ~compacting
  /\ members' = members \ {e}
  /\ UNCHANGED <<up, compacting>>

BeginCompaction ==
  /\ up /\ ~compacting
  /\ compacting' = TRUE
  /\ UNCHANGED <<members, up>>

EndCompaction ==
  /\ up /\ compacting
  /\ compacting' = FALSE
  /\ UNCHANGED <<members, up>>

Crash ==
  /\ up
  /\ up' = FALSE /\ compacting' = FALSE
  /\ members' = members \/ (compacting /\ members' = {})

Next ==
  \/ Open \/ BeginCompaction \/ EndCompaction \/ Crash
  \/ \E e \in Elements : Insert(e) \/ Delete(e)

Spec == Init /\ [][Next]_setVars
=============================================================================
