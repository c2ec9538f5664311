---------------------- MODULE MemoryMappedListFileProofs ----------------------
(* What TLC checks of MemoryMappedListFile with three threads and two values, *)
(* for every set of either and every kind of fault.                           *)
EXTENDS MemoryMappedListFile, TLAPS

Types ==
  /\ pc \in [Threads -> {"idle", "threw", "write", "load"}]
  /\ solo \in [Threads -> BOOLEAN]
  /\ want = [t \in Threads |-> want[t]]

(* The load that finds an empty file leaves the list alone.  That is right,   *)
(* as an empty file that was written is the trace of an empty list, and only  *)
(* a thread that has still to write can have changed it since.                *)
EmptyFileEmptyList ==
  (file = {} /\ ~unwritten /\ \A t \in Threads : pc[t] # "write") => list = {}

Agrees == EmptyFileEmptyList /\ QuiescentAgreement

(* What an operation that is alone leaves between its sections, and nobody    *)
(* else is inside one.                                                        *)
SoloState ==
  \A t \in Threads : solo[t] =>
    /\ pc[t] \in {"write", "load"} => list = want[t]
    /\ pc[t] = "load" => file = want[t]
    /\ \A u \in Threads \ {t} : Returned(u)

LEMMA TypesInvariant == Spec => []Types
<1>1. Init => Types
  BY DEF Init, Types
<1>2. Types /\ [Next]_vars => Types'
  BY DEF Types, Next, vars, Change, Write, Load, Calls
<1>. QED  BY <1>1, <1>2, PTL DEF Spec

-----------------------------------------------------------------------------
(* When every operation has returned, list and file agree, unless the last    *)
(* write has failed and left an empty file.                                   *)
THEOREM MemoryAgreesWithFile == Spec => []QuiescentAgreement
<1>1. Init => Agrees
  BY DEF Init, Agrees, EmptyFileEmptyList, QuiescentAgreement
<1>2. Types /\ Agrees /\ [Next]_vars => Agrees'
  <2> SUFFICES ASSUME Types, Agrees, [Next]_vars PROVE Agrees'
    OBVIOUS
  <2> USE DEF Types, Agrees, EmptyFileEmptyList, QuiescentAgreement
  <2>1. ASSUME NEW t \in Threads, NEW op \in Calls, Change(t, op) PROVE Agrees'
    BY <2>1 DEF Change
  <2>2. ASSUME NEW t \in Threads, Write(t) PROVE Agrees'
    BY <2>2 DEF Write
  <2>3. ASSUME NEW t \in Threads, Load(t) PROVE Agrees'
    <3>1. (\A u \in Threads : pc'[u] # "write") => \A u \in Threads : pc[u] # "write"
      BY <2>3 DEF Load
    <3>2. EmptyFileEmptyList'
      BY <2>3, <3>1 DEF Load
    <3>3. ASSUME \A u \in Threads : pc'[u] = "idle" PROVE QuiescentAgreement'
      <4>1. list' = IF file = {} THEN list ELSE file
        BY <2>3, <3>3 DEF Load
      <4>2. \A u \in Threads : pc[u] # "write"
        BY <3>1, <3>3
      <4>. QED  BY <2>3, <4>1, <4>2 DEF Load
    <3>. QED  BY <3>2, <3>3
  <2>4. ASSUME UNCHANGED vars PROVE Agrees'
    BY <2>4 DEF vars
  <2>. QED  BY <2>1, <2>2, <2>3, <2>4 DEF Next
<1>3. Agrees => QuiescentAgreement
  BY DEF Agrees
<1>. QED  BY <1>1, <1>2, <1>3, TypesInvariant, PTL DEF Spec

-----------------------------------------------------------------------------
LEMMA SoloStateStep == Types /\ SoloState /\ [Next]_vars => SoloState'
<1> SUFFICES ASSUME Types, SoloState, [Next]_vars PROVE SoloState'
  OBVIOUS
<1> USE DEF Types, SoloState, Returned
<1>1. ASSUME NEW t \in Threads, NEW op \in Calls, Change(t, op) PROVE SoloState'
  BY <1>1 DEF Change
<1>2. ASSUME NEW t \in Threads, Write(t) PROVE SoloState'
  BY <1>2 DEF Write
<1>3. ASSUME NEW t \in Threads, Load(t) PROVE SoloState'
  BY <1>3 DEF Load
<1>4. ASSUME UNCHANGED vars PROVE SoloState'
  BY <1>4 DEF vars
<1>. QED  BY <1>1, <1>2, <1>3, <1>4 DEF Next

(* An operation that no other one overlaps takes effect on list and file if   *)
(* its write succeeds, even if its load throws.                               *)
THEOREM AloneTakesEffect == Spec => SoloTakesEffect
<1>1. Init => SoloState
  BY DEF Init, SoloState
<1>2. Types /\ SoloState /\ [Next]_vars =>
        [\A t \in Threads : (solo[t] /\ pc[t] = "load" /\ Returned(t)')
           => list' = want[t] /\ file' = want[t]]_vars
  <2> SUFFICES ASSUME Types, SoloState, Next, NEW t \in Threads,
                      solo[t], pc[t] = "load", Returned(t)'
               PROVE  list' = want[t] /\ file' = want[t]
    OBVIOUS
  <2>1. Load(t)
    BY DEF Next, Change, Write, Load, Returned, Types
  <2>. QED  BY <2>1 DEF Load, SoloState
<1>. QED  BY <1>1, <1>2, SoloStateStep, TypesInvariant, PTL DEF Spec, SoloTakesEffect
=============================================================================
