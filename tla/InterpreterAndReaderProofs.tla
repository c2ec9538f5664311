---------------------- MODULE InterpreterAndReaderProofs ----------------------
(* Three components that share nothing but this module: the invariants of     *)
(* PythonInterpreter, for every set of objects and of scripts, and however    *)
(* many calls throw; that of the line grabber in TextReaders, for every       *)
(* buffer; and those of the HTTP messages in TextReaders, for all texts that  *)
(* a program may set (CallersTexts) and every number of hops.                 *)
EXTENDS PythonInterpreter, TextReaders, SequenceTheorems, FiniteSetTheorems,
  WellFoundedInduction, TLAPS

InCall == {"context", "pre", "execute", "post", "release"}

Types ==
  /\ pc \in InCall \union {"idle", "finalize", "undefined"}
  /\ refs \in [Scripts -> Nat] /\ thrown \in [Scripts -> Nat]
  /\ loaded \subseteq Scripts
  /\ pc \in InCall => script \in Scripts

LEMMA TypesInvariant == Spec => []Types
<1>1. Init => Types
  BY DEF Init, Types, NoRefs, InCall
<1>2. Types /\ [Next]_vars => Types'
  <2> SUFFICES ASSUME Types, [Next]_vars PROVE Types'
    OBVIOUS
  <2> USE DEF Types, InCall
  <2>1. ASSUME NEW o \in Objects, NEW s \in Scripts, Import(o, s) PROVE Types'
    BY <2>1 DEF Import, python
  <2>2. ASSUME NEW o \in Objects, Construct(o) \/ Destruct(o) PROVE Types'
    BY <2>2 DEF Construct, Destruct, InterpreterEnds, NoRefs, call
  <2>3. CASE CreateContext \/ PreExecute
    BY <2>3 DEF CreateContext, PreExecute, call
  <2>4. CASE Execute \/ PostExecute \/ Release
    BY <2>4 DEF Execute, PostExecute, Release, Run, Decref, call
  <2>5. CASE Finalize
    BY <2>5 DEF Finalize, InterpreterEnds, NoRefs, call, python
  <2>6. CASE UNCHANGED vars
    BY <2>6 DEF vars, python, call
  <2>. QED  BY <2>1, <2>2, <2>3, <2>4, <2>5, <2>6 DEF Next
<1>. QED  BY <1>1, <1>2, PTL DEF Spec

-----------------------------------------------------------------------------
(* Where every reference to a module is: one in sys.modules, one for each     *)
(* call that has thrown, and one in the call that is going on, less those     *)
(* that the call has given away for names that are no function.               *)
Given == Extra("execute") + Extra("postExecute")

References ==
  /\ pc = "idle" => \A s \in loaded : refs[s] = 1 + thrown[s]
  /\ \A s \in loaded \ {script} : refs[s] = 1 + thrown[s]
  /\ \A s \in Scripts \ loaded : thrown[s] = 0
  /\ pc \in {"context", "pre", "execute"} => tried = {}
  /\ pc = "post" => "postExecute" \notin tried
  /\ pc \in InCall => script \in loaded /\ refs[script] + Given = 2 + thrown[script]
  /\ ReleasesCounted

(* The call comes to a name, for the first time.                              *)
LEMMA RunStep ==
  ASSUME Types, script \in Scripts, NEW name \in {"execute", "postExecute"}, name \notin tried,
         NEW next \in {"post", "release"}, Run(name, next), UNCHANGED script
  PROVE  /\ pc' \in {next, "undefined"}
         /\ pc' = next => refs'[script] + Given' = refs[script] + Given
         /\ \A s \in Scripts \ {script} : refs'[s] = refs[s]
<1> USE DEF Types
<1>1. /\ pc' \in {next, "undefined"}
      /\ \A s \in Scripts \ {script} : refs'[s] = refs[s]
  BY DEF Run, Decref
<1>2. /\ Has(name, "plain")' <=> Has(name, "plain")
      /\ \A other \in Names : Extra(other) \in Nat /\ (other # name => Extra(other)' = Extra(other))
      /\ Extra(name) = 0
  BY DEF Run, Has, Extra, Names
<1>3. ASSUME pc' = next PROVE refs'[script] + Extra(name)' = refs[script]
  <2>1. CASE Has(name, "plain")
    <3>1. refs'[script] = refs[script] - 1
      BY <1>3, <2>1 DEF Run, Decref, Has
    <3>2. Extra(name)' = 1
      BY <1>2, <2>1 DEF Run, Extra
    <3>. QED  BY <3>1, <3>2
  <2>2. CASE ~Has(name, "plain")
    BY <1>2, <1>3, <2>2 DEF Run, Extra
  <2>. QED  BY <2>1, <2>2
<1>4. ASSUME pc' = next PROVE refs'[script] + Given' = refs[script] + Given
  <2>1. refs'[script] \in Nat /\ refs[script] \in Nat
    BY DEF Run, Decref
  <2>2. Extra(name)' \in Nat
    BY DEF Extra
  <2>. QED  BY <1>2, <1>3, <1>4, <2>1, <2>2 DEF Given, Names
<1>. QED  BY <1>1, <1>4

(* A step that changes neither the script nor what the call has come to.      *)
LEMMA GivenKept == UNCHANGED <<script, tried>> => Given' = Given
BY DEF Given, Extra, Has

LEMMA NothingGiven == tried = {} \/ Complete(script) => Given = 0
BY DEF Given, Extra, Has, Complete, Names

LEMMA ReferencesStep == Types /\ References /\ [Next]_vars => References'
<1> SUFFICES ASSUME Types, References, [Next]_vars PROVE References'
  OBVIOUS
<1> USE DEF Types, References, InCall
<1>1. ASSUME NEW o \in Objects, NEW s \in Scripts, Import(o, s) PROVE References'
  <2>1. Given' = 0 /\ tried' = {} /\ script' = s /\ thrown' = thrown /\ pc = "idle"
    BY <1>1 DEF Import, Given, Extra
  <2>2. CASE UNCHANGED <<refs, loaded>>
    <3>1. pc' \in {"undefined", "finalize"}
      BY <1>1, <2>2 DEF Import
    <3>2. \A r \in loaded' : refs'[r] = 1 + thrown'[r]
      BY <2>1, <2>2
    <3>3. ReleasesCounted'
      <4>1. Extra("execute")' = 0 /\ Extra("postExecute")' = 0
        BY <2>1 DEF Extra
      <4>. QED  BY <2>1, <2>2, <3>2, <4>1 DEF ReleasesCounted
    <3>. QED  BY <2>1, <2>2, <3>1, <3>2, <3>3
  <2>3. CASE pc' = "context"
    <3>1. /\ loaded' = loaded \union {s}
          /\ refs' = [refs EXCEPT ![s] = IF s \in loaded THEN @ + 1 ELSE 2]
      BY <1>1, <2>3 DEF Import
    <3>2. refs'[s] = 2 + thrown'[s]
      BY <2>1, <3>1
    <3>3. \A r \in loaded' \ {s} : refs'[r] = 1 + thrown'[r]
      BY <2>1, <3>1
    <3>. QED  BY <2>1, <2>3, <3>1, <3>2, <3>3 DEF ReleasesCounted
  <2>. QED  BY <1>1, <2>2, <2>3 DEF Import, python
<1>2. ASSUME NEW o \in Objects, Construct(o) \/ Destruct(o) PROVE References'
  BY <1>2 DEF Construct, Destruct, InterpreterEnds, NoRefs, call, ReleasesCounted
<1>3. CASE CreateContext
  <2>1. Given' = Given /\ Given = 0
    BY <1>3, GivenKept, NothingGiven DEF CreateContext
  <2>. QED  BY <1>3, <2>1 DEF CreateContext, ReleasesCounted
<1>4. CASE PreExecute
  <2>1. Given' = Given
    BY <1>4, GivenKept DEF PreExecute, call
  <2>. QED  BY <1>4, <2>1 DEF PreExecute, call, ReleasesCounted
<1>5. CASE Execute \/ PostExecute
  <2>1. /\ UNCHANGED <<script, loaded, thrown>> /\ pc' \in {"post", "release", "undefined"}
        /\ pc \in {"execute", "post"}
    BY <1>5 DEF Execute, PostExecute, Run, Decref
  <2>2. CASE UNCHANGED refs /\ pc' = "undefined"
    BY <2>1, <2>2 DEF ReleasesCounted
  <2>3. CASE pc = "execute" /\ Run("execute", "post")
    <3>1. tried' = {"execute"}
      BY <2>3 DEF Run
    <3>. QED  BY <2>1, <2>3, <3>1, RunStep DEF ReleasesCounted
  <2>4. CASE pc = "post" /\ Run("postExecute", "release")
    BY <2>1, <2>4, RunStep DEF ReleasesCounted
  <2>. QED  BY <1>5, <2>2, <2>3, <2>4 DEF Execute, PostExecute
<1>6. CASE Release
  <2>1. Given' = Given /\ Given \in Nat
    BY <1>6, GivenKept DEF Release, call, Given, Extra
  <2>2. refs[script] \in Nat /\ thrown[script] \in Nat /\ script \in Scripts
    BY <1>6 DEF Release
  <2>3. CASE pc' = "finalize"
    <3>1. refs' = [refs EXCEPT ![script] = @ - 1] /\ UNCHANGED <<script, loaded, thrown>>
      BY <1>6, <2>3 DEF Release, Decref, call
    <3>2. refs'[script] + Given' = 1 + thrown'[script]
      BY <1>6, <2>1, <2>2, <3>1 DEF Release
    <3>3. ReleasesCounted'
      BY <2>3, <3>2, <2>1, <3>1 DEF ReleasesCounted, Given, Extra
    <3>. QED  BY <1>6, <2>3, <3>1, <3>3 DEF Release
  <2>4. CASE pc' = "undefined"
    BY <1>6, <2>4 DEF Release, Decref, call, ReleasesCounted
  <2>. QED  BY <1>6, <2>3, <2>4 DEF Release, Decref
<1>7. CASE Finalize
  BY <1>7 DEF Finalize, InterpreterEnds, NoRefs, call, python, ReleasesCounted
<1>8. CASE UNCHANGED vars
  <2>1. Given' = Given
    BY <1>8, GivenKept DEF vars, call
  <2>. QED  BY <1>8, <2>1 DEF vars, python, call, ReleasesCounted, Extra, Has
<1>. QED  BY <1>1, <1>2, <1>3, <1>4, <1>5, <1>6, <1>7, <1>8 DEF Next

LEMMA ReferencesInvariant == Spec => []References
<1>1. Init => References
  BY DEF Init, References, InCall, ReleasesCounted, NoRefs
<1>. QED  BY <1>1, ReferencesStep, TypesInvariant, PTL DEF Spec

(* Whatever the script has under the three names, Execute gives the module    *)
(* back once on every path to its end, and once more for each name that it    *)
(* came to and that is no function.                                           *)
THEOREM ModuleReleasesCounted == Spec => []ReleasesCounted
<1>1. References => ReleasesCounted
  BY DEF References
<1>. QED  BY <1>1, ReferencesInvariant, PTL

-----------------------------------------------------------------------------
(* Only an object whose interpreter has been ended by another call can run    *)
(* without one.                                                               *)
Survivors == ~alive => objects \subseteq stale

(* An undefined call has one of five reasons: a stale object, a script that   *)
(* lacks one of the functions, an exception in execute or postExecute, a      *)
(* param that is no UTF-8, or an answer that has none.                        *)
THEOREM HarmContained == Spec => []Contained
<1>1. Init => Survivors /\ Contained
  BY DEF Init, Survivors, Contained
<1>2. Types /\ References /\ Survivors /\ Contained /\ [Next]_vars => Survivors' /\ Contained'
  <2> SUFFICES ASSUME Types, References, Survivors, Contained, [Next]_vars
               PROVE  Survivors' /\ Contained'
    OBVIOUS
  <2> USE DEF Types, InCall, Survivors, Contained
  <2>1. ASSUME NEW o \in Objects, NEW s \in Scripts, Import(o, s)
        PROVE  Survivors' /\ Contained'
    BY <2>1 DEF Import, python
  <2>2. ASSUME NEW o \in Objects, Construct(o) \/ Destruct(o)
        PROVE  Survivors' /\ Contained'
    BY <2>2 DEF Construct, Destruct, InterpreterEnds, call
  <2>3. CASE CreateContext \/ PreExecute
    BY <2>3 DEF CreateContext, PreExecute, call
  <2>4. CASE Execute \/ PostExecute
    <3>1. pc' = "undefined" => ~Complete(script)' \/ raised' \/ garbled'
      BY <2>4 DEF Execute, PostExecute, Run, Decref, Complete, Has, Names
    <3>. QED  BY <2>4, <3>1 DEF Execute, PostExecute
  <2>5. CASE Release
    <3>1. pc' = "undefined" => ~Complete(script)
      BY <2>5, NothingGiven DEF Release, Decref, References
    <3>2. Complete(script)' <=> Complete(script)
      BY <2>5 DEF Release, call, Complete
    <3>. QED  BY <2>5, <3>1, <3>2 DEF Release, call
  <2>6. CASE Finalize
    <3>1. ASSUME pc' = "undefined" PROVE script \in loaded /\ ~Complete(script)
      <4>1. pc = "finalize" /\ \E s \in loaded : ~(refs[s] > 0)
        BY <2>6, <3>1 DEF Finalize, InterpreterEnds
      <4>2. PICK s \in loaded : ~(refs[s] > 0)
        BY <4>1
      <4>3. s = script
        BY <4>2 DEF References
      <4>4. refs[script] + Given = 1 + thrown[script] /\ Given \in Nat
        BY <4>1, <4>3 DEF References, ReleasesCounted, Given, Extra
      <4>5. Given # 0
        BY <4>2, <4>3, <4>4
      <4>. QED  BY <4>3, <4>5, NothingGiven
    <3>2. Complete(script)' <=> Complete(script)
      BY <2>6 DEF Finalize, call, Complete
    <3>. QED  BY <2>6, <3>1, <3>2 DEF Finalize, InterpreterEnds, call, python
  <2>7. CASE UNCHANGED vars
    BY <2>7 DEF vars, python, call, Complete
  <2>. QED  BY <2>1, <2>2, <2>3, <2>4, <2>5, <2>6, <2>7 DEF Next
<1>. QED  BY <1>1, <1>2, TypesInvariant, ReferencesInvariant, PTL DEF Spec

-----------------------------------------------------------------------------
(* The line grabber of TextReaders.                                           *)

(* Induction, for a set and not for an operator.                              *)
LEMMA NaturalInduction ==
  ASSUME NEW S, 0 \in S, \A n \in Nat : n \in S => n + 1 \in S
  PROVE  Nat \subseteq S
<1> DEFINE T == Nat \ S
<1> SUFFICES ASSUME T # {} PROVE FALSE
  OBVIOUS
<1>1. IsWellFoundedOn(OpToRel(<, Nat), Nat)
  BY NatLessThanWellFounded
<1>2. PICK n \in T : \A m \in T : ~(<<m, n>> \in OpToRel(<, Nat))
  BY <1>1, WFMin
<1>3. n \in Nat \ {0} /\ n - 1 \in Nat /\ n - 1 < n
  OBVIOUS
<1>4. n - 1 \notin T
  BY <1>2, <1>3 DEF OpToRel
<1>. QED  BY <1>3, <1>4

(* The function that PlainPrefix chooses exists.                              *)
PlainNext(f, s, n) ==
  IF n = 0 THEN <<>> ELSE IF s[n] = CR THEN f[n - 1] ELSE Append(f[n - 1], s[n])

PlainTill(f, s, m) == f = [n \in 0..m |-> PlainNext(f, s, n)]

LEMMA PlainExists ==
  ASSUME NEW s, NEW m \in Nat PROVE \E f : PlainTill(f, s, m)
<1> USE DEF PlainNext
<1> DEFINE S == {k \in Nat : \E f : PlainTill(f, s, k)}
<1>1. 0 \in S
  <2> DEFINE f == [n \in 0..0 |-> <<>>]
  <2>1. PlainTill(f, s, 0)
    BY DEF PlainTill
  <2>. QED  BY <2>1
<1>2. ASSUME NEW k \in Nat, k \in S PROVE k + 1 \in S
  <2>1. PICK f : PlainTill(f, s, k)
    BY <1>2
  <2> DEFINE last == IF s[k + 1] = CR THEN f[k] ELSE Append(f[k], s[k + 1])
             g == [n \in 0..(k + 1) |-> IF n <= k THEN f[n] ELSE last]
  <2>2. \A n \in 0..k : g[n] = f[n] 
    OBVIOUS
  <2>3. \A n \in 0..k : f[n] = PlainNext(f, s, n)
    BY <2>1 DEF PlainTill
  <2>4. \A n \in 0..k : g[n] = PlainNext(g, s, n)
    BY <2>2, <2>3
  <2>5. g[k + 1] = PlainNext(g, s, k + 1)
    <3>1. g[k + 1] = last /\ g[k] = f[k]
      OBVIOUS
    <3>. QED BY <3>1
  <2> HIDE DEF g
  <2>6. \A n \in 0..(k + 1) : g[n] = PlainNext(g, s, n)
    <3>1. \A n \in 0..(k + 1) : n \in 0..k \/ n = k + 1
      OBVIOUS
    <3>. QED BY <2>4, <2>5, <3>1
  <2>7. PlainTill(g, s, k + 1)
    <3>1. g = [n \in 0..(k + 1) |-> g[n]]
      BY DEF g
    <3>. QED  BY <2>6, <3>1 DEF PlainTill
  <2>. QED  BY <2>7
<1> HIDE DEF S
<1>3. Nat \subseteq S
  BY <1>1, <1>2, NaturalInduction
<1>. QED  BY <1>3 DEF S


(* What PlainPrefix computes, character by character.                         *)
LEMMA PlainSteps ==
  ASSUME NEW s \in Seq(Characters)
  PROVE  /\ Len(s) \in Nat /\ Lines!PlainPrefix(s)[0] = <<>>
         /\ \A n \in 1..Len(s) :
              Lines!PlainPrefix(s)[n] =
                IF s[n] = CR THEN Lines!PlainPrefix(s)[n - 1]
                ELSE Append(Lines!PlainPrefix(s)[n - 1], s[n])
<1> DEFINE f == Lines!PlainPrefix(s)
<1>1. Len(s) \in Nat
  BY LenProperties
<1>2. PlainTill(f, s, Len(s))
  <2>1. \E g : PlainTill(g, s, Len(s))
    BY <1>1, PlainExists
  <2>. QED  BY <2>1 DEF Lines!PlainPrefix, PlainTill, PlainNext
<1> HIDE DEF f
<1>3. \A n \in 0..Len(s) :
        f[n] = PlainNext(f, s, n)
  BY <1>2 DEF PlainTill
<1>4. /\ f[0] = <<>>
      /\ \A n \in 1..Len(s) : f[n] = IF s[n] = CR THEN f[n - 1] ELSE Append(f[n - 1], s[n])
  BY <1>1, <1>3 DEF PlainNext
<1>. QED  BY <1>1, <1>4 DEF f

LEMMA PlainIsSeq ==
  ASSUME NEW s \in Seq(Characters)
  PROVE  \A n \in 0..Len(s) : Lines!PlainPrefix(s)[n] \in Seq(Characters)
<1> DEFINE S == {n \in Nat : n <= Len(s) => Lines!PlainPrefix(s)[n] \in Seq(Characters)}
<1>1. 0 \in S
  BY PlainSteps, EmptySeq
<1>2. ASSUME NEW n \in Nat, n \in S PROVE n + 1 \in S
  <2> SUFFICES ASSUME n + 1 <= Len(s) PROVE Lines!PlainPrefix(s)[n + 1] \in Seq(Characters)
    OBVIOUS
  <2>1. Len(s) \in Nat /\ n + 1 \in 1..Len(s) /\ s[n + 1] \in Characters
    BY LenProperties, ElementOfSeq
  <2>2. Lines!PlainPrefix(s)[n] \in Seq(Characters)
    BY <1>2, <2>1
  <2>3. Append(Lines!PlainPrefix(s)[n], s[n + 1]) \in Seq(Characters)
    BY <2>1, <2>2, AppendProperties
  <2>4. Lines!PlainPrefix(s)[n + 1] = IF s[n + 1] = CR THEN Lines!PlainPrefix(s)[n]
                                      ELSE Append(Lines!PlainPrefix(s)[n], s[n + 1])
    <3>1. (n + 1) - 1 = n
      OBVIOUS
    <3>. QED  BY <2>1, <3>1, PlainSteps
  <2>. QED  BY <2>2, <2>3, <2>4
<1> HIDE DEF S
<1>3. Nat \subseteq S
  BY <1>1, <1>2, NaturalInduction
<1>. QED  BY <1>3, LenProperties DEF S

LEMMA AppendToConcat ==
  ASSUME NEW a \in Seq(Characters), NEW b \in Seq(Characters), NEW c \in Characters
  PROVE  Append(a \o b, c) = a \o Append(b, c)
<1>1. a \o b \in Seq(Characters) /\ Append(b, c) \in Seq(Characters)
  BY ConcatProperties, AppendProperties
<1>2. Append(a \o b, c) \in Seq(Characters) /\ a \o Append(b, c) \in Seq(Characters)
  BY <1>1, ConcatProperties, AppendProperties
<1>3. Len(Append(a \o b, c)) = Len(a \o Append(b, c))
  BY <1>1, ConcatProperties, AppendProperties, LenProperties
<1>4. \A n \in 1..Len(Append(a \o b, c)) : Append(a \o b, c)[n] = (a \o Append(b, c))[n]
  BY <1>1, ConcatProperties, AppendProperties, LenProperties
<1>. QED  BY <1>2, <1>3, <1>4, SeqEqual

(* What is left of two texts is what is left of the one, then of the other.   *)
LEMMA PlainOfConcat ==
  ASSUME NEW s \in Seq(Characters), NEW t \in Seq(Characters)
  PROVE  /\ Lines!Plain(s \o t) = Lines!Plain(s) \o Lines!Plain(t)
         /\ Lines!Plain(s) \in Seq(Characters)
<1> DEFINE f == Lines!PlainPrefix(s)
           g == Lines!PlainPrefix(t)
           h == Lines!PlainPrefix(s \o t)
<1>1. /\ s \o t \in Seq(Characters) /\ Len(s) \in Nat /\ Len(t) \in Nat
      /\ Len(s \o t) = Len(s) + Len(t)
      /\ \A n \in 1..Len(s) : (s \o t)[n] = s[n]
      /\ \A n \in 1..Len(t) : (s \o t)[Len(s) + n] = t[n]
  BY ConcatProperties, LenProperties
<1>2. /\ f[0] = <<>> /\ g[0] = <<>> /\ h[0] = <<>>
      /\ \A n \in 1..Len(s) : f[n] = IF s[n] = CR THEN f[n - 1] ELSE Append(f[n - 1], s[n])
      /\ \A n \in 1..Len(t) : g[n] = IF t[n] = CR THEN g[n - 1] ELSE Append(g[n - 1], t[n])
      /\ \A n \in 1..(Len(s) + Len(t)) :
           h[n] = IF (s \o t)[n] = CR THEN h[n - 1] ELSE Append(h[n - 1], (s \o t)[n])
  BY <1>1, PlainSteps
<1>3. /\ \A n \in 0..Len(s) : f[n] \in Seq(Characters)
      /\ \A n \in 0..Len(t) : g[n] \in Seq(Characters)
  BY PlainIsSeq
<1>4. /\ Lines!Plain(s \o t) = h[Len(s) + Len(t)]
      /\ Lines!Plain(s) = f[Len(s)] /\ Lines!Plain(t) = g[Len(t)]
  BY <1>1 DEF Lines!Plain
<1> HIDE DEF f, g, h
<1>5. h[Len(s)] = f[Len(s)]
  <2> DEFINE S == {n \in Nat : n <= Len(s) => h[n] = f[n]}
  <2>1. 0 \in S
    BY <1>2
  <2>2. ASSUME NEW n \in Nat, n \in S PROVE n + 1 \in S
    <3> SUFFICES ASSUME n + 1 <= Len(s) PROVE h[n + 1] = f[n + 1]
      OBVIOUS
    <3>1. n + 1 \in 1..Len(s) /\ n + 1 \in 1..(Len(s) + Len(t)) /\ h[n] = f[n] /\ n + 1 - 1 = n
      BY <1>1, <2>2
    <3>. QED  BY <1>1, <1>2, <3>1
  <2> HIDE DEF S
  <2>3. Nat \subseteq S
    BY <2>1, <2>2, NaturalInduction
  <2>. QED  BY <1>1, <2>3 DEF S
<1>6. PICK m \in Nat, a \in Seq(Characters) : m = Len(s) /\ a = f[Len(s)]
  BY <1>1, <1>3
<1>7. \A n \in 1..Len(t) :
        h[m + n] = IF t[n] = CR THEN h[m + (n - 1)] ELSE Append(h[m + (n - 1)], t[n])
  <2> SUFFICES ASSUME NEW n \in 1..Len(t)
               PROVE  h[m + n] = IF t[n] = CR THEN h[m + (n - 1)] ELSE Append(h[m + (n - 1)], t[n])
    OBVIOUS
  <2>1. m + n \in 1..(Len(s) + Len(t)) /\ (m + n) - 1 = m + (n - 1)
    BY <1>1, <1>6
  <2>2. (s \o t)[m + n] = t[n]
    BY <1>1, <1>6
  <2>. QED  BY <1>2, <2>1, <2>2
<1>8. h[m + Len(t)] = a \o g[Len(t)]
  <2> DEFINE S == {n \in Nat : n <= Len(t) => h[m + n] = a \o g[n]}
  <2>1. 0 \in S
    <3>1. m + 0 = m /\ a \o g[0] = a
      BY <1>2, ConcatEmptySeq
    <3>. QED  BY <1>5, <1>6, <3>1
  <2>2. ASSUME NEW n \in Nat, n \in S PROVE n + 1 \in S
    <3>1. ASSUME n + 1 <= Len(t) PROVE h[m + (n + 1)] = a \o g[n + 1]
      <4>0. n + 1 \in 1..Len(t) /\ (n + 1) - 1 = n /\ n \in 0..Len(t) /\ n <= Len(t)
        BY <1>1, <3>1
      <4>1. /\ n + 1 \in 1..Len(t) /\ (n + 1) - 1 = n /\ h[m + n] = a \o g[n]
            /\ g[n] \in Seq(Characters) /\ t[n + 1] \in Characters
        <5>1. h[m + n] = a \o g[n]
          BY <2>2, <4>0
        <5>2. t[n + 1] \in Characters
          BY <4>0, ElementOfSeq
        <5>. QED  BY <1>3, <4>0, <5>1, <5>2
      <4>2. CASE t[n + 1] = CR
        <5>1. h[m + (n + 1)] = h[m + n] /\ g[n + 1] = g[n]
          BY <1>2, <1>7, <4>1, <4>2
        <5>. QED  BY <4>1, <5>1
      <4>3. CASE t[n + 1] # CR
        <5>1. h[m + (n + 1)] = Append(a \o g[n], t[n + 1]) /\ g[n + 1] = Append(g[n], t[n + 1])
          BY <1>2, <1>7, <4>1, <4>3
        <5>2. Append(a \o g[n], t[n + 1]) = a \o Append(g[n], t[n + 1])
          BY <4>1, AppendToConcat
        <5>. QED  BY <5>1, <5>2
      <4>. QED  BY <4>2, <4>3
    <3>. QED  BY <3>1
  <2> HIDE DEF S
  <2>3. Nat \subseteq S
    BY <2>1, <2>2, NaturalInduction
  <2>. QED  BY <1>1, <2>3 DEF S
<1>. QED  BY <1>1, <1>3, <1>4, <1>6, <1>8

LEMMA PlainOfOne ==
  ASSUME NEW c \in Characters
  PROVE  Lines!Plain(<<c>>) = IF c = CR THEN <<>> ELSE <<c>>
<1>1. <<c>> \in Seq(Characters) /\ Len(<<c>>) = 1 /\ <<c>>[1] = c
  OBVIOUS
<1>2. Lines!PlainPrefix(<<c>>)[1] = IF c = CR THEN <<>> ELSE Append(<<>>, c)
  <2>1. 1 \in 1..Len(<<c>>) /\ 1 - 1 = 0
    BY <1>1
  <2>. QED  BY <1>1, <2>1, PlainSteps
<1>. QED  BY <1>1, <1>2 DEF Lines!Plain

(* Min is what its name says.                                                 *)
LEMMA LeastOf ==
  ASSUME NEW S \in SUBSET Nat, S # {}
  PROVE  Lines!Min(S) \in S /\ \A n \in S : Lines!Min(S) <= n
<1>1. IsWellFoundedOn(OpToRel(<, Nat), Nat)
  BY NatLessThanWellFounded
<1>2. PICK l \in S : \A m \in S : ~(<<m, l>> \in OpToRel(<, Nat))
  BY <1>1, WFMin
<1>3. \A m \in S : ~(m < l)
  BY <1>2 DEF OpToRel
<1>4. l \in S /\ \A m \in S : l <= m
  BY <1>3
<1>. QED  BY <1>4 DEF Lines!Min
-----------------------------------------------------------------------------
(* The text up to the next carriage return or line feed, or the rest.         *)
LEMMA FirstOfEnds ==
  ASSUME buffer \in Seq(Characters), index \in Nat, index < Len(buffer),
         NEW end, end = Lines!FirstOf({CR, LF})
  PROVE  /\ Len(buffer) \in Nat /\ end \in (index + 1)..(Len(buffer) + 1)
         /\ \A n \in (index + 1)..(end - 1) : buffer[n] \notin {CR, LF}
         /\ end <= Len(buffer) => buffer[end] \in {CR, LF}
<1> DEFINE S == {n \in (index + 1)..Len(buffer) : buffer[n] \in {CR, LF}} \union {Len(buffer) + 1}
<1>1. Len(buffer) \in Nat
  BY LenProperties
<1>2. S \in SUBSET Nat /\ S # {}
  BY <1>1
<1>3. end = Lines!Min(S)
  BY DEF Lines!FirstOf, Lines!Size
<1>4. end \in S /\ \A n \in S : end <= n
  <2> HIDE DEF S
  <2>1. Lines!Min(S) \in S /\ \A n \in S : Lines!Min(S) <= n
    BY <1>2, LeastOf
  <2>. QED  BY <1>3, <2>1
<1>5. end \in (index + 1)..(Len(buffer) + 1)
  <2>1. S \subseteq (index + 1)..(Len(buffer) + 1)
    BY <1>1
  <2> HIDE DEF S
  <2>. QED  BY <1>4, <2>1
<1>6. ASSUME NEW n \in (index + 1)..(end - 1) PROVE buffer[n] \notin {CR, LF}
  <2>1. n \in (index + 1)..Len(buffer) /\ ~(end <= n)
    BY <1>1, <1>5
  <2>2. n \notin S
    BY <1>4, <2>1
  <2>. QED  BY <2>1, <2>2
<1>7. end <= Len(buffer) => buffer[end] \in {CR, LF}
  BY <1>1, <1>4
<1>. QED  BY <1>1, <1>5, <1>6, <1>7

(* A text without a NUL is its own C string.                                  *)
LEMMA CStringOfClean ==
  ASSUME NEW s \in Seq(Characters), \A n \in 1..Len(s) : s[n] # Nul
  PROVE  Lines!CString(s) = s
<1>1. Len(s) \in Nat
  BY LenProperties
<1> DEFINE S == {n \in 1..Len(s) : s[n] = Nul} \union {Len(s) + 1}
<1>2. S \in SUBSET Nat /\ S # {} /\ \A n \in S : n = Len(s) + 1
  BY <1>1
<1>3. Lines!Min(S) = Len(s) + 1
  <2>1. Lines!Min(S) \in S
    BY <1>2, LeastOf
  <2>. QED  BY <1>2, <2>1
<1>4. Lines!CString(s) = SubSeq(s, 1, Len(s) + 1 - 1)
  <2>1. Lines!CString(s) = SubSeq(s, 1, Lines!Min(S) - 1)
    BY DEF Lines!CString
  <2> HIDE DEF S
  <2>. QED  BY <1>3, <2>1
<1>5. Len(s) + 1 - 1 = Len(s)
  BY <1>1
<1>. QED  BY <1>4, <1>5, SubSeqFull

LEMMA CStringIsSeq ==
  ASSUME NEW s \in Seq(Characters) PROVE Lines!CString(s) \in Seq(Characters)
<1> DEFINE S == {n \in 1..Len(s) : s[n] = Nul} \union {Len(s) + 1}
<1>1. Len(s) \in Nat /\ S \in SUBSET Nat /\ S # {}
  BY LenProperties
<1>2. Lines!Min(S) \in S
  BY <1>1, LeastOf
<1>3. Lines!Min(S) - 1 \in 0..Len(s)
  BY <1>1, <1>2
<1>4. \A n \in 1..(Lines!Min(S) - 1) : s[n] \in Characters
  BY <1>1, <1>3, ElementOfSeq
<1>5. SubSeq(s, 1, Lines!Min(S) - 1) \in Seq(Characters)
  BY <1>3, <1>4, SubSeqProperties
<1>. QED  BY <1>5 DEF Lines!CString

LinesInvariant ==
  /\ buffer \in Seq(Characters) /\ text \in Seq(Characters)
  /\ index \in Nat /\ (Lines!Clean => index <= Len(buffer))
  /\ LinesAreFaithful

LEMMA LinesInvariantInit == ReadersInit => LinesInvariant
<1> SUFFICES ASSUME ReadersInit PROVE LinesInvariant
  OBVIOUS
<1>1. buffer \in Seq(Characters) /\ text = <<>> /\ index = 0
  <2>1. CASE buffer = <<>> /\ text = <<>> /\ index = 0
    BY <2>1, EmptySeq
  <2>2. CASE Lines!Init
    <3>1. PICK n \in 0..MaxSize : buffer \in [1..n -> Characters]
      BY <2>2 DEF Lines!Init
    <3>2. n \in Nat
      BY LimitAssumption
    <3>. QED  BY <2>2, <3>1, <3>2 DEF Lines!Init
  <2>. QED  BY <2>1, <2>2 DEF ReadersInit
<1>2. text \in Seq(Characters) /\ Len(buffer) \in Nat
  BY <1>1, EmptySeq, LenProperties
<1>3. SubSeq(buffer, 1, index) = <<>>
  BY <1>1, SubSeqEmpty
<1>4. Lines!Plain(text) = Lines!Plain(SubSeq(buffer, 1, index))
  BY <1>1, <1>3
<1>5. LinesAreFaithful
  BY <1>4 DEF LinesAreFaithful, Lines!LinesAreFaithful
<1>. QED  BY <1>1, <1>2, <1>5 DEF LinesInvariant

LEMMA ReturnTypes ==
  ASSUME LinesInvariant, index < Len(buffer), NEW to \in index..Len(buffer),
         NEW end \in Nat, NEW more \in Seq(Characters),
         Lines!Return(SubSeq(buffer, index + 1, to), end, more)
  PROVE  /\ buffer' = buffer /\ index' = end /\ defined
         /\ SubSeq(buffer, index + 1, to) \in Seq(Characters)
         /\ text' \in Seq(Characters)
<1>1. Len(buffer) \in Nat
  BY LenProperties DEF LinesInvariant
<1>2. \A n \in (index + 1)..to : buffer[n] \in Characters
  BY <1>1, ElementOfSeq DEF LinesInvariant
<1>3. SubSeq(buffer, index + 1, to) \in Seq(Characters)
  BY <1>1, <1>2, SubSeqProperties DEF LinesInvariant
<1>4. text \o Lines!CString(SubSeq(buffer, index + 1, to)) \o more \in Seq(Characters)
  BY <1>3, CStringIsSeq, ConcatProperties DEF LinesInvariant
<1>. QED  BY <1>3, <1>4 DEF Lines!Return, LinesInvariant

(* In a clean buffer a result adds to the text what lies between the index    *)
(* and its own end, whole.                                                    *)
LEMMA ReturnFaithful ==
  ASSUME LinesInvariant, Lines!Clean, index < Len(buffer), NEW to \in index..Len(buffer),
         NEW end \in Nat, NEW more \in Seq(Characters),
         Lines!Return(SubSeq(buffer, index + 1, to), end, more), defined'
  PROVE  Lines!Plain(text') = Lines!Plain(SubSeq(buffer, 1, to)) \o Lines!Plain(more)
<1> DEFINE line == SubSeq(buffer, index + 1, to)
           before == SubSeq(buffer, 1, index)
<1>1. Len(buffer) \in Nat /\ index \in Nat /\ buffer \in Seq(Characters) /\ defined
  BY LenProperties DEF LinesInvariant, Lines!Return
<1>2. /\ line \in Seq(Characters) /\ text \in Seq(Characters)
      /\ before \in Seq(Characters)
  <2>1. \A n \in 1..index : buffer[n] \in Characters
    BY <1>1, ElementOfSeq
  <2>. QED  BY <1>1, <2>1, ReturnTypes, SubSeqProperties DEF LinesInvariant
<1>3. Lines!CString(line) = line
  <2>1. \A n \in 1..Len(line) : line[n] # Nul
    <3>1. \A n \in (index + 1)..to : buffer[n] \in Characters
      BY <1>1, ElementOfSeq
    <3>2. /\ Len(line) = IF index + 1 <= to THEN to - (index + 1) + 1 ELSE 0
          /\ \A n \in 1..(to - (index + 1) + 1) : line[n] = buffer[index + 1 + n - 1]
      BY <1>1, <3>1, SubSeqProperties
    <3>3. \A n \in 1..Len(line) : line[n] = buffer[index + n] /\ index + n \in 1..Len(buffer)
      BY <1>1, <3>2
    <3>. QED  BY <3>3 DEF Lines!Clean, Lines!Size
  <2>. QED  BY <1>2, <2>1, CStringOfClean
<1>4. text' = text \o line \o more
  BY <1>3 DEF Lines!Return
<1>5. before \o line = SubSeq(buffer, 1, to)
  <2>1. 1 \in 1..(Len(buffer) + 1) /\ index \in (1 - 1)..Len(buffer)
    BY <1>1
  <2>. QED  BY <1>1, <2>1, ConcatAdjacentSubSeq
<1>6. Lines!Plain(text) = Lines!Plain(before)
  BY <1>1 DEF LinesInvariant, LinesAreFaithful, Lines!LinesAreFaithful, Lines!IsEof, Lines!Size
<1> HIDE DEF line, before
<1>7. Lines!Plain(text') = Lines!Plain(text \o line) \o Lines!Plain(more)
  BY <1>2, <1>4, ConcatProperties, PlainOfConcat
<1>8. /\ Lines!Plain(text \o line) = Lines!Plain(text) \o Lines!Plain(line)
      /\ Lines!Plain(before \o line) = Lines!Plain(before) \o Lines!Plain(line)
  BY <1>2, PlainOfConcat
<1>. QED  BY <1>5, <1>6, <1>7, <1>8

(* A line that ends with CR LF, with LF, or with the buffer.                  *)
LEMMA NextLineStep ==
  ASSUME LinesInvariant, Lines!GetNextLine PROVE LinesInvariant'
<1> DEFINE end == Lines!FirstOf({CR, LF})
           to == end - 1
           stop == IF end > Len(buffer) THEN Len(buffer)
                   ELSE IF buffer[end] = CR THEN end + 1 ELSE end
<1>1. /\ Len(buffer) \in Nat /\ index \in Nat /\ index < Len(buffer) /\ buffer \in Seq(Characters)
      /\ Lines!Return(SubSeq(buffer, index + 1, to), stop, <<LF>>)
  BY LenProperties DEF LinesInvariant, Lines!GetNextLine, Lines!IsEof, Lines!Size
<1>2. /\ end \in (index + 1)..(Len(buffer) + 1)
      /\ end <= Len(buffer) => buffer[end] \in {CR, LF}
  BY <1>1, FirstOfEnds
<1> HIDE DEF end
<1>3. to \in index..Len(buffer) /\ stop \in Nat
  BY <1>1, <1>2
<1>4. <<LF>> \in Seq(Characters) /\ LF # CR
  BY LimitAssumption DEF LF, CR
<1>5. buffer' = buffer /\ index' = stop /\ text' \in Seq(Characters)
  BY <1>1, <1>3, <1>4, ReturnTypes
<1>6. ASSUME Lines!Clean PROVE stop <= Len(buffer)
  BY <1>1, <1>2, <1>6 DEF Lines!Clean, Lines!Size
<1>7. ASSUME Lines!Clean, defined'
      PROVE  LinesAreFaithful'
  <2> DEFINE upto == SubSeq(buffer, 1, to)
  <2>1. Lines!Plain(text') = Lines!Plain(upto) \o <<LF>>
    <3>1. Lines!Plain(<<LF>>) = <<LF>>
      BY <1>4, LimitAssumption, PlainOfOne
    <3>. QED  BY <1>1, <1>3, <1>4, <1>7, <3>1, ReturnFaithful
  <2>2. upto \in Seq(Characters)
    <3>1. \A n \in 1..to : buffer[n] \in Characters
      BY <1>1, <1>3, ElementOfSeq
    <3>. QED  BY <1>1, <1>3, <3>1, SubSeqProperties
  <2>3. CASE end > Len(buffer)
    <3>1. to = Len(buffer) /\ stop = Len(buffer)
      BY <1>1, <1>2, <2>3
    <3>2. Lines!Plain(text') = Append(Lines!Plain(SubSeq(buffer, 1, stop)), LF)
      BY <1>4, <2>1, <2>2, <3>1, LimitAssumption, PlainOfConcat, AppendIsConcat
    <3>. QED
      BY <1>1, <1>5, <3>1, <3>2 
         DEF LinesAreFaithful, Lines!LinesAreFaithful, Lines!IsEof, Lines!Size
  <2>4. CASE end <= Len(buffer) /\ buffer[end] # CR
    <3>1. buffer[end] = LF /\ stop = end /\ end \in 1..Len(buffer)
      BY <1>1, <1>2, <2>4
    <3>2. SubSeq(buffer, 1, stop) = upto \o <<LF>>
      BY <1>1, <3>1, SubSeqRecursiveSecond
    <3>3. Lines!Plain(SubSeq(buffer, 1, stop)) = Lines!Plain(upto) \o <<LF>>
      BY <1>4, <2>2, <3>2, LimitAssumption, PlainOfConcat, PlainOfOne
    <3>. QED  BY <1>5, <2>1, <3>3 DEF LinesAreFaithful, Lines!LinesAreFaithful
  <2>5. CASE end <= Len(buffer) /\ buffer[end] = CR
    <3>1. stop = end + 1 /\ end \in 1..Len(buffer)
      BY <1>1, <1>2, <2>5
    <3>2. end + 1 \in 1..Len(buffer) /\ buffer[end + 1] = LF
      BY <1>1, <1>7, <2>5, <3>1 DEF Lines!Clean, Lines!Size
    <3>3. SubSeq(buffer, 1, end) = upto \o <<CR>>
      BY <1>1, <2>5, <3>1, SubSeqRecursiveSecond
    <3>4. SubSeq(buffer, 1, end + 1) = SubSeq(buffer, 1, end) \o <<LF>>
      <4>1. (end + 1) - 1 = end /\ 1 \in Int /\ end + 1 \in Int /\ 1 <= end + 1
        BY <1>1, <3>1
      <4>2. SubSeq(buffer, 1, end + 1) = SubSeq(buffer, 1, (end + 1) - 1) \o <<buffer[end + 1]>>
        <5>1. 1 \in 1..Len(buffer) /\ end + 1 \in 1..Len(buffer)
          BY <1>1, <3>2
        <5>. QED  BY <1>1, <5>1, SubSeqRecursiveSecond
      <4>. QED  BY <3>2, <4>1, <4>2
    <3>5. <<CR>> \in Seq(Characters) /\ Lines!Plain(<<CR>>) = <<>> /\ Lines!Plain(<<LF>>) = <<LF>>
      BY <1>4, LimitAssumption, PlainOfOne
    <3>6. Lines!Plain(SubSeq(buffer, 1, end)) = Lines!Plain(upto)
      <4>1. Lines!Plain(upto \o <<CR>>) = Lines!Plain(upto) \o <<>>
        BY <2>2, <3>5, PlainOfConcat
      <4>2. Lines!Plain(upto) \o <<>> = Lines!Plain(upto)
        BY <2>2, PlainOfConcat, ConcatEmptySeq
      <4>. QED  BY <3>3, <4>1, <4>2
    <3>7. Lines!Plain(SubSeq(buffer, 1, stop)) = Lines!Plain(upto) \o <<LF>>
      <4>1. SubSeq(buffer, 1, end) \in Seq(Characters)
        BY <2>2, <3>3, <3>5, ConcatProperties
      <4>2. Lines!Plain(SubSeq(buffer, 1, end) \o <<LF>>)
              = Lines!Plain(SubSeq(buffer, 1, end)) \o <<LF>>
        BY <1>4, <3>5, <4>1, PlainOfConcat
      <4>. QED  BY <3>1, <3>4, <3>6, <4>2
    <3>. QED  BY <1>5, <2>1, <3>7 DEF LinesAreFaithful, Lines!LinesAreFaithful
  <2>. QED  BY <1>1, <1>2, <2>3, <2>4, <2>5
<1>8. Lines!Clean' <=> Lines!Clean
  BY <1>5 DEF Lines!Clean, Lines!Size
<1>9. LinesAreFaithful'
  BY <1>7, <1>8 DEF LinesAreFaithful, Lines!LinesAreFaithful
<1>. QED  BY <1>1, <1>3, <1>5, <1>6, <1>8, <1>9 DEF LinesInvariant

LEMMA ContentStep ==
  ASSUME LinesInvariant, Lines!GetContentTillEof PROVE LinesInvariant'
<1>1. /\ Len(buffer) \in Nat /\ index \in Nat /\ index < Len(buffer) /\ buffer \in Seq(Characters)
      /\ Lines!Return(SubSeq(buffer, index + 1, Len(buffer)), Len(buffer), <<>>)
  BY LenProperties DEF LinesInvariant, Lines!GetContentTillEof, Lines!IsEof, Lines!Size
<1>2. <<>> \in Seq(Characters) /\ Len(<<>>) = 0
  BY EmptySeq
<1>3. Len(buffer) \in index..Len(buffer)
  BY <1>1
<1>4. buffer' = buffer /\ index' = Len(buffer) /\ text' \in Seq(Characters)
  BY <1>1, <1>2, <1>3, ReturnTypes
<1>5. ASSUME Lines!Clean, defined' PROVE LinesAreFaithful'
  <2>1. Lines!Plain(<<>>) = <<>>
    BY <1>2, PlainSteps DEF Lines!Plain
  <2>2. Lines!Plain(text') = Lines!Plain(SubSeq(buffer, 1, Len(buffer))) \o <<>>
    BY <1>1, <1>2, <1>3, <1>5, <2>1, ReturnFaithful
  <2>3. Lines!Plain(SubSeq(buffer, 1, Len(buffer))) \in Seq(Characters)
    BY <1>1, <1>2, PlainOfConcat, SubSeqFull
  <2>. QED
    BY <1>4, <2>2, <2>3, ConcatEmptySeq DEF LinesAreFaithful, Lines!LinesAreFaithful
<1>6. Lines!Clean' <=> Lines!Clean
  BY <1>4 DEF Lines!Clean, Lines!Size
<1>7. LinesAreFaithful'
  BY <1>5, <1>6 DEF LinesAreFaithful, Lines!LinesAreFaithful
<1>. QED  BY <1>1, <1>4, <1>7 DEF LinesInvariant

(* In a buffer whose line ends are CR LF or LF, and without a NUL, nothing is *)
(* lost, split or read twice, whatever it contains and in whatever order its  *)
(* lines and the rest are asked for, as long as no text fills the array.      *)
THEOREM NothingIsLost == ReadersSpec => []LinesAreFaithful
<1>1. LinesInvariant /\ [ReadersNext]_<<reader, messageVars, lineVars>> => LinesInvariant'
  <2> SUFFICES ASSUME LinesInvariant, [ReadersNext]_<<reader, messageVars, lineVars>>
               PROVE  LinesInvariant'
    OBVIOUS
  <2>1. CASE UNCHANGED lineVars
    BY <2>1 DEF lineVars, LinesInvariant, LinesAreFaithful, Lines!LinesAreFaithful,
       Lines!Clean, Lines!IsEof, Lines!Size
  <2>2. CASE Lines!Step
    BY <2>2, NextLineStep, ContentStep DEF Lines!Step
  <2>. QED  BY <2>1, <2>2 DEF ReadersNext
<1>2. LinesInvariant => LinesAreFaithful
  BY DEF LinesInvariant
<1>. QED  BY <1>1, <1>2, LinesInvariantInit, PTL DEF ReadersSpec

-----------------------------------------------------------------------------
(* HTTP messages: operators on sequences.                                     *)

(* Min and Max are what their names say.                                      *)
LEMMA MinOf ==
  ASSUME NEW S \in SUBSET Nat, S # {}
  PROVE  Min(S) \in S /\ \A n \in S : Min(S) <= n
<1>1. IsWellFoundedOn(OpToRel(<, Nat), Nat)
  BY NatLessThanWellFounded
<1>2. PICK l \in S : \A m \in S : ~(<<m, l>> \in OpToRel(<, Nat))
  BY <1>1, WFMin
<1>3. \A m \in S : ~(m < l)
  BY <1>2 DEF OpToRel
<1>4. \A m \in S : l <= m
  BY <1>3
<1>. QED  BY <1>4 DEF Min

LEMMA MaxOf ==
  ASSUME NEW b \in Nat, NEW S \in SUBSET (0..b), S # {}
  PROVE  Max(S) \in S /\ \A n \in S : n <= Max(S)
<1> DEFINE T == {k \in Nat : b - k \in S}
<1>1. T \in SUBSET Nat /\ T # {}
  <2>1. PICK s \in S : TRUE
    OBVIOUS
  <2>2. b - s \in Nat /\ b - (b - s) = s
    BY <2>1
  <2>. QED  BY <2>1, <2>2
<1>2. PICK l \in T : \A m \in T : l <= m
  <2> HIDE DEF T
  <2>. QED  BY <1>1, MinOf
<1>3. b - l \in S /\ \A n \in S : n <= b - l
  <2>1. \A n \in S : b - n \in Nat /\ b - (b - n) = n
    OBVIOUS
  <2>2. \A n \in S : b - n \in T
    BY <2>1
  <2>. QED  BY <1>2, <2>2
<1>. QED  BY <1>3 DEF Max

(* A recursive function over 0..m that stays in a set exists.                 *)
Recurs(f, base, G, m) == f[0] = base /\ \A n \in 1..m : f[n] = G[n][f[n - 1]]

LEMMA RecursionExists ==
  ASSUME NEW X, NEW base \in X, NEW m \in Nat, NEW G \in [1..m -> [X -> X]]
  PROVE  \E f \in [0..m -> X] : Recurs(f, base, G, m)
<1> USE DEF Recurs
<1> DEFINE Till(k, f) == f \in [0..k -> X] /\ f[0] = base /\ \A n \in 1..k : f[n] = G[n][f[n - 1]]
           S == {k \in Nat : k <= m => \E f : Till(k, f)}
<1>1. 0 \in S
  <2>1. Till(0, [n \in 0..0 |-> base])
    OBVIOUS
  <2>. QED  BY <2>1
<1>2. ASSUME NEW k \in Nat, k \in S PROVE k + 1 \in S
  <2> SUFFICES ASSUME k + 1 <= m PROVE \E f : Till(k + 1, f)
    OBVIOUS
  <2>1. PICK f : Till(k, f)
    BY <1>2
  <2>2. k + 1 \in 1..m /\ f[k] \in X /\ G[k + 1] \in [X -> X]
    BY <2>1
  <2>3. PICK v \in X : v = G[k + 1][f[k]]
    BY <2>2
  <2> DEFINE g == [n \in 0..(k + 1) |-> IF n = k + 1 THEN v ELSE f[n]]
  <2>4. g \in [0..(k + 1) -> X] /\ g[0] = base
    <3>1. \A n \in 0..(k + 1) : n # k + 1 => n \in 0..k
      OBVIOUS
    <3>2. \A n \in 0..(k + 1) : g[n] \in X
      BY <2>1, <3>1
    <3>. QED  BY <2>1, <3>2
  <2>5. ASSUME NEW n \in 1..(k + 1) PROVE g[n] = G[n][g[n - 1]]
    <3>1. CASE n = k + 1
      <4>1. n - 1 = k /\ k # k + 1 /\ k \in 0..(k + 1)
        BY <3>1
      <4>. QED  BY <2>3, <3>1, <4>1
    <3>2. CASE n # k + 1
      <4>1. n \in 1..k /\ n - 1 \in 0..(k + 1) /\ n - 1 # k + 1 /\ n \in 0..(k + 1)
        BY <3>2
      <4>. QED  BY <2>1, <3>2, <4>1
    <3>. QED  BY <3>1, <3>2
  <2> HIDE DEF g
  <2>. QED  BY <2>4, <2>5
<1> HIDE DEF S
<1>3. Nat \subseteq S
  BY <1>1, <1>2, NaturalInduction
<1>. QED  BY <1>3 DEF S

(* Sequences of characters.                                                   *)
Texts == Seq(Chars)

(* Before is a strict total order, as the operator< of strings.               *)
LEMMA BeforeIsOrder ==
  /\ \A s \in Texts : ~Before(s, s)
  /\ \A s, t, u \in Texts : Before(s, t) /\ Before(t, u) => Before(s, u)
  /\ \A s, t \in Texts : s = t \/ Before(s, t) \/ Before(t, s)
<1>0. \A s \in Texts : Len(s) \in Nat /\ \A n \in 1..Len(s) : s[n] \in Chars /\ Rank[s[n]] \in Nat
  BY LenProperties, ElementOfSeq, HttpAssumption DEF Texts, Chars
<1>1. ASSUME NEW s \in Texts PROVE ~Before(s, s)
  BY <1>0 DEF Before
<1>2. ASSUME NEW s \in Texts, NEW t \in Texts, NEW u \in Texts, Before(s, t), Before(t, u)
      PROVE  Before(s, u)
  <2>1. PICK m \in 1..Len(t) : /\ m <= Len(s) + 1 /\ \A i \in 1..(m - 1) : s[i] = t[i]
                               /\ m <= Len(s) => Rank[s[m]] < Rank[t[m]]
    BY <1>2 DEF Before
  <2>2. PICK n \in 1..Len(u) : /\ n <= Len(t) + 1 /\ \A i \in 1..(n - 1) : t[i] = u[i]
                               /\ n <= Len(t) => Rank[t[n]] < Rank[u[n]]
    BY <1>2 DEF Before
  <2>3. CASE m < n
    <3>1. m \in 1..Len(u) /\ m \in 1..(n - 1) /\ \A i \in 1..(m - 1) : i \in 1..(n - 1)
      BY <1>0, <2>3
    <3>2. t[m] = u[m] /\ \A i \in 1..(m - 1) : s[i] = u[i]
      BY <2>1, <2>2, <3>1
    <3>. QED  BY <2>1, <3>1, <3>2 DEF Before
  <2>4. CASE m >= n
    <3>1. n <= Len(t) /\ n <= Len(s) + 1 /\ \A i \in 1..(n - 1) : i \in 1..(m - 1)
      BY <1>0, <2>1, <2>2, <2>4
    <3>2. \A i \in 1..(n - 1) : s[i] = u[i]
      BY <2>1, <2>2, <3>1
    <3>3. n <= Len(s) => Rank[s[n]] < Rank[u[n]]
      <4> SUFFICES ASSUME n <= Len(s) PROVE Rank[s[n]] < Rank[u[n]]
        OBVIOUS
      <4>1. Rank[s[n]] \in Nat /\ Rank[t[n]] \in Nat /\ Rank[u[n]] \in Nat
        BY <1>0, <3>1
      <4>2. m = n \/ n \in 1..(m - 1)
        BY <1>0, <2>4
      <4>3. Rank[s[n]] <= Rank[t[n]]
        BY <2>1, <4>1, <4>2
      <4>4. Rank[t[n]] < Rank[u[n]]
        BY <2>2, <3>1
      <4> DEFINE x == Rank[s[n]]
                 y == Rank[t[n]]
                 z == Rank[u[n]]
      <4>5. x \in Nat /\ y \in Nat /\ z \in Nat /\ x <= y /\ y < z
        BY <4>1, <4>3, <4>4
      <4> HIDE DEF x, y, z
      <4>6. x < z
        BY <4>5
      <4>. QED  BY <4>6 DEF x, z
    <3>. QED  BY <3>1, <3>2, <3>3 DEF Before
  <2>. QED  BY <1>0, <2>3, <2>4
<1>3. ASSUME NEW s \in Texts, NEW t \in Texts, s # t PROVE Before(s, t) \/ Before(t, s)
  <2> DEFINE D == {n \in Nat \ {0} : \/ n = Len(s) + 1 \/ n = Len(t) + 1
                                     \/ n <= Len(s) /\ n <= Len(t) /\ s[n] # t[n]}
  <2>1. D \in SUBSET Nat /\ Len(s) + 1 \in D /\ Len(t) + 1 \in D
    BY <1>0
  <2>2. Min(D) \in D /\ \A i \in D : Min(D) <= i
    BY <2>1, MinOf
  <2>3. PICK n \in Nat \ {0} : n = Min(D)
    BY <2>2
  <2>4. n <= Len(s) + 1 /\ n <= Len(t) + 1
    BY <2>1, <2>2, <2>3
  <2>5. \A i \in 1..(n - 1) : s[i] = t[i]
    <3> SUFFICES ASSUME NEW i \in 1..(n - 1), s[i] # t[i] PROVE FALSE
      OBVIOUS
    <3>1. i \in D /\ ~(n <= i)
      BY <1>0, <2>4
    <3>. QED  BY <2>2, <2>3, <3>1
  <2>6. CASE n <= Len(s) /\ n <= Len(t)
    <3>1. s[n] # t[n] /\ s[n] \in Chars /\ t[n] \in Chars
      BY <1>0, <2>2, <2>3, <2>6
    <3>2. Rank[s[n]] # Rank[t[n]] /\ Rank[s[n]] \in Nat /\ Rank[t[n]] \in Nat
      BY <3>1, HttpAssumption DEF Chars
    <3>3. CASE Rank[s[n]] < Rank[t[n]]
      BY <1>0, <2>4, <2>5, <2>6, <3>3 DEF Before
    <3>4. CASE Rank[t[n]] < Rank[s[n]]
      BY <1>0, <2>4, <2>5, <2>6, <3>4 DEF Before
    <3>. QED  BY <3>2, <3>3, <3>4
  <2>7. CASE n > Len(s) /\ n <= Len(t)
    BY <1>0, <2>4, <2>5, <2>7 DEF Before
  <2>8. CASE n <= Len(s) /\ n > Len(t)
    BY <1>0, <2>4, <2>5, <2>8 DEF Before
  <2>9. CASE n > Len(s) /\ n > Len(t)
    <3>1. Len(s) = Len(t) /\ n - 1 = Len(s)
      BY <1>0, <2>4, <2>9
    <3>. QED  BY <1>3, <2>5, <3>1, SeqEqual DEF Texts
  <2>. QED  BY <1>0, <2>6, <2>7, <2>8, <2>9
<1>. QED  BY <1>1, <1>2, <1>3

(* In a finite set with a strict total order R, as many elements precede the  *)
(* k-th as k - 1.                                                             *)
Below(S, R, x) == {y \in S : <<y, x>> \in R}

IsOrder(R, S) ==
  /\ \A x \in S : <<x, x>> \notin R
  /\ \A x, y, z \in S : <<x, y>> \in R /\ <<y, z>> \in R => <<x, z>> \in R
  /\ \A x, y \in S : x = y \/ <<x, y>> \in R \/ <<y, x>> \in R

LEMMA Positions ==
  ASSUME NEW S, IsFiniteSet(S), NEW R, IsOrder(R, S)
  PROVE  \E pos \in [S -> 0..(Cardinality(S) - 1)] :
           /\ \A x \in S : pos[x] = Cardinality(Below(S, R, x))
           /\ \A x, y \in S : pos[x] < pos[y] <=> <<x, y>> \in R
           /\ \A k \in 1..Cardinality(S) : \E x \in S : pos[x] = k - 1
<1> USE DEF IsOrder
<1> DEFINE below(x) == Below(S, R, x)
           pos == [x \in S |-> Cardinality(below(x))]
           n == Cardinality(S)
<1>1. n \in Nat
  BY FS_CardinalityType
<1>2. ASSUME NEW x \in S PROVE IsFiniteSet(below(x)) /\ pos[x] \in 0..(n - 1)
  <2>1. below(x) \in SUBSET S /\ below(x) # S
    BY DEF Below
  <2> HIDE DEF below
  <2>2. IsFiniteSet(below(x)) /\ Cardinality(below(x)) <= n /\ Cardinality(below(x)) # n
    BY <2>1, FS_Subset
  <2>3. Cardinality(below(x)) \in Nat
    BY <2>2, FS_CardinalityType
  <2>. QED  BY <1>1, <2>2, <2>3
<1>3. ASSUME NEW x \in S, NEW y \in S, <<x, y>> \in R PROVE pos[x] < pos[y]
  <2>1. below(x) \in SUBSET below(y) /\ x \in below(y) /\ x \notin below(x)
    BY <1>3 DEF Below
  <2>3. pos[x] = Cardinality(below(x)) /\ pos[y] = Cardinality(below(y))
    OBVIOUS
  <2> HIDE DEF below, pos
  <2>2. pos[x] \in Nat /\ pos[y] \in Nat /\ IsFiniteSet(below(y))
    <3>1. IsFiniteSet(below(y)) /\ pos[x] \in 0..(n - 1) /\ pos[y] \in 0..(n - 1)
      BY <1>2
    <3>. QED  BY <1>1, <3>1
  <2>4. Cardinality(below(x)) <= Cardinality(below(y)) /\ Cardinality(below(x)) # Cardinality(below(y))
    BY <2>1, <2>2, FS_Subset
  <2>. QED  BY <2>2, <2>3, <2>4
<1>4. \A x \in S : pos[x] = Cardinality(Below(S, R, x))
  OBVIOUS
<1>5. pos \in [S -> 0..(n - 1)]
  BY <1>2
<1> HIDE DEF pos
<1>6. \A x, y \in S : pos[x] \in Int /\ (pos[x] < pos[y] <=> <<x, y>> \in R)
  <2>1. \A x \in S : pos[x] \in Int
    BY <1>1, <1>5
  <2>2. \A x, y \in S : <<x, y>> \in R => pos[x] < pos[y]
    BY <1>3
  <2>3. \A x, y \in S : pos[x] < pos[y] => x # y /\ ~(pos[y] < pos[x])
    BY <2>1
  <2>. QED  BY <2>1, <2>2, <2>3
<1>7. \A x, y \in S : pos[x] = pos[y] => x = y
  BY <1>6
<1>8. pos \in Injection(S, 0..(n - 1))
  BY <1>5, <1>7 DEF Injection, IsInjective
<1>9. IsFiniteSet(0..(n - 1)) /\ Cardinality(0..(n - 1)) = n
  <2>1. 0 \in Int /\ n - 1 \in Int
    BY <1>1
  <2>2. /\ IsFiniteSet(0..(n - 1))
        /\ Cardinality(0..(n - 1)) = IF 0 > n - 1 THEN 0 ELSE (n - 1) - 0 + 1
    BY <2>1, FS_Interval
  <2>. QED  BY <1>1, <2>2
<1>10. pos \in Surjection(S, 0..(n - 1))
  BY <1>8, <1>9, FS_Injection
<1>11. \A k \in 1..n : \E x \in S : pos[x] = k - 1
  <2>1. \A k \in 1..n : k - 1 \in 0..(n - 1)
    BY <1>1
  <2>. QED  BY <1>10, <2>1 DEF Surjection
<1>. QED  BY <1>4, <1>5, <1>6, <1>11

(* What Sorted makes of a set of keys, and of a set of numbers.               *)
Enumerates(q, S) ==
  /\ q \in Seq(S) /\ Len(q) = Cardinality(S) /\ Len(q) \in Nat /\ \A i \in 1..Len(q) : q[i] \in S
  /\ \A x \in S : \E i \in 1..Len(q) : q[i] = x

IsRanked(q, S, R) ==
  /\ q \in [1..Cardinality(S) -> S]
  /\ \A k \in 1..Cardinality(S) : Cardinality(Below(S, R, q[k])) = k - 1

LEMMA Ranked ==
  ASSUME NEW S, IsFiniteSet(S), NEW R, IsOrder(R, S), NEW q, IsRanked(q, S, R)
  PROVE  Enumerates(q, S) /\ \A i, j \in 1..Len(q) : i < j <=> <<q[i], q[j]>> \in R
<1> DEFINE n == Cardinality(S)
<1>1. PICK pos \in [S -> 0..(n - 1)] :
        /\ \A x \in S : pos[x] = Cardinality(Below(S, R, x))
        /\ \A x, y \in S : pos[x] < pos[y] <=> <<x, y>> \in R
        /\ \A k \in 1..n : \E x \in S : pos[x] = k - 1
  BY Positions
<1> USE DEF IsOrder, IsRanked
<1>2. n \in Nat /\ q \in Seq(S) /\ Len(q) = n
  BY FS_CardinalityType
<1>3. \A k \in 1..n : q[k] \in S /\ pos[q[k]] = k - 1
  BY <1>1
<1>4. ASSUME NEW x \in S PROVE \E i \in 1..n : q[i] = x
  <2>1. pos[x] \in 0..(n - 1) /\ pos[x] + 1 \in 1..n /\ (pos[x] + 1) - 1 = pos[x]
    BY <1>1, <1>2
  <2>2. pos[q[pos[x] + 1]] = pos[x] /\ q[pos[x] + 1] \in S
    BY <1>3, <2>1
  <2>3. ~(pos[x] < pos[q[pos[x] + 1]]) /\ ~(pos[q[pos[x] + 1]] < pos[x])
    BY <1>2, <2>1, <2>2
  <2>4. q[pos[x] + 1] = x
    BY <1>1, <2>2, <2>3
  <2>. QED  BY <2>1, <2>4
<1>5. \A i, j \in 1..n : i < j <=> <<q[i], q[j]>> \in R
  <2>1. \A i, j \in 1..n : i < j <=> pos[q[i]] < pos[q[j]]
    BY <1>2, <1>3
  <2>. QED  BY <1>1, <1>3, <2>1
<1>. QED  BY <1>2, <1>3, <1>4, <1>5 DEF Enumerates

LEMMA SortedKeys ==
  ASSUME NEW S \in SUBSET Texts, IsFiniteSet(S), NEW q, q = Sorted(S, Before)
  PROVE  Enumerates(q, S) /\ \A i, j \in 1..Len(q) : i < j <=> Before(q[i], q[j])
<1> DEFINE R == {p \in S \X S : Before(p[1], p[2])}
           n == Cardinality(S)
<1>1. \A x, y \in S : <<x, y>> \in R <=> Before(x, y)
  OBVIOUS
<1> HIDE DEF R
<1>2. /\ \A x \in S : <<x, x>> \notin R
      /\ \A x, y, z \in S : <<x, y>> \in R /\ <<y, z>> \in R => <<x, z>> \in R
      /\ \A x, y \in S : x = y \/ <<x, y>> \in R \/ <<y, x>> \in R
  BY <1>1, BeforeIsOrder
<1>3. \A k \in 1..n : \E x \in S : Cardinality(Below(S, R, x)) = k - 1
  <2>1. \E pos \in [S -> 0..(Cardinality(S) - 1)] :
           /\ \A x \in S : pos[x] = Cardinality(Below(S, R, x))
           /\ \A x, y \in S : pos[x] < pos[y] <=> <<x, y>> \in R
           /\ \A k \in 1..Cardinality(S) : \E x \in S : pos[x] = k - 1
    <3>1. IsOrder(R, S)
      BY <1>2 DEF IsOrder
    <3>. QED  BY <3>1, Positions
  <2>. QED  BY <2>1
<1>4. \A x \in S : {y \in S : Before(y, x)} = Below(S, R, x)
  BY <1>1 DEF Below
<1> DEFINE at(k) == CHOOSE x \in S : Cardinality({y \in S : Before(y, x)}) = k - 1
<1>5. ASSUME NEW k \in 1..n PROVE at(k) \in S /\ Cardinality(Below(S, R, at(k))) = k - 1
  <2>1. \E x \in S : Cardinality({y \in S : Before(y, x)}) = k - 1
    BY <1>3, <1>4
  <2>2. at(k) \in S /\ Cardinality({y \in S : Before(y, at(k))}) = k - 1
    BY <2>1
  <2>. QED  BY <1>4, <2>2
<1>6. q = [k \in 1..n |-> at(k)]
  BY DEF Sorted
<1> HIDE DEF at
<1>7. q \in [1..Cardinality(S) -> S] /\ \A k \in 1..n : Cardinality(Below(S, R, q[k])) = k - 1
  <2>1. \A k \in 1..n : at(k) \in S /\ Cardinality(Below(S, R, at(k))) = k - 1
    BY <1>5
  <2>. QED  BY <1>6, <2>1
<1>8. Enumerates(q, S) /\ \A i, j \in 1..Len(q) : i < j <=> <<q[i], q[j]>> \in R
  <2>1. IsOrder(R, S) /\ IsRanked(q, S, R)
    BY <1>2, <1>7 DEF IsOrder, IsRanked
  <2>. QED  BY <2>1, Ranked
<1>. QED  BY <1>1, <1>8 DEF Enumerates

LEMMA SortedNumbers ==
  ASSUME NEW S \in SUBSET Nat, IsFiniteSet(S), NEW q, q = Sorted(S, Less)
  PROVE  Enumerates(q, S) /\ \A i, j \in 1..Len(q) : i < j <=> q[i] < q[j]
<1> DEFINE R == {p \in S \X S : p[1] < p[2]}
           n == Cardinality(S)
<1>1. \A x, y \in S : <<x, y>> \in R <=> x < y
  OBVIOUS
<1> HIDE DEF R
<1>2. /\ \A x \in S : <<x, x>> \notin R
      /\ \A x, y, z \in S : <<x, y>> \in R /\ <<y, z>> \in R => <<x, z>> \in R
      /\ \A x, y \in S : x = y \/ <<x, y>> \in R \/ <<y, x>> \in R
  <2>1. \A x \in S : x \in Nat
    OBVIOUS
  <2>2. \A x \in S : <<x, x>> \notin R
    BY <1>1, <2>1
  <2>3. \A x, y, z \in S : <<x, y>> \in R /\ <<y, z>> \in R => <<x, z>> \in R
    <3>1. \A x, y, z \in S : x < y /\ y < z => x < z
      BY <2>1
    <3>. QED  BY <1>1, <3>1
  <2>4. \A x, y \in S : x = y \/ <<x, y>> \in R \/ <<y, x>> \in R
    <3>1. \A x, y \in S : x = y \/ x < y \/ y < x
      BY <2>1
    <3>. QED  BY <1>1, <3>1
  <2>. QED  BY <2>2, <2>3, <2>4
<1>3. \A k \in 1..n : \E x \in S : Cardinality(Below(S, R, x)) = k - 1
  <2>1. \E pos \in [S -> 0..(Cardinality(S) - 1)] :
           /\ \A x \in S : pos[x] = Cardinality(Below(S, R, x))
           /\ \A x, y \in S : pos[x] < pos[y] <=> <<x, y>> \in R
           /\ \A k \in 1..Cardinality(S) : \E x \in S : pos[x] = k - 1
    <3>1. IsOrder(R, S)
      BY <1>2 DEF IsOrder
    <3>. QED  BY <3>1, Positions
  <2>. QED  BY <2>1
<1>4. \A x \in S : {y \in S : y < x} = Below(S, R, x)
  BY <1>1 DEF Below
<1> DEFINE at(k) == CHOOSE x \in S : Cardinality({y \in S : y < x}) = k - 1
<1>5. ASSUME NEW k \in 1..n PROVE at(k) \in S /\ Cardinality(Below(S, R, at(k))) = k - 1
  <2>1. \E x \in S : Cardinality({y \in S : y < x}) = k - 1
    BY <1>3, <1>4
  <2>2. at(k) \in S /\ Cardinality({y \in S : y < at(k)}) = k - 1
    BY <2>1
  <2>. QED  BY <1>4, <2>2
<1>6. q = [k \in 1..n |-> at(k)]
  BY DEF Sorted, Less
<1> HIDE DEF at
<1>7. q \in [1..Cardinality(S) -> S] /\ \A k \in 1..n : Cardinality(Below(S, R, q[k])) = k - 1
  <2>1. \A k \in 1..n : at(k) \in S /\ Cardinality(Below(S, R, at(k))) = k - 1
    BY <1>5
  <2>. QED  BY <1>6, <2>1
<1>8. Enumerates(q, S) /\ \A i, j \in 1..Len(q) : i < j <=> <<q[i], q[j]>> \in R
  <2>1. IsOrder(R, S) /\ IsRanked(q, S, R)
    BY <1>2, <1>7 DEF IsOrder, IsRanked
  <2>. QED  BY <2>1, Ranked
<1>. QED  BY <1>1, <1>8 DEF Enumerates

-----------------------------------------------------------------------------
(* Texts, and what the operators of the parsers make of them.                 *)
LEMMA TextProperties ==
  ASSUME NEW s \in Texts
  PROVE  /\ Len(s) \in Nat /\ \A n \in 1..Len(s) : s[n] \in Chars
         /\ s # <<>> => Len(s) \in Nat \ {0}
BY LenProperties, ElementOfSeq, EmptySeq DEF Texts

LEMMA TextsEqual ==
  ASSUME NEW s \in Texts, NEW t \in Texts, Len(s) = Len(t), \A n \in 1..Len(s) : s[n] = t[n]
  PROVE  s = t
BY SeqEqual DEF Texts

LEMMA TextConcat ==
  ASSUME NEW s \in Texts, NEW t \in Texts
  PROVE  /\ s \o t \in Texts /\ Len(s \o t) = Len(s) + Len(t)
         /\ \A n \in 1..Len(s) : (s \o t)[n] = s[n]
         /\ \A n \in 1..Len(t) : (s \o t)[Len(s) + n] = t[n]
<1>1. Len(s) \in Nat /\ Len(t) \in Nat
  BY TextProperties
<1>2. /\ s \o t \in Texts /\ Len(s \o t) = Len(s) + Len(t)
      /\ \A i \in 1..(Len(s) + Len(t)) : (s \o t)[i] = IF i <= Len(s) THEN s[i] ELSE t[i - Len(s)]
  BY ConcatProperties DEF Texts
<1>3. ASSUME NEW n \in 1..Len(s) PROVE (s \o t)[n] = s[n]
  <2>1. n \in 1..(Len(s) + Len(t)) /\ n <= Len(s)
    BY <1>1
  <2>. QED  BY <1>2, <2>1
<1>4. ASSUME NEW n \in 1..Len(t) PROVE (s \o t)[Len(s) + n] = t[n]
  <2>1. Len(s) + n \in 1..(Len(s) + Len(t)) /\ ~(Len(s) + n <= Len(s)) /\ (Len(s) + n) - Len(s) = n
    BY <1>1
  <2>. QED  BY <1>2, <2>1
<1>. QED  BY <1>2, <1>3, <1>4

LEMMA TextSlice ==
  ASSUME NEW s \in Texts, NEW m \in Nat \ {0}, NEW n \in Nat, n <= Len(s), m <= n + 1
  PROVE  /\ SubSeq(s, m, n) \in Texts /\ Len(SubSeq(s, m, n)) = n + 1 - m
         /\ \A i \in 1..(n + 1 - m) : SubSeq(s, m, n)[i] = s[m + i - 1]
<1>1. \A i \in m..n : s[i] \in Chars
  <2>1. \A i \in m..n : i \in 1..Len(s)
    BY TextProperties
  <2>. QED  BY <2>1, TextProperties
<1>2. /\ SubSeq(s, m, n) \in Texts
      /\ Len(SubSeq(s, m, n)) = IF m <= n THEN n - m + 1 ELSE 0
      /\ \A i \in 1..(n - m + 1) : SubSeq(s, m, n)[i] = s[m + i - 1]
  <2>1. m \in Int /\ n \in Int
    OBVIOUS
  <2>. QED  BY <1>1, <2>1, SubSeqProperties DEF Texts
<1>3. n - m + 1 = n + 1 - m /\ (~(m <= n) => n + 1 - m = 0)
  OBVIOUS
<1>. QED  BY <1>2, <1>3

(* A concatenation cut where it was joined.                                   *)
LEMMA SliceOfConcat ==
  ASSUME NEW s \in Texts, NEW t \in Texts
  PROVE  /\ SubSeq(s \o t, 1, Len(s)) = s
         /\ SubSeq(s \o t, Len(s) + 1, Len(s \o t)) = t
<1>1. /\ Len(s) \in Nat /\ Len(t) \in Nat
      /\ s \o t \in Texts /\ Len(s \o t) = Len(s) + Len(t)
      /\ \A n \in 1..Len(s) : (s \o t)[n] = s[n]
      /\ \A n \in 1..Len(t) : (s \o t)[Len(s) + n] = t[n]
  BY TextProperties, TextConcat
<1> DEFINE u == s \o t
<1> HIDE DEF u
<1>2. SubSeq(u, 1, Len(s)) = s
  <2>1. /\ SubSeq(u, 1, Len(s)) \in Texts /\ Len(SubSeq(u, 1, Len(s))) = Len(s) + 1 - 1
        /\ \A i \in 1..(Len(s) + 1 - 1) : SubSeq(u, 1, Len(s))[i] = u[1 + i - 1]
    <3>1. u \in Texts /\ 1 \in Nat \ {0} /\ Len(s) <= Len(u) /\ 1 <= Len(s) + 1
      BY <1>1 DEF u
    <3>. QED  BY <1>1, <3>1, TextSlice
  <2>2. Len(s) + 1 - 1 = Len(s) /\ \A i \in 1..Len(s) : 1 + i - 1 = i
    BY <1>1
  <2>3. \A i \in 1..Len(s) : SubSeq(u, 1, Len(s))[i] = s[i]
    BY <1>1, <2>1, <2>2 DEF u
  <2>. QED  BY <2>1, <2>2, <2>3, TextsEqual
<1>3. SubSeq(u, Len(s) + 1, Len(u)) = t
  <2>1. /\ SubSeq(u, Len(s) + 1, Len(u)) \in Texts
        /\ Len(SubSeq(u, Len(s) + 1, Len(u))) = Len(u) + 1 - (Len(s) + 1)
        /\ \A i \in 1..(Len(u) + 1 - (Len(s) + 1)) :
             SubSeq(u, Len(s) + 1, Len(u))[i] = u[(Len(s) + 1) + i - 1]
    <3>1. /\ u \in Texts /\ Len(s) + 1 \in Nat \ {0} /\ Len(u) \in Nat
          /\ Len(u) <= Len(u) /\ Len(s) + 1 <= Len(u) + 1
      BY <1>1 DEF u
    <3>. QED  BY <3>1, TextSlice
  <2>2. /\ Len(u) + 1 - (Len(s) + 1) = Len(t)
        /\ \A i \in 1..Len(t) : (Len(s) + 1) + i - 1 = Len(s) + i
    BY <1>1 DEF u
  <2>3. \A i \in 1..Len(t) : SubSeq(u, Len(s) + 1, Len(u))[i] = t[i]
    BY <1>1, <2>1, <2>2 DEF u
  <2>. QED  BY <2>1, <2>2, <2>3, TextsEqual
<1>. QED  BY <1>2, <1>3 DEF u

(* What StripLeft takes off.                                                  *)
LEMMA StripLeftIs ==
  ASSUME NEW s \in Texts, NEW c, NEW k \in 0..Len(s), \A i \in 1..k : s[i] = c,
         k < Len(s) => s[k + 1] # c
  PROVE  StripLeft(s, c) = SubSeq(s, k + 1, Len(s))
<1> DEFINE S == {n \in 1..Len(s) : s[n] # c} \union {Len(s) + 1}
<1>1. Len(s) \in Nat
  BY TextProperties
<1>2. S \in SUBSET Nat /\ S # {} /\ k + 1 \in S
  BY <1>1
<1>3. \A n \in S : k + 1 <= n
  <2> SUFFICES ASSUME NEW n \in S, n <= k PROVE FALSE
    BY <1>1, <1>2
  <2>1. n \in 1..k /\ n # Len(s) + 1
    BY <1>1
  <2>. QED  BY <2>1
<1>4. Min(S) \in S /\ \A n \in S : Min(S) <= n
  <2> HIDE DEF S
  <2>. QED  BY <1>2, MinOf
<1>5. Min(S) = k + 1
  <2>1. Min(S) \in Nat /\ k + 1 \in Nat
    BY <1>1, <1>2, <1>4
  <2> HIDE DEF S
  <2>. QED  BY <1>2, <1>3, <1>4, <2>1
<1>. QED  BY <1>5 DEF StripLeft

LEMMA StripLeftSome ==
  ASSUME NEW s \in Texts, NEW c
  PROVE  \E k \in 0..Len(s) : /\ \A i \in 1..k : s[i] = c
                              /\ k < Len(s) => s[k + 1] # c
                              /\ StripLeft(s, c) = SubSeq(s, k + 1, Len(s))
<1> DEFINE S == {n \in 1..Len(s) : s[n] # c} \union {Len(s) + 1}
<1>1. Len(s) \in Nat
  BY TextProperties
<1>2. S \in SUBSET Nat /\ S # {} /\ \A n \in S : n \in 1..(Len(s) + 1)
  BY <1>1
<1>3. Min(S) \in S /\ \A n \in S : Min(S) <= n
  <2> HIDE DEF S
  <2>. QED  BY <1>2, MinOf
<1>4. PICK k \in 0..Len(s) : Min(S) = k + 1
  <2>1. Min(S) \in 1..(Len(s) + 1)
    BY <1>2, <1>3
  <2> HIDE DEF S
  <2>2. Min(S) - 1 \in 0..Len(s) /\ Min(S) = (Min(S) - 1) + 1
    BY <1>1, <2>1
  <2>. QED  BY <2>2
<1>5. \A i \in 1..k : s[i] = c
  <2> SUFFICES ASSUME NEW i \in 1..k, s[i] # c PROVE FALSE
    OBVIOUS
  <2>1. i \in S /\ ~(k + 1 <= i)
    BY <1>1
  <2>. QED  BY <1>3, <1>4, <2>1
<1>6. k < Len(s) => s[k + 1] # c
  BY <1>1, <1>3, <1>4
<1>. QED  BY <1>4, <1>5, <1>6 DEF StripLeft

LEMMA StripRightIs ==
  ASSUME NEW s \in Texts, NEW c, NEW k \in 0..Len(s), \A i \in (k + 1)..Len(s) : s[i] = c,
         k > 0 => s[k] # c
  PROVE  StripRight(s, c) = SubSeq(s, 1, k)
<1> DEFINE S == {n \in 1..Len(s) : s[n] # c} \union {0}
<1>1. Len(s) \in Nat
  BY TextProperties
<1>2. S \in SUBSET (0..Len(s)) /\ S # {} /\ k \in S
  BY <1>1
<1>3. \A n \in S : n <= k
  <2> SUFFICES ASSUME NEW n \in S, n > k PROVE FALSE
    BY <1>1, <1>2
  <2>1. n \in (k + 1)..Len(s) /\ n # 0
    BY <1>1, <1>2
  <2>. QED  BY <2>1
<1>4. Max(S) \in S /\ \A n \in S : n <= Max(S)
  <2> HIDE DEF S
  <2>. QED  BY <1>1, <1>2, MaxOf
<1>5. Max(S) = k
  <2>1. Max(S) \in 0..Len(s)
    BY <1>2, <1>4
  <2> HIDE DEF S
  <2>. QED  BY <1>1, <1>2, <1>3, <1>4, <2>1
<1>. QED  BY <1>5 DEF StripRight

LEMMA StripRightSome ==
  ASSUME NEW s \in Texts, NEW c
  PROVE  \E k \in 0..Len(s) : /\ \A i \in (k + 1)..Len(s) : s[i] = c
                              /\ k > 0 => s[k] # c
                              /\ StripRight(s, c) = SubSeq(s, 1, k)
<1> DEFINE S == {n \in 1..Len(s) : s[n] # c} \union {0}
<1>1. Len(s) \in Nat
  BY TextProperties
<1>2. S \in SUBSET (0..Len(s)) /\ S # {}
  BY <1>1
<1>3. Max(S) \in S /\ \A n \in S : n <= Max(S)
  <2> HIDE DEF S
  <2>. QED  BY <1>1, <1>2, MaxOf
<1>4. PICK k \in 0..Len(s) : Max(S) = k
  BY <1>2, <1>3
<1>5. \A i \in (k + 1)..Len(s) : s[i] = c
  <2> SUFFICES ASSUME NEW i \in (k + 1)..Len(s), s[i] # c PROVE FALSE
    OBVIOUS
  <2>1. i \in S /\ ~(i <= k)
    BY <1>1
  <2>. QED  BY <1>3, <1>4, <2>1
<1>6. k > 0 => s[k] # c
  BY <1>1, <1>3, <1>4
<1>. QED  BY <1>4, <1>5, <1>6 DEF StripRight

LEMMA SeparatorsDiffer ==
  /\ CR # LF /\ CR # SP /\ CR # Colon /\ LF # SP /\ LF # Colon /\ SP # Colon
  /\ {CR, LF, SP, Colon} \subseteq Chars /\ Words \subseteq Chars
  /\ \A w \in Words : w \notin {CR, LF, SP, Colon}
BY HttpAssumption DEF CR, LF, SP, Colon, Chars

LEMMA StripLeftProperties ==
  ASSUME NEW s \in Texts, NEW c
  PROVE  /\ StripLeft(s, c) \in Texts
         /\ StripLeft(s, c) # <<>> =>
              StripLeft(s, c)[1] # c /\ StripLeft(s, c)[Len(StripLeft(s, c))] = s[Len(s)]
         /\ (s = <<>> \/ s[1] # c) => StripLeft(s, c) = s
         /\ \A n \in 1..Len(StripLeft(s, c)) : \E m \in 1..Len(s) : StripLeft(s, c)[n] = s[m]
<1>1. PICK k \in 0..Len(s) : /\ \A i \in 1..k : s[i] = c
                             /\ k < Len(s) => s[k + 1] # c
                             /\ StripLeft(s, c) = SubSeq(s, k + 1, Len(s))
  BY StripLeftSome
<1>2. Len(s) \in Nat /\ k \in Nat /\ k <= Len(s)
  BY TextProperties
<1> DEFINE r == SubSeq(s, k + 1, Len(s))
<1>3. r \in Texts /\ Len(r) = Len(s) - k /\ \A i \in 1..(Len(s) - k) : r[i] = s[k + i]
  <2>1. k + 1 \in Nat \ {0} /\ Len(s) <= Len(s) /\ k + 1 <= Len(s) + 1
    BY <1>2
  <2>2. /\ r \in Texts /\ Len(r) = Len(s) + 1 - (k + 1)
        /\ \A i \in 1..(Len(s) + 1 - (k + 1)) : r[i] = s[(k + 1) + i - 1]
    BY <1>2, <2>1, TextSlice
  <2>3. Len(s) + 1 - (k + 1) = Len(s) - k /\ \A i \in Int : (k + 1) + i - 1 = k + i
    BY <1>2
  <2> HIDE DEF r
  <2>. QED  BY <2>2, <2>3
<1>4. StripLeft(s, c) = r
  BY <1>1
<1> HIDE DEF r
<1>5. ASSUME r # <<>> PROVE r[1] # c /\ r[Len(r)] = s[Len(s)]
  <2>1. Len(r) \in Nat \ {0}
    BY <1>3, <1>5, TextProperties
  <2>2. 1 \in 1..(Len(s) - k) /\ k < Len(s) /\ k + (Len(s) - k) = Len(s)
        /\ Len(s) - k \in 1..(Len(s) - k)
    BY <1>2, <1>3, <2>1
  <2>. QED  BY <1>1, <1>3, <2>2
<1>6. ASSUME s = <<>> \/ s[1] # c PROVE r = s
  <2>1. k = 0
    <3>1. CASE k # 0
      <4>1. 1 \in 1..k /\ Len(s) # 0
        BY <1>2, <3>1
      <4>2. s # <<>>
        BY <4>1, EmptySeq
      <4>. QED  BY <1>1, <1>6, <4>1, <4>2
    <3>. QED  BY <3>1
  <2>2. Len(r) = Len(s) /\ \A i \in 1..Len(s) : r[i] = s[i]
    BY <1>2, <1>3, <2>1
  <2>. QED  BY <1>3, <2>2, TextsEqual
<1>7. ASSUME NEW n \in 1..Len(r) PROVE \E m \in 1..Len(s) : r[n] = s[m]
  <2>1. n \in 1..(Len(s) - k) /\ k + n \in 1..Len(s)
    BY <1>2, <1>3
  <2>. QED  BY <1>3, <2>1
<1>. QED  BY <1>3, <1>4, <1>5, <1>6, <1>7

LEMMA StripRightProperties ==
  ASSUME NEW s \in Texts, NEW c
  PROVE  /\ StripRight(s, c) \in Texts
         /\ StripRight(s, c) # <<>> => StripRight(s, c)[Len(StripRight(s, c))] # c
         /\ (s = <<>> \/ s[Len(s)] # c) => StripRight(s, c) = s
         /\ \A n \in 1..Len(StripRight(s, c)) : \E m \in 1..Len(s) : StripRight(s, c)[n] = s[m]
<1>1. PICK k \in 0..Len(s) : /\ \A i \in (k + 1)..Len(s) : s[i] = c
                             /\ k > 0 => s[k] # c
                             /\ StripRight(s, c) = SubSeq(s, 1, k)
  BY StripRightSome
<1>2. Len(s) \in Nat /\ k \in Nat /\ k <= Len(s)
  BY TextProperties
<1> DEFINE r == SubSeq(s, 1, k)
<1>3. r \in Texts /\ Len(r) = k /\ \A i \in 1..k : r[i] = s[i]
  <2>1. 1 \in Nat \ {0} /\ 1 <= k + 1
    BY <1>2
  <2>2. r \in Texts /\ Len(r) = k + 1 - 1 /\ \A i \in 1..(k + 1 - 1) : r[i] = s[1 + i - 1]
    BY <1>2, <2>1, TextSlice
  <2>3. k + 1 - 1 = k /\ \A i \in Int : 1 + i - 1 = i
    BY <1>2
  <2> HIDE DEF r
  <2>. QED  BY <2>2, <2>3
<1>4. StripRight(s, c) = r
  BY <1>1
<1> HIDE DEF r
<1>5. ASSUME r # <<>> PROVE r[Len(r)] # c
  <2>1. Len(r) \in Nat \ {0}
    BY <1>3, <1>5, TextProperties
  <2>. QED  BY <1>1, <1>2, <1>3, <2>1
<1>6. ASSUME s = <<>> \/ s[Len(s)] # c PROVE r = s
  <2>1. k = Len(s)
    <3>1. CASE k # Len(s)
      <4>1. Len(s) \in (k + 1)..Len(s) /\ Len(s) # 0
        BY <1>2, <3>1
      <4>2. s # <<>>
        BY <4>1, EmptySeq
      <4>. QED  BY <1>1, <1>6, <4>1, <4>2
    <3>. QED  BY <3>1
  <2>. QED  BY <1>3, <2>1, TextsEqual
<1>7. ASSUME NEW n \in 1..Len(r) PROVE \E m \in 1..Len(s) : r[n] = s[m]
  <2>1. n \in 1..k /\ n \in 1..Len(s)
    BY <1>2, <1>3
  <2>. QED  BY <1>3, <2>1
<1>. QED  BY <1>3, <1>4, <1>5, <1>6, <1>7

(* A text between two characters.                                             *)
LEMMA OneCharacter ==
  ASSUME NEW c \in Chars PROVE <<c>> \in Texts /\ Len(<<c>>) = 1 /\ <<c>>[1] = c
BY DEF Texts

LEMMA StripLeftSplit ==
  ASSUME NEW b \in Texts, NEW r \in Texts, NEW c, \A n \in 1..Len(b) : b[n] = c, r = <<>> \/ r[1] # c
  PROVE  StripLeft(b \o r, c) = r
<1>1. /\ b \o r \in Texts /\ Len(b) \in Nat /\ Len(r) \in Nat /\ Len(b \o r) = Len(b) + Len(r)
      /\ \A n \in 1..Len(b) : (b \o r)[n] = b[n]
      /\ \A n \in 1..Len(r) : (b \o r)[Len(b) + n] = r[n]
  BY TextProperties, TextConcat
<1>2. Len(b) < Len(b \o r) => (b \o r)[Len(b) + 1] # c
  <2> SUFFICES ASSUME Len(b) < Len(b \o r) PROVE (b \o r)[Len(b) + 1] # c
    OBVIOUS
  <2>1. 1 \in 1..Len(r) /\ Len(r) # 0
    BY <1>1
  <2>2. r # <<>>
    BY <2>1, EmptySeq
  <2>. QED  BY <1>1, <2>1, <2>2
<1>3. Len(b) \in 0..Len(b \o r) /\ \A n \in 1..Len(b) : (b \o r)[n] = c
  BY <1>1
<1>4. StripLeft(b \o r, c) = SubSeq(b \o r, Len(b) + 1, Len(b \o r))
  BY <1>1, <1>2, <1>3, StripLeftIs
<1>. QED  BY <1>4, SliceOfConcat

LEMMA StripLeftParts ==
  ASSUME NEW s \in Texts, NEW c
  PROVE  \E b, r \in Texts : /\ s = b \o r /\ StripLeft(s, c) = r
                             /\ \A n \in 1..Len(b) : b[n] = c
                             /\ r = <<>> \/ r[1] # c
<1>1. PICK k \in 0..Len(s) : /\ \A i \in 1..k : s[i] = c
                             /\ k < Len(s) => s[k + 1] # c
                             /\ StripLeft(s, c) = SubSeq(s, k + 1, Len(s))
  BY StripLeftSome
<1>2. Len(s) \in Nat /\ k \in Nat /\ k <= Len(s)
  BY TextProperties
<1> DEFINE b == SubSeq(s, 1, k)
           r == SubSeq(s, k + 1, Len(s))
<1>3. b \in Texts /\ Len(b) = k /\ \A i \in 1..k : b[i] = s[i]
  <2>1. 1 \in Nat \ {0} /\ 1 <= k + 1
    BY <1>2
  <2>2. b \in Texts /\ Len(b) = k + 1 - 1 /\ \A i \in 1..(k + 1 - 1) : b[i] = s[1 + i - 1]
    BY <1>2, <2>1, TextSlice
  <2>3. k + 1 - 1 = k /\ \A i \in Int : 1 + i - 1 = i
    BY <1>2
  <2> HIDE DEF b
  <2>. QED  BY <2>2, <2>3
<1>4. r \in Texts
  <2>1. k + 1 \in Nat \ {0} /\ Len(s) <= Len(s) /\ k + 1 <= Len(s) + 1
    BY <1>2
  <2>. QED  BY <1>2, <2>1, TextSlice
<1>5. s = b \o r
  <2>1. 1 \in 1..(Len(s) + 1) /\ k \in (1 - 1)..Len(s) /\ Len(s) \in k..Len(s)
    BY <1>2
  <2>2. SubSeq(s, 1, k) \o SubSeq(s, k + 1, Len(s)) = SubSeq(s, 1, Len(s))
    BY <2>1, ConcatAdjacentSubSeq DEF Texts
  <2>. QED  BY <2>2, SubSeqFull DEF Texts
<1>6. r = <<>> \/ r[1] # c
  <2> HIDE DEF b, r
  <2> SUFFICES ASSUME r # <<>> PROVE r[1] # c
    OBVIOUS
  <2>1. Len(r) \in Nat \ {0} /\ Len(b \o r) = Len(b) + Len(r)
    BY <1>3, <1>4, TextProperties, TextConcat
  <2>3. Len(s) = k + Len(r) /\ 1 \in 1..Len(r)
    BY <1>3, <1>5, <2>1
  <2>2. (b \o r)[Len(b) + 1] = r[1]
    BY <1>3, <1>4, <2>3, TextConcat
  <2>4. s[k + 1] = r[1] /\ k < Len(s)
    BY <1>2, <1>3, <1>5, <2>1, <2>2, <2>3
  <2>. QED  BY <1>1, <2>4
<1> HIDE DEF b, r
<1>. QED  BY <1>1, <1>3, <1>4, <1>5, <1>6 DEF r

LEMMA StripLeftBlank ==
  ASSUME NEW s \in Texts, NEW c \in Chars
  PROVE  StripLeft(<<c>> \o s, c) = StripLeft(s, c)
<1>1. PICK b \in Texts, r \in Texts : /\ s = b \o r /\ StripLeft(s, c) = r
                                      /\ \A n \in 1..Len(b) : b[n] = c
                                      /\ r = <<>> \/ r[1] # c
  BY StripLeftParts
<1> DEFINE d == <<c>> \o b
<1>2. /\ d \in Texts /\ Len(b) \in Nat /\ Len(d) = 1 + Len(b) /\ d[1] = c
      /\ \A n \in 1..Len(b) : d[1 + n] = b[n]
  BY OneCharacter, TextConcat, TextProperties
<1>3. \A n \in 1..Len(d) : d[n] = c
  <2> SUFFICES ASSUME NEW n \in 1..Len(d), n # 1 PROVE d[n] = c
    BY <1>2
  <2>1. n - 1 \in 1..Len(b) /\ 1 + (n - 1) = n
    BY <1>2
  <2> HIDE DEF d
  <2>2. d[n] = b[n - 1]
    BY <1>2, <2>1
  <2>3. b[n - 1] = c
    BY <1>1, <2>1
  <2>. QED  BY <2>2, <2>3
<1>4. <<c>> \o s = d \o r
  BY <1>1, OneCharacter, ConcatAssociative DEF Texts
<1>5. d \in Texts /\ (r = <<>> \/ r[1] # c) /\ r = StripLeft(s, c)
  BY <1>1, <1>2
<1> HIDE DEF d
<1>6. StripLeft(d \o r, c) = r
  BY <1>3, <1>5, StripLeftSplit
<1>. QED  BY <1>4, <1>5, <1>6

LEMMA StripLeftBefore ==
  ASSUME NEW s \in Texts, NEW c, NEW d \in Chars, d # c
  PROVE  StripLeft(s \o <<d>>, c) = StripLeft(s, c) \o <<d>>
<1>1. PICK b \in Texts, r \in Texts : /\ s = b \o r /\ StripLeft(s, c) = r
                                      /\ \A n \in 1..Len(b) : b[n] = c
                                      /\ r = <<>> \/ r[1] # c
  BY StripLeftParts
<1>2. s \o <<d>> = b \o (r \o <<d>>)
  BY <1>1, OneCharacter, ConcatAssociative DEF Texts
<1>3. r \o <<d>> \in Texts /\ Len(r) \in Nat /\ (r \o <<d>>)[Len(r) + 1] = d
      /\ \A n \in 1..Len(r) : (r \o <<d>>)[n] = r[n]
  BY OneCharacter, TextConcat, TextProperties
<1>4. (r \o <<d>>)[1] # c
  <2>1. CASE r = <<>>
    <3>1. Len(r) + 1 = 1
      BY <2>1, EmptySeq
    <3>. QED  BY <1>3, <3>1
  <2>2. CASE r # <<>>
    <3>1. 1 \in 1..Len(r)
      BY <2>2, TextProperties
    <3>2. (r \o <<d>>)[1] = r[1] /\ r[1] # c
      BY <1>1, <1>3, <2>2, <3>1
    <3>. QED  BY <3>2
  <2>. QED  BY <2>1, <2>2
<1> DEFINE u == r \o <<d>>
<1>5. u \in Texts /\ u[1] # c /\ \A n \in 1..Len(b) : b[n] = c
  BY <1>1, <1>3, <1>4
<1> HIDE DEF u
<1>6. StripLeft(b \o u, c) = u
  BY <1>5, StripLeftSplit
<1>. QED  BY <1>1, <1>2, <1>6 DEF u

(* A text without line ends, as the values of a request are.                  *)
OneLine(s) == \A n \in 1..Len(s) : s[n] \notin {CR, LF}

LEMMA TrimOneLine ==
  ASSUME NEW s \in Texts, OneLine(s)
  PROVE  Trim(s) = StripLeft(StripRight(s, SP), SP)
<1> DEFINE a == StripRight(s, SP)
           b == StripLeft(a, SP)
<1>1. a \in Texts /\ OneLine(a)
  <2>1. a \in Texts /\ \A n \in 1..Len(a) : \E m \in 1..Len(s) : a[n] = s[m]
    BY StripRightProperties
  <2>. QED  BY <2>1 DEF OneLine
<1> HIDE DEF a
<1>2. b \in Texts /\ OneLine(b)
  <2>1. b \in Texts /\ \A n \in 1..Len(b) : \E m \in 1..Len(a) : b[n] = a[m]
    BY <1>1, StripLeftProperties
  <2>. QED  BY <1>1, <2>1 DEF OneLine
<1> HIDE DEF b
<1>3. a = <<>> \/ Len(a) \in 1..Len(a)
  BY <1>1, TextProperties
<1>4. StripRight(a, LF) = a /\ StripRight(a, CR) = a
  BY <1>1, <1>3, StripRightProperties DEF OneLine
<1>5. b = <<>> \/ 1 \in 1..Len(b)
  BY <1>2, TextProperties
<1>6. StripLeft(b, LF) = b
  BY <1>2, <1>5, StripLeftProperties DEF OneLine
<1>7. StripRight(StripRight(a, LF), CR) = a
  BY <1>4
<1>. QED  BY <1>6, <1>7 DEF Trim, a, b

LEMMA TrimReturn ==
  ASSUME NEW s \in Texts, OneLine(s)
  PROVE  Trim(s \o <<CR>>) = StripLeft(s, SP)
<1> DEFINE t == s \o <<CR>>
           b == StripLeft(s, SP)
<1>1. /\ t \in Texts /\ Len(s) \in Nat /\ Len(t) = Len(s) + 1 /\ t[Len(s) + 1] = CR
      /\ \A n \in 1..Len(s) : t[n] = s[n]
  BY SeparatorsDiffer, OneCharacter, TextConcat, TextProperties
<1>2. b \in Texts /\ OneLine(b)
  <2>1. b \in Texts /\ \A n \in 1..Len(b) : \E m \in 1..Len(s) : b[n] = s[m]
    BY StripLeftProperties
  <2>. QED  BY <2>1 DEF OneLine
<1> HIDE DEF t, b
<1>3. t[Len(t)] = CR
  BY <1>1
<1>4. StripRight(t, SP) = t /\ StripRight(t, LF) = t
  BY <1>1, <1>3, SeparatorsDiffer, StripRightProperties
<1>5. StripRight(t, CR) = s
  <2>1. Len(s) \in 0..Len(t) /\ \A i \in (Len(s) + 1)..Len(t) : t[i] = CR
    <3>1. \A i \in (Len(s) + 1)..Len(t) : i = Len(s) + 1
      BY <1>1
    <3>. QED  BY <1>1, <3>1
  <2>2. Len(s) > 0 => t[Len(s)] # CR
    <3> SUFFICES ASSUME Len(s) > 0 PROVE t[Len(s)] # CR
      OBVIOUS
    <3>1. Len(s) \in 1..Len(s)
      BY <1>1
    <3>. QED  BY <1>1, <3>1 DEF OneLine
  <2>3. StripRight(t, CR) = SubSeq(t, 1, Len(s))
    BY <1>1, <2>1, <2>2, StripRightIs
  <2>4. <<CR>> \in Texts
    BY SeparatorsDiffer, OneCharacter
  <2>. QED  BY <2>3, <2>4, SliceOfConcat DEF t
<1>6. StripLeft(b, LF) = b
  <2>1. b = <<>> \/ 1 \in 1..Len(b)
    BY <1>2, TextProperties
  <2>. QED  BY <1>2, <2>1, StripLeftProperties DEF OneLine
<1>7. StripRight(StripRight(StripRight(t, SP), LF), CR) = s
  BY <1>4, <1>5
<1>. QED  BY <1>6, <1>7 DEF Trim, t, b

-----------------------------------------------------------------------------
(* Where a pattern matches, and what find returns.                            *)
LEMMA Matches ==
  ASSUME NEW s \in Texts, NEW p \in Texts, p # <<>>, NEW n \in Nat \ {0}, n + Len(p) <= Len(s) + 1
  PROVE  SubSeq(s, n, n + Len(p) - 1) = p <=> \A i \in 1..Len(p) : s[n + i - 1] = p[i]
<1>1. Len(s) \in Nat /\ Len(p) \in Nat \ {0}
  BY TextProperties
<1> DEFINE m == n + Len(p) - 1
           r == SubSeq(s, n, m)
<1>2. m \in Nat /\ m <= Len(s) /\ n <= m + 1 /\ m + 1 - n = Len(p)
  BY <1>1
<1> HIDE DEF m
<1>3. r \in Texts /\ Len(r) = Len(p) /\ \A i \in 1..Len(p) : r[i] = s[n + i - 1]
  BY <1>2, TextSlice
<1> HIDE DEF r
<1>4. r = p <=> \A i \in 1..Len(p) : r[i] = p[i]
  BY <1>3, TextsEqual
<1>5. r = p <=> \A i \in 1..Len(p) : s[n + i - 1] = p[i]
  BY <1>3, <1>4
<1>. QED  BY <1>5 DEF r, m

MatchAt(s, p, n) == \A i \in 1..Len(p) : s[n + i - 1] = p[i]

LEMMA FindIs ==
  ASSUME NEW s \in Texts, NEW p \in Texts, p # <<>>, NEW from \in Nat \ {0},
         NEW k \in Nat, from <= k, k + Len(p) <= Len(s) + 1, MatchAt(s, p, k),
         \A n \in Nat : from <= n /\ n < k => ~MatchAt(s, p, n)
  PROVE  Find(s, p, from) = k
<1> DEFINE at == {n \in from..(Len(s) + 1 - Len(p)) : SubSeq(s, n, n + Len(p) - 1) = p}
<1>1. Len(s) \in Nat /\ Len(p) \in Nat \ {0}
  BY TextProperties
<1>2. \A n \in from..(Len(s) + 1 - Len(p)) :
        n \in Nat \ {0} /\ (SubSeq(s, n, n + Len(p) - 1) = p <=> MatchAt(s, p, n))
  <2> SUFFICES ASSUME NEW n \in from..(Len(s) + 1 - Len(p))
               PROVE  n \in Nat \ {0} /\ (SubSeq(s, n, n + Len(p) - 1) = p <=> MatchAt(s, p, n))
    OBVIOUS
  <2>1. n \in Nat \ {0} /\ n + Len(p) <= Len(s) + 1
    BY <1>1
  <2>. QED  BY <2>1, Matches DEF MatchAt
<1>3. k \in at
  <2>1. k \in from..(Len(s) + 1 - Len(p))
    BY <1>1
  <2>. QED  BY <1>2, <2>1
<1>4. at \in SUBSET Nat /\ at # {}
  BY <1>2, <1>3
<1>5. \A n \in at : k <= n
  <2> SUFFICES ASSUME NEW n \in at PROVE k <= n
    OBVIOUS
  <2>1. n \in Nat /\ from <= n /\ MatchAt(s, p, n)
    BY <1>1, <1>2
  <2>2. ~(n < k)
    BY <2>1
  <2>. QED  BY <2>1, <2>2
<1>6. Find(s, p, from) = Min(at)
  <2>1. Find(s, p, from) = IF at = {} THEN 0 ELSE Min(at)
    BY DEF Find
  <2> HIDE DEF at
  <2>. QED  BY <1>4, <2>1
<1> HIDE DEF at
<1>7. Min(at) \in at /\ \A n \in at : Min(at) <= n
  BY <1>4, MinOf
<1>8. Min(at) \in Nat /\ Min(at) <= k /\ k <= Min(at)
  BY <1>3, <1>4, <1>5, <1>7
<1>. QED  BY <1>6, <1>8

LEMMA FindNone ==
  ASSUME NEW s \in Texts, NEW p \in Texts, p # <<>>, NEW from \in Nat \ {0},
         \A n \in Nat : from <= n /\ n + Len(p) <= Len(s) + 1 => ~MatchAt(s, p, n)
  PROVE  Find(s, p, from) = 0
<1> DEFINE at == {n \in from..(Len(s) + 1 - Len(p)) : SubSeq(s, n, n + Len(p) - 1) = p}
<1>1. Len(s) \in Nat /\ Len(p) \in Nat \ {0}
  BY TextProperties
<1>2. ASSUME NEW n \in at PROVE FALSE
  <2>1. n \in Nat \ {0} /\ from <= n /\ n + Len(p) <= Len(s) + 1
    BY <1>1
  <2>2. SubSeq(s, n, n + Len(p) - 1) = p
    OBVIOUS
  <2>3. MatchAt(s, p, n)
    BY <2>1, <2>2, Matches DEF MatchAt
  <2>. QED  BY <2>1, <2>3
<1>3. at = {}
  BY <1>2
<1>. QED  BY <1>3 DEF Find

(* The patterns of the parsers.                                               *)
Return == <<CR, LF, CR, LF>>

LEMMA Patterns ==
  /\ NewLine \in Texts /\ Len(NewLine) = 2 /\ NewLine # <<>> /\ NewLine[1] = CR /\ NewLine[2] = LF
  /\ NewLine \o NewLine = Return /\ Return \in Texts /\ Return # <<>> /\ Len(Return) = 4
  /\ \A s, n : MatchAt(s, NewLine, n) <=> s[n + 1 - 1] = CR /\ s[n + 2 - 1] = LF
  /\ \A s, n : MatchAt(s, Return, n) <=> /\ s[n + 1 - 1] = CR /\ s[n + 2 - 1] = LF
                                         /\ s[n + 3 - 1] = CR /\ s[n + 4 - 1] = LF
  /\ <<Colon>> \in Texts /\ <<Colon>> # <<>> /\ Len(<<Colon>>) = 1
  /\ \A s, n : MatchAt(s, <<Colon>>, n) <=> s[n + 1 - 1] = Colon
<1>1. CR \in Chars /\ LF \in Chars /\ Colon \in Chars
  BY SeparatorsDiffer
<1>2. /\ NewLine \in Texts /\ Len(NewLine) = 2 /\ NewLine # <<>>
      /\ NewLine[1] = CR /\ NewLine[2] = LF
  BY <1>1 DEF NewLine, Texts
<1>3. /\ Return \in Texts /\ Return # <<>> /\ Len(Return) = 4
      /\ Return[1] = CR /\ Return[2] = LF /\ Return[3] = CR /\ Return[4] = LF
  BY <1>1 DEF Return, Texts
<1>4. NewLine \o NewLine = Return
  <2>1. /\ NewLine \o NewLine \in Texts /\ Len(NewLine \o NewLine) = 4
        /\ (NewLine \o NewLine)[1] = CR /\ (NewLine \o NewLine)[2] = LF
        /\ (NewLine \o NewLine)[2 + 1] = CR /\ (NewLine \o NewLine)[2 + 2] = LF
    <3>1. 1 \in 1..2 /\ 2 \in 1..2 /\ 2 + 2 = 4
      OBVIOUS
    <3> DEFINE d == NewLine \o NewLine
    <3>2. /\ d \in Texts /\ Len(d) = Len(NewLine) + Len(NewLine)
          /\ \A n \in 1..Len(NewLine) : d[n] = NewLine[n]
          /\ \A n \in 1..Len(NewLine) : d[Len(NewLine) + n] = NewLine[n]
      BY <1>2, TextConcat
    <3> HIDE DEF d
    <3>3. d \in Texts /\ Len(d) = 4 /\ d[1] = CR /\ d[2] = LF /\ d[2 + 1] = CR /\ d[2 + 2] = LF
      BY <1>2, <3>1, <3>2
    <3>. QED  BY <3>3 DEF d
  <2>2. \A i \in 1..4 : i = 1 \/ i = 2 \/ i = 2 + 1 \/ i = 2 + 2
    OBVIOUS
  <2>3. Return[2 + 1] = CR /\ Return[2 + 2] = LF
    BY <1>3
  <2>4. \A i \in 1..4 : (NewLine \o NewLine)[i] = Return[i]
    BY <1>3, <2>1, <2>2, <2>3
  <2>. QED  BY <1>3, <2>1, <2>4, TextsEqual
<1>5. <<Colon>> \in Texts /\ <<Colon>> # <<>> /\ Len(<<Colon>>) = 1 /\ <<Colon>>[1] = Colon
  BY <1>1 DEF Texts
<1>6. \A i \in 1..2 : i = 1 \/ i = 2
  OBVIOUS
<1>7. \A i \in 1..4 : i = 1 \/ i = 2 \/ i = 3 \/ i = 4
  OBVIOUS
<1>8. \A i \in 1..1 : i = 1
  OBVIOUS
<1>9. ASSUME NEW s, NEW n PROVE MatchAt(s, NewLine, n) <=> s[n + 1 - 1] = CR /\ s[n + 2 - 1] = LF
  BY <1>2, <1>6 DEF MatchAt
<1>10. ASSUME NEW s, NEW n
       PROVE  MatchAt(s, Return, n) <=> /\ s[n + 1 - 1] = CR /\ s[n + 2 - 1] = LF
                                        /\ s[n + 3 - 1] = CR /\ s[n + 4 - 1] = LF
  BY <1>3, <1>7 DEF MatchAt
<1>11. ASSUME NEW s, NEW n PROVE MatchAt(s, <<Colon>>, n) <=> s[n + 1 - 1] = Colon
  BY <1>5, <1>8 DEF MatchAt
<1>. QED  BY <1>2, <1>3, <1>4, <1>5, <1>9, <1>10, <1>11

(* A text of which the pattern is the only part that has its first character. *)
LEMMA FindColon ==
  ASSUME NEW s \in Texts, NEW t \in Texts, \A n \in 1..Len(s) : s[n] # Colon
  PROVE  Find(s \o <<Colon>> \o t, <<Colon>>, 1) = Len(s) + 1
<1> DEFINE u == s \o <<Colon>>
           w == u \o t
<1>1. /\ u \in Texts /\ Len(u) = Len(s) + 1 /\ Len(s) \in Nat /\ Len(t) \in Nat
      /\ u[Len(s) + 1] = Colon /\ \A n \in 1..Len(s) : u[n] = s[n]
  BY SeparatorsDiffer, OneCharacter, TextProperties, TextConcat
<1> HIDE DEF u
<1>2. w \in Texts /\ Len(w) = Len(u) + Len(t) /\ \A n \in 1..Len(u) : w[n] = u[n]
  BY <1>1, TextConcat
<1> HIDE DEF w
<1>3. Len(s) + 1 \in 1..Len(u) /\ \A n \in 1..Len(s) : n \in 1..Len(u)
  BY <1>1
<1>4. w[Len(s) + 1] = Colon /\ \A n \in 1..Len(s) : w[n] # Colon
  BY <1>1, <1>2, <1>3
<1> DEFINE k == Len(s) + 1
<1>5. /\ 1 \in Nat \ {0} /\ k \in Nat /\ 1 <= k /\ k + Len(<<Colon>>) <= Len(w) + 1
      /\ k + 1 - 1 = k
  <2>1. Len(<<Colon>>) = 1
    BY Patterns
  <2>. QED  BY <1>1, <1>2, <2>1
<1>6. MatchAt(w, <<Colon>>, k)
  BY <1>4, <1>5, Patterns
<1>7. ASSUME NEW n \in Nat, 1 <= n, n < k PROVE ~MatchAt(w, <<Colon>>, n)
  <2>1. n \in 1..Len(s) /\ n + 1 - 1 = n
    BY <1>1, <1>7
  <2>2. w[n + 1 - 1] # Colon
    BY <1>4, <2>1
  <2>. QED  BY <2>2, Patterns
<1>8. <<Colon>> \in Texts /\ <<Colon>> # <<>>
  BY Patterns
<1> HIDE DEF k
<1>9. Find(w, <<Colon>>, 1) = k
  BY <1>2, <1>5, <1>6, <1>7, <1>8, FindIs
<1>. QED  BY <1>9 DEF k, w, u

LEMMA TextAssociative ==
  \A s, t, u \in Texts : (s \o t) \o u = s \o (t \o u)
BY ConcatAssociative DEF Texts

LEMMA TextLength ==
  \A s, t \in Texts : s \o t \in Texts /\ Len(s \o t) = Len(s) + Len(t)
BY TextConcat

(* Concatenation by a name, for long chains of it.                            *)
Cat(s, t) == s \o t

LEMMA TextAlgebra ==
  /\ \A s, t \in Texts : Cat(s, t) \in Texts
  /\ \A s, t, u \in Texts : Cat(Cat(s, t), u) = Cat(s, Cat(t, u))
BY TextLength, TextAssociative DEF Cat

LEMMA TextCancel ==
  ASSUME NEW s \in Texts, NEW t \in Texts, NEW u \in Texts
  PROVE  (s \o u = t \o u => s = t) /\ (u \o s = u \o t => s = t)
<1>1. Len(s) \in Nat /\ Len(t) \in Nat /\ Len(u) \in Nat
  BY TextProperties
<1>2. ASSUME s \o u = t \o u PROVE s = t
  <2> DEFINE a == s \o u
             b == t \o u
  <2>1. Len(a) = Len(s) + Len(u) /\ \A n \in 1..Len(s) : a[n] = s[n]
    BY TextConcat
  <2>2. Len(b) = Len(t) + Len(u) /\ \A n \in 1..Len(t) : b[n] = t[n]
    BY TextConcat
  <2>3. a = b
    BY <1>2
  <2> HIDE DEF a, b
  <2>4. Len(s) = Len(t) /\ \A n \in 1..Len(s) : s[n] = t[n]
    BY <1>1, <2>1, <2>2, <2>3
  <2>. QED  BY <2>4, TextsEqual
<1>3. ASSUME u \o s = u \o t PROVE s = t
  <2> DEFINE a == u \o s
             b == u \o t
  <2>1. Len(a) = Len(u) + Len(s) /\ \A n \in 1..Len(s) : a[Len(u) + n] = s[n]
    BY TextConcat
  <2>2. Len(b) = Len(u) + Len(t) /\ \A n \in 1..Len(t) : b[Len(u) + n] = t[n]
    BY TextConcat
  <2>3. a = b
    BY <1>3
  <2> HIDE DEF a, b
  <2>4. Len(s) = Len(t) /\ \A n \in 1..Len(s) : s[n] = t[n]
    BY <1>1, <2>1, <2>2, <2>3
  <2>. QED  BY <2>4, TextsEqual
<1>. QED  BY <1>2, <1>3

LEMMA EmptyText ==
  /\ <<>> \in Texts /\ <<>> \in Seq(Texts) /\ Len(<<>>) = 0
  /\ \A s \in Texts : s \o <<>> = s /\ <<>> \o s = s
BY EmptySeq, ConcatEmptySeq DEF Texts

-----------------------------------------------------------------------------
(* Induction over sequences, and what the recursive functions compute.        *)
LEMMA SequenceInduction ==
  ASSUME NEW S, NEW T, <<>> \in T,
         \A q \in Seq(S), x \in S : q \in T => Append(q, x) \in T
  PROVE  Seq(S) \subseteq T
<1> DEFINE N == {n \in Nat : \A q \in Seq(S) : Len(q) = n => q \in T}
<1>1. 0 \in N
  <2>1. \A q \in Seq(S) : Len(q) = 0 => q = <<>>
    BY EmptySeq
  <2>. QED  BY <2>1
<1>2. ASSUME NEW n \in Nat, n \in N PROVE n + 1 \in N
  <2> SUFFICES ASSUME NEW q \in Seq(S), Len(q) = n + 1 PROVE q \in T
    OBVIOUS
  <2>1. q # <<>>
    BY EmptySeq
  <2>2. PICK r \in Seq(S), x \in S : q = Append(r, x)
    BY <2>1, SequenceEmptyOrAppend
  <2>3. Len(r) \in Nat /\ Len(q) = Len(r) + 1
    BY <2>2, AppendProperties, LenProperties
  <2>4. r \in T
    BY <1>2, <2>3
  <2>. QED  BY <2>2, <2>4
<1> HIDE DEF N
<1>3. Nat \subseteq N
  BY <1>1, <1>2, NaturalInduction
<1>. QED  BY <1>3, LenProperties DEF N

Alike(f, g, m) == \A n \in 0..m : f[n] = g[n]
StepsAlike(f, g, m) == f[0] = g[0] /\ \A n \in 1..m : f[n - 1] = g[n - 1] => f[n] = g[n]

LEMMA RecursionUnique ==
  ASSUME NEW m \in Nat, NEW f, NEW g, StepsAlike(f, g, m)
  PROVE  Alike(f, g, m)
<1> USE DEF Alike, StepsAlike
<1> DEFINE S == {n \in Nat : n <= m => f[n] = g[n]}
<1>1. 0 \in S
  OBVIOUS
<1>2. ASSUME NEW n \in Nat, n \in S PROVE n + 1 \in S
  <2> SUFFICES ASSUME n + 1 <= m PROVE f[n + 1] = g[n + 1]
    OBVIOUS
  <2>1. n + 1 \in 1..m /\ (n + 1) - 1 = n /\ f[n] = g[n]
    BY <1>2
  <2>. QED  BY <2>1
<1> HIDE DEF S
<1>3. Nat \subseteq S
  BY <1>1, <1>2, NaturalInduction
<1>. QED  BY <1>3 DEF S

(* Parts: the lines so far, one step per character.                           *)
Splits == Seq(Texts) \ {<<>>}

LEMMA GrowSplits ==
  ASSUME NEW q \in Splits, NEW c \in Chars
  PROVE  Grow(q, c) \in Splits
<1>1. q \in Seq(Texts) /\ Len(q) \in Nat \ {0} /\ Len(q) \in 1..Len(q)
  BY EmptySeq DEF Splits
<1>2. CASE c = LF
  <2>1. <<>> \in Texts
    BY EmptySeq DEF Texts
  <2>2. Append(q, <<>>) \in Seq(Texts) /\ Append(q, <<>>) # <<>>
    BY <1>1, <2>1, AppendProperties
  <2>. QED  BY <1>2, <2>2 DEF Grow, Splits
<1>3. CASE c # LF
  <2> DEFINE l == Append(q[Len(q)], c)
             r == [q EXCEPT ![Len(q)] = l]
  <2>1. l \in Texts
    BY <1>1, ElementOfSeq, AppendProperties DEF Texts
  <2> HIDE DEF l
  <2>2. r \in Seq(Texts) /\ Len(r) = Len(q)
    BY <1>1, <2>1, ExceptSeq
  <2>3. r # <<>>
    BY <1>1, <2>2, EmptySeq
  <2>4. Grow(q, c) = r
    BY <1>3 DEF Grow, l
  <2>. QED  BY <2>2, <2>3, <2>4 DEF Splits
<1>. QED  BY <1>2, <1>3

IsParts(f, s) ==
  f = [n \in 0..Len(s) |-> IF n = 0 THEN <<<<>>>> ELSE Grow(f[n - 1], s[n])]

LEMMA PartsExist ==
  ASSUME NEW s \in Texts
  PROVE  \E f : IsParts(f, s) /\ f \in [0..Len(s) -> Splits]
<1> DEFINE G == [n \in 1..Len(s) |-> [q \in Splits |-> Grow(q, s[n])]]
<1>1. Len(s) \in Nat /\ \A n \in 1..Len(s) : s[n] \in Chars
  BY TextProperties
<1>2. G \in [1..Len(s) -> [Splits -> Splits]]
  BY <1>1, GrowSplits
<1>3. <<<<>>>> \in Splits
  BY EmptySeq DEF Texts, Splits
<1>4. PICK f \in [0..Len(s) -> Splits] :
        f[0] = <<<<>>>> /\ \A n \in 1..Len(s) : f[n] = G[n][f[n - 1]]
  <2> HIDE DEF G
  <2> DEFINE one == <<<<>>>>
  <2> HIDE DEF one
  <2>1. one \in Splits
    BY <1>3 DEF one
  <2>2. \E f \in [0..Len(s) -> Splits] : Recurs(f, one, G, Len(s))
    <3>1. Len(s) \in Nat
      BY <1>1
    <3> HIDE DEF Splits
    <3>. QED  BY <1>2, <2>1, <3>1, RecursionExists
  <2>. QED  BY <2>2 DEF one, Recurs
<1>5. ASSUME NEW n \in 0..Len(s)
      PROVE  f[n] = IF n = 0 THEN <<<<>>>> ELSE Grow(f[n - 1], s[n])
  <2>1. CASE n = 0
    BY <1>4, <2>1
  <2>2. CASE n # 0
    <3>1. n \in 1..Len(s) /\ n - 1 \in 0..Len(s)
      BY <1>1, <2>2
    <3>. QED  BY <1>4, <2>2, <3>1
  <2>. QED  BY <2>1, <2>2
<1>6. f = [n \in 0..Len(s) |-> IF n = 0 THEN <<<<>>>> ELSE Grow(f[n - 1], s[n])]
  BY <1>4, <1>5
<1>. QED  BY <1>4, <1>6 DEF IsParts

LEMMA PartsSteps ==
  ASSUME NEW s \in Texts
  PROVE  \E f \in [0..Len(s) -> Splits] :
           /\ f[0] = <<<<>>>> /\ f[Len(s)] = Parts(s)
           /\ \A n \in 1..Len(s) : f[n] = Grow(f[n - 1], s[n])
<1> DEFINE p == CHOOSE f : IsParts(f, s)
<1>1. Len(s) \in Nat
  BY TextProperties
<1>2. PICK f \in [0..Len(s) -> Splits] : IsParts(f, s)
  BY PartsExist
<1>3. IsParts(p, s)
  BY <1>2
<1>4. Parts(s) = p[Len(s)]
  BY DEF Parts, IsParts
<1> HIDE DEF p
<1>5. p[0] = <<<<>>>> /\ \A n \in 1..Len(s) : p[n] = Grow(p[n - 1], s[n])
  BY <1>1, <1>3 DEF IsParts
<1>6. f[0] = <<<<>>>> /\ \A n \in 1..Len(s) : f[n] = Grow(f[n - 1], s[n])
  BY <1>1, <1>2 DEF IsParts
<1>7. \A n \in 0..Len(s) : p[n] = f[n]
  <2>1. p[0] = f[0] /\ \A n \in 1..Len(s) : p[n - 1] = f[n - 1] => p[n] = f[n]
    BY <1>5, <1>6
  <2>2. StepsAlike(p, f, Len(s))
    BY <2>1 DEF StepsAlike
  <2>3. Alike(p, f, Len(s))
    BY <1>1, <2>2, RecursionUnique
  <2>. QED  BY <2>3 DEF Alike
<1>8. f[Len(s)] = Parts(s)
  BY <1>1, <1>4, <1>7
<1>. QED  BY <1>6, <1>8

LEMMA PartsStep ==
  /\ Parts(<<>>) = <<<<>>>>
  /\ \A s \in Texts : Parts(s) \in Splits
  /\ \A s \in Texts, c \in Chars : Parts(Append(s, c)) = Grow(Parts(s), c)
<1>1. Parts(<<>>) = <<<<>>>>
  <2>1. <<>> \in Texts /\ Len(<<>>) = 0
    BY EmptySeq DEF Texts
  <2>2. PICK f \in [0..Len(<<>>) -> Splits] : f[0] = <<<<>>>> /\ f[Len(<<>>)] = Parts(<<>>)
    BY <2>1, PartsSteps
  <2>. QED  BY <2>1, <2>2
<1>2. ASSUME NEW s \in Texts PROVE Parts(s) \in Splits
  <2>1. PICK f \in [0..Len(s) -> Splits] : f[Len(s)] = Parts(s)
    BY PartsSteps
  <2>. QED  BY <2>1, TextProperties
<1>3. ASSUME NEW s \in Texts, NEW c \in Chars PROVE Parts(Append(s, c)) = Grow(Parts(s), c)
  <2> DEFINE t == Append(s, c)
  <2>1. /\ t \in Texts /\ Len(s) \in Nat /\ Len(t) = Len(s) + 1 /\ t[Len(s) + 1] = c
        /\ \A n \in 1..Len(s) : t[n] = s[n]
    BY AppendProperties, TextProperties DEF Texts
  <2> HIDE DEF t
  <2>2. PICK f \in [0..Len(s) -> Splits] :
          /\ f[0] = <<<<>>>> /\ f[Len(s)] = Parts(s)
          /\ \A n \in 1..Len(s) : f[n] = Grow(f[n - 1], s[n])
    BY PartsSteps
  <2>3. PICK g \in [0..Len(t) -> Splits] :
          /\ g[0] = <<<<>>>> /\ g[Len(t)] = Parts(t)
          /\ \A n \in 1..Len(t) : g[n] = Grow(g[n - 1], t[n])
    BY <2>1, PartsSteps
  <2>4. \A n \in 1..Len(s) : g[n] = Grow(g[n - 1], s[n])
    <3>1. \A n \in 1..Len(s) : n \in 1..Len(t)
      BY <2>1
    <3>. QED  BY <2>1, <2>3, <3>1
  <2>5. \A n \in 0..Len(s) : f[n] = g[n]
    <3>1. f[0] = g[0] /\ \A n \in 1..Len(s) : f[n - 1] = g[n - 1] => f[n] = g[n]
      BY <2>2, <2>3, <2>4
    <3>2. Len(s) \in Nat /\ StepsAlike(f, g, Len(s))
      BY <2>1, <3>1 DEF StepsAlike
    <3>3. Alike(f, g, Len(s))
      BY <3>2, RecursionUnique
    <3>. QED  BY <3>3 DEF Alike
  <2>6. g[Len(s)] = Parts(s) /\ Len(s) + 1 \in 1..Len(t) /\ (Len(s) + 1) - 1 = Len(s)
    BY <2>1, <2>2, <2>5
  <2>7. g[Len(t)] = Grow(Parts(s), c)
    BY <2>1, <2>3, <2>6
  <2>. QED  BY <2>3, <2>7 DEF t
<1>. QED  BY <1>1, <1>2, <1>3

(* Append, Front and Last.                                                    *)
LEMMA ConcatAppend ==
  ASSUME NEW S, NEW s \in Seq(S), NEW t \in Seq(S), NEW x \in S
  PROVE  s \o Append(t, x) = Append(s \o t, x)
<1>1. <<x>> \in Seq(S) /\ s \o t \in Seq(S)
  BY ConcatProperties
<1>2. Append(t, x) = t \o <<x>> /\ Append(s \o t, x) = (s \o t) \o <<x>>
  BY <1>1, AppendIsConcat
<1>3. (s \o t) \o <<x>> = s \o (t \o <<x>>)
  BY <1>1, ConcatAssociative
<1>. QED  BY <1>2, <1>3

LEMMA FrontAppend ==
  ASSUME NEW S, NEW q \in Seq(S), NEW x \in S
  PROVE  Front(Append(q, x)) = q /\ Last(Append(q, x)) = x
<1> DEFINE r == Append(q, x)
<1>1. /\ r \in Seq(S) /\ Len(q) \in Nat /\ Len(r) = Len(q) + 1
      /\ \A i \in 1..Len(q) : r[i] = q[i] /\ q[i] \in S /\ r[Len(q) + 1] = x
      /\ r[Len(q) + 1] = x
  BY AppendProperties, LenProperties, ElementOfSeq
<1> HIDE DEF r
<1>2. Last(r) = x
  BY <1>1 DEF Last
<1>3. 1 \in Int /\ Len(r) - 1 \in Int /\ \A i \in 1..(Len(r) - 1) : r[i] \in S
  BY <1>1
<1>4. /\ Front(r) \in Seq(S)
      /\ Len(Front(r)) = IF 1 <= Len(r) - 1 THEN (Len(r) - 1) - 1 + 1 ELSE 0
      /\ \A i \in 1..((Len(r) - 1) - 1 + 1) : Front(r)[i] = r[1 + i - 1]
  BY <1>3, SubSeqProperties DEF Front
<1>5. Len(Front(r)) = Len(q)
  BY <1>1, <1>4
<1>6. \A i \in 1..Len(q) : Front(r)[i] = q[i]
  <2>1. \A i \in 1..Len(q) : i \in 1..((Len(r) - 1) - 1 + 1) /\ 1 + i - 1 = i
    BY <1>1
  <2>. QED  BY <1>1, <1>4, <2>1
<1>7. Front(r) = q
  BY <1>4, <1>5, <1>6, SeqEqual
<1>. QED  BY <1>2, <1>7 DEF r

LEMMA FrontLast ==
  ASSUME NEW S, NEW q \in Seq(S), q # <<>>
  PROVE  q = Append(Front(q), Last(q)) /\ Front(q) \in Seq(S) /\ Last(q) \in S
<1>1. PICK r \in Seq(S), x \in S : q = Append(r, x)
  BY SequenceEmptyOrAppend
<1>2. Front(q) = r /\ Last(q) = x
  BY <1>1, FrontAppend
<1>. QED  BY <1>1, <1>2

(* Grow changes the last line only.                                           *)
LEMMA GrowAppend ==
  ASSUME NEW q \in Seq(Texts), NEW l \in Texts, NEW c \in Chars
  PROVE  Grow(Append(q, l), c) = IF c = LF THEN Append(Append(q, l), <<>>)
                                 ELSE Append(q, Append(l, c))
<1> DEFINE r == Append(q, l)
           m == Append(l, c)
<1>1. /\ r \in Seq(Texts) /\ Len(q) \in Nat /\ Len(r) = Len(q) + 1 /\ r[Len(q) + 1] = l
      /\ \A i \in 1..Len(q) : r[i] = q[i]
  BY AppendProperties, LenProperties
<1>2. m \in Texts
  BY AppendProperties DEF Texts
<1> HIDE DEF r, m
<1>3. CASE c = LF
  BY <1>3 DEF Grow, r
<1>4. CASE c # LF
  <2> DEFINE u == [r EXCEPT ![Len(r)] = m]
             v == Append(q, m)
  <2>1. Grow(r, c) = u
    BY <1>1, <1>4 DEF Grow, m
  <2>2. /\ u \in Seq(Texts) /\ Len(u) = Len(r)
        /\ \A j \in 1..Len(r) : u[j] = IF j = Len(r) THEN m ELSE r[j]
    <3>1. Len(r) \in 1..Len(r)
      BY <1>1
    <3>. QED  BY <1>1, <1>2, <3>1, ExceptSeq
  <2>3. /\ v \in Seq(Texts) /\ Len(v) = Len(q) + 1 /\ v[Len(q) + 1] = m
        /\ \A i \in 1..Len(q) : v[i] = q[i]
    BY <1>2, AppendProperties
  <2> HIDE DEF u, v
  <2>4. \A j \in 1..Len(u) : u[j] = v[j]
    <3> SUFFICES ASSUME NEW j \in 1..Len(u) PROVE u[j] = v[j]
      OBVIOUS
    <3>1. j \in 1..Len(r) /\ (j = Len(q) + 1 \/ j \in 1..Len(q))
      BY <1>1, <2>2
    <3>2. CASE j = Len(q) + 1
      BY <1>1, <2>2, <2>3, <3>1, <3>2
    <3>3. CASE j \in 1..Len(q)
      <4>1. j # Len(r)
        BY <1>1, <3>3
      <4>. QED  BY <1>1, <2>2, <2>3, <3>1, <3>3, <4>1
    <3>. QED  BY <3>1, <3>2, <3>3
  <2>5. Len(u) = Len(v)
    BY <1>1, <2>2, <2>3
  <2>6. u = v
    BY <2>2, <2>3, <2>4, <2>5, SeqEqual
  <2>. QED  BY <1>4, <2>1, <2>6 DEF r, m, v
<1>. QED  BY <1>3, <1>4

LEMMA GrowConcat ==
  ASSUME NEW p \in Seq(Texts), NEW q \in Splits, NEW c \in Chars
  PROVE  Grow(p \o q, c) = p \o Grow(q, c)
<1>1. PICK r \in Seq(Texts), l \in Texts : q = Append(r, l)
  BY SequenceEmptyOrAppend DEF Splits
<1>2. p \o r \in Seq(Texts) /\ p \o q = Append(p \o r, l)
  BY <1>1, ConcatAppend, ConcatProperties
<1>3. <<>> \in Texts /\ Append(l, c) \in Texts
  BY EmptySeq, AppendProperties DEF Texts
<1>4. CASE c = LF
  <2>1. Grow(p \o q, c) = Append(p \o q, <<>>) /\ Grow(q, c) = Append(q, <<>>)
    BY <1>1, <1>2, <1>4, GrowAppend
  <2>2. q \in Seq(Texts)
    BY DEF Splits
  <2>3. p \o Append(q, <<>>) = Append(p \o q, <<>>)
    <3> DEFINE e == <<>>
    <3>1. e \in Texts
      BY <1>3
    <3> HIDE DEF e
    <3>2. p \o Append(q, e) = Append(p \o q, e)
      BY <2>2, <3>1, ConcatAppend
    <3>. QED  BY <3>2 DEF e
  <2>. QED  BY <2>1, <2>3
<1>5. CASE c # LF
  <2>1. Grow(p \o q, c) = Append(p \o r, Append(l, c)) /\ Grow(q, c) = Append(r, Append(l, c))
    BY <1>1, <1>2, <1>5, GrowAppend
  <2> DEFINE m == Append(l, c)
  <2>2. m \in Texts
    BY <1>3
  <2> HIDE DEF m
  <2>3. p \o Append(r, m) = Append(p \o r, m)
    BY <2>2, ConcatAppend
  <2>. QED  BY <2>1, <2>3 DEF m
<1>. QED  BY <1>4, <1>5

(* A line feed begins a line.                                                 *)
LEMMA PartsOfConcat ==
  ASSUME NEW a \in Texts, NEW b \in Texts
  PROVE  Parts((a \o <<LF>>) \o b) = Parts(a) \o Parts(b)
<1> DEFINE h == a \o <<LF>>
           T == {s \in Texts : Parts(h \o s) = Parts(a) \o Parts(s)}
<1>1. LF \in Chars /\ h = Append(a, LF) /\ h \in Texts
  BY SeparatorsDiffer, AppendIsConcat, AppendProperties DEF Texts
<1>2. Parts(a) \in Splits /\ Parts(a) \in Seq(Texts) /\ Parts(<<>>) = <<<<>>>>
  BY PartsStep DEF Splits
<1> HIDE DEF h
<1>3. <<>> \in T
  <2>1. <<>> \in Texts /\ h \o <<>> = h
    BY <1>1, EmptySeq, ConcatEmptySeq DEF Texts
  <2>2. Parts(h) = Grow(Parts(a), LF)
    BY <1>1, PartsStep
  <2>3. Grow(Parts(a), LF) = Append(Parts(a), <<>>)
    BY DEF Grow
  <2>4. Append(Parts(a), <<>>) = Parts(a) \o <<<<>>>>
    BY <1>2, <2>1, AppendIsConcat
  <2>. QED  BY <1>2, <2>1, <2>2, <2>3, <2>4
<1>4. ASSUME NEW s \in Seq(Chars), NEW c \in Chars, s \in T PROVE Append(s, c) \in T
  <2>1. s \in Texts /\ Append(s, c) \in Texts /\ h \o s \in Texts
    BY <1>1, AppendProperties, ConcatProperties DEF Texts
  <2>2. h \o Append(s, c) = Append(h \o s, c)
    BY <1>1, ConcatAppend DEF Texts
  <2>3. /\ Parts(h \o Append(s, c)) = Grow(Parts(h \o s), c)
        /\ Parts(Append(s, c)) = Grow(Parts(s), c)
    BY <2>1, <2>2, PartsStep
  <2>4. Parts(h \o s) = Parts(a) \o Parts(s)
    BY <1>4
  <2>5. Grow(Parts(a) \o Parts(s), c) = Parts(a) \o Grow(Parts(s), c)
    <3>1. Parts(s) \in Splits
      BY <2>1, PartsStep
    <3>. QED  BY <1>2, <3>1, GrowConcat
  <2>. QED  BY <2>1, <2>3, <2>4, <2>5
<1> HIDE DEF T
<1>5. Seq(Chars) \subseteq T
  BY <1>3, <1>4, SequenceInduction
<1>6. b \in T
  BY <1>5 DEF Texts
<1>. QED  BY <1>6 DEF T, h

(* FlattenSeq: one text after the other.                                      *)
IsFlatten(g, q) == g = [i \in 1..Len(q) |-> IF i = 1 THEN q[i] ELSE g[i - 1] \o q[i]]

LEMMA FlattenSteps ==
  ASSUME NEW q \in Seq(Texts)
  PROVE  \E f \in [0..Len(q) -> Texts] :
           /\ f[0] = <<>> /\ f[Len(q)] = FlattenSeq(q)
           /\ \A n \in 1..Len(q) : f[n] = f[n - 1] \o q[n]
<1>1. Len(q) \in Nat /\ \A n \in 1..Len(q) : q[n] \in Texts
  BY LenProperties, ElementOfSeq
<1>2. <<>> \in Texts
  BY EmptySeq DEF Texts
<1>3. PICK f \in [0..Len(q) -> Texts] :
        f[0] = <<>> /\ \A n \in 1..Len(q) : f[n] = f[n - 1] \o q[n]
  <2> DEFINE G == [n \in 1..Len(q) |-> [s \in Texts |-> s \o q[n]]]
             e == <<>>
  <2>1. G \in [1..Len(q) -> [Texts -> Texts]]
    BY <1>1, TextConcat
  <2>2. e \in Texts
    BY <1>2
  <2> HIDE DEF e, G
  <2>3. PICK f \in [0..Len(q) -> Texts] : Recurs(f, e, G, Len(q))
    BY <1>1, <2>1, <2>2, RecursionExists
  <2>4. f[0] = e /\ \A n \in 1..Len(q) : f[n] = G[n][f[n - 1]]
    BY <2>3 DEF Recurs
  <2>5. ASSUME NEW n \in 1..Len(q) PROVE f[n] = f[n - 1] \o q[n]
    <3>1. f[n - 1] \in Texts
      BY <1>1
    <3>. QED  BY <2>4, <3>1 DEF G
  <2>. QED  BY <2>4, <2>5 DEF e
<1>4. CASE Len(q) = 0
  <2>1. q = <<>>
    BY <1>4, EmptySeq
  <2>. QED  BY <1>3, <1>4, <2>1 DEF FlattenSeq
<1>5. CASE Len(q) # 0
  <2> DEFINE g == CHOOSE h : IsFlatten(h, q)
             k == [n \in 0..Len(q) |-> IF n = 0 THEN <<>> ELSE g[n]]
             r == [i \in 1..Len(q) |-> f[i]]
  <2>1. IsFlatten(r, q)
    <3>1. ASSUME NEW i \in 1..Len(q)
          PROVE  r[i] = IF i = 1 THEN q[i] ELSE r[i - 1] \o q[i]
      <4>1. CASE i = 1
        <5>1. f[1] = <<>> \o q[1]
          <6>1. 1 \in 1..Len(q) /\ 1 - 1 = 0
            BY <4>1
          <6>2. f[1] = f[1 - 1] \o q[1]
            BY <1>3, <6>1
          <6>. QED  BY <1>3, <6>1, <6>2
        <5>2. <<>> \o q[1] = q[1]
          BY <1>1, <4>1, ConcatEmptySeq DEF Texts
        <5>. QED  BY <4>1, <5>1, <5>2
      <4>2. CASE i # 1
        <5>1. i - 1 \in 1..Len(q)
          BY <1>1, <4>2
        <5>. QED  BY <1>3, <4>2, <5>1
      <4>. QED  BY <4>1, <4>2
    <3>2. r = [i \in 1..Len(q) |-> IF i = 1 THEN q[i] ELSE r[i - 1] \o q[i]]
      BY <3>1
    <3> HIDE DEF r
    <3>. QED  BY <3>2 DEF IsFlatten
  <2>2. IsFlatten(g, q)
    BY <2>1
  <2>3. FlattenSeq(q) = g[Len(q)]
    BY <1>5 DEF FlattenSeq, IsFlatten
  <2> HIDE DEF g
  <2>4. \A n \in 1..Len(q) : g[n] = IF n = 1 THEN q[n] ELSE g[n - 1] \o q[n]
    BY <2>2 DEF IsFlatten
  <2>5. StepsAlike(f, k, Len(q))
    <3>1. k[0] = <<>>
      BY <1>1
    <3>2. ASSUME NEW n \in 1..Len(q), f[n - 1] = k[n - 1] PROVE f[n] = k[n]
      <4>1. k[n] = g[n] /\ f[n] = f[n - 1] \o q[n]
        <5>1. n \in 0..Len(q) /\ n # 0
          BY <1>1
        <5>2. k[n] = g[n]
          BY <5>1
        <5>. QED  BY <1>3, <5>2
      <4>2. CASE n = 1
        <5>1. f[n] = <<>> \o q[1] /\ g[n] = q[1]
          <6>1. 1 \in 1..Len(q) /\ 1 - 1 = 0
            BY <4>2
          <6>2. f[1] = f[1 - 1] \o q[1] /\ g[1] = q[1]
            BY <1>3, <2>4, <6>1
          <6>. QED  BY <1>3, <4>2, <6>1, <6>2
        <5>2. <<>> \o q[1] = q[1]
          BY <1>1, <4>2, ConcatEmptySeq DEF Texts
        <5>. QED  BY <4>1, <5>1, <5>2
      <4>3. CASE n # 1
        <5>1. n - 1 \in 0..Len(q) /\ n - 1 # 0
          BY <1>1, <4>3
        <5>2. k[n - 1] = g[n - 1]
          BY <5>1
        <5>. QED  BY <2>4, <3>2, <4>1, <4>3, <5>2
      <4>. QED  BY <4>2, <4>3
    <3> HIDE DEF k
    <3>. QED  BY <1>3, <3>1, <3>2 DEF StepsAlike
  <2>6. Alike(f, k, Len(q))
    <3> HIDE DEF k
    <3>. QED  BY <1>1, <2>5, RecursionUnique
  <2>7. f[Len(q)] = g[Len(q)]
    <3>1. Len(q) \in 0..Len(q)
      BY <1>1
    <3>2. f[Len(q)] = k[Len(q)]
      BY <2>6, <3>1 DEF Alike
    <3>. QED  BY <1>5, <3>1, <3>2
  <2>. QED  BY <1>3, <2>3, <2>7
<1>. QED  BY <1>4, <1>5

LEMMA FlattenStep ==
  /\ FlattenSeq(<<>>) = <<>>
  /\ \A q \in Seq(Texts) : FlattenSeq(q) \in Texts
  /\ \A q \in Seq(Texts), x \in Texts : FlattenSeq(Append(q, x)) = FlattenSeq(q) \o x
<1>1. FlattenSeq(<<>>) = <<>>
  <2>1. Len(<<>>) = 0
    BY EmptySeq
  <2>. QED  BY <2>1 DEF FlattenSeq
<1>2. ASSUME NEW q \in Seq(Texts) PROVE FlattenSeq(q) \in Texts
  <2>1. PICK f \in [0..Len(q) -> Texts] : f[Len(q)] = FlattenSeq(q)
    BY FlattenSteps
  <2>. QED  BY <2>1, LenProperties
<1>3. ASSUME NEW q \in Seq(Texts), NEW x \in Texts
      PROVE  FlattenSeq(Append(q, x)) = FlattenSeq(q) \o x
  <2> DEFINE t == Append(q, x)
  <2>1. /\ t \in Seq(Texts) /\ Len(q) \in Nat /\ Len(t) = Len(q) + 1 /\ t[Len(q) + 1] = x
        /\ \A n \in 1..Len(q) : t[n] = q[n]
    BY AppendProperties, LenProperties
  <2> HIDE DEF t
  <2>2. PICK f \in [0..Len(q) -> Texts] :
          /\ f[0] = <<>> /\ f[Len(q)] = FlattenSeq(q)
          /\ \A n \in 1..Len(q) : f[n] = f[n - 1] \o q[n]
    BY FlattenSteps
  <2>3. PICK g \in [0..Len(t) -> Texts] :
          /\ g[0] = <<>> /\ g[Len(t)] = FlattenSeq(t)
          /\ \A n \in 1..Len(t) : g[n] = g[n - 1] \o t[n]
    BY <2>1, FlattenSteps
  <2>4. \A n \in 1..Len(q) : g[n] = g[n - 1] \o q[n]
    <3>1. \A n \in 1..Len(q) : n \in 1..Len(t)
      BY <2>1
    <3>. QED  BY <2>1, <2>3, <3>1
  <2>5. Alike(f, g, Len(q))
    <3>1. StepsAlike(f, g, Len(q))
      BY <2>2, <2>3, <2>4 DEF StepsAlike
    <3>. QED  BY <2>1, <3>1, RecursionUnique
  <2>6. g[Len(q)] = FlattenSeq(q) /\ Len(q) + 1 \in 1..Len(t) /\ (Len(q) + 1) - 1 = Len(q)
    <3>1. Len(q) \in 0..Len(q) /\ Len(q) + 1 \in 1..Len(t) /\ (Len(q) + 1) - 1 = Len(q)
      BY <2>1
    <3>. QED  BY <2>2, <2>5, <3>1 DEF Alike
  <2>7. g[Len(t)] = FlattenSeq(q) \o x
    BY <2>1, <2>3, <2>6
  <2>. QED  BY <2>3, <2>7 DEF t
<1>. QED  BY <1>1, <1>2, <1>3

(* Lines, each with the same text behind it, and the text they make.          *)
Followed(q, e) == [n \in 1..Len(q) |-> q[n] \o e]
Ended(q, e) == FlattenSeq(Followed(q, e))

LEMMA FollowedStep ==
  ASSUME NEW e \in Texts
  PROVE  /\ Followed(<<>>, e) = <<>>
         /\ \A q \in Seq(Texts) : Followed(q, e) \in Seq(Texts) /\ Len(Followed(q, e)) = Len(q)
         /\ \A q \in Seq(Texts), x \in Texts :
              Followed(Append(q, x), e) = Append(Followed(q, e), x \o e)
<1>1. ASSUME NEW q \in Seq(Texts) PROVE Followed(q, e) \in Seq(Texts) /\ Len(Followed(q, e)) = Len(q)
  <2>1. Len(q) \in Nat /\ \A n \in 1..Len(q) : q[n] \o e \in Texts
    BY LenProperties, ElementOfSeq, TextConcat
  <2>. QED  BY <2>1 DEF Followed
<1>2. ASSUME NEW q \in Seq(Texts), NEW x \in Texts PROVE Followed(Append(q, x), e) = Append(Followed(q, e), x \o e)
  <2> DEFINE t == Append(q, x)
             y == x \o e
             r == Followed(q, e)
             u == Append(r, y)
  <2>1. /\ t \in Seq(Texts) /\ Len(q) \in Nat /\ Len(t) = Len(q) + 1 /\ t[Len(q) + 1] = x
        /\ \A n \in 1..Len(q) : t[n] = q[n]
    BY AppendProperties, LenProperties
  <2>2. y \in Texts
    BY TextConcat
  <2>3. r \in Seq(Texts) /\ Len(r) = Len(q) /\ \A n \in 1..Len(q) : r[n] = q[n] \o e
    BY <1>1 DEF Followed
  <2> HIDE DEF t, y, r
  <2>4. /\ u \in Seq(Texts) /\ Len(u) = Len(q) + 1 /\ u[Len(q) + 1] = y
        /\ \A n \in 1..Len(q) : u[n] = q[n] \o e
    BY <2>2, <2>3, AppendProperties
  <2> DEFINE v == Followed(t, e)
  <2>5. v \in Seq(Texts) /\ Len(v) = Len(q) + 1
    BY <1>1, <2>1
  <2>6. \A n \in 1..(Len(q) + 1) : v[n] = t[n] \o e
    BY <2>1 DEF Followed
  <2> HIDE DEF u, v
  <2>7. ASSUME NEW n \in 1..(Len(q) + 1) PROVE v[n] = u[n]
    <3>1. CASE n = Len(q) + 1
      BY <2>1, <2>4, <2>6, <3>1 DEF y
    <3>2. CASE n # Len(q) + 1
      <4>1. n \in 1..Len(q)
        BY <2>1, <3>2
      <4>. QED  BY <2>1, <2>4, <2>6, <4>1
    <3>. QED  BY <3>1, <3>2
  <2>8. v = u
    BY <2>4, <2>5, <2>7, SeqEqual
  <2>. QED  BY <2>8 DEF t, y, r, u, v
<1>3. Followed(<<>>, e) = <<>>
  BY DEF Followed
<1>. QED  BY <1>1, <1>2, <1>3

LEMMA EndedStep ==
  ASSUME NEW e \in Texts
  PROVE  /\ Ended(<<>>, e) = <<>>
         /\ \A q \in Seq(Texts) : Ended(q, e) \in Texts
         /\ \A q \in Seq(Texts), x \in Texts : Ended(Append(q, x), e) = Ended(q, e) \o (x \o e)
<1>1. \A q : Ended(q, e) = FlattenSeq(Followed(q, e))
  BY DEF Ended
<1>2. Ended(<<>>, e) = <<>>
  BY FollowedStep, <1>1, FlattenStep
<1>3. \A q \in Seq(Texts) : Ended(q, e) \in Texts
  BY FollowedStep, <1>1, FlattenStep
<1>4. ASSUME NEW q \in Seq(Texts), NEW x \in Texts
      PROVE  Ended(Append(q, x), e) = Ended(q, e) \o (x \o e)
  <2>1. x \o e \in Texts /\ Followed(q, e) \in Seq(Texts)
    BY FollowedStep, TextConcat
  <2> DEFINE y == x \o e
  <2>2. Ended(Append(q, x), e) = FlattenSeq(Append(Followed(q, e), y))
    <3>1. Followed(Append(q, x), e) = Append(Followed(q, e), x \o e)
      BY FollowedStep
    <3>. QED  BY <1>1, <3>1
  <2> HIDE DEF y
  <2>3. y \in Texts
    BY <2>1 DEF y
  <2>4. FlattenSeq(Append(Followed(q, e), y)) = FlattenSeq(Followed(q, e)) \o y
    BY <2>1, <2>3, FlattenStep
  <2>. QED  BY <1>1, <2>2, <2>4 DEF y
<1>. QED  BY <1>2, <1>3, <1>4

LEMMA PartsOfTail ==
  ASSUME NEW a \in Texts, NEW q \in Seq(Texts), NEW x \in Texts, Parts(a) = Append(q, x),
         NEW l \in Texts, \A n \in 1..Len(l) : l[n] # LF
  PROVE  Parts(a \o l) = Append(q, x \o l)
<1> DEFINE T == {s \in Texts : (\A n \in 1..Len(s) : s[n] # LF) => Parts(a \o s) = Append(q, x \o s)}
<1>1. <<>> \in T
  <2>1. <<>> \in Texts /\ a \o <<>> = a /\ x \o <<>> = x
    BY EmptySeq, ConcatEmptySeq DEF Texts
  <2>. QED  BY <2>1
<1>2. ASSUME NEW s \in Seq(Chars), NEW c \in Chars, s \in T PROVE Append(s, c) \in T
  <2> DEFINE t == Append(s, c)
  <2>1. /\ t \in Texts /\ Len(s) \in Nat /\ Len(t) = Len(s) + 1 /\ t[Len(s) + 1] = c
        /\ \A n \in 1..Len(s) : t[n] = s[n]
    BY AppendProperties, LenProperties DEF Texts
  <2> HIDE DEF t
  <2>2. ASSUME \A n \in 1..Len(t) : t[n] # LF PROVE Parts(a \o t) = Append(q, x \o t)
    <3>1. c # LF
      <4>1. Len(s) + 1 \in 1..Len(t)
        BY <2>1
      <4>. QED  BY <2>1, <2>2, <4>1
    <3>2. \A n \in 1..Len(s) : s[n] # LF
      <4>1. \A n \in 1..Len(s) : n \in 1..Len(t)
        BY <2>1
      <4>. QED  BY <2>1, <2>2, <4>1
    <3>3. Parts(a \o s) = Append(q, x \o s)
      BY <1>2, <3>2
    <3>4. a \o t = Append(a \o s, c) /\ x \o t = Append(x \o s, c)
      <4>1. a \o Append(s, c) = Append(a \o s, c)
        BY ConcatAppend DEF Texts
      <4>2. x \o Append(s, c) = Append(x \o s, c)
        BY ConcatAppend DEF Texts
      <4>. QED  BY <4>1, <4>2 DEF t
    <3>5. a \o s \in Texts /\ x \o s \in Texts
      BY TextConcat DEF Texts
    <3>6. Parts(a \o t) = Grow(Append(q, x \o s), c)
      BY <3>3, <3>4, <3>5, PartsStep
    <3>7. Grow(Append(q, x \o s), c) = Append(q, Append(x \o s, c))
      BY <3>1, <3>5, GrowAppend
    <3>. QED  BY <3>4, <3>6, <3>7
  <2>. QED  BY <2>1, <2>2 DEF t
<1> HIDE DEF T
<1>3. Seq(Chars) \subseteq T
  BY <1>1, <1>2, SequenceInduction
<1>4. l \in T
  BY <1>3 DEF Texts
<1>. QED  BY <1>4 DEF T

NoFeed(s) == \A n \in 1..Len(s) : s[n] # LF

LEMMA PartsBehind ==
  \A a, l, x \in Texts, q \in Seq(Texts) :
    NoFeed(l) /\ Parts(a) = Append(q, x) => Parts(a \o l) = Append(q, x \o l)
<1> SUFFICES ASSUME NEW a \in Texts, NEW l \in Texts, NEW x \in Texts, NEW q \in Seq(Texts),
                    NoFeed(l), Parts(a) = Append(q, x)
             PROVE  Parts(a \o l) = Append(q, x \o l)
  OBVIOUS
<1>1. \A n \in 1..Len(l) : l[n] # LF
  BY DEF NoFeed
<1>. QED  BY <1>1, PartsOfTail

LEMMA PartsOfLine ==
  ASSUME NEW l \in Texts, \A n \in 1..Len(l) : l[n] # LF
  PROVE  Parts(l) = <<l>>
<1> DEFINE e == <<>>
<1>1. e \in Texts /\ e \in Seq(Texts) /\ e \o l = l /\ Append(e, l) = <<l>>
  BY EmptySeq, ConcatEmptySeq DEF Texts
<1>2. Parts(e) = Append(e, e)
  BY PartsStep
<1> HIDE DEF e
<1>3. Parts(e \o l) = Append(e, e \o l)
  BY <1>1, <1>2, PartsOfTail
<1>. QED  BY <1>1, <1>3

(* The lines that getline reads, of two texts with a line feed between them   *)
(* and put together again with a line feed behind each.                       *)
LEMMA LinesOfConcat ==
  ASSUME NEW a \in Texts, NEW b \in Texts
  PROVE  /\ LinesOf((a \o <<LF>>) \o b) = Parts(a) \o LinesOf(b)
         /\ LinesOf(b) \in Seq(Texts)
<1>1. PICK q \in Seq(Texts), x \in Texts : Parts(b) = Append(q, x)
  BY PartsStep, SequenceEmptyOrAppend DEF Splits
<1>2. Last(Parts(b)) = x /\ Front(Parts(b)) = q
  BY <1>1, FrontAppend
<1>3. Parts(a) \in Seq(Texts) /\ Parts(a) \o q \in Seq(Texts)
  BY PartsStep, ConcatProperties DEF Splits
<1>4. Parts((a \o <<LF>>) \o b) = Append(Parts(a) \o q, x)
  <2>1. Parts((a \o <<LF>>) \o b) = Parts(a) \o Append(q, x)
    BY <1>1, PartsOfConcat
  <2> DEFINE r == Parts(a)
  <2>2. r \in Seq(Texts)
    BY <1>3
  <2> HIDE DEF r
  <2>3. r \o Append(q, x) = Append(r \o q, x)
    BY <1>1, <2>2, ConcatAppend
  <2>. QED  BY <2>1, <2>3 DEF r
<1>5. Last(Parts((a \o <<LF>>) \o b)) = x /\ Front(Parts((a \o <<LF>>) \o b)) = Parts(a) \o q
  <2> DEFINE r == Parts(a) \o q
  <2>1. r \in Seq(Texts)
    BY <1>3
  <2> HIDE DEF r
  <2>2. Last(Append(r, x)) = x /\ Front(Append(r, x)) = r
    BY <1>1, <2>1, FrontAppend
  <2>. QED  BY <1>4, <2>2 DEF r
<1>6. LinesOf(b) = IF x = <<>> THEN q ELSE Parts(b)
  BY <1>2 DEF LinesOf
<1>7. LinesOf((a \o <<LF>>) \o b) = IF x = <<>> THEN Parts(a) \o q ELSE Parts((a \o <<LF>>) \o b)
  BY <1>5 DEF LinesOf
<1>8. Parts(b) \in Seq(Texts)
  BY PartsStep DEF Splits
<1>. QED  BY <1>6, <1>7, <1>8, PartsOfConcat

LEMMA PartsJoined ==
  ASSUME NEW b \in Texts
  PROVE  Ended(Parts(b), <<LF>>) = b \o <<LF>>
<1> DEFINE e == <<LF>>
           nil == <<>>
           T == {s \in Texts : Ended(Parts(s), e) = s \o e}
<1>1. e \in Texts /\ nil \in Texts /\ LF \in Chars /\ nil \in Seq(Texts) /\ Parts(nil) = Append(nil, nil)
      /\ nil \o e = e /\ \A s \in Texts : Append(s, LF) = s \o e
  BY SeparatorsDiffer, OneCharacter, PartsStep, EmptySeq, ConcatEmptySeq, AppendIsConcat DEF Texts
<1>2. Ended(nil, e) = nil
  BY <1>1, EndedStep
<1> HIDE DEF e, nil, T
<1>3. nil \in T
  <2>1. Ended(Append(nil, nil), e) = Ended(nil, e) \o (nil \o e)
    BY <1>1, EndedStep
  <2>. QED  BY <1>1, <1>2, <2>1 DEF T
<1>4. ASSUME NEW s \in Texts, NEW c \in Chars, s \in T PROVE Append(s, c) \in T
  <2>1. Append(s, c) \in Texts
    BY AppendProperties DEF Texts
  <2>2. PICK q \in Seq(Texts), l \in Texts : Parts(s) = Append(q, l)
    BY PartsStep, SequenceEmptyOrAppend DEF Splits
  <2>3. Parts(Append(s, c)) = Grow(Append(q, l), c)
    BY <2>2, PartsStep
  <2>4. Ended(Append(q, l), e) = s \o e
    BY <1>4, <2>2 DEF T
  <2>5. Ended(q, e) \in Texts /\ Ended(q, e) \o l \in Texts
    BY <1>1, EndedStep, TextConcat
  <2>6. Ended(q, e) \o l = s
    <3>1. Ended(Append(q, l), e) = Ended(q, e) \o (l \o e)
      BY <1>1, EndedStep
    <3>2. Ended(q, e) \o (l \o e) = (Ended(q, e) \o l) \o e
      <4> DEFINE r == Ended(q, e)
      <4>1. r \in Texts /\ e \in Texts
        BY <1>1, <2>5
      <4> HIDE DEF r
      <4>2. Cat(Cat(r, l), e) = Cat(r, Cat(l, e))
        BY <4>1, TextAlgebra
      <4>. QED  BY <4>2 DEF Cat, r
    <3>3. (Ended(q, e) \o l) \o e = s \o e
      BY <2>4, <3>1, <3>2
    <3>4. Ended(q, e) \o l \in Texts /\ e \in Texts
      BY <1>1, <2>5
    <3>. QED  BY <3>3, <3>4, TextCancel
  <2>7. CASE c = LF
    <3>1. Grow(Append(q, l), c) = Append(Append(q, l), nil) /\ Append(q, l) \in Seq(Texts)
      BY <2>7, GrowAppend, AppendProperties DEF nil
    <3>2. Ended(Append(Append(q, l), nil), e) = (s \o e) \o (nil \o e)
      <4> DEFINE r == Append(q, l)
      <4>1. r \in Seq(Texts)
        BY <3>1
      <4> HIDE DEF r
      <4>2. Ended(Append(r, nil), e) = Ended(r, e) \o (nil \o e)
        BY <1>1, <4>1, EndedStep
      <4>. QED  BY <2>4, <4>2 DEF r
    <3>. QED  BY <1>1, <2>1, <2>3, <2>7, <3>1, <3>2 DEF T
  <2>8. CASE c # LF
    <3> DEFINE m == Append(l, c)
    <3>1. m \in Texts /\ Grow(Append(q, l), c) = Append(q, m)
      BY <2>8, GrowAppend, AppendProperties DEF Texts
    <3>2. Ended(q, e) \o m = Append(s, c)
      BY <2>5, <2>6, ConcatAppend DEF Texts
    <3> HIDE DEF m
    <3>3. Ended(Append(q, m), e) = Ended(q, e) \o (m \o e)
      BY <1>1, <3>1, EndedStep
    <3>4. Ended(q, e) \o (m \o e) = (Ended(q, e) \o m) \o e
      <4>1. Ended(q, e) \in Texts /\ e \in Texts /\ m \in Texts
        BY <1>1, <2>5, <3>1
      <4> DEFINE r == Ended(q, e)
      <4> HIDE DEF r
      <4>2. Cat(Cat(r, m), e) = Cat(r, Cat(m, e))
        BY <4>1, TextAlgebra DEF r
      <4>. QED  BY <4>2 DEF Cat, r
    <3>. QED  BY <2>1, <2>3, <3>1, <3>2, <3>3, <3>4 DEF T
  <2>. QED  BY <2>7, <2>8
<1>5. Seq(Chars) \subseteq T
  BY <1>3, <1>4, SequenceInduction DEF nil, Texts
<1>6. b \in T
  BY <1>5 DEF Texts
<1>. QED  BY <1>6 DEF T, e

LEMMA LinesJoined ==
  ASSUME NEW b \in Texts
  PROVE  Ended(LinesOf(b), <<LF>>) \in {b, b \o <<LF>>}
<1> DEFINE e == <<LF>>
           nil == <<>>
<1>1. e \in Texts /\ nil \in Texts /\ nil \o e = e
  BY SeparatorsDiffer, OneCharacter, EmptySeq, ConcatEmptySeq DEF Texts
<1>2. Ended(Parts(b), e) = b \o e
  BY PartsJoined
<1>3. PICK q \in Seq(Texts), x \in Texts : Parts(b) = Append(q, x)
  BY PartsStep, SequenceEmptyOrAppend DEF Splits
<1>4. Last(Parts(b)) = x /\ Front(Parts(b)) = q
  BY <1>3, FrontAppend
<1>5. LinesOf(b) = IF x = nil THEN q ELSE Parts(b)
  BY <1>4 DEF LinesOf
<1> HIDE DEF e, nil
<1>6. ASSUME x = nil PROVE Ended(q, e) = b
  <2>1. Ended(q, e) \in Texts /\ Ended(Append(q, x), e) = Ended(q, e) \o (x \o e)
    BY <1>1, EndedStep
  <2>2. Ended(q, e) \o e = b \o e
    BY <1>1, <1>2, <1>3, <1>6, <2>1
  <2>. QED  BY <1>1, <2>1, <2>2, TextCancel
<1>. QED  BY <1>2, <1>5, <1>6 DEF e

-----------------------------------------------------------------------------
(* A request taken apart.                                                     *)
LEMMA SliceMiddle ==
  ASSUME NEW a \in Texts, NEW b \in Texts, NEW c \in Texts
  PROVE  SubSeq(a \o (b \o c), Len(a) + 1, Len(a) + Len(b)) = b
<1> DEFINE t == b \o c
           w == a \o t
           r == SubSeq(w, Len(a) + 1, Len(a) + Len(b))
<1>1. Len(a) \in Nat /\ Len(b) \in Nat /\ Len(c) \in Nat
  BY TextProperties
<1>2. t \in Texts /\ Len(t) = Len(b) + Len(c) /\ \A n \in 1..Len(b) : t[n] = b[n]
  BY TextConcat
<1> HIDE DEF t
<1>3. w \in Texts /\ Len(w) = Len(a) + Len(t) /\ \A n \in 1..Len(t) : w[Len(a) + n] = t[n]
  BY <1>2, TextConcat
<1> HIDE DEF w
<1>4. /\ Len(a) + 1 \in Nat \ {0} /\ Len(a) + Len(b) \in Nat /\ Len(a) + Len(b) <= Len(w)
      /\ Len(a) + 1 <= (Len(a) + Len(b)) + 1 /\ (Len(a) + Len(b)) + 1 - (Len(a) + 1) = Len(b)
  BY <1>1, <1>2, <1>3
<1>5. r \in Texts /\ Len(r) = Len(b) /\ \A i \in 1..Len(b) : r[i] = w[(Len(a) + 1) + i - 1]
  BY <1>3, <1>4, TextSlice
<1> HIDE DEF r
<1>6. ASSUME NEW i \in 1..Len(b) PROVE r[i] = b[i]
  <2>1. (Len(a) + 1) + i - 1 = Len(a) + i /\ i \in 1..Len(t)
    BY <1>1, <1>2
  <2>2. r[i] = w[Len(a) + i]
    BY <1>5, <2>1
  <2>. QED  BY <1>2, <1>3, <2>1, <2>2
<1>7. r = b
  BY <1>5, <1>6, TextsEqual
<1>. QED  BY <1>7 DEF r, w, t

LEMMA FindNewLine ==
  ASSUME NEW s \in Texts, NEW t \in Texts, OneLine(s)
  PROVE  Find((s \o NewLine) \o t, NewLine, 1) = Len(s) + 1
<1> DEFINE u == s \o NewLine
           w == u \o t
           k == Len(s) + 1
<1>1. Len(s) \in Nat /\ Len(t) \in Nat /\ 1 \in 1..Len(NewLine) /\ 2 \in 1..Len(NewLine)
  BY TextProperties, Patterns
<1>2. /\ u \in Texts /\ Len(u) = Len(s) + 2 /\ u[Len(s) + 1] = CR /\ u[Len(s) + 2] = LF
      /\ \A n \in 1..Len(s) : u[n] = s[n]
  <2>1. /\ u \in Texts /\ Len(u) = Len(s) + Len(NewLine) /\ \A n \in 1..Len(s) : u[n] = s[n]
        /\ \A n \in 1..Len(NewLine) : u[Len(s) + n] = NewLine[n]
    BY TextConcat, Patterns
  <2>2. Len(NewLine) = 2 /\ NewLine[1] = CR /\ NewLine[2] = LF
    BY Patterns
  <2> HIDE DEF u
  <2>. QED  BY <1>1, <2>1, <2>2
<1> HIDE DEF u
<1>3. w \in Texts /\ Len(w) = Len(u) + Len(t) /\ \A n \in 1..Len(u) : w[n] = u[n]
  BY <1>2, TextConcat
<1> HIDE DEF w
<1>4. /\ Len(s) + 1 \in 1..Len(u) /\ Len(s) + 2 \in 1..Len(u)
      /\ \A n \in 1..Len(s) : n \in 1..Len(u)
  BY <1>1, <1>2
<1>5. w[Len(s) + 1] = CR /\ w[Len(s) + 2] = LF /\ \A n \in 1..Len(s) : w[n] # CR
  BY <1>2, <1>3, <1>4 DEF OneLine
<1>6. /\ 1 \in Nat \ {0} /\ k \in Nat /\ 1 <= k /\ k + 2 <= Len(w) + 1
      /\ k + 1 - 1 = Len(s) + 1 /\ k + 2 - 1 = Len(s) + 2
  BY <1>1, <1>2, <1>3
<1>7. MatchAt(w, NewLine, k)
  BY <1>5, <1>6, Patterns
<1>8. ASSUME NEW n \in Nat, 1 <= n, n < k PROVE ~MatchAt(w, NewLine, n)
  <2>1. n \in 1..Len(s) /\ n + 1 - 1 = n
    BY <1>1, <1>8
  <2>2. w[n + 1 - 1] # CR
    BY <1>5, <2>1
  <2>. QED  BY <2>2, Patterns
<1>9. NewLine \in Texts /\ NewLine # <<>> /\ k + Len(NewLine) <= Len(w) + 1
  BY <1>6, Patterns
<1> HIDE DEF k
<1>10. Find(w, NewLine, 1) = k
  BY <1>3, <1>6, <1>7, <1>8, <1>9, FindIs
<1>. QED  BY <1>10 DEF k, w, u

(* The first blank line is that behind lines of which none is short.          *)
NoBlank(s) == \A n \in Nat : 1 <= n /\ n + 2 <= Len(s) => ~(s[n] = CR /\ s[n + 2] = CR)

LEMMA FindBlank ==
  ASSUME NEW a \in Texts, NEW g \in Texts, NEW t \in Texts, NoBlank(g \o NewLine)
  PROVE  Find(a \o (g \o (Return \o t)), Return, Len(a) + 1) = Len(a) + Len(g) + 1
<1> DEFINE h == g \o NewLine
           r == Return \o t
           x == g \o r
           w == a \o x
           k == Len(a) + Len(g) + 1
<1>1. Len(a) \in Nat /\ Len(g) \in Nat /\ Len(t) \in Nat
  BY TextProperties
<1>2. /\ r \in Texts /\ Len(r) = 4 + Len(t) /\ r[1] = CR /\ r[2] = LF /\ r[3] = CR /\ r[4] = LF
  <2>1. Return \in Texts /\ Len(Return) = 4 /\ Return[1] = CR /\ Return[2] = LF
        /\ Return[3] = CR /\ Return[4] = LF
    <3>1. Return[1] = CR /\ Return[2] = LF /\ Return[3] = CR /\ Return[4] = LF
      BY DEF Return
    <3>. QED  BY <3>1, Patterns
  <2>2. 1 \in 1..4 /\ 2 \in 1..4 /\ 3 \in 1..4 /\ 4 \in 1..4
    OBVIOUS
  <2>3. r \in Texts /\ Len(r) = Len(Return) + Len(t) /\ \A n \in 1..Len(Return) : r[n] = Return[n]
    BY <2>1, TextConcat
  <2> HIDE DEF r
  <2>. QED  BY <2>1, <2>2, <2>3
<1> HIDE DEF r
<1>3. /\ x \in Texts /\ Len(x) = Len(g) + Len(r)
      /\ \A n \in 1..Len(g) : x[n] = g[n]
      /\ \A n \in 1..Len(r) : x[Len(g) + n] = r[n]
  BY <1>2, TextConcat
<1> HIDE DEF x
<1>4. w \in Texts /\ Len(w) = Len(a) + Len(x) /\ \A n \in 1..Len(x) : w[Len(a) + n] = x[n]
  BY <1>3, TextConcat
<1> HIDE DEF w
<1>5. /\ h \in Texts /\ Len(h) = Len(g) + 2 /\ \A n \in 1..Len(g) : h[n] = g[n]
      /\ h[Len(g) + 1] = CR /\ h[Len(g) + 2] = LF
  <2>1. /\ h \in Texts /\ Len(h) = Len(g) + Len(NewLine) /\ \A n \in 1..Len(g) : h[n] = g[n]
        /\ \A n \in 1..Len(NewLine) : h[Len(g) + n] = NewLine[n]
    BY TextConcat, Patterns
  <2>2. 1 \in 1..Len(NewLine) /\ 2 \in 1..Len(NewLine) /\ NewLine[1] = CR /\ NewLine[2] = LF
        /\ Len(NewLine) = 2
    BY Patterns
  <2> HIDE DEF h
  <2>. QED  BY <2>1, <2>2
<1>6. NoBlank(h)
  OBVIOUS
<1> HIDE DEF h
<1>7. MatchAt(w, Return, k)
  <2>1. ASSUME NEW i \in 1..4 PROVE w[k + i - 1] = r[i]
    <3>1. k + i - 1 = Len(a) + (Len(g) + i) /\ Len(g) + i \in 1..Len(x) /\ i \in 1..Len(r)
      BY <1>1, <1>2, <1>3
    <3>. QED  BY <1>3, <1>4, <3>1
  <2>2. w[k + 1 - 1] = CR /\ w[k + 2 - 1] = LF /\ w[k + 3 - 1] = CR /\ w[k + 4 - 1] = LF
    <3>1. 1 \in 1..4 /\ 2 \in 1..4 /\ 3 \in 1..4 /\ 4 \in 1..4
      OBVIOUS
    <3> HIDE DEF k
    <3>. QED  BY <1>2, <2>1, <3>1
  <2> HIDE DEF k
  <2>. QED  BY <2>2, Patterns
<1>8. \A n \in 1..Len(h) : n # Len(h) => x[n] = h[n]
  <2> SUFFICES ASSUME NEW n \in 1..Len(h), n # Len(h) PROVE x[n] = h[n]
    OBVIOUS
  <2>1. CASE n = Len(g) + 1
    <3>1. 1 \in 1..Len(r)
      BY <1>1, <1>2
    <3>. QED  BY <1>2, <1>3, <1>5, <2>1, <3>1
  <2>2. CASE n # Len(g) + 1
    <3>1. n \in 1..Len(g)
      BY <1>1, <1>5, <2>2
    <3>. QED  BY <1>3, <1>5, <3>1
  <2>. QED  BY <2>1, <2>2
<1>9. ASSUME NEW n \in Nat, Len(a) + 1 <= n, n < k PROVE ~MatchAt(w, Return, n)
  <2> DEFINE j == n - Len(a)
  <2>1. /\ j \in Nat /\ 1 <= j /\ j <= Len(g) /\ n + 1 - 1 = Len(a) + j /\ n + 3 - 1 = Len(a) + (j + 2)
        /\ j \in 1..Len(h) /\ j \in 1..Len(x) /\ j + 2 \in 1..Len(x) /\ j # Len(h)
    BY <1>1, <1>2, <1>3, <1>5, <1>9
  <2> HIDE DEF j
  <2>2. w[n + 1 - 1] = h[j] /\ w[n + 3 - 1] = x[j + 2]
    BY <1>4, <1>8, <2>1
  <2>3. CASE j + 2 = Len(h)
    <3>1. j = Len(g)
      BY <1>1, <1>5, <2>1, <2>3
    <3>2. x[j + 2] = LF
      <4>1. 2 \in 1..Len(r)
        BY <1>1, <1>2
      <4>. QED  BY <1>2, <1>3, <3>1, <4>1
    <3>. QED  BY <2>2, <3>2, Patterns, SeparatorsDiffer
  <2>4. CASE j + 2 # Len(h)
    <3>1. j + 2 \in 1..Len(h) /\ j + 2 <= Len(h)
      BY <1>1, <1>5, <2>1, <2>4
    <3>2. x[j + 2] = h[j + 2] /\ ~(h[j] = CR /\ h[j + 2] = CR)
      BY <1>6, <1>8, <2>1, <2>4, <3>1 DEF NoBlank
    <3>. QED  BY <2>2, <3>2, Patterns
  <2>. QED  BY <2>3, <2>4
<1>10. /\ Len(a) + 1 \in Nat \ {0} /\ k \in Nat /\ Len(a) + 1 <= k /\ k + 4 <= Len(w) + 1
  BY <1>1, <1>2, <1>3, <1>4
<1>11. Return \in Texts /\ Return # <<>> /\ k + Len(Return) <= Len(w) + 1
  BY <1>10, Patterns
<1> HIDE DEF k
<1>12. Find(w, Return, Len(a) + 1) = k
  BY <1>4, <1>7, <1>9, <1>10, <1>11, FindIs
<1>. QED  BY <1>12 DEF k, w, x, r

LEMMA Regroup ==
  ASSUME NEW a \in Texts, NEW g \in Texts, NEW t \in Texts
  PROVE  /\ ((a \o (g \o NewLine)) \o NewLine) \o t = a \o (g \o (Return \o t))
         /\ a \o (g \o (Return \o t)) = ((a \o g) \o Return) \o t
         /\ (a \o g) \o Return \in Texts /\ Len((a \o g) \o Return) = (Len(a) + Len(g)) + Len(Return)
<1>1. NewLine \in Texts /\ Return \in Texts /\ Cat(NewLine, NewLine) = Return
  BY Patterns DEF Cat
<1>2. Cat(Cat(Cat(a, Cat(g, NewLine)), NewLine), t) = Cat(a, Cat(g, Cat(Cat(NewLine, NewLine), t)))
  BY <1>1, TextAlgebra
<1>3. Cat(a, Cat(g, Cat(Return, t))) = Cat(Cat(Cat(a, g), Return), t)
  BY <1>1, TextAlgebra
<1>4. a \o g \in Texts /\ Len(a \o g) = Len(a) + Len(g)
  BY TextLength
<1>5. (a \o g) \o Return \in Texts /\ Len((a \o g) \o Return) = Len(a \o g) + Len(Return)
  BY <1>1, <1>4, TextLength
<1>. QED  BY <1>1, <1>2, <1>3, <1>4, <1>5 DEF Cat

LEMMA RequestCut ==
  ASSUME NEW s \in Texts, NEW g \in Texts, NEW t \in Texts, OneLine(s), NoBlank(g \o NewLine)
  PROVE  RequestParts((((s \o NewLine) \o (g \o NewLine)) \o NewLine) \o t) =
           [start |-> WordsOf(s), complete |-> TRUE, headers |-> g, body |-> t]
<1> DEFINE a == s \o NewLine
           w == ((a \o (g \o NewLine)) \o NewLine) \o t
           x == g \o (Return \o t)
           c == (a \o g) \o Return
           first == Find(w, NewLine, 1)
           blank == Find(w, NewLine \o NewLine, first + 2)
<1>1. Len(s) \in Nat /\ Len(g) \in Nat /\ Len(t) \in Nat
  BY TextProperties
<1>2. a \in Texts /\ NewLine \in Texts /\ Return \in Texts
  BY TextLength, Patterns
<1>3. Len(a) = Len(s) + 2
  <2>1. Len(a) = Len(s) + Len(NewLine) /\ Len(NewLine) = 2
    BY <1>2, TextLength, Patterns
  <2>. QED  BY <2>1
<1>4. x \in Texts
  <2>1. Return \o t \in Texts
    BY <1>2, TextLength
  <2>. QED  BY <2>1, TextLength
<1>5. w = a \o x /\ w = c \o t /\ c \in Texts /\ Len(c) = (Len(a) + Len(g)) + Len(Return)
  <2> HIDE DEF a, w, x, c
  <2>1. a \in Texts
    BY <1>2
  <2>2. /\ ((a \o (g \o NewLine)) \o NewLine) \o t = a \o (g \o (Return \o t))
        /\ a \o (g \o (Return \o t)) = ((a \o g) \o Return) \o t
    BY <2>1, Regroup
  <2>3. /\ (a \o g) \o Return \in Texts
        /\ Len((a \o g) \o Return) = (Len(a) + Len(g)) + Len(Return)
    BY <2>1, Regroup
  <2>. QED  BY <2>2, <2>3 DEF w, x, c
<1>6. first = Len(s) + 1
  <2>1. Find(a \o x, NewLine, 1) = Len(s) + 1
    <3> HIDE DEF x
    <3>. QED  BY <1>4, FindNewLine
  <2>. QED  BY <1>5, <2>1
<1>7. first + 2 = Len(a) + 1
  <2> HIDE DEF first, a
  <2>. QED  BY <1>1, <1>3, <1>6
<1>8. blank = Len(a) + Len(g) + 1
  <2>1. Find(a \o x, Return, Len(a) + 1) = Len(a) + Len(g) + 1
    <3> HIDE DEF a
    <3>. QED  BY <1>2, FindBlank
  <2>2. NewLine \o NewLine = Return
    BY Patterns
  <2> HIDE DEF a, x, first, w
  <2>. QED  BY <1>5, <1>7, <2>1, <2>2
<1>9. RequestParts(w) =
        [start |-> WordsOf(SubSeq(w, 1, first - 1)), complete |-> first # 0,
         headers |-> IF blank = 0 THEN <<>> ELSE SubSeq(w, first + 2, blank - 1),
         body |-> IF blank = 0 THEN <<>> ELSE SubSeq(w, blank + 4, Len(w))]
  <2> HIDE DEF w
  <2>. QED  BY DEF RequestParts
<1>10. SubSeq(w, 1, Len(s)) = s
  <2>1. s \o (NewLine \o x) = a \o x
    <3>1. Cat(Cat(s, NewLine), x) = Cat(s, Cat(NewLine, x))
      BY <1>2, <1>4, TextAlgebra
    <3>. QED  BY <3>1 DEF Cat
  <2>2. NewLine \o x \in Texts
    BY <1>2, <1>4, TextLength
  <2>3. SubSeq(s \o (NewLine \o x), 1, Len(s)) = s
    BY <2>2, SliceOfConcat
  <2>. QED  BY <1>5, <2>1, <2>3
<1>11. SubSeq(w, Len(a) + 1, Len(a) + Len(g)) = g
  <2>1. Return \o t \in Texts
    BY <1>2, TextLength
  <2>2. SubSeq(a \o x, Len(a) + 1, Len(a) + Len(g)) = g
    <3> HIDE DEF a
    <3>. QED  BY <1>2, <2>1, SliceMiddle
  <2>. QED  BY <1>5, <2>2
<1>12. SubSeq(w, Len(c) + 1, Len(w)) = t
  <2> HIDE DEF c
  <2>1. SubSeq(c \o t, Len(c) + 1, Len(c \o t)) = t
    BY <1>5, SliceOfConcat
  <2>. QED  BY <1>5, <2>1
<1> HIDE DEF a, x, c, first, blank, w
<1>13. /\ first - 1 = Len(s) /\ first # 0 /\ blank # 0 /\ blank - 1 = Len(a) + Len(g)
       /\ blank + 4 = Len(c) + 1
  <2>1. Len(Return) = 4
    BY Patterns
  <2>. QED  BY <1>1, <1>3, <1>5, <1>6, <1>8, <2>1
<1>14. SubSeq(w, 1, first - 1) = s
  BY <1>10, <1>13
<1>15. SubSeq(w, first + 2, blank - 1) = g
  BY <1>7, <1>11, <1>13
<1>16. SubSeq(w, blank + 4, Len(w)) = t
  BY <1>12, <1>13
<1>17. (first # 0) = TRUE
  BY <1>13
<1>18. RequestParts(w) = [start |-> WordsOf(s), complete |-> TRUE, headers |-> g, body |-> t]
  BY <1>9, <1>13, <1>14, <1>15, <1>16, <1>17, Zenon
<1>. QED  BY <1>18 DEF w, a

LEMMA FindSome ==
  ASSUME NEW s \in Texts, NEW p \in Texts, p # <<>>, NEW from \in Nat \ {0}, Find(s, p, from) # 0
  PROVE  /\ Find(s, p, from) \in Nat /\ from <= Find(s, p, from)
         /\ Find(s, p, from) + Len(p) <= Len(s) + 1 /\ MatchAt(s, p, Find(s, p, from))
         /\ \A n \in Nat : from <= n /\ n < Find(s, p, from) => ~MatchAt(s, p, n)
<1> DEFINE at == {n \in from..(Len(s) + 1 - Len(p)) : SubSeq(s, n, n + Len(p) - 1) = p}
<1>1. Len(s) \in Nat /\ Len(p) \in Nat \ {0}
  BY TextProperties
<1>2. \A n \in from..(Len(s) + 1 - Len(p)) :
        n \in Nat \ {0} /\ (SubSeq(s, n, n + Len(p) - 1) = p <=> MatchAt(s, p, n))
  <2> SUFFICES ASSUME NEW n \in from..(Len(s) + 1 - Len(p))
               PROVE  n \in Nat \ {0} /\ (SubSeq(s, n, n + Len(p) - 1) = p <=> MatchAt(s, p, n))
    OBVIOUS
  <2>1. n \in Nat \ {0} /\ n + Len(p) <= Len(s) + 1
    BY <1>1
  <2>. QED  BY <2>1, Matches DEF MatchAt
<1>3. at # {} /\ Find(s, p, from) = Min(at)
  <2>1. Find(s, p, from) = IF at = {} THEN 0 ELSE Min(at)
    BY DEF Find
  <2> HIDE DEF at
  <2>. QED  BY <2>1
<1>4. \A n \in at : /\ n \in Nat /\ from <= n /\ n + Len(p) <= Len(s) + 1 /\ MatchAt(s, p, n)
  <2> SUFFICES ASSUME NEW n \in at
               PROVE  n \in Nat /\ from <= n /\ n + Len(p) <= Len(s) + 1 /\ MatchAt(s, p, n)
    OBVIOUS
  <2>1. n \in from..(Len(s) + 1 - Len(p)) /\ SubSeq(s, n, n + Len(p) - 1) = p
    OBVIOUS
  <2>2. n \in Nat /\ from <= n /\ n + Len(p) <= Len(s) + 1
    BY <1>1, <2>1
  <2>. QED  BY <1>2, <2>1, <2>2
<1>5. \A n \in Nat : from <= n /\ n + Len(p) <= Len(s) + 1 /\ MatchAt(s, p, n) => n \in at
  <2> SUFFICES ASSUME NEW n \in Nat, from <= n, n + Len(p) <= Len(s) + 1, MatchAt(s, p, n)
               PROVE  n \in at
    OBVIOUS
  <2>1. n \in from..(Len(s) + 1 - Len(p))
    BY <1>1
  <2>. QED  BY <1>2, <2>1
<1> HIDE DEF at
<1>6. Min(at) \in at /\ \A n \in at : Min(at) <= n
  BY <1>3, <1>4, MinOf
<1> DEFINE k == Find(s, p, from)
<1>7. k \in Nat /\ from <= k /\ k + Len(p) <= Len(s) + 1 /\ MatchAt(s, p, k)
  BY <1>3, <1>4, <1>6
<1>8. ASSUME NEW n \in Nat, from <= n, n < k PROVE ~MatchAt(s, p, n)
  <2>1. n + Len(p) <= Len(s) + 1
    BY <1>1, <1>7, <1>8
  <2>2. k <= n => FALSE
    BY <1>7, <1>8
  <2>3. n \notin at
    BY <1>3, <1>6, <2>2
  <2>. QED  BY <1>5, <1>8, <2>1, <2>3
<1>. QED  BY <1>7, <1>8

(* A body in which a blank line can be at the beginning only.                 *)
CleanContent(t) == \A n \in Nat : 1 < n /\ n + 4 <= Len(t) + 1 => ~MatchAt(t, Return, n)

LEMMA BlankOfBody ==
  ASSUME NEW a \in Texts, NEW t \in Texts, CleanContent(t)
  PROVE  LET w == a \o (NewLine \o t)
             k == Find(w, Return, Len(a) + 1)
         IN k = 0 \/ (k = Len(a) + 1 /\ 2 <= Len(t) /\ w \in Texts /\ k + 4 <= Len(w) + 1)
<1> DEFINE y == NewLine \o t
           w == a \o y
           k == Find(w, Return, Len(a) + 1)
<1>1. Len(a) \in Nat /\ Len(t) \in Nat
  BY TextProperties
<1>2. /\ y \in Texts /\ Len(y) = Len(t) + 2 /\ y[1] = CR /\ y[2] = LF
      /\ \A n \in 1..Len(t) : y[2 + n] = t[n]
  <2>1. /\ y \in Texts /\ Len(y) = Len(NewLine) + Len(t)
        /\ \A n \in 1..Len(NewLine) : y[n] = NewLine[n]
        /\ \A n \in 1..Len(t) : y[Len(NewLine) + n] = t[n]
    BY TextConcat, Patterns
  <2>2. /\ Len(NewLine) = 2 /\ NewLine[1] = CR /\ NewLine[2] = LF
        /\ 1 \in 1..Len(NewLine) /\ 2 \in 1..Len(NewLine)
    BY Patterns
  <2> HIDE DEF y
  <2>. QED  BY <1>1, <2>1, <2>2
<1> HIDE DEF y
<1>3. w \in Texts /\ Len(w) = Len(a) + Len(y) /\ \A n \in 1..Len(y) : w[Len(a) + n] = y[n]
  BY <1>2, TextConcat
<1> HIDE DEF w
<1>4. Return \in Texts /\ Return # <<>> /\ Len(Return) = 4 /\ Len(a) + 1 \in Nat \ {0}
  BY <1>1, Patterns
<1>5. ASSUME k # 0 PROVE k = Len(a) + 1 /\ 2 <= Len(t) /\ w \in Texts /\ k + 4 <= Len(w) + 1
  <2>1. /\ k \in Nat /\ Len(a) + 1 <= k /\ k + 4 <= Len(w) + 1 /\ MatchAt(w, Return, k)
        /\ \A n \in Nat : Len(a) + 1 <= n /\ n < k => ~MatchAt(w, Return, n)
    BY <1>3, <1>4, <1>5, FindSome
  <2> HIDE DEF k
  <2>2. w[k + 1 - 1] = CR /\ w[k + 2 - 1] = LF /\ w[k + 3 - 1] = CR /\ w[k + 4 - 1] = LF
    BY <2>1, Patterns
  <2> DEFINE j == k - Len(a)
  <2>3. /\ j \in Nat /\ 1 <= j /\ k = Len(a) + j /\ j + 3 <= Len(y) /\ 2 <= Len(t)
        /\ k + 1 - 1 = Len(a) + j /\ k + 2 - 1 = Len(a) + (j + 1) /\ k + 3 - 1 = Len(a) + (j + 2)
        /\ k + 4 - 1 = Len(a) + (j + 3)
    BY <1>1, <1>2, <1>3, <2>1
  <2> HIDE DEF j
  <2>4. y[j] = CR /\ y[j + 1] = LF /\ y[j + 2] = CR /\ y[j + 3] = LF
    <3>1. /\ j \in 1..Len(y) /\ j + 1 \in 1..Len(y) /\ j + 2 \in 1..Len(y) /\ j + 3 \in 1..Len(y)
      BY <1>1, <1>2, <2>3
    <3>. QED  BY <1>3, <2>2, <2>3, <3>1
  <2>5. j # 2
    BY <1>2, <2>4, SeparatorsDiffer
  <2>6. ASSUME 3 <= j PROVE FALSE
    <3> DEFINE n == j - 2
    <3>1. /\ n \in Nat /\ 1 <= n /\ n + 4 <= Len(t) + 1 /\ j = 2 + n
          /\ n \in 1..Len(t) /\ n + 1 \in 1..Len(t) /\ n + 2 \in 1..Len(t) /\ n + 3 \in 1..Len(t)
          /\ j + 1 = 2 + (n + 1) /\ j + 2 = 2 + (n + 2) /\ j + 3 = 2 + (n + 3)
          /\ n + 1 - 1 = n /\ n + 2 - 1 = n + 1 /\ n + 3 - 1 = n + 2 /\ n + 4 - 1 = n + 3
      BY <1>1, <1>2, <2>3, <2>6
    <3> HIDE DEF n
    <3>2. t[n] = CR /\ t[n + 1] = LF /\ t[n + 2] = CR /\ t[n + 3] = LF
      BY <1>2, <2>4, <3>1
    <3>3. MatchAt(t, Return, n)
      BY <3>1, <3>2, Patterns
    <3>4. n = 1
      <4>1. ~(1 < n)
        BY <3>1, <3>3 DEF CleanContent
      <4>. QED  BY <3>1, <4>1
    <3>5. y[1] = CR /\ y[2] = LF /\ y[3] = CR /\ y[4] = LF
      <4>1. 2 + 1 = 3 /\ 2 + 2 = 4 /\ 1 + 1 = 2
        OBVIOUS
      <4>2. y[2 + 1] = CR /\ y[2 + 2] = LF
        BY <1>2, <3>1, <3>2, <3>4, <4>1
      <4>. QED  BY <1>2, <4>1, <4>2
    <3>6. w[Len(a) + 1] = CR /\ w[Len(a) + 2] = LF /\ w[Len(a) + 3] = CR /\ w[Len(a) + 4] = LF
      <4>1. 1 \in 1..Len(y) /\ 2 \in 1..Len(y) /\ 3 \in 1..Len(y) /\ 4 \in 1..Len(y)
        BY <1>1, <1>2, <2>3
      <4>. QED  BY <1>3, <3>5, <4>1
    <3>7. MatchAt(w, Return, Len(a) + 1)
      <4>1. /\ (Len(a) + 1) + 1 - 1 = Len(a) + 1 /\ (Len(a) + 1) + 2 - 1 = Len(a) + 2
            /\ (Len(a) + 1) + 3 - 1 = Len(a) + 3 /\ (Len(a) + 1) + 4 - 1 = Len(a) + 4
        BY <1>1
      <4>. QED  BY <3>6, <4>1, Patterns
    <3>8. Len(a) + 1 \in Nat /\ Len(a) + 1 <= Len(a) + 1 /\ Len(a) + 1 < k
      BY <1>1, <2>3, <2>6
    <3>. QED  BY <2>1, <3>7, <3>8
  <2>7. j = 1
    BY <2>3, <2>5, <2>6
  <2>. QED  BY <1>3, <2>1, <2>3, <2>7
<1>. QED  BY <1>5 DEF w, y, k

LEMMA RequestCutEmpty ==
  ASSUME NEW s \in Texts, NEW t \in Texts, OneLine(s), CleanContent(t)
  PROVE  \E c \in Texts :
           /\ CleanContent(c)
           /\ RequestParts((((s \o NewLine) \o <<>>) \o NewLine) \o t) =
                [start |-> WordsOf(s), complete |-> TRUE, headers |-> <<>>, body |-> c]
<1> DEFINE a == s \o NewLine
           y == NewLine \o t
           w == a \o y
           first == Find(w, NewLine, 1)
           blank == Find(w, NewLine \o NewLine, first + 2)
           c == IF blank = 0 THEN <<>> ELSE SubSeq(w, blank + 4, Len(w))
<1>1. Len(s) \in Nat /\ Len(t) \in Nat
  BY TextProperties
<1>2. a \in Texts /\ NewLine \in Texts /\ y \in Texts
  BY TextLength, Patterns
<1>3. Len(a) = Len(s) + 2 /\ Len(y) = 2 + Len(t)
  <2>1. Len(a) = Len(s) + Len(NewLine) /\ Len(NewLine) = 2 /\ Len(y) = Len(NewLine) + Len(t)
    BY <1>2, TextLength, Patterns
  <2>. QED  BY <2>1
<1>4. ((a \o <<>>) \o NewLine) \o t = w
  <2>1. a \o <<>> = a
    BY <1>2, EmptyText
  <2>2. (a \o NewLine) \o t = a \o (NewLine \o t)
    <3>1. Cat(Cat(a, NewLine), t) = Cat(a, Cat(NewLine, t))
      BY <1>2, TextAlgebra
    <3>. QED  BY <3>1 DEF Cat
  <2>. QED  BY <2>1, <2>2
<1>5. w \in Texts /\ Len(w) = Len(a) + Len(y)
  <2> HIDE DEF a, y
  <2>. QED  BY <1>2, TextLength
<1>6. first = Len(s) + 1
  <2> HIDE DEF y
  <2>. QED  BY <1>2, FindNewLine
<1>7. first + 2 = Len(a) + 1 /\ first # 0 /\ first - 1 = Len(s)
  <2> HIDE DEF first, a
  <2>. QED  BY <1>1, <1>3, <1>6
<1>8. blank = 0 \/ (blank = Len(a) + 1 /\ 2 <= Len(t) /\ blank + 4 <= Len(w) + 1)
  <2>1. NewLine \o NewLine = Return
    BY Patterns
  <2>2. blank = Find(w, Return, Len(a) + 1)
    <3> HIDE DEF first, w, a
    <3>. QED  BY <1>7, <2>1
  <2> HIDE DEF a, first, blank
  <2>. QED  BY <1>2, <2>2, BlankOfBody
<1>9. SubSeq(w, 1, first - 1) = s
  <2>1. s \o (NewLine \o y) = a \o y
    <3>1. Cat(Cat(s, NewLine), y) = Cat(s, Cat(NewLine, y))
      BY <1>2, TextAlgebra
    <3>. QED  BY <3>1 DEF Cat
  <2>2. NewLine \o y \in Texts
    <3> HIDE DEF y
    <3>. QED  BY <1>2, TextLength
  <2>3. SubSeq(s \o (NewLine \o y), 1, Len(s)) = s
    <3> DEFINE z == NewLine \o y
    <3> HIDE DEF z
    <3>1. z \in Texts
      BY <2>2 DEF z
    <3>2. SubSeq(s \o z, 1, Len(s)) = s
      BY <3>1, SliceOfConcat
    <3>. QED  BY <3>2 DEF z
  <2> HIDE DEF w, a, y, first
  <2>. QED  BY <1>7, <2>1, <2>3 DEF w
<1>10. RequestParts(w) =
        [start |-> WordsOf(SubSeq(w, 1, first - 1)), complete |-> first # 0,
         headers |-> IF blank = 0 THEN <<>> ELSE SubSeq(w, first + 2, blank - 1), body |-> c]
  <2> HIDE DEF w
  <2>. QED  BY DEF RequestParts
<1>11. \A n \in 1..Len(y) : w[Len(a) + n] = y[n]
  <2> HIDE DEF a, y
  <2>. QED  BY <1>2, TextConcat
<1>12. \A n \in 1..Len(t) : y[2 + n] = t[n]
  <2>1. Len(NewLine) = 2
    BY Patterns
  <2>2. \A n \in 1..Len(t) : y[Len(NewLine) + n] = t[n]
    BY <1>2, TextConcat
  <2> HIDE DEF y
  <2>. QED  BY <2>1, <2>2
<1>13. (first # 0) = TRUE
  BY <1>7
<1> HIDE DEF a, y, w, first, blank
<1>14. c \in Texts /\ CleanContent(c)
  <2>1. CASE blank = 0
    <3>1. c = <<>>
      BY <2>1
    <3>2. \A n \in Nat : 1 < n => ~(n + 4 <= 0 + 1)
      OBVIOUS
    <3>. QED  BY <3>1, <3>2, EmptyText DEF CleanContent
  <2>2. CASE blank # 0
    <3> DEFINE d == SubSeq(w, blank + 4, Len(w))
    <3>1. blank + 4 \in Nat \ {0} /\ Len(w) \in Nat /\ Len(w) <= Len(w) /\ blank + 4 <= Len(w) + 1
          /\ Len(a) \in Nat /\ blank = Len(a) + 1 /\ 2 <= Len(t)
      BY <1>1, <1>3, <1>5, <1>8, <2>2
    <3>2. /\ d \in Texts /\ Len(d) = Len(w) + 1 - (blank + 4)
          /\ \A i \in 1..(Len(w) + 1 - (blank + 4)) : d[i] = w[(blank + 4) + i - 1]
      BY <1>5, <3>1, TextSlice
    <3> HIDE DEF d
    <3>3. Len(d) = Len(t) - 2
      BY <1>1, <1>3, <1>5, <3>1, <3>2
    <3>4. ASSUME NEW i \in 1..Len(d) PROVE d[i] = t[2 + i]
      <4>1. /\ (blank + 4) + i - 1 = Len(a) + (2 + (2 + i)) /\ 2 + (2 + i) \in 1..Len(y)
            /\ 2 + i \in 1..Len(t) /\ i \in 1..(Len(w) + 1 - (blank + 4))
        BY <1>1, <1>3, <3>1, <3>2, <3>3
      <4>2. d[i] = w[Len(a) + (2 + (2 + i))]
        BY <3>2, <4>1
      <4>3. w[Len(a) + (2 + (2 + i))] = y[2 + (2 + i)]
        BY <1>11, <4>1
      <4>4. y[2 + (2 + i)] = t[2 + i]
        BY <1>12, <4>1
      <4>. QED  BY <4>2, <4>3, <4>4
    <3>5. ASSUME NEW n \in Nat, 1 < n, n + 4 <= Len(d) + 1, MatchAt(d, Return, n) PROVE FALSE
      <4> DEFINE m == n + 2
      <4>1. /\ m \in Nat /\ 1 < m /\ m + 4 <= Len(t) + 1
            /\ n \in 1..Len(d) /\ n + 1 \in 1..Len(d) /\ n + 2 \in 1..Len(d) /\ n + 3 \in 1..Len(d)
            /\ m + 1 - 1 = 2 + n /\ m + 2 - 1 = 2 + (n + 1) /\ m + 3 - 1 = 2 + (n + 2)
            /\ m + 4 - 1 = 2 + (n + 3)
            /\ n + 1 - 1 = n /\ n + 2 - 1 = n + 1 /\ n + 3 - 1 = n + 2 /\ n + 4 - 1 = n + 3
        BY <1>1, <3>3, <3>5
      <4> HIDE DEF m
      <4>2. d[n] = CR /\ d[n + 1] = LF /\ d[n + 2] = CR /\ d[n + 3] = LF
        <5>1. d[n + 1 - 1] = CR /\ d[n + 2 - 1] = LF /\ d[n + 3 - 1] = CR /\ d[n + 4 - 1] = LF
          BY <3>5, Patterns
        <5>. QED  BY <4>1, <5>1
      <4>3. /\ t[m + 1 - 1] = CR /\ t[m + 2 - 1] = LF /\ t[m + 3 - 1] = CR /\ t[m + 4 - 1] = LF
        BY <3>4, <4>1, <4>2
      <4>4. MatchAt(t, Return, m)
        BY <4>3, Patterns
      <4>. QED  BY <4>1, <4>4 DEF CleanContent
    <3>6. c = d
      BY <2>2 DEF d
    <3>7. CleanContent(d)
      BY <3>5 DEF CleanContent
    <3>. QED  BY <3>2, <3>6, <3>7
  <2>. QED  BY <2>1, <2>2
<1>15. (IF blank = 0 THEN <<>> ELSE SubSeq(w, first + 2, blank - 1)) = <<>>
  <2> SUFFICES ASSUME blank # 0 PROVE SubSeq(w, first + 2, blank - 1) = <<>>
    OBVIOUS
  <2>1. first + 2 \in Int /\ blank - 1 \in Int /\ blank - 1 < first + 2
    BY <1>1, <1>3, <1>7, <1>8
  <2>. QED  BY <2>1, SubSeqEmpty
<1> HIDE DEF c
<1>16. RequestParts(w) = [start |-> WordsOf(s), complete |-> TRUE, headers |-> <<>>, body |-> c]
  BY <1>9, <1>10, <1>13, <1>15, Zenon
<1>17. RequestParts(((a \o <<>>) \o NewLine) \o t) =
         [start |-> WordsOf(s), complete |-> TRUE, headers |-> <<>>, body |-> c]
  BY <1>4, <1>16
<1>. QED  BY <1>14, <1>17 DEF a

-----------------------------------------------------------------------------
(* Header lines.                                                              *)
LineTexts == {l \in Texts : 2 <= Len(l) /\ \A n \in 1..Len(l) : l[n] # LF}
BlockLines == {l \in LineTexts : OneLine(l)}
Block(q) == Ended(q, NewLine)

LEMMA LineAndEnd ==
  ASSUME NEW l \in Texts
  PROVE  /\ l \o <<CR>> \in Texts /\ l \o NewLine = Append(l \o <<CR>>, LF)
         /\ l \o NewLine \in Texts /\ Len(l \o NewLine) = Len(l) + 2
         /\ \A n \in 1..Len(l) : (l \o NewLine)[n] = l[n]
         /\ (l \o NewLine)[Len(l) + 2] = LF
         /\ (\A n \in 1..Len(l) : l[n] # LF) => \A n \in 1..Len(l \o <<CR>>) : (l \o <<CR>>)[n] # LF
<1> DEFINE c == l \o <<CR>>
           d == l \o NewLine
<1>1. CR \in Chars /\ LF \in Chars /\ CR # LF /\ <<CR>> \in Texts /\ Len(<<CR>>) = 1 /\ <<CR>>[1] = CR
  BY SeparatorsDiffer, OneCharacter
<1>2. Len(l) \in Nat
  BY TextProperties
<1>3. /\ c \in Texts /\ Len(c) = Len(l) + 1 /\ c[Len(l) + 1] = CR /\ \A n \in 1..Len(l) : c[n] = l[n]
  <2>1. /\ c \in Texts /\ Len(c) = Len(l) + Len(<<CR>>) /\ \A n \in 1..Len(l) : c[n] = l[n]
        /\ \A n \in 1..Len(<<CR>>) : c[Len(l) + n] = <<CR>>[n]
    BY <1>1, TextConcat
  <2> HIDE DEF c
  <2>. QED  BY <1>1, <2>1
<1>4. /\ d \in Texts /\ Len(d) = Len(l) + 2 /\ d[Len(l) + 1] = CR /\ d[Len(l) + 2] = LF
      /\ \A n \in 1..Len(l) : d[n] = l[n]
  <2>1. /\ d \in Texts /\ Len(d) = Len(l) + Len(NewLine) /\ \A n \in 1..Len(l) : d[n] = l[n]
        /\ \A n \in 1..Len(NewLine) : d[Len(l) + n] = NewLine[n]
    BY TextConcat, Patterns
  <2>2. /\ Len(NewLine) = 2 /\ NewLine[1] = CR /\ NewLine[2] = LF
        /\ 1 \in 1..Len(NewLine) /\ 2 \in 1..Len(NewLine)
    BY Patterns
  <2> HIDE DEF d
  <2>. QED  BY <2>1, <2>2
<1> DEFINE e == Append(c, LF)
<1> HIDE DEF c, d
<1>5. /\ e \in Texts /\ Len(e) = Len(c) + 1 /\ e[Len(c) + 1] = LF /\ \A n \in 1..Len(c) : e[n] = c[n]
  BY <1>1, <1>3, AppendProperties DEF Texts
<1> HIDE DEF e
<1>6. d = e
  <2>1. Len(d) = Len(e)
    BY <1>2, <1>3, <1>4, <1>5
  <2>2. ASSUME NEW n \in 1..Len(d) PROVE d[n] = e[n]
    <3>1. CASE n = Len(l) + 2
      BY <1>2, <1>3, <1>4, <1>5, <3>1
    <3>2. CASE n = Len(l) + 1
      <4>1. n \in 1..Len(c)
        BY <1>2, <1>3, <3>2
      <4>. QED  BY <1>3, <1>4, <1>5, <3>2, <4>1
    <3>3. CASE n # Len(l) + 1 /\ n # Len(l) + 2
      <4>1. n \in 1..Len(l) /\ n \in 1..Len(c)
        BY <1>2, <1>3, <1>4, <3>3
      <4>. QED  BY <1>3, <1>4, <1>5, <4>1
    <3>. QED  BY <3>1, <3>2, <3>3
  <2>. QED  BY <1>4, <1>5, <2>1, <2>2, TextsEqual
<1>7. ASSUME \A n \in 1..Len(l) : l[n] # LF, NEW n \in 1..Len(c) PROVE c[n] # LF
  <2>1. CASE n = Len(l) + 1
    BY <1>1, <1>3, <2>1
  <2>2. CASE n # Len(l) + 1
    <3>1. n \in 1..Len(l)
      BY <1>2, <1>3, <2>2
    <3>. QED  BY <1>3, <1>7, <3>1
  <2>. QED  BY <2>1, <2>2
<1>. QED  BY <1>3, <1>4, <1>6, <1>7 DEF c, d, e

LEMMA BlockStep ==
  /\ Block(<<>>) = <<>> /\ Seq(LineTexts) \subseteq Seq(Texts)
  /\ \A q \in Seq(LineTexts) : Block(q) \in Texts
  /\ \A q \in Seq(LineTexts), l \in LineTexts : Block(Append(q, l)) = Block(q) \o (l \o NewLine)
<1>1. LineTexts \subseteq Texts /\ NewLine \in Texts
  BY Patterns DEF LineTexts
<1>2. Seq(LineTexts) \subseteq Seq(Texts)
  BY <1>1, SeqMonotonic
<1>3. /\ \A q \in Seq(Texts) : Ended(q, NewLine) \in Texts
      /\ \A q \in Seq(Texts), x \in Texts :
           Ended(Append(q, x), NewLine) = Ended(q, NewLine) \o (x \o NewLine)
      /\ Ended(<<>>, NewLine) = <<>>
  BY <1>1, EndedStep
<1>. QED  BY <1>1, <1>2, <1>3 DEF Block

LEMMA BlockNoBlank ==
  ASSUME NEW q \in Seq(BlockLines)
  PROVE  NoBlank(Block(q))
<1> DEFINE T == {p \in Seq(BlockLines) : NoBlank(Block(p))}
<1>1. <<>> \in T
  <2>1. Block(<<>>) = <<>> /\ Len(<<>>) = 0 /\ <<>> \in Seq(BlockLines)
    BY BlockStep, EmptySeq
  <2>2. \A n \in Nat : 1 <= n => ~(n + 2 <= 0)
    OBVIOUS
  <2>. QED  BY <2>1, <2>2 DEF NoBlank
<1>2. ASSUME NEW p \in Seq(BlockLines), NEW l \in BlockLines, p \in T PROVE Append(p, l) \in T
  <2> DEFINE b == Block(p)
             e == l \o NewLine
             h == b \o e
  <2>1. b \in Texts /\ NoBlank(b) /\ Len(b) \in Nat
    <3>1. Seq(BlockLines) \subseteq Seq(LineTexts)
      BY SeqMonotonic DEF BlockLines
    <3>. QED  BY <1>2, <3>1, BlockStep, TextProperties
  <2>2. l \in Texts /\ Len(l) \in Nat /\ 2 <= Len(l) /\ \A n \in 1..Len(l) : l[n] # CR
    BY TextProperties DEF BlockLines, LineTexts, OneLine
  <2>3. /\ e \in Texts /\ Len(e) = Len(l) + 2 /\ e[Len(l) + 2] = LF
        /\ \A n \in 1..Len(l) : e[n] = l[n]
    BY <2>2, LineAndEnd
  <2>4. Block(Append(p, l)) = h /\ Append(p, l) \in Seq(BlockLines)
    <3>1. Seq(BlockLines) \subseteq Seq(LineTexts) /\ BlockLines \subseteq LineTexts
      BY SeqMonotonic DEF BlockLines
    <3>2. p \in Seq(LineTexts) /\ l \in LineTexts
      BY <3>1
    <3>. QED  BY <3>2, BlockStep, AppendProperties
  <2> HIDE DEF b, e
  <2>5. /\ h \in Texts /\ Len(h) = Len(b) + Len(e) /\ \A n \in 1..Len(b) : h[n] = b[n]
        /\ \A n \in 1..Len(e) : h[Len(b) + n] = e[n]
    BY <2>1, <2>3, TextConcat
  <2> HIDE DEF h
  <2>6. ASSUME NEW n \in Nat, 1 <= n, n + 2 <= Len(h), h[n] = CR, h[n + 2] = CR PROVE FALSE
    <3>1. CASE n + 2 <= Len(b)
      <4>1. n \in 1..Len(b) /\ n + 2 \in 1..Len(b)
        BY <2>1, <2>6, <3>1
      <4>2. b[n] = CR /\ b[n + 2] = CR
        BY <2>5, <2>6, <4>1
      <4>. QED  BY <2>1, <2>6, <3>1, <4>2 DEF NoBlank
    <3>2. CASE ~(n + 2 <= Len(b))
      <4> DEFINE j == n + 2 - Len(b)
      <4>1. j \in Nat /\ 1 <= j /\ j <= Len(l) + 2 /\ n + 2 = Len(b) + j /\ j \in 1..Len(e)
        BY <2>1, <2>2, <2>3, <2>5, <2>6, <3>2
      <4> HIDE DEF j
      <4>2. e[j] = CR
        BY <2>5, <2>6, <4>1
      <4>3. j = Len(l) + 1
        <5>1. CASE j = Len(l) + 2
          BY <2>3, <4>2, <5>1, SeparatorsDiffer
        <5>2. CASE j \in 1..Len(l)
          BY <2>2, <2>3, <4>2, <5>2
        <5>. QED  BY <2>2, <4>1, <5>1, <5>2
      <4>4. n = Len(b) + (Len(l) - 1) /\ Len(l) - 1 \in 1..Len(l) /\ Len(l) - 1 \in 1..Len(e)
        <5>1. /\ Len(b) \in Nat /\ Len(l) \in Nat /\ 2 <= Len(l) /\ Len(e) = Len(l) + 2
              /\ n + 2 = Len(b) + (Len(l) + 1)
          BY <2>1, <2>2, <2>3, <4>1, <4>3
        <5> DEFINE x == Len(b)
                   y == Len(l)
                   z == Len(e)
        <5>2. x \in Nat /\ y \in Nat /\ 2 <= y /\ z = y + 2 /\ n + 2 = x + (y + 1)
          BY <5>1
        <5> HIDE DEF x, y, z
        <5>3. n = x + (y - 1) /\ y - 1 \in 1..y /\ y - 1 \in 1..z
          BY <5>2
        <5>. QED  BY <5>3 DEF x, y, z
      <4>5. h[n] = l[Len(l) - 1]
        BY <2>3, <2>5, <4>4
      <4>. QED  BY <2>2, <2>6, <4>4, <4>5
    <3>. QED  BY <3>1, <3>2
  <2>7. NoBlank(h)
    BY <2>6 DEF NoBlank
  <2>. QED  BY <2>4, <2>7
<1> HIDE DEF T
<1>3. Seq(BlockLines) \subseteq T
  BY <1>1, <1>2, SequenceInduction
<1>4. q \in T
  BY <1>3
<1>. QED  BY <1>4 DEF T

LEMMA BlockParts ==
  ASSUME NEW q \in Seq(LineTexts)
  PROVE  Parts(Block(q)) = Append(Followed(q, <<CR>>), <<>>)
<1> DEFINE e == <<CR>>
           nil == <<>>
           T == {p \in Seq(LineTexts) : Parts(Block(p)) = Append(Followed(p, e), nil)}
<1>1. e \in Texts /\ nil \in Texts /\ nil \in Seq(Texts) /\ nil \in Seq(LineTexts) /\ LF \in Chars
      /\ \A s \in Texts : nil \o s = s
  BY SeparatorsDiffer, OneCharacter, EmptyText, EmptySeq
<1>2. Parts(nil) = Append(nil, nil) /\ Block(nil) = nil
  BY PartsStep, BlockStep
<1>3. /\ Followed(nil, e) = nil /\ \A p \in Seq(Texts) : Followed(p, e) \in Seq(Texts)
      /\ \A p \in Seq(Texts), l \in Texts : Followed(Append(p, l), e) = Append(Followed(p, e), l \o e)
  BY <1>1, FollowedStep
<1> HIDE DEF nil
<1>4. nil \in T
  <2> HIDE DEF e
  <2>. QED  BY <1>1, <1>2, <1>3
<1>5. ASSUME NEW p \in Seq(LineTexts), NEW l \in LineTexts, p \in T PROVE Append(p, l) \in T
  <2> DEFINE d == l \o e
  <2>1. p \in Seq(Texts) /\ l \in Texts /\ Block(p) \in Texts /\ (\A n \in 1..Len(l) : l[n] # LF)
        /\ Append(p, l) \in Seq(LineTexts) /\ Followed(p, e) \in Seq(Texts)
    BY <1>3, BlockStep, AppendProperties DEF LineTexts
  <2>2. d \in Texts /\ l \o NewLine = Append(d, LF) /\ \A n \in 1..Len(d) : d[n] # LF
    BY <2>1, LineAndEnd
  <2> HIDE DEF d, e
  <2>3. Block(Append(p, l)) = Append(Block(p) \o d, LF)
    <3>1. Block(Append(p, l)) = Block(p) \o (l \o NewLine)
      BY BlockStep
    <3>2. Block(p) \o Append(d, LF) = Append(Block(p) \o d, LF)
      <4>1. \A s, t \in Seq(Chars) : s \o Append(t, LF) = Append(s \o t, LF)
        BY <1>1, ConcatAppend
      <4>. QED  BY <2>1, <2>2, <4>1 DEF Texts
    <3>. QED  BY <2>2, <3>1, <3>2
  <2>4. Parts(Block(p)) = Append(Followed(p, e), nil)
    BY <1>5
  <2>5. Parts(Block(p) \o d) = Append(Followed(p, e), nil \o d)
    <3>1. /\ Block(p) \in Texts /\ Followed(p, e) \in Seq(Texts) /\ nil \in Texts /\ d \in Texts
          /\ \A n \in 1..Len(d) : d[n] # LF
      BY <1>1, <2>1, <2>2
    <3>. QED  BY <2>4, <3>1, PartsOfTail
  <2>6. Append(Followed(p, e), nil \o d) = Followed(Append(p, l), e)
    <3>1. nil \o d = d
      BY <1>1, <2>2
    <3>. QED  BY <1>3, <2>1, <3>1 DEF d
  <2>7. Block(p) \o d \in Texts
    BY <2>1, <2>2, TextLength
  <2>8. Parts(Append(Block(p) \o d, LF)) = Grow(Followed(Append(p, l), e), LF)
    BY <1>1, <2>5, <2>6, <2>7, PartsStep
  <2>9. \A r : Grow(r, LF) = Append(r, nil)
    BY DEF Grow, nil
  <2>. QED  BY <2>1, <2>3, <2>8, <2>9
<1> HIDE DEF T
<1>6. Seq(LineTexts) \subseteq T
  BY <1>1, <1>4, <1>5, SequenceInduction DEF nil
<1>7. q \in T
  BY <1>6
<1>. QED  BY <1>7 DEF T, e, nil

(* Header lines without the last line end, as string_to_request has them.     *)
LEMMA BlockLast ==
  ASSUME NEW q \in Seq(LineTexts), NEW l \in LineTexts
  PROVE  /\ Block(q) \o l \in Texts /\ Block(Append(q, l)) = (Block(q) \o l) \o NewLine
         /\ LinesOf(Block(q) \o l) = Append(Followed(q, <<CR>>), l)
<1> DEFINE e == <<CR>>
           f == Followed(q, e)
           nil == <<>>
<1>1. /\ Block(q) \in Texts /\ q \in Seq(Texts) /\ l \in Texts /\ NewLine \in Texts
      /\ \A n \in 1..Len(l) : l[n] # LF
  BY BlockStep, Patterns DEF LineTexts
<1>2. l # nil
  <2>1. 2 <= Len(l) /\ Len(nil) = 0
    BY EmptyText DEF LineTexts
  <2>. QED  BY <2>1
<1>3. Block(q) \o l \in Texts
  BY <1>1, TextLength
<1>4. Block(Append(q, l)) = (Block(q) \o l) \o NewLine
  <2>1. Block(Append(q, l)) = Block(q) \o (l \o NewLine)
    BY BlockStep
  <2>2. Cat(Cat(Block(q), l), NewLine) = Cat(Block(q), Cat(l, NewLine))
    BY <1>1, TextAlgebra
  <2>. QED  BY <2>1, <2>2 DEF Cat
<1>5. f \in Seq(Texts)
  <2>1. e \in Texts
    BY SeparatorsDiffer, OneCharacter
  <2> HIDE DEF e
  <2>. QED  BY <1>1, <2>1, FollowedStep
<1>6. Parts(Block(q)) = Append(f, nil) /\ nil \in Texts /\ nil \o l = l
  BY <1>1, BlockParts, EmptyText
<1> DEFINE b == Block(q)
<1> HIDE DEF e, f, nil, b
<1>7. Parts(Block(q) \o l) = Append(f, nil \o l)
  <2>1. b \in Texts /\ l \in Texts /\ Parts(b) = Append(f, nil) /\ NoFeed(l)
    BY <1>1, <1>6 DEF b, NoFeed
  <2>2. \A x \in Texts, p \in Seq(Texts) : Parts(b) = Append(p, x) => Parts(b \o l) = Append(p, x \o l)
    BY <2>1, PartsBehind
  <2>3. Parts(b \o l) = Append(f, nil \o l)
    BY <1>5, <1>6, <2>1, <2>2
  <2>. QED  BY <2>3 DEF b
<1>8. Parts(Block(q) \o l) = Append(f, l)
  BY <1>6, <1>7
<1>9. Last(Parts(Block(q) \o l)) = l
  BY <1>1, <1>5, <1>8, FrontAppend
<1>10. LinesOf(Block(q) \o l) = Append(f, l)
  BY <1>2, <1>8, <1>9 DEF LinesOf, nil
<1>. QED  BY <1>3, <1>4, <1>10 DEF f, e

(* A header line, and what the parsers take it apart into.                    *)
CleanKeys == {k \in Seq(Words) : k # <<>>}
Line(k, v) == (k \o <<Colon, SP>>) \o v

LEMMA KeyProperties ==
  ASSUME NEW k \in CleanKeys
  PROVE  /\ k \in Texts /\ Len(k) \in Nat \ {0} /\ OneLine(k)
         /\ \A n \in 1..Len(k) : k[n] # Colon /\ k[n] # SP
<1>1. k \in Seq(Words) /\ k # <<>> /\ Words \subseteq Chars /\ \A w \in Words : w \notin {CR, LF, SP, Colon}
  BY SeparatorsDiffer DEF CleanKeys
<1>2. k \in Texts /\ \A n \in 1..Len(k) : k[n] \in Words
  BY <1>1, SeqMonotonic, ElementOfSeq DEF Texts
<1>3. Len(k) \in Nat \ {0}
  BY <1>1, EmptySeq
<1>. QED  BY <1>1, <1>2, <1>3 DEF OneLine

LEMMA TrimNothing ==
  ASSUME NEW s \in Texts, OneLine(s), s # <<>> => s[1] # SP /\ s[Len(s)] # SP
  PROVE  Trim(s) = s
<1>1. StripRight(s, SP) = s
  BY StripRightProperties
<1>2. StripLeft(s, SP) = s
  BY StripLeftProperties
<1>. QED  BY <1>1, <1>2, TrimOneLine

LEMMA TrimKey ==
  ASSUME NEW k \in CleanKeys PROVE Trim(k) = k /\ StripLeft(k, SP) = k
<1>1. /\ k \in Texts /\ OneLine(k) /\ k[1] # SP /\ k[Len(k)] # SP
  <2>1. 1 \in 1..Len(k) /\ Len(k) \in 1..Len(k)
    BY KeyProperties
  <2>. QED  BY <2>1, KeyProperties
<1>. QED  BY <1>1, TrimNothing, StripLeftProperties

LEMMA LineProperties ==
  ASSUME NEW k \in CleanKeys, NEW v \in Texts, NoFeed(v)
  PROVE  /\ Line(k, v) \in LineTexts /\ Line(k, v) \in Texts
         /\ OneLine(v) => Line(k, v) \in BlockLines
         /\ Line(k, v) = (k \o <<Colon>>) \o (<<SP>> \o v)
<1> DEFINE p == <<Colon, SP>>
           a == k \o p
           l == a \o v
<1>1. /\ p \in Texts /\ Len(p) = 2 /\ p[1] = Colon /\ p[2] = SP /\ p = <<Colon>> \o <<SP>>
      /\ <<Colon>> \in Texts /\ <<SP>> \in Texts
  BY SeparatorsDiffer DEF Texts
<1>2. /\ k \in Texts /\ Len(k) \in Nat \ {0} /\ Len(v) \in Nat
      /\ \A n \in 1..Len(k) : k[n] # CR /\ k[n] # LF
  BY KeyProperties, TextProperties DEF OneLine
<1> HIDE DEF p
<1>3. /\ a \in Texts /\ Len(a) = Len(k) + 2 /\ \A n \in 1..Len(k) : a[n] = k[n]
      /\ \A n \in 1..Len(p) : a[Len(k) + n] = p[n]
  BY <1>1, <1>2, TextConcat
<1> HIDE DEF a
<1>4. \A n \in 1..Len(a) : a[n] # CR /\ a[n] # LF
  <2> SUFFICES ASSUME NEW n \in 1..Len(a) PROVE a[n] # CR /\ a[n] # LF
    OBVIOUS
  <2>1. CASE n \in 1..Len(k)
    BY <1>2, <1>3, <2>1
  <2>2. CASE n \notin 1..Len(k)
    <3>1. n = Len(k) + 1 \/ n = Len(k) + 2
      BY <1>2, <1>3, <2>2
    <3>2. 1 \in 1..Len(p) /\ 2 \in 1..Len(p)
      BY <1>1
    <3>3. a[n] = Colon \/ a[n] = SP
      BY <1>1, <1>3, <3>1, <3>2
    <3>. QED  BY <3>3, SeparatorsDiffer
  <2>. QED  BY <2>1, <2>2
<1>5. /\ l \in Texts /\ Len(l) = Len(a) + Len(v) /\ \A n \in 1..Len(a) : l[n] = a[n]
      /\ \A n \in 1..Len(v) : l[Len(a) + n] = v[n]
  BY <1>3, TextConcat
<1> HIDE DEF l
<1>6. ASSUME NEW c, \A n \in 1..Len(a) : a[n] # c, \A n \in 1..Len(v) : v[n] # c
      PROVE  \A n \in 1..Len(l) : l[n] # c
  <2> SUFFICES ASSUME NEW n \in 1..Len(l) PROVE l[n] # c
    OBVIOUS
  <2>1. CASE n \in 1..Len(a)
    BY <1>5, <1>6, <2>1
  <2>2. CASE n \notin 1..Len(a)
    <3>1. n - Len(a) \in 1..Len(v) /\ Len(a) + (n - Len(a)) = n
      BY <1>2, <1>3, <1>5, <2>2
    <3>2. l[n] = v[n - Len(a)]
      BY <1>5, <3>1
    <3>. QED  BY <1>6, <3>1, <3>2
  <2>. QED  BY <2>1, <2>2
<1>7. 2 <= Len(l)
  BY <1>2, <1>3, <1>5
<1>8. \A n \in 1..Len(l) : l[n] # LF
  BY <1>4, <1>6 DEF NoFeed
<1>9. l \in LineTexts
  BY <1>5, <1>7, <1>8 DEF LineTexts
<1>10. ASSUME OneLine(v) PROVE l \in BlockLines
  <2>1. \A n \in 1..Len(l) : l[n] # CR
    BY <1>4, <1>6, <1>10 DEF OneLine
  <2>. QED  BY <1>8, <1>9, <2>1 DEF BlockLines, OneLine
<1>11. l = (k \o <<Colon>>) \o (<<SP>> \o v)
  <2>1. Cat(Cat(k, Cat(<<Colon>>, <<SP>>)), v) = Cat(Cat(k, <<Colon>>), Cat(<<SP>>, v))
    BY <1>1, <1>2, TextAlgebra
  <2>. QED  BY <1>1, <2>1 DEF Cat, l, a
<1>12. Line(k, v) = l
  BY DEF Line, l, a, p
<1>. QED  BY <1>9, <1>10, <1>11, <1>12 DEF LineTexts

(* Where the colon is, with "rest" behind the blank.                          *)
LEMMA LineCut ==
  ASSUME NEW k \in CleanKeys, NEW rest \in Texts
  PROVE  LET line == (k \o <<Colon>>) \o rest
             colon == Find(line, <<Colon>>, 1)
         IN /\ colon # 0 /\ SubSeq(line, 1, colon - 1) = k
            /\ SubSeq(line, colon + 1, Len(line)) = rest
<1> DEFINE a == k \o <<Colon>>
           line == a \o rest
           colon == Find(line, <<Colon>>, 1)
<1>1. k \in Texts /\ Len(k) \in Nat \ {0} /\ \A n \in 1..Len(k) : k[n] # Colon
  BY KeyProperties
<1>2. <<Colon>> \in Texts /\ Len(<<Colon>>) = 1
  BY Patterns
<1>3. a \in Texts /\ Len(a) = Len(k) + Len(<<Colon>>)
  BY <1>1, <1>2, TextLength
<1>4. colon = Len(k) + 1
  BY <1>1, FindColon
<1>5. line = k \o (<<Colon>> \o rest) /\ <<Colon>> \o rest \in Texts
  <2>1. Cat(Cat(k, <<Colon>>), rest) = Cat(k, Cat(<<Colon>>, rest))
    BY <1>1, <1>2, TextAlgebra
  <2>2. <<Colon>> \o rest \in Texts
    BY <1>1, <1>2, TextLength
  <2>. QED  BY <2>1, <2>2 DEF Cat
<1>6. SubSeq(line, 1, Len(k)) = k
  <2> DEFINE z == <<Colon>> \o rest
  <2> HIDE DEF z
  <2>1. z \in Texts
    BY <1>5 DEF z
  <2>2. SubSeq(k \o z, 1, Len(k)) = k
    BY <1>1, <2>1, SliceOfConcat
  <2>. QED  BY <1>5, <2>2 DEF z
<1>7. SubSeq(line, Len(a) + 1, Len(line)) = rest
  <2> HIDE DEF a
  <2>. QED  BY <1>3, SliceOfConcat
<1> HIDE DEF a, line, colon
<1>8. colon # 0 /\ colon - 1 = Len(k) /\ colon + 1 = Len(a) + 1
  BY <1>1, <1>2, <1>3, <1>4
<1>9. SubSeq(line, 1, colon - 1) = k /\ SubSeq(line, colon + 1, Len(line)) = rest
  BY <1>6, <1>7, <1>8
<1>. QED  BY <1>8, <1>9 DEF line, colon, a

LEMMA BlankOneLine ==
  ASSUME NEW v \in Texts, OneLine(v)
  PROVE  <<SP>> \o v \in Texts /\ OneLine(<<SP>> \o v)
<1> DEFINE sv == <<SP>> \o v
<1>1. /\ Len(sv) = Len(<<SP>>) + Len(v) /\ \A n \in 1..Len(<<SP>>) : sv[n] = <<SP>>[n]
      /\ \A n \in 1..Len(v) : sv[Len(<<SP>>) + n] = v[n]
      /\ sv \in Texts
  BY SeparatorsDiffer, OneCharacter, TextConcat
<1>2. Len(<<SP>>) = 1 /\ <<SP>>[1] = SP /\ Len(v) \in Nat
  BY SeparatorsDiffer, OneCharacter, TextProperties
<1> HIDE DEF sv
<1>3. ASSUME NEW n \in 1..Len(sv) PROVE sv[n] \notin {CR, LF}
  <2>1. CASE n = 1
    BY <1>1, <1>2, <2>1, SeparatorsDiffer
  <2>2. CASE n # 1
    <3>1. n - 1 \in 1..Len(v) /\ 1 + (n - 1) = n
      BY <1>1, <1>2, <2>2
    <3>2. sv[n] = v[n - 1]
      BY <1>1, <1>2, <3>1
    <3>. QED  BY <3>1, <3>2 DEF OneLine
  <2>. QED  BY <2>1, <2>2
<1>. QED  BY <1>1, <1>3 DEF sv, OneLine

(* A header line of a request with and without the carriage return behind it. *)
LEMMA ReadLine ==
  ASSUME NEW k \in CleanKeys, NEW v \in Texts, OneLine(v), NEW acc
  PROVE  /\ ReadHeader(acc, Line(k, v) \o <<CR>>) =
              [headers |-> Put(acc.headers, k, StripLeft(v, SP)), value |-> StripLeft(v, SP)]
         /\ ReadHeader(acc, Line(k, v)) =
              [headers |-> Put(acc.headers, k, Trim(<<SP>> \o v)), value |-> Trim(<<SP>> \o v)]
<1>1. ASSUME NEW rest \in Texts
      PROVE  ReadHeader(acc, (k \o <<Colon>>) \o rest) =
               [headers |-> Put(acc.headers, k, Trim(rest)), value |-> Trim(rest)]
  <2> DEFINE line == (k \o <<Colon>>) \o rest
             colon == Find(line, <<Colon>>, 1)
  <2>1. /\ colon # 0 /\ SubSeq(line, 1, colon - 1) = k
        /\ SubSeq(line, colon + 1, Len(line)) = rest
    BY LineCut
  <2>2. ReadHeader(acc, line) =
          [headers |-> Put(acc.headers, Trim(IF colon = 0 THEN line ELSE SubSeq(line, 1, colon - 1)),
                           Trim(IF colon = 0 THEN acc.value ELSE SubSeq(line, colon + 1, Len(line)))),
           value |-> Trim(IF colon = 0 THEN acc.value ELSE SubSeq(line, colon + 1, Len(line)))]
    <3> HIDE DEF line
    <3>. QED  BY DEF ReadHeader
  <2>3. Trim(k) = k
    BY TrimKey
  <2> HIDE DEF line, colon
  <2>4. ReadHeader(acc, line) = [headers |-> Put(acc.headers, k, Trim(rest)), value |-> Trim(rest)]
    BY <2>1, <2>2, <2>3, Zenon
  <2>. QED  BY <2>4 DEF line
<1> DEFINE sv == <<SP>> \o v
<1>2. /\ sv \in Texts /\ sv \o <<CR>> \in Texts /\ k \in Texts /\ k \o <<Colon>> \in Texts
      /\ <<CR>> \in Texts /\ SP \in Chars
  BY SeparatorsDiffer, OneCharacter, KeyProperties, TextLength
<1>3. OneLine(sv)
  BY BlankOneLine
<1>4. Trim(sv \o <<CR>>) = StripLeft(v, SP)
  <2>1. StripLeft(sv, SP) = StripLeft(v, SP)
    BY <1>2, StripLeftBlank
  <2> HIDE DEF sv
  <2>. QED  BY <1>2, <1>3, <2>1, TrimReturn
<1>5. Line(k, v) = (k \o <<Colon>>) \o sv /\ Line(k, v) \o <<CR>> = (k \o <<Colon>>) \o (sv \o <<CR>>)
  <2>1. Line(k, v) = (k \o <<Colon>>) \o sv
    BY LineProperties DEF OneLine, NoFeed
  <2> HIDE DEF sv
  <2>2. ((k \o <<Colon>>) \o sv) \o <<CR>> = (k \o <<Colon>>) \o (sv \o <<CR>>)
    <3>1. Cat(Cat(k \o <<Colon>>, sv), <<CR>>) = Cat(k \o <<Colon>>, Cat(sv, <<CR>>))
      BY <1>2, TextAlgebra
    <3>. QED  BY <3>1 DEF Cat
  <2>. QED  BY <2>1, <2>2
<1> HIDE DEF sv
<1>6. ReadHeader(acc, Line(k, v) \o <<CR>>) =
        [headers |-> Put(acc.headers, k, StripLeft(v, SP)), value |-> StripLeft(v, SP)]
  <2> DEFINE r == sv \o <<CR>>
  <2> HIDE DEF r
  <2>1. r \in Texts
    BY <1>2 DEF r
  <2>2. ReadHeader(acc, (k \o <<Colon>>) \o r) =
          [headers |-> Put(acc.headers, k, Trim(r)), value |-> Trim(r)]
    BY <1>1, <2>1
  <2>. QED  BY <1>4, <1>5, <2>2 DEF r
<1>7. ReadHeader(acc, Line(k, v)) = [headers |-> Put(acc.headers, k, Trim(sv)), value |-> Trim(sv)]
  BY <1>1, <1>2, <1>5
<1>. QED  BY <1>6, <1>7 DEF sv

-----------------------------------------------------------------------------
(* The header lines that to_string writes.                                    *)
OneTexts == {v \in Texts : OneLine(v)}
LineValues == {v \in Texts : NoFeed(v)}
IsHeaders(h, V) == DOMAIN h \in SUBSET CleanKeys /\ IsFiniteSet(DOMAIN h) /\ h \in [DOMAIN h -> V]
Lined(keys, h) == [n \in 1..Len(keys) |-> Line(keys[n], h[keys[n]])]

LEMMA HeaderKeys ==
  ASSUME NEW S \in SUBSET CleanKeys, IsFiniteSet(S), NEW keys, keys = Sorted(S, Before)
  PROVE  /\ Enumerates(keys, S) /\ \A i, j \in 1..Len(keys) : i < j <=> Before(keys[i], keys[j])
         /\ \A i, j \in 1..Len(keys) : keys[i] = keys[j] => i = j
<1>1. S \in SUBSET Texts
  BY KeyProperties
<1>2. Enumerates(keys, S) /\ \A i, j \in 1..Len(keys) : i < j <=> Before(keys[i], keys[j])
  BY <1>1, SortedKeys
<1>3. ASSUME NEW i \in 1..Len(keys), NEW j \in 1..Len(keys), keys[i] = keys[j] PROVE i = j
  <2>1. keys[i] \in Texts /\ Len(keys) \in Nat
    BY <1>1, <1>2 DEF Enumerates
  <2>2. ~(i < j) /\ ~(j < i)
    BY <1>2, <1>3, <2>1, BeforeIsOrder
  <2>. QED  BY <2>1, <2>2
<1>. QED  BY <1>2, <1>3

LEMMA HeaderBlock ==
  ASSUME NEW h, IsHeaders(h, LineValues), NEW keys, keys = Sorted(DOMAIN h, Before)
  PROVE  /\ HeaderLines(h) = Block(Lined(keys, h)) /\ HeaderLines(h) \in Texts
         /\ Lined(keys, h) \in Seq(LineTexts) /\ Len(Lined(keys, h)) = Len(keys)
         /\ \A n \in 1..Len(keys) : Lined(keys, h)[n] = Line(keys[n], h[keys[n]])
         /\ IsHeaders(h, OneTexts) => Lined(keys, h) \in Seq(BlockLines)
<1> DEFINE q == Lined(keys, h)
<1>1. /\ Len(keys) \in Nat
      /\ \A n \in 1..Len(keys) : keys[n] \in DOMAIN h /\ keys[n] \in CleanKeys /\ h[keys[n]] \in LineValues
  BY HeaderKeys DEF IsHeaders, Enumerates
<1>3. \A n \in 1..Len(keys) : Line(keys[n], h[keys[n]]) \in LineTexts
  BY <1>1, LineProperties DEF LineValues
<1>4. q \in Seq(LineTexts)
  BY <1>1, <1>3 DEF Lined
<1>2. Len(q) = Len(keys) /\ \A n \in 1..Len(keys) : q[n] = Line(keys[n], h[keys[n]])
  <2>1. q = [n \in 1..Len(keys) |-> Line(keys[n], h[keys[n]])]
    BY DEF Lined
  <2>2. Len(q) \in Nat /\ DOMAIN q = 1..Len(q)
    BY <1>4, LenProperties
  <2> HIDE DEF q
  <2>3. \A n \in 1..Len(keys) : q[n] = Line(keys[n], h[keys[n]])
    BY <2>1
  <2>4. 1..Len(q) = 1..Len(keys)
    BY <2>1, <2>2
  <2>. QED  BY <1>1, <2>2, <2>3, <2>4
<1>5. ASSUME IsHeaders(h, OneTexts) PROVE q \in Seq(BlockLines)
  <2>1. \A n \in 1..Len(keys) : OneLine(h[keys[n]])
    BY <1>1, <1>5 DEF IsHeaders, OneTexts
  <2>2. \A n \in 1..Len(keys) : Line(keys[n], h[keys[n]]) \in BlockLines
    BY <1>1, <2>1, LineProperties DEF LineValues
  <2>. QED  BY <1>1, <2>2 DEF Lined
<1>6. HeaderLines(h) = Block(q)
  <2>1. HeaderLines(h) = FlattenSeq([n \in 1..Len(keys) |-> Line(keys[n], h[keys[n]]) \o NewLine])
    BY DEF HeaderLines, Line
  <2>2. Followed(q, NewLine) = [n \in 1..Len(keys) |-> Line(keys[n], h[keys[n]]) \o NewLine]
    <3> HIDE DEF q
    <3>. QED  BY <1>2 DEF Followed
  <2>. QED  BY <2>1, <2>2 DEF Block, Ended
<1>. QED  BY <1>2, <1>4, <1>5, <1>6, BlockStep

(* Without the last line end, the lines of a request that getline reads.      *)
IsHeaderText(g, h, keys) ==
  /\ HeaderLines(h) = g \o NewLine /\ NoBlank(g \o NewLine)
  /\ Len(LinesOf(g)) = Len(keys)
  /\ \A n \in 1..Len(keys) :
       LinesOf(g)[n] = IF n = Len(keys) THEN Line(keys[n], h[keys[n]])
                       ELSE Line(keys[n], h[keys[n]]) \o <<CR>>

LEMMA HeaderText ==
  ASSUME NEW h, IsHeaders(h, OneTexts), DOMAIN h # {}, NEW keys, keys = Sorted(DOMAIN h, Before)
  PROVE  Len(keys) \in Nat \ {0} /\ \E g \in Texts : IsHeaderText(g, h, keys)
<1> DEFINE q == Lined(keys, h)
           f == Front(q)
           l == Last(q)
           e == <<CR>>
           g == Block(f) \o l
           r == Followed(f, e)
<1>1. IsHeaders(h, LineValues)
  BY DEF IsHeaders, OneTexts, LineValues, OneLine, NoFeed
<1>2. Enumerates(keys, DOMAIN h)
  BY HeaderKeys DEF IsHeaders
<1>3. Len(keys) \in Nat \ {0}
  <2>1. PICK x \in DOMAIN h : TRUE
    OBVIOUS
  <2>. QED  BY <1>2, <2>1 DEF Enumerates
<1>4. /\ HeaderLines(h) = Block(q) /\ q \in Seq(LineTexts) /\ q \in Seq(BlockLines)
      /\ Len(q) = Len(keys) /\ \A n \in 1..Len(keys) : q[n] = Line(keys[n], h[keys[n]])
  BY <1>1, HeaderBlock
<1>5. q # <<>>
  BY <1>3, <1>4, EmptyText
<1>6. q = Append(f, l) /\ f \in Seq(LineTexts) /\ l \in LineTexts
  <2> HIDE DEF q
  <2>. QED  BY <1>4, <1>5, FrontLast
<1> HIDE DEF q, f, l
<1>7. g \in Texts /\ Block(q) = g \o NewLine /\ LinesOf(g) = Append(r, l)
  BY <1>6, BlockLast
<1>8. NoBlank(g \o NewLine)
  <2>1. NoBlank(Block(q))
    BY <1>4, BlockNoBlank
  <2>. QED  BY <1>7, <2>1
<1>9. /\ f \in Seq(Texts) /\ e \in Texts /\ l \in Texts
      /\ Len(f) \in Nat /\ Len(q) = Len(f) + 1 /\ q[Len(f) + 1] = l /\ \A n \in 1..Len(f) : q[n] = f[n]
  <2>1. f \in Seq(Texts) /\ l \in Texts /\ e \in Texts
    BY <1>6, BlockStep, SeparatorsDiffer, OneCharacter DEF LineTexts
  <2>. QED  BY <1>6, <2>1, AppendProperties, LenProperties
<1>10. r \in Seq(Texts) /\ Len(r) = Len(f) /\ \A n \in 1..Len(f) : r[n] = f[n] \o e
  <2>1. r \in Seq(Texts) /\ Len(r) = Len(f)
    <3> HIDE DEF e
    <3>. QED  BY <1>9, FollowedStep
  <2>. QED  BY <2>1 DEF Followed
<1> HIDE DEF g, r, e
<1>11. /\ Len(Append(r, l)) = Len(f) + 1 /\ Append(r, l)[Len(f) + 1] = l
       /\ \A n \in 1..Len(f) : Append(r, l)[n] = f[n] \o e
  BY <1>9, <1>10, AppendProperties
<1>12. ASSUME NEW n \in 1..Len(keys)
       PROVE  LinesOf(g)[n] = IF n = Len(keys) THEN Line(keys[n], h[keys[n]])
                              ELSE Line(keys[n], h[keys[n]]) \o e
  <2>1. CASE n = Len(keys)
    <3>1. LinesOf(g)[n] = l /\ q[n] = l
      BY <1>4, <1>7, <1>9, <1>11, <2>1
    <3>. QED  BY <1>4, <2>1, <3>1
  <2>2. CASE n # Len(keys)
    <3>1. n \in 1..Len(f)
      BY <1>4, <1>9, <2>2
    <3>2. LinesOf(g)[n] = q[n] \o e
      BY <1>7, <1>9, <1>11, <3>1
    <3>. QED  BY <1>4, <2>2, <3>2
  <2>. QED  BY <2>1, <2>2
<1>13. Len(LinesOf(g)) = Len(keys)
  BY <1>4, <1>7, <1>9, <1>11
<1>14. IsHeaderText(g, h, keys)
  <2>1. HeaderLines(h) = g \o NewLine /\ NoBlank(g \o NewLine)
    BY <1>4, <1>7, <1>8
  <2>. QED  BY <2>1, <1>12, <1>13 DEF e, IsHeaderText
<1>. QED  BY <1>3, <1>4, <1>7, <1>14

(* What string_to_request makes of the headers: trim takes the blanks in      *)
(* front of a value off, and those behind it of the last value only, which    *)
(* has no carriage return behind it.                                          *)
Received(h) ==
  [k \in DOMAIN h |->
     IF k = Sorted(DOMAIN h, Before)[Cardinality(DOMAIN h)] THEN Trim(<<SP>> \o h[k])
     ELSE StripLeft(h[k], SP)]

FirstKeys(keys, n) == {keys[i] : i \in 1..n}

LEMMA PutNext ==
  ASSUME NEW keys, NEW got, NEW n \in Nat \ {0}
  PROVE  Put([x \in FirstKeys(keys, n - 1) |-> got[x]], keys[n], got[keys[n]]) =
           [x \in FirstKeys(keys, n) |-> got[x]]
<1> DEFINE f == [x \in FirstKeys(keys, n - 1) |-> got[x]]
           k == keys[n]
<1>1. FirstKeys(keys, n) = FirstKeys(keys, n - 1) \union {k}
  BY DEF FirstKeys
<1>2. DOMAIN f = FirstKeys(keys, n - 1) /\ \A x \in FirstKeys(keys, n - 1) : f[x] = got[x]
  OBVIOUS
<1> HIDE DEF f, k
<1>3. Put(f, k, got[k]) = [x \in FirstKeys(keys, n - 1) \union {k} |-> IF x = k THEN got[k] ELSE f[x]]
  BY <1>2 DEF Put
<1>4. \A x \in FirstKeys(keys, n - 1) \union {k} : (IF x = k THEN got[k] ELSE f[x]) = got[x]
  BY <1>2
<1>. QED  BY <1>1, <1>3, <1>4 DEF f, k

LEMMA ParsedBlock ==
  ASSUME NEW h, IsHeaders(h, OneTexts), DOMAIN h # {}
  PROVE  \E g \in Texts : /\ HeaderLines(h) = g \o NewLine /\ NoBlank(g \o NewLine)
                          /\ \A p : p.headers = g => ParsedHeaders(p) = Received(h)
<1> DEFINE keys == Sorted(DOMAIN h, Before)
           N == Len(keys)
           got == Received(h)
<1>1. /\ Enumerates(keys, DOMAIN h) /\ \A i, j \in 1..N : keys[i] = keys[j] => i = j
  BY HeaderKeys DEF IsHeaders
<1>2. \A x \in DOMAIN h : got[x] = IF x = keys[N] THEN Trim(<<SP>> \o h[x]) ELSE StripLeft(h[x], SP)
  BY <1>1 DEF Received, Enumerates
<1>3. DOMAIN got = DOMAIN h /\ got = [x \in DOMAIN h |-> got[x]]
  BY DEF Received
<1> HIDE DEF keys, got
<1>4. N \in Nat \ {0} /\ \E g \in Texts : IsHeaderText(g, h, keys)
  <2>1. keys = Sorted(DOMAIN h, Before)
    BY DEF keys
  <2>. QED  BY <2>1, HeaderText
<1>5. PICK g \in Texts :
        /\ HeaderLines(h) = g \o NewLine /\ NoBlank(g \o NewLine) /\ Len(LinesOf(g)) = N
        /\ \A n \in 1..N : LinesOf(g)[n] = IF n = N THEN Line(keys[n], h[keys[n]])
                                           ELSE Line(keys[n], h[keys[n]]) \o <<CR>>
  BY <1>4 DEF IsHeaderText
<1> DEFINE lines == LinesOf(g)
<1> HIDE DEF lines, N
<1>6. ASSUME NEW n \in 1..N, NEW acc
      PROVE  ReadHeader(acc, lines[n]) = [headers |-> Put(acc.headers, keys[n], got[keys[n]]),
                                          value |-> got[keys[n]]]
  <2>1. keys[n] \in DOMAIN h /\ keys[n] \in CleanKeys /\ h[keys[n]] \in Texts /\ OneLine(h[keys[n]])
    BY <1>1 DEF Enumerates, IsHeaders, OneTexts, N
  <2>2. CASE n = N
    <3>1. lines[n] = Line(keys[n], h[keys[n]]) /\ got[keys[n]] = Trim(<<SP>> \o h[keys[n]])
      BY <1>2, <1>5, <2>1, <2>2 DEF lines
    <3>. QED  BY <2>1, <3>1, ReadLine
  <2>3. CASE n # N
    <3>1. keys[n] # keys[N]
      BY <1>1, <1>4, <2>3 DEF N
    <3>2. lines[n] = Line(keys[n], h[keys[n]]) \o <<CR>> /\ got[keys[n]] = StripLeft(h[keys[n]], SP)
      BY <1>2, <1>5, <2>1, <2>3, <3>1 DEF lines
    <3>. QED  BY <2>1, <3>2, ReadLine
  <2>. QED  BY <2>2, <2>3
<1> DEFINE first == [headers |-> NoHeaders, value |-> <<>>]
           F == [n \in 0..N |-> [headers |-> [x \in FirstKeys(keys, n) |-> got[x]],
                                 value |-> IF n = 0 THEN <<>> ELSE got[keys[n]]]]
<1>7. F[0] = first
  <2>1. FirstKeys(keys, 0) = {}
    BY DEF FirstKeys
  <2>2. F[0] = [headers |-> [x \in FirstKeys(keys, 0) |-> got[x]], value |-> <<>>]
    BY <1>4
  <2>3. [x \in FirstKeys(keys, 0) |-> got[x]] = NoHeaders
    BY <2>1 DEF NoHeaders
  <2>. QED  BY <2>2, <2>3
<1>8. ASSUME NEW n \in 1..N PROVE F[n] = ReadHeader(F[n - 1], lines[n])
  <2>1. n \in Nat \ {0} /\ n - 1 \in 0..N /\ n \in 0..N
    BY <1>4
  <2>2. F[n - 1].headers = [x \in FirstKeys(keys, n - 1) |-> got[x]]
    BY <2>1
  <2>3. F[n] = [headers |-> [x \in FirstKeys(keys, n) |-> got[x]], value |-> got[keys[n]]]
    BY <2>1
  <2> HIDE DEF F
  <2>4. Put(F[n - 1].headers, keys[n], got[keys[n]]) = [x \in FirstKeys(keys, n) |-> got[x]]
    <3> DEFINE a == FirstKeys(keys, n - 1)
               f == [x \in a |-> got[x]]
    <3>1. Put(f, keys[n], got[keys[n]]) = [x \in FirstKeys(keys, n) |-> got[x]]
      BY <2>1, PutNext
    <3>2. F[n - 1].headers = f
      BY <2>2
    <3> HIDE DEF f
    <3>. QED  BY <3>1, <3>2
  <2>5. ReadHeader(F[n - 1], lines[n]) =
          [headers |-> Put(F[n - 1].headers, keys[n], got[keys[n]]), value |-> got[keys[n]]]
    BY <1>6
  <2>. QED  BY <2>3, <2>4, <2>5, Zenon
<1>9. F[N].headers = got
  <2>1. F[N].headers = [x \in FirstKeys(keys, N) |-> got[x]]
    BY <1>4
  <2>2. FirstKeys(keys, N) = DOMAIN h
    <3>1. \A i \in 1..N : keys[i] \in DOMAIN h
      BY <1>1 DEF Enumerates, N
    <3>2. \A x \in DOMAIN h : \E i \in 1..N : keys[i] = x
      BY <1>1 DEF Enumerates, N
    <3>. QED  BY <3>1, <3>2 DEF FirstKeys
  <2>. QED  BY <1>3, <2>1, <2>2
<1>10. F \in [0..N -> {F[n] : n \in 0..N}]
  OBVIOUS
<1> HIDE DEF F, first
<1>11. ASSUME NEW p, p.headers = g PROVE ParsedHeaders(p) = got
  <2> DEFINE IsRead(f) == f = [n \in 0..N |-> IF n = 0 THEN first ELSE ReadHeader(f[n - 1], lines[n])]
             read == CHOOSE f : IsRead(f)
  <2>1. IsRead(F)
    <3>1. \A n \in 0..N : F[n] = IF n = 0 THEN first ELSE ReadHeader(F[n - 1], lines[n])
      BY <1>4, <1>7, <1>8
    <3>2. F = [n \in 0..N |-> F[n]]
      BY <1>10
    <3>3. [n \in 0..N |-> F[n]] = [n \in 0..N |-> IF n = 0 THEN first ELSE ReadHeader(F[n - 1], lines[n])]
      BY <3>1
    <3>. QED  BY <3>2, <3>3
  <2>2. ParsedHeaders(p) = read[N].headers
    <3>1. Len(lines) = N /\ LinesOf(p.headers) = lines
      BY <1>5, <1>11 DEF lines
    <3>. QED  BY <3>1 DEF ParsedHeaders, first
  <2>3. IsRead(read)
    BY <2>1
  <2> HIDE DEF read
  <2>4. read[0] = first /\ \A n \in 1..N : read[n] = ReadHeader(read[n - 1], lines[n])
    BY <1>4, <2>3
  <2>5. StepsAlike(read, F, N)
    BY <1>7, <1>8, <2>4 DEF StepsAlike
  <2>6. Alike(read, F, N)
    BY <1>4, <2>5, RecursionUnique
  <2>7. read[N] = F[N]
    BY <1>4, <2>6 DEF Alike
  <2>. QED  BY <1>9, <2>2, <2>7
<1>. QED  BY <1>5, <1>11 DEF got

-----------------------------------------------------------------------------
(* The values that arrive.                                                    *)
Led(v) == v # <<>> => v[1] # SP
Trimmed(v) == v # <<>> => v[1] # SP /\ v[Len(v)] # SP

LEMMA TrimOut ==
  ASSUME NEW s \in Texts, OneLine(s)
  PROVE  Trim(s) \in OneTexts /\ Trimmed(Trim(s))
<1> DEFINE r == StripRight(s, SP)
           t == StripLeft(r, SP)
<1>1. Trim(s) = t
  BY TrimOneLine
<1>2. /\ r \in Texts /\ r # <<>> => r[Len(r)] # SP
  BY StripRightProperties
<1>3. r \in Texts
  BY StripRightProperties
<1>4. \A n \in 1..Len(r) : \E m \in 1..Len(s) : r[n] = s[m]
  BY StripRightProperties
<1> HIDE DEF r
<1>5. /\ t \in Texts
      /\ t # <<>> => t[1] # SP /\ t[Len(t)] = r[Len(r)]
      /\ r = <<>> => t = r
      /\ \A n \in 1..Len(t) : \E m \in 1..Len(r) : t[n] = r[m]
  BY <1>3, StripLeftProperties
<1> HIDE DEF t
<1>6. OneLine(t)
  <2>1. ASSUME NEW n \in 1..Len(t) PROVE t[n] \notin {CR, LF}
    <3>1. PICK m \in 1..Len(r) : t[n] = r[m]
      BY <1>5
    <3>2. PICK i \in 1..Len(s) : r[m] = s[i]
      BY <1>4
    <3>. QED  BY <3>1, <3>2 DEF OneLine
  <2>. QED  BY <2>1 DEF OneLine
<1>7. Trimmed(t)
  BY <1>2, <1>3, <1>5 DEF Trimmed
<1>. QED  BY <1>1, <1>5, <1>6, <1>7 DEF OneTexts

LEMMA TrimBlank ==
  ASSUME NEW v \in OneTexts
  PROVE  /\ Trim(<<SP>> \o v) \in OneTexts /\ Trimmed(Trim(<<SP>> \o v))
         /\ Trimmed(v) => Trim(<<SP>> \o v) = v
         /\ Trim(v) = v => Trimmed(v)
<1> DEFINE sv == <<SP>> \o v
<1>1. v \in Texts /\ OneLine(v) /\ sv \in Texts /\ OneLine(sv)
  BY BlankOneLine DEF OneTexts
<1>2. Trim(sv) \in OneTexts /\ Trimmed(Trim(sv)) /\ Trimmed(Trim(v))
  BY <1>1, TrimOut
<1>3. ASSUME Trimmed(v) PROVE Trim(sv) = v
  <2>1. CASE v = <<>>
    <3>1. sv = <<SP>> /\ Len(sv) = 1 /\ sv[1] = SP
      BY <2>1, SeparatorsDiffer, OneCharacter, EmptyText
    <3>2. StripRight(sv, SP) = SubSeq(sv, 1, 0)
      <4>1. 0 \in 0..Len(sv) /\ \A i \in (0 + 1)..Len(sv) : sv[i] = SP
        BY <3>1
      <4> HIDE DEF sv
      <4>. QED  BY <1>1, <4>1, StripRightIs
    <3>3. SubSeq(sv, 1, 0) = <<>>
      <4> HIDE DEF sv
      <4>1. SubSeq(sv, 1, 0) \in Texts /\ Len(SubSeq(sv, 1, 0)) = 0
        BY <1>1, <3>1, TextSlice
      <4>. QED  BY <4>1, TextProperties
    <3>4. StripLeft(<<>>, SP) = <<>>
      BY EmptyText, StripLeftProperties
    <3> HIDE DEF sv
    <3>. QED  BY <1>1, <2>1, <3>2, <3>3, <3>4, TrimOneLine
  <2>2. CASE v # <<>>
    <3>1. /\ Len(sv) = Len(<<SP>>) + Len(v) /\ \A n \in 1..Len(v) : sv[Len(<<SP>>) + n] = v[n]
      BY <1>1, SeparatorsDiffer, OneCharacter, TextConcat
    <3>2. Len(v) \in 1..Len(v)
      BY <1>1, <2>2, TextProperties
    <3>3. sv[Len(sv)] # SP
      BY <1>3, <2>2, <3>1, <3>2 DEF Trimmed
    <3>4. StripLeft(sv, SP) = StripLeft(v, SP)
      BY <1>1, SeparatorsDiffer, StripLeftBlank
    <3>5. StripLeft(v, SP) = v
      BY <1>1, <1>3, <2>2, StripLeftProperties DEF Trimmed
    <3> HIDE DEF sv
    <3>6. StripRight(sv, SP) = sv
      BY <1>1, <3>3, StripRightProperties
    <3>. QED  BY <1>1, <3>4, <3>5, <3>6, TrimOneLine
  <2>. QED  BY <2>1, <2>2
<1>. QED  BY <1>2, <1>3

LEMMA StripBlank ==
  ASSUME NEW v \in OneTexts
  PROVE  /\ StripLeft(v, SP) \in OneTexts /\ Led(StripLeft(v, SP))
         /\ Led(v) => StripLeft(v, SP) = v
<1>1. v \in Texts /\ OneLine(v)
  BY DEF OneTexts
<1>2. /\ StripLeft(v, SP) \in Texts
      /\ StripLeft(v, SP) # <<>> => StripLeft(v, SP)[1] # SP
      /\ (v = <<>> \/ v[1] # SP) => StripLeft(v, SP) = v
      /\ \A n \in 1..Len(StripLeft(v, SP)) : \E m \in 1..Len(v) : StripLeft(v, SP)[n] = v[m]
  BY <1>1, StripLeftProperties
<1>3. OneLine(StripLeft(v, SP))
  BY <1>1, <1>2 DEF OneLine
<1>. QED  BY <1>2, <1>3 DEF OneTexts, Led

(* The greatest key, whose line is written last.                              *)
LastKey(S) == Sorted(S, Before)[Cardinality(S)]

LEMMA LastKeyIs ==
  ASSUME NEW S \in SUBSET CleanKeys, IsFiniteSet(S), S # {}
  PROVE  /\ LastKey(S) \in S /\ \A x \in S : x = LastKey(S) \/ Before(x, LastKey(S))
         /\ \A y \in S : (\A x \in S : x = y \/ Before(x, y)) => y = LastKey(S)
<1> DEFINE keys == Sorted(S, Before)
           N == Cardinality(S)
<1>1. /\ Enumerates(keys, S) /\ \A i, j \in 1..Len(keys) : i < j <=> Before(keys[i], keys[j])
  BY HeaderKeys
<1>2. LastKey(S) = keys[N]
  BY DEF LastKey
<1> HIDE DEF keys, N
<1>3. Len(keys) = N /\ N \in Nat /\ (\A i \in 1..N : keys[i] \in S) /\ \A x \in S : \E i \in 1..N : keys[i] = x
  BY <1>1 DEF Enumerates, N
<1>4. N \in 1..N
  <2>1. PICK x \in S : TRUE
    OBVIOUS
  <2>. QED  BY <1>3, <2>1
<1>5. ASSUME NEW x \in S PROVE x = keys[N] \/ Before(x, keys[N])
  <2>1. PICK i \in 1..N : keys[i] = x
    BY <1>3
  <2>2. CASE i = N
    BY <2>1, <2>2
  <2>3. CASE i < N
    BY <1>1, <1>3, <1>4, <2>1, <2>3
  <2>. QED  BY <1>3, <2>1, <2>2, <2>3
<1>6. ASSUME NEW y \in S, \A x \in S : x = y \/ Before(x, y) PROVE y = keys[N]
  <2>1. y = keys[N] \/ (Before(y, keys[N]) /\ Before(keys[N], y))
    BY <1>3, <1>4, <1>5, <1>6
  <2>2. y \in Texts /\ keys[N] \in Texts
    BY <1>3, <1>4, KeyProperties
  <2>. QED  BY <2>1, <2>2, BeforeIsOrder
<1>. QED  BY <1>2, <1>3, <1>4, <1>5, <1>6

(* Headers that have been read from a wire: blanks are where the parser       *)
(* leaves them.                                                               *)
Canonical(h) == (\A k \in DOMAIN h : Led(h[k])) /\ (DOMAIN h # {} => Trimmed(h[LastKey(DOMAIN h)]))

LEMMA ReceivedHeaders ==
  ASSUME NEW h, IsHeaders(h, OneTexts), DOMAIN h # {}
  PROVE  /\ IsHeaders(Received(h), OneTexts) /\ Canonical(Received(h)) /\ DOMAIN Received(h) = DOMAIN h
         /\ \A k \in DOMAIN h : Trim(h[k]) = h[k] => Received(h)[k] = h[k]
         /\ Canonical(h) => Received(h) = h
<1> DEFINE r == Received(h)
           l == LastKey(DOMAIN h)
<1>1. /\ DOMAIN r = DOMAIN h /\ r = [k \in DOMAIN h |-> r[k]]
      /\ \A k \in DOMAIN h : r[k] = IF k = l THEN Trim(<<SP>> \o h[k]) ELSE StripLeft(h[k], SP)
  BY DEF Received, LastKey
<1>2. l \in DOMAIN h
  BY LastKeyIs DEF IsHeaders
<1> HIDE DEF r, l
<1>3. ASSUME NEW k \in DOMAIN h
      PROVE  /\ r[k] \in OneTexts /\ Led(r[k]) /\ (k = l => Trimmed(r[k]))
             /\ Trim(h[k]) = h[k] => r[k] = h[k]
             /\ (Led(h[k]) /\ (k = l => Trimmed(h[k]))) => r[k] = h[k]
  <2>1. h[k] \in OneTexts
    BY DEF IsHeaders
  <2>2. /\ Trim(<<SP>> \o h[k]) \in OneTexts /\ Trimmed(Trim(<<SP>> \o h[k]))
        /\ Trimmed(h[k]) => Trim(<<SP>> \o h[k]) = h[k]
        /\ Trim(h[k]) = h[k] => Trimmed(h[k])
    BY <2>1, TrimBlank
  <2>3. /\ StripLeft(h[k], SP) \in OneTexts /\ Led(StripLeft(h[k], SP))
        /\ Led(h[k]) => StripLeft(h[k], SP) = h[k]
    BY <2>1, StripBlank
  <2>4. \A v : Trimmed(v) => Led(v)
    BY DEF Trimmed, Led
  <2>5. CASE k = l
    BY <1>1, <2>2, <2>4, <2>5
  <2>6. CASE k # l
    BY <1>1, <2>2, <2>3, <2>4, <2>6
  <2>. QED  BY <2>5, <2>6
<1>4. IsHeaders(r, OneTexts)
  <2>1. r \in [DOMAIN h -> OneTexts]
    BY <1>1, <1>3
  <2>. QED  BY <1>1, <2>1 DEF IsHeaders
<1>5. Canonical(r)
  BY <1>1, <1>2, <1>3 DEF Canonical, l
<1>6. ASSUME Canonical(h) PROVE r = h
  <2>1. \A k \in DOMAIN h : r[k] = h[k]
    BY <1>3, <1>6 DEF Canonical, l
  <2>2. h = [k \in DOMAIN h |-> h[k]]
    BY DEF IsHeaders
  <2>. QED  BY <1>1, <2>1, <2>2
<1>. QED  BY <1>1, <1>3, <1>4, <1>5, <1>6 DEF r

(* SetHeader, and the header of the length.                                   *)
LEMMA PutSame ==
  ASSUME NEW h, h = [x \in DOMAIN h |-> h[x]], NEW k \in DOMAIN h
  PROVE  Put(h, k, h[k]) = h
<1> DEFINE p == Put(h, k, h[k])
<1>1. p = [x \in DOMAIN h |-> p[x]] /\ \A x \in DOMAIN h : p[x] = h[x]
  BY DEF Put
<1> HIDE DEF p
<1>2. p = h
  BY <1>1
<1>. QED  BY <1>2 DEF p

LEMMA PutHeader ==
  ASSUME NEW V, NEW h, IsHeaders(h, V), NEW k \in CleanKeys, NEW v \in V
  PROVE  /\ IsHeaders(Put(h, k, v), V)
         /\ (Canonical(h) /\ Trimmed(v)) => Canonical(Put(h, k, v))
<1> DEFINE p == Put(h, k, v)
           D == DOMAIN h \union {k}
<1>1. /\ DOMAIN p = D /\ p = [x \in D |-> p[x]] /\ p[k] = v /\ \A x \in D \ {k} : p[x] = h[x]
  <2>1. /\ DOMAIN p = D /\ p = [x \in D |-> p[x]] /\ p[k] = v /\ \A x \in DOMAIN h \ {k} : p[x] = h[x]
    BY DEF Put
  <2>2. D \ {k} = DOMAIN h \ {k}
    OBVIOUS
  <2> HIDE DEF p, D
  <2>. QED  BY <2>1, <2>2
<1> HIDE DEF p
<1>2. D \in SUBSET CleanKeys /\ IsFiniteSet(D) /\ p \in [D -> V]
  <2>1. IsFiniteSet(D)
    BY FS_AddElement DEF IsHeaders
  <2>2. \A x \in D : p[x] \in V
    BY <1>1 DEF IsHeaders
  <2>. QED  BY <1>1, <2>1, <2>2 DEF IsHeaders
<1>3. ASSUME Canonical(h), Trimmed(v) PROVE Canonical(p)
  <2>1. \A x \in D : Led(p[x])
    BY <1>1, <1>3 DEF Canonical, Trimmed, Led
  <2>2. LastKey(D) \in D /\ \A x \in D : x = LastKey(D) \/ Before(x, LastKey(D))
    BY <1>2, LastKeyIs
  <2>3. CASE LastKey(D) = k
    BY <1>1, <1>3, <2>1, <2>3 DEF Canonical
  <2>4. CASE LastKey(D) # k
    <3>1. LastKey(D) \in DOMAIN h
      BY <2>2, <2>4
    <3>2. LastKey(D) = LastKey(DOMAIN h)
      BY <2>2, <3>1, LastKeyIs DEF IsHeaders
    <3>. QED  BY <1>1, <1>3, <2>1, <2>2, <2>4, <3>1, <3>2 DEF Canonical
  <2>. QED  BY <2>3, <2>4
<1>. QED  BY <1>1, <1>2, <1>3 DEF p, IsHeaders

-----------------------------------------------------------------------------
(* First lines.                                                               *)
IsWordAt(s, n) == s[n] \notin {SP, CR, LF}

LEMMA WordsAt ==
  ASSUME NEW s \in Texts
  PROVE  \E at : /\ Len(at) \in Nat /\ WordsOf(s) = [k \in 1..Len(at) |-> s[at[k]]]
                 /\ \A k \in 1..Len(at) : at[k] \in 1..Len(s) /\ IsWordAt(s, at[k])
                 /\ \A n \in 1..Len(s) : IsWordAt(s, n) => \E k \in 1..Len(at) : at[k] = n
                 /\ \A i, j \in 1..Len(at) : i < j <=> at[i] < at[j]
<1> DEFINE S == {n \in 1..Len(s) : s[n] \notin {SP, CR, LF}}
           at == Sorted(S, Less)
<1>1. S \in SUBSET Nat /\ IsFiniteSet(S)
  <2>1. Len(s) \in Nat
    BY TextProperties
  <2>2. IsFiniteSet(1..Len(s)) /\ S \subseteq 1..Len(s)
    BY <2>1, FS_Interval
  <2>. QED  BY <2>1, <2>2, FS_Subset
<1>2. WordsOf(s) = [k \in 1..Len(at) |-> s[at[k]]]
  BY DEF WordsOf
<1>3. \A n : n \in S <=> n \in 1..Len(s) /\ IsWordAt(s, n)
  BY DEF IsWordAt
<1> HIDE DEF S
<1>4. Enumerates(at, S) /\ \A i, j \in 1..Len(at) : i < j <=> at[i] < at[j]
  <2> DEFINE q == at
  <2>1. q = Sorted(S, Less)
    OBVIOUS
  <2> HIDE DEF q
  <2>2. Enumerates(q, S) /\ \A i, j \in 1..Len(q) : i < j <=> q[i] < q[j]
    BY <1>1, <2>1, SortedNumbers
  <2>. QED  BY <2>2 DEF q
<1> HIDE DEF at
<1>5. Len(at) \in Nat /\ (\A k \in 1..Len(at) : at[k] \in S) /\ \A n \in S : \E k \in 1..Len(at) : at[k] = n
  BY <1>4 DEF Enumerates
<1>. QED  BY <1>2, <1>3, <1>4, <1>5

(* The first words of a line, at three positions.                             *)
LEMMA ThreeWords ==
  ASSUME NEW s \in Texts, NEW a \in 1..Len(s), NEW b \in 1..Len(s), NEW c \in 1..Len(s), a < b, b < c,
         IsWordAt(s, a), IsWordAt(s, b), IsWordAt(s, c),
         \A n \in 1..Len(s) : IsWordAt(s, n) => n = a \/ n = b \/ n = c
  PROVE  WordsOf(s) = <<s[a], s[b], s[c]>>
<1>1. PICK at : /\ Len(at) \in Nat /\ WordsOf(s) = [k \in 1..Len(at) |-> s[at[k]]]
                /\ \A k \in 1..Len(at) : at[k] \in 1..Len(s) /\ IsWordAt(s, at[k])
                /\ \A n \in 1..Len(s) : IsWordAt(s, n) => \E k \in 1..Len(at) : at[k] = n
                /\ \A i, j \in 1..Len(at) : i < j <=> at[i] < at[j]
  BY WordsAt
<1> DEFINE N == Len(at)
<1> HIDE DEF N
<1>2. PICK i \in 1..N, j \in 1..N, k \in 1..N : at[i] = a /\ at[j] = b /\ at[k] = c
  BY <1>1 DEF N
<1>3. N \in Nat /\ i < j /\ j < k
  BY <1>1, <1>2 DEF N
<1>4. \A n \in 1..N : n = i \/ n = j \/ n = k
  <2> SUFFICES ASSUME NEW n \in 1..N PROVE n = i \/ n = j \/ n = k
    OBVIOUS
  <2>1. at[n] = at[i] \/ at[n] = at[j] \/ at[n] = at[k]
    BY <1>1, <1>2 DEF N
  <2>2. \A x, y \in 1..N : at[x] = at[y] => x = y
    <3> SUFFICES ASSUME NEW x \in 1..N, NEW y \in 1..N, at[x] = at[y] PROVE x = y
      OBVIOUS
    <3>1. (x < y <=> at[x] < at[y]) /\ (y < x <=> at[y] < at[x])
      BY <1>1 DEF N
    <3>2. at[x] \in 1..Len(s)
      BY <1>1 DEF N
    <3>3. Len(s) \in Nat
      BY TextProperties
    <3>4. ~(at[x] < at[x]) /\ ~(at[y] < at[y])
      BY <3>2, <3>3
    <3>. QED  BY <1>3, <3>1, <3>4
  <2>. QED  BY <2>1, <2>2
<1>5. i = 1 /\ j = 2 /\ k = 3 /\ N = 3
  <2>1. 1 \in 1..N /\ i + 1 \in 1..N /\ j + 1 \in 1..N /\ N \in 1..N
    BY <1>3
  <2>2. /\ 1 = i \/ 1 = j \/ 1 = k
        /\ i + 1 = i \/ i + 1 = j \/ i + 1 = k
        /\ j + 1 = i \/ j + 1 = j \/ j + 1 = k
        /\ N = i \/ N = j \/ N = k
    BY <1>4, <2>1
  <2>. QED  BY <1>3, <2>2
<1>6. WordsOf(s) = [n \in 1..3 |-> s[at[n]]] /\ at[1] = a /\ at[2] = b /\ at[3] = c
  BY <1>1, <1>2, <1>5 DEF N
<1>7. \A n \in 1..3 : n = 1 \/ n = 2 \/ n = 3
  OBVIOUS
<1>8. [n \in 1..3 |-> s[at[n]]] = <<s[a], s[b], s[c]>>
  BY <1>6, <1>7
<1>. QED  BY <1>6, <1>8

(* How many words a line has, if they are two, and which is the second.       *)
LEMMA TwoWords ==
  ASSUME NEW s \in Texts, NEW a \in 1..Len(s), NEW b \in 1..Len(s), a < b,
         IsWordAt(s, a), IsWordAt(s, b),
         \A n \in 1..Len(s) : IsWordAt(s, n) => n = a \/ n = b \/ b < n
  PROVE  /\ WordsOf(s)[2] = s[b]
         /\ (\A n \in 1..Len(s) : IsWordAt(s, n) => n = a \/ n = b) => Len(WordsOf(s)) = 2
<1>1. PICK at : /\ Len(at) \in Nat /\ WordsOf(s) = [k \in 1..Len(at) |-> s[at[k]]]
                /\ \A k \in 1..Len(at) : at[k] \in 1..Len(s) /\ IsWordAt(s, at[k])
                /\ \A n \in 1..Len(s) : IsWordAt(s, n) => \E k \in 1..Len(at) : at[k] = n
                /\ \A i, j \in 1..Len(at) : i < j <=> at[i] < at[j]
  BY WordsAt
<1> DEFINE N == Len(at)
           w == WordsOf(s)
<1> HIDE DEF N, w
<1>2. PICK i \in 1..N, j \in 1..N : at[i] = a /\ at[j] = b
  BY <1>1 DEF N
<1>3. N \in Nat /\ i < j /\ Len(s) \in Nat
  BY <1>1, <1>2, TextProperties DEF N
<1>4. \A x, y \in 1..N : (x < y <=> at[x] < at[y]) /\ (at[x] = at[y] => x = y)
  <2> SUFFICES ASSUME NEW x \in 1..N, NEW y \in 1..N
               PROVE (x < y <=> at[x] < at[y]) /\ (at[x] = at[y] => x = y)
    OBVIOUS
  <2>1. at[x] \in Nat /\ at[y] \in Nat /\ (x < y <=> at[x] < at[y]) /\ (y < x <=> at[y] < at[x])
    BY <1>1, <1>3 DEF N
  <2>. QED  BY <1>3, <2>1
<1>5. \A n \in 1..N : n = i \/ n = j \/ j < n
  <2> SUFFICES ASSUME NEW n \in 1..N PROVE n = i \/ n = j \/ j < n
    OBVIOUS
  <2>1. at[n] = at[i] \/ at[n] = at[j] \/ at[j] < at[n]
    BY <1>1, <1>2 DEF N
  <2>. QED  BY <1>4, <2>1
<1>6. i = 1 /\ j = 2
  <2>1. 1 \in 1..N /\ i + 1 \in 1..N
    BY <1>3
  <2>2. (1 = i \/ 1 = j \/ j < 1) /\ (i + 1 = i \/ i + 1 = j \/ j < i + 1)
    BY <1>5, <2>1
  <2>. QED  BY <1>3, <2>2
<1>7. w = [k \in 1..N |-> s[at[k]]]
  BY <1>1 DEF N, w
<1>8. w[2] = s[b]
  BY <1>2, <1>6, <1>7
<1>9. ASSUME \A n \in 1..Len(s) : IsWordAt(s, n) => n = a \/ n = b PROVE Len(w) = 2
  <2>1. at[N] = at[i] \/ at[N] = at[j]
    <3>1. N \in 1..N
      BY <1>3
    <3>2. at[N] \in 1..Len(s) /\ IsWordAt(s, at[N])
      BY <1>1, <3>1 DEF N
    <3>. QED  BY <1>2, <1>9, <3>2
  <2>2. N = 2
    BY <1>3, <1>4, <1>6, <2>1
  <2>3. w = [k \in 1..2 |-> s[at[k]]]
    BY <1>7, <2>2
  <2>4. [k \in 1..2 |-> s[at[k]]] = <<s[at[1]], s[at[2]]>>
    <3>1. \A n \in 1..2 : n = 1 \/ n = 2
      OBVIOUS
    <3>. QED  BY <3>1
  <2>. QED  BY <2>3, <2>4
<1>. QED  BY <1>8, <1>9 DEF w

RequestStarts == {<<m, SP, p>> : m \in Words, p \in Words} \union {<<m, SP>> : m \in Words}

LEMMA WordsAreWords ==
  /\ \A w \in Words : w \notin {SP, CR, LF} /\ w \in Chars
  /\ Version \in Words /\ SP \in Chars /\ SP \notin {CR, LF} /\ ContentLength \in Words
<1>1. {Version, ContentLength} \subseteq Words
  BY HttpAssumption
<1>. QED  BY <1>1, SeparatorsDiffer

LEMMA LineTail ==
  ASSUME NEW start \in Texts
  PROVE  LET s == start \o <<SP, Version>>
         IN /\ s \in Texts /\ Len(s) = Len(start) + 2 /\ \A n \in 1..Len(start) : s[n] = start[n]
            /\ s[Len(start) + 1] = SP /\ s[Len(start) + 2] = Version
<1> DEFINE t == <<SP, Version>>
           s == start \o t
<1>1. t \in Texts /\ Len(t) = 2 /\ t[1] = SP /\ t[2] = Version
  <2>1. SP \in Chars /\ Version \in Chars
    BY WordsAreWords
  <2>. QED  BY <2>1 DEF Texts
<1> HIDE DEF t
<1>2. /\ s \in Texts /\ Len(s) = Len(start) + Len(t) /\ \A n \in 1..Len(start) : s[n] = start[n]
      /\ \A n \in 1..Len(t) : s[Len(start) + n] = t[n]
  BY <1>1, TextConcat
<1> HIDE DEF s
<1>3. 1 \in 1..Len(t) /\ 2 \in 1..Len(t)
  BY <1>1
<1>4. /\ s \in Texts /\ Len(s) = Len(start) + 2 /\ \A n \in 1..Len(start) : s[n] = start[n]
      /\ s[Len(start) + 1] = SP /\ s[Len(start) + 2] = Version
  BY <1>1, <1>2, <1>3
<1>. QED  BY <1>4 DEF s, t

(* A request is refused or starts as it was sent.                             *)
LEMMA RequestLine ==
  ASSUME NEW start \in RequestStarts
  PROVE  /\ start \o <<SP, Version>> \in Texts /\ OneLine(start \o <<SP, Version>>)
         /\ \A p : p.start = WordsOf(start \o <<SP, Version>>) /\ Accepted(p) =>
                     <<p.start[1], SP, p.start[2]>> = start
<1> DEFINE s == start \o <<SP, Version>>
<1>1. CASE start \in {<<m, SP, p>> : m \in Words, p \in Words}
  <2>1. PICK m \in Words, p \in Words : start = <<m, SP, p>>
    BY <1>1
  <2>2. start \in Texts /\ Len(start) = 3 /\ start[1] = m /\ start[2] = SP /\ start[3] = p
    <3>1. m \in Chars /\ SP \in Chars /\ p \in Chars
      BY WordsAreWords
    <3>. QED  BY <2>1, <3>1 DEF Texts
  <2>3. /\ s \in Texts /\ Len(s) = Len(start) + 2 /\ \A n \in 1..Len(start) : s[n] = start[n]
        /\ s[Len(start) + 1] = SP /\ s[Len(start) + 2] = Version
    BY <2>2, LineTail
  <2> HIDE DEF s
  <2>4. /\ s[1] = m /\ s[2] = SP /\ s[3] = p /\ s[4] = SP /\ s[5] = Version
        /\ s \in Texts /\ Len(s) = 5
    <3>1. 1 \in 1..Len(start) /\ 2 \in 1..Len(start) /\ 3 \in 1..Len(start)
      BY <2>2
    <3>. QED  BY <2>2, <2>3, <3>1
  <2>5. \A n \in 1..Len(s) : n = 1 \/ n = 2 \/ n = 3 \/ n = 4 \/ n = 5
    BY <2>4
  <2>6. OneLine(s)
    BY <2>4, <2>5, WordsAreWords DEF OneLine
  <2>7. /\ IsWordAt(s, 1) /\ IsWordAt(s, 3) /\ IsWordAt(s, 5) /\ ~IsWordAt(s, 2) /\ ~IsWordAt(s, 4)
        /\ 1 \in 1..Len(s) /\ 3 \in 1..Len(s) /\ 5 \in 1..Len(s)
    BY <2>4, WordsAreWords DEF IsWordAt
  <2>8. \A n \in 1..Len(s) : IsWordAt(s, n) => n = 1 \/ n = 3 \/ n = 5
    BY <2>5, <2>7
  <2>9. WordsOf(s) = <<s[1], s[3], s[5]>>
    BY <2>4, <2>7, <2>8, 1 < 3, 3 < 5, ThreeWords
  <2>10. <<WordsOf(s)[1], SP, WordsOf(s)[2]>> = start
    BY <2>1, <2>4, <2>9
  <2>. QED  BY <2>4, <2>6, <2>10 DEF s
<1>2. CASE start \in {<<m, SP>> : m \in Words}
  <2>1. PICK m \in Words : start = <<m, SP>>
    BY <1>2
  <2>2. start \in Texts /\ Len(start) = 2 /\ start[1] = m /\ start[2] = SP
    <3>1. m \in Chars /\ SP \in Chars
      BY WordsAreWords
    <3>. QED  BY <2>1, <3>1 DEF Texts
  <2>3. /\ s \in Texts /\ Len(s) = Len(start) + 2 /\ \A n \in 1..Len(start) : s[n] = start[n]
        /\ s[Len(start) + 1] = SP /\ s[Len(start) + 2] = Version
    BY <2>2, LineTail
  <2> HIDE DEF s
  <2>4. /\ s[1] = m /\ s[2] = SP /\ s[3] = SP /\ s[4] = Version
        /\ s \in Texts /\ Len(s) = 4
    <3>1. 1 \in 1..Len(start) /\ 2 \in 1..Len(start)
      BY <2>2
    <3>. QED  BY <2>2, <2>3, <3>1
  <2>5. \A n \in 1..Len(s) : n = 1 \/ n = 2 \/ n = 3 \/ n = 4
    BY <2>4
  <2>6. OneLine(s)
    BY <2>4, <2>5, WordsAreWords DEF OneLine
  <2>7. /\ IsWordAt(s, 1) /\ IsWordAt(s, 4) /\ ~IsWordAt(s, 2) /\ ~IsWordAt(s, 3)
        /\ 1 \in 1..Len(s) /\ 4 \in 1..Len(s)
    BY <2>4, WordsAreWords DEF IsWordAt
  <2>8. \A n \in 1..Len(s) : IsWordAt(s, n) => n = 1 \/ n = 4
    BY <2>5, <2>7
  <2>9. Len(WordsOf(s)) = 2
    <3>1. \A n \in 1..Len(s) : IsWordAt(s, n) => n = 1 \/ n = 4 \/ 4 < n
      BY <2>8
    <3>. QED  BY <2>4, <2>7, <2>8, <3>1, 1 < 4, TwoWords
  <2>10. \A p : p.start = WordsOf(s) => ~Accepted(p)
    <3> SUFFICES ASSUME NEW p, p.start = WordsOf(s), Accepted(p) PROVE FALSE
      OBVIOUS
    <3>1. Len(p.start) >= 3 /\ Len(p.start) = 2
      BY <2>9 DEF Accepted
    <3>. QED  BY <3>1
  <2>. QED  BY <2>4, <2>6, <2>10 DEF s
<1>. QED  BY <1>1, <1>2 DEF RequestStarts

(* A request at the other end of a hop.                                       *)
IsMessage(m, S, V, C) ==
  /\ m = [start |-> m.start, headers |-> m.headers, content |-> m.content]
  /\ m.start \in S /\ IsHeaders(m.headers, V) /\ m.content \in C

Made(start, h, c) ==
  [start |-> start, headers |-> Put(h, <<ContentLength>>, <<Number[Len(c)]>>), content |-> c]

LEMMA ParsedRequest ==
  ASSUME NEW start \in RequestStarts, NEW w, NEW p, p = RequestParts(w),
         p.start = WordsOf(start \o <<SP, Version>>)
  PROVE  StringToRequest(w) \in {{}, {Made(start, ParsedHeaders(p), p.body)}}
<1> DEFINE h == ParsedHeaders(p)
           m == [NewMessage(<<p.start[1], SP, p.start[2]>>) EXCEPT !.headers = h]
<1>1. StringToRequest(w) = IF ~Accepted(p) THEN {} ELSE {WithContent(m, p.body)}
  BY DEF StringToRequest
<1> HIDE DEF h
<1>2. ASSUME Accepted(p) PROVE WithContent(m, p.body) = Made(start, h, p.body)
  <2>1. <<p.start[1], SP, p.start[2]>> = start
    BY <1>2, RequestLine
  <2>2. m = [start |-> start, headers |-> h, content |-> <<>>]
    BY <2>1 DEF NewMessage
  <2> HIDE DEF m
  <2> DEFINE k == Put(h, <<ContentLength>>, <<Number[Len(p.body)]>>)
             b == p.body
  <2> HIDE DEF k, b
  <2>3. WithContent(m, p.body) = [start |-> start, headers |-> k, content |-> b]
    <3>1. m.headers = h
      BY <2>2
    <3>2. WithContent(m, p.body) = [m EXCEPT !.content = b, !.headers = k]
      BY <3>1 DEF WithContent, k, b
    <3>. QED  BY <2>2, <3>2
  <2>. QED  BY <2>3 DEF Made, k, b
<1>. QED  BY <1>1, <1>2 DEF h

LEMMA NoHeadersParsed ==
  ASSUME NEW p, p.headers = <<>> PROVE ParsedHeaders(p) = NoHeaders
<1> DEFINE first == [headers |-> NoHeaders, value |-> <<>>]
           lines == LinesOf(p.headers)
           IsRead(f) == f = [n \in 0..0 |-> IF n = 0 THEN first ELSE ReadHeader(f[n - 1], lines[n])]
           read == CHOOSE f : IsRead(f)
<1>1. Len(lines) = 0
  <2>1. Parts(<<>>) = Append(<<>>, <<>>) /\ <<>> \in Seq(Texts) /\ <<>> \in Texts
    BY PartsStep, EmptyText
  <2>2. Last(Parts(<<>>)) = <<>> /\ Front(Parts(<<>>)) = <<>>
    BY <2>1, FrontAppend
  <2>3. LinesOf(<<>>) = <<>>
    BY <2>2 DEF LinesOf
  <2>. QED  BY <2>3, EmptyText
<1>2. ParsedHeaders(p) = read[0].headers
  BY <1>1 DEF ParsedHeaders
<1>3. IsRead([n \in 0..0 |-> first])
  <2>1. \A n \in 0..0 : n = 0
    OBVIOUS
  <2> HIDE DEF first, lines
  <2>. QED  BY <2>1
<1>4. IsRead(read)
  BY <1>3
<1> HIDE DEF read, lines
<1>5. read[0] = first
  BY <1>4
<1>. QED  BY <1>2, <1>5

LEMMA RequestHop ==
  ASSUME NEW m, NEW C, IsMessage(m, RequestStarts, OneTexts, C), \A t \in C : t \in Texts /\ CleanContent(t)
  PROVE  /\ m.headers # NoHeaders =>
              StringToRequest(RequestToString(m)) \in {{}, {Made(m.start, Received(m.headers), m.content)}}
         /\ m.headers = NoHeaders =>
              \E c \in Texts : CleanContent(c) /\ StringToRequest(RequestToString(m)) \in
                                                    {{}, {Made(m.start, NoHeaders, c)}}
<1> DEFINE s == m.start \o <<SP, Version>>
           h == m.headers
           t == m.content
           w == RequestToString(m)
<1>1. m.start \in RequestStarts /\ IsHeaders(h, OneTexts) /\ t \in Texts /\ CleanContent(t)
  BY DEF IsMessage
<1>2. s \in Texts /\ OneLine(s)
  BY <1>1, RequestLine
<1>3. w = (((s \o NewLine) \o HeaderLines(h)) \o NewLine) \o t
  BY DEF RequestToString, Written
<1>4. h = NoHeaders <=> DOMAIN h = {}
  BY <1>1 DEF IsHeaders, NoHeaders
<1>5. ASSUME h # NoHeaders
      PROVE  StringToRequest(w) \in {{}, {Made(m.start, Received(h), t)}}
  <2>1. PICK g \in Texts : /\ HeaderLines(h) = g \o NewLine /\ NoBlank(g \o NewLine)
                           /\ \A p : p.headers = g => ParsedHeaders(p) = Received(h)
    BY <1>1, <1>4, <1>5, ParsedBlock
  <2> DEFINE p == [start |-> WordsOf(s), complete |-> TRUE, headers |-> g, body |-> t]
  <2>2. RequestParts(w) = p
    <3> HIDE DEF s, t, w, h
    <3>1. RequestParts((((s \o NewLine) \o (g \o NewLine)) \o NewLine) \o t) = p
      BY <1>1, <1>2, <2>1, RequestCut
    <3>. QED  BY <1>3, <2>1, <3>1
  <2>3. p.start = WordsOf(s) /\ p.headers = g /\ p.body = t
    OBVIOUS
  <2> HIDE DEF p, w
  <2>4. StringToRequest(w) \in {{}, {Made(m.start, ParsedHeaders(p), p.body)}}
    BY <1>1, <2>2, <2>3, ParsedRequest
  <2>. QED  BY <2>1, <2>3, <2>4
<1>6. ASSUME h = NoHeaders
      PROVE  \E c \in Texts : CleanContent(c) /\ StringToRequest(w) \in {{}, {Made(m.start, NoHeaders, c)}}
  <2>1. HeaderLines(h) = <<>>
    <3> DEFINE keys == Sorted(DOMAIN h, Before)
    <3>1. Len(keys) = 0
      BY <1>1, <1>4, <1>6, HeaderKeys, FS_EmptySet DEF IsHeaders, Enumerates
    <3>2. IsHeaders(h, LineValues)
      BY <1>1 DEF IsHeaders, OneTexts, LineValues, OneLine, NoFeed
    <3>3. HeaderLines(h) = Block(Lined(keys, h)) /\ Lined(keys, h) \in Seq(LineTexts) /\ Len(Lined(keys, h)) = 0
      <4>1. /\ HeaderLines(h) = Block(Lined(keys, h)) /\ Lined(keys, h) \in Seq(LineTexts)
            /\ Len(Lined(keys, h)) = Len(keys)
        BY <3>2, HeaderBlock
      <4> HIDE DEF keys
      <4>. QED  BY <3>1, <4>1
    <3> HIDE DEF keys
    <3>4. Lined(keys, h) = <<>>
      BY <3>3, EmptySeq
    <3>. QED  BY <3>3, <3>4, BlockStep
  <2>2. PICK c \in Texts :
          /\ CleanContent(c)
          /\ RequestParts((((s \o NewLine) \o <<>>) \o NewLine) \o t) =
               [start |-> WordsOf(s), complete |-> TRUE, headers |-> <<>>, body |-> c]
    <3> HIDE DEF s, t
    <3>. QED  BY <1>1, <1>2, RequestCutEmpty
  <2> DEFINE p == [start |-> WordsOf(s), complete |-> TRUE, headers |-> <<>>, body |-> c]
  <2>3. RequestParts(w) = p
    BY <1>3, <2>1, <2>2
  <2>4. p.start = WordsOf(s) /\ p.headers = <<>> /\ p.body = c
    OBVIOUS
  <2> HIDE DEF p, w
  <2>5. StringToRequest(w) \in {{}, {Made(m.start, ParsedHeaders(p), p.body)}}
    BY <1>1, <2>3, <2>4, ParsedRequest
  <2>6. ParsedHeaders(p) = NoHeaders
    BY <2>4, NoHeadersParsed
  <2>. QED  BY <2>2, <2>4, <2>5, <2>6
<1>. QED  BY <1>5, <1>6

-----------------------------------------------------------------------------
(* A response taken apart.                                                    *)
ResponseStarts == {<<c>> : c \in Words}
Reasons == Seq(Words \union {SP})
FirstLine(start, reason) == ((<<Version, SP>> \o start) \o <<SP>>) \o reason

LEMMA ResponseLine ==
  ASSUME NEW start \in ResponseStarts, NEW reason \in Reasons
  PROVE  LET s == FirstLine(start, reason)
         IN /\ s \in Texts /\ OneLine(s) /\ Len(s) \in Nat
            /\ <<WordsOf(s \o <<CR>>)[2]>> = start
<1> DEFINE a == <<Version, SP>>
           b == a \o start
           c == b \o <<SP>>
           s == c \o reason
           r == s \o <<CR>>
<1>1. PICK w \in Words : start = <<w>>
  BY DEF ResponseStarts
<1>2. a \in Texts /\ Len(a) = 2 /\ a[1] = Version /\ a[2] = SP
  <2>1. SP \in Chars /\ Version \in Chars
    BY WordsAreWords
  <2>. QED  BY <2>1 DEF Texts
<1>3. start \in Texts /\ Len(start) = 1 /\ start[1] = w
  BY <1>1, WordsAreWords, OneCharacter
<1>4. <<SP>> \in Texts /\ Len(<<SP>>) = 1 /\ <<SP>>[1] = SP
  BY WordsAreWords, OneCharacter
<1>5. reason \in Texts /\ Len(reason) \in Nat /\ \A n \in 1..Len(reason) : reason[n] \in Words \union {SP}
  <2>1. Words \union {SP} \subseteq Chars /\ reason \in Seq(Words \union {SP})
    BY WordsAreWords DEF Reasons
  <2>2. Seq(Words \union {SP}) \subseteq Texts
    BY <2>1, SeqMonotonic DEF Texts
  <2>. QED  BY <2>1, <2>2, ElementOfSeq, TextProperties
<1>6. <<CR>> \in Texts /\ Len(<<CR>>) = 1 /\ <<CR>>[1] = CR
  BY SeparatorsDiffer, OneCharacter
<1> HIDE DEF a
<1>7. /\ b \in Texts /\ Len(b) = Len(a) + Len(start) /\ (\A n \in 1..Len(a) : b[n] = a[n])
      /\ \A n \in 1..Len(start) : b[Len(a) + n] = start[n]
  BY <1>2, <1>3, TextConcat
<1> HIDE DEF b
<1>8. b \in Texts /\ Len(b) = 3 /\ b[1] = Version /\ b[2] = SP /\ b[3] = w
  <2>1. 1 \in 1..Len(a) /\ 2 \in 1..Len(a) /\ 1 \in 1..Len(start)
    BY <1>2, <1>3
  <2>. QED  BY <1>2, <1>3, <1>7, <2>1
<1>9. /\ c \in Texts /\ Len(c) = Len(b) + Len(<<SP>>) /\ (\A n \in 1..Len(b) : c[n] = b[n])
      /\ \A n \in 1..Len(<<SP>>) : c[Len(b) + n] = <<SP>>[n]
  BY <1>4, <1>8, TextConcat
<1> HIDE DEF c
<1>10. c \in Texts /\ Len(c) = 4 /\ c[1] = Version /\ c[2] = SP /\ c[3] = w /\ c[4] = SP
  <2>1. 1 \in 1..Len(b) /\ 2 \in 1..Len(b) /\ 3 \in 1..Len(b) /\ 1 \in 1..Len(<<SP>>)
    BY <1>4, <1>8
  <2>. QED  BY <1>4, <1>8, <1>9, <2>1
<1>11. /\ s \in Texts /\ Len(s) = Len(c) + Len(reason) /\ (\A n \in 1..Len(c) : s[n] = c[n])
       /\ \A n \in 1..Len(reason) : s[Len(c) + n] = reason[n]
  BY <1>5, <1>10, TextConcat
<1> HIDE DEF s
<1>12. /\ s \in Texts /\ Len(s) = 4 + Len(reason)
       /\ s[1] = Version /\ s[2] = SP /\ s[3] = w /\ s[4] = SP
       /\ \A n \in 1..Len(reason) : s[4 + n] = reason[n]
  <2>1. 1 \in 1..Len(c) /\ 2 \in 1..Len(c) /\ 3 \in 1..Len(c) /\ 4 \in 1..Len(c)
    BY <1>10
  <2>. QED  BY <1>10, <1>11, <2>1
<1>13. OneLine(s)
  <2>1. ASSUME NEW n \in 1..Len(s) PROVE s[n] \notin {CR, LF}
    <3>1. CASE n = 1 \/ n = 2 \/ n = 3 \/ n = 4
      BY <1>12, <3>1, WordsAreWords
    <3>2. CASE 4 < n
      <4>1. n - 4 \in 1..Len(reason) /\ 4 + (n - 4) = n
        BY <1>5, <1>12, <3>2
      <4>2. s[n] \in Words \union {SP}
        BY <1>5, <1>12, <4>1
      <4>. QED  BY <4>2, WordsAreWords
    <3>3. n = 1 \/ n = 2 \/ n = 3 \/ n = 4 \/ 4 < n
      BY <1>5, <1>12
    <3>. QED  BY <3>1, <3>2, <3>3
  <2>. QED  BY <2>1 DEF OneLine
<1>14. /\ r \in Texts /\ Len(r) = Len(s) + Len(<<CR>>) /\ \A n \in 1..Len(s) : r[n] = s[n]
  BY <1>6, <1>12, TextConcat
<1> HIDE DEF r
<1>15. WordsOf(r)[2] = w
  <2>1. 1 \in 1..Len(s) /\ 2 \in 1..Len(s) /\ 3 \in 1..Len(s)
    BY <1>5, <1>12
  <2>2. r[1] = Version /\ r[2] = SP /\ r[3] = w /\ 1 \in 1..Len(r) /\ 3 \in 1..Len(r)
    BY <1>5, <1>6, <1>12, <1>14, <2>1
  <2>3. IsWordAt(r, 1) /\ IsWordAt(r, 3) /\ ~IsWordAt(r, 2)
    BY <2>2, WordsAreWords DEF IsWordAt
  <2>4. \A n \in 1..Len(r) : IsWordAt(r, n) => n = 1 \/ n = 3 \/ 3 < n
    <3> SUFFICES ASSUME NEW n \in 1..Len(r), IsWordAt(r, n) PROVE n = 1 \/ n = 3 \/ 3 < n
      OBVIOUS
    <3>1. n # 2 /\ n \in Nat /\ 1 <= n
      BY <1>14, <2>3
    <3>. QED  BY <3>1
  <2>5. WordsOf(r)[2] = r[3]
    BY <1>14, <2>2, <2>3, <2>4, 1 < 3, TwoWords
  <2>. QED  BY <2>2, <2>5
<1>16. FirstLine(start, reason) = s
  BY DEF FirstLine, s, c, b, a
<1>17. Len(s) \in Nat
  BY <1>12, TextProperties
<1>. QED  BY <1>1, <1>12, <1>13, <1>15, <1>16, <1>17 DEF r

LEMMA SeqConcat ==
  ASSUME NEW S, NEW s \in Seq(S), NEW t \in Seq(S)
  PROVE  /\ s \o t \in Seq(S) /\ Len(s \o t) = Len(s) + Len(t)
         /\ \A n \in 1..Len(s) : (s \o t)[n] = s[n]
         /\ \A n \in 1..Len(t) : (s \o t)[Len(s) + n] = t[n]
<1>1. Len(s) \in Nat /\ Len(t) \in Nat
  BY LenProperties
<1>2. /\ s \o t \in Seq(S) /\ Len(s \o t) = Len(s) + Len(t)
      /\ \A i \in 1..(Len(s) + Len(t)) : (s \o t)[i] = IF i <= Len(s) THEN s[i] ELSE t[i - Len(s)]
  BY ConcatProperties
<1>3. ASSUME NEW n \in 1..Len(s) PROVE (s \o t)[n] = s[n]
  <2>1. n \in 1..(Len(s) + Len(t)) /\ n <= Len(s)
    BY <1>1
  <2>. QED  BY <1>2, <2>1
<1>4. ASSUME NEW n \in 1..Len(t) PROVE (s \o t)[Len(s) + n] = t[n]
  <2>1. Len(s) + n \in 1..(Len(s) + Len(t)) /\ ~(Len(s) + n <= Len(s)) /\ (Len(s) + n) - Len(s) = n
    BY <1>1
  <2>. QED  BY <1>2, <2>1
<1>. QED  BY <1>2, <1>3, <1>4

LEMMA HeadIs == \A s \in Seq(Texts) : s # <<>> => Head(s) = s[1]
  OBVIOUS

(* The lines of a response that getline reads: the first, the headers, the    *)
(* one that is empty but for its carriage return, and those of the body.      *)
LEMMA ResponseText ==
  ASSUME NEW s \in Texts, OneLine(s), NEW q \in Seq(LineTexts), NEW t \in Texts
  PROVE  LET lines == LinesOf((((s \o NewLine) \o Block(q)) \o NewLine) \o t)
         IN /\ Len(lines) = Len(q) + 2 + Len(LinesOf(t)) /\ Len(LinesOf(t)) \in Nat /\ Len(q) \in Nat
            /\ Head(lines) = s \o <<CR>> /\ lines[Len(q) + 2] = <<CR>>
            /\ \A n \in 1..Len(q) : lines[n + 1] = q[n] \o <<CR>>
            /\ \A n \in 1..Len(LinesOf(t)) : lines[Len(q) + 2 + n] = LinesOf(t)[n]
<1> DEFINE e == <<CR>>
           b == Block(q)
           f == Followed(q, e)
           rest == b \o (NewLine \o t)
           w == (((s \o NewLine) \o b) \o NewLine) \o t
           B == LinesOf(t)
           F == Append(f, e)
           se == s \o e
           be == b \o e
           lf == <<LF>>
<1>1. /\ e \in Texts /\ lf \in Texts /\ NewLine \in Texts /\ NewLine = Cat(e, lf)
      /\ Len(e) = 1 /\ e[1] = CR /\ CR # LF
  <2>1. CR \in Chars /\ LF \in Chars /\ CR # LF /\ <<CR>> \o <<LF>> = NewLine
    <3>1. <<CR>> \o <<LF>> = Append(<<CR>> \o <<>>, LF)
      <4>1. CR \in Chars /\ LF \in Chars /\ <<CR>> \in Texts /\ <<>> \in Texts
        BY SeparatorsDiffer, OneCharacter, EmptyText
      <4>2. <<CR>> \o Append(<<>>, LF) = Append(<<CR>> \o <<>>, LF)
        BY <4>1, ConcatAppend DEF Texts
      <4>. QED  BY <4>2
    <3>2. /\ <<>> \in Texts /\ <<>> \o NewLine = Append(<<>> \o <<CR>>, LF)
      BY EmptyText, LineAndEnd
    <3>3. <<CR>> \in Texts /\ <<CR>> \o <<>> = <<CR>> /\ <<>> \o <<CR>> = <<CR>> /\ <<>> \o NewLine = NewLine
      BY SeparatorsDiffer, OneCharacter, Patterns, EmptyText
    <3>. QED  BY <3>1, <3>2, <3>3, SeparatorsDiffer
  <2>. QED  BY <2>1, OneCharacter, Patterns DEF Cat
<1>2. b \in Texts /\ q \in Seq(Texts) /\ t \in Texts /\ s \in Texts
  BY BlockStep
<1> HIDE DEF e, b, lf
<1>3. /\ w = (se \o lf) \o rest /\ rest = (be \o lf) \o t
      /\ se \in Texts /\ be \in Texts /\ rest \in Texts
  <2>1. Cat(Cat(Cat(Cat(s, NewLine), b), NewLine), t) = Cat(Cat(Cat(s, e), lf), Cat(b, Cat(NewLine, t)))
    <3>1. Cat(s, NewLine) = Cat(Cat(s, e), lf) /\ Cat(s, NewLine) \in Texts
      BY <1>1, <1>2, TextAlgebra
    <3> DEFINE n == NewLine
               a == Cat(s, n)
    <3> HIDE DEF n, a
    <3>2. a \in Texts /\ n \in Texts
      BY <1>1, <3>1 DEF n, a
    <3>3. Cat(Cat(Cat(a, b), n), t) = Cat(a, Cat(b, Cat(n, t)))
      BY <1>2, <3>2, TextAlgebra
    <3>. QED  BY <3>1, <3>3 DEF n, a
  <2>2. Cat(b, Cat(NewLine, t)) = Cat(Cat(Cat(b, e), lf), t)
    BY <1>1, <1>2, TextAlgebra
  <2>3. Cat(s, e) \in Texts /\ Cat(b, e) \in Texts /\ Cat(b, Cat(NewLine, t)) \in Texts
    BY <1>1, <1>2, TextAlgebra
  <2>. QED  BY <2>1, <2>2, <2>3 DEF Cat
<1>4. f \in Seq(Texts) /\ Len(f) = Len(q) /\ Len(q) \in Nat /\ \A n \in 1..Len(q) : f[n] = q[n] \o e
  <2>1. f \in Seq(Texts) /\ Len(f) = Len(q) /\ Len(q) \in Nat
    BY <1>1, <1>2, FollowedStep, LenProperties
  <2>. QED  BY <2>1 DEF Followed
<1>5. Parts(se) = <<se>>
  <2>1. \A n \in 1..Len(se) : se[n] # LF
    <3>1. \A n \in 1..Len(s) : s[n] # LF
      BY DEF OneLine
    <3>2. \A n \in 1..Len(s \o <<CR>>) : (s \o <<CR>>)[n] # LF
      BY <1>2, <3>1, LineAndEnd
    <3>. QED  BY <3>2 DEF e
  <2>. QED  BY <1>3, <2>1, PartsOfLine
<1>6. Parts(be) = F
  <2>1. Parts(b) = Append(f, <<>>) /\ <<>> \in Texts /\ <<>> \o e = e
    BY <1>1, BlockParts, EmptyText DEF b, e
  <2>2. \A n \in 1..Len(e) : e[n] # LF
    BY <1>1
  <2>3. Parts(b \o e) = Append(f, <<>> \o e)
    <3> DEFINE nil == <<>>
    <3>1. nil \in Texts /\ Parts(b) = Append(f, nil)
      BY <2>1
    <3> HIDE DEF nil, f
    <3>2. e \in Texts /\ b \in Texts /\ f \in Seq(Texts)
      BY <1>1, <1>2, <1>4
    <3>3. Parts(b \o e) = Append(f, nil \o e)
      <4>1. NoFeed(e)
        BY <2>2 DEF NoFeed
      <4>2. \A l, x \in Texts, p \in Seq(Texts) : NoFeed(l) /\ Parts(b) = Append(p, x) => Parts(b \o l) = Append(p, x \o l)
        BY <3>2, PartsBehind
      <4>3. \A x \in Texts, p \in Seq(Texts) : Parts(b) = Append(p, x) => Parts(b \o e) = Append(p, x \o e)
        BY <3>2, <4>1, <4>2
      <4>. QED  BY <3>1, <3>2, <4>3
    <3>. QED  BY <3>3 DEF nil
  <2>. QED  BY <2>1, <2>3
<1>7. B \in Seq(Texts) /\ Len(B) \in Nat
  BY <1>2, LinesOfConcat, LenProperties
<1> HIDE DEF f, rest, se, be, B
<1>8. LinesOf(w) = <<se>> \o (F \o B)
  <2>1. LinesOf(rest) = F \o B
    <3>1. LinesOf((be \o <<LF>>) \o t) = Parts(be) \o LinesOf(t)
      BY <1>2, <1>3, LinesOfConcat
    <3>2. rest = (be \o <<LF>>) \o t
      BY <1>3 DEF lf
    <3>. QED  BY <1>6, <3>1, <3>2 DEF B
  <2> HIDE DEF F, w
  <2>2. LinesOf(w) = <<se>> \o LinesOf(rest)
    <3>1. LinesOf((se \o <<LF>>) \o rest) = Parts(se) \o LinesOf(rest)
      BY <1>3, LinesOfConcat
    <3>2. w = (se \o <<LF>>) \o rest
      BY <1>3 DEF lf
    <3> HIDE DEF w
    <3>. QED  BY <1>5, <3>1, <3>2
  <2>. QED  BY <2>1, <2>2
<1>9. /\ F \in Seq(Texts) /\ Len(F) = Len(q) + 1 /\ F[Len(q) + 1] = e /\ \A n \in 1..Len(q) : F[n] = q[n] \o e
  BY <1>1, <1>4, AppendProperties
<1> HIDE DEF F
<1> DEFINE G == F \o B
           one == <<se>>
           lines == one \o G
<1>10. /\ G \in Seq(Texts) /\ Len(G) = Len(F) + Len(B) /\ (\A n \in 1..Len(F) : G[n] = F[n])
       /\ \A n \in 1..Len(B) : G[Len(F) + n] = B[n]
  <2>1. F \in Seq(Texts) /\ B \in Seq(Texts)
    BY <1>7, <1>9
  <2>. QED  BY <2>1, SeqConcat
<1> HIDE DEF G
<1>11. one \in Seq(Texts) /\ Len(one) = 1 /\ one[1] = se
  BY <1>3
<1> HIDE DEF one
<1>12. /\ lines \in Seq(Texts) /\ Len(lines) = Len(one) + Len(G) /\ (\A n \in 1..Len(one) : lines[n] = one[n])
       /\ \A n \in 1..Len(G) : lines[Len(one) + n] = G[n]
  <2>1. one \in Seq(Texts) /\ G \in Seq(Texts)
    BY <1>10, <1>11
  <2>. QED  BY <2>1, SeqConcat
<1> HIDE DEF lines
<1>13. /\ Len(lines) = Len(q) + 2 + Len(B) /\ lines[1] = se /\ lines # <<>> /\ Head(lines) = lines[1]
  <2>1. 1 \in 1..Len(one)
    BY <1>11
  <2>2. Len(lines) = Len(q) + 2 + Len(B) /\ lines[1] = se
    BY <1>4, <1>7, <1>9, <1>10, <1>11, <1>12, <2>1
  <2>3. lines # <<>>
    BY <1>4, <1>7, <2>2, EmptyText
  <2>4. Head(lines) = lines[1]
    <3>1. lines \in Seq(Texts)
      BY <1>12
    <3>. QED  BY <2>3, <3>1, HeadIs
  <2>. QED  BY <2>2, <2>3, <2>4
<1>14. ASSUME NEW n \in 1..(Len(q) + 1) PROVE lines[n + 1] = F[n]
  <2>1. n \in 1..Len(F) /\ n \in 1..Len(G) /\ Len(one) + n = n + 1
    BY <1>4, <1>7, <1>9, <1>10, <1>11
  <2>. QED  BY <1>10, <1>12, <2>1
<1>15. ASSUME NEW n \in 1..Len(B) PROVE lines[Len(q) + 2 + n] = B[n]
  <2>1. Len(F) + n \in 1..Len(G) /\ Len(one) + (Len(F) + n) = Len(q) + 2 + n
    BY <1>4, <1>7, <1>9, <1>10, <1>11
  <2>. QED  BY <1>10, <1>12, <2>1
<1>16. lines[Len(q) + 2] = e /\ \A n \in 1..Len(q) : lines[n + 1] = q[n] \o e
  <2>1. Len(q) + 1 \in 1..(Len(q) + 1) /\ (Len(q) + 1) + 1 = Len(q) + 2
    BY <1>4
  <2>2. \A n \in 1..Len(q) : n \in 1..(Len(q) + 1)
    BY <1>4
  <2>. QED  BY <1>9, <1>14, <2>1, <2>2
<1>17. lines = LinesOf(w)
  BY <1>8 DEF lines, G, one
<1> HIDE DEF w
<1>18. /\ Len(LinesOf(w)) = Len(q) + 2 + Len(B) /\ Len(B) \in Nat /\ Len(q) \in Nat
       /\ Head(LinesOf(w)) = se /\ LinesOf(w)[Len(q) + 2] = e
       /\ \A n \in 1..Len(q) : LinesOf(w)[n + 1] = q[n] \o e
       /\ \A n \in 1..Len(B) : LinesOf(w)[Len(q) + 2 + n] = B[n]
  BY <1>4, <1>7, <1>13, <1>15, <1>16, <1>17
<1>. QED  BY <1>18 DEF w, b, B, e, se

(* What string_to_response makes of a header line.                            *)
Stripped(h) == [k \in DOMAIN h |-> StripLeft(h[k], SP) \o <<CR>>]

LEMMA ResponseLineCut ==
  ASSUME NEW k \in CleanKeys, NEW v \in LineValues, NEW line, line = Line(k, v) \o <<CR>>
  PROVE  /\ ResponseHeader(line).key = k /\ k # <<>>
         /\ ResponseHeader(line).value = StripLeft(v, SP) \o <<CR>>
         /\ StripLeft(v, SP) \o <<CR>> # <<>> /\ StripLeft(v, SP) \o <<CR>> \in LineValues
         /\ Find(line, <<Colon>>, 1) # 0
<1> DEFINE sv == <<SP>> \o v
           rest == sv \o <<CR>>
           t == StripLeft(v, SP)
           colon == Find(line, <<Colon>>, 1)
<1>1. /\ v \in Texts /\ NoFeed(v) /\ <<SP>> \in Texts /\ <<CR>> \in Texts /\ SP # CR
      /\ SP \in Chars /\ CR \in Chars /\ k \in Texts /\ <<Colon>> \in Texts
  BY SeparatorsDiffer, OneCharacter, KeyProperties DEF LineValues
<1>2. sv \in Texts /\ rest \in Texts
  BY <1>1, TextLength
<1>3. line = (k \o <<Colon>>) \o rest
  <2>1. Line(k, v) = (k \o <<Colon>>) \o sv
    BY <1>1, LineProperties
  <2>2. k \o <<Colon>> \in Texts
    BY <1>1, TextLength
  <2> HIDE DEF sv
  <2>3. ((k \o <<Colon>>) \o sv) \o <<CR>> = (k \o <<Colon>>) \o (sv \o <<CR>>)
    <3>1. sv \in Texts
      BY <1>2 DEF sv
    <3>2. Cat(Cat(k \o <<Colon>>, sv), <<CR>>) = Cat(k \o <<Colon>>, Cat(sv, <<CR>>))
      BY <1>1, <2>2, <3>1, TextAlgebra
    <3>. QED  BY <3>2 DEF Cat
  <2>. QED  BY <2>1, <2>3
<1>4. StripLeft(rest, SP) = t \o <<CR>>
  <2>1. StripLeft(sv, SP) = t
    BY <1>1, StripLeftBlank
  <2> HIDE DEF sv, t
  <2>2. StripLeft(sv \o <<CR>>, SP) = StripLeft(sv, SP) \o <<CR>>
    BY <1>1, <1>2, StripLeftBefore
  <2>. QED  BY <2>1, <2>2
<1> HIDE DEF rest
<1>5. /\ colon # 0 /\ SubSeq(line, 1, colon - 1) = k /\ SubSeq(line, colon + 1, Len(line)) = rest
  <2> DEFINE z == (k \o <<Colon>>) \o rest
             c == Find(z, <<Colon>>, 1)
  <2>1. c # 0 /\ SubSeq(z, 1, c - 1) = k /\ SubSeq(z, c + 1, Len(z)) = rest
    BY <1>2, LineCut
  <2>2. z = line /\ c = colon
    BY <1>3
  <2> HIDE DEF z, c, colon
  <2>. QED  BY <2>1, <2>2
<1>6. StripLeft(k, SP) = k /\ k # <<>>
  BY TrimKey DEF CleanKeys
<1>7. ResponseHeader(line) = [key |-> StripLeft(SubSeq(line, 1, colon - 1), SP),
                              value |-> StripLeft(SubSeq(line, colon + 1, Len(line)), SP)]
  BY DEF ResponseHeader
<1> HIDE DEF colon
<1>8. ResponseHeader(line).key = k /\ ResponseHeader(line).value = t \o <<CR>>
  <2> DEFINE kk == StripLeft(SubSeq(line, 1, colon - 1), SP)
             vv == StripLeft(SubSeq(line, colon + 1, Len(line)), SP)
  <2>1. kk = k /\ vv = t \o <<CR>>
    <3> HIDE DEF t
    <3>. QED  BY <1>4, <1>5, <1>6
  <2> HIDE DEF kk, vv
  <2>2. ResponseHeader(line) = [key |-> kk, value |-> vv]
    BY <1>7 DEF kk, vv
  <2>. QED  BY <2>1, <2>2
<1>9. t \in Texts /\ \A n \in 1..Len(t) : \E m \in 1..Len(v) : t[n] = v[m]
  BY <1>1, StripLeftProperties
<1> HIDE DEF t
<1>10. \A n \in 1..Len(t) : t[n] # LF
  BY <1>1, <1>9 DEF NoFeed
<1>11. /\ t \o <<CR>> \in Texts /\ \A n \in 1..Len(t \o <<CR>>) : (t \o <<CR>>)[n] # LF
  BY <1>9, <1>10, LineAndEnd
<1>12. t \o <<CR>> # <<>>
  <2>1. Len(t \o <<CR>>) = Len(t) + Len(<<CR>>) /\ Len(<<CR>>) = 1 /\ Len(t) \in Nat /\ Len(<<>>) = 0
    BY <1>1, <1>9, TextLength, OneCharacter, TextProperties, EmptyText
  <2> DEFINE z == t \o <<CR>>
             o == <<CR>>
  <2> HIDE DEF z, o
  <2>2. Len(z) = Len(t) + Len(o) /\ Len(o) = 1 /\ Len(t) \in Nat /\ Len(<<>>) = 0
    BY <2>1 DEF z, o
  <2>3. z # <<>>
    BY <2>2
  <2>. QED  BY <2>3 DEF z
<1>. QED  BY <1>5, <1>6, <1>8, <1>11, <1>12 DEF t, colon, LineValues, NoFeed

(* The result of string_to_response from the lines it reads: N of headers,    *)
(* and those of the body.                                                     *)
HeaderRows(lines, N, keys, values) ==
  \A n \in 1..N : /\ lines[n + 1] \notin {<<>>, <<CR>>}
                  /\ ResponseHeader(lines[n + 1]).key = keys[n] /\ keys[n] # <<>>
                  /\ ResponseHeader(lines[n + 1]).value = values[n] /\ values[n] # <<>>
                  /\ Find(lines[n + 1], <<Colon>>, 1) # 0

Maps(h, N, keys, values) ==
  /\ DOMAIN h = {keys[n] : n \in 1..N} /\ h = [k \in DOMAIN h |-> h[k]]
  /\ \A n \in 1..N : h[keys[n]] = values[n]

BodyOf(lines, N, M) == FlattenSeq([n \in 1..M |-> lines[N + 2 + n] \o <<LF>>])

AreResponseLines(lines, w, N, M, start) ==
  /\ lines = LinesOf(w) /\ N \in Nat /\ M \in Nat /\ Len(lines) = N + 2 + M
  /\ lines[N + 2] = <<CR>> /\ start = <<WordsOf(Head(lines))[2]>>

LEMMA ResponseResult ==
  ASSUME NEW w, NEW lines, NEW N, NEW M, NEW start, AreResponseLines(lines, w, N, M, start),
         NEW keys, NEW values, HeaderRows(lines, N, keys, values),
         NEW h, Maps(h, N, keys, values), NEW body, body = BodyOf(lines, N, M)
  PROVE  StringToResponse(w) = {Made(start, h, body)}
<1> USE DEF AreResponseLines, HeaderRows, Maps, BodyOf
<1> DEFINE blank == Min({n \in 2..Len(lines) : lines[n] \in {<<>>, <<CR>>}} \union {Len(lines) + 1})
           read == [n \in 1..(blank - 2) |-> lines[n + 1]]
           hs == [n \in DOMAIN read |-> ResponseHeader(read[n])]
           used == {n \in DOMAIN read : Find(read[n], <<Colon>>, 1) # 0}
           headers == [k \in {hs[n].key : n \in used} |-> hs[Max({n \in used : hs[n].key = k})].value]
           text1 == FlattenSeq([n \in 1..(Len(lines) - blank) |-> lines[blank + n] \o <<LF>>])
           made == WithContent([NewMessage(<<WordsOf(Head(lines))[2]>>) EXCEPT !.headers = headers], text1)
<1>1. StringToResponse(w) = IF \E n \in used : hs[n].key = <<>> \/ hs[n].value = <<>> THEN {} ELSE {made}
  BY DEF StringToResponse
<1>2. blank = N + 2
  <2> DEFINE S == {n \in 2..Len(lines) : lines[n] \in {<<>>, <<CR>>}} \union {Len(lines) + 1}
  <2>1. N + 2 \in S
    <3>1. N + 2 \in 2..Len(lines) /\ lines[N + 2] \in {<<>>, <<CR>>}
      OBVIOUS
    <3>. QED  BY <3>1
  <2>2. \A n \in S : N + 2 <= n
    <3> SUFFICES ASSUME NEW n \in S, ~(N + 2 <= n) PROVE FALSE
      OBVIOUS
    <3>1. n \in 2..Len(lines) /\ lines[n] \in {<<>>, <<CR>>}
      OBVIOUS
    <3>2. n - 1 \in 1..N /\ (n - 1) + 1 = n
      BY <3>1
    <3>. QED  BY <3>1, <3>2
  <2>3. S \in SUBSET Nat
    OBVIOUS
  <2> DEFINE b == Min(S)
  <2> HIDE DEF S
  <2>4. b \in S /\ \A n \in S : b <= n
    BY <2>1, <2>3, MinOf
  <2>5. b = N + 2
    BY <2>1, <2>2, <2>3, <2>4
  <2>. QED  BY <2>5 DEF b, S
<1> HIDE DEF blank
<1>3. DOMAIN read = 1..N /\ \A n \in 1..N : read[n] = lines[n + 1]
  <2>1. blank - 2 = N
    BY <1>2
  <2>2. read = [n \in 1..N |-> lines[n + 1]]
    BY <2>1
  <2> HIDE DEF read
  <2>. QED  BY <2>2
<1> HIDE DEF read
<1>4. used = 1..N
  BY <1>3
<1>5. /\ DOMAIN hs = 1..N
      /\ \A n \in 1..N : /\ hs[n].key = keys[n] /\ keys[n] # <<>>
                         /\ hs[n].value = values[n] /\ values[n] # <<>>
  BY <1>3
<1> HIDE DEF used, hs
<1>6. headers = h
  <2>1. {hs[n].key : n \in used} = DOMAIN h
    <3>1. {hs[n].key : n \in used} = {keys[n] : n \in 1..N}
      BY <1>4, <1>5
    <3>. QED  BY <3>1
  <2>2. ASSUME NEW k \in DOMAIN h PROVE hs[Max({n \in used : hs[n].key = k})].value = h[k]
    <3> DEFINE S == {n \in used : hs[n].key = k}
    <3>1. S \in SUBSET (0..N) /\ S # {}
      <4>1. PICK n \in 1..N : keys[n] = k
        OBVIOUS
      <4>2. n \in S
        BY <1>4, <1>5, <4>1
      <4>3. S \subseteq 1..N
        BY <1>4
      <4>. QED  BY <4>2, <4>3
    <3> DEFINE m == Max(S)
    <3>2. m \in S
      <4> HIDE DEF S
      <4>. QED  BY <3>1, MaxOf
    <3> HIDE DEF m
    <3>3. m \in 1..N /\ hs[m].key = k
      BY <1>4, <3>2
    <3>4. hs[m].value = h[k]
      BY <1>5, <3>3
    <3>. QED  BY <3>4 DEF m
  <2>3. headers = [k \in DOMAIN h |-> hs[Max({n \in used : hs[n].key = k})].value]
    BY <2>1
  <2> HIDE DEF headers
  <2>. QED  BY <2>2, <2>3
<1>7. text1 = body
  <2>1. Len(lines) - blank = M
    BY <1>2
  <2>. QED  BY <1>2, <2>1
<1> HIDE DEF headers, text1
<1>8. made = Made(start, h, body)
  <2> DEFINE r == [NewMessage(start) EXCEPT !.headers = h]
             l == Put(h, <<ContentLength>>, <<Number[Len(body)]>>)
  <2>1. r = [start |-> start, headers |-> h, content |-> <<>>]
    BY DEF NewMessage
  <2>2. made = WithContent(r, body)
    BY <1>6, <1>7
  <2> HIDE DEF r, made, l
  <2>3. r.headers = h
    BY <2>1
  <2>4. WithContent(r, body) = [r EXCEPT !.content = body, !.headers = l]
    BY <2>3 DEF WithContent, l
  <2>5. WithContent(r, body) = [start |-> start, headers |-> l, content |-> body]
    BY <2>1, <2>4
  <2>. QED  BY <2>2, <2>5 DEF Made, l
<1> HIDE DEF made
<1>9. ~\E n \in used : hs[n].key = <<>> \/ hs[n].value = <<>>
  BY <1>4, <1>5
<1>. QED  BY <1>1, <1>8, <1>9

(* A response at the other end of a hop, with or without its body.            *)
LEMMA StrippedHeaders ==
  ASSUME NEW h, IsHeaders(h, LineValues)
  PROVE  IsHeaders(Stripped(h), LineValues) /\ DOMAIN Stripped(h) = DOMAIN h
<1> DEFINE r == Stripped(h)
<1>1. DOMAIN r = DOMAIN h /\ \A k \in DOMAIN h : r[k] = StripLeft(h[k], SP) \o <<CR>>
  BY DEF Stripped
<1>2. r = [k \in DOMAIN h |-> r[k]]
  BY DEF Stripped
<1> HIDE DEF r
<1>3. \A k \in DOMAIN h : r[k] \in LineValues
  <2> SUFFICES ASSUME NEW k \in DOMAIN h PROVE r[k] \in LineValues
    OBVIOUS
  <2>1. k \in CleanKeys /\ h[k] \in LineValues
    BY DEF IsHeaders
  <2> DEFINE line == Line(k, h[k]) \o <<CR>>
  <2>2. StripLeft(h[k], SP) \o <<CR>> \in LineValues
    BY <2>1, ResponseLineCut
  <2>. QED  BY <1>1, <2>2
<1>4. r \in [DOMAIN h -> LineValues]
  BY <1>2, <1>3
<1>. QED  BY <1>1, <1>4 DEF IsHeaders, r

LEMMA ResponseHop ==
  ASSUME NEW m, NEW C, IsMessage(m, ResponseStarts, LineValues, C), C \subseteq Texts,
         Reason[Head(m.start)] \in Reasons, NEW sendContent \in BOOLEAN
  PROVE  LET c == IF sendContent THEN m.content ELSE <<>>
         IN \E body \in {c, c \o <<LF>>} :
              /\ body \in Texts
              /\ StringToResponse(ResponseToString(m, sendContent)) =
                   {Made(m.start, Stripped(m.headers), body)}
<1> DEFINE c == IF sendContent THEN m.content ELSE <<>>
           h == m.headers
           keys == Sorted(DOMAIN h, Before)
           N == Len(keys)
           q == Lined(keys, h)
           s == FirstLine(m.start, Reason[Head(m.start)])
           w == ResponseToString(m, sendContent)
           B == LinesOf(c)
           body == Ended(B, <<LF>>)
           lines == LinesOf(w)
<1>1. m.start \in ResponseStarts /\ IsHeaders(h, LineValues) /\ c \in Texts
  BY EmptyText DEF IsMessage
<1>2. /\ s \in Texts /\ OneLine(s) /\ <<WordsOf(s \o <<CR>>)[2]>> = m.start
  BY <1>1, ResponseLine
<1>3. /\ HeaderLines(h) = Block(q) /\ q \in Seq(LineTexts) /\ Len(q) = N
      /\ \A n \in 1..N : q[n] = Line(keys[n], h[keys[n]])
  BY <1>1, HeaderBlock
<1>4. Enumerates(keys, DOMAIN h)
  BY <1>1, HeaderKeys DEF IsHeaders
<1>5. w = (((s \o NewLine) \o Block(q)) \o NewLine) \o c
  <2>1. w = Written(s, m, c)
    BY DEF ResponseToString, FirstLine
  <2> HIDE DEF w, s, c
  <2>2. w = (((s \o NewLine) \o HeaderLines(h)) \o NewLine) \o c
    BY <2>1 DEF Written
  <2>. QED  BY <1>3, <2>2
<1> HIDE DEF c, h, keys, q, s, w
<1>6. /\ Len(lines) = Len(q) + 2 + Len(B) /\ Len(B) \in Nat /\ Len(q) \in Nat
      /\ Head(lines) = s \o <<CR>> /\ lines[Len(q) + 2] = <<CR>>
      /\ \A n \in 1..Len(q) : lines[n + 1] = q[n] \o <<CR>>
      /\ \A n \in 1..Len(B) : lines[Len(q) + 2 + n] = B[n]
  <2> DEFINE z == (((s \o NewLine) \o Block(q)) \o NewLine) \o c
             ls == LinesOf(z)
  <2>1. /\ Len(ls) = Len(q) + 2 + Len(B) /\ Len(B) \in Nat /\ Len(q) \in Nat
        /\ Head(ls) = s \o <<CR>> /\ ls[Len(q) + 2] = <<CR>>
        /\ \A n \in 1..Len(q) : ls[n + 1] = q[n] \o <<CR>>
        /\ \A n \in 1..Len(B) : ls[Len(q) + 2 + n] = B[n]
    BY <1>1, <1>2, <1>3, ResponseText
  <2>2. ls = lines
    BY <1>5
  <2> HIDE DEF ls, lines, B
  <2>. QED  BY <2>1, <2>2
<1> DEFINE M == Len(B)
           values == [n \in 1..N |-> StripLeft(h[keys[n]], SP) \o <<CR>>]
           r == Stripped(h)
<1>7. body = FlattenSeq([n \in 1..M |-> lines[N + 2 + n] \o <<LF>>])
  <2>1. Followed(B, <<LF>>) = [n \in 1..M |-> lines[N + 2 + n] \o <<LF>>]
    <3> HIDE DEF lines, B, N
    <3>1. \A n \in 1..M : B[n] = lines[N + 2 + n]
      BY <1>3, <1>6
    <3>. QED  BY <3>1 DEF Followed
  <2>. QED  BY <2>1 DEF Ended
<1>8. body \in {c, c \o <<LF>>}
  BY <1>1, LinesJoined
<1>9. body \in Texts
  <2>1. B \in Seq(Texts) /\ <<LF>> \in Texts
    BY <1>1, LinesOfConcat, SeparatorsDiffer, OneCharacter
  <2> DEFINE lf == <<LF>>
  <2> HIDE DEF B, lf
  <2>2. lf \in Texts
    BY <2>1 DEF lf
  <2>3. Ended(B, lf) \in Texts
    BY <2>1, <2>2, EndedStep
  <2>. QED  BY <2>3 DEF lf
<1> HIDE DEF lines, B, body, M, N
<1>10. ASSUME NEW n \in 1..N
       PROVE  /\ lines[n + 1] \notin {<<>>, <<CR>>}
              /\ ResponseHeader(lines[n + 1]).key = keys[n] /\ keys[n] # <<>>
              /\ ResponseHeader(lines[n + 1]).value = values[n] /\ values[n] # <<>>
              /\ Find(lines[n + 1], <<Colon>>, 1) # 0
  <2>1. keys[n] \in CleanKeys /\ h[keys[n]] \in LineValues
    BY <1>1, <1>4 DEF IsHeaders, Enumerates, N
  <2>2. lines[n + 1] = Line(keys[n], h[keys[n]]) \o <<CR>>
    BY <1>3, <1>6
  <2>3. /\ ResponseHeader(lines[n + 1]).key = keys[n] /\ keys[n] # <<>>
        /\ ResponseHeader(lines[n + 1]).value = StripLeft(h[keys[n]], SP) \o <<CR>>
        /\ StripLeft(h[keys[n]], SP) \o <<CR>> # <<>>
        /\ Find(lines[n + 1], <<Colon>>, 1) # 0
    <3> DEFINE k == keys[n]
               v == h[keys[n]]
               l == lines[n + 1]
    <3>1. k \in CleanKeys /\ v \in LineValues /\ l = Line(k, v) \o <<CR>>
      BY <2>1, <2>2
    <3> HIDE DEF k, v, l
    <3>2. /\ ResponseHeader(l).key = k /\ k # <<>>
          /\ ResponseHeader(l).value = StripLeft(v, SP) \o <<CR>>
          /\ StripLeft(v, SP) \o <<CR>> # <<>>
          /\ Find(l, <<Colon>>, 1) # 0
      <4> HIDE DEF lines, values, r, N, M
      <4>. QED  BY <3>1, ResponseLineCut
    <3>. QED  BY <3>2 DEF k, v, l
  <2>4. values[n] = StripLeft(h[keys[n]], SP) \o <<CR>>
    OBVIOUS
  <2>5. lines[n + 1] \notin {<<>>, <<CR>>}
    <3> DEFINE l == Line(keys[n], h[keys[n]])
    <3>1. l \in Texts /\ Len(l) \in Nat /\ 2 <= Len(l)
      BY <2>1, LineProperties, TextProperties DEF LineValues, LineTexts
    <3> HIDE DEF l
    <3>2. Len(l \o <<CR>>) = Len(l) + Len(<<CR>>) /\ Len(<<CR>>) = 1 /\ Len(<<>>) = 0
      BY <3>1, SeparatorsDiffer, OneCharacter, TextLength, EmptyText
    <3> DEFINE z == l \o <<CR>>
               o == <<CR>>
               e == <<>>
    <3> HIDE DEF z, o, e
    <3>3. Len(z) = Len(l) + Len(o) /\ Len(o) = 1 /\ Len(e) = 0
      BY <3>2 DEF z, o, e
    <3>4. Len(z) # Len(e) /\ Len(z) # Len(o)
      BY <3>1, <3>3
    <3>5. z # e /\ z # o
      BY <3>4, Zenon
    <3>. QED  BY <2>2, <3>5 DEF z, o, e, l
  <2>. QED  BY <2>3, <2>4, <2>5
<1>11. /\ DOMAIN r = DOMAIN h /\ r = [k \in DOMAIN h |-> r[k]]
       /\ \A k \in DOMAIN h : r[k] = StripLeft(h[k], SP) \o <<CR>>
  BY DEF Stripped
<1>12. \A n \in 1..N : r[keys[n]] = values[n]
  <2>1. \A n \in 1..N : keys[n] \in DOMAIN h
    BY <1>4 DEF Enumerates, N
  <2>. QED  BY <1>11, <2>1
<1>13. DOMAIN r = {keys[n] : n \in 1..N}
  <2>1. \A n \in 1..N : keys[n] \in DOMAIN h
    BY <1>4 DEF Enumerates, N
  <2>2. \A k \in DOMAIN h : \E n \in 1..N : keys[n] = k
    BY <1>4 DEF Enumerates, N
  <2>. QED  BY <1>11, <2>1, <2>2
<1> HIDE DEF r, values
<1>14. /\ N \in Nat /\ M \in Nat /\ Len(lines) = N + 2 + M /\ lines[N + 2] = <<CR>>
       /\ m.start = <<WordsOf(Head(lines))[2]>> /\ lines = LinesOf(w)
  BY <1>2, <1>3, <1>6 DEF lines, M
<1>15. StringToResponse(w) = {Made(m.start, r, body)}
  <2>1. HeaderRows(lines, N, keys, values)
    BY <1>10 DEF HeaderRows
  <2>2. Maps(r, N, keys, values)
    BY <1>11, <1>12, <1>13 DEF Maps
  <2>3. body = BodyOf(lines, N, M)
    BY <1>7 DEF BodyOf
  <2> DEFINE start == m.start
  <2>4. AreResponseLines(lines, w, N, M, start)
    <3> HIDE DEF lines, N, M
    <3>. QED  BY <1>14 DEF AreResponseLines
  <2> HIDE DEF start, body, lines, N, M, keys
  <2>5. StringToResponse(w) = {Made(start, r, body)}
    BY <2>1, <2>2, <2>3, <2>4, ResponseResult
  <2>. QED  BY <2>5 DEF start
<1>. QED  BY <1>8, <1>9, <1>15 DEF r, h, w, c

-----------------------------------------------------------------------------
(* The texts that programs set: a key is one or more words, a value has no    *)
(* line end, a start is a method with a path that may be empty or a status    *)
(* code, and the length of a body is written as a word.  What a body contains *)
(* is left open here; CleanContent is asked for where it is needed.           *)
CallersTexts ==
  /\ Keys \subseteq CleanKeys /\ Values \subseteq OneTexts /\ Contents \subseteq Texts
  /\ Starts["request"] \subseteq RequestStarts /\ Starts["response"] \subseteq ResponseStarts
  /\ \A start \in Starts["response"] : Reason[Head(start)] \in Reasons
  /\ \A n \in Nat : Number[n] \in Words

CleanBodies == {t \in Texts : CleanContent(t)}

FromParser(m) ==
  /\ Canonical(m.headers) /\ <<ContentLength>> \in DOMAIN m.headers
  /\ m.headers[<<ContentLength>>] = <<Number[Len(m.content)]>>

(* What a request has become, and a response.                                 *)
SameRequest(m, s) ==
  /\ m.start = s.start /\ m.content = s.content /\ Others(m) = Others(s)
  /\ \A k \in Others(s) : (Trim(s.headers[k]) = s.headers[k]) => m.headers[k] = s.headers[k]

SameResponse(m, s) ==
  /\ m.start = s.start /\ Others(m) = Others(s)
  /\ \A k \in Others(s) : m.headers[k] = StripLeft(s.headers[k], SP) \o <<CR>>
  /\ m.content \in {s.content, s.content \o <<LF>>}

LEMMA LengthHeader ==
  ASSUME CallersTexts, NEW c \in Texts
  PROVE  /\ <<ContentLength>> \in CleanKeys /\ <<Number[Len(c)]>> \in OneTexts
         /\ <<Number[Len(c)]>> \in LineValues /\ Trimmed(<<Number[Len(c)]>>)
<1> DEFINE w == Number[Len(c)]
<1>1. w \in Words /\ w \in Chars /\ w \notin {CR, LF, SP}
  BY TextProperties, WordsAreWords DEF CallersTexts
<1> HIDE DEF w
<1>2. <<w>> \in Texts /\ Len(<<w>>) = 1 /\ <<w>>[1] = w
  BY <1>1, OneCharacter
<1>3. OneLine(<<w>>) /\ NoFeed(<<w>>) /\ Trimmed(<<w>>)
  <2> DEFINE v == <<w>>
  <2> HIDE DEF v
  <2>1. v \in Texts /\ Len(v) = 1 /\ v[1] = w
    BY <1>2 DEF v
  <2>2. \A n \in 1..Len(v) : v[n] = w
    BY <2>1
  <2>3. OneLine(v) /\ NoFeed(v) /\ Trimmed(v)
    BY <1>1, <2>1, <2>2 DEF OneLine, NoFeed, Trimmed
  <2>. QED  BY <2>3 DEF v
<1>4. <<ContentLength>> \in CleanKeys
  <2>1. <<ContentLength>> \in Seq(Words) /\ Len(<<ContentLength>>) = 1 /\ Len(<<>>) = 0
    BY WordsAreWords, EmptyText
  <2>. QED  BY <2>1 DEF CleanKeys
<1>. QED  BY <1>2, <1>3, <1>4 DEF OneTexts, LineValues, w

LEMMA EmptyHeaders ==
  /\ \A V : IsHeaders(NoHeaders, V) /\ Canonical(NoHeaders)
  /\ CleanContent(<<>>) /\ <<>> \in Texts
<1>1. DOMAIN NoHeaders = {} /\ NoHeaders = [k \in {} |-> <<>>]
  BY DEF NoHeaders
<1>2. IsFiniteSet({})
  BY FS_EmptySet
<1>3. Len(<<>>) = 0
  BY EmptyText
<1>4. \A n \in Nat : ~(1 < n /\ n + 4 <= 0 + 1)
  OBVIOUS
<1>5. CleanContent(<<>>)
  BY <1>3, <1>4 DEF CleanContent
<1>6. \A V : IsHeaders(NoHeaders, V)
  <2> SUFFICES ASSUME NEW V PROVE IsHeaders(NoHeaders, V)
    OBVIOUS
  <2>1. NoHeaders \in [{} -> V]
    BY <1>1
  <2>. QED  BY <1>1, <1>2, <2>1 DEF IsHeaders
<1>7. Canonical(NoHeaders)
  BY <1>1 DEF Canonical
<1>. QED  BY <1>5, <1>6, <1>7, EmptyText

(* What a program does to a message keeps it one.                             *)
LEMMA NewIsMessage ==
  ASSUME NEW S, NEW V, NEW C, NEW start \in S, <<>> \in C
  PROVE  IsMessage(NewMessage(start), S, V, C)
BY EmptyHeaders DEF IsMessage, NewMessage

LEMMA SetHeaderKeeps ==
  ASSUME NEW S, NEW V, NEW C, NEW m, IsMessage(m, S, V, C), NEW k \in CleanKeys, NEW v \in V
  PROVE  IsMessage([m EXCEPT !.headers = Put(@, k, v)], S, V, C)
<1> DEFINE h == m.headers
           p == Put(h, k, v)
           n == [m EXCEPT !.headers = Put(@, k, v)]
<1>1. IsHeaders(p, V)
  <2>1. IsHeaders(h, V)
    BY DEF IsMessage
  <2> HIDE DEF h
  <2>. QED  BY <2>1, PutHeader
<1>2. n = [start |-> m.start, headers |-> p, content |-> m.content]
  BY DEF IsMessage
<1> HIDE DEF p, n
<1>3. IsMessage(n, S, V, C)
  BY <1>1, <1>2 DEF IsMessage
<1>. QED  BY <1>3 DEF n

LEMMA MadeIsMessage ==
  ASSUME CallersTexts, NEW S, NEW V \in {OneTexts, LineValues}, NEW C, C \subseteq Texts,
         NEW start \in S, NEW h, IsHeaders(h, V), NEW c \in C
  PROVE  IsMessage(Made(start, h, c), S, V, C)
<1> DEFINE k == <<ContentLength>>
           v == <<Number[Len(c)]>>
<1>1. k \in CleanKeys /\ v \in V
  BY LengthHeader
<1> HIDE DEF k, v
<1>2. IsHeaders(Put(h, k, v), V)
  BY <1>1, PutHeader
<1>3. Made(start, h, c) = [start |-> start, headers |-> Put(h, k, v), content |-> c]
  BY DEF Made, k, v
<1>. QED  BY <1>2, <1>3 DEF IsMessage

LEMMA SetContentMakes ==
  ASSUME NEW S, NEW V, NEW C, NEW m, IsMessage(m, S, V, C), NEW c
  PROVE  WithContent(m, c) = Made(m.start, m.headers, c)
<1> DEFINE p == Put(m.headers, <<ContentLength>>, <<Number[Len(c)]>>)
<1>1. WithContent(m, c) = [m EXCEPT !.content = c, !.headers = p]
  BY DEF WithContent
<1>2. m = [start |-> m.start, headers |-> m.headers, content |-> m.content]
  BY DEF IsMessage
<1> HIDE DEF p
<1>3. WithContent(m, c) = [start |-> m.start, headers |-> p, content |-> c]
  BY <1>1, <1>2
<1>. QED  BY <1>3 DEF Made, p

LEMMA RemoveKeeps ==
  ASSUME NEW S, NEW V, NEW C, NEW m, IsMessage(m, S, V, C), NEW ks
  PROVE  IsMessage([m EXCEPT !.headers = [k \in DOMAIN @ \ ks |-> @[k]]], S, V, C)
<1> DEFINE h == m.headers
           p == [k \in DOMAIN h \ ks |-> h[k]]
           n == [m EXCEPT !.headers = [k \in DOMAIN @ \ ks |-> @[k]]]
<1>1. IsHeaders(p, V)
  <2>1. IsHeaders(h, V)
    BY DEF IsMessage
  <2>2. IsFiniteSet(DOMAIN h \ ks)
    BY <2>1, FS_Subset DEF IsHeaders
  <2>3. DOMAIN p = DOMAIN h \ ks
    OBVIOUS
  <2>4. p \in [DOMAIN h \ ks -> V]
    BY <2>1 DEF IsHeaders
  <2> HIDE DEF p, h
  <2>. QED  BY <2>1, <2>2, <2>3, <2>4 DEF IsHeaders
<1>2. n = [start |-> m.start, headers |-> p, content |-> m.content]
  BY DEF IsMessage
<1> HIDE DEF p, n
<1>3. IsMessage(n, S, V, C)
  BY <1>1, <1>2 DEF IsMessage
<1>. QED  BY <1>3 DEF n

(* A request that arrives.                                                    *)
LEMMA RequestReceived ==
  ASSUME CallersTexts, NEW s, IsMessage(s, Starts["request"], OneTexts, CleanBodies),
         NEW m \in StringToRequest(RequestToString(s))
  PROVE  /\ IsMessage(m, Starts["request"], OneTexts, CleanBodies) /\ FromParser(m)
         /\ s.headers # NoHeaders => SameRequest(m, s)
         /\ FromParser(s) => m = s
<1> DEFINE h == s.headers
           k == <<ContentLength>>
           C == CleanBodies
           S == Starts["request"]
<1>1. /\ s.start \in S /\ IsHeaders(h, OneTexts) /\ s.content \in C /\ C \subseteq Texts
      /\ s = [start |-> s.start, headers |-> h, content |-> s.content]
  BY DEF IsMessage, CleanBodies
<1>2. IsMessage(s, RequestStarts, OneTexts, C) /\ \A t \in C : t \in Texts /\ CleanContent(t)
  BY <1>1 DEF IsMessage, CallersTexts, CleanBodies
<1>3. DOMAIN h # {} <=> h # NoHeaders
  BY <1>1 DEF IsHeaders, NoHeaders
<1> HIDE DEF S
<1>4. ASSUME NEW g, IsHeaders(g, OneTexts), Canonical(g), NEW c \in C, m = Made(s.start, g, c)
      PROVE  /\ IsMessage(m, S, OneTexts, C) /\ FromParser(m) /\ m.start = s.start /\ m.content = c
             /\ DOMAIN m.headers = DOMAIN g \union {k}
             /\ \A x \in DOMAIN g \ {k} : m.headers[x] = g[x]
             /\ m.headers = Put(g, k, <<Number[Len(c)]>>)
  <2> DEFINE v == <<Number[Len(c)]>>
  <2>1. k \in CleanKeys /\ v \in OneTexts /\ Trimmed(v)
    BY <1>1, LengthHeader
  <2>2. IsMessage(m, S, OneTexts, C)
    BY <1>1, <1>4, MadeIsMessage
  <2>3. m.headers = Put(g, k, v) /\ m.start = s.start /\ m.content = c
    BY <1>4 DEF Made
  <2> HIDE DEF v, k
  <2>4. /\ DOMAIN Put(g, k, v) = DOMAIN g \union {k} /\ Put(g, k, v)[k] = v
        /\ \A x \in DOMAIN g \ {k} : Put(g, k, v)[x] = g[x]
        /\ Canonical(Put(g, k, v))
    <3>1. Canonical(Put(g, k, v))
      BY <1>4, <2>1, PutHeader
    <3>. QED  BY <3>1 DEF Put
  <2>5. FromParser(m)
    BY <2>3, <2>4 DEF FromParser, k, v
  <2>. QED  BY <2>2, <2>3, <2>4, <2>5 DEF k, v
<1>5. CASE h = NoHeaders
  <2>1. PICK c \in Texts : /\ CleanContent(c)
                           /\ StringToRequest(RequestToString(s)) \in {{}, {Made(s.start, NoHeaders, c)}}
    BY <1>2, <1>5, RequestHop
  <2>2. m = Made(s.start, NoHeaders, c) /\ c \in C
    BY <2>1 DEF CleanBodies
  <2>3. IsHeaders(NoHeaders, OneTexts) /\ Canonical(NoHeaders)
    BY EmptyHeaders
  <2>4. IsMessage(m, S, OneTexts, C) /\ FromParser(m)
    BY <1>4, <2>2, <2>3
  <2>5. ~FromParser(s)
    BY <1>3, <1>5 DEF FromParser
  <2>. QED  BY <1>5, <2>4, <2>5 DEF S
<1>6. CASE h # NoHeaders
  <2> DEFINE g == Received(h)
  <2>1. StringToRequest(RequestToString(s)) \in {{}, {Made(s.start, g, s.content)}}
    BY <1>2, <1>6, RequestHop
  <2>2. m = Made(s.start, g, s.content)
    BY <2>1
  <2>3. /\ IsHeaders(g, OneTexts) /\ Canonical(g) /\ DOMAIN g = DOMAIN h
        /\ \A x \in DOMAIN h : Trim(h[x]) = h[x] => g[x] = h[x]
        /\ Canonical(h) => g = h
    <3> HIDE DEF h
    <3>. QED  BY <1>1, <1>3, <1>6, ReceivedHeaders
  <2> HIDE DEF g, h
  <2>4. /\ IsMessage(m, S, OneTexts, C) /\ FromParser(m) /\ m.start = s.start /\ m.content = s.content
        /\ DOMAIN m.headers = DOMAIN g \union {k}
        /\ \A x \in DOMAIN g \ {k} : m.headers[x] = g[x]
        /\ m.headers = Put(g, k, <<Number[Len(s.content)]>>)
    BY <1>1, <1>4, <2>2, <2>3
  <2>5. SameRequest(m, s)
    <3>1. Others(m) = DOMAIN h \ {k} /\ Others(s) = DOMAIN h \ {k}
      BY <2>3, <2>4 DEF Others, h
    <3>2. \A x \in DOMAIN h \ {k} : Trim(h[x]) = h[x] => m.headers[x] = h[x]
      BY <2>3, <2>4
    <3>. QED  BY <2>4, <3>1, <3>2 DEF SameRequest, h
  <2>6. ASSUME FromParser(s) PROVE m = s
    <3>1. Canonical(h) /\ k \in DOMAIN h /\ h[k] = <<Number[Len(s.content)]>>
      BY <2>6 DEF FromParser, h
    <3> DEFINE v == <<Number[Len(s.content)]>>
    <3>2. k \in CleanKeys /\ v \in OneTexts
      BY <1>1, LengthHeader
    <3>3. Put(h, k, v) = h
      <4> HIDE DEF v, k
      <4>1. h[k] = v /\ k \in DOMAIN h
        BY <3>1 DEF v, k
      <4>2. IsHeaders(h, OneTexts) /\ k \in CleanKeys /\ v \in OneTexts
        BY <1>1, <3>2 DEF h
      <4>3. h = [x \in DOMAIN h |-> h[x]]
        BY <4>2 DEF IsHeaders
      <4>. QED  BY <4>1, <4>3, PutSame
    <3>4. m = [start |-> s.start, headers |-> Put(g, k, v), content |-> s.content]
      BY <2>2 DEF Made
    <3> HIDE DEF v, k
    <3>. QED  BY <1>1, <2>3, <3>1, <3>3, <3>4
  <2>. QED  BY <2>4, <2>5, <2>6 DEF S
<1>. QED  BY <1>5, <1>6

(* A response that arrives.                                                   *)
LEMMA ResponseReceived ==
  ASSUME CallersTexts, NEW s, IsMessage(s, Starts["response"], LineValues, Texts),
         NEW m \in StringToResponse(ResponseToString(s, TRUE))
  PROVE  IsMessage(m, Starts["response"], LineValues, Texts) /\ SameResponse(m, s)
<1> DEFINE h == s.headers
           k == <<ContentLength>>
           S == Starts["response"]
           g == Stripped(h)
<1>1. s.start \in S /\ IsHeaders(h, LineValues) /\ s.content \in Texts
  BY DEF IsMessage
<1>2. IsMessage(s, ResponseStarts, LineValues, Texts) /\ Reason[Head(s.start)] \in Reasons
  BY <1>1 DEF IsMessage, CallersTexts
<1>3. PICK body \in {s.content, s.content \o <<LF>>} :
        body \in Texts /\ StringToResponse(ResponseToString(s, TRUE)) = {Made(s.start, g, body)}
  BY <1>2, ResponseHop
<1>4. m = Made(s.start, g, body)
  BY <1>3
<1>5. IsHeaders(g, LineValues) /\ DOMAIN g = DOMAIN h /\ \A x \in DOMAIN h : g[x] = StripLeft(h[x], SP) \o <<CR>>
  <2>1. \A x \in DOMAIN h : g[x] = StripLeft(h[x], SP) \o <<CR>>
    BY DEF Stripped
  <2> HIDE DEF h
  <2>. QED  BY <1>1, <2>1, StrippedHeaders
<1> HIDE DEF S, g, h
<1>6. IsMessage(m, S, LineValues, Texts)
  BY <1>1, <1>3, <1>4, <1>5, MadeIsMessage
<1>7. SameResponse(m, s)
  <2> DEFINE v == <<Number[Len(body)]>>
  <2>1. k \in CleanKeys /\ v \in LineValues
    BY <1>3, LengthHeader
  <2>2. m.headers = Put(g, k, v) /\ m.start = s.start /\ m.content = body
    BY <1>4 DEF Made
  <2>3. DOMAIN m.headers = DOMAIN g \union {k} /\ \A x \in DOMAIN g \ {k} : m.headers[x] = g[x]
    <3> HIDE DEF v, k
    <3>1. DOMAIN Put(g, k, v) = DOMAIN g \union {k} /\ \A x \in DOMAIN g \ {k} : Put(g, k, v)[x] = g[x]
      BY DEF Put
    <3>. QED  BY <2>2, <3>1
  <2>4. Others(m) = DOMAIN h \ {k} /\ Others(s) = DOMAIN h \ {k}
    BY <1>5, <2>3 DEF Others, h
  <2>5. \A x \in DOMAIN h \ {k} : m.headers[x] = StripLeft(h[x], SP) \o <<CR>>
    BY <1>5, <2>3
  <2>. QED  BY <1>3, <2>2, <2>4, <2>5 DEF SameResponse, h
<1>. QED  BY <1>6, <1>7 DEF S

-----------------------------------------------------------------------------
(* The invariants of the two kinds of message.                                *)
IsRequest(m) == IsMessage(m, Starts["request"], OneTexts, CleanBodies)
IsResponse(m) == IsMessage(m, Starts["response"], LineValues, Texts)

RequestInvariant ==
  /\ reader = "http" \/ (reader = "lines" /\ place = "built")
  /\ (reader = "http" /\ kind = "request") =>
       /\ IsRequest(message) /\ IsRequest(sent)
       /\ place = "wire" => wire = RequestToString(sent) /\ (relayed => FromParser(sent))
       /\ place = "parsed" => /\ FromParser(message)
                              /\ sent.headers # NoHeaders => SameRequest(message, sent)
                              /\ relayed => message = sent

ResponseInvariant ==
  /\ reader = "http" \/ (reader = "lines" /\ place = "built")
  /\ (reader = "http" /\ kind = "response") =>
       /\ IsResponse(message) /\ IsResponse(sent)
       /\ place = "wire" => wire = ResponseToString(sent, TRUE)
       /\ place = "parsed" => SameResponse(message, sent)

readersVars == <<reader, messageVars, lineVars>>

(* The steps of a message: a program changes it, or it goes over a wire.      *)
LEMMA MessageSteps ==
  ASSUME CallersTexts, MessageNext,
         NEW V \in {OneTexts, LineValues}, NEW C, C \subseteq Texts, Contents \subseteq C,
         IsMessage(message, Starts[kind], V, C)
  PROVE  \/ \E m : IsMessage(m, Starts[kind], V, C) /\ Change(m)
         \/ Send(TRUE) \/ (kind = "response" /\ Send(FALSE)) \/ Receive
<1> DEFINE S == Starts[kind]
           h == message.headers
<1>1. OneTexts \subseteq V
  BY DEF OneTexts, LineValues, OneLine, NoFeed
<1>2. ASSUME NEW k \in Keys, NEW v \in Values, SetHeader(k, v)
      PROVE  \E m : IsMessage(m, S, V, C) /\ Change(m)
  <2>1. k \in CleanKeys /\ v \in V
    BY <1>1 DEF CallersTexts
  <2>2. IsMessage([message EXCEPT !.headers = Put(@, k, v)], S, V, C)
    BY <2>1, SetHeaderKeeps
  <2>. QED  BY <1>2, <2>2 DEF SetHeader
<1>3. ASSUME NEW c \in Contents, SetContent(c) PROVE \E m : IsMessage(m, S, V, C) /\ Change(m)
  <2>1. WithContent(message, c) = Made(message.start, h, c)
    BY SetContentMakes
  <2>2. message.start \in S /\ IsHeaders(h, V) /\ c \in C
    BY DEF IsMessage
  <2>3. IsMessage(Made(message.start, h, c), S, V, C)
    BY <2>2, MadeIsMessage
  <2>. QED  BY <1>3, <2>1, <2>3 DEF SetContent
<1>4. ASSUME NEW ks, RemoveHeaders(ks) PROVE \E m : IsMessage(m, S, V, C) /\ Change(m)
  <2>1. IsMessage([message EXCEPT !.headers = [k \in DOMAIN @ \ ks |-> @[k]]], S, V, C)
    BY RemoveKeeps
  <2>. QED  BY <1>4, <2>1 DEF RemoveHeaders
<1>. QED  BY <1>2, <1>3, <1>4 DEF MessageNext

LEMMA RequestStep ==
  ASSUME CallersTexts, \A c \in Contents : CleanContent(c), RequestInvariant, [ReadersNext]_readersVars
  PROVE  RequestInvariant'
<1>1. CASE UNCHANGED <<reader, messageVars>>
  BY <1>1 DEF messageVars, RequestInvariant, IsRequest
<1>2. CASE reader # "http" \/ kind # "request"
  BY <1>1, <1>2 DEF ReadersNext, readersVars, RequestInvariant, messageVars, MessageNext, Change, SetHeader,
     SetContent, RemoveHeaders, Send, Receive
<1>3. CASE reader = "http" /\ kind = "request" /\ MessageNext /\ UNCHANGED reader
  <2>1. IsRequest(message) /\ IsRequest(sent) /\ CleanBodies \subseteq Texts /\ Contents \subseteq CleanBodies
    BY <1>3 DEF RequestInvariant, CleanBodies, CallersTexts
  <2>2. \/ \E m : IsRequest(m) /\ Change(m)
        \/ Send(TRUE) \/ (kind = "response" /\ Send(FALSE)) \/ Receive
    BY <1>3, <2>1, MessageSteps DEF IsRequest
  <2>3. CASE \E m : IsRequest(m) /\ Change(m)
    <3>1. PICK m : IsRequest(m) /\ Change(m)
      BY <2>3
    <3>2. message' = m /\ sent' = m /\ place' = "built" /\ kind' = kind /\ reader' = reader
      BY <1>3, <3>1 DEF Change
    <3>3. IsRequest(message') /\ IsRequest(sent')
      BY <3>1, <3>2
    <3>4. (IsRequest(message) /\ IsRequest(sent))'
      BY <3>3 DEF IsRequest
    <3>. QED  BY <1>3, <3>2, <3>4 DEF RequestInvariant
  <2>4. CASE Send(TRUE)
    <3>1. /\ message' = message /\ sent' = message /\ place' = "wire" /\ kind' = kind /\ reader' = reader
          /\ wire' = RequestToString(message) /\ relayed' => place = "parsed"
      BY <1>3, <2>4 DEF Send
    <3>2. relayed' = (place = "parsed" /\ sent' = message)
      BY <2>4 DEF Send
    <3>3. relayed' => FromParser(message)
      BY <1>3, <3>2 DEF RequestInvariant
    <3>4. wire' = RequestToString(message)
      BY <1>3, <2>4 DEF Send
    <3>5. (IsRequest(message) /\ IsRequest(sent))' /\ (wire = RequestToString(sent))'
          /\ (relayed' => FromParser(sent)')
      BY <2>1, <3>1, <3>3, <3>4 DEF IsRequest, RequestToString, Written, FromParser
    <3>. QED  BY <1>3, <3>1, <3>5 DEF RequestInvariant
  <2>5. CASE Receive
    <3>1. place = "wire" /\ wire = RequestToString(sent) /\ (relayed => FromParser(sent))
          /\ sent' = sent /\ relayed' = relayed /\ kind' = kind /\ reader' = reader
      BY <1>3, <2>5 DEF RequestInvariant, Receive
    <3>2. CASE StringToRequest(wire) = {}
      <4>1. message' = message /\ place' = "thrown"
        BY <1>3, <2>5, <3>2 DEF Receive
      <4>2. (IsRequest(message) /\ IsRequest(sent))'
        BY <2>1, <3>1, <4>1 DEF IsRequest
      <4>. QED  BY <1>3, <3>1, <4>1, <4>2 DEF RequestInvariant
    <3>3. CASE StringToRequest(wire) # {}
      <4>1. message' \in StringToRequest(RequestToString(sent)) /\ place' = "parsed"
        BY <1>3, <2>5, <3>1, <3>3 DEF Receive
      <4>2. PICK m \in StringToRequest(RequestToString(sent)) : m = message'
        BY <4>1
      <4>3. /\ IsRequest(m) /\ FromParser(m)
            /\ sent.headers # NoHeaders => SameRequest(m, sent)
            /\ FromParser(sent) => m = sent
        BY <2>1, RequestReceived DEF IsRequest
      <4>4. (IsRequest(message) /\ IsRequest(sent) /\ FromParser(message))'
        BY <2>1, <3>1, <4>2, <4>3 DEF IsRequest, FromParser
      <4>5. (sent.headers # NoHeaders => SameRequest(message, sent))' /\ (relayed => message = sent)'
        BY <3>1, <4>2, <4>3 DEF SameRequest, Others
      <4>. QED  BY <1>3, <3>1, <4>1, <4>4, <4>5 DEF RequestInvariant
    <3>. QED  BY <3>2, <3>3
  <2>. QED  BY <1>3, <2>2, <2>3, <2>4, <2>5
<1>. QED  BY <1>1, <1>2, <1>3 DEF ReadersNext, readersVars, messageVars

LEMMA ResponseStep ==
  ASSUME CallersTexts, ResponseInvariant, [ReadersNext]_readersVars
  PROVE  ResponseInvariant'
<1>1. CASE UNCHANGED <<reader, messageVars>>
  BY <1>1 DEF messageVars, ResponseInvariant, IsResponse
<1>2. CASE reader # "http" \/ kind # "response"
  BY <1>1, <1>2 DEF ReadersNext, readersVars, ResponseInvariant, messageVars, MessageNext, Change, SetHeader,
     SetContent, RemoveHeaders, Send, Receive
<1>3. CASE reader = "http" /\ kind = "response" /\ MessageNext /\ UNCHANGED reader
  <2>1. IsResponse(message) /\ IsResponse(sent) /\ Contents \subseteq Texts
    BY <1>3 DEF ResponseInvariant, CallersTexts
  <2>2. \/ \E m : IsResponse(m) /\ Change(m)
        \/ Send(TRUE) \/ Send(FALSE) \/ Receive
    BY <1>3, <2>1, MessageSteps DEF IsResponse
  <2>3. CASE \E m : IsResponse(m) /\ Change(m)
    <3>1. PICK m : IsResponse(m) /\ Change(m)
      BY <2>3
    <3>2. message' = m /\ sent' = m /\ place' = "built" /\ kind' = kind /\ reader' = reader
      BY <1>3, <3>1 DEF Change
    <3>3. IsResponse(message') /\ IsResponse(sent')
      BY <3>1, <3>2
    <3>4. (IsResponse(message) /\ IsResponse(sent))'
      BY <3>3 DEF IsResponse
    <3>. QED  BY <1>3, <3>2, <3>4 DEF ResponseInvariant
  <2>4. ASSUME NEW sendContent \in BOOLEAN, Send(sendContent) PROVE ResponseInvariant'
    <3> DEFINE s == IF sendContent THEN message ELSE [message EXCEPT !.content = <<>>]
    <3>1. /\ message' = message /\ sent' = s /\ place' = "wire" /\ kind' = kind /\ reader' = reader
          /\ wire' = ResponseToString(message, sendContent)
      BY <1>3, <2>4 DEF Send
    <3>2. IsResponse(s) /\ ResponseToString(s, TRUE) = ResponseToString(message, sendContent)
      <4>1. CASE sendContent
        BY <2>1, <4>1
      <4>2. CASE ~sendContent
        <5>1. s = [start |-> message.start, headers |-> message.headers, content |-> <<>>]
          BY <2>1, <4>2 DEF IsResponse, IsMessage
        <5> HIDE DEF s
        <5>2. s.start = message.start /\ s.headers = message.headers /\ s.content = <<>>
          BY <5>1
        <5>3. IsResponse(s)
          BY <2>1, <5>1, <5>2, EmptyText DEF IsResponse, IsMessage
        <5>4. ResponseToString(s, TRUE) = ResponseToString(message, sendContent)
          BY <4>2, <5>2 DEF ResponseToString, Written
        <5>. QED  BY <5>3, <5>4
      <4>. QED  BY <4>1, <4>2
    <3> HIDE DEF s
    <3>3. (IsResponse(message) /\ IsResponse(sent))' /\ (wire = ResponseToString(sent, TRUE))'
      BY <2>1, <3>1, <3>2 DEF IsResponse, ResponseToString, Written
    <3>. QED  BY <1>3, <3>1, <3>3 DEF ResponseInvariant
  <2>5. CASE Receive
    <3>1. place = "wire" /\ wire = ResponseToString(sent, TRUE)
          /\ sent' = sent /\ kind' = kind /\ reader' = reader
      BY <1>3, <2>5 DEF ResponseInvariant, Receive
    <3>2. CASE StringToResponse(wire) = {}
      <4>1. message' = message /\ place' = "thrown"
        BY <1>3, <2>5, <3>2 DEF Receive
      <4>2. (IsResponse(message) /\ IsResponse(sent))'
        BY <2>1, <3>1, <4>1 DEF IsResponse
      <4>. QED  BY <1>3, <3>1, <4>1, <4>2 DEF ResponseInvariant
    <3>3. CASE StringToResponse(wire) # {}
      <4>1. message' \in StringToResponse(ResponseToString(sent, TRUE)) /\ place' = "parsed"
        BY <1>3, <2>5, <3>1, <3>3 DEF Receive
      <4>2. PICK m \in StringToResponse(ResponseToString(sent, TRUE)) : m = message'
        BY <4>1
      <4>3. IsResponse(m) /\ SameResponse(m, sent)
        BY <2>1, ResponseReceived DEF IsResponse
      <4>4. (IsResponse(message) /\ IsResponse(sent) /\ SameResponse(message, sent))'
        BY <2>1, <3>1, <4>2, <4>3 DEF IsResponse, SameResponse, Others
      <4>. QED  BY <1>3, <3>1, <4>1, <4>4 DEF ResponseInvariant
    <3>. QED  BY <3>2, <3>3
  <2>. QED  BY <2>2, <2>3, <2>4, <2>5
<1>. QED  BY <1>1, <1>2, <1>3 DEF ReadersNext, readersVars, messageVars

LEMMA MessagesBegin ==
  ASSUME CallersTexts, ReadersInit PROVE RequestInvariant /\ ResponseInvariant
<1>1. place = "built" /\ (reader = "lines" \/ (reader = "http" /\ MessageInit))
  BY DEF ReadersInit, MessageInit
<1>2. <<>> \in CleanBodies /\ <<>> \in Texts
  BY EmptyHeaders DEF CleanBodies
<1>3. CASE reader = "http" /\ MessageInit
  <2>1. kind \in {"request", "response"} /\ sent = message /\ \E start \in Starts[kind] : message = NewMessage(start)
    BY <1>3 DEF MessageInit
  <2>2. PICK start \in Starts[kind] : message = NewMessage(start)
    BY <2>1
  <2>3. CASE kind = "request"
    <3>1. IsRequest(message) /\ IsRequest(sent)
      BY <1>2, <2>1, <2>2, <2>3, NewIsMessage DEF IsRequest
    <3>. QED  BY <1>1, <2>3, <3>1 DEF RequestInvariant, ResponseInvariant
  <2>4. CASE kind = "response"
    <3>1. IsResponse(message) /\ IsResponse(sent)
      BY <1>2, <2>1, <2>2, <2>4, NewIsMessage DEF IsResponse
    <3>. QED  BY <1>1, <2>4, <3>1 DEF RequestInvariant, ResponseInvariant
  <2>. QED  BY <2>1, <2>3, <2>4
<1>4. CASE reader = "lines"
  BY <1>1, <1>4 DEF RequestInvariant, ResponseInvariant
<1>. QED  BY <1>1, <1>3, <1>4

(* What both theorems about requests follow from.                             *)
LEMMA RequestInvariantHolds ==
  ASSUME CallersTexts, \A c \in Contents : CleanContent(c)
  PROVE  ReadersSpec => []RequestInvariant
<1>1. ReadersInit => RequestInvariant
  BY MessagesBegin
<1>2. RequestInvariant /\ [ReadersNext]_<<reader, messageVars, lineVars>> => RequestInvariant'
  BY RequestStep DEF readersVars
<1>. QED  BY <1>1, <1>2, PTL DEF ReadersSpec

(* A request that to_string wrote with at least one header is, when           *)
(* string_to_request has read it at the other end, the message it was: its    *)
(* start, its body and all keys, and every value that has no blank at its     *)
(* ends.  This is so at every hop, whatever was set or removed before it.     *)
THEOREM RequestsArrive ==
  ASSUME CallersTexts, \A c \in Contents : CleanContent(c)
  PROVE  ReadersSpec => []RequestArrives
<1>1. RequestInvariant => RequestArrives
  BY DEF RequestInvariant, RequestArrives, Arrived, SameRequest
<1>. QED  BY <1>1, RequestInvariantHolds, PTL

(* What string_to_request has made, to_string and string_to_request of the    *)
(* next hop make again: a relay changes nothing.                              *)
THEOREM RelaysChangeNothing ==
  ASSUME CallersTexts, \A c \in Contents : CleanContent(c)
  PROVE  ReadersSpec => []RelayIsFaithful
<1>1. RequestInvariant => RelayIsFaithful
  BY DEF RequestInvariant, RelayIsFaithful, Arrived
<1>. QED  BY <1>1, RequestInvariantHolds, PTL

(* A response that string_to_response has read is the one that to_string      *)
(* wrote, with or without its body, but for the blanks in front of its values *)
(* and a line end more behind values and body.  Bodies may be any texts.      *)
THEOREM ResponsesArrive ==
  ASSUME CallersTexts PROVE ReadersSpec => []ResponseLosesNothing
<1>1. ReadersInit => ResponseInvariant
  BY MessagesBegin
<1>2. ResponseInvariant /\ [ReadersNext]_<<reader, messageVars, lineVars>> => ResponseInvariant'
  BY ResponseStep DEF readersVars
<1>3. ResponseInvariant => ResponseLosesNothing
  BY DEF ResponseInvariant, ResponseLosesNothing, Arrived, SameResponse
<1>. QED  BY <1>1, <1>2, <1>3, PTL DEF ReadersSpec
=============================================================================
