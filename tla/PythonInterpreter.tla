-------------------------- MODULE PythonInterpreter --------------------------
(* util/PythonInterpreter.cpp: objects whose constructor starts the one       *)
(* interpreter of the process and whose destructor ends it, and Execute,      *)
(* which runs three functions of a script and ends the interpreter too.  The  *)
(* GIL is never taken, so one thread makes every call.  Of the references,    *)
(* those of the module are counted: Execute gives back no other too often,    *)
(* and the functions, the tuple and the dictionary it does not give back.     *)
EXTENDS Naturals, FiniteSets

CONSTANTS
  Objects,   \* PythonInterpreter objects
  Scripts,   \* files: what each has under the names of the three functions
  NoScript,  \* no script
  MaxCalls   \* bound on the calls that throw before the interpreter ends

Names == {"preExecute", "execute", "postExecute"}
Kinds == {"missing", "plain", "function"}

ASSUME PythonAssumption ==
  Scripts \subseteq [Names -> Kinds] /\ NoScript \notin Scripts /\ MaxCalls \in Nat

VARIABLES
  objects,   \* those constructed and not destructed
  alive,     \* the interpreter is initialized
  refs,      \* references to the module of each script
  loaded,    \* scripts in sys.modules
  error,     \* the error indicator is set
  pc,        \* "idle", where Execute is, or "undefined"
  self, script,  \* its object and file
  response,  \* in the context: the script whose execute() has answered last
  stale,     \* history: objects made before the interpreter last ended
  tried,     \* history: of execute and postExecute, what the call has come to
  raised,    \* history: one of them has raised an exception
  garbled,   \* history: a param, or the answer of execute(), has no UTF-8
  thrown     \* history: calls for each script that have left by an exception

python == <<alive, refs, loaded, error>>
call == <<self, script, tried, raised, garbled>>
vars == <<objects, python, pc, call, response, stale, thrown>>

Has(name, kind) == script[name] = kind
Complete(s) == \A name \in Names : s[name] = "function"
NoRefs == [s \in Scripts |-> 0]

Init ==
  /\ objects = {} /\ alive = FALSE /\ refs = NoRefs /\ loaded = {} /\ error = FALSE
  /\ pc = "idle" /\ script = NoScript /\ response = NoScript
  /\ self \in Objects
  /\ stale = {} /\ tried = {} /\ raised = FALSE /\ garbled = FALSE /\ thrown = NoRefs

(* Py_Initialize does nothing while the interpreter lives.                    *)
Construct(o) ==
  /\ pc = "idle" /\ o \notin objects
  /\ objects' = objects \union {o} /\ stale' = stale \ {o} /\ alive' = TRUE
  /\ UNCHANGED <<refs, loaded, error, pc, call, response, thrown>>

(* Py_Finalize and Py_FinalizeEx: the interpreter ends for every object.      *)
InterpreterEnds ==
  /\ alive' = FALSE /\ refs' = NoRefs /\ loaded' = {} /\ error' = FALSE
  /\ thrown' = NoRefs
  /\ stale' = stale \union objects

Destruct(o) ==
  /\ pc = "idle" /\ o \in objects
  /\ objects' = objects \ {o}
  /\ InterpreterEnds
  /\ UNCHANGED <<pc, call, response>>

-----------------------------------------------------------------------------
(* Execute: it throws at once when PLUGINS_FOLDER_PATH is missing, which      *)
(* changes nothing; without an interpreter no call is defined.  The import    *)
(* takes a reference besides that of sys.modules, and a name that the module  *)
(* does not have sets the error indicator.  A failed import is printed.  An   *)
(* error left by an earlier call may be reported and cleared on the way.      *)
Import(o, s) ==
  /\ pc = "idle" /\ o \in objects
  /\ self' = o /\ script' = s /\ tried' = {} /\ raised' = FALSE /\ garbled' = FALSE
  /\ \/ ~alive /\ pc' = "undefined" /\ UNCHANGED python
     \/ /\ alive /\ (s \notin loaded \/ error) /\ pc' = "finalize" /\ error' = FALSE
        /\ UNCHANGED <<alive, refs, loaded>>
     \/ /\ alive /\ pc' = "context"
        /\ refs' = [refs EXCEPT ![s] = IF s \in loaded THEN @ + 1 ELSE 2]
        /\ loaded' = loaded \union {s}
        /\ \E left \in {error, FALSE} :
             error' = (left \/ \E name \in Names : s[name] = "missing")
        /\ UNCHANGED alive
  /\ UNCHANGED <<objects, response, stale, thrown>>

(* createExecutionContext: "params" is not there, or something else: the      *)
(* any_cast throws and the reference to the module stays.  A key or a value   *)
(* that is no UTF-8 is a null that PyDict_SetItem does not take.  Otherwise   *)
(* preExecute comes, if it can be called; if not, any error is printed.       *)
CreateContext ==
  /\ pc = "context"
  /\ \/ /\ thrown[script] < MaxCalls
        /\ pc' = "idle" /\ thrown' = [thrown EXCEPT ![script] = @ + 1]
        /\ UNCHANGED <<error, garbled>>
     \/ pc' = "undefined" /\ garbled' = TRUE /\ UNCHANGED <<error, thrown>>
     \/ /\ Has("preExecute", "function") /\ pc' = "pre"
        /\ UNCHANGED <<error, garbled, thrown>>
     \/ /\ ~Has("preExecute", "function") /\ pc' = "release" /\ error' = FALSE
        /\ UNCHANGED <<garbled, thrown>>
  /\ UNCHANGED <<objects, alive, refs, loaded, self, script, tried, raised, response, stale>>

(* A call returns null for an exception and, unless the function has handled  *)
(* one of its own, whenever an error was pending.  A result is true or false: *)
(* one whose truth value raises an exception is left out.                     *)
PreExecuteMutantNoNull ==
  /\ pc = "pre"
  /\ \E result \in {"true", "false", "null"} :
       /\ pc' = CASE result = "true" -> "execute" [] result = "false" -> "release"
                  [] OTHER -> "undefined"
       /\ error' = (result = "null")
  /\ UNCHANGED <<objects, alive, refs, loaded, call, response, stale, thrown>>

PreExecute ==
  /\ pc = "pre"
  /\ \E result \in {"true", "false", "null"} :
       /\ pc' = IF result = "true" THEN "execute" ELSE "release"
       /\ error' = (result = "null")
  /\ UNCHANGED <<objects, alive, refs, loaded, call, response, stale, thrown>>

(* Py_DECREF(pModule), not defined for an object that has been freed.         *)
Decref(next) ==
  IF refs[script] > 0
  THEN refs' = [refs EXCEPT ![script] = @ - 1] /\ pc' = next
  ELSE pc' = "undefined" /\ UNCHANGED refs

(* execute and postExecute, when preExecute has said true.  Py_IsTrue takes   *)
(* no null, nor does Py_DECREF for a name that is missing.  A name that is no *)
(* function costs the module a reference.                                     *)
Run(name, next) ==
  /\ tried' = tried \union {name}
  /\ \/ /\ Has(name, "function")
        /\ \/ pc' = next /\ UNCHANGED raised
           \/ pc' = "undefined" /\ raised' = TRUE
        /\ UNCHANGED refs
     \/ Has(name, "missing") /\ pc' = "undefined" /\ UNCHANGED <<refs, raised>>
     \/ Has(name, "plain") /\ Decref(next) /\ UNCHANGED raised

(* GetStringFromDict: the answer of execute() goes to the context, an empty   *)
(* one too.  One with a lone surrogate is a null that no C string may be.     *)
Execute ==
  /\ pc = "execute"
  /\ \/ /\ Run("execute", "post") /\ UNCHANGED garbled
        /\ response' = IF Has("execute", "function") /\ ~raised' THEN script ELSE response
     \/ /\ Has("execute", "function")
        /\ pc' = "undefined" /\ garbled' = TRUE
        /\ UNCHANGED <<refs, tried, raised, response>>
  /\ UNCHANGED <<objects, alive, loaded, error, self, script, stale, thrown>>

PostExecute ==
  /\ pc = "post"
  /\ Run("postExecute", "release")
  /\ UNCHANGED <<objects, alive, loaded, error, self, script, garbled, response, stale, thrown>>

ReleaseMutantNotOnError ==
  /\ pc = "release"
  /\ IF error THEN pc' = "finalize" /\ UNCHANGED refs ELSE Decref("finalize")
  /\ UNCHANGED <<objects, alive, loaded, error, call, response, stale, thrown>>

Release ==
  /\ pc = "release"
  /\ Decref("finalize")
  /\ UNCHANGED <<objects, alive, loaded, error, call, response, stale, thrown>>

(* The interpreter gives back the modules it has: none may be freed yet.      *)
Finalize ==
  /\ pc = "finalize"
  /\ IF \A s \in loaded : refs[s] > 0
     THEN InterpreterEnds /\ pc' = "idle"
     ELSE pc' = "undefined" /\ UNCHANGED <<python, stale, thrown>>
  /\ UNCHANGED <<objects, call, response>>

Next ==
  \/ \E o \in Objects : Construct(o) \/ Destruct(o) \/ \E s \in Scripts : Import(o, s)
  \/ CreateContext \/ PreExecute \/ Execute \/ PostExecute \/ Release \/ Finalize

Spec == Init /\ [][Next]_vars
-----------------------------------------------------------------------------
(* A script that has its three functions, and whose preExecute may fail in    *)
(* any way, does no harm on an object made since the interpreter last ended:  *)
(* what can is an exception in execute or postExecute, a param or an answer   *)
(* that has no UTF-8, a script without one of the functions, or an object     *)
(* that is used a second time, or after another one was.                      *)
Contained ==
  pc = "undefined" =>
    (~alive /\ self \in stale) \/ ~Complete(script) \/ raised \/ garbled

(* References given back for a name that the call came to and that is there,  *)
(* but is no function.                                                        *)
Extra(name) == IF name \in tried /\ Has(name, "plain") THEN 1 ELSE 0

(* On every path to its end, of whatever script, Execute has given back the   *)
(* reference to the module it took, and besides one for each name it came to  *)
(* that is no function: those are taken from what sys.modules and the calls   *)
(* that threw have kept, one each.                                            *)
ReleasesCounted ==
  (pc = "finalize" /\ script \in loaded) =>
    refs[script] + Extra("execute") + Extra("postExecute") = 1 + thrown[script]
=============================================================================
