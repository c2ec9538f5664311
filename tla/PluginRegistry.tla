---------------------------- MODULE PluginRegistry ----------------------------
(* src/TypeFactory.h, TypeFactory.cpp and CommandDispatcher.h: the registry   *)
(* that finds a plugin among the libraries of a folder, creates one command   *)
(* of it and serves that command by its class name.  typeFactory is a static  *)
(* that every thread uses with no lock, so loadPlugin is cut where another    *)
(* thread can come between.  Each access to a container is whole: what a race *)
(* inside it may do to its memory is left out.                                *)
EXTENDS Naturals, Sequences

CONSTANTS
  Threads,    \* threads that call RegisterCommand and Dispatch
  Libs,       \* libraries, numbered in the order of the set libNames
  Class,      \* Class[l]: what libnameothy makes of the path of l
  NoClass,    \* it throws: less than "lib" and a letter stand before the first dot
  Names,      \* names that callers ask for
  Occurs,     \* Occurs[l]: the names that occur anywhere in the path of l
  MaxCommands,\* bound on the commands created
  Throwing,   \* classes whose create() may throw
  Absent, Null, None, Thrown  \* no key, a null pointer, no result, an exception

ASSUME RegistryAssumption ==
  /\ Libs \subseteq Nat /\ MaxCommands \in Nat
  /\ DOMAIN Class = Libs /\ Occurs \in [Libs -> SUBSET Names] /\ NoClass \notin Names
  /\ Absent # Null /\ {Absent, Null} \intersect Nat = {}

VARIABLES
  folder,       \* libraries in PLUGINS_FOLDER_PATH
  libNames,     \* those updateLibs has seen
  commands_map, \* class or name to Absent, Null or a command
  created,      \* history: the class of each command create() has returned
  pc, op, name, lib, made,  \* each thread: place, call, and its locals
  result,       \* what its last GetType returned or threw, else None
  failed,       \* history: classes whose create() has thrown
  raced,        \* history: classes that two threads were creating at once
  misled,       \* history: names for which find_if took another class
  unnamed       \* history: names for which it took a library of no class

locals == <<pc, op, name, lib, made, result>>
history == <<created, failed, misled, unnamed, raced>>
vars == <<folder, libNames, commands_map, history, locals>>

Commands == 1..MaxCommands
Keys == (Names \union {Class[l] : l \in Libs}) \ {NoClass}
Loaded(k) == commands_map[k] \in Commands
Creating(k) == \E t \in Threads : pc[t] \in {"create", "store"} /\ Class[lib[t]] = k

Init ==
  /\ folder \in SUBSET Libs /\ libNames = folder
  /\ commands_map = [k \in Keys |-> Absent]
  /\ created = <<>>
  /\ pc = [t \in Threads |-> "idle"] /\ op = [t \in Threads |-> "get"]
  /\ name = [t \in Threads |-> CHOOSE n \in Names : TRUE]
  /\ lib = [t \in Threads |-> 0] /\ made = [t \in Threads |-> Null]
  /\ result = [t \in Threads |-> None]
  /\ failed = {} /\ misled = {} /\ unnamed = {} /\ raced = {}

(* operator[]: a key that is not there is inserted with a null pointer.       *)
Touch(k) ==
  commands_map' = [commands_map EXCEPT ![k] = IF @ = Absent THEN Null ELSE @]

Goto(t, place) == pc' = [pc EXCEPT ![t] = place]
-----------------------------------------------------------------------------
(* Somebody copies a library into the folder.                                 *)
Install(l) ==
  /\ l \notin folder /\ folder' = folder \union {l}
  /\ UNCHANGED <<libNames, commands_map, history, locals>>

(* updateLibs.  It writes the set, so nobody may be reading it.               *)
UpdateLibs ==
  /\ \A t \in Threads : pc[t] = "idle"
  /\ libNames' = libNames \union folder
  /\ UNCHANGED <<folder, commands_map, history, locals>>

(* RegisterCommand goes to loadPlugin at once.                                *)
Register(t, n) ==
  /\ pc[t] = "idle" /\ Goto(t, "find")
  /\ op' = [op EXCEPT ![t] = "register"] /\ name' = [name EXCEPT ![t] = n]
  /\ UNCHANGED <<folder, libNames, commands_map, history, lib, made, result>>

(* GetType, from Dispatch or GetCommand, calls loadPlugin for a name that is  *)
(* not a key yet, be the value null or not.                                   *)
GetType(t, n) ==
  /\ pc[t] = "idle" /\ Goto(t, IF commands_map[n] = Absent THEN "find" ELSE "serve")
  /\ op' = [op EXCEPT ![t] = "get"] /\ name' = [name EXCEPT ![t] = n]
  /\ UNCHANGED <<folder, libNames, commands_map, history, lib, made, result>>

-----------------------------------------------------------------------------
(* loadPlugin: find_if takes the first library whose path has the name in it, *)
(* and throws when there is none.                                             *)
Candidates(n) == {l \in libNames : n \in Occurs[l]}

FindLibrary(t) ==
  /\ pc[t] = "find"
  /\ IF Candidates(name[t]) = {}
     THEN /\ Goto(t, "idle") /\ UNCHANGED <<lib, misled, unnamed>>
          /\ result' = [result EXCEPT ![t] = IF op[t] = "get" THEN Thrown ELSE None]
     ELSE LET first == CHOOSE l \in Candidates(name[t]) :
                         \A m \in Candidates(name[t]) : l <= m
          IN /\ lib' = [lib EXCEPT ![t] = first] /\ Goto(t, "check")
             /\ IF Class[first] = NoClass
                THEN unnamed' = unnamed \union {name[t]} /\ UNCHANGED misled
                ELSE misled' = misled \union ({name[t]} \ {Class[first]}) /\ UNCHANGED unnamed
             /\ UNCHANGED result
  /\ UNCHANGED <<folder, libNames, commands_map, created, failed, raced, op, name, made>>

(* "Command already loaded", by the class of the library.  What libnameothy   *)
(* throws for a short name is logged and forgotten.                           *)
CheckLoadedMutantNever(t) ==
  /\ pc[t] = "check" /\ Class[lib[t]] # NoClass
  /\ Touch(Class[lib[t]]) /\ Goto(t, "create")
  /\ UNCHANGED <<folder, libNames, history, op, name, lib, made, result>>

CheckLoaded(t) ==
  LET class == Class[lib[t]] IN
  /\ pc[t] = "check"
  /\ \/ class = NoClass /\ Goto(t, "serve") /\ UNCHANGED <<commands_map, raced>>
     \/ /\ class # NoClass /\ Touch(class)
        /\ Goto(t, IF Loaded(class) THEN "serve" ELSE "create")
        /\ raced' = IF Creating(class) THEN raced \union {class} ELSE raced
  /\ UNCHANGED <<folder, libNames, created, failed, misled, unnamed, op, name, lib, made, result>>

(* dlopen and create().  An exception of create() is logged and forgotten; a  *)
(* library that does not open ends the process.  One with no create function, *)
(* or whose function returns null, is no plugin and is left out.              *)
CreateCommand(t) ==
  /\ pc[t] = "create"
  /\ \/ /\ Class[lib[t]] \in Throwing /\ failed' = failed \union {Class[lib[t]]}
        /\ Goto(t, "serve") /\ UNCHANGED <<created, made>>
     \/ /\ Len(created) < MaxCommands
        /\ created' = Append(created, Class[lib[t]])
        /\ made' = [made EXCEPT ![t] = Len(created')]
        /\ Goto(t, "store") /\ UNCHANGED failed
  /\ UNCHANGED <<folder, libNames, commands_map, misled, unnamed, raced, op, name, lib, result>>

StoreCommandMutantByName(t) ==
  /\ pc[t] = "store"
  /\ commands_map' = [commands_map EXCEPT ![name[t]] = made[t]]
  /\ Goto(t, "serve") /\ made' = [made EXCEPT ![t] = Null]
  /\ UNCHANGED <<folder, libNames, history, op, name, lib, result>>

StoreCommand(t) ==
  /\ pc[t] = "store"
  /\ commands_map' = [commands_map EXCEPT ![Class[lib[t]]] = made[t]]
  /\ Goto(t, "serve") /\ made' = [made EXCEPT ![t] = Null]
  /\ UNCHANGED <<folder, libNames, history, op, name, lib, result>>

(* RegisterCommand returns true; GetType returns what its name maps to.       *)
Serve(t) ==
  /\ pc[t] = "serve" /\ Goto(t, "idle")
  /\ IF op[t] = "register"
     THEN result' = [result EXCEPT ![t] = None] /\ UNCHANGED commands_map
     ELSE Touch(name[t]) /\ result' = [result EXCEPT ![t] = commands_map'[name[t]]]
  /\ UNCHANGED <<folder, libNames, history, op, name, lib, made>>
-----------------------------------------------------------------------------
Next ==
  \/ \E l \in Libs : Install(l)
  \/ UpdateLibs
  \/ \E t \in Threads, n \in Names : Register(t, n) \/ GetType(t, n)
  \/ \E t \in Threads : \/ FindLibrary(t) \/ CheckLoaded(t) \/ CreateCommand(t)
                        \/ StoreCommand(t) \/ Serve(t)

Spec == Init /\ [][Next]_vars
-----------------------------------------------------------------------------
(* A name is asked for, a path that contains it is taken, and the command is  *)
(* stored under the class of that path: still a key never has the command of  *)
(* another class.                                                             *)
RightClass == \A k \in Keys : Loaded(k) => created[commands_map[k]] = k

(* GetType does not look for a plugin whose key maps to null.  Such a key is  *)
(* there only because create() has thrown, or the name led to a library of    *)
(* another class, or to one whose own name is too short for a class, or a     *)
(* thread is creating the command right now.                                  *)
NullHasReason ==
  \A k \in Keys : commands_map[k] = Null =>
    k \in failed \union misled \union unnamed \/ Creating(k)

(* "Command already loaded": a class has a second command only if two threads *)
(* were creating it at once, which nothing prevents.                          *)
LoadedOnce ==
  \A i, j \in DOMAIN created :
    (created[i] = created[j] /\ i # j) => created[i] \in raced
=============================================================================
