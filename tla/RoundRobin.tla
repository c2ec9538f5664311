------------------------------ MODULE RoundRobin ------------------------------
(* LoadBalancer.h with the strategy of RoundRobinStrategy.h.  currentIndex is *)
(* a static local of selectServer: every LoadBalancer of the same server type *)
(* and every thread shares it, with no lock.  A request is three actions: it  *)
(* reads currentIndex, assigns it, and uses it as a subscript.                *)
EXTENDS Integers, FiniteSets

CONSTANTS
  Balancers,    \* LoadBalancer objects of one server type
  Threads,      \* threads that call requestServer
  NoBalancer,   \* no request in hand
  MaxServers,   \* bound on the length of each servers vector
  MaxRequests   \* bound on the requests counted for one server

ASSUME RoundRobinAssumption ==
  /\ MaxServers \in Nat \ {0} /\ MaxRequests \in Nat
  /\ NoBalancer \notin Balancers

VARIABLES
  size,          \* servers.size() of each balancer
  currentIndex,  \* the static of selectServer
  pc,            \* each thread: "idle", "store" or "subscript"
  target,        \* the balancer whose selectServer it is in
  local,         \* the value it has computed
  count,         \* history: requests each server has had since its list changed
  disturbed,     \* history: balancers for which others have moved currentIndex
  mixed,         \* history: two balancers have been asked at once
  outside        \* history: a subscript has been outside its vector

history == <<count, disturbed, mixed, outside>>
vars == <<size, currentIndex, pc, target, local, history>>

Indices == 0..(MaxServers - 1)
NoCount == [k \in Indices |-> 0]
Unused(b) == \A t \in Threads : target[t] # b
Asked == {target[t] : t \in Threads} \ {NoBalancer}

Init ==
  /\ size = [b \in Balancers |-> 0]
  /\ currentIndex = -1
  /\ pc = [t \in Threads |-> "idle"]
  /\ target = [t \in Threads |-> NoBalancer]
  /\ local = [t \in Threads |-> 0]
  /\ count = [b \in Balancers |-> NoCount]
  /\ disturbed = {} /\ mixed = FALSE /\ outside = FALSE

(* addServer and removeAllServers change the vector, so no request may be in  *)
(* it.                                                                        *)
AddServer(b) ==
  /\ Unused(b) /\ size[b] < MaxServers
  /\ size' = [size EXCEPT ![b] = @ + 1]
  /\ count' = [count EXCEPT ![b] = NoCount]
  /\ disturbed' = IF Asked = {} THEN disturbed \ {b} ELSE disturbed \union {b}
  /\ UNCHANGED <<currentIndex, pc, target, local, mixed, outside>>

RemoveAllServers(b) ==
  /\ Unused(b)
  /\ size' = [size EXCEPT ![b] = 0]
  /\ count' = [count EXCEPT ![b] = NoCount]
  /\ disturbed' = IF Asked = {} THEN disturbed \ {b} ELSE disturbed \union {b}
  /\ UNCHANGED <<currentIndex, pc, target, local, mixed, outside>>

(* Who else is inside, and for whom, when a request of b begins.              *)
Note(b) ==
  /\ disturbed' = disturbed \union (IF Asked = {} THEN Balancers \ {b} ELSE Balancers)
  /\ mixed' = (mixed \/ Asked \ {b} # {})

(* The right-hand side of the assignment.  The remainder by zero is           *)
(* undefined: a request is made only of a balancer that has a server.         *)
ReadMutantNoWrap(t, b) ==
  /\ pc[t] = "idle" /\ size[b] > 0
  /\ local' = [local EXCEPT ![t] = (currentIndex + 1) % (size[b] + 1)]
  /\ pc' = [pc EXCEPT ![t] = "store"] /\ target' = [target EXCEPT ![t] = b]
  /\ Note(b)
  /\ UNCHANGED <<size, currentIndex, count, outside>>

ReadMutantTwoSteps(t, b) ==
  /\ pc[t] = "idle" /\ size[b] > 0
  /\ local' = [local EXCEPT ![t] = (currentIndex + 2) % size[b]]
  /\ pc' = [pc EXCEPT ![t] = "store"] /\ target' = [target EXCEPT ![t] = b]
  /\ Note(b)
  /\ UNCHANGED <<size, currentIndex, count, outside>>

Read(t, b) ==
  /\ pc[t] = "idle" /\ size[b] > 0
  /\ local' = [local EXCEPT ![t] = (currentIndex + 1) % size[b]]
  /\ pc' = [pc EXCEPT ![t] = "store"] /\ target' = [target EXCEPT ![t] = b]
  /\ Note(b)
  /\ UNCHANGED <<size, currentIndex, count, outside>>

Store(t) ==
  /\ pc[t] = "store"
  /\ currentIndex' = local[t]
  /\ pc' = [pc EXCEPT ![t] = "subscript"]
  /\ UNCHANGED <<size, target, local, history>>

(* The subscript reads currentIndex again, or reuses the value just stored:   *)
(* with a race the build decides.                                             *)
SelectAt(t, k) ==
  LET b == target[t] IN
  /\ pc[t] = "subscript"
  /\ IF k < size[b]
     THEN /\ count[b][k] < MaxRequests
          /\ count' = [count EXCEPT ![b][k] = @ + 1]
          /\ UNCHANGED outside
     ELSE outside' = TRUE /\ UNCHANGED count
  /\ pc' = [pc EXCEPT ![t] = "idle"]
  /\ target' = [target EXCEPT ![t] = NoBalancer] /\ local' = [local EXCEPT ![t] = 0]
  /\ UNCHANGED <<size, currentIndex, disturbed, mixed>>

Select(t) == \E k \in {currentIndex, local[t]} : SelectAt(t, k)

Next ==
  \/ \E b \in Balancers : AddServer(b) \/ RemoveAllServers(b)
  \/ \E t \in Threads, b \in Balancers : Read(t, b)
  \/ \E t \in Threads : Store(t) \/ Select(t)

Spec == Init /\ [][Next]_vars
-----------------------------------------------------------------------------
(* Between the assignment and the subscript another thread may move the       *)
(* static index, and another balancer may have left it anywhere before.  It   *)
(* is an index of the vector whenever it is used, as long as two balancers    *)
(* are not asked at the same time.                                            *)
IndexInside == outside => mixed

(* A balancer is fair while its servers stay the same, no other balancer is   *)
(* asked, and its requests come one at a time, from whatever thread: no       *)
(* server is two requests ahead of another, wherever the index was when the   *)
(* servers were added.                                                        *)
Fair(b) ==
  \A j, k \in 0..(size[b] - 1) : count[b][j] <= count[b][k] + 1

FairWhenAlone == \A b \in Balancers \ disturbed : Fair(b)
=============================================================================
