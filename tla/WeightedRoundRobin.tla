-------------------------- MODULE WeightedRoundRobin --------------------------
(* LoadBalancer.h with the strategy of WeightedRoundRobinStrategy.h.  Both    *)
(* static locals of selectServer outlive every change of a servers vector,    *)
(* and every LoadBalancer of the same server type and every thread shares     *)
(* them, with no lock.  What a thread has read of a static it may use again:  *)
(* with a race the build decides.                                             *)
EXTENDS Integers, Sequences, FiniteSets

CONSTANTS
  Balancers,    \* LoadBalancer objects of one server type
  Threads,      \* threads that call requestServer
  NoBalancer,   \* no request in hand; no list whose turn it is
  Weights,      \* weights a WeightedItem is given
  MaxServers,   \* bound on the length of each servers vector
  MaxRequests   \* bound on the requests counted for one server

VARIABLES
  servers,       \* the weights of the servers vector of each balancer
  currentIndex, weight,  \* the statics of selectServer
  pc,            \* each thread: "idle", or what it does next in selectServer
  target,        \* the balancer whose selectServer it is in
  local,         \* the static it has last read or written
  owner,         \* history: the balancer whose present list currentIndex is of
  count,         \* history: requests each server has had in turns of its list
  disturbed,     \* history: balancers for which others have moved the statics
  mixed,         \* history: two balancers have been asked at once
  strayed,       \* history: a request was made in the turn of another list
  misused,       \* history: two threads have been inside, or a weight is negative
  outside        \* history: a subscript has been outside its vector

statics == <<currentIndex, weight>>
history == <<owner, count, disturbed, mixed, strayed, misused, outside>>
vars == <<servers, statics, pc, target, local, history>>

Asked == {target[t] : t \in Threads} \ {NoBalancer}
NoCount == [k \in 0..(MaxServers - 1) |-> 0]
Goto(t, p) == pc' = [pc EXCEPT ![t] = p]
Keep(t, v) == local' = [local EXCEPT ![t] = v]

(* The requests a server gets in a row.                                       *)
TurnOf(w) == IF w = 0 THEN 1 ELSE w

Init ==
  /\ servers = [b \in Balancers |-> <<>>] /\ currentIndex = -1 /\ weight = 0
  /\ pc = [t \in Threads |-> "idle"] /\ target = [t \in Threads |-> NoBalancer]
  /\ local = [t \in Threads |-> 0]
  /\ owner = NoBalancer /\ count = [b \in Balancers |-> NoCount]
  /\ disturbed = {} /\ mixed = FALSE /\ strayed = FALSE
  /\ misused = FALSE /\ outside = FALSE

(* addServer and removeAllServers, with no request in the vector: the turn    *)
(* that is going on goes on.                                                  *)
SetServers(b, s) ==
  /\ b \notin Asked
  /\ servers' = [servers EXCEPT ![b] = s]
  /\ owner' = (IF owner = b THEN NoBalancer ELSE owner)
  /\ count' = [count EXCEPT ![b] = NoCount]
  /\ disturbed' = (IF Asked = {} THEN disturbed \ {b} ELSE disturbed \union {b})
  /\ misused' = (misused \/ \E n \in 1..Len(s) : s[n] < 0)
  /\ UNCHANGED <<statics, pc, target, local, mixed, strayed, outside>>

AddServer(b, w) ==
  Len(servers[b]) < MaxServers /\ SetServers(b, Append(servers[b], w))
RemoveAllServers(b) == SetServers(b, <<>>)

-----------------------------------------------------------------------------
(* A request of b leaves currentIndex where another list has it when that     *)
(* list's turn is not over: its last request is answered when weight is one,  *)
(* and then one thread alone ends it.                                         *)
Stray(b) == owner # b /\ weight # 0 /\ ~(weight = 1 /\ Asked = {})

(* Who else is inside, and for whom, when a request of b begins.              *)
Note(b) ==
  /\ disturbed' = disturbed \union (IF Asked = {} THEN Balancers \ {b} ELSE Balancers)
  /\ mixed' = (mixed \/ Asked \ {b} # {})
  /\ strayed' = (strayed \/ Stray(b))
  /\ misused' = (misused \/ Asked # {})
  /\ count' = [c \in Balancers |-> IF misused' \/ c \in disturbed' THEN NoCount ELSE count[c]]

(* if (weight > 0)                                                            *)
EnterMutantNotNegative(t, b) ==
  /\ pc[t] = "idle" /\ servers[b] # <<>>
  /\ Goto(t, IF weight >= 0 THEN "decrement" ELSE "test") /\ Keep(t, weight)
  /\ target' = [target EXCEPT ![t] = b] /\ Note(b)
  /\ UNCHANGED <<servers, statics, owner, outside>>

EnterMutantNotZero(t, b) ==
  /\ pc[t] = "idle" /\ servers[b] # <<>>
  /\ Goto(t, IF weight # 0 THEN "decrement" ELSE "test") /\ Keep(t, weight)
  /\ target' = [target EXCEPT ![t] = b] /\ Note(b)
  /\ UNCHANGED <<servers, statics, owner, outside>>

Enter(t, b) ==
  /\ pc[t] = "idle" /\ servers[b] # <<>>
  /\ Goto(t, IF weight > 0 THEN "decrement" ELSE "test") /\ Keep(t, weight)
  /\ target' = [target EXCEPT ![t] = b] /\ Note(b)
  /\ UNCHANGED <<servers, statics, owner, outside>>

(* weight--                                                                   *)
Decrement(t) ==
  /\ pc[t] = "decrement"
  /\ \E w \in {weight, local[t]} : weight' = w - 1 /\ Keep(t, w - 1)
  /\ Goto(t, "test")
  /\ UNCHANGED <<servers, currentIndex, target, history>>

(* if (weight == 0)                                                           *)
Test(t) ==
  /\ pc[t] = "test"
  /\ \E w \in {weight, local[t]} : Goto(t, IF w = 0 THEN "next" ELSE "return")
  /\ Keep(t, 0)
  /\ UNCHANGED <<servers, statics, target, history>>

(* The right-hand side of the assignment to currentIndex.                     *)
NextServerMutantNoWrap(t) ==
  /\ pc[t] = "next"
  /\ Keep(t, (currentIndex + 1) % (Len(servers[target[t]]) + 1)) /\ Goto(t, "store")
  /\ UNCHANGED <<servers, statics, target, history>>

NextServer(t) ==
  /\ pc[t] = "next"
  /\ Keep(t, (currentIndex + 1) % Len(servers[target[t]])) /\ Goto(t, "store")
  /\ UNCHANGED <<servers, statics, target, history>>

Store(t) ==
  /\ pc[t] = "store"
  /\ currentIndex' = local[t] /\ owner' = target[t]
  /\ Goto(t, "reload")
  /\ UNCHANGED <<servers, weight, target, local, count, disturbed, mixed, strayed,
                 misused, outside>>

(* A read of servers[k] for b; outside the vector it may be any weight.       *)
ReadAt(b, k, w) ==
  /\ w \in (IF k < Len(servers[b]) THEN {servers[b][k + 1]} ELSE Weights)
  /\ outside' = (outside \/ k >= Len(servers[b]))

(* weight = servers[currentIndex].weight                                      *)
ReloadMutantPrevious(t) ==
  LET n == Len(servers[target[t]]) IN
  /\ pc[t] = "reload"
  /\ \E w \in Weights :
       /\ ReadAt(target[t], IF local[t] = 0 THEN n - 1 ELSE local[t] - 1, w)
       /\ weight' = w
  /\ Goto(t, "return") /\ Keep(t, 0)
  /\ UNCHANGED <<servers, currentIndex, target, owner, count, disturbed, mixed, strayed, misused>>

Reload(t) ==
  /\ pc[t] = "reload"
  /\ \E k \in {currentIndex, local[t]}, w \in Weights :
       ReadAt(target[t], k, w) /\ weight' = w
  /\ Goto(t, "return") /\ Keep(t, 0)
  /\ UNCHANGED <<servers, currentIndex, target, owner, count, disturbed, mixed, strayed, misused>>

(* return servers[currentIndex].  The request counts when the property of     *)
(* shares speaks of its balancer and the turn is one of its list.             *)
Return(t) ==
  LET b == target[t] IN
  /\ pc[t] = "return"
  /\ \E w \in Weights : ReadAt(b, currentIndex, w)
  /\ IF misused \/ b \in disturbed \/ owner # b THEN UNCHANGED count
     ELSE /\ count[b][currentIndex] < MaxRequests
          /\ count' = [count EXCEPT ![b][currentIndex] = @ + 1]
  /\ Goto(t, "idle") /\ target' = [target EXCEPT ![t] = NoBalancer]
  /\ UNCHANGED <<servers, statics, local, owner, disturbed, mixed, strayed, misused>>

Next ==
  \/ \E b \in Balancers : (\E w \in Weights : AddServer(b, w)) \/ RemoveAllServers(b)
  \/ \E t \in Threads, b \in Balancers : Enter(t, b)
  \/ \E t \in Threads : Decrement(t) \/ Test(t) \/ NextServer(t)
  \/ \E t \in Threads : Store(t) \/ Reload(t) \/ Return(t)

Spec == Init /\ [][Next]_vars
-----------------------------------------------------------------------------
(* The index a request uses is one of its vector unless two balancers have    *)
(* been asked at once, or a request was made in the turn of another list: of  *)
(* another balancer, or of the servers the balancer had before.  Such a turn  *)
(* goes on where it was, with whatever list is at hand.                       *)
ReadsInside == outside => mixed \/ strayed

(* "To load balance connections based on weight": as long as no balancer has  *)
(* a negative weight and requests come one at a time, no server is more than  *)
(* one turn ahead of its share, on a list that does not change and while no   *)
(* other balancer of the type is asked.                                       *)
ProportionalToWeight ==
  ~misused =>
    \A b \in Balancers \ disturbed : \A j, k \in 1..Len(servers[b]) :
      LET u == TurnOf(servers[b][j])  v == TurnOf(servers[b][k]) IN
      count[b][j - 1] * v <= count[b][k - 1] * u + u * v

(* Two threads that both find the weight at one take it below zero, and then  *)
(* it ends no turn any more: the index stays where it is, for every later     *)
(* request of every balancer and every later list.  Nothing but such threads, *)
(* or a weight that was negative from the start, brings the statics there.    *)
Stuck ==
  /\ weight < 0
  /\ \A t \in Threads :
       pc[t] \in {"idle", "return"} \/ (pc[t] = "test" /\ local[t] < 0)

TurnsEnd == ~misused => weight >= 0
Held == [][Stuck => Stuck' /\ currentIndex' = currentIndex]_vars
=============================================================================
