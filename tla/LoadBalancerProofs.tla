-------------------------- MODULE LoadBalancerProofs --------------------------
(* The statics of both strategies, for every number of threads, of balancers  *)
(* and of servers, and for every set of weights.                              *)
EXTENDS LoadBalancer, SequenceTheorems, TLAPS

WeightedPc == {"idle", "decrement", "test", "next", "store", "reload", "return"}

(* What a remainder is.                                                       *)
LEMMA Remainder == \A a \in Int, b \in Nat \ {0} : a % b \in 0..(b - 1)
OBVIOUS

-----------------------------------------------------------------------------
(* The weighted strategy.                                                     *)
WeightedTypes ==
  /\ servers \in [Balancers -> Seq(Weights)]
  /\ currentIndex \in Int /\ weight \in Int
  /\ pc \in [Threads -> WeightedPc] /\ local \in [Threads -> Int]
  /\ target \in [Threads -> Balancers \union {NoBalancer}]
  /\ \A t \in Threads : target[t] = NoBalancer <=> pc[t] = "idle"
  /\ \A t \in Threads : pc[t] # "idle" => servers[target[t]] # <<>>
  /\ owner \in Balancers \union {NoBalancer}

Inside(b, k) == k \in 0..(Len(servers[b]) - 1)

(* A thread of another list than the index is of ends the turn that is over   *)
(* before it uses the index.                                                  *)
EndsTurn(t) ==
  /\ pc[t] \in {"decrement", "test", "next", "store"}
  /\ IF pc[t] = "decrement"
     THEN weight = 1 /\ local[t] = 1 /\ \A u \in Threads : pc[u] # "idle" => u = t
     ELSE weight = 0
  /\ pc[t] = "test" => local[t] = 0

(* The value a thread takes from "next" on is inside.                         *)
WeightedInside ==
  /\ \A t \in Threads : pc[t] \in {"store", "reload"} => Inside(target[t], local[t])
  /\ (~mixed /\ ~strayed) =>
       /\ ~outside
       /\ \A t, u \in Threads : (pc[t] # "idle" /\ pc[u] # "idle") => target[t] = target[u]
       /\ owner \in Balancers => Inside(owner, currentIndex)
       /\ \A t \in Threads : (pc[t] # "idle" /\ owner # target[t]) => EndsTurn(t)

LEMMA LengthOfServers ==
  ASSUME WeightedTypes, NEW b \in Balancers
  PROVE  /\ Len(servers[b]) \in Nat
         /\ servers[b] # <<>> => Len(servers[b]) \in Nat \ {0}
         /\ \A n \in 1..Len(servers[b]) : servers[b][n] \in Weights /\ servers[b][n] \in Int
<1>1. servers[b] \in Seq(Weights)
  BY DEF WeightedTypes
<1>. QED  BY <1>1, WeightsAssumption, LenProperties, EmptySeq, ElementOfSeq

(* A thread inside is in the vector of a balancer.                            *)
LEMMA TargetOfThread ==
  ASSUME WeightedTypes, NEW t \in Threads, pc[t] # "idle"
  PROVE  target[t] \in Balancers /\ Len(servers[target[t]]) \in Nat \ {0}
<1>1. target[t] \in Balancers /\ servers[target[t]] # <<>>
  BY DEF WeightedTypes
<1>. QED  BY <1>1, LengthOfServers

LEMMA AskedOnes ==
  ASSUME WeightedTypes
  PROVE  /\ Weighted!Asked = {} => \A t \in Threads : pc[t] = "idle"
         /\ \A b : Weighted!Asked \ {b} = {} => \A t \in Threads : pc[t] # "idle" => target[t] = b
BY RoundRobinAssumption DEF WeightedTypes, Weighted!Asked

(* What addServer and removeAllServers make of a vector.                      *)
LEMMA NewServers ==
  ASSUME WeightedTypes, NEW b \in Balancers,
         (\E w \in Weights : Weighted!AddServer(b, w)) \/ Weighted!RemoveAllServers(b)
  PROVE  \E s \in Seq(Weights) :
           Weighted!SetServers(b, s) /\ (Len(servers[b]) <= MaxServers => Len(s) <= MaxServers)
<1>1. servers[b] \in Seq(Weights) /\ Len(servers[b]) \in Nat
  BY LengthOfServers DEF WeightedTypes
<1>2. ASSUME NEW w \in Weights, Weighted!AddServer(b, w)
      PROVE  \E s \in Seq(Weights) : Weighted!SetServers(b, s) /\ Len(s) <= MaxServers
  <2>1. /\ Append(servers[b], w) \in Seq(Weights)
        /\ Len(Append(servers[b], w)) = Len(servers[b]) + 1
    BY <1>1, AppendProperties
  <2>2. Len(servers[b]) < MaxServers /\ Weighted!SetServers(b, Append(servers[b], w))
    BY <1>2 DEF Weighted!AddServer
  <2>3. Len(Append(servers[b], w)) <= MaxServers
    BY <1>1, <2>1, <2>2, RoundRobinAssumption
  <2>. QED  BY <2>1, <2>2, <2>3
<1>3. CASE Weighted!RemoveAllServers(b)
  <2>1. <<>> \in Seq(Weights) /\ Len(<<>>) = 0
    BY EmptySeq
  <2>2. Len(<<>>) <= MaxServers
    BY <2>1, RoundRobinAssumption
  <2>. QED  BY <1>3, <2>1, <2>2, Zenon DEF Weighted!RemoveAllServers
<1>. QED  BY <1>2, <1>3

LEMMA WeightedTypesStep ==
  ASSUME WeightedTypes, WeightedInside, Weighted!Next PROVE WeightedTypes'
<1> USE RoundRobinAssumption
        DEF WeightedTypes, WeightedPc, Weighted!Goto, Weighted!Keep, Weighted!statics,
            Weighted!history
<1>1. ASSUME NEW b \in Balancers, NEW s \in Seq(Weights), Weighted!SetServers(b, s)
      PROVE  WeightedTypes'
  BY <1>1 DEF Weighted!SetServers, Weighted!Asked
<1>2. ASSUME NEW t \in Threads, NEW b \in Balancers, Weighted!Enter(t, b) PROVE WeightedTypes'
  BY <1>2 DEF Weighted!Enter
<1>3. ASSUME NEW t \in Threads, Weighted!Decrement(t) PROVE WeightedTypes'
  BY <1>3 DEF Weighted!Decrement
<1>4. ASSUME NEW t \in Threads, Weighted!Test(t) PROVE WeightedTypes'
  BY <1>4 DEF Weighted!Test
<1>5. ASSUME NEW t \in Threads, Weighted!NextServer(t) PROVE WeightedTypes'
  <2>1. (currentIndex + 1) % Len(servers[target[t]]) \in Int
    <3>1. Len(servers[target[t]]) \in Nat \ {0} /\ currentIndex + 1 \in Int
      BY <1>5, TargetOfThread DEF Weighted!NextServer
    <3>. QED  BY <3>1, Remainder
  <2>. QED  BY <1>5, <2>1 DEF Weighted!NextServer
<1>6. ASSUME NEW t \in Threads, Weighted!Store(t) PROVE WeightedTypes'
  BY <1>6 DEF Weighted!Store
<1>7. ASSUME NEW t \in Threads, Weighted!Reload(t) PROVE WeightedTypes'
  BY <1>7, WeightsAssumption DEF Weighted!Reload
<1>8. ASSUME NEW t \in Threads, Weighted!Return(t) PROVE WeightedTypes'
  BY <1>8 DEF Weighted!Return
<1>. QED
  BY <1>1, <1>2, <1>3, <1>4, <1>5, <1>6, <1>7, <1>8, NewServers DEF Weighted!Next

LEMMA WeightedInsideStep ==
  ASSUME WeightedTypes, WeightedInside, Weighted!Next PROVE WeightedInside'
<1> USE RoundRobinAssumption
        DEF WeightedTypes, WeightedPc, WeightedInside, EndsTurn, Weighted!Goto, Weighted!Keep,
            Weighted!statics, Weighted!history
<1>1. ASSUME NEW b \in Balancers, NEW s, Weighted!SetServers(b, s) PROVE WeightedInside'
  BY <1>1 DEF Weighted!SetServers, Weighted!Asked, Inside
<1>2. ASSUME NEW t \in Threads, NEW b \in Balancers, Weighted!Enter(t, b) PROVE WeightedInside'
  <2>1. ASSUME ~mixed', ~strayed'
        PROVE  /\ ~mixed /\ ~strayed
               /\ \A u \in Threads : pc[u] # "idle" => target[u] = b
               /\ owner = b \/ weight = 0 \/ (weight = 1 /\ \A u \in Threads : pc[u] = "idle")
    <3>1. /\ ~mixed /\ ~strayed /\ Weighted!Asked \ {b} = {}
          /\ owner = b \/ weight = 0 \/ (weight = 1 /\ Weighted!Asked = {})
      BY <1>2, <2>1, Zenon DEF Weighted!Enter, Weighted!Note, Weighted!Stray
    <3>. QED  BY <2>1, <3>1, AskedOnes
  <2>. QED  BY <1>2, <2>1 DEF Weighted!Enter, Inside
<1>3. ASSUME NEW t \in Threads, Weighted!Decrement(t) PROVE WeightedInside'
  BY <1>3 DEF Weighted!Decrement, Inside
<1>4. ASSUME NEW t \in Threads, Weighted!Test(t) PROVE WeightedInside'
  BY <1>4 DEF Weighted!Test, Inside
<1>5. ASSUME NEW t \in Threads, Weighted!NextServer(t) PROVE WeightedInside'
  <2>1. Inside(target[t], (currentIndex + 1) % Len(servers[target[t]]))
    <3>1. Len(servers[target[t]]) \in Nat \ {0} /\ currentIndex + 1 \in Int
      BY <1>5, TargetOfThread DEF Weighted!NextServer
    <3>. QED  BY <3>1, Remainder DEF Inside
  <2>. QED  BY <1>5, <2>1 DEF Weighted!NextServer, Inside
<1>6. ASSUME NEW t \in Threads, Weighted!Store(t) PROVE WeightedInside'
  BY <1>6 DEF Weighted!Store, Inside
<1>7. ASSUME NEW t \in Threads, Weighted!Reload(t) \/ Weighted!Return(t) PROVE WeightedInside'
  <2>1. ASSUME ~mixed, ~strayed PROVE ~outside' /\ owner = target[t]
    <3>1. /\ target[t] \in Balancers /\ Len(servers[target[t]]) \in Nat
          /\ owner = target[t] /\ Inside(target[t], currentIndex)
          /\ pc[t] = "reload" => Inside(target[t], local[t])
      BY <1>7, <2>1, TargetOfThread DEF Weighted!Reload, Weighted!Return
    <3>2. PICK k : /\ k = currentIndex \/ (pc[t] = "reload" /\ k = local[t])
                   /\ outside' = (outside \/ k >= Len(servers[target[t]]))
      BY <1>7 DEF Weighted!Reload, Weighted!Return, Weighted!ReadAt
    <3>3. k \in 0..(Len(servers[target[t]]) - 1)
      BY <3>1, <3>2 DEF Inside
    <3>4. ~(k >= Len(servers[target[t]])) /\ ~outside
      BY <2>1, <3>1, <3>3
    <3>. QED  BY <3>1, <3>2, <3>4
  <2>2. CASE Weighted!Reload(t)
    BY <2>1, <2>2 DEF Weighted!Reload, Inside
  <2>3. CASE Weighted!Return(t)
    BY <2>1, <2>3 DEF Weighted!Return, Inside
  <2>. QED  BY <1>7, <2>2, <2>3
<1>. QED
  BY <1>1, <1>2, <1>3, <1>4, <1>5, <1>6, <1>7, NewServers DEF Weighted!Next

(* With one request at a time and no negative weight, the thread inside has   *)
(* seen the statics as they are, and finds a weight inside its vector.        *)
WeightedTurns ==
  ~misused =>
    /\ weight >= 0
    /\ \A b \in Balancers : \A n \in 1..Len(servers[b]) : servers[b][n] >= 0
    /\ \A t, u \in Threads : (pc[t] # "idle" /\ pc[u] # "idle") => t = u
    /\ \A t \in Threads :
         /\ pc[t] = "decrement" => weight > 0 /\ local[t] = weight
         /\ pc[t] = "test" => local[t] = weight
         /\ pc[t] \in {"next", "store"} => weight = 0
         /\ pc[t] = "store" => local[t] = (currentIndex + 1) % Len(servers[target[t]])
         /\ pc[t] = "reload" => local[t] = currentIndex

LEMMA WeightedTurnsStep ==
  ASSUME WeightedTypes, WeightedInside, WeightedTurns, Weighted!Next PROVE WeightedTurns'
<1> USE RoundRobinAssumption
        DEF WeightedTypes, WeightedPc, WeightedTurns, Weighted!Goto, Weighted!Keep,
            Weighted!statics, Weighted!history
<1>1. ASSUME NEW b \in Balancers, NEW s \in Seq(Weights), Weighted!SetServers(b, s)
      PROVE  WeightedTurns'
  <2>1. \A n \in 1..Len(s) : s[n] \in Int
    BY WeightsAssumption, ElementOfSeq
  <2>2. /\ UNCHANGED <<currentIndex, weight, pc, target, local>>
        /\ servers' = [servers EXCEPT ![b] = s]
        /\ \A t \in Threads : target[t] # b
    BY <1>1 DEF Weighted!SetServers, Weighted!Asked
  <2>3. misused' = (misused \/ \E n \in 1..Len(s) : s[n] < 0)
    BY <1>1 DEF Weighted!SetServers
  <2>4. ~misused' => ~misused /\ \A n \in 1..Len(s) : s[n] >= 0
    <3>1. ~misused' => ~misused /\ ~\E n \in 1..Len(s) : s[n] < 0
      BY <2>3, Zenon
    <3>. QED  BY <2>1, <3>1
  <2>. QED  BY <2>2, <2>4
<1>2. ASSUME NEW t \in Threads, NEW b \in Balancers, Weighted!Enter(t, b) PROVE WeightedTurns'
  <2>1. ASSUME ~misused' PROVE ~misused /\ \A u \in Threads : pc[u] = "idle"
    <3>1. ~misused /\ Weighted!Asked = {}
      BY <1>2, <2>1, Zenon DEF Weighted!Enter, Weighted!Note
    <3>. QED  BY <3>1, AskedOnes
  <2>. QED  BY <1>2, <2>1 DEF Weighted!Enter
<1>3. ASSUME NEW t \in Threads, Weighted!Decrement(t) PROVE WeightedTurns'
  <2>1. PICK w \in {weight, local[t]} : weight' = w - 1 /\ local' = [local EXCEPT ![t] = w - 1]
    BY <1>3 DEF Weighted!Decrement
  <2>2. /\ pc[t] = "decrement" /\ pc' = [pc EXCEPT ![t] = "test"]
        /\ UNCHANGED <<servers, target, misused>>
    BY <1>3 DEF Weighted!Decrement
  <2>3. ASSUME ~misused PROVE w = weight /\ weight > 0 /\ weight' >= 0 /\ local'[t] = weight'
    <3>1. local[t] = weight /\ weight > 0 /\ weight \in Int /\ local'[t] = w - 1
      BY <2>1, <2>2, <2>3
    <3>2. weight - 1 >= 0
      BY <3>1
    <3>. QED  BY <2>1, <3>1, <3>2
  <2>4. \A u \in Threads : u # t => local'[u] = local[u] /\ pc'[u] = pc[u]
    BY <2>1, <2>2
  <2>5. pc'[t] = "test"
    BY <2>2
  <2>6. ASSUME ~misused, NEW u \in Threads, pc'[u] # "idle" PROVE u = t
    BY <2>2, <2>4, <2>6
  <2>. QED  BY <2>2, <2>3, <2>5, <2>6
<1>4. ASSUME NEW t \in Threads, Weighted!Test(t) PROVE WeightedTurns'
  BY <1>4 DEF Weighted!Test
<1>9. ASSUME NEW t \in Threads, Weighted!NextServer(t) PROVE WeightedTurns'
  BY <1>9 DEF Weighted!NextServer
<1>5. ASSUME NEW t \in Threads, Weighted!Store(t) PROVE WeightedTurns'
  BY <1>5 DEF Weighted!Store
<1>6. ASSUME NEW t \in Threads, Weighted!Reload(t) PROVE WeightedTurns'
  <2>1. ASSUME ~misused PROVE weight' >= 0
    <3>1. target[t] \in Balancers /\ Inside(target[t], local[t]) /\ currentIndex = local[t]
      BY <1>6, <2>1 DEF Weighted!Reload, WeightedInside
    <3>2. local[t] + 1 \in 1..Len(servers[target[t]]) /\ local[t] < Len(servers[target[t]])
      BY <3>1, LengthOfServers DEF Inside
    <3>3. weight' = servers[target[t]][local[t] + 1]
      BY <1>6, <3>1, <3>2 DEF Weighted!Reload, Weighted!ReadAt
    <3>. QED  BY <2>1, <3>1, <3>2, <3>3
  <2>. QED  BY <1>6, <2>1 DEF Weighted!Reload
<1>7. ASSUME NEW t \in Threads, Weighted!Return(t) PROVE WeightedTurns'
  BY <1>7 DEF Weighted!Return
<1>. QED
  BY <1>1, <1>2, <1>3, <1>4, <1>5, <1>6, <1>7, <1>9, NewServers DEF Weighted!Next

-----------------------------------------------------------------------------
(* The round-robin strategy: as long as two balancers are not asked at once,  *)
(* the threads inside are all in one balancer, and what they have computed is *)
(* an index of its vector.                                                    *)
RoundTypes ==
  /\ size \in [Balancers -> Nat]
  /\ currentIndex \in Int /\ weight = 0
  /\ pc \in [Threads -> {"idle", "store", "subscript"}]
  /\ local \in [Threads -> Int]
  /\ target \in [Threads -> Balancers \union {NoBalancer}]
  /\ \A t \in Threads : target[t] = NoBalancer <=> pc[t] = "idle"

RoundInside ==
  ~mixed =>
    /\ ~outside
    /\ \A t \in Threads : pc[t] # "idle" =>
         /\ local[t] \in 0..(size[target[t]] - 1)
         /\ pc[t] = "subscript" => currentIndex \in 0..(size[target[t]] - 1)
         /\ \A u \in Threads : pc[u] # "idle" => target[u] = target[t]

LEMMA RoundStep ==
  ASSUME RoundTypes, RoundInside, Next, UNCHANGED weight
  PROVE  RoundTypes' /\ RoundInside'
<1> USE RoundRobinAssumption DEF RoundTypes, RoundInside, history
<1>1. ASSUME NEW b \in Balancers, AddServer(b) \/ RemoveAllServers(b)
      PROVE  RoundTypes' /\ RoundInside'
  BY <1>1 DEF AddServer, RemoveAllServers, Unused
<1>2. ASSUME NEW t \in Threads, NEW b \in Balancers, Read(t, b)
      PROVE  RoundTypes' /\ RoundInside'
  <2>1. (currentIndex + 1) % size[b] \in 0..(size[b] - 1)
    <3>1. size[b] \in Nat \ {0} /\ currentIndex + 1 \in Int
      BY <1>2 DEF Read
    <3>. QED  BY <3>1, Remainder
  <2>2. RoundTypes'
    BY <1>2, <2>1 DEF Read
  <2>3. ASSUME ~mixed' PROVE ~mixed /\ \A u \in Threads : pc[u] # "idle" => target[u] = b
    BY <1>2, <2>3 DEF Read, Note, Asked
  <2>4. RoundInside'
    BY <1>2, <2>1, <2>3 DEF Read
  <2>. QED  BY <2>2, <2>4
<1>3. ASSUME NEW t \in Threads, Store(t) PROVE RoundTypes' /\ RoundInside'
  BY <1>3 DEF Store
<1>4. ASSUME NEW t \in Threads, NEW k \in {currentIndex, local[t]}, SelectAt(t, k)
      PROVE  RoundTypes' /\ RoundInside'
  <2>1. RoundTypes'
    BY <1>4 DEF SelectAt
  <2>2. ASSUME ~mixed PROVE k < size[target[t]]
    BY <1>4, <2>2 DEF SelectAt
  <2>. QED  BY <1>4, <2>1, <2>2 DEF SelectAt
<1>. QED  BY <1>1, <1>2, <1>3, <1>4 DEF Next, Select

-----------------------------------------------------------------------------
(* Laps.  The servers 0 to n - 1 take turns, and s is the next one: f[k] is   *)
(* how many turns k has had, the one it is having included.                   *)
InOrder(s, j, k) ==
  \/ j >= s /\ k < s
  \/ (j >= s <=> k >= s) /\ j <= k

Laps(f, n, s) ==
  \A j, k \in 0..(n - 1) : f[j] <= f[k] + 1 /\ (InOrder(s, j, k) => f[j] <= f[k])

(* The index after the last one is the first one.                             *)
LEMMA IndexAfter ==
  ASSUME NEW n \in Nat \ {0}, NEW c \in 0..(n - 1)
  PROVE  (c + 1) % n = IF c + 1 = n THEN 0 ELSE c + 1
<1>1. CASE c + 1 = n
  BY <1>1
<1>2. CASE c + 1 # n
  BY <1>2
<1>. QED  BY <1>1, <1>2

LEMMA LapsOfNothing ==
  ASSUME NEW n \in Nat, NEW f, \A k \in 0..(n - 1) : f[k] = 0, NEW s
  PROVE  Laps(f, n, s)
BY DEF Laps

(* The next server is never ahead of another, so it may have its turn.        *)
LEMMA LapsStep ==
  ASSUME NEW n \in Nat \ {0}, NEW x \in 0..(n - 1), NEW f, NEW g, Laps(f, n, x),
         \A k \in 0..(n - 1) : f[k] \in Nat /\ g[k] = IF k = x THEN f[k] + 1 ELSE f[k]
  PROVE  Laps(g, n, (x + 1) % n)
<1>1. \A k \in 0..(n - 1) : InOrder(x, x, k)
  BY DEF InOrder
<1>2. \A j, k \in 0..(n - 1) : g[j] <= g[k] + 1
  BY <1>1 DEF Laps
<1>3. ASSUME NEW j \in 0..(n - 1), NEW k \in 0..(n - 1), InOrder((x + 1) % n, j, k)
      PROVE  g[j] <= g[k]
  <2>1. CASE k = x
    BY <2>1 DEF Laps
  <2>2. CASE k # x
    <3>1. j # x /\ InOrder(x, j, k)
      BY <1>3, <2>2, IndexAfter DEF InOrder
    <3>. QED  BY <2>2, <3>1 DEF Laps
  <2>. QED  BY <2>1, <2>2
<1>. QED  BY <1>2, <1>3 DEF Laps

-----------------------------------------------------------------------------
(* A balancer that nothing has disturbed has one thread inside at most, and   *)
(* its servers take turns of one request.                                     *)
RoundCounts ==
  /\ size \in [Balancers -> 0..MaxServers]
  /\ count \in [Balancers -> [Indices -> Nat]]

RoundAlone(b) ==
  /\ \A t \in Threads : pc[t] # "idle" => target[t] = b /\ size[b] > 0
  /\ \A t, u \in Threads : (pc[t] # "idle" /\ pc[u] # "idle") => t = u
  /\ \A t \in Threads : pc[t] = "store" => local[t] = (currentIndex + 1) % size[b]
  /\ \A t \in Threads : pc[t] = "subscript" =>
       /\ local[t] = currentIndex /\ currentIndex \in 0..(size[b] - 1)
       /\ Laps(count[b], size[b], currentIndex)
  /\ (\A t \in Threads : pc[t] # "subscript") =>
       Laps(count[b], size[b], (currentIndex + 1) % size[b])

RoundShares == RoundCounts /\ \A b \in Balancers \ disturbed : RoundAlone(b)

(* One count of one balancer goes up.                                         *)
LEMMA CountOneMore ==
  ASSUME NEW S, NEW T, NEW c \in [S -> [T -> Nat]], NEW a, NEW x
  PROVE  [c EXCEPT ![a][x] = @ + 1] \in [S -> [T -> Nat]]
<1>1. CASE a \in S
  <2>1. PICK f \in [T -> Nat] : f = c[a]
    BY <1>1
  <2>2. [f EXCEPT ![x] = @ + 1] \in [T -> Nat]
    <3>1. CASE x \in T
      <4>1. f[x] + 1 \in Nat
        BY <3>1
      <4>. QED  BY <4>1
    <3>2. CASE x \notin T
      BY <3>2
    <3>. QED  BY <3>1, <3>2
  <2>. QED  BY <2>1, <2>2
<1>2. CASE a \notin S
  BY <1>2
<1>. QED  BY <1>1, <1>2

LEMMA RoundSharesStep ==
  ASSUME RoundTypes, RoundShares, Next PROVE RoundShares'
<1> USE RoundRobinAssumption DEF RoundShares
<1>1. ASSUME NEW b \in Balancers, AddServer(b) \/ RemoveAllServers(b) PROVE RoundShares'
  <2>1. /\ UNCHANGED <<currentIndex, pc, target, local>>
        /\ count' = [count EXCEPT ![b] = NoCount] /\ NoCount \in [Indices -> Nat]
        /\ size' \in [Balancers -> 0..MaxServers]
        /\ disturbed' = IF Asked = {} THEN disturbed \ {b} ELSE disturbed \union {b}
        /\ \A c \in Balancers \ {b} : size'[c] = size[c]
    BY <1>1 DEF AddServer, RemoveAllServers, NoCount, RoundCounts
  <2>2. RoundCounts'
    BY <2>1 DEF RoundCounts
  <2>3. ASSUME NEW c \in Balancers \ disturbed', c # b PROVE RoundAlone(c)'
    <3>1. RoundAlone(c) /\ size'[c] = size[c] /\ count'[c] = count[c]
      BY <2>1, <2>3 DEF RoundCounts
    <3>. QED  BY <2>1, <3>1 DEF RoundAlone
  <2>4. ASSUME b \notin disturbed' PROVE RoundAlone(b)'
    <3>1. \A t \in Threads : pc'[t] = "idle"
      BY <2>1, <2>4 DEF Asked, RoundTypes
    <3>2. \A k \in 0..(size'[b] - 1) : count'[b][k] = 0
      BY <2>1 DEF RoundCounts, NoCount, Indices
    <3>3. size'[b] \in Nat
      BY <2>1
    <3>4. Laps(count'[b], size'[b], (currentIndex' + 1) % size'[b])
      BY <3>2, <3>3 DEF Laps
    <3>. QED  BY <3>1, <3>4 DEF RoundAlone
  <2>. QED  BY <2>2, <2>3, <2>4
<1>2. ASSUME NEW t \in Threads, NEW b \in Balancers, Read(t, b) PROVE RoundShares'
  <2>1. /\ size[b] > 0 /\ UNCHANGED <<size, currentIndex, count>>
        /\ pc' = [pc EXCEPT ![t] = "store"] /\ target' = [target EXCEPT ![t] = b]
        /\ local' = [local EXCEPT ![t] = (currentIndex + 1) % size[b]]
        /\ disturbed' = disturbed \union (IF Asked = {} THEN Balancers \ {b} ELSE Balancers)
    BY <1>2 DEF Read, Note
  <2>2. RoundCounts'
    BY <2>1 DEF RoundCounts
  <2>3. ASSUME NEW c \in Balancers \ disturbed' PROVE RoundAlone(c)'
    <3>1. c = b /\ RoundAlone(b) /\ \A u \in Threads : pc[u] = "idle"
      BY <2>1, <2>3 DEF Asked, RoundTypes
    <3>2. Laps(count[b], size[b], (currentIndex + 1) % size[b])
      BY <3>1 DEF RoundAlone
    <3>. QED  BY <2>1, <3>1, <3>2 DEF RoundAlone, RoundTypes
  <2>. QED  BY <2>2, <2>3
<1>3. ASSUME NEW t \in Threads, Store(t) PROVE RoundShares'
  <2>1. /\ pc[t] = "store" /\ pc' = [pc EXCEPT ![t] = "subscript"]
        /\ currentIndex' = local[t] /\ UNCHANGED <<size, target, local, count, disturbed>>
    BY <1>3 DEF Store, history
  <2>2. ASSUME NEW b \in Balancers \ disturbed PROVE RoundAlone(b)'
    <3>1. /\ RoundAlone(b) /\ size[b] > 0 /\ size[b] \in Nat
          /\ local[t] = (currentIndex + 1) % size[b]
          /\ \A u \in Threads \ {t} : pc[u] = "idle"
      BY <2>1 DEF RoundAlone, RoundTypes
    <3>2. local[t] \in 0..(size[b] - 1)
      BY <3>1, Remainder DEF RoundTypes
    <3>3. Laps(count[b], size[b], local[t])
      BY <2>1, <3>1 DEF RoundAlone
    <3>. QED  BY <2>1, <3>1, <3>2, <3>3 DEF RoundAlone, RoundTypes
  <2>. QED  BY <2>1, <2>2 DEF RoundCounts
<1>4. ASSUME NEW t \in Threads, NEW x \in {currentIndex, local[t]}, SelectAt(t, x)
      PROVE  RoundShares'
  <2> DEFINE a == target[t]
  <2>1. /\ pc[t] = "subscript" /\ a \in Balancers /\ pc' = [pc EXCEPT ![t] = "idle"]
        /\ UNCHANGED <<size, currentIndex, disturbed>>
        /\ target' = [target EXCEPT ![t] = NoBalancer] /\ local' = [local EXCEPT ![t] = 0]
        /\ IF x < size[a] THEN count' = [count EXCEPT ![a][x] = @ + 1] ELSE count' = count
    BY <1>4 DEF SelectAt, RoundTypes
  <2>2. RoundCounts'
    <3>1. count \in [Balancers -> [Indices -> Nat]] /\ size' \in [Balancers -> 0..MaxServers]
      BY <2>1 DEF RoundCounts
    <3>2. count' \in [Balancers -> [Indices -> Nat]]
      <4>1. count' = count \/ count' = [count EXCEPT ![a][x] = @ + 1]
        BY <2>1
      <4>2. [count EXCEPT ![a][x] = @ + 1] \in [Balancers -> [Indices -> Nat]]
        BY <3>1, CountOneMore
      <4>. QED  BY <3>1, <4>1, <4>2
    <3>. QED  BY <3>1, <3>2 DEF RoundCounts
  <2>3. ASSUME NEW b \in Balancers \ disturbed PROVE RoundAlone(b)'
    <3>1. /\ a = b /\ x = currentIndex /\ x \in 0..(size[b] - 1) /\ Laps(count[b], size[b], x)
          /\ \A u \in Threads \ {t} : pc[u] = "idle"
      BY <2>1 DEF RoundAlone
    <3>2. \A u \in Threads : pc'[u] = "idle"
      BY <2>1, <3>1 DEF RoundTypes
    <3>3. size[b] \in Nat \ {0} /\ x < size[b] /\ \A k \in 0..(size[b] - 1) : k \in Indices
      BY <3>1 DEF RoundCounts, Indices
    <3>4. \A k \in 0..(size[b] - 1) :
            /\ count[b][k] \in Nat
            /\ count'[b][k] = IF k = x THEN count[b][k] + 1 ELSE count[b][k]
      BY <2>1, <3>1, <3>3 DEF RoundCounts
    <3>5. Laps(count'[b], size[b], (x + 1) % size[b])
      BY <3>1, <3>3, <3>4, LapsStep
    <3>. QED  BY <2>1, <3>1, <3>2, <3>5 DEF RoundAlone
  <2>. QED  BY <2>1, <2>2, <2>3
<1>. QED  BY <1>1, <1>2, <1>3, <1>4 DEF Next, Select

LEMMA RoundFair == RoundShares => FairWhenAlone
<1> SUFFICES ASSUME RoundShares, NEW b \in Balancers \ disturbed PROVE Fair(b)
  BY DEF FairWhenAlone
<1>1. \E s : Laps(count[b], size[b], s)
  BY DEF RoundShares, RoundAlone
<1>. QED  BY <1>1 DEF Laps, Fair

-----------------------------------------------------------------------------
(* Weighted balancers that are not misused, and one of them that nothing has  *)
(* disturbed: G[k] counts the turns k has had, the turn it is having          *)
(* included, of which r requests are still due.                               *)
TurnAt(b, k) == Weighted!TurnOf(servers[b][k + 1])

StillDue(r) ==
  /\ (\A t \in Threads : pc[t] \in {"idle", "decrement"}) =>
       (r = IF weight = 0 THEN 0 ELSE weight - 1)
  /\ \A t \in Threads :
       /\ pc[t] \in {"test", "next", "store"} => r = weight
       /\ pc[t] = "reload" => r = TurnAt(target[t], currentIndex)
       /\ pc[t] = "return" => r = Weighted!TurnOf(weight)

Left(b, r, k) == IF owner = b /\ k = currentIndex THEN r ELSE 0

TurnsGiven(b, G, r) ==
  /\ Laps(G, Len(servers[b]), (currentIndex + 1) % Len(servers[b]))
  /\ (owner = b /\ Inside(b, currentIndex)) => r <= TurnAt(b, currentIndex)
  /\ \A k \in 0..(Len(servers[b]) - 1) : count[b][k] + Left(b, r, k) = G[k] * TurnAt(b, k)

WeightedAlone(b) ==
  /\ \A t \in Threads : pc[t] # "idle" => target[t] = b
  /\ \E G \in [0..(Len(servers[b]) - 1) -> Nat], r \in Nat : StillDue(r) /\ TurnsGiven(b, G, r)

WeightedCounts ==
  /\ count \in [Balancers -> [Indices -> Nat]]
  /\ \A b \in Balancers : Len(servers[b]) <= MaxServers

WeightedShares ==
  WeightedCounts /\ (~misused => \A b \in Balancers \ disturbed : WeightedAlone(b))

WeightedInvariant == WeightedTypes /\ WeightedInside /\ WeightedTurns /\ WeightedShares

(* A new list begins with nothing counted, and the turn that may be going on  *)
(* is not one of this list.                                                   *)
LEMMA SetServersShares ==
  ASSUME WeightedInvariant, NEW b \in Balancers, NEW s \in Seq(Weights), Len(s) <= MaxServers,
         Weighted!SetServers(b, s)
  PROVE  WeightedShares'
<1> USE RoundRobinAssumption DEF WeightedInvariant
<1>1. /\ servers' = [servers EXCEPT ![b] = s] /\ count' = [count EXCEPT ![b] = NoCount]
      /\ owner' = (IF owner = b THEN NoBalancer ELSE owner)
      /\ UNCHANGED <<currentIndex, weight, pc, target, local>>
      /\ \A t \in Threads : target[t] # b
      /\ ~misused' => ~misused
      /\ servers \in [Balancers -> Seq(Weights)] /\ count \in [Balancers -> [Indices -> Nat]]
      /\ disturbed' = (IF Asked = {} THEN disturbed \ {b} ELSE disturbed \union {b})
  BY DEF Weighted!SetServers, Weighted!Asked, Weighted!statics, Weighted!NoCount, NoCount,
     Indices, Asked, WeightedShares, WeightedTypes, WeightedCounts
<1>2. Len(s) \in Nat /\ servers'[b] = s /\ owner' # b
  BY <1>1, LenProperties
<1>3. /\ NoCount \in [Indices -> Nat] /\ \A k \in 0..(Len(s) - 1) : count'[b][k] = 0
  BY <1>1, <1>2 DEF NoCount, Indices
<1>4. WeightedCounts'
  BY <1>1, <1>3 DEF WeightedCounts, WeightedShares
<1>5. ASSUME ~misused', NEW c \in Balancers \ disturbed', c # b PROVE WeightedAlone(c)'
  <2>1. /\ WeightedAlone(c) /\ servers'[c] = servers[c] /\ count'[c] = count[c]
        /\ owner' = c <=> owner = c
    BY <1>1, <1>5 DEF WeightedShares
  <2>2. \A r : StillDue(r) => StillDue(r)'
    BY <1>1 DEF StillDue, TurnAt
  <2>3. \A G, r : TurnsGiven(c, G, r) => TurnsGiven(c, G, r)'
    BY <1>1, <2>1 DEF TurnsGiven, Left, TurnAt, Inside
  <2>. QED  BY <1>1, <2>1, <2>2, <2>3 DEF WeightedAlone
<1>6. ASSUME ~misused', b \notin disturbed' PROVE WeightedAlone(b)'
  <2> DEFINE G == [k \in 0..(Len(s) - 1) |-> 0]
  <2>0. \A t \in Threads : pc[t] = "idle"
    BY <1>1, <1>6 DEF Asked, WeightedTypes
  <2>1. PICK r \in Nat : r = IF weight = 0 THEN 0 ELSE weight - 1
    BY <1>1, <1>6 DEF WeightedTypes, WeightedTurns
  <2>2. StillDue(r)'
    BY <1>1, <2>0, <2>1 DEF StillDue
  <2>3. Laps(G, Len(s), (currentIndex' + 1) % Len(s))
    BY <1>2 DEF Laps
  <2>4. ASSUME NEW k \in 0..(Len(s) - 1)
        PROVE  count'[b][k] + Left(b, r, k)' = G[k] * TurnAt(b, k)'
    <3>1. TurnAt(b, k)' \in Int
      <4>1. s[k + 1] \in Int
        <5>1. k + 1 \in 1..Len(s)
          BY <1>2
        <5>. QED  BY <5>1, ElementOfSeq, WeightsAssumption
      <4>. QED  BY <1>2, <4>1 DEF TurnAt, Weighted!TurnOf
    <3>2. Left(b, r, k)' = 0
      BY <1>2 DEF Left
    <3>. QED  BY <1>3, <3>1, <3>2
  <2>5. TurnsGiven(b, G, r)'
    BY <1>2, <2>3, <2>4 DEF TurnsGiven
  <2>6. G \in [0..(Len(s) - 1) -> Nat]
    OBVIOUS
  <2> HIDE DEF G
  <2>. QED  BY <1>1, <1>2, <2>0, <2>2, <2>5, <2>6 DEF WeightedAlone
<1>. QED  BY <1>4, <1>5, <1>6 DEF WeightedShares

(* What every other step may take for granted.                                *)
LEMMA OneInside ==
  ASSUME WeightedInvariant, ~misused, NEW t \in Threads, pc[t] # "idle"
  PROVE  /\ target[t] \in Balancers /\ Len(servers[target[t]]) \in Nat \ {0}
         /\ weight \in Nat /\ currentIndex \in Int
         /\ \A u \in Threads \ {t} : pc[u] = "idle"
         /\ \A k \in 0..(Len(servers[target[t]]) - 1) :
              servers[target[t]][k + 1] \in Nat /\ TurnAt(target[t], k) \in Nat \ {0}
<1>1. target[t] \in Balancers /\ Len(servers[target[t]]) \in Nat \ {0}
  BY TargetOfThread DEF WeightedInvariant
<1>2. \A k \in 0..(Len(servers[target[t]]) - 1) : servers[target[t]][k + 1] \in Nat
  BY <1>1, LengthOfServers DEF WeightedInvariant, WeightedTurns
<1>. QED
  BY <1>1, <1>2 DEF WeightedInvariant, WeightedTypes, WeightedTurns, TurnAt, Weighted!TurnOf

(* A request disturbs every balancer but the one it is made of.               *)
LEMMA EnterShares ==
  ASSUME WeightedInvariant, NEW t \in Threads, NEW b \in Balancers, Weighted!Enter(t, b)
  PROVE  WeightedShares'
<1>1. /\ UNCHANGED <<servers, currentIndex, weight, owner>>
      /\ pc' = [pc EXCEPT ![t] = IF weight > 0 THEN "decrement" ELSE "test"]
      /\ target' = [target EXCEPT ![t] = b]
      /\ disturbed' = disturbed \union (IF Asked = {} THEN Balancers \ {b} ELSE Balancers)
      /\ misused' = (misused \/ Asked # {})
      /\ count' = [c \in Balancers |->
                     IF misused' \/ c \in disturbed' THEN NoCount ELSE count[c]]
  BY DEF Weighted!Enter, Weighted!Note, Weighted!Goto, Weighted!statics, Weighted!Asked, Asked,
     Weighted!NoCount, NoCount, Indices
<1>2. WeightedCounts'
  <2>1. NoCount \in [Indices -> Nat] /\ count \in [Balancers -> [Indices -> Nat]]
    BY DEF NoCount, WeightedInvariant, WeightedShares, WeightedCounts
  <2>2. count' \in [Balancers -> [Indices -> Nat]]
    BY <1>1, <2>1
  <2>. QED  BY <1>1, <2>2 DEF WeightedInvariant, WeightedShares, WeightedCounts
<1>3. ASSUME ~misused', NEW c \in Balancers \ disturbed' PROVE WeightedAlone(c)'
  <2>1. /\ c = b /\ count'[b] = count[b] /\ b \notin disturbed /\ ~misused
        /\ \A u \in Threads : pc[u] = "idle"
    BY <1>1, <1>3 DEF Asked, WeightedInvariant, WeightedTypes
  <2>2. PICK G \in [0..(Len(servers[b]) - 1) -> Nat], r \in Nat :
          StillDue(r) /\ TurnsGiven(b, G, r)
    BY <2>1 DEF WeightedInvariant, WeightedShares, WeightedAlone
  <2>3. weight \in Nat /\ pc \in [Threads -> WeightedPc]
        /\ target \in [Threads -> Balancers \union {NoBalancer}]
    BY <2>1 DEF WeightedInvariant, WeightedTypes, WeightedTurns
  <2>4. StillDue(r)'
    BY <1>1, <2>1, <2>2, <2>3 DEF StillDue
  <2>5. TurnsGiven(b, G, r)'
    BY <1>1, <2>1, <2>2 DEF TurnsGiven, Inside, Left, TurnAt
  <2>6. \A u \in Threads : pc'[u] # "idle" => target'[u] = b
    BY <1>1, <2>1, <2>3
  <2>. QED  BY <1>1, <2>1, <2>4, <2>5, <2>6 DEF WeightedAlone
<1>. QED  BY <1>2, <1>3 DEF WeightedShares

(* Until a turn begins or a request is answered, what is due stays due.       *)
LEMMA WithinTurnShares ==
  ASSUME WeightedInvariant, NEW t \in Threads,
         \/ Weighted!Decrement(t) \/ Weighted!Test(t)
         \/ Weighted!NextServer(t) \/ Weighted!Reload(t)
  PROVE  WeightedShares'
<1> USE DEF Weighted!Goto, Weighted!Keep, Weighted!statics, Weighted!history
<1>1. /\ UNCHANGED <<servers, currentIndex, target, owner, count, disturbed, misused>>
      /\ pc[t] # "idle" /\ \E p \in WeightedPc \ {"idle"} : pc' = [pc EXCEPT ![t] = p]
  BY DEF Weighted!Decrement, Weighted!Test, Weighted!NextServer, Weighted!Reload, WeightedPc
<1>2. ASSUME ~misused
      PROVE  /\ target[t] \in Balancers /\ weight \in Nat /\ currentIndex \in Int
             /\ \A u \in Threads \ {t} : pc[u] = "idle" /\ pc'[u] = "idle"
             /\ pc \in [Threads -> WeightedPc] /\ local \in [Threads -> Int]
             /\ \A u \in Threads : pc'[u] # "idle" => pc[u] # "idle"
  BY <1>1, <1>2, OneInside DEF WeightedInvariant, WeightedTypes
<1>3. ASSUME ~misused, NEW r \in Nat, StillDue(r) PROVE StillDue(r)'
  <2> USE <1>1, <1>2, <1>3 DEF StillDue
  <2>1. CASE Weighted!Decrement(t)
    <3>1. weight > 0 /\ local[t] = weight
      BY <2>1 DEF Weighted!Decrement, WeightedInvariant, WeightedTurns
    <3>. QED  BY <2>1, <3>1 DEF Weighted!Decrement
  <2>2. CASE Weighted!Test(t)
    <3>1. local[t] = weight
      BY <2>2 DEF Weighted!Test, WeightedInvariant, WeightedTurns
    <3>. QED  BY <2>2, <3>1 DEF Weighted!Test, Weighted!TurnOf
  <2>3. CASE Weighted!NextServer(t)
    <3>1. weight = 0
      BY <2>3 DEF Weighted!NextServer, WeightedInvariant, WeightedTurns
    <3>. QED  BY <2>3, <3>1 DEF Weighted!NextServer
  <2>4. CASE Weighted!Reload(t)
    <3>1. Inside(target[t], local[t]) /\ currentIndex = local[t]
      BY <2>4 DEF Weighted!Reload, WeightedInvariant, WeightedInside, WeightedTurns
    <3>2. local[t] < Len(servers[target[t]])
      BY <3>1, LengthOfServers DEF Inside, WeightedInvariant
    <3>3. weight' = servers[target[t]][currentIndex + 1]
      BY <2>4, <3>1, <3>2 DEF Weighted!Reload, Weighted!ReadAt
    <3>. QED  BY <2>4, <3>3 DEF Weighted!Reload, TurnAt
  <2>. QED  BY <2>1, <2>2, <2>3, <2>4
<1>4. \A b, G, r : TurnsGiven(b, G, r) => TurnsGiven(b, G, r)'
  BY <1>1 DEF TurnsGiven, Inside, Left, TurnAt
<1>5. ASSUME ~misused, NEW b \in Balancers \ disturbed PROVE WeightedAlone(b)'
  <2>1. WeightedAlone(b)
    BY <1>5 DEF WeightedInvariant, WeightedShares
  <2>2. \A u \in Threads : pc'[u] # "idle" => target'[u] = b
    BY <1>1, <1>2, <1>5, <2>1 DEF WeightedAlone
  <2> HIDE DEF StillDue, TurnsGiven
  <2>. QED  BY <1>1, <1>3, <1>4, <1>5, <2>1, <2>2 DEF WeightedAlone
<1>. QED  BY <1>1, <1>5 DEF WeightedInvariant, WeightedShares, WeightedCounts

(* The next server has its turn, every request of which is due.               *)
LEMMA StoreShares ==
  ASSUME WeightedInvariant, NEW t \in Threads, Weighted!Store(t) PROVE WeightedShares'
<1>0. PICK b \in Balancers : b = target[t]
  BY TargetOfThread DEF Weighted!Store, WeightedInvariant
<1> DEFINE n == Len(servers[b])
<1>1. /\ pc[t] = "store" /\ pc' = [pc EXCEPT ![t] = "reload"] /\ currentIndex' = local[t]
      /\ owner' = b
      /\ UNCHANGED <<servers, weight, target, local, count, disturbed, misused>>
  BY <1>0 DEF Weighted!Store, Weighted!Goto
<1>2. ASSUME ~misused, b \notin disturbed
      PROVE  \E H \in [0..(n - 1) -> Nat], q \in Nat : StillDue(q)' /\ TurnsGiven(b, H, q)'
  <2>1. /\ n \in Nat \ {0} /\ \A u \in Threads \ {t} : pc[u] = "idle"
        /\ \A k \in 0..(n - 1) : TurnAt(b, k) \in Nat \ {0}
        /\ pc \in [Threads -> WeightedPc]
    BY <1>0, <1>1, <1>2, OneInside DEF WeightedInvariant, WeightedTypes
  <2>2. PICK G \in [0..(n - 1) -> Nat], r \in Nat : StillDue(r) /\ TurnsGiven(b, G, r)
    BY <1>2, <2>1 DEF WeightedInvariant, WeightedShares, WeightedAlone
  <2>3. r = 0
    BY <1>1, <1>2, <2>2 DEF StillDue, WeightedInvariant, WeightedTurns
  <2>4. PICK x \in 0..(n - 1) : currentIndex' = x /\ x = (currentIndex + 1) % n
    <3>1. currentIndex' = (currentIndex + 1) % n
      BY <1>0, <1>1, <1>2 DEF WeightedInvariant, WeightedTurns
    <3>2. (currentIndex + 1) % n \in 0..(n - 1)
      <4>1. currentIndex + 1 \in Int
        BY DEF WeightedInvariant, WeightedTypes
      <4>. QED  BY <2>1, <4>1, Remainder
    <3>. QED  BY <3>1, <3>2
  <2>5. PICK q \in Nat : q = TurnAt(b, x)
    BY <2>1
  <2>6. PICK H \in [0..(n - 1) -> Nat] : H = [G EXCEPT ![x] = @ + 1]
    <3> HIDE DEF n
    <3>1. G[x] + 1 \in Nat
      OBVIOUS
    <3>. QED  BY <3>1
  <2>7. \A k \in 0..(n - 1) : G[k] \in Nat /\ H[k] = IF k = x THEN G[k] + 1 ELSE G[k]
    BY <2>6
  <2>8. Laps(H, n, (x + 1) % n)
    <3>1. Laps(G, n, x)
      BY <2>2, <2>4 DEF TurnsGiven
    <3>. QED  BY <2>1, <2>7, <3>1, LapsStep
  <2>9. ASSUME NEW k \in 0..(n - 1)
        PROVE  count'[b][k] + Left(b, q, k)' = H[k] * TurnAt(b, k)'
    <3>0. count[b][k] \in Nat
      <4>1. k \in Indices
        BY <2>1, RoundRobinAssumption DEF WeightedInvariant, WeightedShares, WeightedCounts, Indices
      <4>. QED  BY <2>1, <4>1 DEF WeightedInvariant, WeightedShares, WeightedCounts
    <3>1. count[b][k] = G[k] * TurnAt(b, k) /\ TurnAt(b, k)' = TurnAt(b, k)
      <4>1. Left(b, r, k) = 0
        BY <2>3 DEF Left
      <4>2. count[b][k] + 0 = G[k] * TurnAt(b, k)
        BY <2>2, <4>1 DEF TurnsGiven
      <4>. QED  BY <1>1, <3>0, <4>2 DEF TurnAt
    <3>2. CASE k = x
      <4>1. Left(b, q, k)' = TurnAt(b, k)
        BY <1>1, <2>4, <2>5, <3>2 DEF Left
      <4>2. (G[k] + 1) * TurnAt(b, k) = G[k] * TurnAt(b, k) + TurnAt(b, k)
        BY <2>1, <2>7
      <4>. QED  BY <1>1, <2>7, <3>1, <3>2, <4>1, <4>2
    <3>3. CASE k # x
      <4>1. Left(b, q, k)' = 0
        BY <2>4, <3>3 DEF Left
      <4>. QED  BY <1>1, <2>7, <3>0, <3>1, <3>3, <4>1
    <3>. QED  BY <3>2, <3>3
  <2>10. TurnsGiven(b, H, q)'
    <3>1. q <= TurnAt(b, currentIndex)'
      BY <1>1, <2>4, <2>5 DEF TurnAt
    <3>. QED  BY <1>1, <2>4, <2>8, <2>9, <3>1 DEF TurnsGiven
  <2>11. StillDue(q)'
    BY <1>0, <1>1, <2>1, <2>4, <2>5 DEF StillDue, TurnAt
  <2>. QED  BY <2>10, <2>11
<1>3. ASSUME ~misused, NEW c \in Balancers \ disturbed PROVE WeightedAlone(c)'
  <2>1. c = b /\ \A u \in Threads \ {t} : pc[u] = "idle"
    BY <1>0, <1>1, <1>3, OneInside DEF WeightedInvariant, WeightedShares, WeightedAlone
  <2>2. \A u \in Threads : pc'[u] # "idle" => target'[u] = b
    BY <1>0, <1>1, <2>1
  <2>3. servers'[b] = servers[b] /\ b \notin disturbed
    BY <1>1, <1>3, <2>1
  <2>. QED  BY <1>2, <1>3, <2>1, <2>2, <2>3 DEF WeightedAlone
<1>. QED  BY <1>1, <1>3 DEF WeightedInvariant, WeightedShares, WeightedCounts

(* A request of the turn going on is answered.                                *)
LEMMA ReturnShares ==
  ASSUME WeightedInvariant, NEW t \in Threads, Weighted!Return(t) PROVE WeightedShares'
<1>0. PICK b \in Balancers : b = target[t]
  BY TargetOfThread DEF Weighted!Return, WeightedInvariant
<1> DEFINE n == Len(servers[b])
<1>1. /\ pc[t] = "return" /\ pc' = [pc EXCEPT ![t] = "idle"]
      /\ target' = [target EXCEPT ![t] = NoBalancer]
      /\ UNCHANGED <<servers, currentIndex, weight, local, owner, disturbed, misused>>
      /\ IF misused \/ b \in disturbed \/ owner # b THEN count' = count
         ELSE count' = [count EXCEPT ![b][currentIndex] = @ + 1]
  BY <1>0 DEF Weighted!Return, Weighted!Goto, Weighted!statics
<1>2. count' \in [Balancers -> [Indices -> Nat]]
  <2>1. count \in [Balancers -> [Indices -> Nat]]
    BY DEF WeightedInvariant, WeightedShares, WeightedCounts
  <2>2. [count EXCEPT ![b][currentIndex] = @ + 1] \in [Balancers -> [Indices -> Nat]]
    BY <2>1, CountOneMore
  <2>. QED  BY <1>1, <2>1, <2>2
<1>3. ASSUME ~misused, b \notin disturbed
      PROVE  \E G \in [0..(n - 1) -> Nat], q \in Nat : StillDue(q)' /\ TurnsGiven(b, G, q)'
  <2>1. /\ n \in Nat \ {0} /\ \A u \in Threads \ {t} : pc[u] = "idle"
        /\ \A k \in 0..(n - 1) : TurnAt(b, k) \in Nat \ {0}
        /\ pc \in [Threads -> WeightedPc] /\ weight \in Nat
    BY <1>0, <1>1, <1>3, OneInside DEF WeightedInvariant, WeightedTypes
  <2>2. PICK G \in [0..(n - 1) -> Nat], r \in Nat : StillDue(r) /\ TurnsGiven(b, G, r)
    BY <1>1, <1>3 DEF WeightedInvariant, WeightedShares, WeightedAlone
  <2>3. r = IF weight = 0 THEN 1 ELSE weight
    BY <1>1, <2>2 DEF StillDue, Weighted!TurnOf
  <2>4. PICK q \in Nat : q = r - 1
    BY <2>1, <2>3
  <2>5. StillDue(q)'
    BY <1>1, <2>1, <2>3, <2>4 DEF StillDue
  <2>6. ASSUME NEW k \in 0..(n - 1)
        PROVE  count'[b][k] + Left(b, q, k)' = G[k] * TurnAt(b, k)'
    <3>1. count[b][k] + Left(b, r, k) = G[k] * TurnAt(b, k) /\ TurnAt(b, k)' = TurnAt(b, k)
      BY <1>1, <2>2 DEF TurnsGiven, TurnAt
    <3>2. count'[b][k] + Left(b, q, k)' = count[b][k] + Left(b, r, k)
      <4>1. k \in Indices
        BY <1>1, <2>1, RoundRobinAssumption
           DEF WeightedInvariant, WeightedShares, WeightedCounts, Indices
      <4>2. PICK f \in [Indices -> Nat] : f = count[b] /\ f[k] \in Nat
        BY <1>1, <4>1 DEF WeightedInvariant, WeightedShares, WeightedCounts
      <4>3. CASE owner # b
        BY <1>1, <4>3 DEF Left
      <4>4. CASE owner = b
        <5>1. count'[b] = [f EXCEPT ![currentIndex] = @ + 1]
          BY <1>1, <1>3, <4>2, <4>4 DEF WeightedInvariant, WeightedShares, WeightedCounts
        <5>2. CASE k = currentIndex
          <6>1. count'[b][k] = f[k] + 1
            BY <4>1, <5>1, <5>2
          <6>. QED  BY <1>1, <2>4, <4>2, <4>4, <5>2, <6>1 DEF Left
        <5>3. CASE k # currentIndex
          <6>1. count'[b][k] = f[k]
            BY <4>1, <5>1, <5>3
          <6>. QED  BY <1>1, <4>2, <5>3, <6>1 DEF Left
        <5>. QED  BY <5>2, <5>3
      <4>. QED  BY <4>3, <4>4
    <3>. QED  BY <3>1, <3>2
  <2>7. TurnsGiven(b, G, q)'
    <3>1. (owner' = b /\ Inside(b, currentIndex)') => q <= TurnAt(b, currentIndex)'
      BY <1>1, <2>1, <2>2, <2>4 DEF TurnsGiven, Inside, TurnAt
    <3>. QED  BY <1>1, <2>2, <2>6, <3>1 DEF TurnsGiven
  <2>. QED  BY <2>5, <2>7
<1>4. ASSUME ~misused, NEW c \in Balancers \ disturbed PROVE WeightedAlone(c)'
  <2>1. c = b /\ \A u \in Threads \ {t} : pc[u] = "idle"
    BY <1>0, <1>1, <1>4, OneInside DEF WeightedInvariant, WeightedShares, WeightedAlone
  <2>2. \A u \in Threads : pc'[u] = "idle"
    BY <1>1, <2>1 DEF WeightedInvariant, WeightedTypes
  <2>3. servers'[b] = servers[b] /\ b \notin disturbed
    BY <1>1, <1>4, <2>1
  <2>. QED  BY <1>3, <1>4, <2>1, <2>2, <2>3 DEF WeightedAlone
<1>. QED  BY <1>1, <1>2, <1>4 DEF WeightedInvariant, WeightedShares, WeightedCounts

LEMMA WeightedStep ==
  ASSUME WeightedInvariant, Weighted!Next PROVE WeightedInvariant'
<1>1. WeightedTypes' /\ WeightedInside' /\ WeightedTurns'
  BY WeightedTypesStep, WeightedInsideStep, WeightedTurnsStep DEF WeightedInvariant
<1>2. ASSUME NEW b \in Balancers,
             (\E w \in Weights : Weighted!AddServer(b, w)) \/ Weighted!RemoveAllServers(b)
      PROVE  WeightedShares'
  <2>1. Len(servers[b]) <= MaxServers
    BY DEF WeightedInvariant, WeightedShares, WeightedCounts
  <2>2. PICK s \in Seq(Weights) : Weighted!SetServers(b, s) /\ Len(s) <= MaxServers
    BY <1>2, <2>1, NewServers DEF WeightedInvariant
  <2>. QED  BY <2>2, SetServersShares
<1>3. WeightedShares'
  <2>1. ASSUME NEW t \in Threads,
               \/ Weighted!Decrement(t) \/ Weighted!Test(t)
               \/ Weighted!NextServer(t) \/ Weighted!Reload(t)
        PROVE  WeightedShares'
    BY <2>1, WithinTurnShares
  <2>2. ASSUME NEW t \in Threads, Weighted!Store(t) \/ Weighted!Return(t) PROVE WeightedShares'
    BY <2>2, StoreShares, ReturnShares
  <2>3. ASSUME NEW t \in Threads, NEW b \in Balancers, Weighted!Enter(t, b) PROVE WeightedShares'
    BY <2>3, EnterShares
  <2>. QED  BY <1>2, <2>1, <2>2, <2>3 DEF Weighted!Next
<1>. QED  BY <1>1, <1>3 DEF WeightedInvariant

LEMMA WeightedSharesInit == (Weighted!Init /\ Init) => WeightedShares
<1> SUFFICES ASSUME Weighted!Init, Init PROVE WeightedShares
  OBVIOUS
<1>1. /\ \A b \in Balancers : servers[b] = <<>> /\ Len(servers[b]) = 0
      /\ weight = 0 /\ \A t \in Threads : pc[t] = "idle"
      /\ count = [b \in Balancers |-> NoCount] /\ owner = NoBalancer
  BY EmptySeq DEF Weighted!Init, Init
<1>2. WeightedCounts
  BY <1>1, RoundRobinAssumption DEF NoCount, WeightedCounts
<1>3. ASSUME NEW b \in Balancers PROVE WeightedAlone(b)
  <2>1. PICK G \in [0..(Len(servers[b]) - 1) -> Nat] : G = [k \in 0..(Len(servers[b]) - 1) |-> 0]
    OBVIOUS
  <2>2. StillDue(0) /\ TurnsGiven(b, G, 0)
    BY <1>1, RoundRobinAssumption DEF StillDue, TurnsGiven, Inside, Laps
  <2>. QED  BY <1>1, <2>2 DEF WeightedAlone
<1>. QED  BY <1>2, <1>3 DEF WeightedShares

(* Turns that are at most one apart are shares that are at most one turn      *)
(* apart: a and b are the requests of two servers with turns of u and v, of   *)
(* which l and m are not yet made.                                            *)
LEMMA Monotone == \A x, y, z \in Nat : x <= y => x * z <= y * z
<1> SUFFICES ASSUME NEW x \in Nat, NEW y \in Nat, NEW z \in Nat, x <= y PROVE x * z <= y * z
  OBVIOUS
<1>1. PICK d \in Nat : y = x + d
  <2>1. y - x \in Nat /\ y = x + (y - x)
    OBVIOUS
  <2>. QED  BY <2>1
<1>2. y * z = x * z + d * z /\ d * z \in Nat /\ x * z \in Nat
  BY <1>1
<1>. QED  BY <1>2

LEMMA TurnsAreShares ==
  ASSUME NEW a \in Nat, NEW b \in Nat, NEW u \in Nat, NEW v \in Nat, NEW l \in Nat,
         NEW m \in Nat, NEW g \in Nat, NEW h \in Nat,
         a + l = g * u, b + m = h * v, m <= v, g <= h + 1, m # 0 => g <= h
  PROVE  a * v <= b * u + u * v
<1>1. PICK p \in Nat : p = u * v
  OBVIOUS
<1>2. a * v <= g * p
  <2>1. g * u \in Nat /\ a <= g * u
    OBVIOUS
  <2>2. a * v <= (g * u) * v
    BY <2>1, Monotone
  <2>3. (g * u) * v = g * p
    BY <1>1
  <2>. QED  BY <2>2, <2>3
<1>3. CASE m = 0
  <2>1. b * u = h * p
    BY <1>1, <1>3
  <2>2. g * p <= (h + 1) * p /\ (h + 1) * p = h * p + p
    BY Monotone
  <2>3. a * v \in Nat /\ g * p \in Nat /\ h * p \in Nat
    OBVIOUS
  <2>. QED  BY <1>1, <1>2, <2>1, <2>2, <2>3
<1>4. CASE m # 0
  <2>1. h * v \in Nat /\ b + v \in Nat /\ h * v <= b + v
    OBVIOUS
  <2>2. (h * v) * u <= (b + v) * u
    BY <2>1, Monotone
  <2>3. (h * v) * u = h * p /\ (b + v) * u = b * u + p
    BY <1>1
  <2>4. g * p <= h * p
    BY <1>4, Monotone
  <2>5. a * v \in Nat /\ g * p \in Nat /\ h * p \in Nat /\ b * u \in Nat
    OBVIOUS
  <2>. QED  BY <1>1, <1>2, <2>2, <2>3, <2>4, <2>5
<1>. QED  BY <1>3, <1>4

LEMMA WeightedFair == WeightedInvariant => Weighted!ProportionalToWeight
<1> SUFFICES ASSUME WeightedInvariant, ~misused, NEW b \in Balancers \ disturbed,
                    NEW j \in 1..Len(servers[b]), NEW k \in 1..Len(servers[b])
             PROVE  count[b][j - 1] * Weighted!TurnOf(servers[b][k])
                      <= count[b][k - 1] * Weighted!TurnOf(servers[b][j])
                         + Weighted!TurnOf(servers[b][j]) * Weighted!TurnOf(servers[b][k])
  BY DEF Weighted!ProportionalToWeight
<1> DEFINE n == Len(servers[b])
<1>1. /\ n \in Nat \ {0} /\ currentIndex \in Int
      /\ j - 1 \in 0..(n - 1) /\ k - 1 \in 0..(n - 1)
  BY LengthOfServers DEF WeightedInvariant, WeightedTypes
<1>2. /\ TurnAt(b, j - 1) = Weighted!TurnOf(servers[b][j]) /\ TurnAt(b, j - 1) \in Nat
      /\ TurnAt(b, k - 1) = Weighted!TurnOf(servers[b][k]) /\ TurnAt(b, k - 1) \in Nat
  <2>1. \A i \in 1..n : servers[b][i] \in Nat
    BY LengthOfServers DEF WeightedInvariant, WeightedTurns
  <2>2. servers[b][j] \in Nat /\ servers[b][k] \in Nat /\ (j - 1) + 1 = j /\ (k - 1) + 1 = k
    BY <1>1, <2>1
  <2>. QED  BY <2>2 DEF TurnAt, Weighted!TurnOf
<1>3. PICK G \in [0..(n - 1) -> Nat], r \in Nat : StillDue(r) /\ TurnsGiven(b, G, r)
  BY DEF WeightedInvariant, WeightedShares, WeightedAlone
<1>4. /\ count[b][j - 1] \in Nat /\ count[b][k - 1] \in Nat
      /\ Left(b, r, j - 1) \in Nat /\ Left(b, r, k - 1) \in Nat
      /\ G[j - 1] \in Nat /\ G[k - 1] \in Nat
  <2>1. \A i \in 0..(n - 1) : count[b][i] \in Nat
    <3>1. \A i \in 0..(n - 1) : i \in Indices
      BY <1>1, RoundRobinAssumption
         DEF WeightedInvariant, WeightedShares, WeightedCounts, Indices
    <3>. QED  BY <3>1 DEF WeightedInvariant, WeightedShares, WeightedCounts
  <2>2. \A i \in 0..(n - 1) : Left(b, r, i) \in Nat
    BY <1>3 DEF Left
  <2>. QED  BY <1>1, <1>3, <2>1, <2>2
<1>5. /\ count[b][j - 1] + Left(b, r, j - 1) = G[j - 1] * TurnAt(b, j - 1)
      /\ count[b][k - 1] + Left(b, r, k - 1) = G[k - 1] * TurnAt(b, k - 1)
      /\ G[j - 1] <= G[k - 1] + 1
  BY <1>1, <1>3 DEF TurnsGiven, Laps
<1>6. Left(b, r, k - 1) <= TurnAt(b, k - 1)
  BY <1>1, <1>2, <1>3 DEF Left, TurnsGiven, Inside
<1>7. ASSUME Left(b, r, k - 1) # 0 PROVE G[j - 1] <= G[k - 1]
  <2>1. k - 1 = currentIndex
    BY <1>7 DEF Left
  <2>2. InOrder((currentIndex + 1) % n, j - 1, k - 1)
    <3>1. (currentIndex + 1) % n = IF currentIndex + 1 = n THEN 0 ELSE currentIndex + 1
      BY <1>1, <2>1, IndexAfter
    <3>. QED  BY <1>1, <2>1, <3>1 DEF InOrder
  <2>. QED  BY <1>1, <1>3, <2>2 DEF TurnsGiven, Laps
<1>. QED  BY <1>2, <1>4, <1>5, <1>6, <1>7, TurnsAreShares

-----------------------------------------------------------------------------
(* The balancers have one of the strategies.                                  *)
NoLists == \A b \in Balancers : servers[b] = <<>>
NoSizes == \A b \in Balancers : size[b] = 0

BalancerInvariant ==
  \/ /\ strategy = "round" /\ NoLists
     /\ RoundTypes /\ RoundInside /\ RoundShares
  \/ /\ strategy = "weighted" /\ NoSizes
     /\ WeightedInvariant

LEMMA BalancerInvariantHolds == BalancerSpec => []BalancerInvariant
<1>1. BalancerInit => BalancerInvariant
  <2> SUFFICES ASSUME BalancerInit PROVE BalancerInvariant
    OBVIOUS
  <2>0. NoLists /\ NoSizes
    BY DEF BalancerInit, Init, Weighted!Init, NoLists, NoSizes
  <2>1. CASE strategy = "round"
    <3>1. RoundTypes /\ RoundInside
      BY DEF BalancerInit, Init, Weighted!Init, RoundTypes, RoundInside
    <3>2. RoundCounts
      BY RoundRobinAssumption DEF BalancerInit, Init, RoundCounts, NoCount, Indices
    <3>3. \A b \in Balancers : RoundAlone(b)
      BY DEF BalancerInit, Init, RoundAlone, Laps
    <3>. QED  BY <2>0, <2>1, <3>1, <3>2, <3>3 DEF BalancerInvariant, RoundShares
  <2>2. CASE strategy = "weighted"
    <3>1. WeightedTypes
      BY EmptySeq DEF BalancerInit, Weighted!Init, WeightedTypes, WeightedPc
    <3>2. WeightedInside
      BY RoundRobinAssumption DEF BalancerInit, Weighted!Init, WeightedInside
    <3>3. WeightedTurns
      BY <2>0, EmptySeq DEF BalancerInit, Weighted!Init, WeightedTurns, NoLists
    <3>4. WeightedShares
      BY WeightedSharesInit DEF BalancerInit
    <3>. QED  BY <2>0, <2>2, <3>1, <3>2, <3>3, <3>4 DEF BalancerInvariant, WeightedInvariant
  <2>. QED  BY <2>1, <2>2 DEF BalancerInit
<1>2. BalancerInvariant /\ [BalancerNext]_balancerVars => BalancerInvariant'
  <2> SUFFICES ASSUME BalancerInvariant, [BalancerNext]_balancerVars PROVE BalancerInvariant'
    OBVIOUS
  <2>1. CASE strategy = "round" /\ Next /\ UNCHANGED <<strategy, weightedVars>>
    BY <2>1, RoundStep, RoundSharesStep DEF BalancerInvariant, weightedVars, NoLists
  <2>2. CASE strategy = "weighted" /\ Weighted!Next /\ UNCHANGED <<strategy, size>>
    BY <2>2, WeightedStep DEF BalancerInvariant, NoSizes
  <2>3. CASE UNCHANGED balancerVars
    <3>1. UNCHANGED <<strategy, size, currentIndex, pc, target, local, count, disturbed, mixed,
                      outside, servers, weight, owner, strayed, misused>>
      BY <2>3 DEF balancerVars, vars, history, weightedVars
    <3>2. CASE strategy = "round"
      BY <3>1, <3>2 DEF BalancerInvariant, RoundTypes, RoundInside, RoundShares, RoundCounts,
         RoundAlone, Laps, NoLists
    <3>3. CASE strategy = "weighted"
      <4>1. WeightedTypes' /\ WeightedInside' /\ WeightedTurns'
        BY <3>1, <3>3 DEF BalancerInvariant, WeightedInvariant, WeightedTypes, WeightedInside,
           EndsTurn, Inside, WeightedTurns
      <4>2. \A b, G, r : StillDue(r) /\ TurnsGiven(b, G, r) => StillDue(r)' /\ TurnsGiven(b, G, r)'
        BY <3>1 DEF StillDue, TurnsGiven, Inside, Left, TurnAt
      <4>3. \A b \in Balancers : WeightedAlone(b) => WeightedAlone(b)'
        BY <3>1, <4>2 DEF WeightedAlone
      <4>4. WeightedShares'
        BY <3>1, <3>3, <4>3 DEF BalancerInvariant, WeightedInvariant, WeightedShares, WeightedCounts
      <4>. QED
        BY <3>1, <3>3, <4>1, <4>4 DEF BalancerInvariant, WeightedInvariant, NoSizes
    <3>. QED  BY <3>2, <3>3 DEF BalancerInvariant
  <2>. QED  BY <2>1, <2>2, <2>3 DEF BalancerNext
<1>. QED  BY <1>1, <1>2, PTL DEF BalancerSpec

(* A subscript is outside its vector only after two balancers of one server   *)
(* type have been asked at once or, with weights, after a request in the turn *)
(* of another list: whatever the threads of one balancer do.                  *)
THEOREM SubscriptIsInside == BalancerSpec => []SubscriptInside
<1>1. BalancerInvariant => SubscriptInside
  BY DEF BalancerInvariant, WeightedInvariant, RoundInside, WeightedInside, SubscriptInside,
     IndexInside, Weighted!ReadsInside
<1>. QED  BY <1>1, BalancerInvariantHolds, PTL

(* Every turn of a weighted balancer ends, with one request at a time and no  *)
(* negative weight: its counter does not go below zero.                       *)
THEOREM TurnsAreFinite == BalancerSpec => []TurnsEnd
<1>1. BalancerInvariant => TurnsEnd
  BY DEF BalancerInvariant, WeightedInvariant, RoundTypes, WeightedTurns, TurnsEnd,
     Weighted!TurnsEnd
<1>. QED  BY <1>1, BalancerInvariantHolds, PTL

(* The servers of a balancer get their share of the requests, as long as no   *)
(* other balancer of the type is asked and requests come one at a time: no    *)
(* more than one request apart in the one strategy, and no more than one turn *)
(* apart, as the weights have it, in the other.                               *)
THEOREM SharesAreFair == BalancerSpec => []FairShare
<1>1. BalancerInvariant => FairShare
  <2> SUFFICES ASSUME BalancerInvariant PROVE FairWhenAlone /\ Weighted!ProportionalToWeight
    BY DEF FairShare
  <2>1. CASE strategy = "round"
    <3>1. NoLists /\ RoundShares
      BY <2>1 DEF BalancerInvariant
    <3>2. Weighted!ProportionalToWeight
      BY <3>1, EmptySeq DEF Weighted!ProportionalToWeight, NoLists
    <3>. QED  BY <3>1, <3>2, RoundFair
  <2>2. CASE strategy = "weighted"
    <3>1. WeightedInvariant /\ NoSizes
      BY <2>2 DEF BalancerInvariant
    <3>2. FairWhenAlone
      BY <3>1 DEF FairWhenAlone, Fair, NoSizes
    <3>. QED  BY <3>1, <3>2, WeightedFair
  <2>. QED  BY <2>1, <2>2 DEF BalancerInvariant
<1>. QED  BY <1>1, BalancerInvariantHolds, PTL

LEMMA StuckStep ==
  ASSUME WeightedTypes, Weighted!Next, Weighted!Stuck
  PROVE  Weighted!Stuck' /\ currentIndex' = currentIndex
<1> USE DEF WeightedTypes, Weighted!Stuck, Weighted!Goto, Weighted!Keep, Weighted!statics,
            Weighted!history
<1>1. ASSUME NEW b \in Balancers, NEW s, Weighted!SetServers(b, s)
      PROVE  Weighted!Stuck' /\ currentIndex' = currentIndex
  BY <1>1 DEF Weighted!SetServers
<1>2. ASSUME NEW t \in Threads, NEW b \in Balancers, Weighted!Enter(t, b)
      PROVE  Weighted!Stuck' /\ currentIndex' = currentIndex
  BY <1>2 DEF Weighted!Enter
<1>3. ASSUME NEW t \in Threads, Weighted!Test(t)
      PROVE  Weighted!Stuck' /\ currentIndex' = currentIndex
  BY <1>3 DEF Weighted!Test
<1>4. ASSUME NEW t \in Threads, Weighted!Return(t)
      PROVE  Weighted!Stuck' /\ currentIndex' = currentIndex
  BY <1>4 DEF Weighted!Return
<1>5. ASSUME NEW t \in Threads
      PROVE  ~(\/ Weighted!Decrement(t) \/ Weighted!NextServer(t)
               \/ Weighted!Store(t) \/ Weighted!Reload(t))
  BY DEF Weighted!Decrement, Weighted!NextServer, Weighted!Store, Weighted!Reload
<1>. QED
  BY <1>1, <1>2, <1>3, <1>4, <1>5
     DEF Weighted!Next, Weighted!AddServer, Weighted!RemoveAllServers

(* Weighted balancers whose counter is below zero, and whose threads have all *)
(* seen it so, keep their index for ever.                                     *)
THEOREM StuckIsFinal == BalancerSpec => StuckForever
<1>1. BalancerInvariant /\ [BalancerNext]_balancerVars =>
        [Weighted!Stuck => Weighted!Stuck' /\ currentIndex' = currentIndex]_(Weighted!vars)
  <2> SUFFICES ASSUME BalancerInvariant, [BalancerNext]_balancerVars, Weighted!Stuck,
                      ~UNCHANGED Weighted!vars
               PROVE  Weighted!Stuck' /\ currentIndex' = currentIndex
    OBVIOUS
  <2>1. strategy # "round"
    BY DEF BalancerInvariant, RoundTypes, Weighted!Stuck
  <2>2. ~UNCHANGED balancerVars
    BY DEF balancerVars, vars, history, weightedVars, Weighted!vars, Weighted!statics,
       Weighted!history
  <2>3. WeightedTypes /\ Weighted!Next
    BY <2>1, <2>2 DEF BalancerInvariant, WeightedInvariant, BalancerNext
  <2>. QED  BY <2>3, StuckStep
<1>. QED
  BY <1>1, BalancerInvariantHolds, PTL DEF BalancerSpec, StuckForever, Weighted!Held
=============================================================================
