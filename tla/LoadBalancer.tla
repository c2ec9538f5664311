----------------------------- MODULE LoadBalancer -----------------------------
(* load_balancer/LoadBalancer.h: requestServer hands the vector of servers to *)
(* the strategy the balancer was constructed with.  RandomStrategy keeps      *)
(* nothing and is left out.  The statics and threads are those of the         *)
(* selectServer in use; what only the other strategy has stays as it is.      *)
EXTENDS RoundRobin, Sequences

CONSTANTS Weights   \* weights a WeightedItem is given

ASSUME WeightsAssumption == Weights \subseteq Int

VARIABLES
  strategy,  \* "round" or "weighted"
  servers, weight, owner, strayed, misused   \* of WeightedRoundRobin

Weighted == INSTANCE WeightedRoundRobin

weightedVars == <<servers, weight, owner, strayed, misused>>
balancerVars == <<strategy, vars, weightedVars>>

BalancerInit == strategy \in {"round", "weighted"} /\ Init /\ Weighted!Init

BalancerNext ==
  \/ strategy = "round" /\ Next /\ UNCHANGED <<strategy, weightedVars>>
  \/ strategy = "weighted" /\ Weighted!Next /\ UNCHANGED <<strategy, size>>

BalancerSpec == BalancerInit /\ [][BalancerNext]_balancerVars
-----------------------------------------------------------------------------
(* No request reads outside its vector of servers, but for what the statics   *)
(* of each strategy bring about: two balancers asked at once and, with        *)
(* weights, a request in the turn of another list.                            *)
SubscriptInside ==
  IF strategy = "round" THEN IndexInside ELSE Weighted!ReadsInside

(* Whichever strategy a balancer has, its servers get their share of the      *)
(* requests on the terms the strategy sets: see both modules.                 *)
FairShare == FairWhenAlone /\ Weighted!ProportionalToWeight

(* Weighted balancers get stuck on an index only after two threads have been  *)
(* in selectServer at once, or with a negative weight.                        *)
TurnsEnd == Weighted!TurnsEnd

(* Then they stay there: no request, of whatever balancer, and no other list  *)
(* of servers moves the index again.                                          *)
StuckForever == Weighted!Held
=============================================================================
