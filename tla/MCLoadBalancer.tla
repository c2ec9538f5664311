---------------------------- MODULE MCLoadBalancer ----------------------------
(* LoadBalancer with two threads and two balancers of one strategy, with      *)
(* small weights, zero and a negative one among them.                         *)
EXTENDS LoadBalancer, TLC

MCWeights == {-1, 0, 1, 2}
UserSymmetry == Permutations(Balancers) \union Permutations(Threads)
=============================================================================
