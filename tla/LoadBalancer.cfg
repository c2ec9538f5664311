SPECIFICATION BalancerSpec
CONSTANTS
  Balancers = {b1, b2}
  Threads = {p1, p2}
  NoBalancer = NoBalancer
  Weights <- MCWeights
  MaxServers = 2
  MaxRequests = 4
SYMMETRY UserSymmetry
INVARIANTS SubscriptInside FairShare TurnsEnd
PROPERTIES StuckForever
\* The bound on the counters stops the system.
CHECK_DEADLOCK FALSE
