SPECIFICATION Spec
CONSTANTS
  alice = alice
  admins = admins
  read = read
  write = write
  table = table
  Proxies = {x1, x2}
  Documents <- MCDocuments
  Requests <- MCRequests
  Servers <- MCServers
INVARIANTS NoDanglingPredicate ReadyMeansMigrated AuthorizedMeansGranted
