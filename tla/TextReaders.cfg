SPECIFICATION ReadersSpec
CONSTANTS
  Words <- MCWords
  Methods <- MCMethods
  Starts <- MCStarts
  Reason <- MCReason
  Keys <- MCKeys
  Values <- MCValues
  Contents <- MCContents
  Rank <- MCRank
  Number <- MCNumber
  MaxHops = 2
  Characters <- MCCharacters
  Nul = "0"
  Limit = 4
  MaxSize = 6
INVARIANTS RequestArrives RelayIsFaithful ResponseLosesNothing LinesAreFaithful
\* The last hop, and an exception, end a behaviour.
CHECK_DEADLOCK FALSE
