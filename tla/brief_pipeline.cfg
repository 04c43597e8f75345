SPECIFICATION Spec
CONSTANTS
  Null = Null
  Catalog <- MCCatalog
  Pools <- MCPools
  Clock <- MCClock
  Claims <- MCClaims
  MaxClaims = 2
  SourceLimit = 2
  SignalLimit = 2
INVARIANTS HonestStatus ProposalsAreExplained SignalsInv
