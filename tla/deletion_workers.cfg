SPECIFICATION FairSpec
CONSTANTS
  o1 = o1
  o2 = o2
  h1 = h1
  h2 = h2
  w1 = w1
  w2 = w2
  p = p
  q = q
  None = None
  Ops <- OneOp
  Handlers <- OneHandler
  Workers <- TwoWorkers
  Plans <- OnePlan
  Scopes = {"account", "imported", "retention"}
  MaxAttempts = 2
  Batches = 1
  MaxVersion = 2
  MaxFaults = 2
  TimeoutCoversJob = TRUE
CHECK_DEADLOCK FALSE
INVARIANTS DeletionInv
PROPERTIES ProgressIsKept OperationsMoveOn
