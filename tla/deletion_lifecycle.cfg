SPECIFICATION Spec
CONSTANTS
  o1 = o1
  o2 = o2
  h1 = h1
  h2 = h2
  w1 = w1
  w2 = w2
  p = p
  q = q
  None = None
  Ops <- OneOp
  Handlers <- TwoHandlers
  Workers <- OneWorker
  Plans <- TwoPlans
  Scopes = {"account"}
  MaxAttempts = 1
  Batches = 0
  MaxVersion = 2
  MaxFaults = 1
  TimeoutCoversJob = TRUE
SYMMETRY Interchangeable
CHECK_DEADLOCK FALSE
PROPERTY DecisionsStand
