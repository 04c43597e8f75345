SPECIFICATION Spec
CONSTANTS
  Null = Null
  mail = mail
  event = event
  request = request
  conflict = conflict
  draft = draft
  task = task
  Items = {mail, event}
  HomeOf <- MCHomeOf
  Scope = "google"
  Signals = {request, conflict}
  Proposals = {draft, task}
  RefsOf <- MCRefsOf
  Pools <- MCPools
  Confirmed = 1
  LastDay = 3
  ItemHorizon = 2
  ProposalHorizon = 3
  BatchSize = 1
  MaxCrashes = 1
  CountBound = 4
PROPERTY UnresolvedIsKept
CHECK_DEADLOCK FALSE
