SPECIFICATION FairSpec
CONSTANTS
  w1 = w1
  w2 = w2
  Proposals = {1, 2}
  Signoffs = {1, 2}
  Workers = {w1, w2}
  RescanLimit = 2
  MaxClock = 1
  MaxApprovals = 2
  MaxRuns = 2
CHECK_DEADLOCK FALSE
INVARIANTS OnlyConsentedSignoffs MemoryInv RecomputeSettles
PROPERTIES StaleCandidatesExpire
