SPECIFICATION FairSpec
CONSTANTS
  None = None
  s1 = s1
  w1 = w1
  w2 = w2
  Slots = {s1}
  Workers = {w1, w2}
  MaxAttempts = 2
  MaxFaults = 2
INVARIANTS RunsInv
PROPERTIES EndedRunsStay NoDateIsForgotten
