SPECIFICATION FairSpec
CONSTANTS
  t1 = t1
  t2 = t2
  h1 = h1
  h2 = h2
  Null = Null
  Accounts = {1, 2}
  Tokens = {t1, t2}
  Handlers = {h1}
  BatchSize = 1
  Stranded = {1}
CHECK_DEADLOCK FALSE
INVARIANTS KeysInv
PROPERTIES RotationKeepsTokens LegacyKeysMigrate
