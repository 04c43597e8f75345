SPECIFICATION FairSpec
CONSTANTS
  m1 = m1
  m2 = m2
  s1 = s1
  s2 = s2
  Feeds = {"gmail", "calendar"}
  Mailboxes = {m1}
  Syncs = {s1, s2}
  WindowPages = 1
  HistoryPages = 1
  MaxItems = 2
  MaxFaults = 1
  MaxGone = 1
CHECK_DEADLOCK FALSE
INVARIANTS CursorInv
PROPERTIES CommittedNeverGoesBack Converges
