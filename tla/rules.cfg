SPECIFICATION RulesSpec
CONSTANTS
  Null = Null
  Absent = Absent
  SentDays <- MCSentDays
  DueTexts <- MCRealDueTexts
  Requests <- MCRequests
  References <- MCReferences
  Zones <- MCZones
  BriefingTimes <- MCBriefingTimes
  Ticks <- MCTicks
  Reads <- MCReads
  Drafts <- MCDrafts
  Events <- MCEvents
  Policies <- MCPolicies
  Arrivals <- MCArrivals
CHECK_DEADLOCK FALSE
INVARIANTS DueIsTheFirstDayMeant PreparedEventIsStated BriefingIsTheFirstInstant CallsInv BudgetsHold
