SPECIFICATION Spec
CONSTANTS
  None = None
  google = google
  demo = demo
  p1 = p1
  p2 = p2
  AccountIds <- MCAccountIds
  GoogleAccount = google
  DemoAccount = demo
  Grants <- MCGrants
  TypeOf <- MCTypeOf
  Evidence <- MCEvidence
  Handlers = {h1}
  MaxConsents = 2
  Proposals = {p1}
  OldEvidence = {p1}
  Payloads = {y1, y2}
  Workers = {w1, w2}
  MaxVersion = 3
INVARIANTS TypeOK AtMostOneWrite WriteWasAgreedTo RecordIsTruthful ApprovalStands
PROPERTIES WriteUnderLiveAuthorisation FinalIsFinal
