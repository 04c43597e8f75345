SPECIFICATION FairSpec
CONSTANTS
  None = None
  google = google
  demo = demo
  p1 = p1
  p2 = p2
  AccountIds <- MCAccountIds
  GoogleAccount = google
  DemoAccount = demo
  Grants <- FullGrant
  TypeOf <- MCTypeOf
  Evidence <- MCEvidence
  Handlers = {h1}
  MaxConsents = 1
  Proposals = {p1, p2}
  OldEvidence = {}
  Payloads = {y1}
  Workers = {w1}
  MaxVersion = 1
INVARIANTS SimulationNeverWrites
PROPERTIES OneSlotPerPass KeepsThePromise ExecutionsEnd
