\* One payment, two handlers, MemStore, no fault.
SPECIFICATION FairSpec
CONSTANTS
  MaxInt = 9
  Intents = {p1}
  Threads = {t1, t2}
  Rails = {"card", "pix"}
  IntentAmounts = {3}
  RequestAmounts = {1, 2}
  SubmitAmounts = {2}
  WebhookAmounts = {0, 3}
  Cases = {c1}
  StoreKind = "mem"
  Faults = {}
  MaxFaults = 0
  RailLimit = 6
INVARIANTS
  RowsMatchBooks
  AuditSound
  AuditComplete
  DisputeRecorded
PROPERTIES
  VoidIsFinalAtRail
  MoneyRecorded
CHECK_DEADLOCK FALSE
