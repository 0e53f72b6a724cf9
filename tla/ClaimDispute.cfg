\* One instant payment, one handler, MemStore, no fault.
SPECIFICATION Spec
CONSTANTS
  MaxInt = 9
  Intents = {p1}
  Threads = {t1}
  Rails = {"pix"}
  IntentAmounts = {3}
  RequestAmounts = {1, 2}
  SubmitAmounts = {}
  WebhookAmounts = {3}
  Cases = {c1}
  StoreKind = "mem"
  Faults = {}
  MaxFaults = 0
  RailLimit = 6
PROPERTY AcknowledgedDisputeMoves
CHECK_DEADLOCK FALSE
