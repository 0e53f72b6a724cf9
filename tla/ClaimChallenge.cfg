\* One card payment, one handler, Postgres, no fault.
SPECIFICATION Spec
CONSTANTS
  MaxInt = 9
  Intents = {p1}
  Threads = {t1}
  Rails = {"card"}
  IntentAmounts = {3}
  RequestAmounts = {1, 2}
  SubmitAmounts = {}
  WebhookAmounts = {3}
  Cases = {}
  StoreKind = "postgres"
  Faults = {}
  MaxFaults = 0
  RailLimit = 6
INVARIANT ChallengeFailureSticks
CHECK_DEADLOCK FALSE
