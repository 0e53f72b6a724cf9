\* One payment, two handlers, a dispute, Postgres, every kind of fault.
SPECIFICATION Spec
CONSTANTS
  MaxInt = 9
  Intents = {p1}
  Threads = {t1, t2}
  Rails = {"card", "pix"}
  IntentAmounts = {3}
  RequestAmounts = {1, 2}
  SubmitAmounts = {1}
  WebhookAmounts = {0, 3}
  Cases = {c1}
  StoreKind = "postgres"
  Faults = {"reply_lost", "sql_error", "crash"}
  MaxFaults = 1
  RailLimit = 6
SYMMETRY ThreadSymmetry
INVARIANTS
  TypeOK
  BooksWithinRail
  CaptureDriftNeedsFault
  CaptureWithinAuthorization
  RefundWithinCapture
  BreakSurfaced
PROPERTIES
  LapsedMovesNoMoney
  LifecycleSpec
CHECK_DEADLOCK FALSE
