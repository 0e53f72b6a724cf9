\* One event, Postgres, no fault.
SPECIFICATION Spec
CONSTANTS
  Payments = {p1}
  Events = {e1}
  Threads = {t1}
  Backends = {"postgres"}
  Faults = {}
  MaxFaults = 0
INVARIANT ProcessedOnce
CHECK_DEADLOCK FALSE
