\* Two settlements of one payment, two concurrent requests, both stores, every
\* kind of fault.
SPECIFICATION FairSpec
CONSTANTS
  Payments = {p1}
  Events = {e1, e2}
  Threads = {t1, t2}
  Backends = {"mem", "postgres"}
  Faults = {"sql_error", "crash"}
  MaxFaults = 2
INVARIANTS
  TypeOK
  MemProcessesOnce
  AckedLeavesNoneWaiting
PROPERTY RepeatedMovesOn
CHECK_DEADLOCK FALSE
