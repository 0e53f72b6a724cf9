\* Two captures with one key, both stores, two faults.
SPECIFICATION KeyedSpec
CONSTANTS
  Callers = {c1, c2}
  Keys = {k1}
  Backends = {"redis", "mem"}
  TTL = 5
  MaxCall = 2
  Faults = {"store_fails", "response_lost", "crash", "panic"}
  MaxFaults = 2
  Amount = 2
  RequestAmounts = {1}
  BookFaults = {"reply_lost", "sql_error"}
INVARIANTS
  TypeOK
  ExclusiveHandler
  RailMovesOncePerTTL
  AnsweredIsBooked
PROPERTIES
  NoRunWhileAnswered
  OneRunPerTTL
  RetryAnswered
