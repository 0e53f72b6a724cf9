\* Two calls with one key, Redis, a client that goes away once.
SPECIFICATION Spec
CONSTANTS
  Callers = {c1, c2}
  Keys = {k1}
  Backends = {"redis"}
  TTL = 5
  MaxCall = 2
  Faults = {"response_lost"}
  MaxFaults = 1
INVARIANT KeptForReplay
