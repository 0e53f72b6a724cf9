\* Two replicas, two versions, two rails, two settings missing, one fault.
SPECIFICATION FairSpec
CONSTANTS
  Runners = {r1, r2}
  Latest = 2
  MaxFaults = 1
  Rails = {"card", "ach"}
  MaxMissing = 2
INVARIANTS
  TypeOK
  NoStandInsInProduction
  NoForeignSecret
  RecordedIsApplied
  ServesOnSchema
PROPERTY StartedServes
CHECK_DEADLOCK FALSE
