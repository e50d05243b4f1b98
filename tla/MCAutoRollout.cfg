SPECIFICATION FairSpec
CONSTANTS
  cr1 = cr1
  w1 = w1
  r1 = r1
  r2 = r2
  CRs <- OneCR
  Workloads <- OneWorkload
  OptedIn <- OneWorkload
  Surging <- OneWorkload
  Resources <- MCResources
  Overrides <- MCOverrides
  Backoff <- MCBackoff
  Malformed = Malformed
  Absent = Absent
  Unknown = Unknown
  NoEntry = NoEntry
  ReadyClearAfterK = 2
  MaxWrites = 2
  MaxFaults = 2
  Debounce = 1
  MaxConcurrent = 1
  MinInterval = 0
  RolloutTimeout = 1
  PatchMaxAttempts = 3
  ReadErrorsBeforeRelease = 1
  LostReplies = FALSE
  MaxEvents = 12
  FaultSets = {{"outage"}, {"outage", "list", "patch", "crash"}}
CHECK_DEADLOCK FALSE
INVARIANTS KnownIsIndex ReplaysRestartNothing
PROPERTY PodsConverge
