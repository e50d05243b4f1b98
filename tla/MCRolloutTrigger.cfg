SPECIFICATION FairSpec
CONSTANTS
  cr1 = cr1
  cr2 = cr2
  w1 = w1
  w2 = w2
  r1 = r1
  CRs <- MCCRs
  Workloads <- MCWorkloads
  OptedIn <- MCWorkloads
  Surging <- OneWorkload
  Resources <- MCResources
  Overrides <- MCOverrides
  Backoff <- MCBackoff
  Absent = Absent
  Unknown = Unknown
  NoEntry = NoEntry
  Debounce = 1
  MaxConcurrent = 1
  MinInterval = 1
  RolloutTimeout = 2
  PatchMaxAttempts = 2
  ReadErrorsBeforeRelease = 2
  LostReplies = FALSE
  MaxEvents = 3
CHECK_DEADLOCK FALSE
INVARIANTS TypeOK LimitNotOverspent UpdatesBounded OnlyPoppedOutlive
PROPERTIES RestartsAreSpaced EveryEntrySettles
