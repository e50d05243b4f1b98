SPECIFICATION FairSpec
CONSTANTS
  a1 = a1
  a2 = a2
  b1 = b1
  n1 = n1
  n2 = n2
  first = first
  second = second
  early = early
  Workloads = {a1, a2, b1}
  deployment = deployment
  cronJob = cronJob
  Ns <- MCNs
  Kind <- MCKind
  Values = {first, second}
  Stamps = {early}
  NoDoc = noDoc
  NoBranch = noBranch
  Broken = broken
  Remotes <- MCRemotes
  Reviewers = TRUE
  Starts <- MCStarts
  StartDocs <- MCStartDocs
  Restless = {a1}
  MaxChanges = 0
  MaxFaults = 1
PROPERTY MissingIsNotGone
CHECK_DEADLOCK FALSE
