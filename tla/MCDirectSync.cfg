SPECIFICATION FairSpec
CONSTANTS
  n1 = n1
  n2 = n2
  deployment = deployment
  cronJob = cronJob
  web = web
  partial = partial
  bumped = bumped
  low = low
  Workloads <- MCWorkloads
  Kinds <- MCKinds
  Values <- MCValues
  StartCrs <- MCStartCrs
  OtherValues <- MCOtherValues
  Restless <- MCRestless
  Starts <- MCStarts
  OtherCrs <- MCOtherCrs
  Partial = partial
  Bumped = bumped
  Bare = bare
  Killed = killed
  NoData = noData
  NoEntry = noEntry
  AdoptForeign = {TRUE, FALSE}
  DryRun = FALSE
  MaxChanges = 1
  MaxFaults = 1
PROPERTIES DeletesOnlyTheGone FloorsSurvive ForeignStaysForeign SyncsConverge SyncsGoQuiet
