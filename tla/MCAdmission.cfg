SPECIFICATION FairSpec
CONSTANTS
  a = a
  b = b
  main = main
  side = side
  gpu = gpu
  x = x
  y = y
  calm = calm
  CRs <- MCCRs
  Containers <- MCContainers
  None = None
  Absent = Absent
  Objects <- MCObjects
  Pods <- MCPods
  SkipKey = "skip"
  Extended <- MCExtended
  MaxWrites = 2
  MaxReviews = 2
  MaxTrouble = 1
  MaxAdmissions = 2
  MaxFailures = 1
INVARIANTS PatchesFit OneClaim StampsAreTrue
PROPERTIES StampsSettle
