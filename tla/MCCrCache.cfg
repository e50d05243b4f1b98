SPECIFICATION FairSpec
CONSTANTS
  c1 = c1
  c2 = c2
  r1 = r1
  r2 = r2
  CRs <- MCCRs
  Overrides <- MCOverrides
  Malformed = Malformed
  Absent = Absent
  ReadyClearAfterK = 3
  MaxWrites = 3
  MaxFaults = 2
INVARIANTS TypeOK IndexIsSnapshot ConsumerInStep
PROPERTIES Converges ImplementsReader
