SPECIFICATION Spec
CONSTANTS
  Setups <- GitopsOnly
  Monitorings <- MCMonitorings
  Template <- MCTemplate
  Needs <- MCNeeds
  MiB = 2
  BumpsBeforeInvestigation = 2
  HistoryCap = 4
PROPERTY FloorSurvives
