SPECIFICATION Spec
CONSTANTS
  Setups <- MCSetups
  Monitorings <- MCMonitorings
  Template <- MCTemplate
  Needs <- MCNeeds
  MiB = 2
  BumpsBeforeInvestigation = 2
  HistoryCap = 4
INVARIANTS SettingsResolve LimitsCoverRequests FloorInForce
PROPERTIES FloorSurvives KillsCountOnce CooldownKeeps ChangesCapped KillsRaiseLimit
