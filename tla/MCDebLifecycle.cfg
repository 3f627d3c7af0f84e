SPECIFICATION Spec
CONSTANTS
  Units <- OneUnit
  Versions = {v1, v2}
  NoVersion = none
  Hosts <- AllHosts
INVARIANTS TypeOK NoStaleMask DisableSurvives EnabledByDefault EnabledMeansUp
  RemovedNotRunning PurgeLeavesNothing
PROPERTIES UpgradeIsComplete KeepsPolicy
