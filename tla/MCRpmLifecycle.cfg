SPECIFICATION Spec
CONSTANTS
  Versions = {v1, v2}
  NoVersion = none
  Hosts <- AllHosts
INVARIANTS EnabledByDefault EnabledMeansUp UpgradeIsComplete RemovedNotRunning
PROPERTY KeepsPolicy
