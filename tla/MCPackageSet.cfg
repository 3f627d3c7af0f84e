SPECIFICATION Spec
CONSTANTS
  Hosts <- MCHosts
  Foreign <- MCForeign
INVARIANTS NeedsDoNotConflict RunningIsInstalled
PROPERTIES BystandersStay EngineComesUp
