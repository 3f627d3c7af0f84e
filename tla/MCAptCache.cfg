SPECIFICATION Spec
CONSTANTS
  Execs <- MCExecs
  Installs <- MCInstalls
  Needs <- MCNeeds
  Volumes <- MCVolumes
  Cache <- MCCache
  Lib <- MCLib
  NoOne = none
INVARIANTS TypeOK OneAtATime InstallsFromFreshLists
PROPERTY EveryExecEnds
