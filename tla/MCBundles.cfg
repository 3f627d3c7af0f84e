SPECIFICATION BundlesSpec
CONSTANTS
  Specs <- MCSpecs
  Defaults <- MCDefaults
  MaxBuilds = 2
INVARIANTS PanicsForUnknown TellsArchitecture NothingLost
CHECK_DEADLOCK FALSE
