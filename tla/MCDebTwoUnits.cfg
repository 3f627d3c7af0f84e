SPECIFICATION Spec
CONSTANTS
  Units <- TwoUnits
  Versions = {v1}
  NoVersion = none
  Hosts <- CompleteHost
INVARIANT EnabledByDefault
