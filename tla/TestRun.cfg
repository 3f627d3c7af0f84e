SPECIFICATION Spec
CONSTANTS
  Files = 2
  Cases = 2
INVARIANTS PassMeansInstalled PassMeansTested
PROPERTIES RunEnds
CHECK_DEADLOCK FALSE
