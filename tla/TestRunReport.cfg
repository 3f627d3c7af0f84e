SPECIFICATION Spec
CONSTANTS
  Files = 1
  Cases = 1
INVARIANTS ExitCodePickedUp
CHECK_DEADLOCK FALSE
