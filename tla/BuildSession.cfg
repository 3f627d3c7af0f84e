SPECIFICATION Spec
INVARIANTS TypeOK StampedUnlessEngineFault ExitStatusTellsOutput InterruptKeepsOutput
PROPERTY KeepsPromise
\* The process ends.
CHECK_DEADLOCK FALSE
