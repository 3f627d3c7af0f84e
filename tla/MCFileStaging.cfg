SPECIFICATION Spec
CONSTANT Jobs <- MCJobs
INVARIANTS LayoutAsDeclared NothingMissing DebShipsBinaries ShippedDoNotInterfere NoFileConflict
\* A build stops when it is done or has failed.
CHECK_DEADLOCK FALSE
