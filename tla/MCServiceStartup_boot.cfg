SPECIFICATION ServicesSpec
CONSTANT MayFail <- MCMayFail
CHECK_DEADLOCK FALSE
INVARIANT FailuresAreListed
INVARIANT DependentsStopFirst
PROPERTY BootEnds
PROPERTY BootAdvances
