SPECIFICATION Spec
CONSTANTS
    MaxTicks = 2
    Backend = "sim"
    SaveFaults = {"open", "write", "crash"}
    FaultNames = {"overcurrent"}
INVARIANT PowerHeldByTask
INVARIANT ServicesGatePower
INVARIANT DrivesFollowContactor
INVARIANT EstopIsReported
INVARIANT ActiveOnlyInTask
PROPERTY PowerIsRemoved
PROPERTY EmergencyIsHeard
PROPERTY ThreadAdvances
