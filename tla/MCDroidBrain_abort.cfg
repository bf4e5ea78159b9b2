SPECIFICATION Spec
CONSTANTS
    MaxTicks = 2
    Backend = "canfd"
    SaveFaults = {}
    FaultNames = {"overcurrent"}
INVARIANT PowerHeldByTask
