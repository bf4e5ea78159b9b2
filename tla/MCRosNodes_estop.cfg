SPECIFICATION Spec
CONSTANTS
    MaxTicks = 1
    MaxGoals = 1
INVARIANTS
    EstopServiceStopsDroid
