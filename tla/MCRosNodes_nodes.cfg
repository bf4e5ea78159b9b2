SPECIFICATION Spec
CONSTANTS
    MaxTicks = 1
    MaxGoals = 2
INVARIANTS
    PowerBelongsToDrive
    LaterNodesAreStopped
    TopicsTellOfStop
PROPERTIES
    EstopGoalIsServed
    ImplementsMotorPower
    EstopGoalNears
