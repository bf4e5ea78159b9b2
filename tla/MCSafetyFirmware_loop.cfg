SPECIFICATION Spec
CONSTANTS
    Wrap = 7
    HostTimeout = 2
    StatePeriod = 2
    MaxPass = 2
    Inputs = {"estop", "hot"}
    Payloads <- MCPayloads
INVARIANT PowerIsPermitted
INVARIANT SilentHostHasNoPower
INVARIANT SensedInputKeepsPowerOff
PROPERTY ImplementsMotorPower
