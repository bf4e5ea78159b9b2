SPECIFICATION Spec
CONSTANTS
    Procs = {p1, p2}
    Bodies <- MCBodies
    Shipped <- MCShipped
    SystemDefaults <- MCSystemDefaults
    MaxSets = 2
    Paths <- MCPaths
    Setups <- MCSetups
    Kinds <- MCKinds
    YamlLoad <- Parse
    YamlDump <- Dump
    ConfigOf <- ConfigLoad
SYMMETRY ProcSymmetry
VIEW ReadableAndRight
CHECK_DEADLOCK FALSE
INVARIANTS
    ConfigIsAsWritten
    BootsAsSelected
    HardwareIsAskedFor
    WalkOnHardwareIsApproved
