SPECIFICATION Spec
CONSTANTS
    Procs = {p1, p2}
    Versions <- MCVersions
    Base = "v1"
    SaveFaults = {"open", "write", "crash"}
SYMMETRY ProcSymmetry
VIEW FollowedCopies
INVARIANT FileIsSound
