SPECIFICATION Spec
CONSTANTS
    Invocations = {c1, c2, c3}
    Actions <- MCActions
    CapSets <- MCCapSets
SYMMETRY CallSymmetry
INVARIANT NothingRunsUnrecorded
INVARIANT TrailIsTruthful
