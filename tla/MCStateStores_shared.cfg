SPECIFICATION Spec
CONSTANTS
    Procs = {p1, p2}
    Names <- MCNames
    Defaults <- MCDefaults
    Queries <- MCQueries
    Hits <- MCHits
SYMMETRY ProcSymmetry
INVARIANTS
    StoresAreDurable
    PlaceMemoriesArePlaces
