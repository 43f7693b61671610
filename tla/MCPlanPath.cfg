SPECIFICATION Spec
CONSTANTS
    SampleNodes <- MCNodes
    N_SLOWEST = 3
    MISESTIMATE_THRESHOLD = 10
    MAX_NODES = 4
INVARIANTS
    RollupIsOwn SlowestAreRanked
