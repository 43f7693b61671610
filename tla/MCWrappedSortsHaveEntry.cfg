SPECIFICATION Spec
CONSTANTS
    Queries = {1, 2}
    Plans <- MCPlans
    OTEL_PLANSPANS_STACK_MAX = 2
    OTEL_FDW_SCAN_STACK_MAX = 2
    OTEL_PLANWALK_MAX_ANCESTORS = 2
    CORE_HOOKS = TRUE
    MAX_LEVEL = 2
    MAX_FRAMES = 2
    MAX_DEAD = 2
INVARIANT
    WrappedSortsHaveEntry
