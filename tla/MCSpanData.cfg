CONSTANTS
    Keys = {k1, k2}
    Sizes = {1, 3}
    MAX_SPAN_BYTES = 17
    INLINE_ATTRS = 1
    ELEM_SIZE = 2
    MAX_CALLS = 5
SYMMETRY KeySymmetry
SPECIFICATION Spec
INVARIANTS BudgetHolds NothingLostSilently WorstErrorIsReported FailedSpansSayWhy
