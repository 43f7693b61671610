CONSTANTS
    Settings = {{}, {"query", "plan"}, {"txn", "query", "execute", "plan", "sort"}}
    SDT_STACK_SIZE = 2
    SORT_STACK_SIZE = 1
    MAX_LEVEL = 2
    MAX_FRAMES = 3
    MAX_SORTS = 1
    Spans = {s1, s2, s3}
SYMMETRY SpanSymmetry
SPECIFICATION Spec
INVARIANTS DoneProbesStayEnabled EntriesFollowNesting OpenSpansAreTracked
