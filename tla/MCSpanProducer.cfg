CONSTANTS
    MAX_OPEN_SPANS = 2
    MAX_SESSION_SPANS = 1
    MAX_STACK_DEPTH = 2
    GEN_MASK = 2
    SEEDS = {1}
    MAX_LEVEL = 2
SPECIFICATION FairSpec
INVARIANTS
    IInv
    OwnersRemember
    NoSpanOrphaned
    CountersAddUp
PROPERTIES
    UnwindSparesActivated
    ImplementsContract
    CallsReturn
