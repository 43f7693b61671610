SPECIFICATION Spec
CONSTANTS
    Ctx = {c1}
    None = None
    OTEL_STMT_STACK_MAX = 2
    MAX_LEVEL = 2
    MAX_FRAMES = 3
    Portals = {1}
    SPI_CURSORS = TRUE
    CTX_WITH_CURSORS = FALSE
    Spans = {1, 2, 3}
INVARIANTS
    EntriesAreLive RunningStatementsKeepEntry WorkersFindInnermost
    DetachedIffDeclared
PROPERTIES
    StatementSpansSurvive DrivesRootContext
CONSTRAINT InstanceBound
