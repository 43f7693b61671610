CONSTANTS
    StmtIds = {i1, i2, i3}
    MAX_LEVEL = 3
    MAX_FRAMES = 5
    Spans = {1, 2, 3, 4, 5, 6}
SYMMETRY StmtSymmetry
SPECIFICATION Spec
INVARIANTS RegistryExact EndsInnermostFirst RunningSpansStayOpen NothingLeaks
