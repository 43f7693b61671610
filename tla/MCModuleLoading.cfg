SPECIFICATION LoadingSpec
CONSTANTS
    Values = {"v1", "v2"}
    Empty = Empty
    ExtraKeys = {"k1", "k2"}
    PG_NAME = "postgres"
    SYSTEM_ID = "sysid"
    HOSTNAME = "host"
    OTEL_RESOURCE_ATTR_CAPACITY = 4
    OTEL_RA_ENV_MAX_PAIRS = 5
    Environments <- MCEnvironments
    Exporters = {x2, x1, newer}
    Units = {u1, log, other}
    LogUnits = {log}
    RootFits = {x2, x1, newer, u1, log}
    TableFits = {x2, x1, u1, log, other}
    NoHook = NoHook
INVARIANTS
    EveryExporterIsServed LookupsAreCurrent
PROPERTY
    ResourceIsResolved
