SPECIFICATION FairSpec
CONSTANTS
    MaxBackends = 2
    MAX_LIVES = 2
    MAX_SPANS = 2
PROPERTIES SlotsAreAtomic PublishCompletes
