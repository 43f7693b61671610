SPECIFICATION SamplingSpec
CONSTANTS
    RANDOM_RANGE = 3
    MAX_SPANS = 2
INVARIANTS TreesAgree
