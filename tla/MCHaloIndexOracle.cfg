SPECIFICATION FairOracleSpec
CONSTANTS
    ann = ann
    bob = bob
    NoOne = NoOne
    Account <- MCAccount
    Refusing <- MCRefusing
    Series = {"fuel"}
    EpochNumber = {1}
    Values <- MCValues
    Wei = {0, 1, 2}
    Rates = {0, 1, 2}
    Windows = {0, 1, 2}
    Exposures = {0, 1}
    MaxU64 = 6
    MaxU256 = 3
    MaxNow = 6
CHECK_DEADLOCK FALSE
INVARIANTS
    ReopenedIsBlank
PROPERTIES
    DecisionsHold
    NoEpochStranded
