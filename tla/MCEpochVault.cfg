SPECIFICATION VaultSpec
CONSTANTS
    ann = ann
    bob = bob
    NoOne = NoOne
    Account <- MCAccount
    Refusing = {}
    Series = {"fuel"}
    EpochNumber = {1}
    Values <- MCValues
    Wei = {2, 6}
    Rates = {1}
    Windows = {1, 2}
    Exposures = {}
    MaxU64 = 3
    MaxU256 = 100
    MaxNow = 3
    Market <- MCOneMarket
    Amounts = {1, 2}
    WAD = 4
    MaxVault = 3
SYMMETRY MCSymmetry
CHECK_DEADLOCK FALSE
INVARIANTS
    CoversItsClaims
    EveryClaimIsPaid
    SettledAsDecided
PROPERTIES
    ImplementsEscrow
