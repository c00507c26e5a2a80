SPECIFICATION FairVaultSpec
CONSTANTS
    ann = ann
    bob = bob
    NoOne = NoOne
    Account = {ann}
    Refusing = {}
    Series = {"fuel"}
    EpochNumber = {1, 2}
    Values = {1}
    Wei = {2}
    Rates = {1}
    Windows = {1, 2}
    Exposures = {}
    MaxU64 = 3
    MaxU256 = 100
    MaxNow = 3
    Market <- MCTwoMarkets
    Amounts = {1}
    WAD = 4
    MaxVault = 2
CHECK_DEADLOCK FALSE
INVARIANTS
    PotsAddUp
    BondCoversInterest

    
