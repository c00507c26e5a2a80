SPECIFICATION OutsideSpec
CONSTANTS
    NoOne = NoOne
    Account = {"ann", "manager"}
    Refusing = {}
    Series = {"fuel"}
    EpochNumber = {1}
    Values <- MCValues
    Wei = {0}
    Rates = {}
    Windows = {1, 2}
    Exposures = {0}
    MaxU64 = 4
    MaxU256 = 100
    MaxNow = 4
    Market <- MCMarket
    Amounts = {1, 2}
    WAD = 2
    MaxVault = 2
    Pool <- MCPool
    NoMarket = NoMarket
    PoolManager = "manager"
    Dollars = Dollars
    BASE_FEE = 1
    MAX_FEE = 5
    RAMP = 3
    BACKSTOP_FEE = 1
    MAX_LP_FEE = 2
    MaxDollars = 2
    Name <- MCNames
    Reader = {"reader"}
    Gateway = {"g1"}
    SignerKey = {"s1", "s2"}
    Figure = {1, 2}
    Absent = Absent
    TTL_SECONDS = 1
    MaxSigned = 1
    MaxMoves = 1
    MaxOrders = 1
CHECK_DEADLOCK FALSE
INVARIANTS
    BackstopIsHeld
    
PROPERTIES
    FeeNeverFalls
    BookStandsWhileFrozen
