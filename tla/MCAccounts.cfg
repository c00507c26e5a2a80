SPECIFICATION AccountsSpec
CONSTANTS
    q1 = q1
    q2 = q2
    k1 = k1
    k2 = k2
    NoOne = NoOne
    Wallet = {"ann"}
    Outsider = {"eve"}
    Receipt = {"r1", "r2"}
    Request <- MCTwoRequests
    Worth = {2}
    Award = {1}
    Grant <- MCGrant
    MaxDay = 1
    EntryCost = {1}
    SignKey <- MCTwoKeys
    Entry = {q1, q2}
    Round = {"d1", "d2"}
    Limit = 2
    Purse = 3
    NoData = NoData
    Deployer = {q1, q2}
    Signer = {k1, k2}
    NoRecord = NoRecord
    MaxScripts = 3
    MaxByHand = 1
    Run = {q1, q2}
    FarDays = 4
    NearDays = 2
    Ramp = 3
    BaseFee = 1
    MaxFee = 4
    MintAmount = 20
    SplitAmount = 5
    LiquidityAmount = 3
    SwapIn = 1
    MaxToday = 3
    MaxStrangers = 1
    Photo = {"x", "y", "z", "w"}
    Earlier <- MCEarlier
    FirstUpload = 4
    RECEIPT_PAGE_SIZE = 2
    Place = {"KR", "NG"}
    Printed <- MCPrinted
    From <- MCFrom
    Came <- MCCame
    Unread = Unread
    Hours = 2
    ZoneShift = 1
    MaxChanges = 3
    Tester <- MCTwoRequests
    Receipts = 3
    Step = 4
    MaxCalls = 2
    MaxPhotos = 1
SYMMETRY MCSymmetry
CHECK_DEADLOCK FALSE
INVARIANTS
    LedgerAddsUp
    ChainAddsUp
    
    ListsAreTrue
    TestDataAddsUp
    DeploymentsHold
