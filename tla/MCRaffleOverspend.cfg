SPECIFICATION PrizesSpec
CONSTANTS
    q1 = q1
    q2 = q2
    ann = ann
    bob = bob
    NoOne = NoOne
    Wallet <- MCTwoWallets
    Receipt = {}
    Request <- MCTwoRequests
    Worth = {0}
    Award = {}
    Grant = {}
    MaxDay = 1
    Tiers <- MCOneTier
    Count = {2}
    Purse = 2
    Runner = {"cron"}
    Trigger = {}
    LinkService = TRUE
    MaxPools = 4
    MaxByHand = 1
    p1 = p1
    p2 = p2
    p3 = p3
    Operator <- MCTwoRequests
    Pool = {p1, p2, p3}
    DateOf <- MCDates
    Winner <- MCTwoWallets
    NoWinner = "none"
    MaxTransfers = 2
    MaxListings = 3
    MaxBlocked = 1
SYMMETRY MCSymmetry
CHECK_DEADLOCK FALSE
INVARIANTS
    SpentIsCovered
