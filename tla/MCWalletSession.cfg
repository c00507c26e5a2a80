SPECIFICATION FairSessionSpec
CONSTANTS
    ann = ann
    bob = bob
    n1 = n1
    None = None
    Wallet = {ann, bob}
    Contract = {}
    WorldUser = {ann}
    Host = "kaia"
    Nonce = {n1}
    Query = {"points"}
    Account = {ann}
    ACCESS_TTL = 1
    REFRESH_TTL = 2
    MESSAGE_TTL = 1
    MAX_LIFETIME = 1
    Foreign <- MCForeign
    MaxNow = 2
    MaxBoots = 2
CHECK_DEADLOCK FALSE
INVARIANTS
    ClientFollowsSession
PROPERTIES
    SessionIsTraced
    NeverStuckLoading
