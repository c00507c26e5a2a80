SPECIFICATION FairReceiptsSpec
CONSTANTS
    r1 = r1
    r2 = r2
    w1 = w1
    w2 = w2
    NoOne = NoOne
    NoDate = NoDate
    Receipt = {r1}
    Wallet = {"ann"}
    Worker <- MCTwoWorkers
    Purchase = {"noon"}
    QualityPoints = {2}
    REJECTED_RECEIPT_POINT = 1
    MAX_RETRIES = 1
    MAX_DELIVERY_ATTEMPTS = 2
    STALE = 1
    ABANDON = 2
    ABANDON_BATCH = 1
    REQUEUE_BATCH = 1
    MaxMessages = 3
    ann = ann
    bob = bob
    Nobody = Nobody
    User = {ann, bob}
    Chain = {"celo"}
    Platform <- MCPlatform
    Restricted = {}
    Typed = {"a@x", "a+1@x"}
    normalizeEmail <- MCNormalize
    AllowedEmail = {"a@x", "b@x"}
    OTP_EXPIRY = 2
    COOLDOWN = 1
    RATE_LIMIT_WINDOW = 2
    RATE_LIMIT_MAX_OTPS = 1
    MAX_OTP_ATTEMPTS = 2
    Visitor = ann
    MaxClock = 2
    MaxRows = 2
    MaxMishaps = 1
    MaxElsewhere <- MCElsewhere
    NULL = NULL
    Filed = {"good", "bad", "lost"}
    OnFile <- MCOnFile
    Row <- MCRow
    Reading <- MCReading
    Count = {0, 1}
    CONCURRENCY = 2
    MAX_SAMPLE = 3
    RECEIPT_QUALITY_THRESHOLD = 2
    MAX_RECEIPT_AGE_DAYS = 7
    MAX_TOTAL_AMOUNT = 9
    MaxWrites = 1
    Deed = {"ann", "points", "bob", "one", "two", "entry"}
    Earlier = {"bob", "one", "two", "entry"}
    What <- MCWhat
    Person = {ann, bob}
    PlatformOf <- MCPlatform
    PLATFORMS = {"celo", "world"}
    HISTORY_DAYS = 2
    RETENTION_DAYS = 2
    Ever = Ever
    NotYet = NotYet
    Ticks = 2
    MaxDay = 1
    MaxRewrites = 1
CHECK_DEADLOCK FALSE
INVARIANTS
    CreditFollowsVerdict
    
    ProbesHold
    ReportsAddUp
PROPERTIES
    NeverRescored
    PendingIsSettled
