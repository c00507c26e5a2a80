SPECIFICATION CorpusSpec
CONSTANTS
    ann = ann
    bob = bob
    cem = cem
    hal = hal
    b1 = b1
    nul = nul
    bread = bread
    rice = rice
    soap = soap
    mop = mop
    mart = mart
    NULL = nul
    Wording <- MCWording
    Wallet <- MCWallet
    Human = {hal}
    Paper <- MCPaper
    Backfill = {b1}
    MaxReceipts = 2
    MaxUnread = 1
    MaxDay = 2
    Currencies <- MCCurrencies
    MinObservations = 1
    MarketDays = 2
    ChangeDays = 1
    MonthStart <- MCMonthStart
    WindowDays = 1
    MinPeoplePerItem = 2
    MinPairs = 1
    MinOutlets = 1
    MinPeople = 2
    TrimOneIn = 3
CHECK_DEADLOCK FALSE
INVARIANTS
    ScreensAgree
    

    
