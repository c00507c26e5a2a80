SPECIFICATION ScreensSpec
CONSTANTS
    Nothing = Nothing
    Shot = {s1, s2}
    DAILY_UPLOAD_LIMIT = 1
    WEEKLY_POINT_ELIGIBLE_LIMIT = 1
    POLL_LIMIT = 2
    FirstWeekday = 6
    MaxDay = 1
    MaxMounts = 2
    MaxTokens = 2
    Paper = {p1}
    Host = {"world", "celo"}
    LastDate = 1
    MaxTaps = 2
    MaxOpens = 2
    MaxOthers = 1
CHECK_DEADLOCK FALSE
INVARIANTS
    UploadsAddUp
    NothingIsLeftOn
    
PROPERTIES
    NothingWaitsForEver
