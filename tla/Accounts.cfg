\* Two starts that share a browser, three purchases, one crash.
SPECIFICATION FairSpec
CONSTANTS
    r1 = r1  r2 = r2  monthly = monthly  yearly = yearly
    User = {"ann"}
    Key = {"browser", "first", "second"}
    Request = {r1, r2}
    UserOf <- MCUserOf
    KeysOf <- MCKeysOf
    Plan = {monthly, yearly}
    Months <- MCMonths
    Retention <- MCRetention
    FreeUses = 1
    Window = 1
    Late = 2
    MaxCalls = 3
    Horizon = 3
    MaxCrashes = 1
INVARIANTS
    FreeUsesHold
    NoPaidTimeLost
    MailsOnce
    OfferedFilesExist
PROPERTIES
    RetentionKept
    ExpiredEntriesGo
CHECK_DEADLOCK FALSE
