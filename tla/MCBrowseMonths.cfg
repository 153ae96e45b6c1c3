SPECIFICATION Spec
CONSTANTS
    w1 = w1
    a1 = a1
    receipt = receipt
    offer = offer
    whole = whole
    narrowed = narrowed
    Workers <- OneWorker
    Accounts <- OneAccount
    Messages <- TwoMessages
    Filters <- TwoFilters
    NoFilter = whole
    None = None
    Signals <- TheirSignals
    Matches <- HeadersMatching
    FoundByGmail <- EverythingFound
    Delay <- SentEarly
    Zone = 1
    Sites <- TheSites
    Periods <- TheMonths
    Limit = 1
    CliLimits = {2}
    PageSize = 1
    Attempts = 2
    Window = 2
    DayTicks = 2
    Ttl = 1
    MaxEntries = 2
    MaxTime = 1
    MaxChanges <- Changes
INVARIANT PagesAreWhole
CHECK_DEADLOCK FALSE
