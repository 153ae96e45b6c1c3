SPECIFICATION Spec
CONSTANTS
    w1 = w1
    w2 = w2
    None = None
    Unreadable = Unreadable
    Refused = Refused
    Inconsistent = Inconsistent
    OnAzure = FALSE
    DevPrincipal <- Ada
    RequiredDomain = "princeton.edu"
    People <- Staff
    Guests <- Visiting
    Listed <- TheList
    Mailboxes <- Either
    Sites <- OneWay
    Labels <- TypedLabels
    PersonalGmail = TRUE
    Workers = {w1, w2}
    StateMaxAge = 0
    FormMaxAge = 1
    MaxTime = 2
    MaxFlows = 2
    MaxCodes = 2
    MaxForms = 1
SYMMETRY WorkerSymmetry
INVARIANTS
    TypeOK
    StartedByItsOwner
    OneRowPerMailbox
    LabelIsTheMailbox
    ActsForItsSender
    ListedAreAdmitted
CHECK_DEADLOCK FALSE
