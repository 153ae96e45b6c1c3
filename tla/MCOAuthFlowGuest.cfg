SPECIFICATION Spec
CONSTANTS
    w1 = w1
    w2 = w2
    None = None
    Unreadable = Unreadable
    Refused = Refused
    Inconsistent = Inconsistent
    OnAzure = FALSE
    DevPrincipal <- Ada
    RequiredDomain = "princeton.edu"
    People <- Staff
    Guests <- Visiting
    Listed <- WithCyLee
    Mailboxes <- Posted
    Sites <- OverImap
    Labels = {}
    PersonalGmail = FALSE
    Workers = {w1, w2}
    StateMaxAge = 0
    FormMaxAge = 1
    MaxTime = 2
    MaxFlows = 0
    MaxCodes = 0
    MaxForms = 2
SYMMETRY WorkerSymmetry
INVARIANT ListedAreAdmitted
CHECK_DEADLOCK FALSE
