SPECIFICATION FairSpec
CONSTANTS
    m1 = m1
    m2 = m2
    b1 = b1
    b2 = b2
    w1 = w1
    w2 = w2
    Workers = {w1, w2}
    Messages = {m1, m2}
    Mailboxes = {b1, b2}
    Silent = {b2}
    Home <- TwoHomes
    Pid <- OwnIds
    Texts = {"said"}
    Blank = Blank
    NoText = NoText
    NoRow = NoRow
    MaxItems = 3
    MaxAccounts = 2
    MaxTries = 2
    MaxParts = 1
    Faults = {"open", "fetch", "normalise", "crash"}
    Stuck <- SecondItems
INVARIANTS
    ArtifactsHaveBlobs
    TypeOK
    SubmittedIsComplete
PROPERTIES
    EarlierItemsAreCleanedUp
    Frozen
    KeepsPromise
    SubmissionsOverHttpEnd
