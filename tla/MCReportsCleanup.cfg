SPECIFICATION Spec
CONSTANTS
    m1 = m1
    m2 = m2
    b1 = b1
    b2 = b2
    w1 = w1
    w2 = w2
    Workers = {w1}
    Messages = {m1, m2}
    Mailboxes = {b1, b2}
    Silent = {b2}
    Home <- TwoHomes
    Pid <- OwnIds
    Texts = {"said"}
    Blank = Blank
    NoText = NoText
    NoRow = NoRow
    MaxItems = 2
    MaxAccounts = 2
    MaxTries = 2
    MaxParts = 2
    Faults = {"open", "fetch", "normalise", "crash"}
    Stuck = {}
PROPERTIES
    FailureCleansUp
