SPECIFICATION Spec
CONSTANTS
    m1 = m1
    m2 = m2
    m3 = m3
    p1 = p1
    p2 = p2
    Messages = {m1, m2, m3}
    Parts = {p1, p2}
    AttachmentsOf <- Attached
    Nothing = Nothing
    Shapes = {"literal"}
    Limit = 2
    MaxUid = 3
    MaxEpoch = 2
SYMMETRY Symmetric
INVARIANT EvidenceIsTheMessage
CHECK_DEADLOCK FALSE
