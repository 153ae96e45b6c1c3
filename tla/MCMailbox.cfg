SPECIFICATION Spec
CONSTANTS
    w1 = w1
    w2 = w2
    Workers = {w1, w2}
    Places = {"web", "cli"}
    SingleUse = TRUE
    Faults = {"fail", "restart"}
    NoRow = NoRow
    None = None
    MaxAccounts = 2
    MaxGrants = 3
    MaxRotations = 2
SYMMETRY WorkerSymmetry
INVARIANTS
    TypeOK
    CredentialMeansConnection
    StatusIsTrue
    ReconnectHelps
PROPERTIES
    RotationKept
    TokensOnlyAdvance
    HeadersForgotten
CHECK_DEADLOCK FALSE
