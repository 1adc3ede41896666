SPECIFICATION Spec
CONSTANTS
    RetentionPeriod = 1
    MaxTime = 1
    MaxEvents = 2
    Users = {}
    AdminRequests = {}
    Nobody = Nobody
    EnforcementCases = {c1}
    InsuranceCases = {}
    GeneralCases = {g1}
    Uploads = {u1, u2}
    Sizes = {1, 2}
    MaxStorageBytes = 2
    MaxDocumentsPerCase = 1
    None = None
    Purgers = {p1, p2}
    PurgeBatch = 1
SYMMETRY Symmetry
INVARIANTS
    NoOrphanFile
    RowKeepsFile
    CommittedWithinQuota
PROPERTIES
    OnlyExpiredAreDeleted
CHECK_DEADLOCK FALSE
