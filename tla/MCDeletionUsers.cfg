SPECIFICATION LiveSpec
CONSTANTS
    RetentionPeriod = 1
    MaxTime = 1
    MaxEvents = 1
    Users = {a1, a2}
    AdminRequests = {q1, q2}
    Nobody = Nobody
    EnforcementCases = {}
    InsuranceCases = {}
    GeneralCases = {}
    Uploads = {}
    Sizes = {1, 2}
    MaxStorageBytes = 1
    MaxDocumentsPerCase = 1
    None = None
    Purgers = {p1}
    PurgeBatch = 1
INVARIANTS
    ActiveAdminRemains
    AnonymisedIsOut
PROPERTIES
    ExpiredUserIsErased
CHECK_DEADLOCK FALSE
