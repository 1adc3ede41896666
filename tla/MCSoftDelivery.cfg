SPECIFICATION EitherSpec
CONSTANTS
    Workers = {w1,w2}
    Reminders = {r1}
    Admins = {a1}
    NoDelivery = NoDelivery
    BatchSize = 1
    Deferrals = {1}
    LateErrors = {"other"}
    MaxTime = 3
    MaxLead = 1
    MaxEvents = 2
SYMMETRY Symmetry
INVARIANTS
    BuriedIsNeverMailed
PROPERTIES
    ImplementsLedger
CHECK_DEADLOCK FALSE
