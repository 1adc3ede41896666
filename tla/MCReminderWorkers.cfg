SPECIFICATION CrewSpec
CONSTANTS
    Workers = {w1,w2}
    Reminders = {r1}
    Admins = {a1,a2}
    NoDelivery = NoDelivery
    BatchSize = 1
    Deferrals = {1}
    LateErrors = {"other"}
    MaxTime = 4
    MaxLead = 1
    MaxEvents = 2
    PairMaxTime = 2
    PairMaxEvents = 1
SYMMETRY Symmetry
INVARIANTS
    AtMostOneMail
    AtMostThreeAttempts
    FreshClaimKept
    NoMailBeforeDue
    CancelledIsQuiet
    StatusAgrees
PROPERTIES
    RecipientsAreFixed
    ImplementsLedger
CHECK_DEADLOCK FALSE
