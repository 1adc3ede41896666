SPECIFICATION CrewSpec
CONSTANTS
    Workers = {w1}
    Reminders = {r1}
    Admins = {a1}
    NoDelivery = NoDelivery
    BatchSize = 1
    Deferrals = {1}
    LateErrors = {"other"}
    MaxTime = 1
    MaxLead = 1
    MaxEvents = 1
    PairMaxTime = 0
    PairMaxEvents = 0
PROPERTIES
    DoubtIsRecorded
CHECK_DEADLOCK FALSE
