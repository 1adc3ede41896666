SPECIFICATION GeneralSpec
CONSTANTS
    Workers = {w1,w2}
    Reminders = {r1}
    Admins = {a1}
    NoDelivery = NoDelivery
    BatchSize = 1
    Deferrals = {1}
    LateErrors = {"other"}
    MaxTime = 5
    MaxLead = 1
    MaxEvents = 0
PROPERTIES
    FreshRejectionIsRetried
CHECK_DEADLOCK FALSE
