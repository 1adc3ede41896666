SPECIFICATION LiveSpec
CONSTANTS
    Workers = {w1, w2}
    Reminders = {r1}
    Admins = {a1}
    NoDelivery = NoDelivery
    BatchSize = 1
    Deferrals = {1}
    LateErrors = {"other"}
    MaxTime = 10
    MaxLead = 1
    MaxEvents = 2
    LastUserTime = 1
PROPERTIES
    EveryDeliverySettles
    EveryReminderResolves
    DeletionDrains
CHECK_DEADLOCK FALSE
