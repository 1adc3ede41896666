SPECIFICATION WebSpec
CONSTANTS
    Nothing = Nothing
    a1 = a1
    a2 = a2
    b1 = b1
    b2 = b2
    c1 = c1
    c2 = c2
    Parts = {"amounts"}
    MaxOpened <- OpenedAtMost
    MaxMishaps <- MishapsAtMost
    MaxTogether <- TogetherAtMost
    Files = {a1, a2}
    Pages = {b1, b2}
    Calls = {c1, c2}
    Contents <- FormContents
    Attachments <- OneAttachment
    Claims = {a1, a2}
    Windows = {b1, b2}
    Requests = {c1, c2}
    Generals = {"g1", "g2"}
    PaymentLists = {"l1", "l2"}
    ApplicationNo <- ApplicationNumbers
    Enclosures <- OneAttachment
    Users = {"u1", "u2"}
    Admins = {}
    Entries = {c1, c2}
    Amounts = {1, 2}
    NoteTexts = {"n"}
    Drafts <- SomeDrafts
    Beginnings <- SomeBeginnings
    Stages = {"CASE_OPENING", "CLOSED"}
    Texts <- SomeTexts
    MaxMoney = 150000000
    MaxTyped = 20
    Inputs <- SomeInputs
    Mails = {b1, b2}
    Recipients = {"r1", "r2"}
    Everyone = "everyone"
    Cooldown = 1
    Hour = 1
    Day = 2
    Jobs <- SomeJobs
    Allowance <- SmallAllowance
    SendingTime = 1
    MaxTime = 5
    Creators = {b1, b2}
    Subjects = {a1, a2}
    Hourly = 1
    Daily = 2
    InAll = 3
    LongHour = 1
    LongDay = 2
    MaxNow = 5
    Passwords = {a1, a2}
    Changes = {b1, b2}
    MaxChosen = 3
    Uploads = {b1, b2}
    MaxRequests = 3
    Queries = {"", "34"}
    Fetches = {1, 2}
    MaxRows = 2
    Items = {c1, c2}
    Panels = {"payments", "notifications", "notes"}
    Bodies = {"x", "y"}
    Asks = {b1, b2}
SYMMETRY Symmetry
INVARIANT AmountReadIsStored
CHECK_DEADLOCK FALSE
