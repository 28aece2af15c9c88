SPECIFICATION FairSpec
CONSTANTS
    u1 = u1
    Payments = {p1}
    Users = {u1}
    UserOf <- OneUser
    Runs = {r1}
    Handlers = {h1, h2}
    Reasons = {price, Other}
    Other = Other
    Nothing = Nothing
    PingDelay = 1
    MaxAge = 2
    PingTtl = 2
    TextTtl = 1
    RunTime = 1
    LastCreation = 1
    MaxNow = 4
    MaxFaults = 2
INVARIANTS TypeOK AnswersAgree
PROPERTIES CanceledIsSurveyed ChecksEnd
\* When the queue is empty and the clock has ended nothing is left to do.
CHECK_DEADLOCK FALSE
