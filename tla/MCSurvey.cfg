SPECIFICATION Spec
CONSTANTS
    u1 = u1
    Payments = {p1, p2}
    Users = {u1}
    UserOf <- OneUser
    Runs = {r1, r2}
    Handlers = {}
    Reasons = {price, Other}
    Other = Other
    Nothing = Nothing
    PingDelay = 1
    MaxAge = 2
    PingTtl = 2
    TextTtl = 1
    RunTime = 1
    LastCreation = 0
    MaxNow = 3
    MaxFaults = 1
SYMMETRY Symmetry
INVARIANTS SurveyedOnce PingedOnce NothingForgotten
\* When the queue is empty and the clock has ended nothing is left to do.
CHECK_DEADLOCK FALSE
