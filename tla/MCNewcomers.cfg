SPECIFICATION Spec
CONSTANTS
    p1 = p1
    u1 = u1
    e1 = e1
    m1 = m1
    m2 = m2
    s1 = s1
    s2 = s2
    People = {p1}
    Slots = {s1, s2}
    Nobody = Nobody
    NoCopy = NoCopy
    Houses <- MCHouses
    Users = {u1}
    Members = {m1, m2}
    UserOf <- MCUserOf
    Sweeps = {s1, s2}
    NoMember = NoMember
    MaxSweepFaults = 1
    MaxChanges = 1
    Units = {e1}
    Requests = {s1, s2}
    Configs <- MCConfigs
    Configured = TRUE
    TrialEnabled = TRUE
    TrialOnWeight = 80
    Enrolled <- MCEnrolled
    LocalBucket <- MCLocalBucket
    Payload <- MCPayload
    MaxNow = 1
    MaxRequests = 2
    MaxPublications = 1
    MaxFailures = 1
    Scale = 10000
    Hash <- MCHash
    Absent = Absent
SYMMETRY Alike
INVARIANTS
    TypeOK
    AdmittedOnly
    InviteKept
    BetaToldIsBeta
    RemindedOnce
    RemindersKept
    CountedAsServed
    ConversionsExposed
    CoverageSticky
CHECK_DEADLOCK FALSE
