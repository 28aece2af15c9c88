SPECIFICATION Spec
CONSTANTS
    u1 = u1
    a1 = a1
    d1 = d1
    d2 = d2
    l1 = l1
    l2 = l2
    g1 = g1
    g2 = g2
    f1 = f1
    f2 = f2
    None = None
    Users = {u1, a1}
    Jobs = {d1, d2, l1, l2, g1, g2, f1, f2}
    Desks = {d1, d2}
    Runs = {l1, l2}
    Givers = {g1, g2}
    Loyal = {u1}
    Flushers = {f1, f2}
    Subs = {1, 2, 3}
    MaxAccounts = 3
    Writes <- MCWrites
    Today = 5
    MaxFaults = 1
    Actor <- MCActor
    Target <- MCTarget
    Owner = a1
    Payers = {u1}
    PlanDays = 2
    PlanLimit = 1
    Values = {0, 1}
    Deltas <- MCDeltas
    Sums <- MCSums
    Rates = {0, 1}
    MaxEdits = 2
    Rewards = {"r1", "r2"}
    Winner = u1
    RewardOf <- MCRewardOf
    Kind <- MCKind
    Amount <- MCAmount
    LoyaltyDays = 2
    LoyaltyDiscount = 1
    Start <- MCStart
CHECK_DEADLOCK FALSE
INVARIANTS TypeOK   NothingLost GrantedOnce
PROPERTIES RewardedOnce NeverShortens
