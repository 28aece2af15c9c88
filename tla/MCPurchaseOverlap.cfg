CONSTANTS
  Users = {u1}
  Payments = {p1, p2}
  Hooks = {h1, h2}
  Workers = {w1, w2}
  OwnerOf <- MCOwnerOf
  FreePayments = {p2}
  Days <- MCDays
  StartSubs <- MCStartSubs
  MaxStartExpire = 1
  RewardDays = 1
  MaxTry = 1
  MaxFaults = 0
  MaxNow = 0
SYMMETRY Symmetry
SPECIFICATION Spec
INVARIANTS SettledOnce DisabledOnlyByInterference
PROPERTY LedgerSpec
\* Payments run out: once all are settled or canceled nothing is left to do.
CHECK_DEADLOCK FALSE
