CONSTANTS
  Users = {u1}
  Payments = {p1}
  Hooks = {h1, h2}
  Workers = {w1, w2}
  OwnerOf <- MCOwnerOf
  FreePayments = {}
  Days <- MCDays
  StartSubs <- MCStartSubs
  MaxStartExpire = 1
  RewardDays = 1
  MaxTry = 1
  MaxFaults = 1
  MaxNow = 0
SYMMETRY Symmetry
SPECIFICATION Spec
INVARIANTS MutatesOnce
\* Payments run out: once all are settled or canceled nothing is left to do.
CHECK_DEADLOCK FALSE
