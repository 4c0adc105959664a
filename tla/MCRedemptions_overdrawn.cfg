SPECIFICATION Spec
CONSTANTS
  u1 = u1
  u2 = u2
  r1 = r1
  r2 = r2
  k1 = k1
  k2 = k2
  NoLimit = NoLimit
  NoRow = NoRow
  Calls = {c1, c2}
  Users = {u1, u2}
  Rewards = {r1}
  ClientKeys = {k1, k2}
  Blocked = {}
  Costs = {1, 2}
  Grant = 2
  Correction = 0
  MaxInFlight = 2
  Keys <- MCKeys
  Amounts <- MCAmounts
  Purchases <- MCPurchases
  Capacities = {NoLimit}
  Edits <- MCEdits
SYMMETRY MCSymmetry
INVARIANT RedeemNeverOverdraws
