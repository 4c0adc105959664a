SPECIFICATION Spec
CONSTANTS
  u1 = u1
  u2 = u2
  u3 = u3
  k1 = k1
  k2 = k2
  k3 = k3
  NoReply = NoReply
  Calls = {c1, c2, c3}
  Users = {u1, u2, u3}
  Keys = {k1, k2, k3}
  Blocked = {u3}
  Amounts <- MCAmounts
  Requests <- MCRequests
SYMMETRY MCSymmetry
INVARIANT ServiceTypeOK
INVARIANT BalanceMatchesLedger
INVARIANT KeyPostedOnce
INVARIANT RepliesAreThePosting
PROPERTY ImplementsLedger
