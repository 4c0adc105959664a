SPECIFICATION Spec
CONSTANTS
  u1 = u1
  u2 = u2
  e1 = e1
  e2 = e2
  e3 = e3
  e4 = e4
  s1 = s1
  s2 = s2
  s3 = s3
  s4 = s4
  s5 = s5
  c1 = c1
  c2 = c2
  Users = {u1, u2}
  Blocked = {u2}
  Events = {e1, e2, e3, e4}
  Scans = {s1, s2, s3, s4, s5}
  Manual = {s2}
  Calls = {c1, c2}
  Nobody = Nobody
  NoWindow = NoWindow
  Excluded = Excluded
  MaxRetries = 1
  Keys <- MCKeys
  DayOf <- MCDayOf
  Award <- MCAward
  Amounts <- MCAmounts
  RunnerOf <- MCRunnerOf
  OpenAt <- MCOpenAt
  Unapproved <- MCUnapproved
SYMMETRY MCSymmetry
INVARIANT CheckinTypeOK
INVARIANT OneCreditPerDay
INVARIANT PaidIffAttended
INVARIANT GreenIsCredited
INVARIANT ReplayIsTheOutcome
PROPERTY EveryScanLogged
PROPERTY ImplementsLedger
