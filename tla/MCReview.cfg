SPECIFICATION Spec
CONSTANTS
  ann = ann
  bob = bob
  reg = reg
  spec = spec
  part = part
  late = late
  new = new
  his = his
  c1 = c1
  c2 = c2
  Users = {ann, bob}
  Keys <- MCKeys
  Amounts <- MCAmounts
  Blocked = {bob}
  Attendances <- MCAttendances
  Facts <- MCFacts
  History <- MCHistory
  Fallback <- MCFallback
  Contested = {late}
  UpsertLocks = TRUE
  Calls = {c1, c2}
  MaxRuns = 2
SYMMETRY MCSymmetry
INVARIANTS ReviewTypeOK BooksAgree
