SPECIFICATION Spec
CONSTANTS
  r1 = r1
  r2 = r2
  x1 = x1
  l1 = l1
  l2 = l2
  u1 = u1
  u2 = u2
  c1 = c1
  c2 = c2
  DayLen = 4
  WeekLen = 2
  Offset = 1
  OpenBefore = 1
  OpenAfter = 1
  Rules = {r1, r2}
  Versions <- MCVersions
  Specials = {x1}
  SpecialVersions <- MCSpecialVersions
  Locations = {l1, l2}
  RowStarts = {14}
  RowExcludes <- MCRowExcludes
  Dates = {1, 2, 3, 4}
  MaxEdits = 1
  Users = {u1, u2}
  Requests <- MCRequests
  Calls = {c1, c2}
  SerialRsvps = TRUE
  MaxCalls = 3
  Horizon = {4, 8, 11, 16, 17, 19}
SYMMETRY MCSymmetry
INVARIANTS ScheduleTypeOK OneRowPerOccurrence OneRsvpPerDate ListAgreesWithPage CheckedInIsDone
PROPERTIES ExclusionsRespected
CHECK_DEADLOCK FALSE
