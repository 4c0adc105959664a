SPECIFICATION Spec
CONSTANTS
  ann = ann
  bob = bob
  b1 = b1
  b2 = b2
  p1 = p1
  p2 = p2
  c1 = c1
  c2 = c2
  Users = {ann, bob}
  Keys = {ann, bob}
  Bonus = 5
  Amounts = {5}
  Blocked = {}
  Members = {ann}
  Passwords = {p1, p2}
  NoPassword = NoPassword
  FirstPassword = p1
  MaxLinks = 1
  Browsers = {b1, b2}
  Requests <- MCRequests
  SignedIn <- MCSignedIn
  Calls = {c1, c2}
  MaxCalls = 3
SYMMETRY MCSymmetry
INVARIANTS SessionsTypeOK ActivatedIsWelcomed LinkOpensOneSession RefusedOnlyIfEnded
CHECK_DEADLOCK FALSE
