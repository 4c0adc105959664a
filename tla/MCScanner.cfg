SPECIFICATION Spec
CONSTANTS
  s1 = s1
  s2 = s2
  NoScan = NoScan
  Scans = {s1, s2}
  MayFind <- MCMayFind
  MaxFaults = 1
INVARIANTS ScannerTypeOK GreenIsOnRecord
PROPERTIES ImplementsDelivery ShutdownWaitsForScans EventuallyAnswered
CHECK_DEADLOCK FALSE
