SPECIFICATION Spec
CONSTANTS
  s1 = s1
  s2 = s2
  NoScan = NoScan
  Scans = {s1, s2}
  MayFind <- MCMayFind
  MaxFaults = 1
PROPERTIES BufferedScanSurvives
CHECK_DEADLOCK FALSE
