SPECIFICATION CertSpec
CONSTANTS
  SessionCount = 2
  CertCount = 3
  IssueCount = 2
  Troubles = {{"again"}}
CHECK_DEADLOCK FALSE
PROPERTY UnbindAlwaysCutsOff
