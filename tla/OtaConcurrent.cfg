SPECIFICATION LiveSpec
CONSTANTS
  Workers = {w1, w2}
  Devices = {d1}
  Users = {u1}
  Requesters = {Script}
  JobIds = {j1}
  Firmware = {2}
  Versions = {2}
  ReportStates = {"downloading", "failed", "succeeded"}
  PushCap = 0
  Script = Script
  None = None
CHECK_DEADLOCK FALSE
INVARIANT ConfirmedWasHandedOver
PROPERTY QuietDeviceJobEnds
