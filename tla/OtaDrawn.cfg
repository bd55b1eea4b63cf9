SPECIFICATION USpec
CONSTANTS
  Workers = {w1}
  Devices = {d1}
  Users = {u1}
  Requesters = {u1}
  JobIds = {j1, j2}
  Firmware = {2}
  Versions = {1, 2}
  BaseVersions = {1}
  ReportStates = {"downloading", "installing", "rebooting", "succeeded", "failed", "rolled_back"}
  PushCap = 2
  Script = Script
  None = None
CHECK_DEADLOCK FALSE

PROPERTY MovesAsDrawn
