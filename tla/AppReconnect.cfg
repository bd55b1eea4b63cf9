SPECIFICATION SocketSpec
CONSTANTS
  Pods = {"pod1", "pod2"}
  Apps = {"phone", "tablet"}
  ConnCount = 2
  NoteCount = 2
CHECK_DEADLOCK FALSE
INVARIANT ReconnectIsReachable
