SPECIFICATION Spec
CONSTANTS
  MaxLevel = 1
  AskCount = 2
  ChangeCount = 1
  HandlerCount = 2
  Faults <- SomeFaults
  Unknown = Unknown
  Nothing = Nothing
  Pods = {"pod1", "pod2"}
  Apps = {"phone", "tablet"}
  ConnCount = 2
  NoteCount = 2
  SessionCount = 2
  CertCount = 3
  IssueCount = 2
  Troubles <- SomeTroubles
  LinkCount = 2
  StartCount = 2
CHECK_DEADLOCK FALSE
INVARIANTS
  AnswersTrue
  AppInStep
  OpenIsReachable
  PublishedArrives
  StartsPlayed
PROPERTIES
  AnswersWork
  UnbindCutsOff
