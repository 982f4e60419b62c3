SPECIFICATION FairSpec
CONSTANTS
  \* JsonSync
  Keepers = {k1}
  Tools = {u1, u2}
  NoClient = NoClient
  MaxMakes = 2
  JsonFaultKinds = {"kill", "tick", "sigchld"}
  \* BackgroundTasks
  Commands = {t1, t2, t3}
  NoCommand = NoCommand
  MaxSystems = 2
  TaskFaultKinds = {"window"}
  \* ImageNotify
  Observers = {o1, o2}
  NoObserver = NoObserver
  Names = {1, 2, 3}
  Length <- MCLength
  MaxNotices = 3
  \* IndiWait
  Devices = {"mount", "focuser", "camera"}
  MaxCommands = 2
  MaxTries = 4
  IndiFaultKinds = {"slow", "silent", "chatty"}
  \* ScopeMount
  Movers = {m1, m2}
  NoMover = NoMover
  MaxMoves = 2
  MaxPolls = 2
  MaxLate = 1
  ScopeFaults = {{}, {"refuse", "ack"}, {"late", "ack"}}
INVARIANTS
  JsonTypeOK LostOnlyByRace KeeperKeepsOwn StartedOnce OneAtATime NameWhole
  DoneMeansDone GotoArrives
PROPERTIES
  DatabaseObtained AllStarted LatestShown EveryWaitEnds EveryCallReturns
CHECK_DEADLOCK FALSE
