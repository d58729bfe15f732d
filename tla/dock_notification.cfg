SPECIFICATION FairSpec
CONSTANTS
  MaxKeys = 2
  NoConn = NoConn
INVARIANTS
  WakesInDock
  TellsTheChoice
PROPERTY
  NotificationGoes
