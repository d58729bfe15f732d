SPECIFICATION FairSpec
CONSTANTS
  MaxShots = 2
  NoConn = NoConn
INVARIANTS
  TypeOK
  TouchpadAsChosen
  BoundIsHeld
  TimeoutIsOwn
PROPERTIES
  ChoiceSurvives
  ScreenshotEnds
