SPECIFICATION FairSpec
CONSTANTS
  Threads = {t1, t2}
  Outs = {out1}
  Ins = {in1}
  NoThread = NoThread
  NoStream = NoStream
  spk = spk
  hs = hs
  outsco = outsco
  mic = mic
  insco = insco
  LANDSCAPE = LANDSCAPE
  UNDEFINED = UNDEFINED
  Orientations = {LANDSCAPE, UNDEFINED}
  OUT_ALL <- MCOutAll
  OUT_ALL_SCO <- MCOutSco
  IN_ALL <- MCInAll
  IN_ALL_SCO <- MCInSco
  SPEAKER <- MCSpeaker
  WIRED <- MCWired
  BUILTIN_MIC <- MCMic
  OutRoutes <- MCOutRoutes
  InRoutes <- MCInRoutes
INVARIANTS
  NoCircularWait
  IoPcmOpen
  ActiveIsRunning
  RunningIsActive
  DspMatchesRoute
  LatencyMatchesBuffer
PROPERTIES
  NobodyOvertakes
  ActsAsDevice
  SetterIsServed
