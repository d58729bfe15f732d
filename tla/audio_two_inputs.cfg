SPECIFICATION Spec
CONSTANTS
  Threads = {t1, t2}
  Outs = {out1}
  Ins = {in1, in2}
  NoThread = NoThread
  NoStream = NoStream
  spk = spk
  hs = hs
  outsco = outsco
  mic = mic
  insco = insco
  LANDSCAPE = LANDSCAPE
  UNDEFINED = UNDEFINED
  Orientations = {LANDSCAPE, UNDEFINED}
  OUT_ALL <- MCOutAll
  OUT_ALL_SCO <- MCOutSco
  IN_ALL <- MCInAll
  IN_ALL_SCO <- MCInSco
  SPEAKER <- MCSpeaker
  WIRED <- MCWired
  BUILTIN_MIC <- MCMic
  OutRoutes <- FewOutRoutes
  InRoutes <- MCInRoutes
INVARIANT
  OnePcmPerDirection
