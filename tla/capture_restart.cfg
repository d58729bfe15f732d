SPECIFICATION Spec
CONSTANTS
  Period = 6
  PcmRate = 4
  Rates <- MCRates
  Align = 2
  MaxNeed = 4
  MaxFrames = 20
INVARIANT
  FramesAreCaptured
