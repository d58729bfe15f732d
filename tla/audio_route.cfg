SPECIFICATION Spec
CONSTANTS
  Controls <- MCControls
  Documents <- MCDocuments
  HwValues = {0, 1}
  Unreliable = {"Int Spk Switch", "Int Mic Switch"}
  None = None
INVARIANTS
  DropsNothing
  RemembersTheCodec
PROPERTY
  ShowsTheSelection
