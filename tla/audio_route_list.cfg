SPECIFICATION Spec
CONSTANTS
  Controls <- MCControls
  Documents <- OnlyShipped
  HwValues = {0}
  Unreliable = {}
  None = None
INVARIANT
  StoresInTheList
