SPECIFICATION Spec
INVARIANTS
  UsableUnlessHarmed
  CompletedWithoutError
  CleansUp
PROPERTIES
  FileIsKept
