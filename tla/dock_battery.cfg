SPECIFICATION Spec
CONSTANTS
  Absent = Absent
  Unreadable = Unreadable
  Contents <- MCContents
INVARIANTS
  ToldIsTrue
PROPERTIES
  TellsOnlyNews
