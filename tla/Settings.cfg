CONSTANTS
  Patches = {p1, p2}
  Keys <- ReadKeys
  OnByDefault = {"registration"}
  Values = {"on", "off", "null", "absent"}
  Rows = {"missing", "on", "off", "empty"}
  MaxFaults = 1
SPECIFICATION Spec
INVARIANT PatchOutcome
PROPERTIES AllOrNothing PatchAnswered
CHECK_DEADLOCK FALSE
