CONSTANTS
  Patches = {p1, p2}
  Keys <- ReadKeys
  OnByDefault = {"registration"}
  Values = {"on", "off", "absent"}
  Rows = {"missing", "on", "off"}
  MaxFaults = 0
SPECIFICATION Spec
INVARIANTS ReportedIsEnforced OneAfterTheOther
CHECK_DEADLOCK FALSE
