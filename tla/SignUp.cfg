CONSTANTS
  Requests = {r1, r2, r3}
  Owner = Owner
  Addresses = {a1, a2, a3}
  Gone = Gone
  MaxFaults = 1
SPECIFICATION Spec
INVARIANTS IInv AddressProved SignUpAnswered
SYMMETRY Symmetry
VIEW View
CHECK_DEADLOCK FALSE
