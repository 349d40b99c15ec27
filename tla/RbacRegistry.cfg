CONSTANTS
  Roles = {a1, a2}
  Permissions = {p1}
  Names = {n1, n2}
  Actions = {x1, x2}
  Requests = {r1, r2, r3}
  Seeded = Seeded
  None = None
SPECIFICATION Spec
INVARIANTS IInv GrantsSound CacheAgrees
SYMMETRY Symmetry
CHECK_DEADLOCK FALSE
