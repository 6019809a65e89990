CONSTANTS
  Jobs = {j1, j2, j3, j4}
  MaxRetries = 1
  Callers = {me, other}
  Client = me
  Filters = {"any", "processing"}
  Limits = {1, 2}
SPECIFICATION Spec
SYMMETRY JobSymmetry
CONSTRAINT Walking
INVARIANTS
  TypeOK
  NothingSkipped
  DriftBounded
CHECK_DEADLOCK FALSE
