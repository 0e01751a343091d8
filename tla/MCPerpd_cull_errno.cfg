\* One administrator change, fork() failures: a stale errno from run_sv()
\* suppresses culling (expected violation).
CONSTANTS
  Names = {n1, n2}
  Inos = {i1, i2}
  Pids = {p1, p2}
  NoPid = NoPid
  None = None
  PERP_MAX = 2
  AUTOSCAN = TRUE
  ADMIN_OPS = 1
  MAX_FAULTS = 2

SPECIFICATION Spec
SYMMETRY Symmetry
PROPERTY CullComplete
