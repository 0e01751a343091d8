\* Two service directories removed between scans, no failures: the cull
\* loop skips the entry it swaps in (expected violation).
CONSTANTS
  Names = {n1, n2}
  Inos = {i1, i2}
  Pids = {p1, p2}
  NoPid = NoPid
  None = None
  PERP_MAX = 2
  AUTOSCAN = TRUE
  ADMIN_OPS = 2
  MAX_FAULTS = 0

SPECIFICATION Spec
SYMMETRY Symmetry
PROPERTY CullComplete
