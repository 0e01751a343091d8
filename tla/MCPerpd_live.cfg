\* Liveness with -a secs: services get supervised, shutdown completes.
\* No symmetry: TLC's liveness checking is unsound under symmetry.
CONSTANTS
  Names = {n1, n2}
  Inos = {i1, i2}
  Pids = {p1, p2}
  NoPid = NoPid
  None = None
  PERP_MAX = 2
  AUTOSCAN = TRUE
  ADMIN_OPS = 2
  MAX_FAULTS = 1

SPECIFICATION Spec

PROPERTY WantedEventuallySupervised
PROPERTY ShutdownCompletes
