\* Safety of the scan/reap/cull bookkeeping under concurrent directory
\* changes, supervisor exits, signals and transient failures, with the
\* table at its limit: three directory identities for PERP_MAX = 2, so a
\* third active service is rejected and sv[] must not grow past capacity.
CONSTANTS
  Names = {n1, n2, n3}
  Inos = {i1, i2, i3}
  Pids = {p1, p2}
  NoPid = NoPid
  None = None
  PERP_MAX = 2
  AUTOSCAN = TRUE
  ADMIN_OPS = 2
  MAX_FAULTS = 1

SPECIFICATION Spec
SYMMETRY Symmetry

INVARIANT TypeOK
INVARIANT NoDuplicateService
INVARIANT PidBookkeeping
INVARIANT NoUntrackedSupervisor
