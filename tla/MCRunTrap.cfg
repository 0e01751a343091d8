\* runtrap with nested handlers, pid reuse by an unrelated process, the
\* child exiting by itself and a transient fork() failure.  Four pids: the
\* child, two nested trappers and one unrelated process.  runtrap may wait
\* in poll() for ever while its child runs, so a state with nothing left to
\* do is not a deadlock of the program.
CONSTANTS
  Pids = {p1, p2, p3, p4}
  NoPid = NoPid
  TERM_KILLS = TRUE
  MAX_SIGNALS = 2
  MAX_EXITS = 1
  MAX_FAULTS = 1
  MAX_FOREIGN = 1

SPECIFICATION Spec
INVARIANT TrapperTargetsOwnChild
PROPERTY TermLeadsToExit
PROPERTY ChildRespawned
CHECK_DEADLOCK FALSE
