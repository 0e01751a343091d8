\* The supervisor crashes after reading a command and is respawned before
\* the client reaches read(): the client blocks forever holding ctl.lock.
\* The blocked state has no successor, which is the hang itself, so
\* deadlock is not reported separately.
CONSTANTS
  Clients = {c1, c2}
  NoOwner = NoOwner
  MAX_DEATHS = 0
  MAX_CRASHES = 1
  MAX_FAULTS = 0

SPECIFICATION Spec
PROPERTY ClientsFinish
CHECK_DEADLOCK FALSE
