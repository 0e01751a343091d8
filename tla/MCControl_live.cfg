\* Three clients, two of which may be killed mid-exchange, and two failing
\* chdir()/open() calls, against a supervisor that does not crash: every
\* client eventually returns.
CONSTANTS
  Clients = {c1, c2, c3}
  NoOwner = NoOwner
  MAX_DEATHS = 2
  MAX_CRASHES = 0
  MAX_FAULTS = 2

SPECIFICATION Spec
PROPERTY ClientsFinish
