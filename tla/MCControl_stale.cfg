\* A client killed between writing its command and reading the reply
\* leaves that reply in the outbound fifo for the next client.
CONSTANTS
  Clients = {c1, c2}
  NoOwner = NoOwner
  MAX_DEATHS = 1
  MAX_CRASHES = 0
  MAX_FAULTS = 0

SPECIFICATION Spec
SYMMETRY Symmetry
INVARIANT ReplyMatches
