\* Four perpctl clients against one supervisor that may crash and be
\* respawned twice, with two failing chdir()/open() calls: every accepted
\* reply answers the client's own command and reports it carried out, and
\* the protocol implements the abstract exchange of module Exchange.
CONSTANTS
  Clients = {c1, c2, c3, c4}
  NoOwner = NoOwner
  MAX_DEATHS = 0
  MAX_CRASHES = 2
  MAX_FAULTS = 2

SPECIFICATION Spec
SYMMETRY Symmetry
INVARIANT ReplyMatches
PROPERTY ImplementsExchange
\* A client can hang for good after a crash (run hang), so a state without
\* successor is expected here.
CHECK_DEADLOCK FALSE
