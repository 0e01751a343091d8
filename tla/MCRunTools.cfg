\* Every chain of up to two tools (runlimit, runuid, runpause with good and
\* bad arguments) ending in a cat tool, a program, a missing program or
\* nothing, started by root or by an ordinary user, with one SIGALRM that
\* can arrive at any point.  runpause 0 may wait in pause() for good, so a
\* state with nothing left to do is not a deadlock of the program.
CONSTANTS
  Defined <- MCDefined
  INF = 9
  Accounts <- MCAccounts
  Chains <- MCChains
  StartCreds <- MCStartCreds
  StartLimits <- MCStartLimits
  MAX_ALARMS = 1
  NONE = NONE

SPECIFICATION Spec
INVARIANT TypeOK
INVARIANT PrivilegesDropped
INVARIANT LimitsShown
CHECK_DEADLOCK FALSE
