\* Every service state the tools can find, with perp_ready() failing with
\* ENXIO, ENOENT or EACCES, status.bin missing, unreadable, one byte short,
\* exact or one byte long, and every main flag combination: the record
\* decodes to what was written, and perpls's colour and pid column agree
\* with perpstat's words.
CONSTANTS
  NOW = 1000
  Whens <- MCWhens
  MainPids = {0, 258}
  StatusFiles <- MCStatusFiles
  UPSECS = 2
  ReadyErrs = {"ENXIO", "ENOENT", "EACCES"}
  None = None

SPECIFICATION Spec
INVARIANT StatusDecoding
INVARIANT MainStateAgrees
