\* Every -a argument of up to five bytes over '/', '0', '1', '6', '9', ':'
\* (the neighbours of the digit range included), at a 16-bit word, with
\* every kind of option and every start-up outcome: the arguments perpd
\* accepts and the values it takes from them, and the state it enters its
\* loop in.
CONSTANTS
  W = 16
  Chars = {47, 48, 49, 54, 57, 58}
  MAXLEN = 5
  OptLists <- MCOptLists

SPECIFICATION Spec
INVARIANT NscanMatchesReference
INVARIANT LoopEstablished
