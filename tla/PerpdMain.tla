------------------------------ MODULE PerpdMain ------------------------------
(***************************************************************************)
(* perpd's start-up, from the command line to the first poll():           *)
(* main() (src/perp/perpd.c) reads its options, parsing -a with            *)
(* nscan_uint32() (src/lasagna/nscan/nscan_uint32.c), picks the base       *)
(* directory, perpd_init() enters it and blocks signals, setup_control()  *)
(* makes the control directories and takes the single-instance pidlock,  *)
(* the handlers are installed, and main_loop() turns -a into poll()'s     *)
(* millisecond timeout.  What happens in the loop is module Perpd.        *)
(*                                                                         *)
(* Options are the values nextopt() hands main() (the option parser is    *)
(* not in the source tree).  The file system and the other perpd are     *)
(* consulted by the step that meets them, as a choice among the outcomes  *)
(* the calls can have.  Characters of -a are their byte codes.  Unsigned  *)
(* arithmetic is modulo 2^W and the int poll_interval is its W-bit two's  *)
(* complement.  The code has W = 32; TLC's own integers are 32-bit        *)
(* signed, so runs use a narrower W, which keeps every wrap and sign flip *)
(* and scales where they happen.                                          *)
(***************************************************************************)
EXTENDS Naturals, Integers, Sequences

CONSTANTS
  W,          \* width of uint32_t / int in bits (32 in the code)
  Chars,      \* byte codes an -a argument is made of
  MAXLEN,     \* bound: length of the argument
  OptLists    \* option sequences nextopt() returns: "a" (with the
              \* argument), "h", "V", "missing" (':'), "bad" ('?')

ASSUME W \in 8 .. 30 /\ Chars \subseteq 1 .. 255 /\ MAXLEN \in Nat

Word == 2 ^ W
ZERO == 48                                  \* '0'

(* A base directory as argv[0] or $PERP_BASE give it: absent, empty,      *)
(* absolute or relative.  PERP_BASE_DEFAULT is "/etc/perp".               *)
Paths == {"none", "empty", "abs", "rel"}
PERP_BASE_DEFAULT == "abs"

(* What setup_control() finds at .control in the base directory: nothing, *)
(* a directory, a symlink to a missing directory it can create, one whose *)
(* target cannot be made, one whose name overflows readlink's 256 bytes,  *)
(* or a plain file.                                                       *)
CtlEntries == {"absent", "dir", "dangling", "unmakeable", "longlink", "file"}

VARIABLES
  arg,        \* the -a argument, a string of byte codes
  opts,       \* the options, in order
  i,          \* index of the next option
  pc,         \* "opts" | "base" | "init" | "control" | "handlers" | "loop" | "exit"
  code,       \* exit status once pc = "exit"
  ascan,      \* outcome of -a: "none" | "ok" | "bad"
  autoscan,   \* arg_autoscan, then perpd->autoscan
  base,       \* the base directory main() settled on
  cwd,        \* "start" | "base" | "control" (.control/.perpd)
  blocked,    \* sigset_block() done
  lock,       \* pidlock held
  caught,     \* handlers installed
  interval    \* poll_interval in main_loop()

vars == <<arg, opts, i, pc, code, ascan, autoscan, base, cwd, blocked, lock,
          caught, interval>>

Strings == UNION {[1 .. n -> Chars] : n \in 0 .. MAXLEN}

(* nscan_uint32(): while ((n = *s - '0') < 10) result = result*10 + n.   *)
(* The subtraction is unsigned, so a byte below '0' ends the scan too.    *)
(* Returns the value and the index of the first byte not consumed (the   *)
(* terminating NUL is Len(s) + 1).                                       *)
RECURSIVE NscanMutant(_, _, _)              \* mutant: `<= 10` for `< 10`
NscanMutant(s, j, acc) ==
  LET n == ((IF j <= Len(s) THEN s[j] ELSE 0) - ZERO) % Word IN
  IF n <= 10 THEN NscanMutant(s, j + 1, (acc * 10 + n) % Word)
  ELSE [val |-> acc, end |-> j]

RECURSIVE Nscan(_, _, _)
Nscan(s, j, acc) ==
  LET n == ((IF j <= Len(s) THEN s[j] ELSE 0) - ZERO) % Word IN
  IF n < 10 THEN Nscan(s, j + 1, (acc * 10 + n) % Word)
  ELSE [val |-> acc, end |-> j]

(* int poll_interval = autoscan ? autoscan * 1000 : -1, the product       *)
(* computed in uint32_t and converted to int.                             *)
PollInterval(a) ==
  IF a = 0 THEN -1
  ELSE LET u == (a * 1000) % Word
       IN  IF u >= Word \div 2 THEN u - Word ELSE u

(* die(), die_usage(), fatal_usage() and fatal_syserr(): exit now.        *)
Exit(c) == pc' = "exit" /\ code' = c

-----------------------------------------------------------------------------
(* main()'s option loop, one option per step: -h and -V print and exit 0; *)
(* -a is parsed and fatal_usage() unless the whole argument was consumed; *)
(* a missing argument or an unknown option is a usage error (100).        *)
Option ==
  /\ pc = "opts" /\ i <= Len(opts)
  /\ CASE opts[i] \in {"h", "V"} -> Exit(0) /\ UNCHANGED <<ascan, autoscan>>
       [] opts[i] = "a" ->
            LET r == Nscan(arg, 1, 0) IN
            IF r.end = Len(arg) + 1
            THEN ascan' = "ok" /\ autoscan' = r.val /\ UNCHANGED <<pc, code>>
            ELSE ascan' = "bad" /\ Exit(100) /\ UNCHANGED autoscan
       [] OTHER -> Exit(100) /\ UNCHANGED <<ascan, autoscan>>
  /\ i' = i + 1
  /\ UNCHANGED <<arg, opts, base, cwd, blocked, lock, caught, interval>>

(* The base directory: argv[0], else $PERP_BASE, else the default when    *)
(* either is absent or empty; fatal_usage() unless it is absolute.        *)
ChooseBase ==
  /\ pc = "base" /\ i > Len(opts)
  /\ \E argv0, env \in Paths :
       LET b == IF argv0 # "none" THEN argv0 ELSE env
           d == IF b \in {"none", "empty"} THEN PERP_BASE_DEFAULT ELSE b
       IN  /\ base' = d
           /\ IF d = "abs" THEN pc' = "init" /\ UNCHANGED code ELSE Exit(100)
  /\ UNCHANGED <<arg, opts, i, ascan, autoscan, cwd, blocked, lock, caught, interval>>

(* The option loop ends when nextopt() has no more options.               *)
OptsDone ==
  /\ pc = "opts" /\ i > Len(opts)
  /\ pc' = "base"
  /\ UNCHANGED <<arg, opts, i, code, ascan, autoscan, base, cwd, blocked, lock,
                 caught, interval>>

(* perpd_init(): chdir() to the base directory, block all signals, move   *)
(* /dev/null to fd 0, make the self-pipe; a failed call is fatal (111).   *)
PerpdInit ==
  /\ pc = "init"
  /\ \E fail \in {"none", "chdir", "devnull", "pipe"} :
       CASE fail = "chdir" -> Exit(111) /\ UNCHANGED <<cwd, blocked>>
         [] fail = "none"  -> pc' = "control" /\ cwd' = "base" /\ blocked' = TRUE
                              /\ UNCHANGED code
         [] OTHER          -> Exit(111) /\ cwd' = "base" /\ blocked' = TRUE
  /\ UNCHANGED <<arg, opts, i, ascan, autoscan, base, lock, caught, interval>>

(* setup_control(): mkdir .control, or, when that fails and it is a       *)
(* symlink, mkdir its target (failure ignored; a name of 256 bytes or    *)
(* more is fatal); chdir into it (fatal if that fails), mkdir and chdir   *)
(* .perpd, take pid.lock without waiting (fatal if another perpd has it), *)
(* and fchdir() back to the base directory.                               *)
CtlUsable(e) == e \in {"absent", "dir", "dangling"}

SetupControlMutant ==                       \* mutant: cwd not restored
  /\ pc = "control"
  /\ \E e \in CtlEntries, other \in BOOLEAN :
       IF CtlUsable(e) /\ ~other
       THEN pc' = "handlers" /\ lock' = TRUE /\ cwd' = "control" /\ UNCHANGED code
       ELSE Exit(111) /\ UNCHANGED <<cwd, lock>>
  /\ UNCHANGED <<arg, opts, i, ascan, autoscan, base, blocked, caught, interval>>

SetupControl ==
  /\ pc = "control"
  /\ \E e \in CtlEntries, other \in BOOLEAN :
       IF CtlUsable(e) /\ ~other
       THEN pc' = "handlers" /\ lock' = TRUE /\ cwd' = "base" /\ UNCHANGED code
       ELSE Exit(111) /\ UNCHANGED <<cwd, lock>>
  /\ UNCHANGED <<arg, opts, i, ascan, autoscan, base, blocked, caught, interval>>

(* sig_catch() for SIGINT, SIGTERM, SIGHUP, SIGCHLD; main_loop() computes *)
(* the poll() timeout before its first poll().                            *)
StartLoop ==
  /\ pc = "handlers"
  /\ caught' = TRUE
  /\ interval' = PollInterval(autoscan)
  /\ pc' = "loop"
  /\ UNCHANGED <<arg, opts, i, code, ascan, autoscan, base, cwd, blocked, lock>>

(* perpd runs its loop (module Perpd), or has exited.                     *)
Running == pc \in {"loop", "exit"} /\ UNCHANGED vars

Init ==
  /\ opts \in OptLists
  /\ arg \in IF \E k \in DOMAIN opts : opts[k] = "a" THEN Strings ELSE {<<>>}
  /\ i = 1
  /\ pc = "opts"
  /\ code = 0
  /\ ascan = "none"
  /\ autoscan = 0
  /\ base = "none"
  /\ cwd = "start"
  /\ blocked = FALSE
  /\ lock = FALSE
  /\ caught = FALSE
  /\ interval = -1

Next == Option \/ OptsDone \/ ChooseBase \/ PerpdInit \/ SetupControl
          \/ StartLoop \/ Running

Spec == Init /\ [][Next]_vars

-----------------------------------------------------------------------------
(* Reference definitions.                                                 *)

IsDigit(c) == c \in ZERO .. ZERO + 9

RECURSIVE Decimal(_)
Decimal(s) ==
  IF s = <<>> THEN 0
  ELSE Decimal(SubSeq(s, 1, Len(s) - 1)) * 10 + (s[Len(s)] - ZERO)

(* The -a argument perpd accepts is exactly a string of decimal digits    *)
(* (possibly empty), and nscan_uint32() gives its value modulo 2^W: the   *)
(* digit test on unsigned bytes and the wrapping multiply-add together.   *)
NscanMatchesReference ==
  ascan # "none" =>
    /\ ascan = "ok" <=> \A j \in 1 .. Len(arg) : IsDigit(arg[j])
    /\ ascan = "ok" => autoscan = Decimal(arg) % Word

(* Spec 4.1 and 7: perpd scans only once start-up is complete and can no  *)
(* longer fail: it holds the single-instance pidlock, its working        *)
(* directory is the absolute base directory again after setup_control()  *)
(* walked into .control/.perpd (readdir(".") and the service paths are    *)
(* relative to it), and signals are blocked with the handlers in place.  *)
LoopEstablished ==
  pc = "loop" => lock /\ cwd = "base" /\ base = "abs" /\ blocked /\ caught

=============================================================================
