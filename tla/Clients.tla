------------------------------- MODULE Clients -------------------------------
(***************************************************************************)
(* How the client tools classify and display one service argument         *)
(* (src/perp/perpls.c, perpstat.c, perpok.c, perpctl.c, with perp_ready.c, *)
(* perp_binstat.c, perp_statload.c, perp_uptime.c and upak32.c).           *)
(*                                                                         *)
(* Each tool stats the argument, checks it is a directory (and, except     *)
(* perpctl, that its sticky bit marks it activated), probes the           *)
(* supervisor with perp_ready(), and the status tools then read the       *)
(* status file, check its length, decode the 54-byte record and turn the  *)
(* main and log blocks into what they print.  The service as the tools    *)
(* find it (the directory, the probe, the status file perpetrate wrote)  *)
(* is one state chosen by Init; each tool's per-service code is one        *)
(* action that records what it reports.                                   *)
(*                                                                         *)
(* Bytes are numbers 0..255.  perpetrate and the tain_t library are not   *)
(* in the source tree: the record encoder and tain pack/unpack/compare    *)
(* follow spec 3 and are marked as modelled from the spec.  What is       *)
(* printed is abstracted to a class (which check failed, or "ok"), the    *)
(* perpls display panel and colour class, and the set of phrases         *)
(* perpstat prints for each subservice.                                   *)
(***************************************************************************)
EXTENDS Naturals, Sequences, Bitwise, SequencesExt

CONSTANTS
  NOW,           \* tain_now() seconds when the tools run
  Whens,         \* [sec, nsec] start stamps a subservice can carry
  MainPids,      \* pids perpetrate can publish for main (0: down)
  StatusFiles,   \* status.bin: [err] if open()/read() fails, else [len] bytes
  UPSECS,        \* perpok -u argument (0: supervisor check only)
  ReadyErrs,     \* errno values perp_ready() can fail with
  None           \* a tool that has not run yet

ASSUME UPSECS \in Nat /\ ReadyErrs \subseteq {"ENXIO", "ENOENT", "EACCES"}

Tools == {"perpls", "perpstat", "perpok", "perpctl"}
BINSTAT_SIZE == 54

(* perplib.h: the flag bits of the supervisor and subservice bytes.       *)
SUPER_HASLOG == 2
Bit == [UP |-> 1, RESET |-> 2, WANT |-> 4, PAUSE |-> 8, ONCE |-> 64]
Is(f, flags) == (flags & Bit[f]) # 0
FlagByte(S) == MapThenSumSet(LAMBDA f : Bit[f], S)

(* A subservice block as perpetrate publishes it.  SUBSV_UP is set       *)
(* exactly when the pid is live.                                          *)
Block(pids, whens, extra) ==
  {[pid |-> p, when |-> w, flags |-> FlagByte(S \cup (IF p # 0 THEN {"UP"} ELSE {}))] :
     p \in pids, w \in whens, S \in extra}
MainBlocks == Block(MainPids, Whens, SUBSET {"RESET", "WANT", "PAUSE", "ONCE"})
LogBlocks  == Block({7}, {[sec |-> NOW - 5, nsec |-> 0]}, {{}, {"WANT"}})
             \cup Block({0}, {[sec |-> NOW - 5, nsec |-> 0]}, {{"WANT"}})
(* The supervisor block: SUPER_UP, and SUPER_HASLOG when there is a log.  *)
SuperBlock(haslog) ==
  [pid |-> 3, when |-> [sec |-> NOW - 9, nsec |-> 0],
   flags |-> 1 + (IF haslog THEN SUPER_HASLOG ELSE 0)]

Record == {[super |-> SuperBlock(l # None), main |-> m, log |-> l] :
             m \in MainBlocks, l \in LogBlocks \cup {None}}

Service ==
  [kind   : {"missing", "file", "dir"},   \* what stat() finds
   sticky : BOOLEAN,                      \* S_ISVTX: activated
   ready  : {"ok"} \cup ReadyErrs,        \* open(CTL_IN, O_NONBLOCK|O_WRONLY)
   file   : StatusFiles,                  \* status.bin as open()/read() find it
   rec    : Record]                       \* what perpetrate last wrote

VARIABLES
  sv,      \* the service the tools look at
  report   \* tool -> [class, view] once it has run

vars == <<sv, report>>

Report(cls, view) == [class |-> cls, view |-> view]

-----------------------------------------------------------------------------
(* The status record codec.                                               *)

(* upak32_pack() / upak32_unpack(): little-endian, byte 0 lowest.         *)
Upak32Pack(u) == [i \in 1 .. 4 |-> (u \div 2 ^ (8 * (i - 1))) % 256]

Upak32UnpackMutant(b, o) ==             \* mutant: bytes taken big-endian
  ((b[o + 1] * 256 + b[o + 2]) * 256 + b[o + 3]) * 256 + b[o + 4]

Upak32Unpack(b, o) ==
  ((b[o + 4] * 256 + b[o + 3]) * 256 + b[o + 2]) * 256 + b[o + 1]

(* tain_pack() / tain_unpack(): seconds in 8 and nanoseconds in 4         *)
(* big-endian bytes (the TAI64 label offset of the seconds is left out).  *)
RECURSIVE ShiftBytes(_, _)
ShiftBytes(u, k) == IF k = 0 THEN u ELSE ShiftBytes(u \div 256, k - 1)
BigEndian(u, n) == [i \in 1 .. n |-> ShiftBytes(u, n - i) % 256]
FromBigEndian(b, o, n) == FoldLeft(LAMBDA acc, x : acc * 256 + x, 0,
                                   [i \in 1 .. n |-> b[o + i]])
TainPack(w) == BigEndian(w.sec, 8) \o BigEndian(w.nsec, 4)
TainUnpack(b, o) == [sec |-> FromBigEndian(b, o, 8), nsec |-> FromBigEndian(b, o + 8, 4)]

(* perpetrate's encoder, spec 3: pid, stamp, flags, a reserved byte, for  *)
(* supervisor, main and log.  A record without a log has a zero block.   *)
EncodeBlock(k) == Upak32Pack(k.pid) \o TainPack(k.when) \o <<k.flags, 0>>
ZeroBlock == [pid |-> 0, when |-> [sec |-> 0, nsec |-> 0], flags |-> 0]
Encode(r) ==
  EncodeBlock(r.super) \o EncodeBlock(r.main)
    \o EncodeBlock(IF r.log = None THEN ZeroBlock ELSE r.log)

(* The bytes of status.bin: the encoded record cut or padded to its length. *)
FileBytes(r, len) ==
  LET e == Encode(r) IN
  IF len <= BINSTAT_SIZE THEN SubSeq(e, 1, len) ELSE e \o [i \in 1 .. len - BINSTAT_SIZE |-> 0]

(* perp_binstat(): open() fails -> NULL with its errno; read(fd, buf, 54)  *)
(* fails -> NULL; fewer than 54 bytes -> NULL with EPROTO.  A longer file  *)
(* fills the buffer and is accepted.                                      *)
Binstat ==
  IF "err" \in DOMAIN sv.file THEN [ok |-> FALSE, errno |-> sv.file.err]
  ELSE IF sv.file.len < BINSTAT_SIZE THEN [ok |-> FALSE, errno |-> "EPROTO"]
  ELSE [ok |-> TRUE, buf |-> SubSeq(FileBytes(sv.rec, sv.file.len), 1, BINSTAT_SIZE)]

(* perp_statload(): supervisor at 0, main at 18, log at 36 only when the  *)
(* supervisor flags say there is one (the log block is otherwise left     *)
(* unset).  Offsets are 0-based as in the C; b[o + 1] is byte o.          *)
LoadBlock(b, o) ==
  [pid |-> Upak32Unpack(b, o), when |-> TainUnpack(b, o + 4), flags |-> b[o + 17]]
Statload(b) ==
  [super |-> LoadBlock(b, 0), main |-> LoadBlock(b, 18),
   log   |-> IF (b[17] & SUPER_HASLOG) # 0 THEN LoadBlock(b, 36) ELSE None]

(* tain_less() / tain_minus() on [sec, nsec].                             *)
TainLess(a, b) == a.sec < b.sec \/ (a.sec = b.sec /\ a.nsec < b.nsec)
TainMinusSec(a, b) == IF a.nsec >= b.nsec THEN a.sec - b.sec ELSE a.sec - b.sec - 1

(* perp_uptime(): whole seconds between now and when, in whichever order  *)
(* is not negative, cast to uint32_t (the stamps here are far less than  *)
(* 2^32 seconds apart, so the cast keeps the value).                      *)
PerpUptime(when) ==
  LET now == [sec |-> NOW, nsec |-> 0] IN
  IF TainLess(when, now) THEN TainMinusSec(now, when) ELSE TainMinusSec(when, now)

-----------------------------------------------------------------------------
(* The checks every tool makes first, in the order they make them.        *)
(* stat() failure, not a directory, and perp_ready(): ENXIO or ENOENT is   *)
(* "supervisor not running", any other errno a failed check.              *)
StatClass ==
  CASE sv.kind = "missing" -> "stat_error"
    [] sv.kind = "file"    -> "notdir"
    [] OTHER               -> "ok"

ReadyClass ==
  IF sv.ready \in {"ENXIO", "ENOENT"} THEN "not_running" ELSE "probe_error"

(* The ladder perpls and perpstat share, ending in the decoded record.    *)
Ladder ==
  IF StatClass # "ok" THEN StatClass
  ELSE IF ~sv.sticky THEN "inactive"
  ELSE IF sv.ready # "ok" THEN ReadyClass
  ELSE IF ~Binstat.ok THEN "status_error"
  ELSE "ok"

Loaded == Statload(Binstat.buf)

-----------------------------------------------------------------------------
(* perpls status_unpack(): three panel characters for a subservice.  Up  *)
(* shows '+', a want '!' in the first; once 'o' in the second; pause 'p' *)
(* or reset 'r' in the third; an uptime under one second is shown as     *)
(* "want up" unless resetting.                                            *)
MungeMutant(k) ==                                   \* mutant: reset ignored
  Is("UP", k.flags) /\ PerpUptime(k.when) < 1
Munge(k) ==
  Is("UP", k.flags) /\ PerpUptime(k.when) < 1 /\ ~Is("RESET", k.flags)

SubPanel(k) ==
  LET c == IF Is("UP", k.flags) THEN "+" ELSE "."
      up == Is("UP", k.flags)
  IN  IF Munge(k) THEN <<"!", ".", ".">>
      ELSE <<IF Is("WANT", k.flags) THEN "!" ELSE c,
             IF up /\ Is("ONCE", k.flags) THEN "o" ELSE c,
             IF up /\ Is("RESET", k.flags) THEN "r"
             ELSE IF up /\ Is("PAUSE", k.flags) THEN "p" ELSE c>>

(* The panel "[- --- ---]" after svstat_fill(): panel[1] the activation   *)
(* mark, panel[3..5] main, panel[7..9] log (left "---" with no log).     *)
Panel ==
  LET mark == CASE Ladder = "inactive" -> "-"
                [] Ladder = "ok"       -> "+"
                [] OTHER               -> "E"
      main == IF Ladder = "ok" THEN SubPanel(Loaded.main) ELSE <<"-", "-", "-">>
      log  == IF Ladder = "ok" /\ Loaded.log # None THEN SubPanel(Loaded.log)
              ELSE <<"-", "-", "-">>
  IN  [i \in {1, 3, 4, 5, 7, 8, 9} |->
         CASE i = 1 -> mark [] i \in 3 .. 5 -> main[i - 2] [] OTHER -> log[i - 6]]

(* svstat_setcap(): the colour class perpls -G gives the service.         *)
Setcap(p) ==
  IF p[1] = "E" THEN "ER"
  ELSE IF p[1] = "-" THEN "NA"
  ELSE IF p[3] = "!" THEN (IF p[4] = "." THEN "WU" ELSE "WD")
  ELSE IF p[7] = "!" THEN (IF p[8] = "." THEN "WU" ELSE "WD")
  ELSE IF p[4] = "." THEN "AD"
  ELSE IF p[5] = "p" THEN "AP"
  ELSE IF p[5] = "r" THEN "AR"
  ELSE "AN"

(* perpls main(): svstat_fill(), svstat_setcap(), and the pid and uptime  *)
(* of main printed when panel[4] is '+' or 'o'.                           *)
Perpls ==
  /\ report["perpls"] = None
  /\ report' = [report EXCEPT !["perpls"] =
                  Report(Ladder, [cap   |-> Setcap(Panel),
                                  shown |-> Panel[4] \in {"+", "o"}])]
  /\ UNCHANGED sv

(* perpstat report(): the phrases printed for a subservice.  A zero pid   *)
(* is "down"; an uptime under a second, unless resetting, "down, want     *)
(* up!"; otherwise "up" or "resetting" with the pid.                       *)
Phrases(k) ==
  LET up == PerpUptime(k.when)
      once == IF Is("ONCE", k.flags) THEN {"once"} ELSE {}
  IN  IF k.pid = 0 THEN
        {"down"} \cup (IF Is("WANT", k.flags) THEN {"want up!"} ELSE {}) \cup once
      ELSE IF up < 1 /\ ~Is("RESET", k.flags) THEN {"down", "want up!"} \cup once
      ELSE     {IF Is("RESET", k.flags) THEN "resetting" ELSE "up", "pid"}
               \cup (IF Is("WANT", k.flags) THEN {"want down!"} ELSE {})
               \cup (IF Is("PAUSE", k.flags) THEN {"paused"} ELSE {}) \cup once

(* perpstat main(): the same ladder as perpls, then report() on main and, *)
(* when the supervisor flags have one, on log ("no log" otherwise).       *)
Perpstat ==
  /\ report["perpstat"] = None
  /\ report' = [report EXCEPT !["perpstat"] =
                  IF Ladder # "ok" THEN Report(Ladder, None)
                  ELSE Report("ok", [main |-> Phrases(Loaded.main),
                                     log  |-> IF Loaded.log = None THEN None
                                              ELSE Phrases(Loaded.log)])]
  /\ UNCHANGED sv

(* perpok main(): stat()/not-a-directory are fatal, then report_fail() on *)
(* each check; any perp_ready() failure is "supervisor not running".      *)
(* Without -u it stops there; with -u it reads the status and fails a    *)
(* main subservice with pid 0, resetting, wanting down, or up for less    *)
(* than UPSECS seconds.  The view is whether it reports ok.               *)
Perpok ==
  /\ report["perpok"] = None
  /\ LET m == Loaded.main
         r == IF StatClass # "ok" THEN Report(StatClass, FALSE)
              ELSE IF ~sv.sticky THEN Report("inactive", FALSE)
              ELSE IF sv.ready # "ok" THEN Report("not_running", FALSE)
              ELSE IF UPSECS = 0 THEN Report("ok", TRUE)
              ELSE IF ~Binstat.ok THEN Report("status_error", FALSE)
              ELSE Report("ok", /\ m.pid # 0
                                /\ ~Is("RESET", m.flags)
                                /\ ~Is("WANT", m.flags)
                                /\ PerpUptime(m.when) >= UPSECS)
     IN report' = [report EXCEPT !["perpok"] = r]
  /\ UNCHANGED sv

(* perpctl main(): stat(), S_ISDIR, perp_ready(), then do_control().  It  *)
(* never looks at the sticky bit.                                         *)
Perpctl ==
  /\ report["perpctl"] = None
  /\ LET r == IF StatClass # "ok" THEN Report(StatClass, None)
              ELSE IF sv.ready # "ok" THEN Report(ReadyClass, None)
              ELSE Report("ok", None)
     IN report' = [report EXCEPT !["perpctl"] = r]
  /\ UNCHANGED sv

-----------------------------------------------------------------------------
Init ==
  /\ sv \in Service
  /\ report = [t \in Tools |-> None]

(* Every tool has reported.                                               *)
Reported == \A t \in Tools : report[t] # None /\ UNCHANGED vars

Next == Perpls \/ Perpstat \/ Perpok \/ Perpctl \/ Reported

Spec == Init /\ [][Next]_vars

-----------------------------------------------------------------------------
(* Properties.                                                            *)

Done(t) == report[t] # None

(* Spec 8: decoding status.bin gives back, field for field, the record    *)
(* perpetrate encoded (log only when the supervisor flags announce one),  *)
(* and a status file shorter than 54 bytes is refused with EPROTO, never  *)
(* partly decoded: perp_binstat()'s length check, perp_statload()'s       *)
(* offsets and upak32_unpack()'s byte order.                              *)
StatusDecoding ==
  /\ Binstat.ok => Statload(Binstat.buf) = sv.rec
  /\ "len" \in DOMAIN sv.file /\ sv.file.len < BINSTAT_SIZE => Binstat = [ok |-> FALSE, errno |-> "EPROTO"]

(* The colour perpls -G gives a service says what perpstat's phrases say: *)
(* a want pending on main, else on log, as WU/WD; main down as AD;        *)
(* resetting, paused, or up as AR, AP, AN.  perpls reads panel characters *)
(* (SUBSV_UP and the munge), perpstat the pid and the uptime.  And a      *)
(* service perpok -u passes is one perpls shows running with a pid.       *)
ExpectedCap(ph) ==
  LET want(w) == IF "want up!" \in w THEN "WU"
                 ELSE IF "want down!" \in w THEN "WD" ELSE None
  IN  IF want(ph.main) # None THEN want(ph.main)
      ELSE IF ph.log # None /\ want(ph.log) # None THEN want(ph.log)
      ELSE IF "down" \in ph.main THEN "AD"
      ELSE IF "resetting" \in ph.main THEN "AR"
      ELSE IF "paused" \in ph.main THEN "AP"
      ELSE "AN"

MainStateAgrees ==
  /\ Done("perpls") /\ Done("perpstat") /\ report["perpstat"].class = "ok"
       => /\ report["perpls"].view.cap = ExpectedCap(report["perpstat"].view)
          /\ report["perpls"].view.shown = ("pid" \in report["perpstat"].view.main)
  /\ Done("perpls") /\ Done("perpok") /\ UPSECS > 0 /\ report["perpok"].view = TRUE
       => report["perpls"].view.shown

=============================================================================
