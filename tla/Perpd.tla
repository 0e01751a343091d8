-------------------------------- MODULE Perpd --------------------------------
(***************************************************************************)
(* The perpd scanning daemon (src/perp/perpd.c).                           *)
(*                                                                         *)
(* One perpd thread runs main_loop(): it parks in poll() on the self-pipe  *)
(* with signals unblocked, and otherwise runs check_children() and         *)
(* perpd_scan() with every signal blocked.  The scan walks the base        *)
(* directory one readdir() entry at a time, so the administrator may       *)
(* create, remove, rename or (de)activate service directories between two  *)
(* entries; the supervisors it forks exit whenever they like and raise     *)
(* SIGCHLD.  The table sv[] keeps its order, because the culling loop's    *)
(* removal (swap in the last entry) depends on it.                         *)
(*                                                                         *)
(* Data is abstracted: a directory entry is a name, a dev/ino pair is an   *)
(* identity, a pid is a model value; log messages are left out.           *)
(***************************************************************************)
EXTENDS Naturals, Sequences, FiniteSets, Functions

CONSTANTS
  Names,      \* names of entries in the base directory (none begins with '.')
  Inos,       \* dev/ino identities of directories
  Pids,       \* process ids the kernel can hand out
  NoPid,      \* the pid 0 of an entry without a running supervisor
  None,       \* no directory under a name / no identity
  PERP_MAX,   \* capacity of sv[] (perp_common.h)
  AUTOSCAN,   \* TRUE iff perpd runs with -a secs > 0 (poll() times out)
  ADMIN_OPS,  \* bound: number of changes the administrator makes
  MAX_FAULTS  \* bound: number of transient opendir/readdir/fork failures

ASSUME PERP_MAX \in Nat \ {0}
ASSUME AUTOSCAN \in BOOLEAN
ASSUME ADMIN_OPS \in Nat /\ MAX_FAULTS \in Nat
ASSUME NoPid \notin Pids /\ None \notin Inos

Signals == {"TERM", "HUP", "CHLD"}   \* SIGINT is handled as SIGTERM

VARIABLES
  dir,       \* base directory: name -> identity, or None
  active,    \* identity -> sticky ("activation") bit of that directory
  sv,        \* perpd->sv[0 .. n-1] as a sequence of [ino, pid, cull]
  proc,      \* pid -> "free" | "run" | "term" (sent SIGTERM) | "zombie"
  procIno,   \* pid -> identity of the service the process supervises
  pending,   \* signals raised while blocked, not yet delivered
  pipe,      \* the self-pipe holds at least one byte
  flagterm,  \* set by sigtrap() on SIGTERM/SIGINT
  pc,        \* where the perpd thread is
  snap,      \* the directory as it was at opendir()
  seen,      \* names readdir() has returned in this scan
  errno,     \* errno is nonzero inside perpd_scan()
  widx,      \* index of the entry perpd_shutdown() waits for
  ops,       \* administrator changes made so far
  faults     \* transient system call failures so far

vars == <<dir, active, sv, proc, procIno, pending, pipe, flagterm, pc,
          snap, seen, errno, widx, ops, faults>>

Entry == [ino : Inos, pid : Pids \cup {NoPid}, cull : BOOLEAN]

(* Identities of directories perpd should supervise right now.            *)
Wanted == {dir[nm] : nm \in {n \in Names : dir[n] # None /\ active[dir[n]]}}

Present == Range(dir) \ {None}

Tracked(x) == \E i \in DOMAIN sv : sv[i].ino = x

Supervised(x) == \E i \in DOMAIN sv : sv[i].ino = x /\ sv[i].pid # NoPid

(* kill(pid, SIGTERM) on every pid of P: a live process starts to exit.   *)
Term(P) == [p \in Pids |-> IF p \in P /\ proc[p] = "run" THEN "term" ELSE proc[p]]

-----------------------------------------------------------------------------
(* sigtrap() + selfpipe_ping(): runs only while perpd is parked in poll() *)
(* (the only place signals are unblocked); sets the flag, writes a byte.  *)
Deliver(s) ==
  /\ pc = "poll"
  /\ s \in pending
  /\ pending' = pending \ {s}
  /\ flagterm' = (flagterm \/ s = "TERM")
  /\ pipe' = TRUE
  /\ UNCHANGED <<dir, active, sv, proc, procIno, pc, snap, seen, errno,
                 widx, ops, faults>>

(* check_children(): waitpid(WNOHANG) every zombie, clear the pid of the  *)
(* first entry holding it.                                                *)
ReapedMutant(i) == FALSE                 \* mutant: pid never cleared
Reaped(i) ==
  /\ proc[sv[i].pid] = "zombie"
  /\ \A j \in 1 .. i - 1 : sv[j].pid # sv[i].pid

CheckChildren ==
  /\ sv' = [i \in DOMAIN sv |->
              IF sv[i].pid # NoPid /\ Reaped(i)
              THEN [sv[i] EXCEPT !.pid = NoPid] ELSE sv[i]]
  /\ proc' = [p \in Pids |-> IF proc[p] = "zombie" THEN "free" ELSE proc[p]]

(* main_loop(): poll() returns (a byte in the self-pipe, or the -a timer), *)
(* signals are blocked again, the pipe is drained; then either leave the  *)
(* loop on flagterm, or reap children and rescan.  Unblocking delivers    *)
(* every pending signal before poll() is entered, so none is pending.     *)
WakeTerm ==
  /\ pc = "poll"
  /\ pending = {}
  /\ pipe \/ AUTOSCAN
  /\ flagterm
  /\ pipe' = FALSE
  /\ pc' = "shutdown"
  /\ UNCHANGED <<dir, active, sv, proc, procIno, pending, flagterm, snap,
                 seen, errno, widx, ops, faults>>

WakeScanMutant ==                        \* mutant: poll() never times out
  /\ pc = "poll"
  /\ pending = {}
  /\ pipe
  /\ ~flagterm
  /\ pipe' = FALSE
  /\ CheckChildren
  /\ pc' = "scan_open"
  /\ UNCHANGED <<dir, active, procIno, pending, flagterm, snap, seen, errno,
                 widx, ops, faults>>

WakeScan ==
  /\ pc = "poll"
  /\ pending = {}
  /\ pipe \/ AUTOSCAN
  /\ ~flagterm
  /\ pipe' = FALSE
  /\ CheckChildren
  /\ pc' = "scan_open"
  /\ UNCHANGED <<dir, active, procIno, pending, flagterm, snap, seen, errno,
                 widx, ops, faults>>

-----------------------------------------------------------------------------
(* perpd_scan(): opendir() fails (warn and return) ...                    *)
ScanOpenFail ==
  /\ pc = "scan_open"
  /\ faults < MAX_FAULTS
  /\ faults' = faults + 1
  /\ pc' = "poll"
  /\ UNCHANGED <<dir, active, sv, proc, procIno, pending, pipe, flagterm,
                 snap, seen, errno, widx, ops>>

(* ... or succeeds: flag every entry for cull, errno = 0.                 *)
ScanOpen ==
  /\ pc = "scan_open"
  /\ sv' = [i \in DOMAIN sv |-> [sv[i] EXCEPT !.cull = TRUE]]
  /\ snap' = dir
  /\ seen' = {}
  /\ errno' = FALSE
  /\ pc' = "readdir"
  /\ UNCHANGED <<dir, active, proc, procIno, pending, pipe, flagterm, widx,
                 ops, faults>>

(* run_sv(perpd, i, svdir) on the table t: fork() succeeds with a free    *)
(* pid, or fails (EAGAIN when no pid is free, or a transient failure)     *)
(* leaving errno set and the entry's pid 0.                               *)
RunSv(t, i) ==
  \/ \E p \in Pids :
       /\ proc[p] = "free"
       /\ sv' = [t EXCEPT ![i].pid = p, ![i].cull = FALSE]
       /\ proc' = [proc EXCEPT ![p] = "run"]
       /\ procIno' = [procIno EXCEPT ![p] = t[i].ino]
       /\ UNCHANGED <<errno, faults>>
  \/ /\ \/ /\ \A p \in Pids : proc[p] # "free"
           /\ UNCHANGED faults
        \/ /\ faults < MAX_FAULTS
           /\ faults' = faults + 1
     /\ sv' = t
     /\ errno' = TRUE
     /\ UNCHANGED <<proc, procIno>>

(* Room for one more entry: perpd->n < perpd->max.                        *)
HasRoomMutant == Len(sv) <= PERP_MAX     \* mutant: off by one
HasRoom == Len(sv) < PERP_MAX

(* The search of sv[] for x ended without a match (i == perpd->n).        *)
NotFoundMutant(x) == TRUE               \* mutant: the loop lacks its break
NotFound(x) == ~Tracked(x)

(* One readdir() entry nm and what the loop body does with it:            *)
(* check_sv() (stat, directory, sticky bit), the search for its dev/ino,  *)
(* and a restart or an addition with run_sv().                            *)
ScanEntry(nm) ==
  /\ pc = "readdir"
  /\ nm \notin seen
  /\ dir[nm] # None \/ snap[nm] # None
  /\ seen' = seen \cup {nm}
  /\ LET x == dir[nm] IN
     \/ /\ x = None                               \* stat() fails
        /\ errno' = FALSE
        /\ UNCHANGED <<sv, proc, procIno, faults>>
     \/ /\ x # None /\ ~active[x]                 \* not an active service
        /\ UNCHANGED <<sv, proc, procIno, errno, faults>>
     \/ /\ x # None /\ active[x]
        /\ \E i \in DOMAIN sv :
             /\ sv[i].ino = x
             /\ \A j \in 1 .. i - 1 : sv[j].ino # x
             /\ LET t == [sv EXCEPT ![i].cull = FALSE] IN
                \/ /\ sv[i].pid # NoPid           \* keeper
                   /\ sv' = t
                   /\ UNCHANGED <<proc, procIno, errno, faults>>
                \/ /\ sv[i].pid = NoPid           \* restart supervisor
                   /\ RunSv(t, i)
     \/ /\ x # None /\ active[x] /\ NotFound(x)
        /\ ~HasRoom                                \* too many services
        /\ UNCHANGED <<sv, proc, procIno, errno, faults>>
     \/ /\ x # None /\ active[x] /\ NotFound(x)
        /\ HasRoom                                \* add new service
        /\ RunSv(Append(sv, [ino |-> x, pid |-> NoPid, cull |-> FALSE]),
                 Len(sv) + 1)
  /\ UNCHANGED <<dir, active, pending, pipe, flagterm, pc, snap, widx,
                 ops>>

(* readdir() may return NULL once every name that was there at opendir()  *)
(* and is still there unchanged has been returned; names created,         *)
(* removed or renamed since may or may not have been (POSIX).             *)
ReaddirDone ==
  \A nm \in Names : snap[nm] # None /\ dir[nm] = snap[nm] => nm \in seen

(* The culling loop: for (i = 0; i < n; ++i) if (sv[i].cull) {kill;       *)
(* --n; sv[i] = sv[n];}.  Returns the new table and the pids signalled.   *)
RECURSIVE CullFromMutant(_, _)           \* mutant: no kill() on cull
CullFromMutant(t, i) ==
  IF i > Len(t) THEN <<t, {}>>
  ELSE IF ~t[i].cull THEN CullFromMutant(t, i + 1)
  ELSE CullFromMutant(SubSeq([t EXCEPT ![i] = t[Len(t)]], 1, Len(t) - 1), i + 1)

RECURSIVE CullFrom(_, _)
CullFrom(t, i) ==
  IF i > Len(t) THEN <<t, {}>>
  ELSE IF ~t[i].cull THEN CullFrom(t, i + 1)
  ELSE LET rest == CullFrom(SubSeq([t EXCEPT ![i] = t[Len(t)]], 1, Len(t) - 1),
                            i + 1)
       IN  <<rest[1], rest[2] \cup ({t[i].pid} \ {NoPid})>>

(* readdir() returns NULL; errno is inspected: nonzero means "failure     *)
(* readdir()" and return, else every entry still flagged is culled.       *)
ScanEnd ==
  /\ pc = "readdir"
  /\ ReaddirDone
  /\ \/ /\ errno
        /\ UNCHANGED <<sv, proc>>
     \/ /\ ~errno
        /\ LET r == CullFrom(sv, 1) IN
             /\ sv' = r[1]
             /\ proc' = Term(r[2])
  /\ pc' = "poll"
  /\ UNCHANGED <<dir, active, procIno, pending, pipe, flagterm, snap, seen,
                 errno, widx, ops, faults>>

(* readdir() fails with errno set: the same early return, no culling.     *)
ScanReadFail ==
  /\ pc = "readdir"
  /\ faults < MAX_FAULTS
  /\ faults' = faults + 1
  /\ pc' = "poll"
  /\ UNCHANGED <<dir, active, sv, proc, procIno, pending, pipe, flagterm,
                 snap, seen, errno, widx, ops>>

-----------------------------------------------------------------------------
(* perpd_shutdown(): SIGTERM+SIGCONT to every entry with a pid, then      *)
(* waitpid() each entry's pid in table order.                             *)
ShutdownKillMutant ==                    \* mutant: no kill() at shutdown
  /\ pc = "shutdown"
  /\ widx' = 1
  /\ pc' = "wait"
  /\ UNCHANGED <<dir, active, sv, proc, procIno, pending, pipe, flagterm,
                 snap, seen, errno, ops, faults>>

ShutdownKill ==
  /\ pc = "shutdown"
  /\ proc' = Term({sv[i].pid : i \in DOMAIN sv} \ {NoPid})
  /\ widx' = 1
  /\ pc' = "wait"
  /\ UNCHANGED <<dir, active, sv, procIno, pending, pipe, flagterm, snap,
                 seen, errno, widx, ops, faults>>

(* waitpid(0, ...) for an entry without a pid returns ECHILD at once:     *)
(* every supervisor has left perpd's process group with setsid().         *)
ShutdownWait ==
  /\ pc = "wait"
  /\ widx <= Len(sv)
  /\ LET p == sv[widx].pid IN
     \/ /\ p = NoPid
        /\ UNCHANGED proc
     \/ /\ p # NoPid
        /\ proc[p] = "zombie"
        /\ proc' = [proc EXCEPT ![p] = "free"]
  /\ widx' = widx + 1
  /\ UNCHANGED <<dir, active, sv, procIno, pending, pipe, flagterm, pc, snap,
                 seen, errno, ops, faults>>

ShutdownDone ==
  /\ pc = "wait"
  /\ widx > Len(sv)
  /\ pc' = "done"
  /\ UNCHANGED <<dir, active, sv, proc, procIno, pending, pipe, flagterm,
                 snap, seen, errno, widx, ops, faults>>

-----------------------------------------------------------------------------
(* The environment: the administrator changes the base directory or sends *)
(* a signal (perphup sends SIGHUP), at most ADMIN_OPS times; supervisors  *)
(* exit at any time.                                                      *)
AdminStep(newDir, newActive) ==
  /\ ops < ADMIN_OPS
  /\ ops' = ops + 1
  /\ dir' = newDir
  /\ active' = newActive
  /\ UNCHANGED <<sv, proc, procIno, pending, pipe, flagterm, pc, snap, seen,
                 errno, widx, faults>>

MkDir(nm, x, on) ==
  /\ dir[nm] = None /\ x \notin Present
  /\ AdminStep([dir EXCEPT ![nm] = x], [active EXCEPT ![x] = on])

RmDir(nm) ==
  /\ dir[nm] # None
  /\ AdminStep([dir EXCEPT ![nm] = None], active)

Rename(nm, to) ==
  /\ dir[nm] # None /\ dir[to] = None
  /\ AdminStep([dir EXCEPT ![nm] = None, ![to] = dir[nm]], active)

Chmod(x, on) ==
  /\ x \in Present /\ active[x] # on
  /\ AdminStep(dir, [active EXCEPT ![x] = on])

ChildExit(p) ==
  /\ proc[p] \in {"run", "term"}
  /\ proc' = [proc EXCEPT ![p] = "zombie"]
  /\ pending' = pending \cup {"CHLD"}
  /\ UNCHANGED <<dir, active, sv, procIno, pipe, flagterm, pc, snap, seen,
                 errno, widx, ops, faults>>

Raise(s) ==
  /\ ops < ADMIN_OPS
  /\ s \notin pending
  /\ ops' = ops + 1
  /\ pending' = pending \cup {s}
  /\ UNCHANGED <<dir, active, sv, proc, procIno, pipe, flagterm, pc, snap,
                 seen, errno, widx, faults>>

-----------------------------------------------------------------------------
Init ==
  /\ dir \in {d \in [Names -> Inos \cup {None}] :
                \A m, n \in Names : m # n /\ d[m] # None => d[m] # d[n]}
  /\ active \in [Inos -> BOOLEAN]
  /\ sv = <<>>
  /\ proc = [p \in Pids |-> "free"]
  /\ procIno = [p \in Pids |-> None]
  /\ pending = {}
  /\ pipe = FALSE
  /\ flagterm = FALSE
  /\ pc = "scan_open"          \* main_loop() begins with perpd_scan()
  /\ snap = [nm \in Names |-> None]
  /\ seen = {}
  /\ errno = FALSE
  /\ widx = 1
  /\ ops = 0
  /\ faults = 0

Perpd ==
  \/ WakeTerm \/ WakeScan
  \/ ScanOpen \/ ScanOpenFail
  \/ \E nm \in Names : ScanEntry(nm)
  \/ ScanEnd \/ ScanReadFail
  \/ ShutdownKill \/ ShutdownWait \/ ShutdownDone

Environment ==
  \/ \E nm \in Names, x \in Inos, on \in BOOLEAN : MkDir(nm, x, on)
  \/ \E nm \in Names : RmDir(nm)
  \/ \E nm, to \in Names : Rename(nm, to)
  \/ \E x \in Inos, on \in BOOLEAN : Chmod(x, on)
  \/ \E p \in Pids : ChildExit(p)
  \/ \E s \in {"TERM", "HUP"} : Raise(s)

(* perpd has exited (main() returns): the only behaviour left.           *)
Exited == pc = "done" /\ UNCHANGED vars

Next ==
  \/ Perpd
  \/ Exited
  \/ \E s \in Signals : Deliver(s)
  \/ Environment

(* perpd runs whenever it can; the kernel delivers an unblocked pending   *)
(* signal; a supervisor sent SIGTERM+SIGCONT exits (perpetrate's TERM     *)
(* handling).  The administrator and supervisor crashes get none.         *)
Fairness ==
  /\ WF_vars(Perpd)
  /\ \A s \in Signals : WF_vars(Deliver(s))
  /\ \A p \in Pids : WF_vars(proc[p] = "term" /\ ChildExit(p))

Spec == Init /\ [][Next]_vars /\ Fairness

-----------------------------------------------------------------------------
TypeOK ==
  /\ dir \in [Names -> Inos \cup {None}]
  /\ active \in [Inos -> BOOLEAN]
  /\ sv \in Seq(Entry) /\ Len(sv) <= PERP_MAX
  /\ proc \in [Pids -> {"free", "run", "term", "zombie"}]
  /\ procIno \in [Pids -> Inos \cup {None}]
  /\ pending \subseteq Signals
  /\ pipe \in BOOLEAN /\ flagterm \in BOOLEAN /\ errno \in BOOLEAN
  /\ pc \in {"scan_open", "readdir", "poll", "shutdown", "wait", "done"}
  /\ seen \subseteq Names
  /\ widx \in 1 .. PERP_MAX + 1
  /\ ops \in 0 .. ADMIN_OPS /\ faults \in 0 .. MAX_FAULTS

-----------------------------------------------------------------------------
(* Properties.                                                            *)

(* perpd_scan() keys sv[] by dev/ino: however directories are renamed,   *)
(* re-activated or listed twice by one readdir() pass, no identity is     *)
(* ever tracked by two entries (which would fork two supervisors onto     *)
(* one control directory).                                                *)
NoDuplicateService ==
  \A i, j \in DOMAIN sv : i # j => sv[i].ino # sv[j].ino

(* Pid bookkeeping of run_sv()/check_children(): every pid in sv[] is an  *)
(* unreaped child of perpd supervising that entry's identity, and it has  *)
(* not been sent SIGTERM (outside shutdown).  So kill() in the cull loop  *)
(* or at shutdown never reaches a recycled pid or another service.        *)
PidBookkeeping ==
  \A i \in DOMAIN sv :
     /\ sv[i].pid # NoPid
     /\ pc \in {"wait", "done"} => i >= widx
     => /\ procIno[sv[i].pid] = sv[i].ino
        /\ proc[sv[i].pid] \in IF pc = "wait" THEN {"term", "zombie"}
                                              ELSE {"run", "zombie"}

(* Removing an entry from sv[] (cull loop) always sends SIGTERM first:    *)
(* every supervisor perpd has not asked to terminate is in its table.     *)
NoUntrackedSupervisor ==
  \A p \in Pids : proc[p] = "run" => \E i \in DOMAIN sv : sv[i].pid = p

(* With -a secs, an activated service directory is eventually supervised *)
(* (perpd_scan() adds or restarts it), unless it goes away, or perpd is  *)
(* told to terminate.  Needs PERP_MAX >= |Inos|.                          *)
WantedEventuallySupervised ==
  \A x \in Inos :
     x \in Wanted ~> (Supervised(x) \/ x \notin Wanted \/ flagterm)

(* SIGTERM/SIGINT, even when raised while signals are blocked during a    *)
(* scan, makes perpd stop scanning, terminate every supervisor, collect   *)
(* them all and exit.                                                     *)
ShutdownCompletes ==
  ("TERM" \in pending \/ flagterm) ~> pc = "done"

(* Spec 4.1 step 4: a scan that reads the whole base directory removes    *)
(* every entry still flagged for cull (the readdir() failure path, which  *)
(* counts a fault, is excluded).                                          *)
CullComplete ==
  [][pc = "readdir" /\ pc' = "poll" /\ faults' = faults
       => \A i \in DOMAIN sv' : ~sv'[i].cull]_vars

=============================================================================
