# TLA+ models of perp

These are TLA+ models of the perp process supervisor from wereHamster/perp, kept next to `src/`. TLC checks them. `PROJECT.json` lists the components, the runs and their expected results, the mutants, the line map from every definition to the code it models, the findings and the hazards.

## The system

perp has these parts:

- **perpd** (`src/perp/perpd.c`) is a scanning daemon. It holds a table `sv[]` of at most `PERP_MAX` service entries, keyed by the dev/ino of a service directory. Each entry has the pid of the `perpetrate` supervisor perpd forked for it, and a cull flag.
  - `main()` reads its options (`-a secs` through `nscan_uint32`) and picks the base directory. `perpd_init` enters the base directory and blocks all signals. `setup_control` makes `.control/.perpd` (a dangling `.control` symlink is followed), takes the single-instance `pid.lock` and returns to the base directory. The signal handlers are installed only after that.
  - `main_loop` parks in `poll()` on a self-pipe. Signals are unblocked only there. The timeout is `autoscan*1000` ms, or infinite without `-a`.
  - `sigtrap` sets `flagterm` (on SIGTERM/SIGINT) and writes a byte to the pipe. SIGHUP and SIGCHLD only write the byte.
  - After waking, perpd drains the pipe. It then either shuts down (`perpd_shutdown`) or calls `check_children` (`waitpid(WNOHANG)`) and then `perpd_scan`.
  - `perpd_scan` flags every entry for cull and walks the base directory with `readdir()`. It keeps, restarts (`run_sv`) or adds an entry for every activated directory (one with the sticky bit). It then removes the entries still flagged and sends SIGTERM+SIGCONT to their supervisors.
- **perpetrate** is the supervisor of one service. It is not under `src/`. It holds the control FIFOs, answers one command at a time and publishes a 54-byte `status.bin`.
- **Control channel**: `perpctl` sends a command to a supervisor. It probes it with `perp_ready`, takes `ctl.lock`, opens both FIFOs, then does `pkt_write` and one `pkt_read`.
- **Status readers and clients**: `perpls`, `perpstat` and `perpok` run the same check ladder on a service directory: stat, directory, sticky bit, `perp_ready`. They then read `status.bin` with `perp_binstat`, decode it with `perp_statload`/`upak32_unpack`, and compute uptimes with `perp_uptime`. `perpls` draws a panel and a colour class (`svstat_setcap`). `perpstat` prints phrases. `perpok -u` applies an uptime threshold.
- **The chaining runtools** (`src/runtools/`): `runlimit`, `runuid` and `runpause` each change one attribute of the process (resource limits, credentials, a delay) and `execvx()` the rest of the command line. So a command line such as `runlimit -m 5 runuid daemon catlimits` is a chain of tools in one process. The `cat*` tools (`catlimits`, `catuid`, `catenv`, `catargs`) print what they were given and end the chain.
- **runtrap** (`src/runtools/runtrap.c`) runs a child and respawns it. It forwards each caught signal to a trapper program, which it forks inside the signal handler and waits for there. It exits after SIGTERM once the child has gone.

Interactions:

- The administrator changes the base directory at any time, including between two `readdir()` calls of one scan.
- Supervisors exit at any time and raise SIGCHLD in perpd.
- Clients reach a supervisor only through its control directory. They never talk to perpd.

## Modules

| Module | Models | State and actions |
|---|---|---|
| `Perpd`, `MCPerpd` | perpd's loop with its supervisors, the base directory and signal sources | **State:** the directory (`dir`, `active`); `sv` in table order; the kernel's view of each pid (`proc`, `procIno`); the signals (`pending`, `pipe`, `flagterm`); perpd's `pc`; the scan in progress; the shutdown wait index. **Actions:** `Deliver` = sigtrap; `WakeTerm`/`WakeScan` = main_loop after poll; `ScanOpen`, `ScanEntry(nm)` (one readdir entry with check_sv and run_sv), `ScanEnd` (the errno check and the cull loop, `CullFrom`, reproducing the swap-remove exactly); `ShutdownKill`/`ShutdownWait`/`ShutdownDone`; environment: `MkDir`, `RmDir`, `Rename`, `Chmod`, `ChildExit`, `Raise`. |
| `PerpdMain`, `MCPerpdMain` | perpd's start-up: `main()`, `perpd_init`, `setup_control`, and `nscan_uint32` as the RECURSIVE operator `Nscan` | **Actions:** one step per option (`Option`); `ChooseBase`; `PerpdInit`; `SetupControl`; `StartLoop` (`sig_catch` and the poll interval). The file system, the other perpd holding the lock and failing system calls are choices made at the step that meets them. |
| `ControlChannel`, `MCControlChannel` | several perpctl clients against one supervisor | **Client state:** `cpc` (where the client is), the lock holder, the FIFOs as sequences of packets (the command as the client it belongs to; a reply as that client plus whether its code is 'E'), `faults` (failed chdir()/open() calls so far, at most `MAX_FAULTS`) and `accepted` (a history of the commands the supervisor carried out). **Client actions:** probe, lock, both opens, write, read, close and check; chdir() and the lock or fifo open() can fail, and each failure path closes what `do_control()` opened before it; a client can be killed at any point. **Supervisor actions** (modelled from the spec, perpetrate is not in `src/`): `SrvRecv`, `SrvReply`, `SrvCrash`, `SrvRestart`. |
| `Exchange` | what the locked exchange promises (spec 4.3, 5) | An abstract specification. Each client is idle, in its exchange, done or dead, and one lock holder is tracked. **Actions:** `Refuse` (not running, or chdir()/lock open() failed; no lock), `Acquire`, `Complete` (own reply, or an open, write, read or 'E' error; lock released), `Die`. `ControlChannel` maps onto it with `Phase(c)` and `holder <- lock` through `INSTANCE ... WITH`. |
| `Clients`, `MCClients` | one service as the four tools see it | **State:** the service (directory kind, sticky bit, probe result, status file as an error or a length, and the record perpetrate wrote). **Codec:** the record is encoded by the spec's layout (the tain format and perpetrate are not in `src/`), cut or padded to the file length, read by `Binstat`, decoded by `Statload`. **Actions:** one per tool (`Perpls`, `Perpstat`, `Perpok`, `Perpctl`), each recording what the tool reports. |
| `RunTools`, `MCRunTools` | a chain of runtools in one process | **State:** the chain (a sequence of tool invocations) and the index of the running one, the credentials and resource limits (with their starting values `cred0`, `lim0`), whether SIGALRM is caught, alarms sent, and what `catlimits` printed. **Actions:** `Runlimit` (option loop, `mk_rlimit` lookup and `do_limit` capping at the hard limit, as one fold over the options, then `execvx`), `Runuid` (`getpwnam`, then `setgroups`/`setgid`/`setuid` in the order of `UidCalls`, each allowed or refused by the kernel's rule (`Permitted`: uid 0 may set any id, others only the id they have) or failing for a reason of its own, `fatal_syserr` on the first failure; `syserr` records why), `RunpauseStart`/`RunpauseSleep`/`RunpauseResume` (`sig_catch`, `alarm`, `pause`), `Alarm`, `Catlimits`, `ShowAndExit` (`catuid`, `catenv`, `catargs`, the final program). `rlimit_lookup` is not under `src/` and is modelled from the spec. |
| `RunTrap`, `MCRunTrap` | runtrap | **State:** the main thread's `pc`, the child pid, `flagTerm`, the self-pipe, pending signals, a stack of nested `do_trap` frames, and a small pid space shared with unrelated processes. **Actions:** `LoopExit`, `ChildExec`, `LoopPoll`, `ForkRetry`, `ChildWait`, `PollWake`, `Deliver(s)`, `TrapFork`, `TrapReturn`; environment: `Trapper(p)`, `ChildExit`, `Raise(s)`, `Spawn(p)`. |

Modelling choices:

- `readdir()` returns, as POSIX allows, any name not yet returned that exists now or existed at `opendir()`.
- `fork()` fails when no pid is free, or through at most `MAX_FAULTS` transient failures that leave errno set.
- In `PerpdMain`, unsigned values are modulo 2^W and `int` is W-bit two's complement. The code has W = 32. The runs use W = 16 because TLC's integers are 32-bit. Every wrap and sign flip occurs at W = 16 too, at scaled values.
- Tain stamps are `[sec, nsec]`. The TAI64 label offset is left out. The uptime cast to `uint32_t` is exact for the stamps used.

## Runs

| Run | Module / cfg | Checks | Result |
|---|---|---|---|
| safety | `MCPerpd` / `MCPerpd_safety.cfg` | `TypeOK`, `NoDuplicateService`, `PidBookkeeping`, `NoUntrackedSupervisor` | passes (about 414k states) |
| live | `MCPerpd` / `MCPerpd_live.cfg` | `WantedEventuallySupervised`, `ShutdownCompletes` | passes |
| cull_swap | `MCPerpd` / `MCPerpd_cull_swap.cfg` | `CullComplete` | violated: the cull loop skips the entry swapped into a removed slot (perpd.c:511) |
| cull_errno | `MCPerpd` / `MCPerpd_cull_errno.cfg` | `CullComplete` | violated: errno left by a failed fork() is taken for a readdir() failure, so nothing is culled (perpd.c:497) |
| control_safety | `MCControlChannel` / `MCControl_safety.cfg` | `ReplyMatches`, `ImplementsExchange` | passes: four clients, two supervisor crashes and respawns, two failing chdir()/open() calls, no client deaths. A client that reports ok read its own reply and the supervisor carried its command out, and the protocol refines `Exchange` |
| control_live | `MCControlChannel` / `MCControl_live.cfg` | `ClientsFinish` | passes: three clients, two client deaths and two failing chdir()/open() calls, no supervisor crash. Every client returns |
| control_stale | `MCControlChannel` / `MCControl_stale.cfg` | `ReplyMatches` | violated: a client killed after writing leaves its reply for the next client (perpctl.c:109) |
| control_hang | `MCControlChannel` / `MCControl_hang.cfg` | `ClientsFinish` | violated: a supervisor crash between the write and the read leaves the client blocked in read() holding ctl.lock |
| clients_agree | `MCClients` / `MCClients_agree.cfg` | `StatusDecoding`, `MainStateAgrees` | passes (about 983k states) |
| autoscan_parse | `MCPerpdMain` / `MCAutoscan_parse.cfg` | `NscanMatchesReference`, `LoopEstablished` | passes |
| runtools | `MCRunTools` / `MCRunTools.cfg` | `TypeOK`, `PrivilegesDropped`, `LimitsShown` | passes: every chain of up to two tools over the option sets below |
| runtrap | `MCRunTrap` / `MCRunTrap.cfg` | `TrapperTargetsOwnChild`, `TermLeadsToExit`, `ChildRespawned` | passes |

What the passing properties say:

- **`NoDuplicateService`, `PidBookkeeping`, `NoUntrackedSupervisor`.** Under renames, re-activations and readdir() listing a name twice, no identity is tracked twice. Every pid in the table is a live or unreaped supervisor of that identity. Every running supervisor is in the table.
- **`WantedEventuallySupervised`, `ShutdownCompletes`.** With `-a`, an activated service is eventually supervised. SIGTERM, even when raised during a scan, leads to every supervisor being collected and perpd exiting.
- **`ReplyMatches`, `ClientsFinish`.** These are the two promises of the locked exchange. `ReplyMatches`: a client that reports ok read the reply to its own command, and the supervisor answered that command with a non-'E' code (the history `accepted`). A reply with code 'E' must be reported as an error, never as ok. `ClientsFinish`: every client that is not killed eventually returns from `do_control()`.
- **`ImplementsExchange`.** This is the refinement property `Exch!Spec`. Every step of the protocol is a step of the abstract exchange or leaves its state unchanged. So every fifo open, write and read happens while the client alone holds ctl.lock, and each way out of `do_control()` releases the lock. "ok" carries the client's own reply, and "not running" is reported only before the lock is taken. No fairness is part of it: the hang run shows a client can block for good.
- **`StatusDecoding`.** This is spec §8. The decoded record equals the encoded one field for field, and a 53-byte file is refused with EPROTO.
- **`MainStateAgrees`.**
  - perpls's colour class agrees with perpstat's phrases for main and log. They are computed from different tests: perpls uses SUBSV_UP and a munge of uptime < 1 s, perpstat uses the pid and its own munge.
  - perpls shows a pid exactly when perpstat does.
  - `perpok -u` passes only services perpls shows running.
- **`NscanMatchesReference`.** `-a` is accepted exactly for digit strings, and its value is the decimal value mod 2^W.
- **`LoopEstablished`.** perpd reaches its loop only holding the pidlock, back in the absolute base directory, with signals blocked and handlers installed. This holds whatever the options, base directory choice, `.control` entry and failing calls.
- **`TrapperTargetsOwnChild`.** Every trapper is handed runtrap's own child, never a reused pid.
- **`TermLeadsToExit`, `ChildRespawned`.** After SIGTERM runtrap exits. Before it, a dead child is replaced.
- **`PrivilegesDropped`.** When the chain has ended, the credentials are exactly those of the account named by the last `runuid`. That includes the supplementary groups: `setgroups` replaces every inherited group. A `runuid` that ran and did not drop privileges exited with 111. And runuid, run by root for a known account, exits 111 only when one of its calls failed for a reason of its own (`syserr = "resource"`), never with EPERM because an earlier call took away the right to make a later one: `setuid()` before `setgid()` breaks this.
- **`LimitsShown`.** What `catlimits` prints for each resource is the limit the last documented runlimit option before it asked for, capped at the hard limit. A resource the platform lacks prints as absent. The option order, several runlimits in one chain, and `-m` (which sets DATA, STACK, MEMLOCK and AS together) are all covered.

Every property of a passing run has a mutant in `PROJECT.json`: a `*Mutant` operator standing for a plausible bug in the mapped code. TLC finds each one violating its property.

### Bounds

- **Perpd.**
  - Three directory identities against `PERP_MAX = 2` reach the "too many services" path.
  - Two pids give both EAGAIN and pid reuse.
  - Two administrator operations and one transient fault.
  - The live run uses two identities and no symmetry.
- **ControlChannel.** Four clients with two crashes and two faults (safety), and three clients with two deaths and two faults (liveness). Four clients let a crash, a fault and two waiting clients meet in one trace; symmetry over clients keeps the run small.
- **Clients.**
  - `perp_ready` succeeds or fails with ENXIO, ENOENT or EACCES.
  - Four start stamps around NOW give uptimes 0, 1 and 2, with and without a nanosecond borrow, including a stamp ahead of NOW.
  - Main pids 0 and 258. 258 has two non-zero bytes, so a byte-order error shows.
  - All 16 combinations of RESET/WANT/PAUSE/ONCE for main.
  - Three log records (up, up wanting down, down wanting up) or no log.
  - status.bin missing, unreadable, or 53, 54 or 55 bytes long.
  - `perpok -u 2`.
- **PerpdMain.** Every `-a` string of up to 5 bytes over `/ 0 1 6 9 :`, and seven option sequences.
- **RunTools.** Chains of up to two tools before a final `catlimits`, `catuid`, `catenv`, `catargs`, another program or a missing program. runlimit options `-m`, `-a`, `-c`, `-s` with a value below, at and above the hard limit, `=` (the hard limit) and a bad number. runuid of an existing account, a missing one and no argument. runpause of 0, 3, a bad number and none. A root and a non-root start, one SIGALRM, and any one of the three credential calls failing. Limits are at most 9 (`INF`), which covers below, at and above the hard limit.
- **RunTrap.** Four pids (child, two nested trappers, one unrelated process), two raised signals, one voluntary exit, one fork failure.

## Fairness

- **Perpd.**
  - `WF(Perpd)`: perpd is one thread and blocks only in `poll()` and `waitpid()`.
  - `WF(Deliver(s))`: the kernel delivers a pending unblocked signal.
  - `WF(ChildExit(p))`, only for supervisors already sent SIGTERM+SIGCONT: perpetrate exits on SIGTERM.
  - The administrator and signal senders get no fairness.
- **ControlChannel.** Weak fairness for each client and for the supervisor's receive, reply and restart. Both are processes that run when able, and perpd respawns a supervisor that died. Client fairness is on `Client(c) /\ faults' = faults`: a failing system call is the environment's choice and is never forced, so a client waiting for the lock cannot escape through an open() error.
- **RunTools.** None: `MCRunTools.cfg` checks safety only, and deadlock is not checked because `runpause 0` may wait in `pause()` for ever.
- **RunTrap.**
  - Weak fairness for the main loop, the handlers, signal delivery, and each trapper's exit.
  - `TERM_KILLS` states the assumption that main_loop's comment makes: the trapper run for SIGTERM ends the child.

## Findings

Four code bugs, each shown by a violation run: cull_swap, cull_errno, control_stale and control_hang. `PROJECT.json` gives the details.

Bugs found while modelling, recorded as hazards because the run budget has no room for their violation runs:

- **runlimit -f is never applied.** The option looks up `"RLIMIT_FILE"` (runlimit.c:106), and `mk_rlimit` only defines `RLIMIT_FSIZE`. So the lookup fails and the file-size limit is silently skipped. With `-f` added to the runlimit options of `MCRunTools`, TLC finds `LimitsShown` violated.
- **The autoscan interval overflows.** `-a` of 2147484 or more gives poll() a negative or wrapped timeout (perpd.c:533).

Divergences that are recorded as hazards with notes, because they have no run:

- perpok reports EACCES from `perp_ready` as "not running".
- perpctl does not check the sticky bit.
- perpctl exits 111, not the error count.
- perp_binstat accepts a status file longer than 54 bytes.
- Without `-a`, a failed fork is not retried until a signal arrives.

## Not modelled

- **Option parsing of the client tools.** Also the readdir of the base directory and the sort in perpls, which order output only. Column layout and colours are left out too.
- **perpetrate.** It is not in `src/`. It appears only through its spec-given behaviour.
- **`upak`/`upak16`/`upak64`, `perp_devino`, `perp_ctlpath`.** The control directory is abstracted to the service it belongs to, and the tx64 encoder is not in `src/`.
- **Logging, buffers (dynbuf, outvec, ioq) and `nfmt`.** These are output only.
- **hdb.** It is a separate database builder that nothing here uses (spec: out of scope).
- **runtools I/O.** The printing of the `cat*` tools is abstracted to what they report. The 32-bit formatting in `catlimits` (limits of 2^32 and more are truncated) and the lost wake-up in `runpause` (a SIGALRM between `sig_catch` and `pause()`) are recorded as hazards without a property.

- **perpctl's batch loop.** `main()` runs `do_control()` once per service argument and maps the command letters and `-L`. Each client here makes one exchange with one service; a second service would be an independent copy of the same protocol.
- **Inode reuse in perpd.** A service removed and a new one created with the same inode between two scans is taken for the old one (hazard at perpd.c:466). Showing it would take a violation run of its own; the project keeps to twelve runs and this one is recorded as a hazard without a property.

Left open:

- An abstract specification of perpd's promise, "each wanted service eventually has exactly one supervisor", with `Perpd` shown to refine it through `INSTANCE ... WITH` (as `ControlChannel` refines `Exchange`).
