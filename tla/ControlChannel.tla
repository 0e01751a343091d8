--------------------------- MODULE ControlChannel ---------------------------
(***************************************************************************)
(* perpctl's exchange with one service's supervisor (src/perp/perpctl.c,  *)
(* do_control(); src/perp/perp_ready.c; src/lasagna/pkt/pkt_read.c and    *)
(* pkt_write.c).                                                           *)
(*                                                                         *)
(* Each client is one perpctl process sending one command: it probes the   *)
(* supervisor (perp_ready), takes the exclusive lock on ctl.lock, opens    *)
(* the inbound fifo for writing and the outbound fifo for reading (both    *)
(* blocking), writes the command packet, does one read() for the reply,   *)
(* closes everything and checks the reply.  A client may be killed at any  *)
(* point; the kernel then drops its lock and closes its descriptors.       *)
(*                                                                         *)
(* The supervisor (perpetrate) is not under src/ and is modelled from the  *)
(* spec: while it runs it holds the inbound fifo open for reading (that is *)
(* what perp_ready() probes) and the outbound fifo open for writing (else  *)
(* a client's blocking open() of it would not return); it reads one        *)
(* command and writes one reply.  It may crash and be restarted by perpd.  *)
(*                                                                         *)
(* A command packet is abstracted to the client that sent it, a reply to  *)
(* the client whose command it answers and whether its 'E' payload is 0;  *)
(* a fifo is the sequence of packets in it (writes of at most PIPE_BUF     *)
(* bytes are atomic, one read() may return several packets).  A client's  *)
(* chdir() and open() calls may fail (permissions, a removed fifo), at     *)
(* most MAX_FAULTS times in a run.                                         *)
(***************************************************************************)
EXTENDS Naturals, Sequences

CONSTANTS
  Clients,      \* perpctl processes, one command each
  NoOwner,      \* ctl.lock not held / supervisor holds no command
  MAX_DEATHS,   \* bound: clients killed mid-exchange
  MAX_CRASHES,  \* bound: supervisor crashes (each followed by a respawn)
  MAX_FAULTS    \* bound: failing chdir()/open() calls of clients

ASSUME NoOwner \notin Clients
ASSUME MAX_DEATHS \in Nat /\ MAX_CRASHES \in Nat /\ MAX_FAULTS \in Nat

VARIABLES
  cpc,      \* client -> where it is in main()/do_control()
  result,   \* client -> outcome once done
  got,      \* client -> whose command the reply it accepted answers
  lock,     \* holder of the exclusive lock on ctl.lock
  fin,      \* packets in the inbound fifo (commands)
  fout,     \* packets in the outbound fifo (replies)
  srv,      \* the supervisor is "up" or "down"
  srvCmd,   \* command the supervisor has read and not yet answered
  deaths,   \* clients killed so far
  crashes,  \* supervisor crashes so far
  faults,   \* failed client system calls so far
  accepted  \* clients whose command the supervisor carried out (history)

vars == <<cpc, result, got, lock, fin, fout, srv, srvCmd, deaths, crashes,
          faults, accepted>>

Results == {"none", "ok", "not_running", "chdir_error", "open_error",
            "write_error", "read_error", "cmd_error"}

(* A system call of the client fails: one more fault.                     *)
Fault == faults < MAX_FAULTS /\ faults' = faults + 1

(* A client holds a write descriptor of the inbound fifo, a read          *)
(* descriptor of the outbound one, from open() until the closes in        *)
(* do_control().                                                          *)
HoldsFin(c)  == cpc[c] \in {"open_out", "write", "read"}
HoldsFout(c) == cpc[c] \in {"write", "read"}

(* The client closes its descriptors (do_control()'s closes, or the      *)
(* kernel when it is killed), fo being the outbound fifo after its read:  *)
(* with no supervisor, a fifo nobody else holds open loses its contents.  *)
Close(c, fo) ==
  /\ fin' = IF srv = "down" /\ \A d \in Clients \ {c} : ~HoldsFin(d)
            THEN <<>> ELSE fin
  /\ fout' = IF srv = "down" /\ \A d \in Clients \ {c} : ~HoldsFout(d)
             THEN <<>> ELSE fo

(* do_control() returns: the fifos are closed and the lock released.      *)
Finish(c, r, fo) ==
  /\ cpc' = [cpc EXCEPT ![c] = "done"]
  /\ result' = [result EXCEPT ![c] = r]
  /\ lock' = NoOwner
  /\ Close(c, fo)

-----------------------------------------------------------------------------
(* The supervisor's variables, which no client step changes.             *)
srvVars == <<srv, srvCmd, crashes, accepted>>

(* main() gives up on the service before do_control() takes the lock.    *)
Done(c, r) ==
  /\ cpc' = [cpc EXCEPT ![c] = "done"]
  /\ result' = [result EXCEPT ![c] = r]

(* main(): perp_ready() opens the inbound fifo with O_NONBLOCK for        *)
(* writing; it fails with ENXIO unless the supervisor has it open for     *)
(* reading ("supervisor not running", ++errs).  Then chdir() into the     *)
(* service's control directory, which may fail (++errs, next service).    *)
Ready(c) ==
  /\ cpc[c] = "start"
  /\ \/ /\ srv = "up"
        /\ cpc' = [cpc EXCEPT ![c] = "lock"]
        /\ UNCHANGED <<result, faults>>
     \/ /\ srv = "up"
        /\ Fault
        /\ Done(c, "chdir_error")
     \/ /\ srv = "down"
        /\ Done(c, "not_running")
        /\ UNCHANGED faults
  /\ UNCHANGED <<got, lock, fin, fout, deaths>>
  /\ UNCHANGED srvVars

(* open(CTL_LOCK), which may fail (return -1 with no lock); then          *)
(* padlock_exlock(ctl_lock, PADLOCK_WAIT), which blocks while another     *)
(* client holds the lock.                                                 *)
LockMutant(c) ==                        \* mutant: the lock is not taken
  /\ cpc[c] = "lock"
  /\ cpc' = [cpc EXCEPT ![c] = "open_in"]
  /\ UNCHANGED <<result, got, lock, fin, fout, deaths, faults>>
  /\ UNCHANGED srvVars

Lock(c) ==
  /\ cpc[c] = "lock"
  /\ \/ /\ lock = NoOwner
        /\ lock' = c
        /\ cpc' = [cpc EXCEPT ![c] = "open_in"]
        /\ UNCHANGED <<result, faults>>
     \/ /\ Fault
        /\ Done(c, "open_error")
        /\ UNCHANGED lock
  /\ UNCHANGED <<got, fin, fout, deaths>>
  /\ UNCHANGED srvVars

(* open(CTL_IN, O_WRONLY) blocks until there is a reader;                 *)
(* open(CTL_OUT, O_RDONLY) blocks until there is a writer.  Either may    *)
(* fail: do_control() closes what it opened, the lock included, and       *)
(* returns -1.                                                            *)
OpenIn(c) ==
  /\ cpc[c] = "open_in"
  /\ \/ /\ srv = "up"
        /\ cpc' = [cpc EXCEPT ![c] = "open_out"]
        /\ UNCHANGED <<result, lock, fin, fout, faults>>
     \/ /\ Fault
        /\ Finish(c, "open_error", fout)
  /\ UNCHANGED <<got, deaths>>
  /\ UNCHANGED srvVars

OpenOutMutant(c) ==                     \* mutant: close(ctl_lock) left out
  /\ cpc[c] = "open_out"
  /\ \/ /\ srv = "up"
        /\ cpc' = [cpc EXCEPT ![c] = "write"]
        /\ UNCHANGED <<result, lock, fin, fout, faults>>
     \/ /\ Fault
        /\ cpc' = [cpc EXCEPT ![c] = "done"]
        /\ result' = [result EXCEPT ![c] = "open_error"]
        /\ Close(c, fout)
        /\ UNCHANGED lock
  /\ UNCHANGED <<got, deaths>>
  /\ UNCHANGED srvVars

OpenOut(c) ==
  /\ cpc[c] = "open_out"
  /\ \/ /\ srv = "up"
        /\ cpc' = [cpc EXCEPT ![c] = "write"]
        /\ UNCHANGED <<result, lock, fin, fout, faults>>
     \/ /\ Fault
        /\ Finish(c, "open_error", fout)
  /\ UNCHANGED <<got, deaths>>
  /\ UNCHANGED srvVars

(* pkt_write(): the packet goes in whole, or write() fails with EPIPE     *)
(* (SIGPIPE is ignored) when the supervisor has gone.                     *)
Write(c) ==
  /\ cpc[c] = "write"
  /\ \/ /\ srv = "up"
        /\ fin' = Append(fin, c)
        /\ cpc' = [cpc EXCEPT ![c] = "read"]
        /\ UNCHANGED <<result, lock, fout>>
     \/ /\ srv = "down"
        /\ Finish(c, "write_error", fout)
  /\ UNCHANGED <<got, deaths, faults>>
  /\ UNCHANGED srvVars

(* do_control()'s check of a well-framed reply: an 'E' packet whose       *)
(* 4-byte payload is 0 is success, a non-zero one the supervisor's error. *)
VerdictMutant(p) == "ok"                \* mutant: the error code ignored

Verdict(p) == IF p.ok THEN "ok" ELSE "cmd_error"

(* pkt_read(): one read() of up to 258 bytes.  It blocks while the fifo   *)
(* is empty and has a writer; returns 0 (EPROTO) when it has none; and    *)
(* otherwise returns one or more whole packets: exactly one passes the    *)
(* r == n + 3 check, more are a framing error (EPROTO).  The connection  *)
(* is closed either way; a well-framed reply is then checked.             *)
Accept(c, p) == got' = IF Verdict(p) = "ok" THEN [got EXCEPT ![c] = p.to] ELSE got

ReadMutant(c) ==                        \* mutant: lock kept after an error
  /\ cpc[c] = "read"
  /\ \/ /\ fout # <<>>
        /\ \E k \in 1 .. Len(fout) :
             IF k = 1
             THEN Finish(c, Verdict(Head(fout)), Tail(fout)) /\ Accept(c, Head(fout))
             ELSE /\ cpc' = [cpc EXCEPT ![c] = "done"]
                  /\ result' = [result EXCEPT ![c] = "read_error"]
                  /\ Close(c, SubSeq(fout, k + 1, Len(fout)))
                  /\ UNCHANGED <<got, lock>>
     \/ /\ fout = <<>> /\ srv = "down"
        /\ cpc' = [cpc EXCEPT ![c] = "done"]
        /\ result' = [result EXCEPT ![c] = "read_error"]
        /\ Close(c, fout)
        /\ UNCHANGED <<got, lock>>
  /\ UNCHANGED <<deaths, faults>>
  /\ UNCHANGED srvVars

Read(c) ==
  /\ cpc[c] = "read"
  /\ \/ /\ fout # <<>>
        /\ \E k \in 1 .. Len(fout) :
             IF k = 1
             THEN Finish(c, Verdict(Head(fout)), Tail(fout)) /\ Accept(c, Head(fout))
             ELSE Finish(c, "read_error", SubSeq(fout, k + 1, Len(fout)))
                  /\ UNCHANGED got
     \/ /\ fout = <<>> /\ srv = "down"
        /\ Finish(c, "read_error", fout)
        /\ UNCHANGED got
  /\ UNCHANGED <<deaths, faults>>
  /\ UNCHANGED srvVars

(* The client is killed; the kernel releases its lock and descriptors.    *)
Die(c) ==
  /\ cpc[c] \notin {"done", "dead"}
  /\ deaths < MAX_DEATHS
  /\ deaths' = deaths + 1
  /\ cpc' = [cpc EXCEPT ![c] = "dead"]
  /\ lock' = IF lock = c THEN NoOwner ELSE lock
  /\ Close(c, fout)
  /\ UNCHANGED <<result, got, faults>>
  /\ UNCHANGED srvVars

-----------------------------------------------------------------------------
(* The supervisor (spec-modelled): read one command, carry it out or     *)
(* fail to, and write the 'E' reply with error code 0 or the errno.       *)
SrvRecv ==
  /\ srv = "up" /\ srvCmd = NoOwner /\ fin # <<>>
  /\ srvCmd' = Head(fin)
  /\ fin' = Tail(fin)
  /\ UNCHANGED <<cpc, result, got, lock, fout, srv, deaths, crashes, faults,
                 accepted>>

SrvReply ==
  /\ srv = "up" /\ srvCmd # NoOwner
  /\ \E ok \in BOOLEAN :
       /\ fout' = Append(fout, [to |-> srvCmd, ok |-> ok])
       /\ accepted' = IF ok THEN accepted \cup {srvCmd} ELSE accepted
  /\ srvCmd' = NoOwner
  /\ UNCHANGED <<cpc, result, got, lock, fin, srv, deaths, crashes, faults>>

(* It crashes: a command read and not answered is lost; a fifo nobody     *)
(* else holds open loses its contents.                                    *)
SrvCrash ==
  /\ srv = "up"
  /\ crashes < MAX_CRASHES
  /\ crashes' = crashes + 1
  /\ srv' = "down"
  /\ srvCmd' = NoOwner
  /\ fin'  = IF \E c \in Clients : HoldsFin(c)  THEN fin  ELSE <<>>
  /\ fout' = IF \E c \in Clients : HoldsFout(c) THEN fout ELSE <<>>
  /\ UNCHANGED <<cpc, result, got, lock, deaths, faults, accepted>>

(* perpd's next scan forks a new supervisor, which reopens both fifos.    *)
SrvRestart ==
  /\ srv = "down"
  /\ srv' = "up"
  /\ UNCHANGED <<cpc, result, got, lock, fin, fout, srvCmd, deaths, crashes,
                 faults, accepted>>

-----------------------------------------------------------------------------
Init ==
  /\ cpc = [c \in Clients |-> "start"]
  /\ result = [c \in Clients |-> "none"]
  /\ got = [c \in Clients |-> NoOwner]
  /\ lock = NoOwner
  /\ fin = <<>> /\ fout = <<>>
  /\ srv = "up" /\ srvCmd = NoOwner
  /\ deaths = 0 /\ crashes = 0
  /\ faults = 0 /\ accepted = {}

Client(c) ==
  Ready(c) \/ Lock(c) \/ OpenIn(c) \/ OpenOut(c) \/ Write(c) \/ Read(c)

Supervisor == SrvRecv \/ SrvReply \/ SrvRestart

(* Every client has exited (or was killed): nothing is left to happen.    *)
AllExited ==
  /\ \A c \in Clients : cpc[c] \in {"done", "dead"}
  /\ UNCHANGED vars

Next ==
  \/ \E c \in Clients : Client(c) \/ Die(c)
  \/ Supervisor \/ SrvCrash
  \/ AllExited

(* Each process gets the CPU; the supervisor serves its fifo; perpd       *)
(* respawns a supervisor that died (perpd -a, see Perpd's liveness).  A   *)
(* failing system call is an environment choice, never forced.            *)
Fairness ==
  /\ \A c \in Clients : WF_vars(Client(c) /\ faults' = faults)
  /\ WF_vars(Supervisor)

Spec == Init /\ [][Next]_vars /\ Fairness

-----------------------------------------------------------------------------
(* Properties.                                                            *)

(* A perpctl that reports "ok" (and counts no error for the service)     *)
(* accepted the reply to its own command, not one left in the outbound    *)
(* fifo for an earlier client, and the supervisor really carried that     *)
(* command out: the lock and the single framed read pair each command     *)
(* with its reply, and do_control() checks the reply's error code.        *)
ReplyMatches ==
  \A c \in Clients : result[c] = "ok" => got[c] = c /\ c \in accepted

(* Every perpctl eventually returns: no client is left blocked on the     *)
(* lock, on a fifo open() or on the reply read().                         *)
ClientsFinish ==
  \A c \in Clients : <>(cpc[c] \in {"done", "dead"})


-----------------------------------------------------------------------------
(* The abstract exchange of module Exchange, read off this protocol: a    *)
(* client is idle until it holds ctl.lock, in the exchange from then      *)
(* until do_control() returns, and the lock holder is the holder of       *)
(* ctl.lock.                                                              *)
Phase(c) ==
  CASE cpc[c] \in {"start", "lock"}                       -> "idle"
    [] cpc[c] \in {"open_in", "open_out", "write", "read"} -> "exchange"
    [] OTHER                                              -> cpc[c]

Exch == INSTANCE Exchange WITH phase <- [c \in Clients |-> Phase(c)], holder <- lock

(* perpctl implements the exchange spec 4.3 and 5 describe: every fifo    *)
(* open, write and read of a client happens while it alone holds          *)
(* ctl.lock, do_control() releases the lock on every path out of the      *)
(* exchange, a reply accepted as "ok" answers the client's own command,   *)
(* and "not running" is only reported without taking the lock.            *)
ImplementsExchange == Exch!Spec

=============================================================================
