------------------------------- MODULE RunTrap -------------------------------
(***************************************************************************)
(* runtrap (src/runtools/runtrap.c): runs a child, respawns it when it     *)
(* exits, and passes each caught signal to a "trapper" program, which it   *)
(* forks from inside the signal handler and waits for there.  SIGTERM     *)
(* additionally makes runtrap exit once the child has gone.                *)
(*                                                                         *)
(* Like perpd, runtrap keeps every signal blocked except while it sits in *)
(* poll() on its self-pipe.  Handlers run there, and a handler that is    *)
(* waiting for its trapper can itself be interrupted by a different       *)
(* signal (only the signal being handled is masked), so handlers nest:    *)
(* `stack` holds the do_trap() frames in progress, innermost first.       *)
(*                                                                         *)
(* Processes live in a small pid space shared with unrelated processes,   *)
(* so a pid freed by a reap can be taken by someone else.  The 1 s        *)
(* respawn pause and the 2 s fork retry sleep are delays only; the        *)
(* last_signal bookkeeping is written and never read, and is left out.    *)
(***************************************************************************)
EXTENDS Naturals, Sequences

CONSTANTS
  Pids,          \* the pid space
  NoPid,         \* pid 0: my_child.pid when there is no child
  TERM_KILLS,    \* the trapper run for SIGTERM always ends the child
  MAX_SIGNALS,   \* bound: SIGTERM/SIGHUP raised by others
  MAX_EXITS,     \* bound: the child exits by itself
  MAX_FAULTS,    \* bound: transient fork() failures
  MAX_FOREIGN    \* bound: unrelated processes started

ASSUME NoPid \notin Pids /\ TERM_KILLS \in BOOLEAN
ASSUME \A b \in {MAX_SIGNALS, MAX_EXITS, MAX_FAULTS, MAX_FOREIGN} : b \in Nat

(* SIGHUP stands for every signal passed to the trapper without ending    *)
(* runtrap (SIGINT, SIGALRM, SIGCONT, SIGQUIT, SIGTSTP, SIGUSR1/2).       *)
Sigs == {"TERM", "HUP", "CHLD"}
ProcStates == {"free", "child", "zombie", "trapper", "trapdone", "other"}

VARIABLES
  pc,        \* main_loop(): "top" | "poll" | "exit"
  childPid,  \* my_child.pid
  flagTerm,  \* flag_term
  pipe,      \* the self-pipe holds a byte
  pending,   \* signals raised and not yet delivered
  stack,     \* do_trap() frames, innermost first
  proc,      \* pid -> what runs under it
  signals, exits, faults, foreign

vars == <<pc, childPid, flagTerm, pipe, pending, stack, proc,
          signals, exits, faults, foreign>>

Frame == [sig : Sigs, st : {"fork", "wait"}, trapper : Pids \cup {NoPid},
          target : Pids \cup {NoPid}]

Free == {p \in Pids : proc[p] = "free"}
Masked == {stack[i].sig : i \in 1 .. Len(stack)}

(* A process exits: it stays a zombie of runtrap until reaped, and the    *)
(* kernel raises SIGCHLD.                                                  *)
Dies(p, st) ==
  /\ proc' = [proc EXCEPT ![p] = st]
  /\ pending' = pending \cup {"CHLD"}

-----------------------------------------------------------------------------
(* main_loop(), top of the loop: the terminal condition.                  *)
LoopExit ==
  /\ pc = "top"
  /\ flagTerm /\ childPid = NoPid
  /\ pc' = "exit"
  /\ UNCHANGED <<childPid, flagTerm, pipe, pending, stack, proc,
                 signals, exits, faults, foreign>>

(* child_exec(): fork() until it succeeds (sleeping 2 s after each        *)
(* failure), record the pid, go to poll().                                 *)
ChildExecMutant ==                       \* mutant: respawn tested first
  /\ pc = "top"
  /\ childPid = NoPid
  /\ \E p \in Free :
       /\ proc' = [proc EXCEPT ![p] = "child"]
       /\ childPid' = p
  /\ pc' = "poll"
  /\ UNCHANGED <<flagTerm, pipe, pending, stack, signals, exits, faults, foreign>>

ChildExec ==
  /\ pc = "top"
  /\ ~flagTerm /\ childPid = NoPid
  /\ \E p \in Free :
       /\ proc' = [proc EXCEPT ![p] = "child"]
       /\ childPid' = p
  /\ pc' = "poll"
  /\ UNCHANGED <<flagTerm, pipe, pending, stack, signals, exits, faults, foreign>>

(* A child is running: straight to poll().                                *)
LoopPoll ==
  /\ pc = "top"
  /\ childPid # NoPid
  /\ pc' = "poll"
  /\ UNCHANGED <<childPid, flagTerm, pipe, pending, stack, proc,
                 signals, exits, faults, foreign>>

(* A fork() that fails: a transient failure, or no pid free.  The loop    *)
(* sleeps and tries again (in child_exec() or in do_trap()).              *)
ForkFails == faults < MAX_FAULTS \/ Free = {}

ForkRetry ==
  /\ \/ pc = "top" /\ ~flagTerm /\ childPid = NoPid
     \/ pc = "poll" /\ stack # <<>> /\ Head(stack).st = "fork"
  /\ ForkFails
  /\ faults' = IF Free = {} THEN faults ELSE faults + 1
  /\ UNCHANGED <<pc, childPid, flagTerm, pipe, pending, stack, proc,
                 signals, exits, foreign>>

(* child_wait(): waitpid(-1, WNOHANG) reaps every zombie child; the main  *)
(* child's pid is cleared when it is among them.                          *)
ChildWaitMutant ==                       \* mutant: my_child.pid kept
  /\ proc' = [p \in Pids |-> IF proc[p] = "zombie" THEN "free" ELSE proc[p]]
  /\ UNCHANGED childPid

ChildWait ==
  /\ proc' = [p \in Pids |-> IF proc[p] = "zombie" THEN "free" ELSE proc[p]]
  /\ childPid' = IF childPid # NoPid /\ proc[childPid] = "zombie"
                 THEN NoPid ELSE childPid

(* poll() returns once no handler is running and the pipe has a byte;     *)
(* signals are blocked again, the pipe drained, children reaped.          *)
PollWake ==
  /\ pc = "poll" /\ stack = <<>> /\ pipe
  /\ pipe' = FALSE
  /\ ChildWait
  /\ pc' = "top"
  /\ UNCHANGED <<flagTerm, pending, stack, signals, exits, faults, foreign>>

-----------------------------------------------------------------------------
(* sigtrap(), entered for a pending signal while poll() has signals       *)
(* unblocked and that signal is not already being handled.  After         *)
(* SIGTERM every signal is only pinged; SIGCHLD is only pinged; any other *)
(* enters do_trap(), which discards it when kill(my_child.pid, 0) fails  *)
(* (no process has that pid) and otherwise goes on to fork the trapper.   *)
Deliver(s) ==
  /\ pc = "poll"
  /\ s \in pending /\ s \notin Masked
  /\ pending' = pending \ {s}
  /\ IF flagTerm \/ s = "CHLD"
     THEN pipe' = TRUE /\ UNCHANGED <<flagTerm, stack>>
     ELSE /\ flagTerm' = (s = "TERM")
          /\ IF childPid = NoPid \/ proc[childPid] = "free"
             THEN pipe' = TRUE /\ UNCHANGED stack
             ELSE /\ stack' = << [sig |-> s, st |-> "fork", trapper |-> NoPid,
                                  target |-> childPid] >> \o stack
                  /\ UNCHANGED pipe
  /\ UNCHANGED <<pc, childPid, proc, signals, exits, faults, foreign>>

(* do_trap(): the fork() succeeds; the trapper is exec'd with the child's *)
(* pid and the signal, and the handler blocks in waitpid() on it.         *)
TrapFork ==
  /\ pc = "poll" /\ stack # <<>> /\ Head(stack).st = "fork"
  /\ \E p \in Free :
       /\ proc' = [proc EXCEPT ![p] = "trapper"]
       /\ stack' = << [Head(stack) EXCEPT !.st = "wait", !.trapper = p] >>
                    \o Tail(stack)
  /\ UNCHANGED <<pc, childPid, flagTerm, pipe, pending, signals, exits,
                 faults, foreign>>

(* waitpid() returns the trapper: the handler returns and pings the pipe. *)
TrapReturn ==
  /\ pc = "poll" /\ stack # <<>>
  /\ Head(stack).st = "wait" /\ proc[Head(stack).trapper] = "trapdone"
  /\ proc' = [proc EXCEPT ![Head(stack).trapper] = "free"]
  /\ stack' = Tail(stack)
  /\ pipe' = TRUE
  /\ UNCHANGED <<pc, childPid, flagTerm, pending, signals, exits, faults,
                 foreign>>

-----------------------------------------------------------------------------
(* The trapper program (not part of runtrap) runs and exits; it may have  *)
(* ended the child.  With TERM_KILLS, the one run for SIGTERM does.       *)
Trapper(p) ==
  /\ proc[p] = "trapper"
  /\ \E i \in 1 .. Len(stack) :
       /\ stack[i].trapper = p
       /\ \E kill \in BOOLEAN :
            /\ TERM_KILLS /\ stack[i].sig = "TERM" => kill
            /\ LET t == stack[i].target
                   ends == kill /\ proc[t] = "child"
               IN  /\ proc' = [q \in Pids |->
                                 CASE q = p           -> "trapdone"
                                   [] q = t /\ ends   -> "zombie"
                                   [] OTHER           -> proc[q]]
                   /\ pending' = pending \cup {"CHLD"}
  /\ UNCHANGED <<pc, childPid, flagTerm, pipe, stack, signals, exits,
                 faults, foreign>>

(* The child exits by itself.                                             *)
ChildExit ==
  /\ exits < MAX_EXITS
  /\ \E p \in Pids : proc[p] = "child" /\ Dies(p, "zombie")
  /\ exits' = exits + 1
  /\ UNCHANGED <<pc, childPid, flagTerm, pipe, stack, signals, faults, foreign>>

(* Someone sends runtrap SIGTERM or another trapped signal.               *)
Raise(s) ==
  /\ signals < MAX_SIGNALS
  /\ signals' = signals + 1
  /\ pending' = pending \cup {s}
  /\ UNCHANGED <<pc, childPid, flagTerm, pipe, stack, proc, exits, faults,
                 foreign>>

(* An unrelated process is started and gets a free pid.                   *)
Spawn(p) ==
  /\ foreign < MAX_FOREIGN /\ proc[p] = "free"
  /\ foreign' = foreign + 1
  /\ proc' = [proc EXCEPT ![p] = "other"]
  /\ UNCHANGED <<pc, childPid, flagTerm, pipe, pending, stack, signals,
                 exits, faults>>

-----------------------------------------------------------------------------
(* main(): no child yet, an empty self-pipe, every signal blocked.        *)
Init ==
  /\ pc = "top" /\ childPid = NoPid /\ flagTerm = FALSE
  /\ pipe = FALSE /\ pending = {} /\ stack = <<>>
  /\ proc = [p \in Pids |-> "free"]
  /\ signals = 0 /\ exits = 0 /\ faults = 0 /\ foreign = 0

Main == LoopExit \/ ChildExec \/ LoopPoll \/ PollWake
Handler == TrapFork \/ TrapReturn

(* runtrap has returned from main().                                      *)
Exited == pc = "exit" /\ UNCHANGED vars

Next ==
  \/ Main \/ Handler \/ ForkRetry
  \/ \E s \in Sigs : Deliver(s)
  \/ \E p \in Pids : Trapper(p) \/ Spawn(p)
  \/ ChildExit
  \/ \E s \in {"TERM", "HUP"} : Raise(s)
  \/ Exited

(* runtrap's thread runs whenever it can and the kernel delivers pending  *)
(* unblocked signals; a trapper runs to completion (runtrap has no        *)
(* timeout on it, see the XXX in do_trap()).  The child, the senders of   *)
(* signals and other processes get no fairness.                           *)
Fairness ==
  /\ WF_vars(Main) /\ WF_vars(Handler)
  /\ \A s \in Sigs : WF_vars(Deliver(s))
  /\ \A p \in Pids : WF_vars(Trapper(p))

Spec == Init /\ [][Next]_vars /\ Fairness

-----------------------------------------------------------------------------
(* Properties.                                                            *)

TypeOK ==
  /\ pc \in {"top", "poll", "exit"}
  /\ childPid \in Pids \cup {NoPid}
  /\ flagTerm \in BOOLEAN /\ pipe \in BOOLEAN
  /\ pending \subseteq Sigs
  /\ stack \in Seq(Frame)
  /\ proc \in [Pids -> ProcStates]

(* Every trapper do_trap() runs is handed the pid of runtrap's own child, *)
(* running or not yet reaped, never a pid that was freed and taken by an  *)
(* unrelated process: kill(my_child.pid, 0) can only be trusted because   *)
(* the child is reaped (and my_child.pid cleared) in the main loop alone. *)
TrapperTargetsOwnChild ==
  \A i \in 1 .. Len(stack) :
    /\ stack[i].target = childPid
    /\ proc[childPid] \in {"child", "zombie"}

(* Once SIGTERM has been caught runtrap eventually exits (given that the  *)
(* trapper for SIGTERM ends the child, as the note in main_loop() asks).  *)
TermLeadsToExit == flagTerm ~> pc = "exit"

(* Until SIGTERM, a child that has exited is eventually replaced.         *)
ChildRespawned ==
  \A p \in Pids :
    (childPid = p /\ proc[p] = "zombie" /\ ~flagTerm)
      ~> (flagTerm \/ (childPid # NoPid /\ proc[childPid] = "child"))

=============================================================================
