------------------------------ MODULE Exchange -------------------------------
(***************************************************************************)
(* What perpctl's exchange with a supervisor promises (spec 4.3, 5, 8):   *)
(* a client is either refused up front because the supervisor is not      *)
(* running, or it enters the exchange holding the service's control lock, *)
(* so that at most one client is in an exchange at a time, and leaves it  *)
(* releasing the lock, with the reply to its own command or with an I/O   *)
(* error.  A client killed at any point loses the lock to the kernel.     *)
(*                                                                         *)
(* The exchange is one atomic step here; module ControlChannel is the     *)
(* protocol of src/perp/perpctl.c that is meant to implement it.          *)
(***************************************************************************)
CONSTANTS
  Clients,    \* perpctl processes, one command each
  NoOwner     \* no client holds the lock / no reply accepted

VARIABLES
  phase,      \* client -> "idle" | "exchange" | "done" | "dead"
  result,     \* client -> outcome once done
  got,        \* client -> whose command the accepted reply answers
  holder      \* the client holding the control lock, or NoOwner

vars == <<phase, result, got, holder>>

(* Ways an exchange under the lock fails: a failed open() or write(), a   *)
(* bad read, or the supervisor's error reply.                             *)
Errors == {"open_error", "write_error", "read_error", "cmd_error"}

(* Ways a client gives up before the lock: the supervisor is not running, *)
(* or its control directory or lock file cannot be entered or opened.     *)
Refusals == {"not_running", "chdir_error", "open_error"}

(* The client ends without the lock.                                      *)
Refuse(c) ==
  /\ phase[c] = "idle"
  /\ phase' = [phase EXCEPT ![c] = "done"]
  /\ \E r \in Refusals : result' = [result EXCEPT ![c] = r]
  /\ UNCHANGED <<got, holder>>

(* The client takes the free lock and starts its exchange.                *)
Acquire(c) ==
  /\ phase[c] = "idle"
  /\ holder = NoOwner
  /\ holder' = c
  /\ phase' = [phase EXCEPT ![c] = "exchange"]
  /\ UNCHANGED <<result, got>>

(* The exchange ends: its own reply, or an error; the lock is released.  *)
Complete(c) ==
  /\ phase[c] = "exchange"
  /\ holder = c
  /\ holder' = NoOwner
  /\ phase' = [phase EXCEPT ![c] = "done"]
  /\ \/ result' = [result EXCEPT ![c] = "ok"] /\ got' = [got EXCEPT ![c] = c]
     \/ \E e \in Errors : result' = [result EXCEPT ![c] = e] /\ UNCHANGED got

(* The client is killed; the kernel drops the lock if it held it.         *)
Die(c) ==
  /\ phase[c] \in {"idle", "exchange"}
  /\ phase' = [phase EXCEPT ![c] = "dead"]
  /\ holder' = IF holder = c THEN NoOwner ELSE holder
  /\ UNCHANGED <<result, got>>

Init ==
  /\ phase = [c \in Clients |-> "idle"]
  /\ result = [c \in Clients |-> "none"]
  /\ got = [c \in Clients |-> NoOwner]
  /\ holder = NoOwner

Next == \E c \in Clients : Refuse(c) \/ Acquire(c) \/ Complete(c) \/ Die(c)

Spec == Init /\ [][Next]_vars

=============================================================================
