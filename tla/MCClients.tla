------------------------------ MODULE MCClients ------------------------------
(* Clients for TLC: start stamps around NOW whose uptimes are 0, 1 and 2   *)
(* seconds, reached both with and without a nanosecond borrow, and a      *)
(* stamp ahead of NOW (a clock stepped back).                              *)
EXTENDS Clients

HALF == 500000000

MCWhens == {[sec |-> NOW - 2, nsec |-> 0],      \* uptime 2
            [sec |-> NOW - 2, nsec |-> HALF],   \* 1.5 s: uptime 1
            [sec |-> NOW, nsec |-> HALF],       \* ahead by 0.5 s: uptime 0
            [sec |-> NOW + 1, nsec |-> 0]}      \* ahead by 1 s: uptime 1

(* status.bin missing, unreadable, one byte short, exact, one byte long.  *)
MCStatusFiles == {[err |-> "ENOENT"], [err |-> "EIO"],
                  [len |-> 53], [len |-> 54], [len |-> 55]}
=============================================================================
