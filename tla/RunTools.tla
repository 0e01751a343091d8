------------------------------ MODULE RunTools ------------------------------
(***************************************************************************)
(* The exec-chaining runtools (src/runtools/): a service's run script     *)
(* starts a chain such as "runlimit -m 0 runuid daemon runpause 5 app".   *)
(* Each tool changes one attribute of the process (runlimit the soft      *)
(* resource limits, runuid the credentials, runpause the start time) and  *)
(* then execs the rest of its argument vector, which starts with the next *)
(* program.  catlimits, catuid, catenv and catargs end a chain and show   *)
(* what it built.  The process keeps its pid, limits and credentials      *)
(* across exec(); a caught signal reverts to its default action.          *)
(*                                                                         *)
(* The chain is a sequence of invocations, one per program, with each    *)
(* tool's options and operands already split out (nextopt() is not in    *)
(* the source tree).  A tool's main() is one step, except runpause's,    *)
(* which stops in pause()/sleep() where a SIGALRM can reach it.  The      *)
(* names of the resource table are those mk_rlimit generates from the     *)
(* platform's RLIMIT_ macros; rlimit_lookup(), which searches it by name, *)
(* is not in the source tree.  What the cat tools print is abstracted to  *)
(* the values they print; catenv and catargs print what no tool changes.  *)
(***************************************************************************)
EXTENDS Naturals, Sequences, SequencesExt

CONSTANTS
  Defined,      \* RLIMIT_ macros the platform defines (without "RLIMIT_")
  INF,          \* RLIM_INFINITY, above every finite limit
  Accounts,     \* getpwnam(): account name -> [uid, gid]; others unknown
  Chains,       \* argument vectors a run script can start
  StartCreds,   \* credentials the chain can start with
  StartLimits,  \* resource limits the chain can start with
  MAX_ALARMS,   \* bound: SIGALRM sent to the process
  NONE          \* rlimit_lookup() fails (-1); no value

ASSUME MAX_ALARMS \in Nat /\ INF \in Nat

Tools  == {"runlimit", "runuid", "runpause"}
Finals == {"catlimits", "catuid", "catenv", "catargs", "app", "nosuch"}

(* mk_rlimit: one rlimit_defs[] entry per defined macro, and the          *)
(* RLIMIT_AS / RLIMIT_VMEM synonym when only one of them is defined.  The *)
(* generated table is sorted by resource number; rlimit_lookup() finds a *)
(* name in it whatever the order, so the model keeps it as a set.         *)
RlimitDefs ==
  LET Synonym(have, lacks) ==
        IF have \in Defined /\ lacks \notin Defined
        THEN {[name |-> lacks, r |-> have]} ELSE {}
  IN  {[name |-> n, r |-> n] : n \in Defined}
        \cup Synonym("AS", "VMEM") \cup Synonym("VMEM", "AS")

(* rlimit_lookup(name): the resource of the entry of that name, or -1.    *)
RlimitLookup(name) ==
  LET e == {d \in RlimitDefs : d.name = name} IN
  IF e = {} THEN NONE ELSE (CHOOSE d \in e : TRUE).r

(* runlimit's options and the resource names they hand try_rlimit().      *)
RunlimitOptMutant ==                        \* mutant: -m forgets RLIMIT_STACK
  [a |-> <<"AS">>, c |-> <<"CORE">>, d |-> <<"DATA">>, f |-> <<"FILE">>,
   l |-> <<"MEMLOCK">>, m |-> <<"AS", "DATA", "MEMLOCK">>,
   o |-> <<"NOFILE">>, p |-> <<"NPROC">>, r |-> <<"RSS">>,
   s |-> <<"STACK">>, t |-> <<"CPU">>]

RunlimitOpt ==
  [a |-> <<"AS">>, c |-> <<"CORE">>, d |-> <<"DATA">>, f |-> <<"FILE">>,
   l |-> <<"MEMLOCK">>, m |-> <<"AS", "DATA", "STACK", "MEMLOCK">>,
   o |-> <<"NOFILE">>, p |-> <<"NPROC">>, r |-> <<"RSS">>,
   s |-> <<"STACK">>, t |-> <<"CPU">>]

(* catlimits' resources[] list.                                           *)
CatResources ==
  {"AS", "CORE", "CPU", "DATA", "FSIZE", "LOCKS", "MEMLOCK", "NOFILE",
   "NPROC", "RSS", "SBSIZE", "STACK"}

VARIABLES
  chain,     \* the argument vector the run script started
  pc,        \* index of the invocation running now
  st,        \* "run" | "catch" | "pause" | "woken" | "done" | "exit" | "killed"
  code,      \* exit status once st = "exit"
  cred0,     \* the credentials the chain started with
  lim0,      \* the limits the chain started with
  cred,      \* [uid, gid, groups] of the process
  lim,       \* resource -> [cur, max]
  caught,    \* SIGALRM has runpause's handler
  alarms,    \* SIGALRM sent so far
  shown,     \* what catlimits printed per resource, or NONE
  syserr     \* why runuid's credential call failed, or NONE

vars == <<chain, pc, st, code, cred0, lim0, cred, lim, caught, alarms, shown, syserr>>

Cur == chain[pc]

(* die(), die_usage() (100) and fatal_syserr() (111): exit now.           *)
Exit(c) == st' = "exit" /\ code' = c

(* The option letters every tool takes: -h and -V exit 0; a missing       *)
(* option argument (':') or an unknown option ('?') is a usage error.    *)
OptExit(o) == IF o \in {"h", "V"} THEN 0 ELSE 100

(* execvx(): the program is the next word of the argument vector; a       *)
(* program that cannot be found is fatal_syserr() (111).  The new image   *)
(* keeps pid, limits and credentials; SIGALRM reverts to its default.     *)
Execvx ==
  IF chain[pc + 1].prog = "nosuch"
  THEN Exit(111) /\ UNCHANGED <<pc, caught>>
  ELSE pc' = pc + 1 /\ st' = "run" /\ caught' = FALSE /\ UNCHANGED code

HasProgram == pc < Len(chain)

-----------------------------------------------------------------------------
(* runlimit.c.  An option argument is "_", "^" or "=" (up to the hard     *)
(* limit: k = "max"), a number (k = "num") or anything else (k = "bad").  *)
(* The state the option loop carries: the limits set so far, and whether *)
(* main() already left with an exit status.                               *)

(* do_limit(): getrlimit(), the new soft limit, setrlimit().  The new     *)
(* soft limit never exceeds the hard one, so setrlimit() succeeds.        *)
DoLimitMutant(a, r, arg) ==                 \* mutant: not capped at the hard limit
  CASE arg.k = "max" -> [a EXCEPT !.lim[r].cur = a.lim[r].max]
    [] arg.k = "num" -> [a EXCEPT !.lim[r].cur = arg.v]
    [] OTHER         -> [a EXCEPT !.stop = TRUE, !.code = 100]

DoLimit(a, r, arg) ==
  CASE arg.k = "max" -> [a EXCEPT !.lim[r].cur = a.lim[r].max]
    [] arg.k = "num" -> [a EXCEPT !.lim[r].cur =
                           IF arg.v < a.lim[r].max THEN arg.v ELSE a.lim[r].max]
    [] OTHER         -> [a EXCEPT !.stop = TRUE, !.code = 100]

(* try_rlimit(): a name the table lacks is only warned about (-v).        *)
TryRlimit(a, name, arg) ==
  IF a.stop \/ RlimitLookup(name) = NONE THEN a
  ELSE DoLimit(a, RlimitLookup(name), arg)

(* One turn of main()'s option loop.                                      *)
RunlimitStep(a, o) ==
  CASE a.stop                      -> a
    [] o.c \in {"h", "V", ":", "?"} -> [a EXCEPT !.stop = TRUE, !.code = OptExit(o.c)]
    [] o.c = "v"                   -> a
    [] OTHER -> FoldLeft(LAMBDA b, n : TryRlimit(b, n, o.arg), a, RunlimitOpt[o.c])

(* main(): the options in order, then the program, then execvx().  Limits *)
(* set before a failing option stay set in the exiting process.           *)
Runlimit ==
  /\ st = "run" /\ Cur.prog = "runlimit"
  /\ LET a == FoldLeft(RunlimitStep, [lim |-> lim, stop |-> FALSE, code |-> 0],
                       Cur.opts)
     IN  /\ lim' = a.lim
         /\ CASE a.stop       -> Exit(a.code) /\ UNCHANGED <<pc, caught>>
              [] ~HasProgram  -> Exit(100) /\ UNCHANGED <<pc, caught>>
              [] OTHER        -> Execvx
  /\ UNCHANGED <<chain, cred0, lim0, cred, alarms, shown, syserr>>

-----------------------------------------------------------------------------
(* runuid.c: only root may run it; it needs an account and a program;     *)
(* getpwnam() must know the account; then setgroups() to the account's    *)
(* group alone, setgid(), setuid(), each fatal_syserr() (111) on failure, *)
(* and execvx().                                                          *)
UidCallsMutant == <<"setgroups", "setuid", "setgid">>   \* mutant: setuid() before setgid()

UidCalls == <<"setgroups", "setgid", "setuid">>

(* The kernel's rule: a process with uid 0 may set any of its ids; any    *)
(* other may only setgid()/setuid() to the id it already has, and         *)
(* setgroups() is refused (EPERM).                                        *)
Permitted(c, call, id) ==
  \/ c.uid = 0
  \/ call = "setgid" /\ id = c.gid
  \/ call = "setuid" /\ id = c.uid

CallId(call, acct) ==
  IF call = "setuid" THEN Accounts[acct].uid ELSE Accounts[acct].gid

SetCred(c, call, id) ==
  CASE call = "setgroups" -> [c EXCEPT !.groups = {id}]
    [] call = "setgid"    -> [c EXCEPT !.gid = id]
    [] OTHER              -> [c EXCEPT !.uid = id]

(* The calls in order, stopping at the first that fails: refused by the   *)
(* kernel's rule, or the call f failing for a reason of its own (ENOMEM,  *)
(* EAGAIN, EINVAL).  Ids set before the failure stay set.                 *)
DropPrivs(acct, f) ==
  LET Call(a, call) ==
        LET id == CallId(call, acct) IN
        CASE a.why # NONE                  -> a
          [] ~Permitted(a.cred, call, id) -> [a EXCEPT !.why = "EPERM"]
          [] call = f                      -> [a EXCEPT !.why = "resource"]
          [] OTHER -> [a EXCEPT !.cred = SetCred(a.cred, call, id)]
  IN  FoldLeft(Call, [cred |-> cred, why |-> NONE], UidCalls)

Runuid ==
  /\ st = "run" /\ Cur.prog = "runuid"
  /\ CASE Cur.opt # "none"                    -> Exit(OptExit(Cur.opt)) /\ UNCHANGED <<pc, cred, caught, syserr>>
       [] cred.uid # 0                        -> Exit(100) /\ UNCHANGED <<pc, cred, caught, syserr>>
       [] Cur.acct = NONE \/ ~HasProgram      -> Exit(100) /\ UNCHANGED <<pc, cred, caught, syserr>>
       [] Cur.acct \notin DOMAIN Accounts     -> Exit(111) /\ UNCHANGED <<pc, cred, caught, syserr>>
       [] OTHER ->
            \E f \in {NONE} \cup Range(UidCalls) :
              LET a == DropPrivs(Cur.acct, f) IN
              /\ cred' = a.cred
              /\ syserr' = a.why
              /\ IF a.why = NONE THEN Execvx
                 ELSE Exit(111) /\ UNCHANGED <<pc, caught>>
  /\ UNCHANGED <<chain, cred0, lim0, lim, alarms, shown>>

-----------------------------------------------------------------------------
(* runpause.c: the options; seconds and a program are required and the   *)
(* seconds must scan whole; then SIGALRM gets a handler that returns.     *)
RunpauseStart ==
  /\ st = "run" /\ Cur.prog = "runpause"
  /\ CASE Cur.opt # "none"                      -> Exit(OptExit(Cur.opt)) /\ UNCHANGED caught
       [] Cur.secs.k = "none" \/ ~HasProgram    -> Exit(100) /\ UNCHANGED caught
       [] Cur.secs.k = "bad"                    -> Exit(100) /\ UNCHANGED caught
       [] OTHER -> st' = "catch" /\ caught' = TRUE /\ UNCHANGED code
  /\ UNCHANGED <<chain, pc, cred0, lim0, cred, lim, alarms, shown, syserr>>

(* pause() when secs is 0, else sleep(secs): the call is entered.         *)
RunpauseSleep ==
  /\ st = "catch"
  /\ st' = "pause"
  /\ UNCHANGED <<chain, pc, code, cred0, lim0, cred, lim, caught, alarms, shown, syserr>>

(* pause() returns only after a caught signal; sleep() also when its time *)
(* is up.  Then sig_uncatch(SIGALRM) and execvx().                        *)
RunpauseResume ==
  /\ \/ st = "woken"
     \/ st = "pause" /\ Cur.secs.v > 0
  /\ Execvx
  /\ UNCHANGED <<chain, cred0, lim0, cred, lim, alarms, shown, syserr>>

(* SIGALRM (perpctl's "a" command, or anyone) reaches a tool.  Without a  *)
(* handler it terminates the process; runpause's handler just returns,    *)
(* which ends a pause()/sleep() in progress and is otherwise lost.        *)
Alarm ==
  /\ alarms < MAX_ALARMS
  /\ st \in {"run", "catch", "pause"} /\ Cur.prog \in Tools
  /\ alarms' = alarms + 1
  /\ st' = CASE ~caught     -> "killed"
             [] st = "pause" -> "woken"
             [] OTHER        -> st
  /\ UNCHANGED <<chain, pc, code, cred0, lim0, cred, lim, caught, shown, syserr>>

-----------------------------------------------------------------------------
(* The programs that end a chain.  catlimits (after its getopt() loop)    *)
(* prints, for every name on its list, "not provided" when the table      *)
(* lacks it, else the soft limit, "unlimited" for RLIM_INFINITY; the      *)
(* number goes through nfmt_uint32() (the limits here are below 2^32).   *)
Catlimits ==
  /\ st = "run" /\ Cur.prog = "catlimits"
  /\ IF Cur.opt # "none"
     THEN Exit(OptExit(Cur.opt)) /\ UNCHANGED shown
     ELSE /\ shown' = [n \in CatResources |->
                         IF RlimitLookup(n) = NONE THEN NONE ELSE lim[RlimitLookup(n)].cur]
          /\ st' = "done" /\ UNCHANGED code
  /\ UNCHANGED <<chain, pc, cred0, lim0, cred, lim, caught, alarms, syserr>>

(* catuid prints the ids to stderr, catenv the environment, catargs its   *)
(* arguments (it has no options); "app" is any other program.  What they  *)
(* print is the process state, so each ends the chain.                    *)
ShowAndExit(p) ==
  /\ st = "run" /\ Cur.prog = p
  /\ IF Cur.opt # "none" THEN Exit(OptExit(Cur.opt)) ELSE st' = "done" /\ UNCHANGED code
  /\ UNCHANGED <<chain, pc, cred0, lim0, cred, lim, caught, alarms, shown, syserr>>

Catuid  == ShowAndExit("catuid")
Catenv  == ShowAndExit("catenv")
Catargs == ShowAndExit("catargs")
App     == ShowAndExit("app")

(* The chain has ended; runpause 0 may also wait for good.                *)
Ended == st \in {"done", "exit", "killed"} /\ UNCHANGED vars

Init ==
  /\ chain \in Chains
  /\ pc = 1
  /\ st = "run"
  /\ code = 0
  /\ cred0 \in StartCreds
  /\ cred = cred0
  /\ lim0 \in StartLimits
  /\ lim = lim0
  /\ caught = FALSE
  /\ alarms = 0
  /\ shown = [n \in CatResources |-> NONE]
  /\ syserr = NONE

Next ==
  \/ Runlimit \/ Runuid \/ RunpauseStart \/ RunpauseSleep \/ RunpauseResume
  \/ Catlimits \/ Catuid \/ Catenv \/ Catargs \/ App \/ Alarm \/ Ended

Spec == Init /\ [][Next]_vars

-----------------------------------------------------------------------------
TypeOK ==
  /\ pc \in 1 .. Len(chain)
  /\ st \in {"run", "catch", "pause", "woken", "done", "exit", "killed"}
  /\ code \in {0, 100, 111}
  /\ caught \in BOOLEAN
  /\ alarms \in 0 .. MAX_ALARMS
  /\ syserr \in {NONE, "EPERM", "resource"}
  /\ DOMAIN lim = Defined
  /\ \A r \in Defined : lim[r].cur <= lim[r].max

(* The tools before the running program.                                  *)
Before(tool) == {j \in 1 .. pc - 1 : chain[j].prog = tool}

(* runuid: the program it starts, and every program after it, runs with  *)
(* exactly the account's uid, gid and that gid as its only group (no     *)
(* supplementary group of the root that started the chain survives), and *)
(* only a chain started by root gets that far; and runuid, run by root    *)
(* for a known account, fails with 111 only when a credential call fails  *)
(* for a reason of its own, never because its calls refuse one another.  *)
PrivilegesDropped ==
  /\ st = "done" =>
       IF Before("runuid") = {} THEN cred = cred0
       ELSE LET acct == chain[Max(Before("runuid"))].acct IN
            /\ cred0.uid = 0
            /\ cred = [uid |-> Accounts[acct].uid, gid |-> Accounts[acct].gid,
                       groups |-> {Accounts[acct].gid}]
  /\ st = "exit" /\ code = 111 /\ Cur.prog = "runuid" /\ cred0.uid = 0
     /\ Cur.acct \in DOMAIN Accounts /\ chain[pc + 1].prog # "nosuch"
       => syserr = "resource"

(* What runlimit's usage documents for each option: -a availmem, -c      *)
(* coresize, -d databytes, -f filesize, -l lockbytes, -m the memory       *)
(* limits, -o openfiles, -p processes, -r rssbytes, -s stackbytes, -t    *)
(* cpusecs.                                                               *)
Documented ==
  [a |-> {"AS"}, c |-> {"CORE"}, d |-> {"DATA"}, f |-> {"FSIZE"},
   l |-> {"MEMLOCK"}, m |-> {"AS", "DATA", "STACK", "MEMLOCK"},
   o |-> {"NOFILE"}, p |-> {"NPROC"}, r |-> {"RSS"}, s |-> {"STACK"},
   t |-> {"CPU"}]

(* The soft limit a chain asks for: the last option, over every runlimit *)
(* before the program, that documents the resource, capped at the hard    *)
(* limit; the starting limit when none does.  No tool changes hard limits.*)
Requested(r, start) ==
  LET rl   == SelectSeq(SubSeq(chain, 1, pc - 1), LAMBDA x : x.prog = "runlimit")
      opts == FlattenSeq([i \in DOMAIN rl |-> rl[i].opts])
      I    == {i \in DOMAIN opts : opts[i].c \in DOMAIN Documented
                                     /\ r \in Documented[opts[i].c]}
  IN  IF I = {} THEN start
      ELSE LET arg == opts[Max(I)].arg IN
           IF arg.k = "max" \/ arg.v >= lim[r].max THEN lim[r].max ELSE arg.v

(* runlimit and catlimits: a chain through runlimit that ends in          *)
(* catlimits shows, for every resource on its list, the limit the options *)
(* asked for, and "not provided" exactly for what the platform lacks.     *)
LimitsShown ==
  st = "done" /\ Cur.prog = "catlimits" =>
    \A r \in CatResources :
      shown[r] = IF r \notin Defined THEN NONE ELSE Requested(r, lim0[r].cur)

=============================================================================
