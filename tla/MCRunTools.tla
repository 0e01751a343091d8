------------------------------ MODULE MCRunTools ------------------------------
(* TLC instance of RunTools: a Linux resource table, one known account,   *)
(* root or an ordinary user starting the chain, and every chain of up to  *)
(* two tools followed by a program (or by nothing).                       *)
EXTENDS RunTools

MCDefined == {"AS", "CORE", "CPU", "DATA", "FSIZE", "LOCKS", "MEMLOCK",
              "NOFILE", "NPROC", "RSS", "STACK"}
MCAccounts == [daemon |-> [uid |-> 2, gid |-> 2]]
MCStartCreds == {[uid |-> 0, gid |-> 0, groups |-> {0, 1}],
                 [uid |-> 1000, gid |-> 100, groups |-> {100}]}
MCStartLimits == {[r \in MCDefined |-> IF r = "CORE" THEN [cur |-> 0, max |-> INF]
                                       ELSE [cur |-> 1, max |-> 2]]}

Num(n) == [k |-> "num", v |-> n]
ToMax == [k |-> "max"]
Bad   == [k |-> "bad"]
Opt(c, a) == [c |-> c, arg |-> a]

\* runlimit without -f (the pass run).
MCLimitOpts ==
  {<<Opt("m", Num(0))>>, <<Opt("m", Num(0)), Opt("a", ToMax)>>,
   <<Opt("c", ToMax), Opt("o", Num(5))>>, <<[c |-> "v"], Opt("t", Bad)>>,
   <<[c |-> "h"]>>, <<[c |-> "?"]>>}
MCTools ==
  {[prog |-> "runlimit", opts |-> o] : o \in MCLimitOpts}
  \cup {[prog |-> "runuid", opt |-> "none", acct |-> a] : a \in {"daemon", "nobody", NONE}}
  \cup {[prog |-> "runuid", opt |-> "V", acct |-> "daemon"]}
  \cup {[prog |-> "runpause", opt |-> "none", secs |-> s] :
          s \in {Num(0), Num(3), Bad, [k |-> "none"]}}
  \cup {[prog |-> "runpause", opt |-> ":", secs |-> Num(3)]}
MCEnds ==
  {<<>>, <<[prog |-> "catlimits", opt |-> "none"]>>, <<[prog |-> "catlimits", opt |-> "h"]>>,
   <<[prog |-> "catuid", opt |-> "none"]>>, <<[prog |-> "catenv", opt |-> "?"]>>,
   <<[prog |-> "catargs", opt |-> "none"]>>, <<[prog |-> "app", opt |-> "none"]>>,
   <<[prog |-> "nosuch", opt |-> "none"]>>}
MCChains ==
  {c \in {p \o e : p \in UNION {[1 .. n -> MCTools] : n \in 0 .. 2}, e \in MCEnds} :
     c # <<>> /\ c[1].prog # "nosuch"}
=============================================================================
