----------------------------- MODULE MCPerpdMain -----------------------------
(* PerpdMain for TLC: the option sequences main() can be handed, each     *)
(* kind of option first and after -a.                                     *)
EXTENDS PerpdMain

MCOptLists == {<<>>, <<"a">>, <<"h">>, <<"V">>, <<"missing">>, <<"bad">>,
               <<"a", "V">>}
=============================================================================
