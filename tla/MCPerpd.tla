------------------------------- MODULE MCPerpd -------------------------------
(***************************************************************************)
(* Model-checking instance of Perpd: names, identities and pids are model  *)
(* values given in the .cfg files; the rest of the constants are numbers   *)
(* and booleans chosen per run.                                           *)
(***************************************************************************)
EXTENDS Perpd, TLC

(* Names, identities and pids are interchangeable, and Init is symmetric  *)
(* in them; used only by runs that check safety.                          *)
Symmetry == Permutations(Names) \cup Permutations(Inos) \cup Permutations(Pids)

=============================================================================
