------------------------------ MODULE MCRunTrap ------------------------------
(* TLC instance of RunTrap: pids as model values.                          *)
EXTENDS RunTrap, TLC

Symmetry == Permutations(Pids)
=============================================================================
