-------------------------- MODULE MCControlChannel --------------------------
(* TLC instance of ControlChannel: clients are interchangeable.           *)
EXTENDS ControlChannel, TLC

Symmetry == Permutations(Clients)
=============================================================================
