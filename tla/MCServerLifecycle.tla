------------------------- MODULE MCServerLifecycle -------------------------
(***************************************************************************)
(* The instances of ServerLifecycle that TLC checks.                       *)
(***************************************************************************)
EXTENDS ServerLifecycle

Symmetry == Permutations(Clients)
=============================================================================
