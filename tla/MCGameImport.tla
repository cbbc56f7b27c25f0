---------------------------- MODULE MCGameImport ----------------------------
(* GameImport with interchangeable requests. *)
EXTENDS GameImport, TLC

Symmetric == Permutations(Imports)

=============================================================================
