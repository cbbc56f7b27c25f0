----------------------------- MODULE MCJobQueue -----------------------------
(* Small instances of JobQueue for TLC. *)
EXTENDS JobQueue, TLC

\* Workers and cancel requests are interchangeable.
Symmetric == Permutations(Workers) \union Permutations(Clients)

=============================================================================
