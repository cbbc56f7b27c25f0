--------------------------- MODULE MCPuzzleSaving ---------------------------
(* A small instance of PuzzleSaving for TLC: everybody wants one name, and   *)
(* the model may suggest a second one.                                       *)
EXTENDS PuzzleSaving

CONSTANTS fork, pin

SameName == [r \in Savers \union Generators \union Reviewers |-> fork]

Symmetric == Permutations(Savers) \union Permutations(Positions)

=============================================================================
