------------------------- MODULE MCPuzzleGeneration -------------------------
(* A small instance of PuzzleGeneration for TLC. *)
EXTENDS PuzzleGeneration

CONSTANTS best, other, third

\* A game longer than the interval between heartbeats, one without a PGN, and a
\* short one.
ThreeGames == <<<<FALSE, TRUE, TRUE>>, <<>>, <<TRUE, TRUE>>>>

\* No multi-PV; two equal moves and a clearly worse one; a toss-up.
Lists ==
    {<<>>,
     <<[uci |-> best, eval |-> 3], [uci |-> other, eval |-> 3],
       [uci |-> third, eval |-> 0]>>,
     <<[uci |-> best, eval |-> 3], [uci |-> other, eval |-> 1]>>}

=============================================================================
