---------------------------- MODULE MCEnrichment ----------------------------
(* Two workers and two users: of the two puzzles of alice one has no      *)
(* position to name it from; the one of bob has a name he typed.          *)
EXTENDS Enrichment

MCWorkers == {"w1", "w2"}
MCUsers == {"alice", "bob"}
MCPuzzles == 1..3
MCOwner == [p \in MCPuzzles |-> IF p <= 2 THEN "alice" ELSE "bob"]
MCEvidence == [p \in MCPuzzles |-> "ranked"]
MCNoPosition == {2}
MCUserTitled == {3}
MCCapUser == [t \in CallType |-> IF t = "naming" THEN 2 ELSE 1]
MCCapGlobal == [t \in CallType |-> IF t = "naming" THEN 2 ELSE 1]
MCBudget == [e \in Event |-> IF e = "trigger" THEN 2 ELSE 1]
=============================================================================
