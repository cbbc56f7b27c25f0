----------------------------- MODULE MCPractice -----------------------------
(***************************************************************************)
(* Three puzzles: two of one game, of which one has no motif; one saved    *)
(* before titles were, so without a stats row.  Two share a cause and a    *)
(* phase until the user corrects one of them.  One is a line of three      *)
(* plies whose first move has an equal, one a line of four, one a single   *)
(* move.  A day is two ticks.                                              *)
(***************************************************************************)
EXTENDS Practice

Diagnosis(cause, motif, phase, line) ==
    [status |-> "ok", primary |-> cause, confirmed |-> None,
     insufficient |-> cause = "unclassified", motif |-> motif, phase |-> phase,
     family |-> "sicilian", line |-> line]

Puzzle(game, ended, motif, title, swing, saved, pv, best, accept, diagnosis) ==
    [game |-> game, ended |-> ended, motif |-> motif, title |-> title, swing |-> swing,
     saved |-> saved, pv |-> pv, best |-> best, accept |-> accept,
     legal |-> {"a", "b", "c"}, diagnosis |-> diagnosis]

MCFacts ==
    <<Puzzle("g1", -3, "fork", "The Fork", 15, TRUE, <<"a", "x", "b">>, "a", {"c"},
             Diagnosis("king_safety_blindness", "fork", "endgame", "najdorf")),
      Puzzle("g1", -3, "blunder", "The Slip", 30, TRUE, << >>, "b", {},
             Diagnosis("king_safety_blindness", "blunder", "endgame", "dragon")),
      Puzzle("g2", 0, "fork", "Forked", 60, FALSE, <<"c", "y", "a", "z">>, "c", {"c"},
             Diagnosis("unclassified", "fork", "opening", "najdorf"))>>

MCTrained0 == {-5, -1}
MCCorrections ==
    <<{"loose_piece_awareness"}, {}, {}>>

Asked == [n |-> 2, motif |-> None, cause |-> None, opening |-> None, family |-> FALSE,
          goal |-> None]
Najdorf == [family |-> "sicilian", line |-> "najdorf"]
MCQueueRequests ==
    {[Asked EXCEPT !.motif = "fork"],
     [Asked EXCEPT !.cause = "king_safety_blindness", !.n = 3],
     [Asked EXCEPT !.cause = "loose_piece_awareness"],
     [Asked EXCEPT !.opening = Najdorf, !.goal = 60],
     [Asked EXCEPT !.opening = Najdorf, !.family = TRUE, !.n = 1]}

Listed == [q |-> None, status |-> None, motifs |-> {}, cause |-> None, phase |-> None,
           opening |-> None, family |-> FALSE, difficulty |-> None,
           sort |-> "newest", limit |-> 3, offset |-> 0]
MCListRequests ==
    {Listed,
     [Listed EXCEPT !.motifs = {"fork", "pin"}, !.sort = "last_attempted"],
     [Listed EXCEPT !.q = "The Fork", !.sort = "most_failed"],
     [Listed EXCEPT !.cause = "king_safety_blindness", !.sort = "due_soonest"],
     [Listed EXCEPT !.phase = "endgame", !.sort = "difficulty_asc", !.limit = 1],
     [Listed EXCEPT !.difficulty = "hard", !.status = "due", !.sort = "difficulty_desc"],
     [Listed EXCEPT !.opening = Najdorf, !.offset = 1]}
=============================================================================
