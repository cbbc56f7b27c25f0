------------------------- MODULE MCMistakeDiagnosis -------------------------
(***************************************************************************)
(* Positions of four and five pieces on a board of 3 by 4, White to move,  *)
(* with every solution and one other move; and one position with games     *)
(* that reach it, stop before it, or lead elsewhere.                       *)
(***************************************************************************)
EXTENDS MistakeDiagnosis

Piece(color, kind) == [color |-> color, kind |-> kind]
Kings == (<<1, 1>> :> Piece("white", "king")) @@ (<<3, 4>> :> Piece("black", "king"))
Untimed == [form |-> "missing", base |-> Unknown, increment |-> Unknown]
Blitz == [form |-> "increment", base |-> 180, increment |-> 2]
Daily == [form |-> "correspondence", base |-> 86400, increment |-> 0]
NoGame == [nodes |-> <<>>, control |-> Untimed, agrees |-> TRUE]

\* A position is one where the side that has just moved is not in check.
Boards ==
    {b \in {Kings @@ (x :> Piece("white", kind)) @@ (y :> Piece("black", other))
                  @@ (z :> Piece("black", "knight")) :
                kind \in {"queen", "pawn"}, other \in {"rook", "pawn"},
                x \in {<<1, 2>>, <<2, 2>>, <<3, 1>>}, y \in {<<1, 3>>, <<2, 3>>},
                z \in {<<3, 3>>, <<1, 4>>, <<2, 4>>}} :
        ~InCheck(b, "black")}

Early == [ply |-> 3, elsewhere |-> 60, pv |-> 2, before |-> 200, after |-> -200]
Late == [ply |-> 41, elsewhere |-> 0, pv |-> 5, before |-> 150, after |-> 0]

PuzzleOf(b, best, played, p, game) ==
    [board |-> b, user |-> "white", played |-> played, best |-> best, ply |-> p.ply,
     elsewhere |-> p.elsewhere, pv_length |-> p.pv, eval_before |-> p.before,
     eval_after |-> p.after, game |-> game]

\* The move that was played: a quiet one if the position has another.
Played(b, best) ==
    LET others == LegalMoves(b, "white") \ {best} IN
    CHOOSE m \in others : IsQuiet(b, m) \/ \A n \in others : ~IsQuiet(b, n)

BoardPuzzles ==
    UNION {{PuzzleOf(b, best, Played(b, best), IF best[2][1] = 2 THEN Late ELSE Early, NoGame) :
                best \in {m \in LegalMoves(b, "white") : b[m[1]].kind # "king"}} :
           b \in {c \in Boards : Cardinality(LegalMoves(c, "white")) > 1}}

\* One position reached by games of four moves.
GameBoard == Kings @@ (<<2, 2>> :> Piece("white", "queen")) @@ (<<2, 3>> :> Piece("black", "rook"))
                   @@ (<<1, 4>> :> Piece("black", "knight"))
Move(capture, castles, clock, book) ==
    [capture |-> capture, to |-> <<2, 3>>, castles |-> castles, clock |-> clock, book |-> book]
Line(name, plies) == [family |-> name, line |-> plies]
Games ==
    {[nodes |-> <<Move(FALSE, FALSE, 60, Unknown), Move(capture, FALSE, 70, Line("open", 1)),
                  Move(TRUE, castles, clock, Unknown), Move(FALSE, TRUE, 2, Line("sharp", 4))>>,
      control |-> control, agrees |-> agrees] :
        capture \in BOOLEAN, castles \in BOOLEAN, clock \in {Unknown, 5, 70},
        control \in {Blitz, Daily}, agrees \in BOOLEAN}
GamePuzzles ==
    {PuzzleOf(GameBoard, <<<<2, 2>>, <<1, 3>>>>, <<<<2, 2>>, <<2, 3>>>>,
              [Early EXCEPT !.ply = ply], game) :
        ply \in {1, 3, 5}, game \in Games}

\* A stored move that the position does not allow.
BrokenPuzzles ==
    {PuzzleOf(GameBoard, <<<<2, 2>>, <<1, 3>>>>, <<<<1, 1>>, <<3, 3>>>>,
              Early, NoGame)}

MCPuzzles == BoardPuzzles \union GamePuzzles \union BrokenPuzzles

Parsed(primary, secondary, ids) ==
    [kind |-> "parsed", primary |-> primary, secondary |-> secondary, ids |-> ids]
MCAnswers ==
    {NoDiagnosis, Unreachable,
     Parsed("forcing_move_blindness", <<"loose_piece_awareness">>, {"best.move", "eval.swing"}),
     Parsed("recapture_assumption", <<"missed_opponent_resource">>, {"played.is_recapture"}),
     Parsed("time_pressure_collapse", <<"recapture_assumption">>, {"clock.seconds_left"})}
=============================================================================
