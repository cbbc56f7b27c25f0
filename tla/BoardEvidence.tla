--------------------------- MODULE BoardEvidence ----------------------------
(***************************************************************************)
(* The facts a diagnosis is made from, computed on a board: which pieces   *)
(* the played move and the solution attack, which pieces nothing defends,  *)
(* which enemy pieces stand on one line and whether the solution uses it,  *)
(* how exposed the king is, and what the clock said.  extract_evidence     *)
(* collects them in a packet, and to_evidence_items lists those that may   *)
(* be cited.  assign_primary_motif reads the same position on its own.     *)
(*                                                                         *)
(* The board is Files by Ranks.  A position is a function on its occupied  *)
(* squares; a pawn reaching the last rank becomes a queen, and castling,   *)
(* en passant and the pawn's double step are left out, as is the 75-move   *)
(* rule.  Evaluations are in hundredths of a pawn.                         *)
(***************************************************************************)
EXTENDS GameContext

CONSTANTS Files, Ranks

Square == (1..Files) \X (1..Ranks)
Color == {"white", "black"}
Kind == {"pawn", "knight", "bishop", "rook", "queen", "king"}
Other(c) == IF c = "white" THEN "black" ELSE "white"
Forward(c) == IF c = "white" THEN 1 ELSE -1
BackRank(c) == IF c = "white" THEN 1 ELSE Ranks

ASSUME BoardEvidenceAssumption ==
    /\ Files \in Nat \ {0} /\ Ranks \in Nat \ {0}
    /\ Unknown \notin Int /\ Unknown \notin BOOLEAN

PieceValue == [pawn |-> 1, knight |-> 3, bishop |-> 3, rook |-> 5, queen |-> 9, king |-> 0]
LooseMinValue == 3
AttackTargetMinValue == 3

-----------------------------------------------------------------------------
(* Geometry *)

Gap(a, b) == IF a > b THEN a - b ELSE b - a
Straight(a, b) == a # b /\ (a[1] = b[1] \/ a[2] = b[2])
Diagonal(a, b) == a # b /\ Gap(a[1], b[1]) = Gap(a[2], b[2])
Aligned(a, b) == Straight(a, b) \/ Diagonal(a, b)

\* The squares strictly between two aligned squares, and the whole line through them.
Between == [p \in Square \X Square |->
    LET a == p[1]
        b == p[2] IN
    IF ~Aligned(a, b) THEN {}
    ELSE {s \in Square \ {a, b} :
            /\ Gap(a[1], s[1]) + Gap(s[1], b[1]) = Gap(a[1], b[1])
            /\ Gap(a[2], s[2]) + Gap(s[2], b[2]) = Gap(a[2], b[2])
            /\ Aligned(a, s) /\ Aligned(s, b)
            /\ Straight(a, b) = Straight(a, s)}]

Ray(a, b) ==
    {a, b} \union {s \in Square : s \in Between[<<a, b>>] \/ b \in Between[<<a, s>>]
                                                          \/ a \in Between[<<s, b>>]}

Attacks(board, s) ==
    LET kind == board[s].kind
        Clear(t) == Between[<<s, t>>] \intersect DOMAIN board = {} IN
    {t \in Square :
        \/ kind = "knight" /\ {Gap(s[1], t[1]), Gap(s[2], t[2])} = {1, 2}
        \/ kind = "king" /\ s # t /\ Gap(s[1], t[1]) <= 1 /\ Gap(s[2], t[2]) <= 1
        \/ kind = "pawn" /\ Gap(s[1], t[1]) = 1 /\ t[2] = s[2] + Forward(board[s].color)
        \/ kind \in {"bishop", "queen"} /\ Diagonal(s, t) /\ Clear(t)
        \/ kind \in {"rook", "queen"} /\ Straight(s, t) /\ Clear(t)}

Pieces(board, color) == {s \in DOMAIN board : board[s].color = color}
Attackers(board, color, s) == {t \in Pieces(board, color) : s \in Attacks(board, t)}
King(board, color) == CHOOSE s \in Pieces(board, color) : board[s].kind = "king"
InCheck(board, color) == Attackers(board, Other(color), King(board, color)) # {}

\* A move is a pair of squares.
Promotes(board, m) == board[m[1]].kind = "pawn" /\ m[2][2] = BackRank(Other(board[m[1]].color))
IsCapture(board, m) == m[2] \in DOMAIN board

After(board, m) ==
    [s \in (DOMAIN board \ {m[1]}) \union {m[2]} |->
        IF s # m[2] THEN board[s]
        ELSE IF Promotes(board, m) THEN [board[m[1]] EXCEPT !.kind = "queen"] ELSE board[m[1]]]

Reachable(board, s) ==
    LET ahead == <<s[1], s[2] + Forward(board[s].color)>> IN
    IF board[s].kind = "pawn"
    THEN (Attacks(board, s) \intersect Pieces(board, Other(board[s].color)))
         \union ({ahead} \intersect (Square \ DOMAIN board))
    ELSE Attacks(board, s) \ Pieces(board, board[s].color)

LegalMoves(board, color) ==
    {m \in UNION {{s} \X Reachable(board, s) : s \in Pieces(board, color)} :
        ~InCheck(After(board, m), color)}

\* What a FEN says: pieces on squares.
Placement(board) ==
    DOMAIN board \subseteq Square /\ \A s \in DOMAIN board : board[s] \in [color : Color, kind : Kind]

\* A position that the rules of chess reach: a side has one king, and the side that
\* has just moved did not leave its own to be taken.
Reached(board, user) ==
    /\ \A c \in Color : \E k \in Pieces(board, c) :
          \A s \in Pieces(board, c) : board[s].kind = "king" <=> s = k
    /\ ~InCheck(board, Other(user))

GivesCheck(board, m) == InCheck(After(board, m), Other(board[m[1]].color))

-----------------------------------------------------------------------------
(* Facts about a move *)

IsQuiet(board, m) == ~IsCapture(board, m) /\ ~GivesCheck(board, m) /\ ~Promotes(board, m)

CapturedValue(board, m) == IF IsCapture(board, m) THEN PieceValue[board[m[2]].kind] ELSE 0

\* The valuable enemy pieces the moved piece attacks once it has landed; a king
\* always counts.
Targets(board, m) ==
    LET after == After(board, m) IN
    {t \in Attacks(after, m[2]) \intersect Pieces(after, Other(board[m[1]].color)) :
        after[t].kind = "king" \/ PieceValue[after[t].kind] >= AttackTargetMinValue}

\* Those that nothing of their own colour defends; a king is never one.
LooseTargets(board, m) ==
    LET after == After(board, m) IN
    {t \in Targets(board, m) : after[t].kind # "king" /\ Attackers(after, after[t].color, t) = {}}

IsFork(board, m) == Cardinality(Targets(board, m)) >= 2

CapturesUndefended(board, m) ==
    /\ IsCapture(board, m)
    /\ Attackers(After(board, m), Other(board[m[1]].color), m[2]) = {}

-----------------------------------------------------------------------------
(* Facts about the position *)

Undefended(board, color) ==
    {s \in Pieces(board, color) : /\ PieceValue[board[s].kind] >= LooseMinValue
                                  /\ Attackers(board, color, s) = {}}

Index(s) == s[2] * Files + s[1]

Blockers(board, pair) == Between[pair] \intersect DOMAIN board

\* Pairs of enemy kings, queens and rooks on one line, at most one piece between.
AlignedPairs(board, victim) ==
    LET major == {s \in Pieces(board, victim) : board[s].kind \in {"king", "queen", "rook"}} IN
    {p \in major \X major : /\ Index(p[1]) < Index(p[2]) /\ Aligned(p[1], p[2])
                            /\ Cardinality(Blockers(board, p)) <= 1}

ExploitedPairs(board, best) ==
    LET after == After(board, best) IN
    {p \in AlignedPairs(board, Other(board[best[1]].color)) :
        /\ board[best[1]].kind \in {"queen", "rook", "bishop"}
        /\ best[2] \in Ray(p[1], p[2])
        /\ {p[1], p[2]} \intersect Attacks(after, best[2]) # {}}

\* The pair that is reported is the first in the order of the squares.
ExploitedPair(board, best) ==
    CHOOSE p \in ExploitedPairs(board, best) :
        \A q \in ExploitedPairs(board, best) :
            \/ Index(p[1]) < Index(q[1])
            \/ p[1] = q[1] /\ Index(p[2]) <= Index(q[2])

\* How the solution uses an alignment: not at all, through a piece, or directly.
Alignment(board, best) ==
    IF ExploitedPairs(board, best) = {} THEN "none"
    ELSE IF Blockers(board, ExploitedPair(board, best)) = {} THEN "open" ELSE "blocked"

\* Neither side could mate: at most one knight or bishop, or bishops of one shade.
InsufficientMaterial(board) ==
    LET pieces == {s \in DOMAIN board : board[s].kind # "king"}
        Bishops(shade) == {s \in pieces : board[s].kind = "bishop" /\ (s[1] + s[2]) % 2 = shade} IN
    \/ Cardinality(pieces) <= 1 /\ \A s \in pieces : board[s].kind \in {"knight", "bishop"}
    \/ \E shade \in {0, 1} : pieces = Bishops(shade)

\* A game that is over has no replies; elsewhere is the material beside the board.
OpponentForcingReplies(board, played, elsewhere) ==
    LET after == After(board, played)
        opponent == Other(board[played[1]].color) IN
    IF elsewhere = 0 /\ InsufficientMaterial(after) THEN 0
    ELSE Cardinality({m \in LegalMoves(after, opponent) :
                         IsCapture(after, m) \/ GivesCheck(after, m)})

RingAttackers(board, user) ==
    LET ring == Attacks(board, King(board, user)) \union {King(board, user)} IN
    Cardinality({s \in Pieces(board, Other(user)) : Attacks(board, s) \intersect ring # {}})

BackRankBoxed(board, user) ==
    LET k == King(board, user)
        front == {s \in Square : s[2] = k[2] + Forward(user) /\ Gap(s[1], k[1]) <= 1} IN
    /\ k[2] = BackRank(user)
    /\ front \subseteq DOMAIN board
    /\ \A s \in front : board[s] = [color |-> user, kind |-> "pawn"]

NonPawnMaterial(board) ==
    MapThenSumSet(LAMBDA s : PieceValue[board[s].kind],
                  {s \in DOMAIN board : board[s].kind # "pawn"})

Phase(ply, material) ==
    IF material <= 13 THEN "endgame"
    ELSE IF ply <= 24 /\ material >= 52 THEN "opening"
    ELSE "middlegame"

-----------------------------------------------------------------------------
(* Facts from the game *)

SecondsLeft(context) == IF context.clock_after # Unknown THEN context.clock_after ELSE context.clock_before

Threshold(base) == Max({15, base \div 10})

IsTimePressure(context, tc) ==
    IF SecondsLeft(context) = Unknown \/ tc.base = Unknown THEN Unknown
    ELSE ~tc.correspondence /\ SecondsLeft(context) < Threshold(tc.base)

Recaptures(context, m) == m[2] = context.capture_square

ZwischenzugLike(board, context, m) ==
    /\ GivesCheck(board, m) \/ IsCapture(board, m)
    /\ context.capture_square # Unknown /\ m[2] # context.capture_square

-----------------------------------------------------------------------------
(* extract_evidence *)

Playable(board, user, m) == m \in LegalMoves(board, user)

\* A game that does not replay to the puzzle's position tells nothing about it.
Trusted(context, replayed) == IF replayed THEN context ELSE EmptyContext

Packet(board, played, best, puzzle, history, game) ==
    LET user == board[best[1]].color
        context == Trusted(game.context, game.replayed) IN
    [phase |-> Phase(puzzle.ply, NonPawnMaterial(board) + puzzle.elsewhere),
     played_quiet |-> IsQuiet(board, played),
     is_recapture |-> Recaptures(context, played),
     played_targets |-> Cardinality(Targets(board, played)),
     best_quiet |-> IsQuiet(board, best), best_check |-> GivesCheck(board, best),
     best_capture |-> IsCapture(board, best), captured_value |-> CapturedValue(board, best),
     zwischenzug |-> ZwischenzugLike(board, context, best),
     pv_length |-> puzzle.pv_length,
     targets |-> Cardinality(Targets(board, best)),
     loose_targets |-> Cardinality(LooseTargets(board, best)),
     is_fork |-> IsFork(board, best),
     captures_undefended |-> CapturesUndefended(board, best),
     own_loose |-> Cardinality(Undefended(board, user)),
     opponent_loose |-> Cardinality(Undefended(board, Other(user))),
     alignment |-> Alignment(board, best),
     forcing_replies |-> OpponentForcingReplies(board, played, puzzle.elsewhere),
     ring_attackers |-> RingAttackers(board, user),
     boxed |-> BackRankBoxed(board, user),
     time_pressure |-> IsTimePressure(context, game.time_control),
     seconds_left |-> SecondsLeft(context), move_time |-> context.move_time,
     opening |-> context.opening,
     eval_before |-> puzzle.eval_before, eval_after |-> puzzle.eval_after,
     puzzle_fails |-> history.fail_count, motif_rate |-> history.motif_rate]

Swing(packet) == packet.eval_before - packet.eval_after

When(condition, id) == IF condition THEN {id} ELSE {}

\* The facts that may be cited: a fact that was not measured has no item.
EvidenceItems(packet) ==
    {"position.phase", "position.move_number", "played.move", "best.move", "eval.swing",
     "eval.before", "eval.after", "threats.legal_checks", "threats.legal_captures",
     "threats.opponent_forcing_replies", "king.ring_attackers"}
    \union When(packet.alignment # "none", "alignment.exploited")
    \union When(packet.opening # Unknown, "game.opening_family")
    \union When(packet.own_loose > 0, "loose.own") \union When(packet.own_loose > 0, "loose.own_value")
    \union When(packet.opponent_loose > 0, "loose.opponent")
    \union When(packet.targets > 0, "best.attacks") \union When(packet.is_fork, "best.is_fork")
    \union When(packet.captures_undefended, "best.captures_undefended")
    \union When(packet.loose_targets > 0, "best.loose_targets")
    \union When(packet.played_targets > 0, "played.attacks")
    \union When(packet.is_recapture, "played.is_recapture")
    \union When(packet.zwischenzug, "best.is_zwischenzug_like")
    \union When(packet.pv_length > 0, "best.pv_length")
    \union When(packet.boxed, "king.back_rank_boxed")
    \union When(packet.seconds_left # Unknown, "clock.seconds_left")
    \union When(packet.move_time # Unknown, "clock.move_time")
    \union When(packet.puzzle_fails > 0, "history.puzzle_fails")
    \union When(packet.motif_rate # Unknown, "history.motif_fail_rate")

-----------------------------------------------------------------------------
(* assign_primary_motif: what the solution accomplishes *)

IsCheckmate(board, color) == InCheck(board, color) /\ LegalMoves(board, color) = {}

\* An enemy piece is pinned when taking it off the board would expose its king.
CreatesPin(after, enemy) ==
    \E s \in Pieces(after, enemy) \ {King(after, enemy)} :
        \E t \in Pieces(after, Other(enemy)) :
            /\ after[t].kind \in {"bishop", "rook", "queen"}
            /\ s \in Between[<<t, King(after, enemy)>>]
            /\ King(after, enemy) \in Attacks([q \in DOMAIN after \ {s} |-> after[q]], t)

Forked(after, s, enemy) ==
    {t \in Attacks(after, s) \intersect Pieces(after, enemy) : after[t].kind # "pawn"}

\* Mutant of Motif: a capture is of a hanging piece even when it can be taken back.
MotifOfAnyCapture(board, best) ==
    LET after == After(board, best)
        enemy == Other(board[best[1]].color)
        taken == IF IsCapture(board, best) THEN board[best[2]].kind ELSE "none" IN
    IF IsCheckmate(after, enemy)
    THEN IF King(after, enemy)[2] = BackRank(enemy) THEN "back_rank" ELSE "mate_threat"
    ELSE IF taken = "queen" THEN "hanging_queen"
    ELSE IF taken \notin {"none", "pawn"} THEN "hanging_piece"
    ELSE IF Cardinality(Forked(after, best[2], enemy)) >= 2 THEN "fork"
    ELSE IF CreatesPin(after, enemy) THEN "pin"
    ELSE "blunder"

Motif(board, best) ==
    LET after == After(board, best)
        enemy == Other(board[best[1]].color)
        taken == IF IsCapture(board, best) THEN board[best[2]].kind ELSE "none" IN
    IF IsCheckmate(after, enemy)
    THEN IF King(after, enemy)[2] = BackRank(enemy) THEN "back_rank" ELSE "mate_threat"
    ELSE IF taken \notin {"none", "pawn"} /\ CapturesUndefended(board, best)
    THEN IF taken = "queen" THEN "hanging_queen" ELSE "hanging_piece"
    ELSE IF Cardinality(Forked(after, best[2], enemy)) >= 2 THEN "fork"
    ELSE IF CreatesPin(after, enemy) THEN "pin"
    ELSE "blunder"
=============================================================================
