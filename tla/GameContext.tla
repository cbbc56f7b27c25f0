---------------------------- MODULE GameContext -----------------------------
(***************************************************************************)
(* What replaying a game tells about one of its moves                      *)
(* (diagnosis/pgn_context.py): the move before it, the clock before and    *)
(* after it, whether the user had castled and which opening was reached.   *)
(*                                                                         *)
(* A game is its mainline.  A node carries its move's facts (capture, to,  *)
(* castles), the clock its comment records and the opening, if any, that   *)
(* the book gives the position before the move.  An opening is a record    *)
(* [family, line].  Unknown stands for every absent value.  A puzzle       *)
(* without a game or a PGN has no nodes and no time control.               *)
(***************************************************************************)
EXTENDS Integers, Sequences, FiniteSetsExt

CONSTANTS
    Unknown,
    MaxBookPly      \* the depth of the opening book

ASSUME GameContextAssumption == MaxBookPly \in Nat

\* The time control as the game records it: its form and its numbers.
ParseTimeControl(raw) ==
    CASE raw.form = "increment"      -> [base |-> raw.base, increment |-> raw.increment,
                                         correspondence |-> FALSE]
      [] raw.form = "plain"          -> [base |-> raw.base, increment |-> 0, correspondence |-> FALSE]
      [] raw.form = "correspondence" -> [base |-> raw.base, increment |-> 0, correspondence |-> TRUE]
      [] OTHER                       -> [base |-> Unknown, increment |-> 0, correspondence |-> FALSE]

EmptyContext ==
    [previous_capture |-> FALSE, capture_square |-> Unknown, castled |-> FALSE,
     clock_before |-> Unknown, clock_after |-> Unknown, move_time |-> Unknown,
     opening |-> Unknown, plies |-> 0]

UserPly(index, user_is_white) == (index % 2 = 1) = user_is_white

\* Mutant of BookPly: the whole book is searched, past the mistake.
WholeBook(ply) == MaxBookPly

\* Only positions up to the mistake say how the game got there.
BookPly(ply) == Min({ply, MaxBookPly})

\* The deepest classified position, not the first.
Opening(nodes, ply) ==
    LET hits == {i \in 1..Min({BookPly(ply), Len(nodes)}) : nodes[i].book # Unknown} IN
    IF hits = {} THEN Unknown ELSE nodes[Max(hits)].book

ClockAt(nodes, index) == IF index \in DOMAIN nodes THEN nodes[index].clock ELSE Unknown

\* A clock comment gives the time after its move, so the time before the mistake is
\* the comment of the user's move before; the base time when there is none.
ClockBefore(nodes, ply, tc) ==
    IF ClockAt(nodes, ply - 2) = Unknown /\ ply <= 2 THEN tc.base ELSE ClockAt(nodes, ply - 2)

\* The increment is credited after the move; inconsistent clocks give no time.
MoveTime(before, after, tc) ==
    IF before = Unknown \/ after = Unknown \/ before - after + tc.increment < 0
    THEN Unknown ELSE before - after + tc.increment

ExtractGameContext(nodes, ply, user_is_white, tc) ==
    IF ply < 1 THEN EmptyContext
    ELSE LET before == ClockBefore(nodes, ply, tc)
             after == ClockAt(nodes, ply)
             captured == ply - 1 \in DOMAIN nodes /\ nodes[ply - 1].capture IN
         [previous_capture |-> captured,
          capture_square |-> IF captured THEN nodes[ply - 1].to ELSE Unknown,
          castled |-> \E i \in DOMAIN nodes : i < ply /\ UserPly(i, user_is_white) /\ nodes[i].castles,
          clock_before |-> before, clock_after |-> after,
          move_time |-> MoveTime(before, after, tc),
          opening |-> Opening(nodes, ply),
          plies |-> Len(nodes)]
=============================================================================
