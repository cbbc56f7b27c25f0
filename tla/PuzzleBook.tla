----------------------------- MODULE PuzzleBook -----------------------------
(***************************************************************************)
(* What POST /puzzles/manual promises, without plies, titles and retries:  *)
(* the same position is the same puzzle.  A user's book maps positions to  *)
(* puzzles and only grows; a save either enters its position, and is told  *)
(* so, or is told the puzzle that is already there, or is refused.         *)
(***************************************************************************)
EXTENDS Naturals

CONSTANTS Savers, Positions

VARIABLES
    wanted,      \* wanted[r]: the position request r saves
    book,        \* set of [position, puzzle] entries
    answers      \* set of [request, puzzle, is_new] the clients were sent

bookVars == <<wanted, book, answers>>

Refusal(r) == [request |-> r, puzzle |-> "none", is_new |-> FALSE]

Unanswered(r) == \A a \in answers : a.request # r

Init ==
    /\ wanted \in [Savers -> Positions]
    /\ book = {}
    /\ answers = {}

\* The position is new: it gets a puzzle of its own.
Enter(r, puzzle) ==
    /\ Unanswered(r)
    /\ \A e \in book : e.position # wanted[r] /\ e.puzzle # puzzle
    /\ book' = book \union {[position |-> wanted[r], puzzle |-> puzzle]}
    /\ answers' = answers \union
           {[request |-> r, puzzle |-> puzzle, is_new |-> TRUE]}
    /\ UNCHANGED wanted

\* The position is in the book: the answer is its puzzle, never another's.
Find(r) ==
    /\ Unanswered(r)
    /\ \E e \in book :
        /\ e.position = wanted[r]
        /\ answers' = answers \union
               {[request |-> r, puzzle |-> e.puzzle, is_new |-> FALSE]}
    /\ UNCHANGED <<wanted, book>>

\* 409: nothing is entered.
Refuse(r) ==
    /\ Unanswered(r)
    /\ answers' = answers \union {Refusal(r)}
    /\ UNCHANGED <<wanted, book>>

Next == \E r \in Savers : Enter(r, r) \/ Find(r) \/ Refuse(r)

Spec == Init /\ [][Next]_bookVars

=============================================================================
