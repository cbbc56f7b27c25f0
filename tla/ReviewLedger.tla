---------------------------- MODULE ReviewLedger ----------------------------
(***************************************************************************)
(* What POST /puzzles/{id}/review promises a client that double-clicks,    *)
(* times out and retries: an append-only ledger of reviews in which one    *)
(* idempotency key counts once and a closed session receives nothing.      *)
(* TrainingReview is the code that keeps the promise.                      *)
(***************************************************************************)
EXTENDS Sequences

CONSTANTS
    Puzzles, Sessions, Keys,
    NoSession,       \* a review outside any training session
    NoKey            \* a review without client_review_id

VARIABLES
    log,             \* the committed reviews, in commit order
    closed           \* the completed sessions

Result == {"pass", "fail"}

Review == [puzzle : Puzzles, session : Sessions \union {NoSession},
           key : Keys \union {NoKey}, result : Result, scheduling : BOOLEAN]

\* Rows v and w collide on uq_puzzle_reviews_client_key.
SameReview(v, w) ==
    /\ v.key = w.key /\ v.key # NoKey
    /\ v.puzzle = w.puzzle
    /\ v.session = w.session

Init ==
    /\ log = << >>
    /\ closed = {}

Record(v) ==
    /\ v.session \notin closed
    /\ \A i \in DOMAIN log : ~SameReview(log[i], v)
    /\ log' = Append(log, v)
    /\ UNCHANGED closed

Close(s) ==
    /\ closed' = closed \union {s}
    /\ UNCHANGED log

Next == (\E v \in Review : Record(v)) \/ (\E s \in Sessions : Close(s))

Spec == Init /\ [][Next]_<<log, closed>>

=============================================================================
