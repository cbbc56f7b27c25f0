-------------------------- MODULE MistakeDiagnosis --------------------------
(***************************************************************************)
(* One puzzle's diagnosis, from its position and its game to the row the   *)
(* user reads: the job extracts the evidence, classifies the causes, may   *)
(* let a model re-rank them, and stores the outcome; training adds to the  *)
(* puzzle's history, a deployment makes the row stale, and the user may    *)
(* correct the cause.  diagnosis/job.py (_diagnose_one, _enrich) and       *)
(* storage/diagnosis_repository.py (upsert, confirm_cause).                *)
(*                                                                         *)
(* A puzzle is [board, user, played, best, ply, elsewhere, pv_length,      *)
(* eval_before, eval_after, game]; "elsewhere" is the material that stands *)
(* off the modelled board, and a game is [nodes, control, agrees], where   *)
(* agrees says whether its replay reaches the puzzle's position.           *)
(***************************************************************************)
EXTENDS MistakeCauses

CONSTANTS
    Puzzles,
    Answers,        \* what a call of the model may come to
    NoCall,         \* no key, switched off, or no budget left
    NoRow,
    Corrections,    \* labels the user may choose
    MinAttempts,    \* MIN_ATTEMPTS_FOR_MOTIF_RANK
    MaxReviews      \* bound: reviews of the puzzle

\* The rows the job reads: their columns, a board of pieces on squares, and a game as
\* a list of moves.
ASSUME PuzzlesAssumption ==
    \A z \in Puzzles :
        /\ DOMAIN z = {"board", "user", "played", "best", "ply", "elsewhere", "pv_length",
                       "eval_before", "eval_after", "game"}
        /\ Placement(z.board) /\ z.user \in Color
        /\ z.ply \in Nat /\ z.pv_length \in Nat
        /\ DOMAIN z.game = {"nodes", "control", "agrees"}
        /\ z.game.nodes \in Seq(Range(z.game.nodes)) /\ z.game.agrees \in BOOLEAN

ASSUME MistakeDiagnosisAssumption ==
    /\ NoCall \notin Answers
    /\ Corrections \subseteq CauseLabels
    /\ MinAttempts \in Nat \ {0} /\ MaxReviews \in Nat

VARIABLES
    puzzle,
    history,    \* the puzzle's reviews of the last 30 days: [attempts, fails]
    row         \* the stored diagnosis

vars == <<puzzle, history, row>>

-----------------------------------------------------------------------------
(* From the stored rows to a packet *)

Analysable(z) == Playable(z.board, z.user, z.played) /\ Playable(z.board, z.user, z.best)

\* A rate is stated only from enough attempts; a rate is <<fails, attempts>>.
MotifFailRate(h) == IF h.attempts < MinAttempts THEN Unknown ELSE <<h.fails, h.attempts>>

PuzzleFacts(z) ==
    [ply |-> z.ply, elsewhere |-> z.elsewhere, pv_length |-> z.pv_length,
     eval_before |-> z.eval_before, eval_after |-> z.eval_after]

HistoryFacts(h) == [fail_count |-> h.fails, motif_rate |-> MotifFailRate(h)]

\* Which side the user played is read off the puzzle, not off the game.
Context(z) ==
    ExtractGameContext(z.game.nodes, z.ply, z.user = "white", ParseTimeControl(z.game.control))

\* A replay that is too short to reach the mistake contradicts nothing.
GameFacts(z) ==
    [context |-> Context(z), replayed |-> z.game.agrees \/ z.ply \notin DOMAIN z.game.nodes,
     time_control |-> ParseTimeControl(z.game.control)]

PacketOf(z, h) == Packet(z.board, z.played, z.best, PuzzleFacts(z), HistoryFacts(h), GameFacts(z))

-----------------------------------------------------------------------------
(* The stored row *)

Confirmed(r) == IF r = NoRow THEN Unknown ELSE r.confirmed

\* The motif the puzzle was filed under when it was saved.
StoredMotif(z) == IF Playable(z.board, z.user, z.best) THEN Motif(z.board, z.best) ELSE "blunder"

UnavailableRow(z) ==
    [status |-> "unavailable", primary |-> Unknown, secondary |-> <<>>, strength |-> Unknown,
     insufficient |-> TRUE, source |-> "rules", motif |-> StoredMotif(z), hash |-> Unknown,
     current |-> TRUE, confirmed |-> Unknown]

StrengthOf(cause, assessment) ==
    LET found == {c \in assessment.candidates : c.cause = cause} IN
    IF found = {} THEN Unknown ELSE (CHOOSE c \in found : TRUE).strength

\* An accepted answer brings its own order; an empty list of secondaries is no list.
DiagnosedRow(packet, assessment, answer, motif) ==
    LET accepted == answer # NoCall /\ Enrich(answer, packet, assessment) = "accepted"
        primary == IF accepted THEN answer.primary ELSE assessment.primary IN
    [status |-> "ok", primary |-> primary,
     secondary |-> IF accepted /\ answer.secondary # <<>> THEN answer.secondary
                   ELSE assessment.secondary,
     strength |-> StrengthOf(primary, assessment),
     insufficient |-> assessment.insufficient,
     source |-> IF accepted THEN "llm" ELSE "rules", motif |-> motif, hash |-> packet,
     current |-> TRUE, confirmed |-> Unknown]

\* The user's own label is never part of a write.
Upsert(write) == row' = [write EXCEPT !.confirmed = Confirmed(row)]

Pending == row # NoRow => ~row.current
Unenriched == row # NoRow /\ row.status = "ok" /\ row.source = "rules"

-----------------------------------------------------------------------------
(* Actions *)

Init ==
    /\ puzzle \in Puzzles
    /\ history = [attempts |-> 0, fails |-> 0]
    /\ row = NoRow

DiagnoseUnavailable ==
    /\ Pending
    /\ ~Analysable(puzzle)
    /\ Upsert(UnavailableRow(puzzle))
    /\ UNCHANGED <<puzzle, history>>

\* A run of the job over this puzzle, or an operator's second pass for a model's prose.
Diagnose ==
    /\ Pending \/ Unenriched
    /\ Analysable(puzzle)
    /\ LET packet == PacketOf(puzzle, history)
           assessment == Classify(packet)
           motif == StoredMotif(puzzle) IN
       \E answer \in Answers \union {NoCall} :
          Upsert(DiagnosedRow(packet, assessment, answer, motif))
    /\ UNCHANGED <<puzzle, history>>

\* POST /puzzles/{id}/diagnosis/confirm: beside the computed cause, never over it.
ConfirmCause(cause) ==
    /\ row # NoRow
    /\ row' = [row EXCEPT !.confirmed = cause]
    /\ UNCHANGED <<puzzle, history>>

Review(passed) ==
    /\ history.attempts < MaxReviews
    /\ history' = [attempts |-> history.attempts + 1,
                   fails |-> history.fails + IF passed THEN 0 ELSE 1]
    /\ UNCHANGED <<puzzle, row>>

\* A deployment raises a version: the row is work again.
Redeploy ==
    /\ row # NoRow
    /\ row.current
    /\ row' = [row EXCEPT !.current = FALSE]
    /\ UNCHANGED <<puzzle, history>>

Next ==
    \/ DiagnoseUnavailable
    \/ Diagnose
    \/ \E cause \in Corrections : ConfirmCause(cause)
    \/ \E passed \in BOOLEAN : Review(passed)
    \/ Redeploy

Spec == Init /\ [][Next]_vars

-----------------------------------------------------------------------------
(* Properties *)

Diagnosed == row # NoRow /\ row.status = "ok"

\* Every fact a cause rests on was measured on this very position, so that each
\* claim on the card can be checked: the rules and to_evidence_items, written
\* apart, agree on which facts a position has.
CitationsAreMeasured ==
    Diagnosed => \A c \in Fired(row.hash) : c.ids \subseteq EvidenceItems(row.hash)

\* Whatever a model answered, the stored headline is a cause the rules found, with
\* that cause's own strength, its company was found too, and a mistake whose cause
\* the rules could not tell stays unclear.
StoredCauseIsSupported ==
    Diagnosed =>
        LET assessment == Classify(row.hash) IN
        /\ ToSet(row.secondary) \subseteq Supported(assessment)
        /\ IF row.insufficient
           THEN row.primary = Unclassified /\ row.source = "rules"
           ELSE [cause |-> row.primary, strength |-> row.strength]
                    \in {[cause |-> c.cause, strength |-> c.strength] : c \in assessment.candidates}

\* A mistake is explained by what preceded it: the moves, clocks and openings after
\* it change nothing, and a game that replays to another position says nothing.
ContextIgnoresTheFuture ==
    LET past == [puzzle EXCEPT !.game.nodes = SubSeq(@, 1, Min({puzzle.ply, Len(@)}))]
        Seen(z) == Trusted(GameFacts(z).context, GameFacts(z).replayed) IN
    /\ [Seen(puzzle) EXCEPT !.plies = 0] = [Seen(past) EXCEPT !.plies = 0]
    /\ ~puzzle.game.agrees /\ puzzle.ply \in DOMAIN puzzle.game.nodes
            => Seen(puzzle) = EmptyContext

\* The motif's name and the cause never contradict each other: a piece that the
\* title calls hanging is one the diagnosis counts among the loose ones.  Over
\* Reached positions only: of any other, which a game cannot lead to but a FEN can
\* say, nothing is claimed.
HangingMotifMeansLoosePiece ==
    Diagnosed /\ Reached(puzzle.board, puzzle.user)
              /\ row.motif \in {"hanging_piece", "hanging_queen"} =>
        \E c \in Fired(row.hash) : c.cause = "loose_piece_awareness" /\ c.strength >= 80

=============================================================================
