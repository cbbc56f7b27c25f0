------------------------------ MODULE Insights ------------------------------
(***************************************************************************)
(* What the stored diagnoses say about a user's mistakes: the counts per   *)
(* cause, the pattern a cause is called by, today's focus, the puzzles     *)
(* that share a weakness, and the opening they come from.  Pure operators  *)
(* over diag, the diagnosis row of each puzzle (None while it has none),   *)
(* and tally, its server-verified reviews.                                 *)
(***************************************************************************)
EXTENDS PracticeQueue

CONSTANTS
    MinDiagnoses,    \* MIN_DIAGNOSES_FOR_CAUSE_RANK
    MinAttempts,     \* MIN_ATTEMPTS_FOR_MOTIF_RANK
    MinPuzzles,      \* MIN_PUZZLES_FOR_CAUSE_ACCURACY
    MinForLine,      \* MIN_PUZZLES_FOR_LINE_PRACTICE
    RecentWindow     \* RECENT_WINDOW_DAYS, in ticks

ASSUME InsightsAssumption ==
    /\ MinDiagnoses \in Nat
    /\ MinAttempts \in Nat
    /\ MinPuzzles \in Nat
    /\ MinForLine \in Nat \ {0}
    /\ RecentWindow \in Nat

-----------------------------------------------------------------------------
(* Patterns *)

\* The name of a cause in any phase.
GeneralName ==
    [loose_piece_awareness |-> "Loose Piece Syndrome",
     alignment_blindness |-> "Lined-Up Pieces",
     forcing_move_blindness |-> "Missed Forcing Moves",
     quiet_move_blindness |-> "Forcing-Move Tunnel",
     recapture_assumption |-> "Automatic Recapture",
     calculation_stopped_early |-> "Calculation Stops One Move Early",
     king_safety_blindness |-> "King Safety Blind Spot",
     own_threat_tunnel_vision |-> "Attack Tunnel Vision",
     missed_opponent_resource |-> "Missed Opponent Resource",
     endgame_technique_gap |-> "Endgame Conversion",
     opening_pattern_gap |-> "Opening Pattern Gap",
     time_pressure_collapse |-> "Time Pressure Collapse"]

\* identify: unclassified has no name.
Identify(cause, phase) ==
    IF cause = "loose_piece_awareness" /\ phase = "opening"
    THEN "Loose Pieces After Development"
    ELSE IF cause = "king_safety_blindness" /\ phase = "endgame"
    THEN "Back Rank Neglect"
    ELSE IF cause \in DOMAIN GeneralName THEN GeneralName[cause] ELSE None

\* What a user may confirm a diagnosis as: CAUSE_LABELS, in name order.
Alphabet ==
    <<"alignment_blindness", "calculation_stopped_early", "endgame_technique_gap",
      "forcing_move_blindness", "king_safety_blindness", "loose_piece_awareness",
      "missed_opponent_resource", "opening_pattern_gap", "own_threat_tunnel_vision",
      "quiet_move_blindness", "recapture_assumption", "time_pressure_collapse",
      "unclassified">>
KnownCauses == Range(Alphabet)
Place(cause) == CHOOSE i \in DOMAIN Alphabet : Alphabet[i] = cause

\* A row of puzzle_diagnoses.
DiagnosisRow ==
    [status : STRING, primary : KnownCauses \union {None},
     confirmed : KnownCauses \union {None}, insufficient : BOOLEAN,
     motif : Text, phase : Text, family : Text, line : Text]

\* What plan_focus chooses, and the focus that is shown for it.
PatternNames ==
    Range(GeneralName) \union {"Loose Pieces After Development", "Back Rank Neglect"}
FocusPlan == [cause : KnownCauses, name : PatternNames, runnerUp : PatternNames \union {None}]
Focus == [cause : KnownCauses, name : PatternNames, trainable : Nat, candidates : Nat,
          available : BOOLEAN]

ASSUME FactsAssumption ==
    /\ None \notin KnownCauses
    /\ None \notin DiagnosisRow \union FocusPlan \union Focus
    /\ \A p \in Puzzles :
        /\ Facts[p].saved \in BOOLEAN
        /\ Facts[p].swing \in Int
        /\ Facts[p].diagnosis \in DiagnosisRow

-----------------------------------------------------------------------------
(* Counts per cause *)

Analysed(row) == row # None /\ row.status = "ok"

\* The user's correction over the computed cause.
CauseIn(row) == IF row.confirmed # None THEN row.confirmed ELSE row.primary

IdsForCause(diag, cause) ==
    {p \in Puzzles : Analysed(diag[p]) /\ CauseIn(diag[p]) = cause}

CausesSeen(diag) == {CauseIn(diag[p]) : p \in {q \in Puzzles : Analysed(diag[q])}} \ {None}

\* The value of f that more than half of total have.
Dominant(f, total) ==
    LET Holders(v) == {p \in DOMAIN f : f[p] = v}
        top == {v \in Range(f) : v # None /\ 2 * Cardinality(Holders(v)) > total} IN
    IF top = {} THEN None ELSE CHOOSE v \in top : TRUE

Total(f) == FoldFunction(+, 0, f)

Recent(p, now) == Facts[p].ended >= now - RecentWindow

\* CauseStat; a phase is dominant among the phases recorded, an opening among
\* all the mistakes.
StatOf(cause, diag, tally, now) ==
    LET ids == IdsForCause(diag, cause)
        phases == [p \in ids |-> diag[p].phase]
        attempts == Total([p \in ids |-> tally[p].attempts])
        passes == Total([p \in ids |-> tally[p].passes])
        tried == Cardinality({p \in ids : tally[p].attempts > 0}) IN
    [cause |-> cause, mistakes |-> Cardinality(ids),
     phase |-> Dominant(phases, Cardinality({p \in ids : phases[p] # None})),
     opening |-> Dominant([p \in ids |-> diag[p].family], Cardinality(ids)),
     attempts |-> attempts, passes |-> passes, puzzles |-> tried,
     measured |-> attempts >= MinAttempts /\ tried >= MinPuzzles,
     insufficient |-> Cardinality(ids) < MinDiagnoses,
     recent |-> Cardinality({p \in ids : Recent(p, now)})]

\* cause_breakdown: most frequent first.
Breakdown(diag, tally, now) ==
    SortedBy({StatOf(cause, diag, tally, now) : cause \in CausesSeen(diag)},
             LAMBDA s : <<-s.mistakes, Place(s.cause)>>)

\* Thousandths of mistakes * difficulty * recency: (m + r) * (3/2 or 2 - accuracy).
PriorityScore(stat) ==
    LET seen == stat.mistakes + stat.recent IN
    IF ~stat.measured \/ stat.attempts = 0 THEN seen * 1500
    ELSE Round(1000 * seen * (2 * stat.attempts - stat.passes), stat.attempts)

NameOf(stat) == Identify(stat.cause, stat.phase)

ByPriority(stats) ==
    SortedBy(stats, LAMBDA s : <<-PriorityScore(s), Place(s.cause)>>)

\* plan_focus: what to train today, or nothing.
PlanFocus(breakdown) ==
    LET ranked == ByPriority({s \in Range(breakdown) : ~s.insufficient /\ NameOf(s) # None}) IN
    IF ranked = << >> THEN None
    ELSE [cause |-> ranked[1].cause, name |-> NameOf(ranked[1]),
          runnerUp |-> IF Len(ranked) > 1 THEN NameOf(ranked[2]) ELSE None]

-----------------------------------------------------------------------------
(* The Insights endpoints *)

Pending(diag) == Cardinality({p \in Puzzles : diag[p] = None})

BelowThreshold(breakdown) ==
    Cardinality({i \in DOMAIN breakdown :
        breakdown[i].insufficient /\ NameOf(breakdown[i]) # None})

\* GET mistake-patterns
MistakePatterns(diag, tally, now) ==
    LET breakdown == Breakdown(diag, tally, now)
        named == ByPriority({s \in Range(breakdown) : ~s.insufficient /\ NameOf(s) # None}) IN
    [patterns |-> [i \in DOMAIN named |->
                     [cause |-> named[i].cause, name |-> NameOf(named[i]),
                      mistakes |-> named[i].mistakes]],
     below |-> BelowThreshold(breakdown), pending |-> Pending(diag)]

\* GET todays-focus
TodaysFocus(diag, tally, stats, now) ==
    LET chosen == PlanFocus(Breakdown(diag, tally, now))
        ids == IdsForCause(diag, chosen.cause) IN
    IF chosen = None THEN None
    ELSE [cause |-> chosen.cause, name |-> chosen.name,
          trainable |-> Cardinality(TrainableIds(ids, stats, now)),
          candidates |-> Cardinality(ids),
          available |-> Cardinality(ids) >= 2]

\* GET mistake-causes
MistakeCauses(diag, tally, now) ==
    LET breakdown == Breakdown(diag, tally, now) IN
    [causes |-> [i \in DOMAIN breakdown |->
                   [cause |-> breakdown[i].cause, mistakes |-> breakdown[i].mistakes]],
     total |-> Total([i \in DOMAIN breakdown |-> breakdown[i].mistakes]),
     pending |-> Pending(diag)]

-----------------------------------------------------------------------------
(* Openings; a line is a record of its family and its name *)

IdsForOpening(diag, opening, family) ==
    {p \in Puzzles :
        /\ Analysed(diag[p])
        /\ IF family THEN diag[p].family = opening.family
                     ELSE diag[p].line = opening.line}

\* GET opening-practice
OpeningPractice(diag, opening) ==
    LET lines == Cardinality(IdsForOpening(diag, opening, FALSE))
        families == Cardinality(IdsForOpening(diag, opening, TRUE)) IN
    [lines |-> lines, families |-> families,
     scope |-> IF lines >= MinForLine THEN "line"
               ELSE IF families > 0 THEN "family" ELSE "none"]

-----------------------------------------------------------------------------
(* Puzzles that share a weakness *)

\* key_for: an unexplained mistake has none.
ClusterKey(row) ==
    IF ~Analysed(row) THEN None
    ELSE IF CauseIn(row) \in {None, "unclassified"} THEN None
    ELSE [cause |-> CauseIn(row), motif |-> Usable(row.motif), phase |-> row.phase]

\* The legs of the key that must match, tightest first.
TiersFor(key) ==
    SelectSeq(<<{"motif", "phase"}, {"motif"}, {"phase"}, {}>>,
              LAMBDA legs : /\ "motif" \in legs => key.motif # None
                            /\ "phase" \in legs => key.phase # None)

Siblings(p, key, legs, diag) ==
    {q \in IdsForCause(diag, key.cause) \ {p} :
        /\ "motif" \in legs => diag[q].motif = key.motif
        /\ "phase" \in legs => diag[q].phase = key.phase}

\* similar_puzzle_ids: the first tier that has any, newest first.
Similar(p, key, n, diag) ==
    LET tiers == SelectSeq(TiersFor(key), LAMBDA legs : Siblings(p, key, legs, diag) # {}) IN
    IF tiers = << >> THEN [ids |-> << >>, legs |-> None]
    ELSE [ids |-> Take(SortedBy(Siblings(p, key, tiers[1], diag), LAMBDA q : <<-q>>), n),
          legs |-> tiers[1]]
=============================================================================
