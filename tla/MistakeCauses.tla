--------------------------- MODULE MistakeCauses ----------------------------
(***************************************************************************)
(* From a packet of facts to the causes of a mistake: the twelve rules of  *)
(* diagnosis/causes.py, each citing the facts it rests on, their ranking,  *)
(* and the gate of ai/client.py that a model's answer must pass before it  *)
(* may re-rank them.  Strengths are in hundredths.                         *)
(***************************************************************************)
EXTENDS BoardEvidence, SequencesExt

Unclassified == "unclassified"
ModulatorCauses == {"time_pressure_collapse"}
SecondaryFloor == 40
MaxSecondary == 3

\* The order of the names, which breaks ties.
Names == <<"alignment_blindness", "calculation_stopped_early", "endgame_technique_gap",
           "forcing_move_blindness", "king_safety_blindness", "loose_piece_awareness",
           "missed_opponent_resource", "opening_pattern_gap", "own_threat_tunnel_vision",
           "quiet_move_blindness", "recapture_assumption", "time_pressure_collapse">>
Causes == ToSet(Names)
CauseLabels == Causes \union {Unclassified}
NameRank(cause) == CHOOSE i \in DOMAIN Names : Names[i] = cause

-----------------------------------------------------------------------------
(* The rules: each yields at most one candidate *)

Candidate(cause, strength, ids) == {[cause |-> cause, strength |-> strength, ids |-> ids]}
Nothing == {}

\* Mutant of LoosePieceAwareness: a capture counts whatever it took.
LoosePieceOfAnyValue(p) ==
    LET Found(strength, ids) == Candidate("loose_piece_awareness", strength, ids) IN
    IF p.loose_targets >= 2
    THEN Found(90, {"best.loose_targets", "best.attacks"} \union When(p.is_fork, "best.is_fork"))
    ELSE IF p.captures_undefended
    THEN Found(80, {"best.captures_undefended", "loose.opponent"})
    ELSE IF p.loose_targets = 1 /\ p.is_fork
    THEN Found(75, {"best.loose_targets", "best.is_fork"})
    ELSE IF p.own_loose >= 2 /\ p.forcing_replies >= 3
    THEN Found(60, {"loose.own", "loose.own_value", "threats.opponent_forcing_replies"})
    ELSE Nothing

\* Undefended pieces went unscanned: a punishment was missed, or one's own were loose.
LoosePieceAwareness(p) ==
    LET Found(strength, ids) == Candidate("loose_piece_awareness", strength, ids) IN
    IF p.loose_targets >= 2
    THEN Found(90, {"best.loose_targets", "best.attacks"} \union When(p.is_fork, "best.is_fork"))
    ELSE IF p.captures_undefended /\ p.captured_value >= LooseMinValue
    THEN Found(80, {"best.captures_undefended", "loose.opponent"})
    ELSE IF p.loose_targets = 1 /\ p.is_fork
    THEN Found(75, {"best.loose_targets", "best.is_fork"})
    ELSE IF p.own_loose >= 2 /\ p.forcing_replies >= 3
    THEN Found(60, {"loose.own", "loose.own_value", "threats.opponent_forcing_replies"})
    ELSE Nothing

AlignmentBlindness(p) ==
    IF p.alignment = "none" THEN Nothing
    ELSE Candidate("alignment_blindness", IF p.alignment = "blocked" THEN 75 ELSE 60,
                   {"alignment.exploited"})

ForcingMoveBlindness(p) ==
    IF p.played_quiet /\ ~p.best_quiet
    THEN Candidate("forcing_move_blindness", 65,
                   {"best.move", "played.move"} \union When(p.best_check, "threats.legal_checks")
                                                \union When(p.best_capture, "threats.legal_captures"))
    ELSE Nothing

QuietMoveBlindness(p) ==
    IF p.best_quiet /\ ~p.played_quiet
    THEN Candidate("quiet_move_blindness", 70, {"best.move", "played.move"})
    ELSE Nothing

RecaptureAssumption(p) ==
    IF ~p.is_recapture THEN Nothing
    ELSE IF p.zwischenzug
    THEN Candidate("recapture_assumption", 80,
                   {"played.is_recapture", "best.is_zwischenzug_like", "best.move"})
    ELSE Candidate("recapture_assumption", 60, {"played.is_recapture", "best.move"})

CalculationStoppedEarly(p) ==
    IF p.pv_length < 3 THEN Nothing
    ELSE Candidate("calculation_stopped_early", IF p.pv_length >= 5 THEN 60 ELSE 50,
                   {"best.pv_length", "best.move"})

KingSafetyBlindness(p) ==
    IF p.ring_attackers >= 2
    THEN Candidate("king_safety_blindness", 65,
                   {"king.ring_attackers", "threats.opponent_forcing_replies"})
    ELSE IF p.boxed /\ p.forcing_replies >= 1
    THEN Candidate("king_safety_blindness", 60,
                   {"king.back_rank_boxed", "threats.opponent_forcing_replies"})
    ELSE Nothing

OwnThreatTunnelVision(p) ==
    IF p.played_targets >= 1 /\ p.forcing_replies >= 2
    THEN Candidate("own_threat_tunnel_vision", 60,
                   {"played.attacks", "threats.opponent_forcing_replies"})
    ELSE Nothing

MissedOpponentResource(p) ==
    IF p.played_targets = 0 /\ p.forcing_replies >= 3
    THEN Candidate("missed_opponent_resource", 50,
                   {"threats.opponent_forcing_replies", "played.move"})
    ELSE Nothing

EndgameTechniqueGap(p) ==
    IF p.phase = "endgame" /\ p.eval_before >= 100 /\ p.eval_after < 50
    THEN Candidate("endgame_technique_gap", 55, {"position.phase", "eval.before", "eval.after"})
    ELSE Nothing

OpeningPatternGap(p) ==
    IF p.phase = "opening" /\ Swing(p) >= 300 /\ p.pv_length <= 2
    THEN Candidate("opening_pattern_gap", 45, {"position.phase", "eval.swing"})
    ELSE Nothing

TimePressureCollapse(p) ==
    IF p.time_pressure # TRUE THEN Nothing
    ELSE Candidate("time_pressure_collapse", 60,
                   {"clock.seconds_left"} \union When(p.move_time # Unknown, "clock.move_time"))

Fired(p) ==
    LoosePieceAwareness(p) \union AlignmentBlindness(p) \union ForcingMoveBlindness(p)
    \union QuietMoveBlindness(p) \union RecaptureAssumption(p) \union CalculationStoppedEarly(p)
    \union KingSafetyBlindness(p) \union OwnThreatTunnelVision(p) \union MissedOpponentResource(p)
    \union EndgameTechniqueGap(p) \union OpeningPatternGap(p) \union TimePressureCollapse(p)

-----------------------------------------------------------------------------
(* classify_causes *)

Stronger(a, b) ==
    \/ a.strength > b.strength
    \/ a.strength = b.strength /\ NameRank(a.cause) < NameRank(b.cause)

\* A modulator may accompany a cause and is never the headline.
Substantive(fired) == {c \in fired : c.cause \notin ModulatorCauses}

\* The candidates in order: the i-th is the one with i - 1 stronger ones.
Ranked(found) ==
    [i \in 1..Cardinality(found) |->
        CHOOSE c \in found : Cardinality({d \in found : Stronger(d, c)}) = i - 1]

Classify(p) ==
    LET fired == Fired(p)
        primary == Ranked(Substantive(fired))[1]
        others == Ranked({c \in fired : c.cause # primary.cause /\ c.strength >= SecondaryFloor})
    IN
    IF Substantive(fired) = {}
    THEN [candidates |-> fired, primary |-> Unclassified, secondary |-> <<>>, insufficient |-> TRUE]
    ELSE [candidates |-> fired, primary |-> primary.cause,
          secondary |-> [i \in 1..Min({MaxSecondary, Len(others)}) |-> others[i].cause],
          insufficient |-> FALSE]

Supported(assessment) == {c.cause : c \in assessment.candidates}

-----------------------------------------------------------------------------
(* The model: an answer is [kind, primary, secondary, ids]; its kind is what *)
(* became of the call, and only one that was "parsed" carries a diagnosis.   *)

\* A refused call, a truncated or malformed text and an unreachable provider.
NoDiagnosis == [kind |-> "rejected", primary |-> Unclassified, secondary |-> <<>>, ids |-> {}]
Unreachable == [NoDiagnosis EXCEPT !.kind = "error"]

\* Mutant of SoundAnswer: only the headline is checked.
SoundHeadline(answer, packet, assessment) ==
    answer.kind = "parsed" /\ answer.primary \in Supported(assessment)

\* The gate: truth, not shape.
SoundAnswer(answer, packet, assessment) ==
    /\ answer.kind = "parsed"
    /\ answer.primary \in Supported(assessment)
    /\ ToSet(answer.secondary) \subseteq Supported(assessment)
    /\ answer.primary \notin ToSet(answer.secondary)
    /\ answer.ids \subseteq EvidenceItems(packet)
    /\ answer.ids # {}

\* The status of a call, as the audit log records it.
Enrich(answer, packet, assessment) ==
    IF assessment.candidates = {} \/ assessment.insufficient THEN "skipped"
    ELSE IF answer.kind = "error" THEN "error"
    ELSE IF SoundAnswer(answer, packet, assessment) THEN "accepted"
    ELSE "rejected"
=============================================================================
