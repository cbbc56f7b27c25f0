----------------------- MODULE MistakeDiagnosisProofs -----------------------
(***************************************************************************)
(* Theorems about MistakeDiagnosis, for every board, position, game, model *)
(* answer and history: the stored diagnosis cites what was measured and    *)
(* names a cause the rules found.                                          *)
(***************************************************************************)
EXTENDS MistakeDiagnosis, FiniteSetTheorems, FunctionTheorems, SequenceTheorems,
        WellFoundedInduction, TLAPS

-----------------------------------------------------------------------------
(* The inductive invariant *)

Computed == {"status", "primary", "secondary", "strength", "insufficient", "source",
             "motif", "hash"}

HistoryTyped ==
    /\ history \in [attempts : Nat, fails : Nat]
    /\ puzzle \in Puzzles

\* What is stored is what some run of the job made of this very puzzle; only the
\* user's label and the staleness change apart from it.
RowIsComputed ==
    row # NoRow =>
        /\ DOMAIN row = Computed \union {"current", "confirmed"}
        /\ \/ row.status = "unavailable"
           \/ /\ row.status = "ok"
              /\ Analysable(puzzle)
              /\ \E h \in [attempts : Nat, fails : Nat], answer \in Answers \union {NoCall} :
                    LET made == DiagnosedRow(PacketOf(puzzle, h), Classify(PacketOf(puzzle, h)),
                                             answer, StoredMotif(puzzle)) IN
                    \A f \in Computed : row[f] = made[f]

IInv == HistoryTyped /\ RowIsComputed

LEMMA InitInvariant == Init => IInv
BY DEF Init, IInv, HistoryTyped, RowIsComputed

\* A write keeps what the run computed.
LEMMA UpsertWrites ==
    ASSUME NEW write, DOMAIN write = Computed \union {"current", "confirmed"}, Upsert(write)
    PROVE  /\ DOMAIN row' = Computed \union {"current", "confirmed"}
           /\ \A f \in Computed : row'[f] = write[f]
BY DEF Upsert, Computed

LEMMA DiagnosedRowDomain ==
    ASSUME NEW packet, NEW assessment, NEW answer, NEW motif
    PROVE  LET made == DiagnosedRow(packet, assessment, answer, motif) IN
           /\ DOMAIN made = Computed \union {"current", "confirmed"}
           /\ made.status = "ok" /\ made.hash = packet
BY DEF DiagnosedRow, Computed

LEMMA StepInvariant == IInv /\ [Next]_vars => IInv'
<1> SUFFICES ASSUME IInv, [Next]_vars PROVE IInv'
  OBVIOUS
<1> USE DEF IInv
<1> HIDE DEF Computed
<1>1. HistoryTyped'
  <2>1. puzzle' = puzzle
    BY DEF Next, DiagnoseUnavailable, Diagnose, ConfirmCause, Review, Redeploy, vars
  <2>2. history' = history \/ \E passed \in BOOLEAN : Review(passed)
    BY DEF Next, DiagnoseUnavailable, Diagnose, ConfirmCause, Review, Redeploy, vars
  <2>3. history' \in [attempts : Nat, fails : Nat]
    BY <2>2 DEF HistoryTyped, Review
  <2> QED BY <2>1, <2>3 DEF HistoryTyped
<1>2. RowIsComputed'
  <2>1. CASE DiagnoseUnavailable
    <3>1. DOMAIN UnavailableRow(puzzle) = Computed \union {"current", "confirmed"}
          /\ UnavailableRow(puzzle).status = "unavailable" /\ "status" \in Computed
      BY DEF UnavailableRow, Computed
    <3>2. Upsert(UnavailableRow(puzzle))
      BY <2>1 DEF DiagnoseUnavailable
    <3> QED BY <3>1, <3>2, UpsertWrites DEF RowIsComputed
  <2>2. CASE Diagnose
    <3>1. /\ Analysable(puzzle)
          /\ \E answer \in Answers \union {NoCall} :
                Upsert(DiagnosedRow(PacketOf(puzzle, history), Classify(PacketOf(puzzle, history)),
                                    answer, StoredMotif(puzzle)))
          /\ puzzle' = puzzle
      BY <2>2 DEF Diagnose
    <3>2. PICK answer \in Answers \union {NoCall} :
             Upsert(DiagnosedRow(PacketOf(puzzle, history), Classify(PacketOf(puzzle, history)),
                                 answer, StoredMotif(puzzle)))
      BY <3>1
    <3>3. "status" \in Computed
      BY DEF Computed
    <3> DEFINE made == DiagnosedRow(PacketOf(puzzle, history), Classify(PacketOf(puzzle, history)),
                                    answer, StoredMotif(puzzle))
    <3>4. DOMAIN made = Computed \union {"current", "confirmed"} /\ made.status = "ok"
      BY DiagnosedRowDomain
    <3>5. DOMAIN row' = Computed \union {"current", "confirmed"}
          /\ \A f \in Computed : row'[f] = made[f]
      <4>1. Upsert(made)
        BY <3>2
      <4> HIDE DEF made
      <4> QED BY <3>4, <4>1, UpsertWrites
    <3>6. history \in [attempts : Nat, fails : Nat]
      BY DEF HistoryTyped
    <3>7. row'.status = "ok"
      <4> HIDE DEF made
      <4> QED BY <3>3, <3>4, <3>5
    <3>8. Analysable(puzzle)' /\ StoredMotif(puzzle)' = StoredMotif(puzzle)
          /\ PacketOf(puzzle, history) = PacketOf(puzzle', history)
      BY <3>1
    <3> QED BY <3>1, <3>5, <3>6, <3>7, <3>8 DEF RowIsComputed
  <2>3. ASSUME NEW cause \in Corrections, ConfirmCause(cause) PROVE RowIsComputed'
    <3>1. /\ row # NoRow /\ row' = [row EXCEPT !.confirmed = cause] /\ puzzle' = puzzle
      BY <2>3 DEF ConfirmCause
    <3>2. DOMAIN row' = DOMAIN row /\ \A f \in Computed : row'[f] = row[f]
      BY <3>1 DEF RowIsComputed, Computed
    <3> QED BY <3>1, <3>2 DEF RowIsComputed, Computed
  <2>4. CASE Redeploy
    <3>1. /\ row # NoRow /\ row' = [row EXCEPT !.current = FALSE] /\ puzzle' = puzzle
      BY <2>4 DEF Redeploy
    <3>2. DOMAIN row' = DOMAIN row /\ \A f \in Computed : row'[f] = row[f]
      BY <3>1 DEF RowIsComputed, Computed
    <3> QED BY <3>1, <3>2 DEF RowIsComputed, Computed
  <2>5. CASE (\E passed \in BOOLEAN : Review(passed)) \/ UNCHANGED vars
    <3>1. UNCHANGED <<puzzle, row>>
      BY <2>5 DEF Review, vars
    <3> QED BY <3>1 DEF RowIsComputed
  <2> QED BY <2>1, <2>2, <2>3, <2>4, <2>5 DEF Next
<1> QED BY <1>1, <1>2

\* The invariant holds in every reachable state.
THEOREM Invariance == Spec => []IInv
BY InitInvariant, StepInvariant, PTL DEF Spec

-----------------------------------------------------------------------------
(* The candidates *)

\* A rule finds its own cause, once or not at all.
AtMostOne(found, cause) ==
    /\ IsFiniteSet(found)
    /\ \A c, d \in found : c = d
    /\ \A c \in found : c.cause = cause /\ c.strength \in Nat

LEMMA FindsOne ==
    ASSUME NEW cause, NEW strength \in Nat, NEW ids
    PROVE  AtMostOne(Candidate(cause, strength, ids), cause)
<1> DEFINE c == [cause |-> cause, strength |-> strength, ids |-> ids]
<1>1. Candidate(cause, strength, ids) = {c} /\ c.cause = cause /\ c.strength \in Nat
  BY DEF Candidate
<1> HIDE DEF c
<1>2. IsFiniteSet({c})
  BY FS_Singleton
<1> QED BY <1>1, <1>2 DEF AtMostOne

LEMMA FindsNone == ASSUME NEW cause PROVE AtMostOne(Nothing, cause)
BY FS_EmptySet DEF AtMostOne, Nothing

LEMMA RulesFindOne ==
    ASSUME NEW p
    PROVE  /\ AtMostOne(LoosePieceAwareness(p), "loose_piece_awareness")
           /\ AtMostOne(AlignmentBlindness(p), "alignment_blindness")
           /\ AtMostOne(ForcingMoveBlindness(p), "forcing_move_blindness")
           /\ AtMostOne(QuietMoveBlindness(p), "quiet_move_blindness")
           /\ AtMostOne(RecaptureAssumption(p), "recapture_assumption")
           /\ AtMostOne(CalculationStoppedEarly(p), "calculation_stopped_early")
           /\ AtMostOne(KingSafetyBlindness(p), "king_safety_blindness")
           /\ AtMostOne(OwnThreatTunnelVision(p), "own_threat_tunnel_vision")
           /\ AtMostOne(MissedOpponentResource(p), "missed_opponent_resource")
           /\ AtMostOne(EndgameTechniqueGap(p), "endgame_technique_gap")
           /\ AtMostOne(OpeningPatternGap(p), "opening_pattern_gap")
           /\ AtMostOne(TimePressureCollapse(p), "time_pressure_collapse")
<1>1. AtMostOne(LoosePieceAwareness(p), "loose_piece_awareness")
  BY FindsOne, FindsNone DEF LoosePieceAwareness
<1>2. AtMostOne(AlignmentBlindness(p), "alignment_blindness")
  BY FindsOne, FindsNone DEF AlignmentBlindness
<1>3. AtMostOne(ForcingMoveBlindness(p), "forcing_move_blindness")
  BY FindsOne, FindsNone DEF ForcingMoveBlindness
<1>4. AtMostOne(QuietMoveBlindness(p), "quiet_move_blindness")
  BY FindsOne, FindsNone DEF QuietMoveBlindness
<1>5. AtMostOne(RecaptureAssumption(p), "recapture_assumption")
  BY FindsOne, FindsNone DEF RecaptureAssumption
<1>6. AtMostOne(CalculationStoppedEarly(p), "calculation_stopped_early")
  BY FindsOne, FindsNone DEF CalculationStoppedEarly
<1>7. AtMostOne(KingSafetyBlindness(p), "king_safety_blindness")
  BY FindsOne, FindsNone DEF KingSafetyBlindness
<1>8. AtMostOne(OwnThreatTunnelVision(p), "own_threat_tunnel_vision")
  BY FindsOne, FindsNone DEF OwnThreatTunnelVision
<1>9. AtMostOne(MissedOpponentResource(p), "missed_opponent_resource")
  BY FindsOne, FindsNone DEF MissedOpponentResource
<1>10. AtMostOne(EndgameTechniqueGap(p), "endgame_technique_gap")
  BY FindsOne, FindsNone DEF EndgameTechniqueGap
<1>11. AtMostOne(OpeningPatternGap(p), "opening_pattern_gap")
  BY FindsOne, FindsNone DEF OpeningPatternGap
<1>12. AtMostOne(TimePressureCollapse(p), "time_pressure_collapse")
  BY FindsOne, FindsNone DEF TimePressureCollapse
<1> QED BY <1>1, <1>2, <1>3, <1>4, <1>5, <1>6, <1>7, <1>8, <1>9, <1>10, <1>11, <1>12

\* So a cause determines its candidate, whichever rules fired.
LEMMA CausesDiffer ==
    ASSUME NEW p
    PROVE  /\ IsFiniteSet(Fired(p))
           /\ \A c \in Fired(p) : c.cause \in Causes /\ c.strength \in Nat
           /\ \A c, d \in Fired(p) : c.cause = d.cause => c = d
<1>1. IsFiniteSet(Fired(p))
  BY RulesFindOne, FS_Union, Zenon DEF Fired, AtMostOne
<1>2. \A c \in Fired(p) : c.cause \in Causes /\ c.strength \in Nat
  <2>1. /\ \A i \in 1..12 : Names[i] \in Causes
    BY DEF Causes, ToSet, Names
  <2>2. /\ "loose_piece_awareness" \in Causes /\ "alignment_blindness" \in Causes
        /\ "forcing_move_blindness" \in Causes /\ "quiet_move_blindness" \in Causes
        /\ "recapture_assumption" \in Causes /\ "calculation_stopped_early" \in Causes
        /\ "king_safety_blindness" \in Causes /\ "own_threat_tunnel_vision" \in Causes
        /\ "missed_opponent_resource" \in Causes /\ "endgame_technique_gap" \in Causes
        /\ "opening_pattern_gap" \in Causes /\ "time_pressure_collapse" \in Causes
    BY <2>1 DEF Names
  <2> QED BY <2>2, RulesFindOne DEF Fired, AtMostOne
<1>3. \A c, d \in Fired(p) : c.cause = d.cause => c = d
  BY RulesFindOne DEF Fired, AtMostOne
<1> QED BY <1>1, <1>2, <1>3

\* The ranks of the causes are numbers, one for each.
LEMMA RanksDiffer ==
    /\ \A a \in Causes : NameRank(a) \in Nat
    /\ \A a, b \in Causes : NameRank(a) = NameRank(b) => a = b
<1>1. ASSUME NEW a \in Causes
      PROVE  NameRank(a) \in DOMAIN Names /\ Names[NameRank(a)] = a
  <2>1. \E i \in DOMAIN Names : Names[i] = a
    BY DEF Causes, ToSet
  <2> QED BY <2>1 DEF NameRank
<1>2. DOMAIN Names \subseteq Nat
  BY DEF Names
<1> QED BY <1>1, <1>2

\* Of two candidates one is the stronger.
LEMMA StrongerOrders ==
    ASSUME NEW p
    PROVE  /\ \A c \in Fired(p) : ~Stronger(c, c)
           /\ \A c, d \in Fired(p) : c # d => Stronger(c, d) \/ Stronger(d, c)
           /\ \A c, d, e \in Fired(p) : Stronger(c, d) /\ Stronger(d, e) => Stronger(c, e)
<1>1. \A c \in Fired(p) : c.strength \in Nat /\ NameRank(c.cause) \in Nat
  BY CausesDiffer, RanksDiffer
<1>2. \A c, d \in Fired(p) : NameRank(c.cause) = NameRank(d.cause) => c = d
  BY CausesDiffer, RanksDiffer
<1> HIDE DEF NameRank
<1> QED BY <1>1, <1>2 DEF Stronger

\* Every place of the ranking is taken by a candidate.
LEMMA RankedIsFilled ==
    ASSUME NEW p, NEW found, found \subseteq Fired(p), NEW i \in 1..Cardinality(found)
    PROVE  Ranked(found)[i] \in found
<1> DEFINE n == Cardinality(found)
           Above(c) == {d \in found : Stronger(d, c)}
           place == [c \in found |-> Cardinality(Above(c)) + 1]
<1>1. IsFiniteSet(found) /\ n \in Nat
  BY CausesDiffer, FS_Subset, FS_CardinalityType
<1>2. ASSUME NEW c \in found
      PROVE  IsFiniteSet(Above(c)) /\ Cardinality(Above(c)) \in Nat
             /\ c \notin Above(c)
  <2>1. ~Stronger(c, c)
    BY StrongerOrders
  <2> QED BY <1>1, <2>1, FS_Subset, FS_CardinalityType
<1>3. ASSUME NEW c \in found PROVE Cardinality(Above(c)) + 1 \in 1..n
  <2>1. /\ IsFiniteSet(Above(c) \union {c}) /\ Above(c) \union {c} \subseteq found
        /\ Cardinality(Above(c) \union {c}) = Cardinality(Above(c)) + 1
    BY <1>2, FS_AddElement
  <2>2. Cardinality(Above(c) \union {c}) <= n
    BY <1>1, <2>1, FS_Subset
  <2>3. Cardinality(Above(c)) \in Nat /\ Cardinality(Above(c)) + 1 <= n /\ n \in Nat
    BY <1>1, <1>2, <2>1, <2>2
  <2> HIDE DEF n, Above
  <2> QED BY <2>3
<1>4. ASSUME NEW c \in found, NEW d \in found, Stronger(c, d)
      PROVE  Cardinality(Above(c)) < Cardinality(Above(d))
  <2>1. Above(c) \union {c} \subseteq Above(d)
    BY <1>4, StrongerOrders
  <2>2. Cardinality(Above(c) \union {c}) = Cardinality(Above(c)) + 1
    BY <1>2, FS_AddElement
  <2>3. Cardinality(Above(c) \union {c}) <= Cardinality(Above(d))
    BY <1>2, <2>1, FS_Subset
  <2> QED BY <1>2, <2>2, <2>3
<1>5. place \in Injection(found, 1..n)
  <2>1. place \in [found -> 1..n]
    BY <1>3
  <2>2. ASSUME NEW c \in found, NEW d \in found, place[c] = place[d] PROVE c = d
    <3>1. Cardinality(Above(c)) = Cardinality(Above(d))
      <4>1. Cardinality(Above(c)) + 1 = Cardinality(Above(d)) + 1
        BY <2>2
      <4>2. Cardinality(Above(c)) \in Nat /\ Cardinality(Above(d)) \in Nat
        BY <1>2
      <4> HIDE DEF Above
      <4> QED BY <4>1, <4>2
    <3>2. ~Stronger(c, d) /\ ~Stronger(d, c)
      <4>1. Cardinality(Above(c)) \in Nat
        BY <1>2
      <4>2. /\ ~(Cardinality(Above(c)) < Cardinality(Above(d)))
            /\ ~(Cardinality(Above(d)) < Cardinality(Above(c)))
        BY <3>1, <4>1
      <4> HIDE DEF Above
      <4> QED BY <1>4, <4>2
    <3> QED BY <3>2, StrongerOrders
  <2> QED BY <2>1, <2>2, Fun_IsInj
<1>6. IsFiniteSet(1..n) /\ Cardinality(1..n) = n
  BY <1>1, FS_Interval
<1>7. place \in Surjection(found, 1..n)
  BY <1>1, <1>5, <1>6, FS_Injection
<1>8. PICK c \in found : place[c] = i
  BY <1>7, Fun_SurjectionProperties DEF Surjection
<1>9. Cardinality(Above(c)) = i - 1
  <2>1. Cardinality(Above(c)) + 1 = i /\ Cardinality(Above(c)) \in Nat
    BY <1>2, <1>8
  <2> HIDE DEF Above
  <2> QED BY <2>1
<1>10. \E d \in found : Cardinality({e \in found : Stronger(e, d)}) = i - 1
  BY <1>9
<1> QED BY <1>10 DEF Ranked

LEMMA MinOfTwo ==
    ASSUME NEW a \in Int, NEW b \in Int
    PROVE  Min({a, b}) \in {a, b} /\ Min({a, b}) <= a /\ Min({a, b}) <= b
<1>1. \E x \in {a, b} : \A y \in {a, b} : x =< y
  <2>1. CASE a <= b
    BY <2>1
  <2>2. CASE b <= a
    BY <2>2
  <2> QED BY <2>1, <2>2
<1> QED BY <1>1 DEF Min

\* A ranking is the sequence of the candidates it ranks.
LEMMA RankedType ==
    ASSUME NEW p, NEW found, found \subseteq Fired(p)
    PROVE  Ranked(found) \in Seq(found) /\ Len(Ranked(found)) = Cardinality(found)
<1>1. Cardinality(found) \in Nat
  BY CausesDiffer, FS_Subset, FS_CardinalityType
<1>2. DOMAIN Ranked(found) = 1..Cardinality(found)
  BY DEF Ranked
<1>3. Ranked(found) \in [1..Cardinality(found) -> found]
  BY RankedIsFilled DEF Ranked
<1> QED BY <1>1, <1>3, SeqDef, LenProperties

\* The headline and its company are causes that the rules found; with no cause of
\* substance there is neither.
LEMMA ClassifySupports ==
    ASSUME NEW p
    PROVE  LET made == Classify(p) IN
           /\ made.candidates = Fired(p) /\ made.insufficient \in BOOLEAN
           /\ made.insufficient => made.primary = Unclassified /\ made.secondary = <<>>
           /\ ~made.insufficient => \E c \in Fired(p) : c.cause = made.primary
           /\ ToSet(made.secondary) \subseteq Supported(made)
<1> DEFINE main == Substantive(Fired(p))
           primary == Ranked(main)[1]
           rest == {c \in Fired(p) : c.cause # primary.cause /\ c.strength >= SecondaryFloor}
           kept == [i \in 1..Min({MaxSecondary, Len(Ranked(rest))}) |-> Ranked(rest)[i].cause]
<1>1. CASE main = {}
  <2>1. Classify(p) = [candidates |-> Fired(p), primary |-> Unclassified, secondary |-> <<>>,
                       insufficient |-> TRUE]
    BY <1>1 DEF Classify
  <2>2. ToSet(<<>>) = {}
    BY DEF ToSet
  <2> QED BY <2>1, <2>2
<1>2. CASE main # {}
  <2>1. Classify(p) = [candidates |-> Fired(p), primary |-> primary.cause, secondary |-> kept,
                       insufficient |-> FALSE]
    BY <1>2, Zenon DEF Classify
  <2>2. main \subseteq Fired(p) /\ rest \subseteq Fired(p)
    BY DEF Substantive
  <2>3. primary \in Fired(p)
    <3>1. IsFiniteSet(main) /\ Cardinality(main) \in Nat /\ Cardinality(main) # 0
      BY <1>2, <2>2, CausesDiffer, FS_Subset, FS_CardinalityType, FS_EmptySet
    <3>2. 1 \in 1..Cardinality(main)
      BY <3>1
    <3> QED BY <2>2, <3>2, RankedIsFilled
  <2>4. \A i \in DOMAIN kept : \E c \in Fired(p) : kept[i] = c.cause
    <3> SUFFICES ASSUME NEW i \in DOMAIN kept PROVE \E c \in Fired(p) : kept[i] = c.cause
      OBVIOUS
    <3> HIDE DEF rest
    <3>1. Len(Ranked(rest)) = Cardinality(rest) /\ Cardinality(rest) \in Nat
      BY <2>2, RankedType, CausesDiffer, FS_Subset, FS_CardinalityType
    <3>2. Min({MaxSecondary, Len(Ranked(rest))}) \in Int
          /\ Min({MaxSecondary, Len(Ranked(rest))}) <= Cardinality(rest)
      BY <3>1, MinOfTwo DEF MaxSecondary
    <3>3. i \in 1..Cardinality(rest)
      BY <3>1, <3>2
    <3> QED BY <2>2, <3>3, RankedIsFilled
  <2>5. ToSet(kept) \subseteq {c.cause : c \in Fired(p)}
    <3> HIDE DEF kept
    <3> QED BY <2>4 DEF ToSet
  <2> HIDE DEF kept, primary
  <2> QED BY <2>1, <2>3, <2>5 DEF Supported
<1> QED BY <1>1, <1>2

-----------------------------------------------------------------------------
(* The stored cause *)

\* StoredCauseIsSupported of a row a run has just made.
CauseIsSupported(made) ==
    LET assessment == Classify(made.hash) IN
    /\ ToSet(made.secondary) \subseteq Supported(assessment)
    /\ IF made.insufficient
       THEN made.primary = Unclassified /\ made.source = "rules"
       ELSE [cause |-> made.primary, strength |-> made.strength]
                \in {[cause |-> c.cause, strength |-> c.strength] : c \in assessment.candidates}

\* The gate lets through only causes that were found.
LEMMA GateSupports ==
    ASSUME NEW packet, NEW answer, NEW assessment,
           Enrich(answer, packet, assessment) = "accepted"
    PROVE  /\ ~assessment.insufficient
           /\ answer.primary \in Supported(assessment)
           /\ ToSet(answer.secondary) \subseteq Supported(assessment)
BY DEF Enrich, SoundAnswer

\* A cause that was found is stored with the strength it was found with.
LEMMA StrengthIsItsOwn ==
    ASSUME NEW assessment, NEW cause, cause \in Supported(assessment)
    PROVE  [cause |-> cause, strength |-> StrengthOf(cause, assessment)]
               \in {[cause |-> c.cause, strength |-> c.strength] : c \in assessment.candidates}
<1>1. PICK d \in assessment.candidates : d.cause = cause
  BY DEF Supported
<1> DEFINE found == {c \in assessment.candidates : c.cause = cause}
           chosen == CHOOSE c \in found : TRUE
<1>2. chosen \in found /\ StrengthOf(cause, assessment) = chosen.strength
  BY <1>1 DEF StrengthOf
<1> QED BY <1>2

LEMMA MadeRowIsSupported ==
    ASSUME NEW packet, NEW answer, NEW motif
    PROVE  CauseIsSupported(DiagnosedRow(packet, Classify(packet), answer, motif))
<1> DEFINE assessment == Classify(packet)
           made == DiagnosedRow(packet, assessment, answer, motif)
           accepted == answer # NoCall /\ Enrich(answer, packet, assessment) = "accepted"
           primary == IF accepted THEN answer.primary ELSE assessment.primary
           secondary == IF accepted /\ answer.secondary # <<>> THEN answer.secondary
                        ELSE assessment.secondary
<1>1. /\ made.hash = packet /\ made.insufficient = assessment.insufficient
      /\ made.primary = primary /\ made.secondary = secondary
      /\ made.strength = StrengthOf(primary, assessment)
      /\ made.source = IF accepted THEN "llm" ELSE "rules"
  BY Zenon DEF DiagnosedRow
<1>2. /\ assessment.insufficient => assessment.primary = Unclassified
      /\ ~assessment.insufficient => assessment.primary \in Supported(assessment)
      /\ ToSet(assessment.secondary) \subseteq Supported(assessment)
  BY ClassifySupports DEF Supported
<1> HIDE DEF assessment
<1>3. accepted => /\ ~assessment.insufficient
                  /\ answer.primary \in Supported(assessment)
                  /\ ToSet(answer.secondary) \subseteq Supported(assessment)
  BY GateSupports
<1>4. ToSet(secondary) \subseteq Supported(assessment)
  BY <1>2, <1>3
<1>5. CASE assessment.insufficient
  <2>1. ~accepted /\ primary = Unclassified
    BY <1>2, <1>3, <1>5
  <2> QED BY <1>1, <1>4, <1>5, <2>1 DEF CauseIsSupported, assessment
<1>6. CASE ~assessment.insufficient
  <2>1. primary \in Supported(assessment)
    BY <1>2, <1>3, <1>6
  <2> HIDE DEF primary, secondary, accepted, made
  <2>2. [cause |-> primary, strength |-> StrengthOf(primary, assessment)]
            \in {[cause |-> c.cause, strength |-> c.strength] : c \in assessment.candidates}
    BY <2>1, StrengthIsItsOwn
  <2>3. Classify(made.hash) = assessment
    BY <1>1 DEF assessment
  <2> QED BY <1>1, <1>4, <1>6, <2>2, <2>3 DEF CauseIsSupported, made
<1> QED BY <1>5, <1>6

\* Whatever a model answers, the stored headline is a cause the rules found, with its
\* own strength, and its company was found too (ai/client.py's gate, _enrich).
THEOREM StoredCauseSupported == Spec => []StoredCauseIsSupported
<1>1. IInv => StoredCauseIsSupported
  <2> SUFFICES ASSUME IInv, Diagnosed PROVE CauseIsSupported(row)
    BY DEF StoredCauseIsSupported, CauseIsSupported
  <2>1. PICK h \in [attempts : Nat, fails : Nat], answer \in Answers \union {NoCall} :
           \A f \in Computed :
              row[f] = DiagnosedRow(PacketOf(puzzle, h), Classify(PacketOf(puzzle, h)),
                                    answer, StoredMotif(puzzle))[f]
    BY Zenon DEF IInv, RowIsComputed, Diagnosed
  <2> DEFINE made == DiagnosedRow(PacketOf(puzzle, h), Classify(PacketOf(puzzle, h)),
                                  answer, StoredMotif(puzzle))
  <2>2. CauseIsSupported(made)
    BY MadeRowIsSupported
  <2> HIDE DEF made
  <2>3. /\ row.hash = made.hash /\ row.primary = made.primary /\ row.secondary = made.secondary
        /\ row.strength = made.strength /\ row.insufficient = made.insufficient
        /\ row.source = made.source
    BY <2>1 DEF Computed, made
  <2> QED BY <2>2, <2>3 DEF CauseIsSupported
<1> QED BY <1>1, Invariance, PTL

-----------------------------------------------------------------------------
(* The board *)

LEMMA SquaresAreFinite == IsFiniteSet(Square)
<1>1. IsFiniteSet(1..Files) /\ IsFiniteSet(1..Ranks)
  BY BoardEvidenceAssumption, FS_Interval
<1> QED BY <1>1, FS_Product DEF Square

LEMMA CountsAreNumbers ==
    ASSUME NEW some, NEW more, some \subseteq more, more \subseteq Square
    PROVE  /\ Cardinality(some) \in Nat /\ Cardinality(more) \in Nat
           /\ Cardinality(some) <= Cardinality(more)
           /\ some # {} => Cardinality(some) > 0
<1>1. IsFiniteSet(more) /\ IsFiniteSet(some)
  BY SquaresAreFinite, FS_Subset
<1> QED BY <1>1, FS_Subset, FS_CardinalityType, FS_EmptySet

LEMMA PiecesStandOnSquares ==
    ASSUME NEW board, Placement(board), NEW color \in Color
    PROVE  Pieces(board, color) \subseteq Square
BY DEF Pieces, Placement

\* A move of the user's side starts from a piece of that side.
LEMMA MoveParts ==
    ASSUME NEW board, Placement(board), NEW user \in Color, NEW m, Playable(board, user, m)
    PROVE  /\ m[1] \in Pieces(board, user) /\ m[2] \in Reachable(board, m[1])
           /\ m[1] \in DOMAIN board /\ board[m[1]].color = user
           /\ m[1] \in Square /\ m[2] \in Square
<1>1. PICK s \in Pieces(board, user) : m \in {s} \X Reachable(board, s)
  BY DEF Playable, LegalMoves
<1>2. m[1] = s /\ m[2] \in Reachable(board, s)
  BY <1>1
<1>3. m[2] \in Square
  BY <1>2 DEF Reachable, Attacks
<1> QED BY <1>1, <1>2, <1>3 DEF Pieces, Placement

\* What a move captures is a piece of the other side, which it attacked.
LEMMA CapturesEnemy ==
    ASSUME NEW board, Placement(board), NEW user \in Color, NEW m, Playable(board, user, m),
           IsCapture(board, m)
    PROVE  /\ m[2] \in Pieces(board, Other(user)) /\ m[2] # m[1]
           /\ m[2] \in Attacks(board, m[1])
<1>1. board[m[2]].color \in Color /\ m[2] \in DOMAIN board
  BY DEF Placement, IsCapture
<1>2. board[m[1]].color = user /\ m[2] \in Reachable(board, m[1]) /\ m[1] \in DOMAIN board
  BY MoveParts
<1>3. m[2] \in Attacks(board, m[1]) /\ board[m[2]].color # user
  BY <1>1, <1>2 DEF Reachable, Pieces, Other, Color
<1> QED BY <1>1, <1>2, <1>3 DEF Pieces, Other, Color

\* No piece attacks its own square.
LEMMA AttacksElsewhere == ASSUME NEW board, NEW s \in Square PROVE s \notin Attacks(board, s)
<1>1. Gap(s[1], s[1]) = 0 /\ Gap(s[2], s[2]) = 0
  BY BoardEvidenceAssumption DEF Gap, Square
<1>2. {Gap(s[1], s[1]), Gap(s[2], s[2])} # {1, 2}
  BY <1>1
<1>3. ~Diagonal(s, s) /\ ~Straight(s, s)
  BY DEF Diagonal, Straight
<1> HIDE DEF Gap, Diagonal, Straight
<1> QED BY <1>1, <1>2, <1>3 DEF Attacks

\* A capture takes its own piece from between, and puts none there: whatever attacked
\* the captured piece before still attacks the square.
LEMMA AttacksOutlastCapture ==
    ASSUME NEW board, Placement(board), NEW m, m[1] \in DOMAIN board, m[2] \in DOMAIN board,
           m[1] # m[2], NEW d \in DOMAIN board, d # m[1], m[2] \in Attacks(board, d)
    PROVE  /\ d \in DOMAIN After(board, m) /\ After(board, m)[d] = board[d]
           /\ m[2] \in Attacks(After(board, m), d)
<1> DEFINE after == After(board, m)
           t == m[2]
<1>1. d \in Square /\ t \in Square /\ d # t
  BY AttacksElsewhere DEF Placement
<1>2. DOMAIN after = (DOMAIN board \ {m[1]}) \union {t}
  BY DEF After
<1>3. d \in DOMAIN after /\ after[d] = board[d]
  BY <1>1, <1>2 DEF After
<1>4. t \notin Between[<<d, t>>]
  BY <1>1 DEF Between
<1>5. Between[<<d, t>>] \intersect DOMAIN board = {} => Between[<<d, t>>] \intersect DOMAIN after = {}
  BY <1>2, <1>4
<1>6. t \in Attacks(after, d)
  <2> HIDE DEF after, t
  <2>1. t \in Attacks(board, d)
    BY DEF t
  <2> QED BY <1>1, <1>3, <1>5, <2>1 DEF Attacks
<1> QED BY <1>3, <1>6

\* A piece that is captured without a recapture had no defender: the rule cites the
\* loose pieces of the position before the move, and there is one.
LEMMA CapturedWasLoose ==
    ASSUME NEW board, Placement(board), NEW user \in Color, NEW m, Playable(board, user, m),
           CapturesUndefended(board, m)
    PROVE  Attackers(board, Other(user), m[2]) = {}
<1>1. /\ m[1] \in DOMAIN board /\ board[m[1]].color = user /\ m[2] \in DOMAIN board /\ m[1] # m[2]
  BY MoveParts, CapturesEnemy DEF CapturesUndefended, IsCapture
<1>2. Attackers(After(board, m), Other(user), m[2]) = {}
  BY <1>1 DEF CapturesUndefended
<1>3. ASSUME NEW d \in Attackers(board, Other(user), m[2]) PROVE FALSE
  <2>1. d \in DOMAIN board /\ board[d].color = Other(user) /\ m[2] \in Attacks(board, d)
    BY DEF Attackers, Pieces
  <2>2. d # m[1]
    BY <1>1, <2>1 DEF Other, Color
  <2>3. /\ d \in DOMAIN After(board, m) /\ After(board, m)[d] = board[d]
        /\ m[2] \in Attacks(After(board, m), d)
    BY <1>1, <2>1, <2>2, AttacksOutlastCapture
  <2>4. d \in Attackers(After(board, m), Other(user), m[2])
    BY <2>1, <2>3 DEF Attackers, Pieces
  <2> QED BY <1>2, <2>4
<1> QED BY <1>3

-----------------------------------------------------------------------------
(* The packet *)

\* What a rule may count on when it cites a fact.
Measured(p) ==
    /\ {p.targets, p.loose_targets, p.played_targets, p.own_loose, p.opponent_loose,
        p.pv_length} \subseteq Nat
    /\ p.loose_targets <= p.targets
    /\ p.captures_undefended /\ p.captured_value >= LooseMinValue => p.opponent_loose > 0
    /\ p.time_pressure = TRUE => p.seconds_left # Unknown

LEMMA TargetsOnBoard ==
    ASSUME NEW board, NEW m
    PROVE  Targets(board, m) \subseteq Square /\ LooseTargets(board, m) \subseteq Targets(board, m)
BY DEF Targets, LooseTargets, Attacks

LEMMA LooseOnBoard ==
    ASSUME NEW board, Placement(board), NEW color \in Color
    PROVE  Undefended(board, color) \subseteq Square
BY PiecesStandOnSquares DEF Undefended

LEMMA OtherIsColor == \A c \in Color : Other(c) \in Color /\ Other(Other(c)) = c
BY DEF Color, Other

LEMMA PacketIsMeasured ==
    ASSUME NEW z \in Puzzles, Analysable(z), NEW h
    PROVE  Measured(PacketOf(z, h))
<1> DEFINE p == PacketOf(z, h)
           context == Trusted(GameFacts(z).context, GameFacts(z).replayed)
<1>1. /\ Placement(z.board) /\ z.user \in Color /\ z.pv_length \in Nat
      /\ Playable(z.board, z.user, z.best) /\ Playable(z.board, z.user, z.played)
  BY PuzzlesAssumption DEF Analysable
<1>2. z.board[z.best[1]].color = z.user
  BY <1>1, MoveParts
<1>3. /\ p.targets = Cardinality(Targets(z.board, z.best))
      /\ p.loose_targets = Cardinality(LooseTargets(z.board, z.best))
      /\ p.played_targets = Cardinality(Targets(z.board, z.played))
      /\ p.own_loose = Cardinality(Undefended(z.board, z.user))
      /\ p.opponent_loose = Cardinality(Undefended(z.board, Other(z.user)))
      /\ p.pv_length = z.pv_length
      /\ p.captures_undefended = CapturesUndefended(z.board, z.best)
      /\ p.captured_value = CapturedValue(z.board, z.best)
      /\ p.time_pressure = IsTimePressure(context, GameFacts(z).time_control)
      /\ p.seconds_left = SecondsLeft(context)
  BY <1>2, Zenon DEF PacketOf, Packet, PuzzleFacts
<1> HIDE DEF p, context
<1>4. /\ p.targets \in Nat /\ p.loose_targets \in Nat /\ p.loose_targets <= p.targets
      /\ p.played_targets \in Nat
  BY <1>3, TargetsOnBoard, CountsAreNumbers
<1>5. p.own_loose \in Nat /\ p.opponent_loose \in Nat
  BY <1>1, <1>3, OtherIsColor, LooseOnBoard, CountsAreNumbers
<1>6. ASSUME p.captures_undefended, p.captured_value >= LooseMinValue
      PROVE  p.opponent_loose > 0
  <2>1. CapturesUndefended(z.board, z.best) /\ IsCapture(z.board, z.best)
    BY <1>3, <1>6 DEF CapturesUndefended
  <2>2. PieceValue[z.board[z.best[2]].kind] >= LooseMinValue
    BY <1>3, <1>6, <2>1 DEF CapturedValue
  <2>3. z.best[2] \in Undefended(z.board, Other(z.user))
    BY <1>1, <2>1, <2>2, CapturesEnemy, CapturedWasLoose DEF Undefended
  <2>4. Cardinality(Undefended(z.board, Other(z.user))) > 0
    BY <1>1, <2>3, OtherIsColor, LooseOnBoard, CountsAreNumbers
  <2> QED BY <1>3, <2>4
<1>7. p.time_pressure = TRUE => p.seconds_left # Unknown
  BY <1>3, BoardEvidenceAssumption DEF IsTimePressure
<1> QED BY <1>1, <1>3, <1>4, <1>5, <1>6, <1>7 DEF Measured, p

-----------------------------------------------------------------------------
(* The citations *)

\* The facts of a position that every packet measures.
Always == {"position.phase", "played.move", "best.move", "eval.swing", "eval.before",
           "eval.after", "threats.legal_checks", "threats.legal_captures",
           "threats.opponent_forcing_replies", "king.ring_attackers"}

LEMMA AlwaysMeasured == ASSUME NEW p PROVE Always \subseteq EvidenceItems(p)
BY DEF Always, EvidenceItems

LEMMA ItemsOfFacts ==
    ASSUME NEW p
    PROVE  /\ p.alignment # "none" => "alignment.exploited" \in EvidenceItems(p)
           /\ p.own_loose > 0 => {"loose.own", "loose.own_value"} \subseteq EvidenceItems(p)
           /\ p.opponent_loose > 0 => "loose.opponent" \in EvidenceItems(p)
           /\ p.targets > 0 => "best.attacks" \in EvidenceItems(p)
           /\ p.is_fork => "best.is_fork" \in EvidenceItems(p)
           /\ p.captures_undefended => "best.captures_undefended" \in EvidenceItems(p)
           /\ p.loose_targets > 0 => "best.loose_targets" \in EvidenceItems(p)
           /\ p.played_targets > 0 => "played.attacks" \in EvidenceItems(p)
           /\ p.is_recapture => "played.is_recapture" \in EvidenceItems(p)
           /\ p.zwischenzug => "best.is_zwischenzug_like" \in EvidenceItems(p)
           /\ p.pv_length > 0 => "best.pv_length" \in EvidenceItems(p)
           /\ p.boxed => "king.back_rank_boxed" \in EvidenceItems(p)
           /\ p.seconds_left # Unknown => "clock.seconds_left" \in EvidenceItems(p)
           /\ p.move_time # Unknown => "clock.move_time" \in EvidenceItems(p)
<1>1. p.alignment # "none" => "alignment.exploited" \in EvidenceItems(p)
  BY DEF EvidenceItems, When
<1>2. p.own_loose > 0 => {"loose.own", "loose.own_value"} \subseteq EvidenceItems(p)
  BY DEF EvidenceItems, When
<1>3. p.opponent_loose > 0 => "loose.opponent" \in EvidenceItems(p)
  BY DEF EvidenceItems, When
<1>4. p.targets > 0 => "best.attacks" \in EvidenceItems(p)
  BY DEF EvidenceItems, When
<1>5. p.is_fork => "best.is_fork" \in EvidenceItems(p)
  BY DEF EvidenceItems, When
<1>6. p.captures_undefended => "best.captures_undefended" \in EvidenceItems(p)
  BY DEF EvidenceItems, When
<1>7. p.loose_targets > 0 => "best.loose_targets" \in EvidenceItems(p)
  BY DEF EvidenceItems, When
<1>8. p.played_targets > 0 => "played.attacks" \in EvidenceItems(p)
  BY DEF EvidenceItems, When
<1>9. p.is_recapture => "played.is_recapture" \in EvidenceItems(p)
  BY DEF EvidenceItems, When
<1>10. p.zwischenzug => "best.is_zwischenzug_like" \in EvidenceItems(p)
  BY DEF EvidenceItems, When
<1>11. p.pv_length > 0 => "best.pv_length" \in EvidenceItems(p)
  BY DEF EvidenceItems, When
<1>12. p.boxed => "king.back_rank_boxed" \in EvidenceItems(p)
  BY DEF EvidenceItems, When
<1>13. p.seconds_left # Unknown => "clock.seconds_left" \in EvidenceItems(p)
  BY DEF EvidenceItems, When
<1>14. p.move_time # Unknown => "clock.move_time" \in EvidenceItems(p)
  BY DEF EvidenceItems, When
<1> QED BY <1>1, <1>2, <1>3, <1>4, <1>5, <1>6, <1>7, <1>8, <1>9, <1>10, <1>11, <1>12, <1>13,
           <1>14

\* A rule cites only facts that the packet has measured.
Cites(found, p) == \A c \in found : c.ids \subseteq EvidenceItems(p)

LEMMA CitesWhat ==
    ASSUME NEW p, NEW cause, NEW strength, NEW ids, ids \subseteq EvidenceItems(p)
    PROVE  Cites(Candidate(cause, strength, ids), p)
BY DEF Cites, Candidate

LEMMA CitesNothing == ASSUME NEW p PROVE Cites(Nothing, p)
BY DEF Cites, Nothing

LEMMA LooseCitesMeasured ==
    ASSUME NEW p, Measured(p)
    PROVE  Cites(LoosePieceAwareness(p), p)
<1> DEFINE name == "loose_piece_awareness"
           I == EvidenceItems(p)
<1>0. /\ p.loose_targets \in Nat /\ p.targets \in Nat /\ p.loose_targets <= p.targets
      /\ p.own_loose \in Nat
      /\ p.captures_undefended /\ p.captured_value >= LooseMinValue => p.opponent_loose > 0
  BY DEF Measured
<1> HIDE DEF I
<1>1. CASE p.loose_targets >= 2
  <2>1. When(p.is_fork, "best.is_fork") \subseteq I
    BY ItemsOfFacts DEF When, I
  <2>2. {"best.loose_targets", "best.attacks"} \subseteq I
    BY <1>0, <1>1, ItemsOfFacts DEF I
  <2>3. {"best.loose_targets", "best.attacks"} \union When(p.is_fork, "best.is_fork") \subseteq I
    BY <2>1, <2>2
  <2> QED BY <1>1, <2>3, CitesWhat, Zenon DEF LoosePieceAwareness, I
<1>2. CASE ~(p.loose_targets >= 2) /\ p.captures_undefended /\ p.captured_value >= LooseMinValue
  <2>1. {"best.captures_undefended", "loose.opponent"} \subseteq I
    BY <1>0, <1>2, ItemsOfFacts DEF I
  <2> QED BY <1>2, <2>1, CitesWhat, Zenon DEF LoosePieceAwareness, I
<1>3. CASE /\ ~(p.loose_targets >= 2)
           /\ ~(p.captures_undefended /\ p.captured_value >= LooseMinValue)
           /\ p.loose_targets = 1 /\ p.is_fork
  <2>1. {"best.loose_targets", "best.is_fork"} \subseteq I
    BY <1>0, <1>3, ItemsOfFacts DEF I
  <2> QED BY <1>3, <2>1, CitesWhat, Zenon DEF LoosePieceAwareness, I
<1>4. CASE /\ ~(p.loose_targets >= 2)
           /\ ~(p.captures_undefended /\ p.captured_value >= LooseMinValue)
           /\ ~(p.loose_targets = 1 /\ p.is_fork)
           /\ p.own_loose >= 2 /\ p.forcing_replies >= 3
  <2>1. {"loose.own", "loose.own_value", "threats.opponent_forcing_replies"} \subseteq I
    BY <1>0, <1>4, ItemsOfFacts, AlwaysMeasured DEF I, Always
  <2> QED BY <1>4, <2>1, CitesWhat, Zenon DEF LoosePieceAwareness, I
<1>5. CASE /\ ~(p.loose_targets >= 2)
           /\ ~(p.captures_undefended /\ p.captured_value >= LooseMinValue)
           /\ ~(p.loose_targets = 1 /\ p.is_fork)
           /\ ~(p.own_loose >= 2 /\ p.forcing_replies >= 3)
  BY <1>5, CitesNothing, Zenon DEF LoosePieceAwareness
<1> QED BY <1>1, <1>2, <1>3, <1>4, <1>5, Zenon

LEMMA RulesCiteMeasured ==
    ASSUME NEW p, Measured(p)
    PROVE  \A c \in Fired(p) : c.ids \subseteq EvidenceItems(p)
<1> DEFINE I == EvidenceItems(p)
<1>0. Always \subseteq I
  BY AlwaysMeasured
<1>1. Cites(LoosePieceAwareness(p), p)
  BY LooseCitesMeasured
<1> HIDE DEF I
<1>2. Cites(AlignmentBlindness(p), p)
  <2>1. p.alignment # "none" => {"alignment.exploited"} \subseteq I
    BY ItemsOfFacts DEF I
  <2> QED BY <2>1, CitesWhat, CitesNothing DEF AlignmentBlindness, I
<1>3. Cites(ForcingMoveBlindness(p), p)
  <2>1. {"best.move", "played.move"} \union When(p.best_check, "threats.legal_checks")
           \union When(p.best_capture, "threats.legal_captures") \subseteq I
    BY <1>0 DEF Always, When
  <2> QED BY <2>1, CitesWhat, CitesNothing DEF ForcingMoveBlindness, I
<1>4. Cites(QuietMoveBlindness(p), p)
  <2>1. {"best.move", "played.move"} \subseteq I
    BY <1>0 DEF Always
  <2> QED BY <2>1, CitesWhat, CitesNothing DEF QuietMoveBlindness, I
<1>5. Cites(RecaptureAssumption(p), p)
  <2>1. p.is_recapture => {"played.is_recapture", "best.move"} \subseteq I
    BY <1>0, ItemsOfFacts DEF Always, I
  <2>2. p.is_recapture /\ p.zwischenzug =>
           {"played.is_recapture", "best.is_zwischenzug_like", "best.move"} \subseteq I
    BY <1>0, ItemsOfFacts DEF Always, I
  <2> QED BY <2>1, <2>2, CitesWhat, CitesNothing DEF RecaptureAssumption, I
<1>6. Cites(CalculationStoppedEarly(p), p)
  <2>1. ~(p.pv_length < 3) => {"best.pv_length", "best.move"} \subseteq I
    BY <1>0, ItemsOfFacts DEF Always, I, Measured
  <2> QED BY <2>1, CitesWhat, CitesNothing DEF CalculationStoppedEarly, I
<1>7. Cites(KingSafetyBlindness(p), p)
  <2>1. {"king.ring_attackers", "threats.opponent_forcing_replies"} \subseteq I
    BY <1>0 DEF Always
  <2>2. p.boxed => {"king.back_rank_boxed", "threats.opponent_forcing_replies"} \subseteq I
    BY <1>0, ItemsOfFacts DEF Always, I
  <2> QED BY <2>1, <2>2, CitesWhat, CitesNothing DEF KingSafetyBlindness, I
<1>8. Cites(OwnThreatTunnelVision(p), p)
  <2>1. p.played_targets >= 1 =>
           {"played.attacks", "threats.opponent_forcing_replies"} \subseteq I
    BY <1>0, ItemsOfFacts DEF Always, I, Measured
  <2> QED BY <2>1, CitesWhat, CitesNothing DEF OwnThreatTunnelVision, I
<1>9. Cites(MissedOpponentResource(p), p)
  <2>1. {"threats.opponent_forcing_replies", "played.move"} \subseteq I
    BY <1>0 DEF Always
  <2> QED BY <2>1, CitesWhat, CitesNothing DEF MissedOpponentResource, I
<1>10. Cites(EndgameTechniqueGap(p), p)
  <2>1. {"position.phase", "eval.before", "eval.after"} \subseteq I
    BY <1>0 DEF Always
  <2> QED BY <2>1, CitesWhat, CitesNothing DEF EndgameTechniqueGap, I
<1>11. Cites(OpeningPatternGap(p), p)
  <2>1. {"position.phase", "eval.swing"} \subseteq I
    BY <1>0 DEF Always
  <2> QED BY <2>1, CitesWhat, CitesNothing DEF OpeningPatternGap, I
<1>12. Cites(TimePressureCollapse(p), p)
  <2>1. p.time_pressure = TRUE =>
           {"clock.seconds_left"} \union When(p.move_time # Unknown, "clock.move_time") \subseteq I
    BY ItemsOfFacts DEF I, Measured, When
  <2> QED BY <2>1, CitesWhat, CitesNothing DEF TimePressureCollapse, I
<1> QED BY <1>1, <1>2, <1>3, <1>4, <1>5, <1>6, <1>7, <1>8, <1>9, <1>10, <1>11, <1>12
        DEF Fired, Cites

\* Every fact a stored cause rests on was measured on this very position: to_evidence_items
\* lists what each of the twelve rules cites, whenever the rule fires.
THEOREM CitationsMeasured == Spec => []CitationsAreMeasured
<1>1. IInv => CitationsAreMeasured
  <2> SUFFICES ASSUME IInv, Diagnosed
               PROVE  \A c \in Fired(row.hash) : c.ids \subseteq EvidenceItems(row.hash)
    BY DEF CitationsAreMeasured
  <2>1. /\ Analysable(puzzle) /\ puzzle \in Puzzles
        /\ \E h \in [attempts : Nat, fails : Nat] : row.hash = PacketOf(puzzle, h)
    <3>1. Analysable(puzzle) /\ puzzle \in Puzzles
      BY DEF IInv, HistoryTyped, RowIsComputed, Diagnosed
    <3>2. PICK h \in [attempts : Nat, fails : Nat], answer \in Answers \union {NoCall} :
             \A f \in Computed :
                row[f] = DiagnosedRow(PacketOf(puzzle, h), Classify(PacketOf(puzzle, h)),
                                      answer, StoredMotif(puzzle))[f]
      BY Zenon DEF IInv, RowIsComputed, Diagnosed
    <3>3. row["hash"] = DiagnosedRow(PacketOf(puzzle, h), Classify(PacketOf(puzzle, h)),
                                     answer, StoredMotif(puzzle)).hash
      BY <3>2, Zenon DEF Computed
    <3>4. row.hash = PacketOf(puzzle, h)
      BY <3>3 DEF DiagnosedRow
    <3> QED BY <3>1, <3>4
  <2>2. Measured(row.hash)
    BY <2>1, PacketIsMeasured
  <2> QED BY <2>2, RulesCiteMeasured
<1> QED BY <1>1, Invariance, PTL

-----------------------------------------------------------------------------
(* The motif and the cause *)

\* A legal move of a reached position does not take the king.
LEMMA KingIsNotTaken ==
    ASSUME NEW board, Placement(board), NEW user \in Color, Reached(board, user),
           NEW m, Playable(board, user, m), IsCapture(board, m)
    PROVE  board[m[2]].kind # "king"
<1> SUFFICES ASSUME board[m[2]].kind = "king" PROVE FALSE
  OBVIOUS
<1>1. /\ m[2] \in Pieces(board, Other(user)) /\ m[2] \in Attacks(board, m[1])
      /\ m[1] \in Pieces(board, user)
  BY MoveParts, CapturesEnemy
<1>2. Other(user) \in Color /\ Other(Other(user)) = user
  BY OtherIsColor
<1>3. PICK k \in Pieces(board, Other(user)) :
         \A s \in Pieces(board, Other(user)) : board[s].kind = "king" <=> s = k
  BY <1>2 DEF Reached
<1>4. King(board, Other(user)) = m[2]
  BY <1>1, <1>3 DEF King
<1>5. m[1] \in Attackers(board, Other(Other(user)), King(board, Other(user)))
  BY <1>1, <1>2, <1>4 DEF Attackers
<1> QED BY <1>5 DEF Reached, InCheck

LEMMA HangingIsLoose ==
    ASSUME NEW z \in Puzzles, Analysable(z), Reached(z.board, z.user), NEW h,
           StoredMotif(z) \in {"hanging_piece", "hanging_queen"}
    PROVE  \E c \in Fired(PacketOf(z, h)) : c.cause = "loose_piece_awareness" /\ c.strength >= 80
<1> DEFINE p == PacketOf(z, h)
           taken == IF IsCapture(z.board, z.best) THEN z.board[z.best[2]].kind ELSE "none"
<1>1. /\ Placement(z.board) /\ z.user \in Color
      /\ Playable(z.board, z.user, z.best)
  BY PuzzlesAssumption DEF Analysable
<1>2. taken \notin {"none", "pawn"} /\ CapturesUndefended(z.board, z.best)
  BY <1>1 DEF StoredMotif, Motif
<1>3. IsCapture(z.board, z.best) /\ taken = z.board[z.best[2]].kind
  BY <1>2 DEF CapturesUndefended
<1>4. z.board[z.best[2]].kind \in {"knight", "bishop", "rook", "queen"}
  <2>1. z.board[z.best[2]].kind \in Kind
    BY <1>1, <1>3 DEF Placement, IsCapture
  <2> QED BY <1>1, <1>2, <1>3, <2>1, KingIsNotTaken DEF Kind
<1>5. PieceValue[z.board[z.best[2]].kind] >= LooseMinValue
  BY <1>4 DEF PieceValue, LooseMinValue
<1>6. /\ p.captures_undefended = CapturesUndefended(z.board, z.best)
      /\ p.captured_value = CapturedValue(z.board, z.best)
  BY Zenon DEF PacketOf, Packet
<1>7. p.captures_undefended /\ p.captured_value >= LooseMinValue
  BY <1>2, <1>3, <1>5, <1>6 DEF CapturedValue
<1> HIDE DEF p
<1>8. \E c \in LoosePieceAwareness(p) : c.cause = "loose_piece_awareness" /\ c.strength >= 80
  <2>1. ASSUME NEW strength \in {80, 90}, NEW ids,
               LoosePieceAwareness(p) = Candidate("loose_piece_awareness", strength, ids)
        PROVE  \E c \in LoosePieceAwareness(p) :
                  c.cause = "loose_piece_awareness" /\ c.strength >= 80
    BY <2>1 DEF Candidate
  <2>2. CASE p.loose_targets >= 2
    BY <2>1, <2>2, Zenon DEF LoosePieceAwareness
  <2>3. CASE ~(p.loose_targets >= 2)
    BY <1>7, <2>1, <2>3, Zenon DEF LoosePieceAwareness
  <2> QED BY <2>2, <2>3
<1> QED BY <1>8 DEF Fired, p

\* The title and the diagnosis never contradict each other: a piece the motif calls
\* hanging is one the rules count as loose (identity.py and causes.py, written apart),
\* on every board that a game reaches.
THEOREM HangingMotifAgrees == Spec => []HangingMotifMeansLoosePiece
<1>1. IInv => HangingMotifMeansLoosePiece
  <2> SUFFICES ASSUME IInv, Diagnosed, Reached(puzzle.board, puzzle.user),
                      row.motif \in {"hanging_piece", "hanging_queen"}
               PROVE  \E c \in Fired(row.hash) :
                         c.cause = "loose_piece_awareness" /\ c.strength >= 80
    BY DEF HangingMotifMeansLoosePiece
  <2>1. Analysable(puzzle) /\ puzzle \in Puzzles
    BY DEF IInv, HistoryTyped, RowIsComputed, Diagnosed
  <2>2. PICK h \in [attempts : Nat, fails : Nat], answer \in Answers \union {NoCall} :
           \A f \in Computed :
              row[f] = DiagnosedRow(PacketOf(puzzle, h), Classify(PacketOf(puzzle, h)),
                                    answer, StoredMotif(puzzle))[f]
    BY Zenon DEF IInv, RowIsComputed, Diagnosed
  <2>3. /\ row["hash"] = DiagnosedRow(PacketOf(puzzle, h), Classify(PacketOf(puzzle, h)),
                                      answer, StoredMotif(puzzle)).hash
        /\ row["motif"] = DiagnosedRow(PacketOf(puzzle, h), Classify(PacketOf(puzzle, h)),
                                       answer, StoredMotif(puzzle)).motif
    BY <2>2, Zenon DEF Computed
  <2>4. row.hash = PacketOf(puzzle, h) /\ row.motif = StoredMotif(puzzle)
    BY <2>3 DEF DiagnosedRow
  <2> QED BY <2>1, <2>4, HangingIsLoose
<1> QED BY <1>1, Invariance, PTL

-----------------------------------------------------------------------------
(* The game before the mistake *)

LEMMA LeastNumber ==
    ASSUME NEW T \in SUBSET Nat, T # {}
    PROVE  \E n \in T : \A m \in T : n <= m
<1>1. PICK n \in T : \A m \in T : ~(<<m, n>> \in OpToRel(<, Nat))
  BY WFMin, NatLessThanWellFounded
<1>2. \A m \in T : ~(m < n)
  BY <1>1 DEF OpToRel
<1> QED BY <1>2

LEMMA MaxOfSome ==
    ASSUME NEW b \in Nat, NEW T \in SUBSET (0..b), T # {}
    PROVE  Max(T) \in T /\ \A m \in T : m <= Max(T)
<1> DEFINE D == {b - m : m \in T}
<1>1. PICK d \in D : \A e \in D : d <= e
  <2>1. D \in SUBSET Nat
    OBVIOUS
  <2>2. PICK m \in T : TRUE
    OBVIOUS
  <2>3. b - m \in D
    OBVIOUS
  <2> HIDE DEF D
  <2> QED BY <2>1, <2>3, LeastNumber
<1>2. PICK n \in T : d = b - n
  BY <1>1
<1>3. \A m \in T : m <= n
  <2> SUFFICES ASSUME NEW m \in T PROVE m <= n
    OBVIOUS
  <2>1. b - m \in D
    OBVIOUS
  <2>2. b - n <= b - m /\ m \in Int /\ n \in Int
    BY <1>1, <1>2, <2>1
  <2> QED BY <2>2
<1>4. n \in T /\ \A m \in T : n >= m
  BY <1>3
<1> QED BY <1>4 DEF Max

IsMainline(nodes) == nodes \in Seq(Range(nodes))

\* A game up to its ply-th move: its length, and its moves.
LEMMA PastLength ==
    ASSUME NEW nodes, IsMainline(nodes), NEW ply \in Nat
    PROVE  LET past == SubSeq(nodes, 1, Min({ply, Len(nodes)})) IN
           /\ Len(nodes) \in Nat /\ DOMAIN nodes = 1..Len(nodes)
           /\ Len(past) \in Nat /\ DOMAIN past = 1..Len(past)
           /\ Len(past) \in {ply, Len(nodes)} /\ Len(past) <= ply /\ Len(past) <= Len(nodes)
           /\ past = <<>> <=> Len(past) = 0
           /\ nodes = <<>> <=> Len(nodes) = 0
           /\ \A i \in 1..Len(past) : past[i] = nodes[i]
<1> DEFINE k == Min({ply, Len(nodes)})
           past == SubSeq(nodes, 1, k)
<1>1. /\ Len(nodes) \in Nat /\ DOMAIN nodes = 1..Len(nodes)
      /\ nodes = <<>> <=> Len(nodes) = 0
  BY EmptySeq DEF IsMainline
<1>2. k \in Nat /\ k <= ply /\ k <= Len(nodes) /\ k \in {ply, Len(nodes)}
  <2>1. Len(nodes) \in Int /\ ply \in Int
    BY <1>1
  <2>2. k \in {ply, Len(nodes)} /\ k <= ply /\ k <= Len(nodes)
    BY <2>1, MinOfTwo
  <2> QED BY <1>1, <2>2
<1> HIDE DEF k
<1>3. /\ past \in Seq(Range(nodes)) /\ Len(past) = k /\ DOMAIN past = 1..k
      /\ \A i \in 1..k : past[i] = nodes[i]
  BY <1>2 DEF IsMainline
<1>4. past = <<>> <=> Len(past) = 0
  BY <1>3, EmptySeq
<1> HIDE DEF past
<1> QED BY <1>1, <1>2, <1>3, <1>4 DEF k, past

\* Up to the ply-th, the same moves are there.
LEMMA PastMoves ==
    ASSUME NEW nodes, IsMainline(nodes), NEW ply \in Nat, NEW i \in Int, i <= ply
    PROVE  LET past == SubSeq(nodes, 1, Min({ply, Len(nodes)})) IN
           /\ i \in DOMAIN past <=> i \in DOMAIN nodes
           /\ i \in DOMAIN past => past[i] = nodes[i]
<1> DEFINE past == SubSeq(nodes, 1, Min({ply, Len(nodes)}))
<1>1. /\ Len(nodes) \in Nat /\ DOMAIN nodes = 1..Len(nodes)
      /\ Len(past) \in Nat /\ DOMAIN past = 1..Len(past)
      /\ Len(past) \in {ply, Len(nodes)} /\ Len(past) <= Len(nodes)
      /\ \A j \in 1..Len(past) : past[j] = nodes[j]
  BY PastLength
<1> HIDE DEF past
<1>2. i \in DOMAIN past <=> i \in DOMAIN nodes
  <2>1. i \in DOMAIN past <=> 1 <= i /\ i <= Len(past)
    <3>1. DOMAIN past = 1..Len(past) /\ Len(past) \in Nat
      BY <1>1, Zenon
    <3> QED BY <3>1
  <2>2. i \in DOMAIN nodes <=> 1 <= i /\ i <= Len(nodes)
    <3>1. DOMAIN nodes = 1..Len(nodes) /\ Len(nodes) \in Nat
      BY <1>1, Zenon
    <3> QED BY <3>1
  <2>3. Len(past) = ply \/ Len(past) = Len(nodes)
    BY <1>1
  <2>4. Len(past) \in Nat /\ Len(nodes) \in Nat /\ Len(past) <= Len(nodes)
    BY <1>1
  <2> QED BY <2>1, <2>2, <2>3, <2>4
<1> QED BY <1>1, <1>2 DEF past

\* The opening is read off the moves up to the mistake.
LEMMA PastOpening ==
    ASSUME NEW nodes, IsMainline(nodes), NEW ply \in Nat
    PROVE  LET past == SubSeq(nodes, 1, Min({ply, Len(nodes)})) IN
           Opening(past, ply) = Opening(nodes, ply)
<1> DEFINE past == SubSeq(nodes, 1, Min({ply, Len(nodes)}))
           b == BookPly(ply)
           hits(s) == {i \in 1..Min({b, Len(s)}) : s[i].book # Unknown}
<1>1. /\ Len(nodes) \in Nat /\ Len(past) \in Nat
      /\ Len(past) \in {ply, Len(nodes)} /\ Len(past) <= ply /\ Len(past) <= Len(nodes)
  BY PastLength
<1>2. \A i \in 1..Len(past) : past[i] = nodes[i]
  BY PastLength
<1> HIDE DEF past
<1>3. b \in Nat /\ b <= ply
  <2>1. Min({ply, MaxBookPly}) \in {ply, MaxBookPly} /\ Min({ply, MaxBookPly}) <= ply
    BY GameContextAssumption, MinOfTwo
  <2> QED BY <2>1, GameContextAssumption DEF BookPly
<1> HIDE DEF b
<1>4. /\ Min({b, Len(nodes)}) \in {b, Len(nodes)}
      /\ Min({b, Len(nodes)}) <= b /\ Min({b, Len(nodes)}) <= Len(nodes)
  <2>1. b \in Int /\ Len(nodes) \in Int
    BY <1>1, <1>3
  <2> QED BY <2>1, MinOfTwo
<1>5. /\ Min({b, Len(past)}) \in {b, Len(past)}
      /\ Min({b, Len(past)}) <= b /\ Min({b, Len(past)}) <= Len(past)
  <2>1. b \in Int /\ Len(past) \in Int
    BY <1>1, <1>3
  <2> QED BY <2>1, MinOfTwo
<1>6. PICK m : m = Min({b, Len(past)})
  OBVIOUS
<1>7. m \in Nat /\ m <= b /\ m <= Len(past) /\ m = Min({b, Len(nodes)})
  BY <1>1, <1>3, <1>4, <1>5, <1>6
<1>8. \A i \in 1..m : past[i] = nodes[i]
  BY <1>1, <1>2, <1>7
<1>9. hits(past) = hits(nodes) /\ \A i \in hits(past) : past[i] = nodes[i]
  BY <1>6, <1>7, <1>8
<1>10. \A s : Opening(s, ply) = IF hits(s) = {} THEN Unknown ELSE s[Max(hits(s))].book
  BY Zenon DEF Opening, b
<1>11. hits(past) # {} => Max(hits(past)) \in hits(past)
  <2> DEFINE H == hits(past)
  <2>1. H \in SUBSET (0..m)
    BY <1>6, <1>7
  <2> HIDE DEF H
  <2> QED BY <1>7, <2>1, MaxOfSome DEF H
<1> HIDE DEF hits
<1> QED BY <1>9, <1>10, <1>11 DEF past

\* What is read off a game, but for its length.
Reading(s, ply, white, tc) ==
    <<ply - 1 \in DOMAIN s /\ s[ply - 1].capture,
      IF ply - 1 \in DOMAIN s /\ s[ply - 1].capture THEN s[ply - 1].to ELSE Unknown,
      \E i \in DOMAIN s : i < ply /\ UserPly(i, white) /\ s[i].castles,
      ClockBefore(s, ply, tc), ClockAt(s, ply), Opening(s, ply)>>

\* A context is that reading, or nothing.
LEMMA ContextIsReading ==
    ASSUME NEW s, NEW ply, NEW white, NEW tc, ~(ply < 1)
    PROVE  LET r == Reading(s, ply, white, tc) IN
           ExtractGameContext(s, ply, white, tc) =
               [previous_capture |-> r[1], capture_square |-> r[2], castled |-> r[3],
                clock_before |-> r[4], clock_after |-> r[5],
                move_time |-> MoveTime(r[4], r[5], tc), opening |-> r[6], plies |-> Len(s)]
<1>1. /\ Reading(s, ply, white, tc)[1] = (ply - 1 \in DOMAIN s /\ s[ply - 1].capture)
      /\ Reading(s, ply, white, tc)[2] = IF ply - 1 \in DOMAIN s /\ s[ply - 1].capture
                                         THEN s[ply - 1].to ELSE Unknown
      /\ Reading(s, ply, white, tc)[3]
            = \E i \in DOMAIN s : i < ply /\ UserPly(i, white) /\ s[i].castles
      /\ Reading(s, ply, white, tc)[4] = ClockBefore(s, ply, tc)
      /\ Reading(s, ply, white, tc)[5] = ClockAt(s, ply)
      /\ Reading(s, ply, white, tc)[6] = Opening(s, ply)
  BY DEF Reading
<1> QED BY <1>1, Zenon DEF ExtractGameContext

LEMMA PastContext ==
    ASSUME NEW nodes, IsMainline(nodes), NEW ply \in Nat, NEW white, NEW tc
    PROVE  LET past == SubSeq(nodes, 1, Min({ply, Len(nodes)})) IN
           [ExtractGameContext(past, ply, white, tc) EXCEPT !.plies = 0]
               = [ExtractGameContext(nodes, ply, white, tc) EXCEPT !.plies = 0]
<1> DEFINE past == SubSeq(nodes, 1, Min({ply, Len(nodes)}))
<1>2. ASSUME NEW i \in Int, i <= ply
      PROVE  /\ i \in DOMAIN past <=> i \in DOMAIN nodes
             /\ i \in DOMAIN past => past[i] = nodes[i]
  BY <1>2, PastMoves
<1>3. Opening(past, ply) = Opening(nodes, ply)
  BY PastOpening
<1>4. DOMAIN past \subseteq Int /\ DOMAIN nodes \subseteq Int
  <2>1. DOMAIN past = 1..Len(past) /\ DOMAIN nodes = 1..Len(nodes)
    BY PastLength
  <2> HIDE DEF past
  <2> QED BY <2>1
<1> HIDE DEF past
<1>5. CASE ply < 1
  <2>1. /\ ExtractGameContext(nodes, ply, white, tc) = EmptyContext
        /\ ExtractGameContext(past, ply, white, tc) = EmptyContext
    BY <1>5, Zenon DEF ExtractGameContext
  <2> QED BY <2>1 DEF past
<1>6. CASE ~(ply < 1)
  <2>1. /\ ClockAt(past, ply) = ClockAt(nodes, ply)
        /\ ClockAt(past, ply - 2) = ClockAt(nodes, ply - 2)
    BY <1>2 DEF ClockAt
  <2>2. ClockBefore(past, ply, tc) = ClockBefore(nodes, ply, tc)
    BY <2>1 DEF ClockBefore
  <2>3. /\ ply - 1 \in DOMAIN past <=> ply - 1 \in DOMAIN nodes
        /\ ply - 1 \in DOMAIN past => past[ply - 1] = nodes[ply - 1]
    BY <1>2
  <2>4. (\E i \in DOMAIN past : i < ply /\ UserPly(i, white) /\ past[i].castles)
           <=> (\E i \in DOMAIN nodes : i < ply /\ UserPly(i, white) /\ nodes[i].castles)
    <3>1. \A i : i \in DOMAIN past /\ i < ply <=> i \in DOMAIN nodes /\ i < ply
      BY <1>2, <1>4
    <3>2. \A i : i \in DOMAIN past /\ i < ply => past[i] = nodes[i]
      BY <1>2, <1>4
    <3> QED BY <3>1, <3>2, Zenon
  <2>5. Reading(past, ply, white, tc) = Reading(nodes, ply, white, tc)
    BY <1>3, <2>1, <2>2, <2>3, <2>4 DEF Reading
  <2> DEFINE Made(r, n) ==
               [previous_capture |-> r[1], capture_square |-> r[2], castled |-> r[3],
                clock_before |-> r[4], clock_after |-> r[5],
                move_time |-> MoveTime(r[4], r[5], tc), opening |-> r[6], plies |-> n]
  <2>7. /\ ExtractGameContext(past, ply, white, tc) = Made(Reading(past, ply, white, tc), Len(past))
        /\ ExtractGameContext(nodes, ply, white, tc)
              = Made(Reading(nodes, ply, white, tc), Len(nodes))
    BY <1>6, ContextIsReading, Zenon
  <2>8. \A r, n : [Made(r, n) EXCEPT !.plies = 0] = Made(r, 0)
    OBVIOUS
  <2> HIDE DEF Made
  <2>9. /\ [ExtractGameContext(past, ply, white, tc) EXCEPT !.plies = 0]
              = Made(Reading(past, ply, white, tc), 0)
        /\ [ExtractGameContext(nodes, ply, white, tc) EXCEPT !.plies = 0]
              = Made(Reading(nodes, ply, white, tc), 0)
    BY <2>7, <2>8
  <2>10. [ExtractGameContext(past, ply, white, tc) EXCEPT !.plies = 0]
            = [ExtractGameContext(nodes, ply, white, tc) EXCEPT !.plies = 0]
    BY <2>5, <2>9
  <2> QED BY <2>10 DEF past
<1> QED BY <1>5, <1>6

\* The columns of a puzzle and of its game, once the game is cut off at the mistake.
LEMMA PastPuzzle ==
    ASSUME NEW z \in Puzzles
    PROVE  LET past == [z EXCEPT !.game.nodes = SubSeq(@, 1, Min({z.ply, Len(@)}))] IN
           /\ past.game.nodes = SubSeq(z.game.nodes, 1, Min({z.ply, Len(z.game.nodes)}))
           /\ past.game.control = z.game.control /\ past.game.agrees = z.game.agrees
           /\ past.ply = z.ply /\ past.user = z.user
<1>1. /\ DOMAIN z = {"board", "user", "played", "best", "ply", "elsewhere", "pv_length",
                     "eval_before", "eval_after", "game"}
      /\ DOMAIN z.game = {"nodes", "control", "agrees"}
  BY PuzzlesAssumption
<1> DEFINE cut == SubSeq(z.game.nodes, 1, Min({z.ply, Len(z.game.nodes)}))
           game == [z.game EXCEPT !.nodes = cut]
<1>2. [z EXCEPT !.game.nodes = SubSeq(@, 1, Min({z.ply, Len(@)}))] = [z EXCEPT !.game = game]
  OBVIOUS
<1> HIDE DEF cut
<1>3. game.nodes = cut /\ game.control = z.game.control /\ game.agrees = z.game.agrees
  BY <1>1
<1> HIDE DEF game
<1>4. /\ [z EXCEPT !.game = game].game = game /\ [z EXCEPT !.game = game].ply = z.ply
      /\ [z EXCEPT !.game = game].user = z.user
  BY <1>1
<1> QED BY <1>2, <1>3, <1>4 DEF cut

\* A mistake is explained by what preceded it: the moves, clocks and openings after it
\* change nothing, and a game that leads to another position says nothing.
THEOREM FutureIgnored == Spec => []ContextIgnoresTheFuture
<1>1. HistoryTyped => ContextIgnoresTheFuture
  <2> SUFFICES ASSUME puzzle \in Puzzles PROVE ContextIgnoresTheFuture
    BY DEF HistoryTyped
  <2> DEFINE nodes == puzzle.game.nodes
             cut == SubSeq(nodes, 1, Min({puzzle.ply, Len(nodes)}))
             past == [puzzle EXCEPT !.game.nodes = SubSeq(@, 1, Min({puzzle.ply, Len(@)}))]
             tc == ParseTimeControl(puzzle.game.control)
             Seen(z) == Trusted(GameFacts(z).context, GameFacts(z).replayed)
             Read(s) == ExtractGameContext(s, puzzle.ply, puzzle.user = "white", tc)
             Fits(s) == puzzle.game.agrees \/ puzzle.ply \notin DOMAIN s
  <2>1. IsMainline(nodes) /\ puzzle.ply \in Nat
    BY PuzzlesAssumption DEF IsMainline
  <2>2. /\ past.game.nodes = cut /\ past.game.control = puzzle.game.control
        /\ past.game.agrees = puzzle.game.agrees
        /\ past.ply = puzzle.ply /\ past.user = puzzle.user
    BY PastPuzzle, Zenon
  <2>3. Seen(puzzle) = IF Fits(nodes) THEN Read(nodes) ELSE EmptyContext
    BY Zenon DEF Trusted, GameFacts, Context
  <2>4. Seen(past) = IF Fits(cut) THEN Read(cut) ELSE EmptyContext
    <3> HIDE DEF past, cut
    <3>1. /\ GameFacts(past).replayed = Fits(cut) /\ GameFacts(past).context = Read(cut)
      BY <2>2 DEF GameFacts, Context
    <3> QED BY <3>1, Zenon DEF Trusted
  <2>5. puzzle.ply \in DOMAIN cut <=> puzzle.ply \in DOMAIN nodes
    BY <2>1, PastMoves
  <2>6. [Read(cut) EXCEPT !.plies = 0] = [Read(nodes) EXCEPT !.plies = 0]
    BY <2>1, PastContext
  <2>7. ~puzzle.game.agrees /\ puzzle.ply \in DOMAIN nodes => Seen(puzzle) = EmptyContext
    BY <2>3
  <2> HIDE DEF past, cut, Read, Seen
  <2>8. [Seen(puzzle) EXCEPT !.plies = 0] = [Seen(past) EXCEPT !.plies = 0]
    BY <2>3, <2>4, <2>5, <2>6
  <2> QED BY <2>7, <2>8 DEF ContextIgnoresTheFuture, past, Seen
<1>2. IInv => HistoryTyped
  BY DEF IInv
<1> QED BY <1>1, <1>2, Invariance, PTL
=============================================================================
