--------------------------- MODULE PracticeQueue ---------------------------
(***************************************************************************)
(* What a user may train and in which order: the spaced-repetition rules,  *)
(* the session queue, the gate that withholds a puzzle's name until it has *)
(* been answered, and the verdict on a solved line.  Pure operators over   *)
(* the stats rows; the clock counts ticks, Day of them to a day.           *)
(***************************************************************************)
EXTENDS Integers, Sequences, FiniteSets, SequencesExt

CONSTANTS
    None,           \* NULL
    Puzzles,        \* puzzle ids, oldest first: the order of get_all_puzzles
    Facts,          \* Facts[p]: what never changes about p
    GateOn,         \* KNIGHTMIND_RESOLUTION_GATE
    Day

ASSUME PracticeQueueAssumption ==
    /\ Puzzles \subseteq Nat
    /\ IsFiniteSet(Puzzles)
    /\ GateOn \in BOOLEAN
    /\ Day \in Nat \ {0}

\* A nullable column of text.
Text == STRING \union {None}

\* A row of puzzle_stats.
StatsRow ==
    [attempts : Nat, passes : Nat, fails : Nat,
     interval : (Nat \ {0}) \union {None}, ease : 130..280,
     due : Nat \union {None}, last : Nat \union {None},
     result : {"pass", "fail", None}]

ASSUME NoneAssumption == None \notin Int /\ None \notin StatsRow

ASSUME LineAssumption == \A p \in Puzzles : Facts[p].pv \in Seq(Range(Facts[p].pv))

-----------------------------------------------------------------------------
(* Sequences *)

\* a sorts before b: tuples of integers, compared like Python's.
Before(a, b) ==
    \E i \in DOMAIN a : a[i] < b[i] /\ \A j \in 1..(i - 1) : a[j] = b[j]

\* What these pairs <<key, x>> sort, by ascending key; keys are distinct.
InOrder(keyed) ==
    LET Rank(k) == Cardinality({other \in keyed : Before(other[1], k[1])}) + 1 IN
    [i \in 1..Cardinality(keyed) |-> (CHOOSE k \in keyed : Rank(k) = i)[2]]

SortedBy(S, key(_)) == InOrder({<<key(x), x>> : x \in S})

Take(s, n) == SubSeq(s, 1, Min({n, Len(s)}))

-----------------------------------------------------------------------------
(* Scheduling *)

\* A stats row written when the puzzle is saved.
NewStats ==
    [attempts |-> 0, passes |-> 0, fails |-> 0, interval |-> None, ease |-> 200,
     due |-> None, last |-> None, result |-> None]

\* Python's round of num / den: halves go to the even neighbour.
Round(num, den) ==
    LET q == num \div den
        r == num % den IN
    IF 2 * r > den \/ (2 * r = den /\ q % 2 = 1) THEN q + 1 ELSE q

\* In days.
NextInterval(row, result) ==
    IF result = "fail" \/ row.interval = None THEN 1
    ELSE IF row.interval = 1 THEN 3
    ELSE Round(row.interval * row.ease, 100)

\* In hundredths.
NextEase(row, result) ==
    IF result = "fail" THEN Max({130, row.ease - 20}) ELSE Min({280, row.ease + 5})

\* The row after a review at time now; the first review creates it.
Reviewed(row, result, now) ==
    LET old == IF row = None THEN NewStats ELSE row
        days == NextInterval(old, result) IN
    [attempts |-> old.attempts + 1,
     passes |-> old.passes + (IF result = "pass" THEN 1 ELSE 0),
     fails |-> old.fails + (IF result = "fail" THEN 1 ELSE 0),
     interval |-> days, ease |-> NextEase(old, result),
     due |-> now + days * Day, last |-> now, result |-> result]

Scheduled(row) == row # None /\ row.due # None
ScheduledLater(row, now) == Scheduled(row) /\ row.due > now

\* 0 due, 1 never scheduled, 2 scheduled for later.
TierOf(row, now) ==
    IF ~Scheduled(row) THEN 1 ELSE IF row.due <= now THEN 0 ELSE 2

TrainableIds(ids, stats, now) == {p \in ids : ~ScheduledLater(stats[p], now)}

\* Mutant of TrainableCount: only puzzles with a stats row count.
TrainableCountOfRows(stats, now) ==
    Cardinality({p \in Puzzles :
        stats[p] # None /\ (~Scheduled(stats[p]) \/ stats[p].due <= now)})

\* "N puzzles due", counted by an outer join of its own.
TrainableCount(stats, now) ==
    Cardinality({p \in Puzzles : ~Scheduled(stats[p]) \/ stats[p].due <= now})

ScheduledWithin(stats, now, window) ==
    Cardinality({p \in Puzzles :
        Scheduled(stats[p]) /\ stats[p].due > now /\ stats[p].due <= now + window})

NextDue(stats, now) ==
    LET later == {stats[p].due : p \in {q \in Puzzles : ScheduledLater(stats[q], now)}} IN
    IF later = {} THEN None ELSE Min(later)

-----------------------------------------------------------------------------
(* The gate *)

\* "blunder" says that no motif was identified.
Usable(motif) == IF motif = "blunder" THEN None ELSE motif

\* The motif a stats row carries.
MotifIn(stats, p) == IF stats[p] = None THEN None ELSE Facts[p].motif

\* Mutant of IsResolved: an attempt opens the gate for good.
IsResolvedForLife(row, now) == ~GateOn \/ (row # None /\ row.attempts > 0)

\* The puzzle has been answered since it last came due.
IsResolved(row, now) ==
    \/ ~GateOn
    \/ /\ row # None
       /\ row.attempts > 0
       /\ row.due = None \/ now < row.due

\* Naming a motif opens the gate for that motif alone.
MotifIsVisible(resolved, motif, requested) ==
    resolved \/ (motif # None /\ motif \in requested)

FocusIsVisible(resolved, focusRequested, inFocus) ==
    resolved \/ (focusRequested /\ inFocus)

\* The nickname, or else where the puzzle comes from.
DisplayName(title, resolved) ==
    IF resolved /\ title # None THEN title ELSE "provenance"

-----------------------------------------------------------------------------
(* The session queue *)

\* Ten-thousandths of the distance between accuracy and goal.
AdaptiveScore(row, goal) ==
    IF goal = None \/ row = None THEN 0
    ELSE IF row.attempts = 0 THEN 0
    ELSE (10000 * row.passes) \div row.attempts - 100 * goal

\* The sort is stable: the last key is the candidate's place.
SortKey(p, stats, now, goal, focus) ==
    LET row == stats[p]
        tier == TierOf(row, now) IN
    <<tier, IF p \in focus THEN 0 ELSE 1, IF tier = 1 THEN now ELSE row.due,
      -AdaptiveScore(row, goal), p>>

\* The motif that p is counted under.
CountedMotif(stats, p) == Usable(MotifIn(stats, p))

\* Two thirds of a session may share a motif,
OverMotif(taken, p, stats, n) ==
    /\ CountedMotif(stats, p) # None
    /\ Cardinality({i \in DOMAIN taken :
                       CountedMotif(stats, taken[i]) = CountedMotif(stats, p)})
         >= Max({1, (2 * n) \div 3})

\* and no two of its puzzles a game.
OverGame(taken, p) ==
    /\ Facts[p].game # None
    /\ \E i \in DOMAIN taken : Facts[taken[i]].game = Facts[p].game

Unplaced == [taken |-> << >>, deferred |-> << >>]
Placed(acc, p, stats, n, capMotifs) ==
    IF /\ Len(acc.taken) < n
       /\ (capMotifs /\ OverMotif(acc.taken, p, stats, n)) \/ OverGame(acc.taken, p)
    THEN [acc EXCEPT !.deferred = Append(@, p)]
    ELSE [acc EXCEPT !.taken = Append(@, p)]

\* _vary_session: what exceeds these limits waits until the session is full.
Vary(order, stats, n, capMotifs) ==
    LET placed == FoldLeft(LAMBDA acc, p : Placed(acc, p, stats, n, capMotifs),
                           Unplaced, order) IN
    IF n <= 1 \/ Len(order) <= 1 THEN order ELSE placed.taken \o placed.deferred

\* Mutant of VaryByTier: variety is sought across the tiers.
VaryAcrossTiers(sorted, stats, now, n, capMotifs) ==
    Take(Vary(sorted, stats, n, capMotifs), n)

\* The puzzles of one tier, as they are sorted.
InTier(acc, p, t, stats, now) ==
    IF TierOf(stats[p], now) = t THEN Append(acc, p) ELSE acc
OfTier(sorted, t, stats, now) ==
    FoldLeft(LAMBDA acc, p : InTier(acc, p, t, stats, now), << >>, sorted)

VaryByTier(sorted, stats, now, n, capMotifs) ==
    LET Varied(t) == Vary(OfTier(sorted, t, stats, now), stats, n, capMotifs) IN
    Take(Varied(0) \o Varied(1) \o Varied(2), n)

\* get_adaptive_puzzles; goal is None outside an accuracy_goal session.
AdaptiveQueue(ids, stats, now, n, goal, focus) ==
    VaryByTier(SortedBy(ids, LAMBDA p : SortKey(p, stats, now, goal, focus)),
               stats, now, n, focus = {})

\* The queue of start_focus_practice: its candidates may be scheduled later.
PracticeQueueOf(ids, stats, now, n) ==
    LET Time(p) == IF Scheduled(stats[p]) THEN stats[p].due ELSE now IN
    VaryByTier(SortedBy(ids, LAMBDA p : <<TierOf(stats[p], now), Time(p), p>>),
               stats, now, n, FALSE)

\* A puzzle scheduled for later is practised without being rescheduled.
PolicyOf(row, now) ==
    IF TierOf(row, now) = 2 THEN "practice_only" ELSE "normal_review"

-----------------------------------------------------------------------------
(* Solving a line: pv holds the solver's moves at its odd places, and the
   forced replies between them *)

Pv(p) == Facts[p].pv

\* The multi-PV equivalence set; the best move belongs to it.
Accepts(p) == Facts[p].accept \union {Facts[p].best}

VerifyAttempt(p, move) ==
    IF move \in Facts[p].legal /\ move \in Accepts(p) THEN "pass" ELSE "fail"

UserPlies(p) == [i \in 1..((Len(Pv(p)) + 1) \div 2) |-> Pv(p)[2 * i - 1]]

\* Mutant of VerifyLine: the first move must be the line's own.
VerifyLineExactly(p, line) == IF line = UserPlies(p) THEN "pass" ELSE "fail"

\* The whole line of a puzzle that has one.
VerifyLine(p, line) ==
    IF /\ Len(line) = Len(UserPlies(p))
       /\ line[1] \in Accepts(p)
       /\ \A i \in 2..Len(line) : line[i] = UserPlies(p)[i]
    THEN "pass"
    ELSE "fail"

\* The server's verdict on what was played.  Without a stored line the text
\* sent is one move: several do not parse, and fail.
Verified(p, line) ==
    IF Len(Pv(p)) >= 2 THEN VerifyLine(p, line)
    ELSE IF Len(line) = 1 THEN VerifyAttempt(p, line[1])
    ELSE "fail"

\* A review's result: verified if a move came with it.
Verdict(p, line, claim) ==
    IF line = None THEN [result |-> claim, verified |-> FALSE]
    ELSE [result |-> Verified(p, line), verified |-> TRUE]

WrongMove == [correct |-> FALSE, reply |-> None, complete |-> FALSE, next |-> None]

\* The answer of /check to a move at ply (0, 2, ...) of the line.
CheckMove(p, move, ply) ==
    LET pv == Pv(p)
        last == ply + 2 >= Len(pv) IN
    IF Len(pv) < 2
    THEN [WrongMove EXCEPT !.correct = VerifyAttempt(p, move) = "pass",
                           !.complete = VerifyAttempt(p, move) = "pass"]
    ELSE IF \/ ply \notin 0..(Len(pv) - 1)
            \/ ply % 2 # 0
            \/ IF ply = 0 THEN move \notin Accepts(p) ELSE move # pv[ply + 1]
    THEN WrongMove
    ELSE [correct |-> TRUE,
          reply |-> IF ply + 2 <= Len(pv) THEN pv[ply + 2] ELSE None,
          complete |-> last,
          next |-> IF last THEN None ELSE ply + 2]
=============================================================================
