------------------------------ MODULE Practice ------------------------------
(***************************************************************************)
(* One user's practice over time: puzzles come due, lines are solved move  *)
(* by move against /check and recorded by /review, focus sessions capture  *)
(* a queue, diagnoses arrive and are corrected; and every surface that     *)
(* shows the result: the queue, the daily set, the Library, a puzzle's     *)
(* page and diagnosis, its siblings, Insights and the dashboard.  Reviews  *)
(* are sequential here: TrainingReview models their races.                 *)
(***************************************************************************)
EXTENDS Insights

CONSTANTS
    FourHours,       \* the dashboard's "due soon", in ticks
    WarmupDays,      \* days without a session after which a warm-up is due
    Moves,           \* the moves a solver tries,
    MaxMoves,        \* and how many of them on one line
    Trained0,        \* the times of earlier sessions: before 0
    Analysed0,       \* the puzzles diagnosed at first
    Corrections,     \* Corrections[p]: the causes a user may confirm p as
    QueueRequests,   \* parameters of GET /puzzles/due
    ListRequests,    \* parameters of GET /puzzles/list
    SessionSize,
    MaxTime,
    MaxRequests      \* sessions opened and completed, and reviews

ASSUME PracticeAssumption ==
    /\ {FourHours, WarmupDays, SessionSize, MaxMoves, MaxTime, MaxRequests} \subseteq Nat
    /\ Analysed0 \subseteq Puzzles
    /\ Trained0 \subseteq {t \in Int : t < 0}
    /\ IsFiniteSet(Trained0)
    /\ Corrections \in [Puzzles -> SUBSET KnownCauses]

Opening == [family : Text, line : Text]
QueueRequest ==
    [n : Nat, motif : Text, cause : Text, opening : Opening \union {None},
     family : BOOLEAN, goal : Nat \union {None}]
ListRequest ==
    [q : Text, status : Text, motifs : SUBSET STRING, cause : Text, phase : Text,
     opening : Opening \union {None}, family : BOOLEAN, difficulty : Text,
     sort : {"due_soonest", "last_attempted", "most_failed", "difficulty_asc",
             "difficulty_desc", "newest"},
     limit : Nat, offset : Nat]

ASSUME RequestsAssumption ==
    /\ QueueRequests \subseteq QueueRequest
    /\ ListRequests \subseteq ListRequest

\* The solver's lines: at most as many moves as the longest line asks for.
Lines == UNION {[1..n -> Moves] : n \in 1..MaxMoves}

ASSUME LinesAssumption == None \notin Lines

VARIABLES
    now,
    stats,       \* stats[p]: its row in puzzle_stats, or None
    tally,       \* tally[p]: its server-verified reviews
    diag,        \* diag[p]: its row in puzzle_diagnoses, or None
    session,     \* the last training session, or None
    used,        \* used[p]: used_on, the day of its last daily set
    trained,     \* the times at which sessions were completed
    requests,    \* how many sessions and reviews there have been
    answered,    \* history: reviewed and rescheduled, and not due since
    told         \* history: told[p], the lines that /check called over and solved

vars == <<now, stats, tally, diag, session, used, trained, requests, answered, told>>

Today == now \div Day

Init ==
    /\ now = 0
    /\ stats = [p \in Puzzles |-> IF Facts[p].saved THEN NewStats ELSE None]
    /\ tally = [p \in Puzzles |-> [attempts |-> 0, passes |-> 0]]
    /\ diag = [p \in Puzzles |-> IF p \in Analysed0 THEN Facts[p].diagnosis ELSE None]
    /\ session = None
    /\ used = [p \in Puzzles |-> None]
    /\ trained = Trained0
    /\ requests = 0
    /\ answered = {}
    /\ told = tally

-----------------------------------------------------------------------------
(* What a payload shows of a puzzle *)

Resolved(p) == IsResolved(stats[p], now)

Motif(p) == Usable(MotifIn(stats, p))
Title(p) == IF stats[p] = None THEN None ELSE Facts[p].title

\* The fields that may reveal p; motifs are those the request names.
Item(p, motifs, cause) ==
    [puzzle |-> p,
     title |-> IF Resolved(p) THEN Title(p) ELSE None,
     name |-> DisplayName(Title(p), Resolved(p)),
     motif |-> IF MotifIsVisible(Resolved(p), MotifIn(stats, p), motifs)
               THEN Motif(p) ELSE None,
     cause |-> cause]

Items(ids, motifs) == {Item(p, motifs, None) : p \in ids}

-----------------------------------------------------------------------------
(* GET /puzzles/due *)

\* A cause overrides an opening.
FocusIds(req) ==
    IF req.cause # None THEN IdsForCause(diag, req.cause)
    ELSE IF req.opening # None THEN IdsForOpening(diag, req.opening, req.family)
    ELSE {}

\* Mutant of FocusName: the pattern is named without its phase.
FocusNameOfAnyPhase(req) ==
    IF req.cause # None THEN Identify(req.cause, None)
    ELSE IF req.opening # None
    THEN IF req.family THEN req.opening.family ELSE req.opening.line
    ELSE None

\* Named through the breakdown that the focus card uses.
FocusName(req) ==
    IF req.cause # None
    THEN LET stat == {s \in Range(Breakdown(diag, tally, now)) : s.cause = req.cause} IN
         Identify(req.cause, IF stat = {} THEN None ELSE (CHOOSE s \in stat : TRUE).phase)
    ELSE IF req.opening # None
    THEN IF req.family THEN req.opening.family ELSE req.opening.line
    ELSE None

Candidates(req) ==
    TrainableIds({p \in Puzzles : req.motif # None => MotifIn(stats, p) = req.motif},
                 stats, now)

Queue(req) == AdaptiveQueue(Candidates(req), stats, now, req.n, req.goal, FocusIds(req))

\* queue_reason, whose focus is called name: it explains the order, never the
\* presence.
QueueReason(p, req, name) ==
    LET row == stats[p]
        visible == FocusIsVisible(Resolved(p), name # None, p \in FocusIds(req)) IN
    [reason |-> IF Scheduled(row) THEN "due" ELSE "new",
     days |-> IF Scheduled(row) THEN Max({0, (now - row.due) \div Day}) ELSE 0,
     pattern |-> IF p \in FocusIds(req) /\ visible THEN name ELSE None]

DuePuzzles(req) ==
    LET queue == Queue(req)
        name == FocusName(req)
        motifs == IF req.motif = None THEN {} ELSE {req.motif} IN
    [count |-> Cardinality(Candidates(req)), queue |-> queue, name |-> name,
     items |-> {Item(queue[i], motifs, QueueReason(queue[i], req, name).pattern) :
                    i \in DOMAIN queue}]

-----------------------------------------------------------------------------
(* The daily set *)

\* get_daily_puzzles: today's again, then unused ones, then the newest others.
DailyPuzzles(n) ==
    LET Key(p) == IF used[p] = Today THEN <<0, p>>
                  ELSE IF used[p] = None THEN <<1, p>> ELSE <<2, -p>> IN
    Take(SortedBy(Puzzles, Key), n)

-----------------------------------------------------------------------------
(* The Library *)

Untried(row) == row = None \/ row.attempts = 0

Status(p) ==
    LET row == stats[p] IN
    IF Untried(row) THEN "new"
    ELSE IF row.due # None /\ row.due <= now THEN "due"
    ELSE IF row.attempts >= 3 /\ 10 * row.passes >= 8 * row.attempts THEN "mastered"
    ELSE "learning"

CorpusCount(status) == Cardinality({p \in Puzzles : Status(p) = status})

\* Mutant of TitleMatches: a title is matched once the puzzle was attempted.
TitleMatchesAttempted(p, q) ==
    /\ Title(p) # None
    /\ Title(p) = q
    /\ GateOn => stats[p].attempts > 0

\* The SQL half of the gate: a withheld title cannot be searched for.
TitleMatches(p, q) ==
    /\ Title(p) # None
    /\ Title(p) = q
    /\ GateOn => /\ stats[p].attempts > 0
                 /\ stats[p].due = None \/ stats[p].due > now

\* q is a title or an opening.
Searched(p, q) ==
    \/ q = None
    \/ TitleMatches(p, q)
    \/ diag[p] # None /\ diag[p].line = q

\* Mutant of CauseMatches: the computed cause is what is filtered on.
CauseMatchesComputed(p, cause) ==
    cause # None => Analysed(diag[p]) /\ diag[p].primary = cause

CauseMatches(p, cause) ==
    cause # None => Analysed(diag[p]) /\ CauseIn(diag[p]) = cause

PlaceMatches(p, req) ==
    /\ req.phase # None => Analysed(diag[p]) /\ diag[p].phase = req.phase
    /\ req.opening # None =>
        /\ Analysed(diag[p])
        /\ IF req.family THEN diag[p].family = req.opening.family
                         ELSE diag[p].line = req.opening.line

\* Swings are in tenths of a pawn.
Difficulty(p) ==
    IF Facts[p].swing < 20 THEN "easy" ELSE IF Facts[p].swing < 50 THEN "medium" ELSE "hard"

ListIds(req) ==
    {p \in Puzzles :
        /\ Searched(p, req.q)
        /\ req.status # None => Status(p) = req.status
        /\ req.motifs # {} => MotifIn(stats, p) \in req.motifs
        /\ CauseMatches(p, req.cause)
        /\ PlaceMatches(p, req)
        /\ req.difficulty # None => Difficulty(p) = req.difficulty}

\* Rows that tie come in no order the query promises: here, oldest first.
ListKey(p, sort) ==
    LET row == stats[p]
        last == IF row = None THEN None ELSE row.last IN
    CASE sort = "due_soonest" ->
            IF Scheduled(row) THEN <<IF row.due <= now THEN 0 ELSE 2, 0, row.due, p>>
            ELSE <<IF Untried(row) THEN 1 ELSE 2, 1, 0, p>>
      [] sort = "last_attempted" -> IF last = None THEN <<1, 0, p>> ELSE <<0, -last, p>>
      [] sort = "most_failed" -> <<IF row = None THEN 0 ELSE -row.fails, p>>
      [] sort = "difficulty_asc" -> <<Facts[p].swing, p>>
      [] sort = "difficulty_desc" -> <<-Facts[p].swing, p>>
      [] sort = "newest" -> <<-p>>

ListPage(req) ==
    LET sorted == SortedBy(ListIds(req), LAMBDA p : ListKey(p, req.sort)) IN
    Take(SubSeq(sorted, req.offset + 1, Len(sorted)), req.limit)

\* The short form of a diagnosis that a Library row carries.
SummaryCause(row) == IF Analysed(row) THEN CauseIn(row) ELSE None

ListItems(req) ==
    {Item(p, req.motifs, IF Resolved(p) THEN SummaryCause(diag[p]) ELSE None) :
        p \in Range(ListPage(req))}

-----------------------------------------------------------------------------
(* One puzzle's pages *)

Detail(p) == Item(p, {}, None)

\* Mutant of DiagnosisOf: the confirmation answers without the gate.
DiagnosisOfAny(p) ==
    IF diag[p] = None THEN [state |-> "pending", motif |-> None, cause |-> None]
    ELSE IF ~Analysed(diag[p])
    THEN [state |-> "unavailable", motif |-> None, cause |-> None]
    ELSE [state |-> IF diag[p].insufficient \/ CauseIn(diag[p]) = None
                    THEN "unclear" ELSE "ready",
          motif |-> Usable(diag[p].motif), cause |-> CauseIn(diag[p])]

\* The body of GET diagnosis and of its confirmation.
DiagnosisOf(p) ==
    IF ~Resolved(p) THEN [state |-> "withheld", motif |-> None, cause |-> None]
    ELSE IF diag[p] = None THEN [state |-> "pending", motif |-> None, cause |-> None]
    ELSE IF ~Analysed(diag[p])
    THEN [state |-> "unavailable", motif |-> None, cause |-> None]
    ELSE [state |-> IF diag[p].insufficient \/ CauseIn(diag[p]) = None
                    THEN "unclear" ELSE "ready",
          motif |-> Usable(diag[p].motif), cause |-> CauseIn(diag[p])]

\* POST hint/motif, the gate's exit: the motif of the puzzle asked about, on
\* request and at the price of a hint.
MotifHint(p) == [puzzle |-> p, title |-> None, name |-> "provenance",
                 motif |-> Motif(p), cause |-> None]

\* GET similar: the anchor's cause, the legs of it that its siblings share, and
\* what their cards show.  (The reason says the cause and the legs in prose.)
SimilarPuzzles(p, n) ==
    LET key == ClusterKey(diag[p])
        found == IF key = None THEN [ids |-> << >>, legs |-> None]
                 ELSE Similar(p, key, n, diag) IN
    [cause |-> IF key # None /\ Resolved(p) THEN key.cause ELSE None,
     legs |-> found.legs,
     items |-> Items(Range(found.ids), {})]

-----------------------------------------------------------------------------
(* Sessions and the dashboard *)

\* The cards of a focus session, rehydrated from its snapshot.
SessionItems ==
    IF session = None THEN {}
    ELSE {[Item(p, {}, None) EXCEPT !.motif = None] : p \in Range(session.items)}

\* The summary of a completed session names the puzzles failed in it; the
\* cause that it adds to each is shown whatever the gate says.
MissedNames ==
    IF session = None \/ ~session.completed THEN {}
    ELSE {[Item(p, {}, None) EXCEPT !.motif = None] : p \in session.missed}

\* Failed twice or more.
Tricky(limit) ==
    LET ids == {p \in Puzzles : stats[p] # None /\ stats[p].fails >= 2 /\ stats[p].last # None} IN
    Take(SortedBy(ids, LAMBDA p : <<-stats[p].fails, -stats[p].last, p>>), limit)

TrickyItems(limit) ==
    {[Item(p, {}, None) EXCEPT !.motif = None] : p \in Range(Tricky(limit))}

\* The days of completed sessions, latest first.
SessionDays == SortedBy({t \div Day : t \in trained}, LAMBDA d : <<-d>>)

\* Mutant of TrainingStreak: a gap is stepped over.
TrainingStreakOverGaps ==
    LET days == SessionDays IN
    IF days = << >> \/ days[1] < Today - 1 THEN 0 ELSE Len(days)

\* The streak is walked backwards, a day at a time.
Walk(acc, day) ==
    IF ~acc.broken /\ day = acc.expected
    THEN [acc EXCEPT !.length = @ + 1, !.expected = day - 1]
    ELSE [acc EXCEPT !.broken = TRUE]

\* Consecutive days with a completed session, up to today or yesterday.
TrainingStreak ==
    LET days == SessionDays IN
    IF days = << >> \/ days[1] < Today - 1 THEN 0
    ELSE FoldLeft(Walk, [length |-> 1, expected |-> days[1] - 1, broken |-> FALSE],
                  Tail(days)).length

CompletedToday == \E t \in trained : t >= Today * Day /\ t < (Today + 1) * Day

DaysSinceLast == IF trained = {} THEN 0 ELSE (now - Max(trained)) \div Day

Dashboard ==
    [sinceLast |-> DaysSinceLast, warmup |-> trained # {} /\ DaysSinceLast > WarmupDays,
     sessions |-> Cardinality(trained), streak |-> TrainingStreak,
     dueNow |-> TrainableCount(stats, now),
     dueSoon |-> ScheduledWithin(stats, now, FourHours),
     nextReview |-> NextDue(stats, now), completedToday |-> CompletedToday]

-----------------------------------------------------------------------------
\* One of the requests that the bound counts.
Request == requests < MaxRequests /\ requests' = requests + 1

(* Time, diagnoses and their corrections *)

\* A puzzle that comes due is to be answered again.
Tick ==
    /\ \E step \in {1, Day} :
        /\ now + step <= MaxTime
        /\ now' = now + step
        /\ answered' = {p \in answered : stats[p].due > now + step}
    /\ UNCHANGED <<stats, tally, diag, session, used, trained, requests, told>>

\* The diagnosis job stores what it computed.
Diagnose(p) ==
    /\ diag[p] = None
    /\ diag' = [diag EXCEPT ![p] = Facts[p].diagnosis]
    /\ UNCHANGED <<now, stats, tally, session, used, trained, requests, answered, told>>

\* POST diagnosis/confirm: the correction is kept beside the computed cause.
Confirm(p, cause) ==
    /\ diag[p] # None
    /\ diag' = [diag EXCEPT ![p].confirmed = cause]
    /\ UNCHANGED <<now, stats, tally, session, used, trained, requests, answered, told>>

\* POST daily-puzzle-sessions: the set that is served is marked as used today.
DailySession(n) ==
    /\ Request
    /\ used' = [p \in Puzzles |-> IF p \in Range(DailyPuzzles(n)) THEN Today ELSE used[p]]
    /\ UNCHANGED <<now, stats, tally, diag, session, trained, answered, told>>

-----------------------------------------------------------------------------
(* Sessions *)

NewSession(kind, items, policy, name) ==
    [kind |-> kind, items |-> items, policy |-> policy, name |-> name,
     missed |-> {}, completed |-> FALSE]

StartSession ==
    /\ Request
    /\ session' = NewSession("standard", << >>, << >>, None)
    /\ UNCHANGED <<now, stats, tally, diag, used, trained, answered, told>>

\* What a focus session of n puzzles on this cause would capture.
FocusSnapshot(cause, n) == PracticeQueueOf(IdsForCause(diag, cause), stats, now, n)

\* POST focus-practice/start: only for the planned focus, and with at least
\* two puzzles; it answers 409 otherwise.
StartFocusPractice(n) ==
    LET planned == PlanFocus(Breakdown(diag, tally, now))
        items == FocusSnapshot(planned.cause, n) IN
    /\ Request
    /\ planned # None
    /\ Len(items) >= 2
    /\ session' = NewSession("focus_practice", items,
                             [p \in Range(items) |-> PolicyOf(stats[p], now)],
                             planned.name)
    /\ UNCHANGED <<now, stats, tally, diag, used, trained, answered, told>>

CompleteSession ==
    /\ Request
    /\ session # None
    /\ ~session.completed
    /\ session' = [session EXCEPT !.completed = TRUE]
    /\ trained' = trained \union {now}
    /\ UNCHANGED <<now, stats, tally, diag, used, answered, told>>

-----------------------------------------------------------------------------
(* Solving and reviewing *)

\* A line played move by move against /check, each at the ply that the last
\* answer named: over when it is wrong or solved.
Play(p, acc, move) ==
    LET answer == CheckMove(p, move, acc.ply) IN
    IF acc.state # "open" THEN [acc EXCEPT !.state = "overrun"]
    ELSE IF ~answer.correct THEN [acc EXCEPT !.state = "wrong"]
    ELSE IF answer.complete THEN [acc EXCEPT !.state = "solved"]
    ELSE [acc EXCEPT !.ply = answer.next]
Unplayed == [state |-> "open", ply |-> 0]
LineState(p, line) ==
    FoldLeft(LAMBDA acc, move : Play(p, acc, move), Unplayed, line).state

Live == session # None /\ ~session.completed
Focused == Live /\ session.kind = "focus_practice"

\* A focus session reviews only the puzzles of its snapshot.
Refused(p) == Focused /\ p \notin Range(session.items)

Counted(counts, p, passed) ==
    [counts EXCEPT ![p].attempts = @ + 1, ![p].passes = @ + (IF passed THEN 1 ELSE 0)]

\* review_puzzle; a focus session's reviews follow the policy captured there.
Review(p, line, claim) ==
    LET verdict == Verdict(p, line, claim)
        scheduling == Focused => session.policy[p] = "normal_review" IN
    /\ Request
    /\ ~Refused(p)
    /\ IF scheduling
       THEN /\ stats' = [stats EXCEPT ![p] = Reviewed(@, verdict.result, now)]
            /\ answered' = answered \union {p}
       ELSE UNCHANGED <<stats, answered>>
    /\ tally' = IF verdict.verified THEN Counted(tally, p, verdict.result = "pass") ELSE tally
    /\ session' = IF Live /\ verdict.result = "fail"
                  THEN [session EXCEPT !.missed = @ \union {p}] ELSE session
    /\ UNCHANGED <<now, diag, used, trained>>

\* /check changes nothing, so the line is played and reviewed in one step.
Submit(p) ==
    \E line \in Lines :
        /\ LineState(p, line) \in {"solved", "wrong"}
        /\ Review(p, line, None)
        /\ told' = Counted(told, p, LineState(p, line) = "solved")

\* No move is sent: the client's own result is recorded, unverified.
SelfReport(p) ==
    /\ \E claim \in {"pass", "fail"} : Review(p, None, claim)
    /\ UNCHANGED told

Next ==
    \/ Tick
    \/ \E p \in Puzzles : Diagnose(p)
    \/ \E p \in Puzzles : \E cause \in Corrections[p] : Confirm(p, cause)
    \/ DailySession(SessionSize)
    \/ StartSession
    \/ StartFocusPractice(SessionSize)
    \/ CompleteSession
    \/ \E p \in Puzzles : Submit(p)
    \/ \E p \in Puzzles : SelfReport(p)

Spec == Init /\ [][Next]_vars

-----------------------------------------------------------------------------
(* Properties *)

\* What may be known of p: it has been answered in its current exposure.
Earned(p) == ~GateOn \/ p \in answered

\* Items reveal only what was earned, or what the request itself named.
Withheld(items, motifs, causes) ==
    \A i \in items :
        \/ Earned(i.puzzle)
        \/ /\ i.title = None /\ i.name = "provenance"
           /\ i.motif = None \/ i.motif \in motifs
           /\ i.cause = None \/ i.cause \in causes

\* No page or list shows, and no title search confirms, the nickname, motif or
\* cause of a puzzle that has come due since its last review, save the motif or
\* focus that the request names; and once reviewed, its page shows them.  The
\* gate has one exit, the motif hint: it tells the motif of the puzzle asked
\* about and nothing else, and it is the motif that the page shows later.
\* (Outside: the cause in a completed session's summary, and /similar's reason
\* as it speaks of the siblings; see the README.)
GateFollowsTheExposure ==
    /\ \A req \in QueueRequests :
        LET due == DuePuzzles(req) IN Withheld(due.items, {req.motif}, {due.name})
    /\ \A req \in ListRequests : Withheld(ListItems(req), req.motifs, {})
    /\ \A p \in Puzzles :
        /\ Withheld({Detail(p)}, {}, {})
        /\ Withheld({[Detail(p) EXCEPT !.motif = DiagnosisOf(p).motif,
                                       !.cause = DiagnosisOf(p).cause]}, {}, {})
        /\ Withheld({[Detail(p) EXCEPT !.cause = SimilarPuzzles(p, 2).cause]}, {}, {})
        /\ Withheld(SimilarPuzzles(p, 2).items, {}, {})
        /\ Withheld({MotifHint(p)}, {Motif(p)}, {})
        /\ TitleMatches(p, Facts[p].title) => Earned(p)
        /\ p \in answered =>
            Detail(p).title = Title(p) /\ Detail(p).motif = MotifHint(p).motif
    /\ Withheld(Items(Range(DailyPuzzles(SessionSize)), {}), {}, {})
    /\ Withheld(SessionItems \union MissedNames \union TrickyItems(2), {}, {})

\* A session serves only what is trainable, as much of it as it has room for,
\* due before new; a focus reorders puzzles within those tiers and moves none
\* across them.
ServesInOrder ==
    \A req \in QueueRequests :
        LET queue == Queue(req)
            plain == Queue([req EXCEPT !.cause = None, !.opening = None])
            Tiers(s) == [i \in DOMAIN s |-> TierOf(stats[s[i]], now)] IN
        /\ Range(queue) \subseteq Candidates(req)
        /\ \A p \in Range(queue) : ~ScheduledLater(stats[p], now)
        /\ Len(queue) = Min({req.n, Cardinality(Candidates(req))})
        /\ \A i, j \in DOMAIN queue :
            i < j => queue[i] # queue[j] /\ Tiers(queue)[i] <= Tiers(queue)[j]
        /\ Tiers(queue) = Tiers(plain)

Anything == [n |-> Cardinality(Puzzles), motif |-> None, cause |-> None, opening |-> None,
             family |-> FALSE, goal |-> None]
Everything == [q |-> None, status |-> None, motifs |-> {}, cause |-> None, phase |-> None,
               opening |-> None, family |-> FALSE, difficulty |-> None,
               sort |-> "due_soonest", limit |-> Cardinality(Puzzles), offset |-> 0]

\* The number of puzzles due is the same on the dashboard, in the queue and in
\* the Library, now and in four hours.
CountsAgree ==
    /\ Dashboard.dueNow = DuePuzzles(Anything).count
    /\ Dashboard.dueNow = Len(Queue(Anything))
    /\ Dashboard.dueNow = CorpusCount("new") + CorpusCount("due")
    /\ TrainableCount(stats, now + FourHours) = Dashboard.dueNow + Dashboard.dueSoon
    /\ (Dashboard.dueSoon > 0) =>
        Dashboard.nextReview # None /\ Dashboard.nextReview <= now + FourHours

\* Every cause that Insights counts is counted by the Library filter and by the
\* focus set; a focus has one name on its card, its pattern and its queue, and
\* a card that offers practice can deliver it.
CausesAgree ==
    LET causes == MistakeCauses(diag, tally, now).causes
        patterns == MistakePatterns(diag, tally, now).patterns
        focus == TodaysFocus(diag, tally, stats, now) IN
    /\ \A i \in DOMAIN causes :
        causes[i].mistakes =
            Cardinality(ListIds([Everything EXCEPT !.cause = causes[i].cause]))
    /\ focus = None <=> patterns = << >>
    /\ focus # None =>
        /\ patterns[1].cause = focus.cause /\ patterns[1].name = focus.name
        /\ FocusName([Anything EXCEPT !.cause = focus.cause]) = focus.name
        /\ focus.available <=> Len(FocusSnapshot(focus.cause, 2)) >= 2
        /\ focus.trainable <= Dashboard.dueNow
    /\ \A opening \in {req.opening : req \in QueueRequests} \ {None} :
        LET offer == OpeningPractice(diag, opening)
            Listed(family) == Cardinality(ListIds(
                [Everything EXCEPT !.opening = opening, !.family = family])) IN
        /\ offer.lines = Listed(FALSE) /\ offer.families = Listed(TRUE)
        /\ offer.scope # "none" => Listed(offer.scope = "family") > 0

\* The streak is the longest run of trained days that ends today or yesterday;
\* it lives while the day is marked complete, and dies before a warm-up is due.
DaysAgree ==
    LET days == {t \div Day : t \in trained}
        Runs == {k \in 0..Cardinality(days) :
                    \E end \in {Today, Today - 1} : ((end - k + 1)..end) \subseteq days} IN
    /\ Dashboard.streak = Max(Runs)
    /\ Dashboard.completedToday => Dashboard.streak > 0 /\ Dashboard.sinceLast = 0
    /\ Dashboard.streak > 0 => Dashboard.sinceLast <= 1

\* Surfaces that report the same fact report it alike.
SurfacesAgree == CountsAgree /\ CausesAgree /\ DaysAgree

\* The verified reviews of a puzzle, which its accuracy is measured by, are the
\* lines that /check has called over, and its passes those it called solved.
SolvedLinesVerify == tally = told
=============================================================================
