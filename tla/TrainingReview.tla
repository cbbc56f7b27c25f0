--------------------------- MODULE TrainingReview ---------------------------
(***************************************************************************)
(* Training sessions and the reviews recorded in them, as concurrent       *)
(* Postgres transactions under READ COMMITTED.  A review request runs on   *)
(* the thread pool and is several actions: the replay lookup, the SELECT   *)
(* ... FOR UPDATE of the session, the flush of the review row, that of the *)
(* puzzle's stats row, and the commit.  Row locks are not variables: a     *)
(* request holds what its pc says it holds.                                *)
(*                                                                         *)
(* complete_session is a coroutine without an await between its read and   *)
(* its commit, so within the one API process two of them never overlap;    *)
(* the housekeeping sweep and the threads do overlap with it.              *)
(***************************************************************************)
EXTENDS Integers, Sequences, FiniteSets

CONSTANTS
    Puzzles, Sessions, Keys, NoSession, NoKey,
    Reviewers,       \* review requests, each served once
    Completers,      \* complete_session requests
    Hinters,         \* use_hint and motif-hint requests
    MaxAborts        \* review requests whose process or connection dies

ASSUME TrainingReviewAssumption ==
    /\ Puzzles # {}
    /\ NoSession \notin Sessions
    /\ NoKey \notin Keys
    /\ MaxAborts \in Nat

VARIABLES
    phase,           \* phase[s]: "completed" once completed_at is set
    policy,          \* review policy of each puzzle in a session
    counters,        \* pass_count, fail_count, current_streak, best_streak
    hints,           \* hints_used
    log,             \* puzzle_reviews, in commit order
    rated,           \* puzzles with a puzzle_stats row
    stats,           \* that row
    pc,              \* pc[r]: where review request r is
    req,             \* req[r]: its review row
    seen,            \* seen[r]: session counters read under the row lock
    statsSeen,       \* statsSeen[r]: stats read under the row lock
    answer,          \* answer[r]: the result the response reports
    aborts,
    cpc, csession,          \* the complete_session requests
    hpc, hsession, hseen    \* the hint requests

sessionVars == <<phase, policy, counters, hints>>
statsVars == <<rated, stats>>
reviewVars == <<pc, req, seen, statsSeen, answer, aborts>>
completeVars == <<cpc, csession>>
hintVars == <<hpc, hsession, hseen>>
vars == <<sessionVars, log, statsVars, reviewVars, completeVars, hintVars>>

-----------------------------------------------------------------------------
Result == {"pass", "fail"}
Policy == {"normal_review", "practice_only", "not_selected"}

Counters == [pass : Nat, fail : Nat, streak : Nat, best : Nat]
ZeroCounters == [pass |-> 0, fail |-> 0, streak |-> 0, best |-> 0]

Stats == [attempts : Nat, passes : Nat, last : Result \union {"none"}]
NewStats == [attempts |-> 0, passes |-> 0, last |-> "none"]

Review == [puzzle : Puzzles, session : Sessions \union {NoSession},
           key : Keys \union {NoKey}, result : Result, scheduling : BOOLEAN]

\* Rows v and w collide on uq_puzzle_reviews_client_key.
SameReview(v, w) ==
    /\ v.key = w.key /\ v.key # NoKey
    /\ v.puzzle = w.puzzle
    /\ v.session = w.session

InTransaction == {"entering", "inserting", "scheduling", "creating",
                  "committing", "conflict"}
Served == {"answered", "refused", "failed", "aborted"}

TypeOK ==
    /\ phase \in [Sessions -> {"absent", "open", "completed"}]
    /\ policy \in [Sessions -> [Puzzles -> Policy]]
    /\ counters \in [Sessions -> Counters]
    /\ hints \in [Sessions -> Nat]
    /\ log \in Seq(Review)
    /\ rated \subseteq Puzzles
    /\ stats \in [Puzzles -> Stats]
    /\ pc \in [Reviewers -> InTransaction \union Served \union {"idle"}]
    /\ req \in [Reviewers -> Review]
    /\ seen \in [Reviewers -> Counters]
    /\ statsSeen \in [Reviewers -> Stats]
    /\ answer \in [Reviewers -> Result \union {"none"}]
    /\ aborts \in 0..MaxAborts
    /\ cpc \in [Completers -> {"idle", "writing", "done"}]
    /\ csession \in [Completers -> Sessions \union {NoSession}]
    /\ hpc \in [Hinters -> {"idle", "writing", "counted", "uncounted"}]
    /\ hsession \in [Hinters -> Sessions \union {NoSession}]
    /\ hseen \in [Hinters -> Nat]

\* Generation writes a stats row with the puzzle; some puzzles have none.
Init ==
    /\ phase = [s \in Sessions |-> "absent"]
    /\ policy = [s \in Sessions |-> [p \in Puzzles |-> "normal_review"]]
    /\ counters = [s \in Sessions |-> ZeroCounters]
    /\ hints = [s \in Sessions |-> 0]
    /\ log = << >>
    /\ rated \in SUBSET Puzzles
    /\ stats = [p \in Puzzles |-> NewStats]
    /\ pc = [r \in Reviewers |-> "idle"]
    /\ req = [r \in Reviewers |-> CHOOSE v \in Review : TRUE]
    /\ seen = [r \in Reviewers |-> ZeroCounters]
    /\ statsSeen = [r \in Reviewers |-> NewStats]
    /\ answer = [r \in Reviewers |-> "none"]
    /\ aborts = 0
    /\ cpc = [c \in Completers |-> "idle"]
    /\ csession = [c \in Completers |-> NoSession]
    /\ hpc = [h \in Hinters |-> "idle"]
    /\ hsession = [h \in Hinters |-> NoSession]
    /\ hseen = [h \in Hinters |-> 0]

-----------------------------------------------------------------------------
(* Rows, locks and uncommitted inserts *)

Prior(v) == {i \in DOMAIN log : SameReview(log[i], v)}

Holding == {"inserting", "scheduling", "creating", "committing"}

\* r holds the FOR UPDATE lock of session s.
LocksSession(r, s) == pc[r] \in Holding /\ req[r].session = s

\* r has flushed its review row and not committed it.
InsertedReview(r) == pc[r] \in {"scheduling", "creating", "committing"}

\* r holds puzzle p's stats row, or has inserted it and not committed.
LocksStats(r, p) ==
    pc[r] = "committing" /\ req[r].scheduling /\ req[r].puzzle = p

SessionFree(s) == \A r \in Reviewers : ~LocksSession(r, s)

GoTo(r, step) == pc' = [pc EXCEPT ![r] = step]

\* Mutant of Tally: a fail leaves the streak running.
TallyKeepsStreak(c, result) ==
    IF result = "pass"
    THEN LET streak == c.streak + 1 IN
         [pass |-> c.pass + 1, fail |-> c.fail, streak |-> streak,
          best |-> IF streak > c.best THEN streak ELSE c.best]
    ELSE [c EXCEPT !.fail = c.fail + 1]

\* Mutant of Tally: a fail takes one off the streak instead of ending it.
TallyStepsBack(c, result) ==
    IF result = "pass"
    THEN LET streak == c.streak + 1 IN
         [pass |-> c.pass + 1, fail |-> c.fail, streak |-> streak,
          best |-> IF streak > c.best THEN streak ELSE c.best]
    ELSE [c EXCEPT !.fail = c.fail + 1, !.streak = c.streak - 1]

\* The counters after one more review.
Tally(c, result) ==
    IF result = "pass"
    THEN LET streak == c.streak + 1 IN
         [pass |-> c.pass + 1, fail |-> c.fail, streak |-> streak,
          best |-> IF streak > c.best THEN streak ELSE c.best]
    ELSE [c EXCEPT !.fail = c.fail + 1, !.streak = 0]

-----------------------------------------------------------------------------
(* Starting sessions *)

StartSession(s) ==
    /\ phase[s] = "absent"
    /\ phase' = [phase EXCEPT ![s] = "open"]
    /\ UNCHANGED <<policy, counters, hints, log, statsVars,
                   reviewVars, completeVars, hintVars>>

\* A puzzle whose next_due_at lies in the future is practised without being
\* rescheduled; one never scheduled is reviewed normally.
StartFocusPractice(s) ==
    /\ phase[s] = "absent"
    /\ \E pol \in [Puzzles -> Policy] :
        /\ Cardinality({p \in Puzzles : pol[p] # "not_selected"}) >= 2
        /\ \A p \in Puzzles : pol[p] = "practice_only" => stats[p].attempts > 0
        /\ policy' = [policy EXCEPT ![s] = pol]
    /\ phase' = [phase EXCEPT ![s] = "open"]
    /\ UNCHANGED <<counters, hints, log, statsVars, reviewVars,
                   completeVars, hintVars>>

-----------------------------------------------------------------------------
(* review_puzzle *)

\* The request arrives and looks its key up: a replay is answered from the
\* recorded review before anything is written.
Receive(r) ==
    /\ pc[r] = "idle"
    /\ \E v \in Review :
        /\ v.session # NoSession => phase[v.session] # "absent"
        /\ v.scheduling = (v.session # NoSession =>
                              policy[v.session][v.puzzle] # "practice_only")
        /\ req' = [req EXCEPT ![r] = v]
        /\ IF Prior(v) # {}
           THEN /\ answer' = [answer EXCEPT
                                 ![r] = log[CHOOSE i \in Prior(v) : TRUE].result]
                /\ GoTo(r, "answered")
           ELSE /\ GoTo(r, IF v.session = NoSession THEN "inserting" ELSE "entering")
                /\ UNCHANGED answer
    /\ UNCHANGED <<sessionVars, log, statsVars, seen, statsSeen, aborts,
                   completeVars, hintVars>>

\* Mutant of EnterSession: the session is read without FOR UPDATE.
EnterSessionUnlocked(r) ==
    LET s == req[r].session IN
    /\ pc[r] = "entering"
    /\ IF phase[s] # "open" \/ policy[s][req[r].puzzle] = "not_selected"
       THEN GoTo(r, "refused") /\ UNCHANGED seen
       ELSE GoTo(r, "inserting") /\ seen' = [seen EXCEPT ![r] = counters[s]]
    /\ UNCHANGED <<sessionVars, log, statsVars, req, statsSeen, answer, aborts,
                   completeVars, hintVars>>

\* SELECT ... FOR UPDATE of the session, then the 400 for a completed session
\* and the 409 for a puzzle outside the focus queue.
EnterSession(r) ==
    LET s == req[r].session IN
    /\ pc[r] = "entering"
    /\ SessionFree(s)
    /\ IF phase[s] # "open" \/ policy[s][req[r].puzzle] = "not_selected"
       THEN GoTo(r, "refused") /\ UNCHANGED seen
       ELSE GoTo(r, "inserting") /\ seen' = [seen EXCEPT ![r] = counters[s]]
    /\ UNCHANGED <<sessionVars, log, statsVars, req, statsSeen, answer, aborts,
                   completeVars, hintVars>>

\* Mutant of InsertReview: no unique index on the key.
InsertReviewAnyway(r) ==
    /\ pc[r] = "inserting"
    /\ GoTo(r, "scheduling")
    /\ UNCHANGED <<sessionVars, log, statsVars, req, seen, statsSeen, answer,
                   aborts, completeVars, hintVars>>

\* insert_puzzle_review: the unique index makes the INSERT wait for an
\* uncommitted twin and fail on a committed one.
InsertReview(r) ==
    /\ pc[r] = "inserting"
    /\ \A q \in Reviewers \ {r} :
        InsertedReview(q) => ~SameReview(req[q], req[r])
    /\ GoTo(r, IF Prior(req[r]) = {} THEN "scheduling" ELSE "conflict")
    /\ UNCHANGED <<sessionVars, log, statsVars, req, seen, statsSeen, answer,
                   aborts, completeVars, hintVars>>

\* Mutant of LockStats: the stats row is read without FOR UPDATE.
LockStatsUnlocked(r) ==
    LET p == req[r].puzzle IN
    /\ pc[r] = "scheduling"
    /\ req[r].scheduling
    /\ IF p \in rated
       THEN statsSeen' = [statsSeen EXCEPT ![r] = stats[p]] /\ GoTo(r, "committing")
       ELSE UNCHANGED statsSeen /\ GoTo(r, "creating")
    /\ UNCHANGED <<sessionVars, log, statsVars, req, seen, answer, aborts,
                   completeVars, hintVars>>

\* update_puzzle_stats: SELECT ... FOR UPDATE of the stats row; a row another
\* transaction has inserted and not committed is not seen.
LockStats(r) ==
    LET p == req[r].puzzle IN
    /\ pc[r] = "scheduling"
    /\ req[r].scheduling
    /\ IF p \in rated
       THEN /\ \A q \in Reviewers : ~LocksStats(q, p)
            /\ statsSeen' = [statsSeen EXCEPT ![r] = stats[p]]
            /\ GoTo(r, "committing")
       ELSE UNCHANGED statsSeen /\ GoTo(r, "creating")
    /\ UNCHANGED <<sessionVars, log, statsVars, req, seen, answer, aborts,
                   completeVars, hintVars>>

\* The first review of a puzzle inserts its stats row; of two racers the
\* primary key stops the second.
CreateStats(r) ==
    LET p == req[r].puzzle IN
    /\ pc[r] = "creating"
    /\ \A q \in Reviewers : ~LocksStats(q, p)
    /\ IF p \in rated
       THEN UNCHANGED statsSeen /\ GoTo(r, "conflict")
       ELSE statsSeen' = [statsSeen EXCEPT ![r] = NewStats] /\ GoTo(r, "committing")
    /\ UNCHANGED <<sessionVars, log, statsVars, req, seen, answer, aborts,
                   completeVars, hintVars>>

\* A practice-only review reads the stats for the response and leaves them.
SkipStats(r) ==
    /\ pc[r] = "scheduling"
    /\ ~req[r].scheduling
    /\ GoTo(r, IF req[r].puzzle \in rated THEN "committing" ELSE "refused")
    /\ UNCHANGED <<sessionVars, log, statsVars, req, seen, statsSeen, answer,
                   aborts, completeVars, hintVars>>

\* One commit: the review row, the session counters and the stats row, each
\* written as the values computed from what was read.
CommitReview(r) ==
    LET v == req[r]
        old == statsSeen[r] IN
    /\ pc[r] = "committing"
    /\ log' = Append(log, v)
    /\ counters' = IF v.session = NoSession THEN counters
                   ELSE [counters EXCEPT ![v.session] = Tally(seen[r], v.result)]
    /\ IF v.scheduling
       THEN /\ rated' = rated \union {v.puzzle}
            /\ stats' = [stats EXCEPT ![v.puzzle] =
                    [attempts |-> old.attempts + 1,
                     passes |-> old.passes + (IF v.result = "pass" THEN 1 ELSE 0),
                     last |-> v.result]]
       ELSE UNCHANGED statsVars
    /\ answer' = [answer EXCEPT ![r] = v.result]
    /\ GoTo(r, "answered")
    /\ UNCHANGED <<phase, policy, hints, req, seen, statsSeen,
                   aborts, completeVars, hintVars>>

\* Mutant of ResolveConflict: it answers with this request's own outcome.
ResolveConflictWithOwn(r) ==
    /\ pc[r] = "conflict"
    /\ IF Prior(req[r]) # {}
       THEN answer' = [answer EXCEPT ![r] = req[r].result] /\ GoTo(r, "answered")
       ELSE UNCHANGED answer /\ GoTo(r, "failed")
    /\ UNCHANGED <<sessionVars, log, statsVars, req, seen, statsSeen, aborts,
                   completeVars, hintVars>>

\* Mutant of ResolveConflict: it retries the insert instead of replaying.
ResolveConflictByRetry(r) ==
    /\ pc[r] = "conflict"
    /\ GoTo(r, "inserting")
    /\ UNCHANGED <<sessionVars, log, statsVars, req, seen, statsSeen, answer,
                   aborts, completeVars, hintVars>>

\* except IntegrityError: roll back, answer with the winner's review if it has
\* this key, raise (a 500) otherwise.
ResolveConflict(r) ==
    /\ pc[r] = "conflict"
    /\ IF Prior(req[r]) # {}
       THEN /\ answer' = [answer EXCEPT
                             ![r] = log[CHOOSE i \in Prior(req[r]) : TRUE].result]
            /\ GoTo(r, "answered")
       ELSE UNCHANGED answer /\ GoTo(r, "failed")
    /\ UNCHANGED <<sessionVars, log, statsVars, req, seen, statsSeen, aborts,
                   completeVars, hintVars>>

\* The process or its connection dies: the transaction rolls back.
AbortReview(r) ==
    /\ pc[r] \in InTransaction
    /\ aborts < MaxAborts
    /\ aborts' = aborts + 1
    /\ GoTo(r, "aborted")
    /\ UNCHANGED <<sessionVars, log, statsVars, req, seen, statsSeen, answer,
                   completeVars, hintVars>>

ReviewStep(r) ==
    \/ EnterSession(r) \/ InsertReview(r)
    \/ LockStats(r) \/ CreateStats(r) \/ SkipStats(r)
    \/ CommitReview(r) \/ ResolveConflict(r)

-----------------------------------------------------------------------------
(* complete_session, use_hint and the housekeeping sweep *)

\* complete_session reads the session on the event loop, which it does not
\* give up before its commit; a completed session is answered as it stands.
ReadCompletion(c, s) ==
    /\ cpc[c] = "idle"
    /\ \A d \in Completers : cpc[d] # "writing"
    /\ phase[s] # "absent"
    /\ csession' = [csession EXCEPT ![c] = s]
    /\ cpc' = [cpc EXCEPT ![c] = IF phase[s] = "open" THEN "writing" ELSE "done"]
    /\ UNCHANGED <<sessionVars, log, statsVars, reviewVars, hintVars>>

\* Mutant of WriteCompletion: the write does not meet the reviews' row lock.
WriteCompletionUnlocked(c) ==
    /\ cpc[c] = "writing"
    /\ phase' = [phase EXCEPT ![csession[c]] = "completed"]
    /\ cpc' = [cpc EXCEPT ![c] = "done"]
    /\ UNCHANGED <<policy, counters, hints, log, statsVars, reviewVars, csession,
                   hintVars>>

\* UPDATE ... SET completed_at WHERE id, after whatever review holds the row,
\* and although housekeeping may have set it since.
WriteCompletion(c) ==
    /\ cpc[c] = "writing"
    /\ SessionFree(csession[c])
    /\ phase' = [phase EXCEPT ![csession[c]] = "completed"]
    /\ cpc' = [cpc EXCEPT ![c] = "done"]
    /\ UNCHANGED <<policy, counters, hints, log, statsVars, reviewVars, csession,
                   hintVars>>

\* cleanup_abandoned_sessions: one UPDATE guarded by completed_at IS NULL.
CloseAbandoned(s) ==
    /\ phase[s] = "open"
    /\ SessionFree(s)
    /\ phase' = [phase EXCEPT ![s] = "completed"]
    /\ UNCHANGED <<policy, counters, hints, log, statsVars,
                   reviewVars, completeVars, hintVars>>

\* use_hint and motif-hint read hints_used of an open session ...
ReadHints(h, s) ==
    /\ hpc[h] = "idle"
    /\ phase[s] # "absent"
    /\ hsession' = [hsession EXCEPT ![h] = s]
    /\ hseen' = [hseen EXCEPT ![h] = hints[s]]
    /\ hpc' = [hpc EXCEPT ![h] = IF phase[s] = "open" THEN "writing"
                                 ELSE "uncounted"]
    /\ UNCHANGED <<sessionVars, log, statsVars, reviewVars, completeVars>>

\* ... and write back one more.
WriteHints(h) ==
    /\ hpc[h] = "writing"
    /\ SessionFree(hsession[h])
    /\ hints' = [hints EXCEPT ![hsession[h]] = hseen[h] + 1]
    /\ hpc' = [hpc EXCEPT ![h] = "counted"]
    /\ UNCHANGED <<phase, policy, counters, log, statsVars,
                   reviewVars, completeVars, hsession, hseen>>

-----------------------------------------------------------------------------
(* The specification *)

SessionStep ==
    \/ \E s \in Sessions : StartSession(s) \/ StartFocusPractice(s) \/ CloseAbandoned(s)
    \/ \E c \in Completers : WriteCompletion(c) \/ \E s \in Sessions : ReadCompletion(c, s)
    \/ \E h \in Hinters : WriteHints(h) \/ \E s \in Sessions : ReadHints(h, s)

Next ==
    \/ \E r \in Reviewers : Receive(r) \/ ReviewStep(r) \/ AbortReview(r)
    \/ SessionStep

\* Requests in progress run on; Postgres grants a lock that stays free.
Fairness ==
    /\ \A r \in Reviewers : WF_vars(ReviewStep(r))
    /\ \A c \in Completers : WF_vars(WriteCompletion(c))
    /\ \A h \in Hinters : WF_vars(WriteHints(h))

Spec == Init /\ [][Next]_vars

FairSpec == Spec /\ Fairness

-----------------------------------------------------------------------------
(* Correctness *)

Reviewed(s, result) ==
    {i \in DOMAIN log : log[i].session = s /\ log[i].result = result}

\* pass_count and fail_count of a session are the numbers of reviews recorded
\* in it: no increment is lost to a concurrent review and none is counted
\* whose review row was rejected.
SessionCountsReviews ==
    \A s \in Sessions :
        /\ counters[s].pass = Cardinality(Reviewed(s, "pass"))
        /\ counters[s].fail = Cardinality(Reviewed(s, "fail"))

\* The passes in s since its last fail, as they stood after the first m reviews.
RunAt(s, m) ==
    {i \in Reviewed(s, "pass") :
        i <= m /\ \A j \in Reviewed(s, "fail") : j <= m => j < i}

\* current_streak is the run of passes the session's reviews end with in
\* commit order, best_streak the longest run there ever was.
StreaksFollowReviews ==
    \A s \in Sessions :
        /\ counters[s].streak = Cardinality(RunAt(s, Len(log)))
        /\ \A m \in 0..Len(log) : Cardinality(RunAt(s, m)) <= counters[s].best
        /\ \E m \in 0..Len(log) : Cardinality(RunAt(s, m)) = counters[s].best

Scheduled(p) == {i \in DOMAIN log : log[i].puzzle = p /\ log[i].scheduling}

\* A puzzle's attempts, pass_count and last_result are those of its scheduling
\* reviews across all sessions; practice-only reviews leave no trace there.
StatsFollowReviews ==
    \A p \in Puzzles :
        /\ stats[p].attempts = Cardinality(Scheduled(p))
        /\ stats[p].passes =
              Cardinality({i \in Scheduled(p) : log[i].result = "pass"})
        /\ \A i \in Scheduled(p) :
              (\A j \in Scheduled(p) : j <= i) => stats[p].last = log[i].result

\* A 200 reports a review that is in the ledger under the request's key, with
\* the result recorded there, whether it was recorded by this request or is
\* the replay of a twin.
AnswersReportTheLedger ==
    \A r \in Reviewers :
        pc[r] = "answered" =>
            \E i \in DOMAIN log :
                /\ log[i] = req[r] \/ SameReview(log[i], req[r])
                /\ log[i].result = answer[r]

\* Once completed_at is set the session's counters never move again, so the
\* summary complete_session returned stays true.
SummaryIsFinal ==
    [][\A s \in Sessions :
        phase[s] = "completed" => counters'[s] = counters[s]]_vars

\* Every review request is answered: lock waits, key conflicts and the race
\* for a first stats row never block or loop for good.
EveryReviewIsServed ==
    \A r \in Reviewers : pc[r] \in InTransaction ~> pc[r] \in Served

\* The transactions implement the ledger of ReviewLedger.
Ledger == INSTANCE ReviewLedger WITH
    closed <- {s \in Sessions : phase[s] = "completed"}

\* Reviews are appended one by one, one key counts once, and a completed
\* session receives none (the promise in review_puzzle's docstring).
KeepsTheLedger == Ledger!Spec

=============================================================================
