-------------------------- MODULE PuzzleGeneration --------------------------
(* A puzzle generation run (generate_puzzles in puzzles/generator.py): one batch
   over a user's recent games with one engine, which a timeout kills and the
   batch replaces. Another session may cancel the run at any time.

   A game is the sequence of its plies, TRUE where the user moves within the
   range that is analysed; a game without a readable PGN has no plies. Positions
   are drawn when they are reached: their evaluations in pawns from the side to
   move, their best move and their candidate moves, best first. *)
EXTENDS Integers, Sequences, FiniteSets, FiniteSetsExt

CONSTANTS
    Games,           \* the recent games, newest first
    Interval,        \* HEARTBEAT_PLY_INTERVAL
    MaxPuzzles,
    SwingThreshold, Tolerance, Margin,
    Evals, Moves,    \* the evaluations and moves that occur
    TopMoves,        \* the multi-PV lists that occur
    MaxRunFaults,    \* bound: failing and timed out evaluations and saves
    NoMove

ASSUME GamesAssumption == Games \in Seq(Seq(BOOLEAN))
ASSUME LimitsAssumption ==
    Interval \in Nat \ {0} /\ MaxPuzzles \in Nat \ {0} /\ MaxRunFaults \in Nat
ASSUME TopMovesAssumption ==
    \A t \in TopMoves : t \in Seq([uci : Moves, eval : Evals])

VARIABLES
    stage, game, ply,
    engine,      \* "none", "live", "crashed", or "killed" after a timeout
    scan,        \* the position at hand: the evaluation before the move, the
                 \* best move and the shallow acceptance set
    count,       \* the counters of GenerationResult
    runStatus,   \* its status
    canceled,    \* what cancellation_check will answer
    sinceCheck,  \* plies analysed since it was last asked
    judged,      \* positions that were evaluated before and after the move
    lost,        \* puzzles whose save failed
    aborted,     \* candidates whose confirmation left the run without an engine
    runFaults

runVars == <<stage, game, ply, engine, scan, count, runStatus, canceled,
             sinceCheck, judged, lost, aborted, runFaults>>

Counters == {"generated", "skipped", "analyzed", "failed", "timedOut",
             "found", "confirmed", "unstable", "lowMargin"}

NoScan == [before |-> 0, best |-> NoMove, accept |-> {}]

RunInit ==
    /\ stage = "start" /\ game = 0 /\ ply = 0
    /\ engine = "none"
    /\ scan = NoScan
    /\ count = [c \in Counters |-> 0]
    /\ runStatus = "running"
    /\ canceled = FALSE /\ sinceCheck = 0
    /\ judged = 0 /\ lost = 0 /\ aborted = 0 /\ runFaults = 0

Bump(c) == count' = [count EXCEPT ![c] = @ + 1]

Bump2(c, d) == count' = [count EXCEPT ![c] = @ + 1, ![d] = @ + 1]

-----------------------------------------------------------------------------
(* What the evaluations say. *)

\* The moves within the tolerance of the best one, and the best move itself:
\* _build_accept_set, and the set of _assess_uniqueness.
AcceptSet(top, best) ==
    ({best} \ {NoMove})
      \cup {top[i].uci : i \in {i \in DOMAIN top :
                                  top[1].eval - top[i].eval <= Tolerance}}

\* _assess_uniqueness: the first move outside the set must be clearly worse. A
\* position that cannot be assessed counts as unique.
IsUnique(top) ==
    LET outside == {i \in DOMAIN top : top[1].eval - top[i].eval > Tolerance}
    IN  outside = {} \/ top[1].eval - top[Min(outside)].eval >= Margin

\* The swing in the player's terms: the position after the move is the
\* opponent's to judge.
Swing(before, after) == before + after

\* _confirm_candidate, from the deep evaluations.
Confirmation(before, after, best, top) ==
    IF \/ Swing(before, after) < SwingThreshold
       \/ best # NoMove /\ best \notin scan.accept
      THEN "unstable"
      ELSE IF IsUnique(top) THEN "accepted" ELSE "lowMargin"

\* get_or_compute_eval fails: a timeout kills the engine and is told apart; an
\* error may mean that the engine crashed. A dead engine fails at once, unless
\* the cache answers.
Fault == runFaults < MaxRunFaults /\ runFaults' = runFaults + 1

TimesOut == engine = "live" /\ Fault

Errs ==
    \/ engine = "live" /\ Fault /\ engine' \in {"live", "crashed"}
    \/ engine \in {"crashed", "killed"} /\ UNCHANGED <<engine, runFaults>>

\* _recreate_batch_engine
Recreate == engine' \in {"live", "none"}

-----------------------------------------------------------------------------
(* The run. *)

Begin ==
    /\ stage = "start"
    /\ \/ /\ engine' = "live" /\ stage' = "game" /\ UNCHANGED runStatus
       \/ /\ runStatus' = "engine_unavailable" /\ stage' = "done"
          /\ UNCHANGED engine
    /\ UNCHANGED <<game, ply, scan, count, canceled, sinceCheck, judged,
                   lost, aborted, runFaults>>

\* Between two games: without an engine, canceled, or with enough puzzles the
\* run ends. Only the second asks.
StartGame ==
    /\ stage = "game"
    /\ LET stops == \/ game = Len(Games) \/ engine = "none" \/ canceled
                    \/ count["generated"] >= MaxPuzzles
       IN  /\ stage' = IF stops THEN "finish" ELSE "ply"
           /\ game' = IF stops THEN game ELSE game + 1
           /\ sinceCheck' = IF game = Len(Games) \/ engine = "none"
                              THEN sinceCheck ELSE 0
    /\ ply' = 0
    /\ UNCHANGED <<engine, scan, count, runStatus, canceled, judged, lost, aborted,
                   runFaults>>

\* One ply of the game. Every Interval plies the job is asked whether it was
\* canceled; the answer ends the game, and the next game the run.
NextPlyUnasked ==
    /\ stage = "ply"
    /\ IF ply = Len(Games[game])
         THEN stage' = "game" /\ UNCHANGED <<ply, count, sinceCheck>>
         ELSE /\ ply' = ply + 1
              /\ sinceCheck' = sinceCheck + 1
              /\ IF Games[game][ply']
                   THEN stage' = "before" /\ Bump("analyzed")
                   ELSE UNCHANGED <<stage, count>>
    /\ UNCHANGED <<game, engine, scan, runStatus, canceled, judged, lost, aborted,
                   runFaults>>

NextPly ==
    /\ stage = "ply"
    /\ IF ply = Len(Games[game])
         THEN stage' = "game" /\ UNCHANGED <<ply, count, sinceCheck>>
         ELSE LET asks == (ply + 1) % Interval = 0
              IN  /\ ply' = ply + 1
                  /\ sinceCheck' = IF asks THEN 0 ELSE sinceCheck + 1
                  /\ IF asks /\ canceled
                       THEN stage' = "game" /\ UNCHANGED count
                       ELSE IF Games[game][ply']
                              THEN stage' = "before" /\ Bump("analyzed")
                              ELSE UNCHANGED <<stage, count>>
    /\ UNCHANGED <<game, engine, scan, runStatus, canceled, judged, lost, aborted,
                   runFaults>>

\* After a timeout: a new engine and the next ply, or the end of the run.
OnTimeout == Recreate /\ stage' = IF engine' = "none" THEN "game" ELSE "ply"

ScanBefore ==
    /\ stage = "before"
    /\ \/ /\ \E e \in Evals, m \in Moves :
                scan' = [before |-> e, best |-> m, accept |-> {}]
          /\ stage' = "after"
          /\ UNCHANGED <<engine, count, judged, runFaults>>
       \/ /\ stage' = "ply" /\ judged' = judged + 1   \* terminal, with moves left
          /\ UNCHANGED <<engine, scan, count, runFaults>>
       \/ TimesOut /\ OnTimeout /\ Bump("timedOut") /\ UNCHANGED <<scan, judged>>
       \/ Errs /\ stage' = "ply" /\ Bump("failed") /\ UNCHANGED <<scan, judged>>
    /\ UNCHANGED <<game, ply, runStatus, canceled, sinceCheck, lost, aborted>>

\* The position after the move, which needs no engine when the game is over. A
\* candidate gets its shallow acceptance set.
ScanAfter ==
    /\ stage = "after"
    /\ \/ \E e \in Evals :
             /\ judged' = judged + 1
             /\ IF Swing(scan.before, e) < SwingThreshold
                  THEN stage' = "ply" /\ scan' = NoScan /\ UNCHANGED count
                  ELSE /\ stage' = "confirm" /\ Bump("found")
                       /\ \E top \in TopMoves :
                            scan' = [scan EXCEPT !.accept =
                                       AcceptSet(top, scan.best)]
             /\ UNCHANGED <<engine, runFaults>>
       \/ TimesOut /\ OnTimeout /\ Bump("timedOut") /\ scan' = NoScan
          /\ UNCHANGED judged
       \/ Errs /\ stage' = "ply" /\ Bump("failed") /\ scan' = NoScan
          /\ UNCHANGED judged
    /\ UNCHANGED <<game, ply, runStatus, canceled, sinceCheck, lost, aborted>>

\* The deeper pass. A candidate that cannot be confirmed is discarded.
ConfirmUncounted ==
    /\ stage = "confirm"
    /\ \/ \E e, f \in Evals, m \in Moves, top \in TopMoves :
             /\ LET verdict == Confirmation(e, f, m, top)
                IN  IF verdict = "accepted"
                      THEN stage' = "walk" /\ Bump("confirmed")
                      ELSE stage' = "ply" /\ Bump(verdict)
             /\ UNCHANGED <<engine, runFaults, aborted>>
       \/ /\ TimesOut /\ OnTimeout /\ Bump("timedOut")
          /\ aborted' = IF engine' = "none" THEN aborted + 1 ELSE aborted
       \/ Errs /\ stage' = "ply" /\ Bump("unstable") /\ UNCHANGED aborted
    /\ scan' = NoScan
    /\ UNCHANGED <<game, ply, runStatus, canceled, sinceCheck, judged, lost>>

Confirm ==
    /\ stage = "confirm"
    /\ \/ \E e, f \in Evals, m \in Moves, top \in TopMoves :
             /\ LET verdict == Confirmation(e, f, m, top)
                IN  IF verdict = "accepted"
                      THEN stage' = "walk" /\ Bump("confirmed")
                      ELSE stage' = "ply" /\ Bump(verdict)
             /\ UNCHANGED <<engine, runFaults, aborted>>
       \/ /\ TimesOut /\ OnTimeout
          /\ IF engine' = "none"
               THEN Bump("timedOut") /\ aborted' = aborted + 1
               ELSE Bump2("timedOut", "unstable") /\ UNCHANGED aborted
       \/ Errs /\ stage' = "ply" /\ Bump("unstable") /\ UNCHANGED aborted
    /\ scan' = NoScan
    /\ UNCHANGED <<game, ply, runStatus, canceled, sinceCheck, judged, lost>>

\* _compute_solution_pv: whatever goes wrong ends the line, a timeout, which
\* kills the engine, as well.
WalkLine ==
    /\ stage = "walk"
    /\ \/ UNCHANGED <<engine, runFaults>>
       \/ TimesOut /\ engine' = "killed"
    /\ stage' = "save"
    /\ UNCHANGED <<game, ply, scan, count, runStatus, canceled, sinceCheck, judged,
                   lost, aborted>>

Save ==
    /\ stage = "save"
    /\ \/ /\ Bump("generated")
          /\ stage' = IF count'["generated"] >= MaxPuzzles THEN "game" ELSE "ply"
          /\ UNCHANGED <<lost, runFaults>>
       \/ Bump("skipped") /\ stage' = "ply" /\ UNCHANGED <<lost, runFaults>>
       \/ Fault /\ lost' = lost + 1 /\ stage' = "ply" /\ UNCHANGED count
    /\ UNCHANGED <<game, ply, engine, scan, runStatus, canceled, sinceCheck, judged,
                   aborted>>

\* What the counters say of the run, and close_engine.
StatusOf(failures) ==
    IF count["analyzed"] > 0 /\ failures >= count["analyzed"] THEN "all_failed"
    ELSE IF failures > 0 THEN "partial"
    ELSE IF count["generated"] > 0 THEN "success" ELSE "no_mistakes"

FinishWithoutTimeouts ==
    /\ stage = "finish"
    /\ runStatus' = StatusOf(count["failed"])
    /\ engine' = "none" /\ stage' = "done"
    /\ UNCHANGED <<game, ply, scan, count, canceled, sinceCheck, judged,
                   lost, aborted, runFaults>>

FinishRun ==
    /\ stage = "finish"
    /\ runStatus' = StatusOf(count["failed"] + count["timedOut"])
    /\ engine' = "none" /\ stage' = "done"
    /\ UNCHANGED <<game, ply, scan, count, canceled, sinceCheck, judged,
                   lost, aborted, runFaults>>

CancelRun ==
    /\ ~canceled /\ stage # "done"
    /\ canceled' = TRUE
    /\ UNCHANGED <<stage, game, ply, engine, scan, count, runStatus, sinceCheck, judged,
                   lost, aborted, runFaults>>

RunNext ==
    \/ Begin \/ StartGame \/ NextPly \/ ScanBefore \/ ScanAfter \/ Confirm
    \/ WalkLine \/ Save \/ FinishRun \/ CancelRun

RunSpec == RunInit /\ [][RunNext]_runVars

-----------------------------------------------------------------------------
(* Properties. *)

\* Every variable has its type.
RunTypeOK ==
    /\ stage \in {"start", "game", "ply", "before", "after", "confirm", "walk",
               "save", "finish", "done"}
    /\ game \in 0..Len(Games) /\ ply \in Nat
    /\ engine \in {"none", "live", "crashed", "killed"}
    /\ scan \in [before : Evals \cup {0}, best : Moves \cup {NoMove},
                 accept : SUBSET Moves]
    /\ count \in [Counters -> Nat]
    /\ runStatus \in {"running", "success", "no_mistakes", "partial",
                   "all_failed", "engine_unavailable"}
    /\ canceled \in BOOLEAN
    /\ {sinceCheck, judged, lost, aborted} \subseteq Nat
    /\ runFaults \in 0..MaxRunFaults

\* "A degraded run is never silently reported as a clean NO_MISTAKES": a run
\* that calls itself clean evaluated every position it counted, however its
\* engines fared; one that says everything failed has no puzzle to show.
StatusTellsTheTruth ==
    /\ runStatus \in {"success", "no_mistakes"} => judged = count["analyzed"]
    /\ runStatus = "all_failed" => count["confirmed"] = 0

\* Every candidate ends in exactly one counter, save those that a run gives up
\* for want of an engine (generator.py:806-810) or loses to a failure: they are
\* found and in no counter of the result, and `aborted` holds them here.  Every
\* confirmed one is new, a duplicate, or a failed save; validity_rate is computed
\* from these counters.
CandidatesAreAccounted ==
    /\ count["found"] = count["confirmed"] + count["unstable"]
                          + count["lowMargin"] + aborted
                          + (IF stage = "confirm" THEN 1 ELSE 0)
    /\ count["confirmed"] = count["generated"] + count["skipped"] + lost
                              + (IF stage \in {"walk", "save"} THEN 1 ELSE 0)

\* However long a game and whatever fails in it, no more than Interval plies
\* pass between two heartbeats: the lease outlives the gap, and a cancel is
\* noticed.
HeartbeatsBoundTheGap == sinceCheck < Interval

=============================================================================
