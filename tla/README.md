# TLA+ models of KnightMind

KnightMind imports a player's Chess.com games, generates puzzles from their
mistakes, diagnoses those mistakes and trains the player on them. This
directory holds models of the parts in which processes, threads, requests,
retries and crashes meet, and of the rules that several surfaces must apply
alike; the TLC runs that check them; and proofs of what matters most.
`services/...` below means `src/services/...`, a bare file name a file of
`src/services/api/`.

## The system

Two kinds of processes share one Postgres database, at READ COMMITTED.

- **The API** (`services/api/main.py` and the `*_routes.py`). Plain `def`
  handlers run on a thread pool and overlap; `async def` handlers run on the
  event loop and are interrupted only where they `await`.
- **The worker** (`services/api/worker_main.py`, `worker.py`): an asyncio
  process with a job loop, an hourly housekeeping task, an hourly diagnosis
  sweep and a heartbeat task. Compose runs one; nothing in the code stops an
  operator from running several.

They never call each other; they communicate through tables.

| Component | State it keeps | Operations | What is hard | What makes it correct | Modules |
|---|---|---|---|---|---|
| Job queue (`worker.py`, `jobs_routes.py`) | `jobs`: status, lease; in the process: `_current_job_id`, `is_running` | queue, cancel, claim, heartbeat, succeed, fail, recover, start, stop | two workers, a cancel racing a completion, crash recovery racing everything, leases outrun by live handlers | one active job per user and type; no job run twice without a recovery; outcomes written from `running` only; every job settles | JobQueue, JobQueueProofs |
| Diagnosis chain (`worker.py`, `diagnosis/job.py`) | `jobs.params.auto_chain`, `updated_at`, `puzzle_diagnoses` | follow-up, remaining-work check, sweep, backoff | each caller may be refused by the active-job index and relies on the others | pending work gets done; what failed or was canceled is left alone for a day | DiagnosisChain, PipelineProofs |
| Sessions and reviews (`sessions.py`, `puzzles_routes.py`, `storage/spaced_repetition.py`) | `training_sessions`, `puzzle_reviews`, `puzzle_stats` | start, review, hint, complete, sweep abandoned | double clicks, retries, row locks, unique-index waits, completion racing reviews | a review counts exactly once, in the ledger, the session and the schedule alike; a completed session is final | TrainingReview, TrainingReviewProofs, ReviewLedger |
| Scheduling and the queue (`storage/spaced_repetition.py`, `puzzles/resolution.py`) | `interval_days`, `ease_factor`, `next_due_at` | schedule, select, sort, bias, vary, withhold | rounding, a due date passing between two requests, five passes that each reorder | tiers hold, a session is as long as it can be, a name is shown exactly while it is earned | PracticeQueue, Practice, PracticeProofs |
| Surfaces (`puzzles_routes.py`, `main.py`, `sessions.py`, `dashboard.py`) | `training_sessions.snapshot`, `used_on` | queue, daily set, list, detail, diagnosis, similar, check, review, focus, dashboard | the same fact computed in several places, in Python and in SQL | counts, names and causes agree wherever they are shown | Practice, Insights, PracticeProofs |
| Game import (`main.py`, `storage/game_repository.py`, `ingest/chesscom.py`) | `games`, `import_summaries` (a lease) | begin, store a batch, finish, fail | interrupted, displaced and overlapping imports; incremental cutoff | no gap behind the newest stored game; a success is complete | GameImport, PipelineProofs |
| Manual puzzles and titles (`puzzles_routes.py`, `storage/puzzle_repository.py`, `puzzles/title_registry.py`) | `puzzles`, `puzzle_stats.title` | save, allocate ply, pick a free title | concurrent saves, three unique indexes, bounded retries | no save is answered with another position's puzzle; only a lost race refuses a save | PuzzleSaving, PuzzleSavingProofs, PuzzleBook |
| Engine evaluation (`engine/stockfish.py`, `engine_routes.py`) | `fen_eval_cache`, semaphore, thread pool, in-flight counter, version memo | evaluate, time out, cache, abandon | threads that cannot be cancelled, upgrades | no slot leaks; no answer crosses a known version; every call returns | EngineEval, EngineEvalProofs |
| Puzzle generation (`puzzles/generator.py`) | one engine, the run's counters | scan, confirm, walk the line, save, heartbeat | any evaluation may fail or kill the engine | the status and counters tell what happened; the lease is kept | PuzzleGeneration, PipelineProofs |
| AI budget, enrichment and naming (`diagnosis/job.py`, `puzzles/naming_pass.py`, `storage/ai_audit_repository.py`) | `diagnosis_audit_log`, a local count | spend, re-read, back off, re-queue | two runs of one user where a lease lapses or a cancel makes room, several users' runs against one global cap, rollbacks, outages | bounded overshoot; no stored answer without its bill; no endless chain | Enrichment, EnrichmentProofs |
| Diagnosis (`diagnosis/evidence.py`, `causes.py`, `pgn_context.py`, `ai/client.py`, `puzzles/identity.py`) | `puzzle_diagnoses` | extract, classify, gate the model's answer, store, confirm | rules, evidence ids, motif and model answer written apart | every citation was measured, every stored cause supported | GameContext, BoardEvidence, MistakeCauses, MistakeDiagnosis, MistakeDiagnosisProofs |
| Patterns and planning (`diagnosis/clusters.py`, `patterns.py`, `planner.py`, `storage/diagnosis_repository.py`) | none of their own | count, rank, name, recommend | thresholds, corrections by the user | see Surfaces | Insights |
| Rate limiter (`ratelimit.py`) | `rate_limit_hits` | check, purge | advisory lock, transaction timestamps, fail-open | at most `limit` hits in any window | not modelled |
| Ratings (`ratings.py`, `ratings_auto.py`) | `rating_snapshots` | compare and insert | two triggers at once | no two consecutive equal snapshots | not modelled |
| Worker health (`ops.py`, `worker.py`) | `worker_heartbeats` | beat, withdraw, judge | a process that lives and does nothing | a dead or stuck worker is reported, a busy one is not | not modelled |
| Browser (`src/apps/web/src/hooks/`) | timers, backoff, review key | poll, detect a stall, submit | a late answer after a timer fired | one outcome is reported once | not modelled |
| Identity (`identity.py`), openings (`openings/`) | `account_chess_usernames`, `explorer_cache` | claim; read through | two first importers | one owner per handle | not modelled |

`PROJECT.json` lists every component with its sources, and under `hazards`
the places in the code that are hard to test, with the properties that watch
them.

## Modules

Composition is by EXTENDS where a component is pure (`PracticeQueue` <-
`Insights` <- `Practice`; `GameContext` <- `BoardEvidence` <- `MistakeCauses` <-
`MistakeDiagnosis`) and by an abstract specification where it is a protocol
(`TrainingReview` implements `ReviewLedger`, `PuzzleSaving` implements `PuzzleBook`).
A module `MCx` gives `x` its constants, a module `xProofs` holds the theorems
about `x`; `PipelineProofs` holds those about GameImport, PuzzleGeneration and
DiagnosisChain, the three kinds of job. It extends all three, which share nothing,
so the definitions of the latter two carry a prefix where their names would
collide (`RunInit`, `RunTypeOK`, ..., `ChainInit`, `ChainTypeOK`, ...). Operators named "Mutant of ..." in a
comment are deliberate errors that the properties are tested against; no
specification uses them.

### JobQueue

The `jobs` table and everybody who writes a job's status. `pc[w]` is where a
worker process's job loop is: `starting`, `recovering`, `idle`, `claimed` (the
claim has committed and `_current_job_id` is not set yet), `running` (the
handler's thread), `returned` / `raised` (before the outcome is written) and
`chaining` (success is recorded, the follow-up is not). A guarded
`UPDATE ... WHERE status = ...` is one action (`Claim`, `RecordSuccess`,
`RecordFailure`). `cancel_job` and `cleanup_stuck_jobs` read rows through the ORM
and write by primary key, so each is a read action and a write action with
anything in between (`CancelRead`/`CancelWrite`, `StartupScan`/`StartupReset`,
`HousekeepingScan`/`HousekeepingReset`). The partial unique index is
`SlotTaken` on insert and `ResetCollides` on a reset, which then rolls its
whole batch back, as the code's single commit does. The 15 minute lease is
`fresh` or `stale`.

### DiagnosisChain

The same jobs seen from the work they are for: `pending[u]` are a user's
puzzles without a current diagnosis. `Succeed`, `ChainAfter` and
`EnqueueRemaining` are the steps after a handler returns, separate because a
crash or another job may come between them; `SweepRead` and `SweepEnqueue` are
the hourly sweep. Job execution is coarser than in JobQueue (no lease; a dead
worker's row can be reclaimed at once). `Touch` is the `onupdate` of
`jobs.updated_at`, which the sweep's backoff reads. Job rows are slots that are
reused once nobody can read them, so that behaviours need not be finite.

### TrainingReview, ReviewLedger

`review_puzzle` as the transaction it is: `Receive` (replay lookup),
`EnterSession` (`SELECT ... FOR UPDATE` and the 400/409), `InsertReview` (flush,
with the wait for an uncommitted twin), `LockStats` or `CreateStats` or
`SkipStats`, `CommitReview`, and `ResolveConflict` for the `IntegrityError` path.
Row locks are not variables: what a request holds follows from its `pc`
(`LocksSession`, `InsertedReview`, `LocksStats`). Counters and stats are written
as values computed from what was read (`seen`, `statsSeen`), so a missing lock
would show as a lost increment. `complete_session` is a coroutine without an
`await` between read and commit: two of them do not overlap, but threads and the
housekeeping process run between `ReadCompletion` and `WriteCompletion`.

`ReviewLedger` is what the endpoint's docstring promises: an append-only log in
which one key counts once and a closed session receives nothing.
`KeepsTheLedger` is its specification under the mapping
`closed <- {completed sessions}`, checked as a property of TrainingReview.

### GameImport

One user's imports. `import_summaries` is the lease: `Owns` is the `WHERE` of
the guarded updates, `BeginRead` and `BeginWrite` are the two halves of
`begin_import`, which has no such guard. `PersistBatch` is one action because
the heartbeat's row lock is held until the batch's commit. Chess.com is
external: `posted` is what it has published, append-only, month by month.
Left out: malformed games (skipped and counted), the response's own counters,
the claim of the handle and the rating snapshot that follow a success.

### PuzzleSaving, PuzzleBook

One user's library of puzzles and the four writers of its titles. A request's
`pc` follows `create_manual_puzzle` into `save_puzzle`: `LookUpPosition`,
`AllocatePly`, `LookUpPly`, `PickTitle`, `Insert`; an `IntegrityError` is
`InsertFails`, then `Recover` (inside `save_puzzle`) and, when that raises,
`AbsorbConflict` (in the route). Each query is an action, because READ COMMITTED
lets a rival commit between any two of them; an insert and its commit are one,
because that is where the unique indexes decide (`Violation`). Generation runs
the same `save_puzzle` with a real ply and drops the puzzle where the route
would retry. `PickReviewTitle` / `InsertReviewStats` are the stats row a first
review creates, unless it finds one; `ReadRows` / `ReadTitles` / `CommitNames` are
a naming pass, which writes all its titles in one commit: the unique index
applies to them among one another too. Which titles a pass may give, one after
the other and each free of those before it, is the relation `GivesInOrder`. A
title is a name with the suffix `disambiguate` gave it; that long names are
trimmed is left out. A request's rivals are the other requests that have
committed. A save whose answer is lost and that is sent again is a second request
for the same position.

`PuzzleBook` is the endpoint's contract, "same position => same puzzle", without
plies, titles and retries. `KeepsTheBook` is its specification under the mapping
`book <- {(position, id) of the manual rows}`.

### EngineEval

`get_or_compute_eval` and `POST /engine/eval`. A caller's `pc` walks through
version lookup (`ResolveVersion`, `Probe`), the cache (`LookUp`), the permit
(`Acquire`), the engine (`CreateEngine`), the thread pool (`Submit`,
`StartQueued`), the evaluation with its timeout (`Evaluate`, `EvalTimeout`) and
back (`Release`, `Store`, `Answer`). A timeout kills the engine's process and
leaves its thread in the pool until it notices (`lingering`, `Unwind`). `Abandon`
is a client that disconnects, whose work goes on. A cached row is the version
of the engine that computed it, so that an answer can be compared with the
engine its process runs; `Deploy` restarts a process with another version. A
batch is a caller that owns one engine and is not counted in flight.

### PuzzleGeneration

One run of `generate_puzzles`: `NextPly` with its heartbeat, `ScanBefore`,
`ScanAfter`, `Confirm`, `WalkLine`, `Save`, `FinishRun`,
`CancelRun`. Each evaluation answers,
errs, or times out and kills the shared engine, which `Recreate` replaces or
fails to. Evaluations are small numbers drawn when a position is reached, and
the swing, the uniqueness margin and the acceptance set are computed from them
as in the code. `judged`, `lost` and `aborted` are histories that the counters are
compared with.

### Enrichment

What the diagnosis jobs spend: per-user and global caps counted from the
committed audit rows (`billed`), a `budget` each run tracks locally between
commits, and what it has written but not committed (`uncommitted`), which a commit
keeps and a rollback or a crash loses, although the calls were made (`paid`,
`losses`). A run walks from `Claim` through the diagnoses (`Select`, `ReadBudget`,
`DiagnoseOne`, `CommitChunk`, `FinishDiagnosing`, `SeeCancel`) and the names
(`BeginNaming`, `NameExhausted`, `NameSkipped`, `NameCalled`, `CommitNames`,
`LoseNames`) to the outcome (`RecordSuccess`, `EnqueueRemaining`), with the breaker
(`RetryIsBackedOff`) that a streak of failures opens for a while (`CooldownEnds`).

`job[u]` is the user's active row and `run[w]` what a worker executes; they part in
two ways. A diagnosis renews the lease of its job at every puzzle, naming never
does, and 25 calls of up to three minutes outlast a lease of fifteen: another
worker's recovery puts the row back (`Outrun`) and a second run of the user starts
beside the first. And a cancel ends the row at once (`Cancel`), so that another job
may be queued and claimed while the first run goes on to its next heartbeat, or,
if it is naming, to its end. `run[w].row` is what became of the row a run has
claimed, which its guarded outcome write finds out (`Settle`). Two runs of a user
see the same committed rows; if both insert a diagnosis of one puzzle
(`Conflicts`), the later one fails its job (`FailDiagnosing`).

### GameContext, BoardEvidence, MistakeCauses, MistakeDiagnosis

The diagnosis of one puzzle as the pipeline it is. `GameContext` replays a game
for what preceded a mistake. `BoardEvidence` computes the facts on a board of
`Files` by `Ranks` with real piece movement, attacks, checks and mates;
`EvidenceItems` lists what may be cited, and `Motif` is the classification that
names the puzzle, which reads the same position on its own. `MistakeCauses` has
the twelve rules, their ranking, and the gate a model's answer must pass.
`MistakeDiagnosis` stores the outcome and adds what happens to the row later:
reviews that change its history facts, a new version, the user's correction.
Castling, en passant, the pawn's double step and underpromotion are left out; evaluations and strengths
are hundredths. The evidence hash is the packet itself.

### PracticeQueue, Insights, Practice

`PracticeQueue` has the operators over stats rows: scheduling with Python's
rounding, the trainable set, the sort key, focus bias, warm-up and variety, the
resolution gate, and the two verdicts on a line (`CheckMove`, `VerifyLine`).
`Insights` has those over diagnosis rows: counts and names of causes, patterns,
today's focus, similar puzzles, openings. `Practice` puts a user in front of
them: time passes, sessions are opened and completed, lines are played and
reviewed, puzzles are diagnosed and corrected, and each surface is an operator
over the state (`DuePuzzles`, `DailyPuzzles`, `ListPage`, `Detail`, `DiagnosisOf`,
`MotifHint`, `SimilarPuzzles`, `SessionItems`, `Tricky`, `Dashboard`). The histories `answered` and
`told` say what the user has earned to see and what `/check` has called.
Reviews are sequential here; TrainingReview has their races.

## Runs

| Run | Question | Instance |
|---|---|---|
| `JobQueue_safety` | slots, claims, orphans, late outcomes | 2 workers, 1 user, 1 cancel request, 2 jobs, 1 disruption, 1 orderly stop, 1 outrun lease |
| `JobQueue_liveness` | does every job settle | 2 workers, 2 jobs, 1 disruption, 1 outrun lease |
| `DiagnosisChain_sweep` | does the sweep finish pending work in spite of a fault, and leave stopped work alone | 1 worker, 2 puzzles, batches of 1, 1 generation, 1 fault, manual run, version bump, stall report |
| `TrainingReview_race` | counters, streaks, schedule, replays, ledger, finality | 3 reviews, 2 puzzles, 1 session, 1 key, 1 completion, 1 abort |
| `TrainingReview_served` | do locks and waits always end | 3 reviews, 1 hint, 1 puzzle, housekeeping |
| `GameImport_sync` | gaps, completeness, summary | 3 imports, 3 months of up to 2 games, batches of 2, 1 fault |
| `PuzzleSaving_race` | does every save get the right answer, and who may fail | 3 manual saves over 3 positions, 1 generation save, 1 first review, 1 naming pass, one name, 2 rounds of each loop |
| `EngineEval_calls` | slots, versions, return of every call | 2 requests and 1 batch in one process, 1 permit, 2 threads, 1 request in flight, 2 versions, 2 positions of which one is terminal, 3 calls, 1 fault besides any timeouts, 1 upgrade |
| `PuzzleGeneration_batch` | status, counters, lease | 3 games (one longer than the heartbeat interval, one without a PGN), 2 faults anywhere |
| `Enrichment_spend` | caps, accounting, end of the chain | 2 workers, 2 users with 2 puzzles and 1, one without a position to name, one titled by hand; caps of 1 and 2; chunks of 2 diagnoses and 1 name; 2 triggers, 1 mishap (cancel, lapsed lease, conflict, crash or cooldown) |
| `MistakeDiagnosis_board` | citations, stored cause, context, motif | all positions of 2 kings, queen or pawn, rook or pawn, and knight on chosen squares of a 3 by 4 board with every solution; games of 4 moves; 5 answers of the model and none |
| `Practice_surfaces` | the gate, the queue, agreement of surfaces, verdicts | 3 puzzles, days of 2 ticks, 3 requests, 5 queue requests, 7 list requests |

**Bounds.** Every race above is between two actors over one row, with a third
actor (recovery, housekeeping, a second completion) interfering; the instances
have that many and one more step of history: two jobs of one slot, three
reviews so that a streak can break and be repeated, three months so that an
interruption can leave a month behind the newest one. In PuzzleSaving both loops
have two rounds instead of eight and five: every exit of a round, its repetition
and its exhaustion are reached, and a third round starts in the state a second
one does, with its counter one higher. One user suffices in
JobQueue and DiagnosisChain because no condition relates rows of different
users except the age order of claims, and two job types already exercise that;
Enrichment has two because the global cap relates them, and two workers
because one alone never has two runs at a time. With one worker in
DiagnosisChain a follow-up still collides with a queued job, and with a job that
died running; a second worker did not fit into a run. One permit and one
request in flight make every refusal of EngineEval reachable with two
requests; its processes share nothing but the cache, whose rows carry their
version. Practice's three puzzles are two of one game (variety), two of one
cause (patterns, from when the first is diagnosed), one without a stats row (a
legacy import); its queue requests between them use every parameter.
`MaxJobs`, `MaxDisruptions`, `MaxStops`, `MaxOutruns`, `Budget`, `MaxAborts`, `MaxFaults`, `MaxRunFaults`,
`MaxCalls`, `MaxDeploys`, `MaxReviews`, `MaxRequests`, `MaxMoves`, `MaxTime`,
`Months` and `GamesPerMonth` bound behaviours that are unbounded in the code; they are
guards of the actions that consume them.

**Type invariants** stand among the checked properties of JobQueue and
TrainingReview; those of DiagnosisChain, GameImport, PuzzleSaving, EngineEval,
PuzzleGeneration and Enrichment are stated in their modules. All are proved
(`TypeCorrect`, `RunTypeCorrect`, `ChainTypeCorrect`; `TypeOK` is part of
GameImport's inductive invariant, and the types of Practice's variables of its own).

**Symmetry** is used for requests, workers and the positions of PuzzleSaving in
runs without liveness; no definition distinguishes them.

**`CHECK_DEADLOCK FALSE`** stands where a behaviour may end: the jobs, requests,
games, calls or imports an instance allows are finite and each is served once.
`DiagnosisChain_sweep`, `MistakeDiagnosis_board` and `Practice_surfaces` check
deadlock.

**Fairness.** JobQueue: weak fairness of each step of the loop, of process start
(`restart: unless-stopped`), of the housekeeping scan (an unconditional hourly
task) and of a lease nobody renews (time passes). None for clients, heartbeats,
stops and crashes. DiagnosisChain: the loop's steps and recovery, time and the
sweep task. TrainingReview: a request in progress runs on and
Postgres grants a lock that stays free; nothing forces a request to arrive.
EngineEval: a call in progress goes on, because each wait for the engine has a
timeout (the permit's, the evaluation's); starting and closing an engine and
asking it for its version have none of their own and are taken to return; an engine need not ever answer and a killed
thread need not ever end. Enrichment: a worker goes on with the job it claimed,
and a call to the model returns within its timeout; nobody has to trigger a
job, and the breaker need not ever close. What raises inside naming is swallowed
(`job.py:259`) and ends the pass like `LoseNames`. The run has a key and puzzles
the rules can rank; the same instance without a key, and with thin and
unanalysable puzzles, has been checked too, outside the listed runs.

## Where the code and its comments disagree

Found while modelling, and each a behaviour of the models. The properties are
stated so that they hold in its presence.

Races:

- Recovery writes by primary key what it selected earlier (`worker.py:501-504`),
  so a job canceled in between is queued again, although `worker.py:812-813` says
  "CANCELED is terminal". `cancel_job` (`jobs_routes.py:124-131`) can overwrite
  a success in the same way. A job revived so still obeys
  `OneActivePerSlot` and `FinishedOnlyFromRunning`.
- `hints_used` is incremented from an unlocked read (`sessions.py:682`), although
  `puzzles_routes.py:1931` says "The ask is recorded".
- Two first reviews of a puzzle with different keys: one is answered with a 500
  (`puzzles_routes.py:2501`), where `storage/spaced_repetition.py:222-223` expects
  "the review endpoint's replay path" to handle the loser.
- The housekeeping scan reads `_current_job_id` when it builds its statement, not
  when it commits (`StuckJobs`); a stall report moves `updated_at`, which the
  sweep's backoff reads (`StallReport`, `SweepSparesStopped`); completion may
  overwrite the time housekeeping stamped (`WriteCompletion`); `begin_import` may take
  a lease that was renewed after it was read (`BeginWrite`), and writes only the
  columns that differ from the row it read: if the owner finishes in between, the
  row says `succeeded`, with the owner's counts, under the newcomer's id, which then
  no longer owns it and is displaced at its first batch or its end
  (`SummaryCountsStored` speaks of the import the counts come from, `Reporter`); a first review does
  not pick another title when its own is taken before the insert, although
  `spaced_repetition.py:234` says "Reviewing a puzzle must never fail because of
  what it is called" (`InsertReviewStats`; `FailuresNeedRivals` bounds it: it takes a
  concurrent commit).

Engine and generation:

- The walk along the solution (`generator.py:163-167`) swallows
  `StockfishEngineDeadError`, so the batch's engine stays dead and the next
  position times out once more, where `stockfish.py:46-53` wants it recreated
  (`WalkLine`). `StatusTellsTheTruth` holds: the later failure is counted.
- A confirmation that fails hard is counted as `discarded_unstable`
  (`generator.py:815`), so a run in which every confirmation failed calls itself
  `NO_MISTAKES`. The property speaks of the positions that were evaluated.
- `get_top_moves` has no timeout (`stockfish.py:483`). In PuzzleGeneration it
  returns or fails; whether it returns is not claimed.
- Where the version cannot be read, evaluations are cached under "unknown"
  and may outlive an upgrade; `KnownVersionsMatch` excludes that key.

Enrichment and diagnosis:

- The naming pass has no heartbeat (`naming_pass.py:234-404`), where
  `diagnosis/job.py:167-178` moved the diagnosis' own to every puzzle so that no
  working job is taken for an abandoned one. `cleanup_stuck_jobs` spares only the
  job of its own process (`worker.py:481-500`). Two runs of one user then count
  from the same committed rows, and the user's daily cap is passed by up to a
  pass (`Outrun`, `SpendIsBounded`); the same holds of a cancel, which a naming
  run never sees.
- A naming pass asks about rejected puzzles again in every pass
  and pays for them again, where `naming_pass.py:60` says "the corpus still
  converges"; `ChainStops` holds because pending work does not count them.
- A modulator can become the primary cause when the model says so: the gate
  checks that a cause was found, not that it may headline. `causes.py:68-71` and
  `evidence.py:809` say it never can.
- When the model promotes a secondary and names no secondaries, the rules' list
  is stored beside it and repeats it (`diagnosis/job.py:392`), which
  `ai/client.py:253` refuses in a model's own answer.

Surfaces:

- A completed session's summary names the causes of missed puzzles without
  asking the gate (`sessions.py:237-241`), unlike the page and the list; the names
  themselves are gated (`MissedNames`). `GateFollowsTheExposure` leaves that cause
  out.
- `/similar` with an earned anchor gives the shared cause or motif as its
  reason, which also says it of siblings that are not earned; `match` tells which
  legs they share whether or not the anchor is earned (`puzzles_routes.py:2147`).
- The motif hint (`puzzles_routes.py:1911-1975`, "This is the gate's exit, and it is
  meant to be") tells the motif of an unanswered puzzle; `test_motif_hint.py:116-127`
  and `test_resolution_gate.py:548-550` expect it. It is the exception that
  `GateFollowsTheExposure` names (`MotifHint`). What it counts in the session is
  `ReadHints` and `WriteHints` of TrainingReview.
- With both focus parameters, the cause's name replaces the opening's
  (`puzzles_routes.py:846-870`).
- A focus session's snapshot keeps `normal_review` for items that were reviewed
  elsewhere in the meantime, which re-anchors them early; and one that was
  `practice_only` and came due is not resolved by its answer.
- `accuracy_goal` sorts by the negated score, the opposite of
  `spaced_repetition.py:295-297`.
- After an equivalent first move the opponent's reply is the one to the
  canonical move.
- `motifs.py:53` says "mastered (>85%)", the code says 85% or more.

## Proofs

Each theorem holds for every value of the constants that the named assumptions
admit: any number of workers, users, requests, puzzles, imports, games and
faults. All are of the form `Spec => []Inv` or, for action properties and
refinements, `Spec => [][A]_vars` and `Spec => Abstract`.

| Module | Theorem | Establishes |
|---|---|---|
| JobQueueProofs | `TypeCorrect` | `TypeOK` |
| | `SlotsAreExclusive` | `OneActivePerSlot` |
| | `ClaimsAreExclusive` | `ClaimExclusive` |
| | `RunningStaysHeld` | `RunningIsHeld` |
| | `CompletionsAreGuarded` | `FinishedOnlyFromRunning` |
| TrainingReviewProofs | `TypeCorrect` | `TypeOK` |
| | `CountsAreTrue`, `StreaksAreTrue`, `StatsAreTrue` | `SessionCountsReviews`, `StreaksFollowReviews`, `StatsFollowReviews` |
| | `AnswersAreTrue` | `AnswersReportTheLedger` |
| | `SummaryStays` | `SummaryIsFinal` |
| | `ImplementsTheLedger` | `KeepsTheLedger`, the refinement of ReviewLedger |
| PipelineProofs | `NothingIsSkipped` | `NoGapBehindTheNewest` (GameImport) |
| | `SuccessMeansComplete` | `SuccessIsComplete` (GameImport) |
| | `SummariesAreTrue` | `SummaryCountsStored` (GameImport) |
| | `RunTypeCorrect` | `RunTypeOK` (PuzzleGeneration) |
| | `HeartbeatsAreRegular` | `HeartbeatsBoundTheGap` (PuzzleGeneration) |
| | `CandidatesAddUp` | `CandidatesAreAccounted` (PuzzleGeneration) |
| | `StatusIsTrue` | `StatusTellsTheTruth` (PuzzleGeneration) |
| | `ChainTypeCorrect` | `ChainTypeOK` (DiagnosisChain) |
| | `SweepLeavesStoppedAlone` | `SweepSparesStopped` (DiagnosisChain) |
| PuzzleSavingProofs | `TypeCorrect` | `TypeOK` |
| | `PliesStayASequence`, `TypedNamesStay` | `PliesAreASequence`, `TypedNamesAreShown` |
| | `FailuresTakeRivals` | `FailuresNeedRivals` |
| | `ImplementsTheBook` | `KeepsTheBook`, the refinement of PuzzleBook |
| EngineEvalProofs | `TypeCorrect` | `TypeOK` |
| | `SlotsAreNeverLost` | `SlotsAreConserved` |
| | `VersionsNeverMix` | `KnownVersionsMatch` |
| EnrichmentProofs | `TypeCorrect` | `TypeOK` |
| | `SpendStaysBounded`, `StoredStaysAccounted` | `SpendIsBounded`, `StoredIsAccounted` |
| MistakeDiagnosisProofs | `StoredCauseSupported` | `StoredCauseIsSupported` |
| | `CitationsMeasured` | `CitationsAreMeasured` |
| | `HangingMotifAgrees` | `HangingMotifMeansLoosePiece` |
| | `FutureIgnored` | `ContextIgnoresTheFuture` |
| PracticeProofs | `GateHolds` | `GateFollowsTheExposure` |
| | `QueueServesInOrder` | `ServesInOrder` |
| | `SurfacesReportAlike` | `SurfacesAgree` |
| | `ReviewsVerifyWhatCheckTold` | `SolvedLinesVerify` |

The inductive invariants are called `IInv`, in PipelineProofs `ImportInv`, `RunInv`
and `ChainInv`; each was checked by TLC as an invariant of the module's run before it
was proved (`ChainInv` with two workers besides).

**JobQueue.** `OneActivePerSlot` alone is not inductive: a recovery commits a set
of rows it selected earlier, and two of them in one slot would collide with each
other and with nothing else, which `ResetCollides` does not see; they were both
running when selected, hence `StuckSlotsDiffer`. `ClaimExclusive` needs
`HeldStatus`, which says that a job somebody holds cannot be queued unless a scan
put it there. `RunningIsHeld` is inductive with `TypeOK` alone
(`RunningHasHolder` states it of all rows, inserted or not).

**TrainingReview.** No lock is a variable, so the invariant says what holding one
means: whoever is past `EnterSession` is the only one on its session's row, which
is open and says what was read (`SessionLocksExclude`); likewise for a stats row
(`StatsLocksExclude`) and a flushed key (`KeysExclude`). What is written from a
read is then one more than what is stored, and the counters are tallies of the
ledger. The streaks are sizes of sets of log positions (`RunAt`), of which an
appended review changes the last one only: a pass adds one member to it, a fail
empties it. The refinement maps `CommitReview` to an append and every
other step to a close or a stutter.

**GameImport.** An import may skip the months before its cutoff because those were
complete when it read the cutoff (`SkippedAreStored`), and stay so because games
are posted in the current month (`PostedByNow`). `DownloadsInOrder` says what an
interruption leaves: a listed game is stored, at hand or in a month still to
come, and all at hand are older than those.

**PuzzleSaving.** `IInv` has the saves: a ply once allocated is at most the number
of manual rows, and equals it when the insert succeeds (`PliesWereNext`); a free
title keeps the typed name; no naming pass holds a typed title
(`SeenAreNotTyped`). `RInv`, proved on top of it, has the refusals. `RacesWereLost`
counts: the other requests that have committed are at least the rounds a
request's loops have used, and one more wherever its next step is bound to
repeat a round (its title is taken by now, its ply has a row). What was read free
and is found taken was taken by a commit in between, and no rival counts twice,
because each round reads what is committed before it. A naming pass without
a rival finds exactly the titles it read, and gives free ones.

**DiagnosisChain.** The sweep's backoff reads a user's newest row, while the property
speaks of the diagnosis that ended last. `LatestTells` says that these agree: an
active row of the user is the newest one, and without one the newest row has the
status and the age of the last to end. It rests on `OneDiagnosis`, which the
active-job index keeps, and on `LoopsHoldRows`: a worker ends only a row it holds, so
an older row ends only while no newer one exists. A stall report touches any
row and makes it the newest, which is why `LatestTells` is claimed only while no
report has been made (`NoReport`); what was reported is never given back
(`ReportsAreSpent`), so the property's hypothesis implies it at every earlier state.

**EngineEval.** `Conserved`: permits plus the callers in a phase that holds one are
the limit, and the places in flight are the attended requests; each action moves
one caller in or out of such a set. The bounds of the counters follow, and so
they are not part of the invariant's types (`Shape`). `VersionsAgree` says of cache,
memo and key what `KnownVersionsMatch` says of answers.

**PuzzleGeneration.** `GapFollowsThePly` (the distance to the last heartbeat is the
ply modulo the interval) and `PositionsAreAccounted` / `FailedIsNotConfirmed` (what
was counted as analysed was judged, failed or timed out) carry the status.

**Enrichment.** No run's own budget can be trusted alone, so the argument is made per
ledger: one for each user and one for everybody (`NoUser`). `CallsAreBounded` says
of each: there was a last run that looked and found it open; since then the
other runs that were going on made at most a chunk of calls each, because their
next look would have found it closed. How many went on is bounded by `Spare`: for a
user, the runs whose job was taken from them (`strays`; `RunsAreFew` says that a user's
live runs are at most these and the attended one), for everybody the other workers.
`PaidIsKept` relates calls to rows: what was paid is counted, held by an open
session, or was lost with one. `StoredIsAccounted` rests on the commit
writing rows and audit rows together, also where two runs name the same puzzle.

**MistakeDiagnosis.** The stored row was computed from the puzzle and some history
(`RowIsComputed`); the theorems are then about the operators: each of the twelve
rules cites only items whose facts are in the packet, the ranking returns causes
that were found, the gate accepts only those, and the context of a ply is the
same for any two games that agree up to it. `HangingMotifMeansLoosePiece` speaks of
positions that a game reaches, in which the side that does not move is not in
check: a position typed by hand is only parsed.

**Practice.** The invariant is small: the types; `AnsweredIsSealed` (what has been
answered is what was attempted and is not due, so the gate, which reads the
latter, opens for the former); `SessionFits` and `Trained` (sessions hold puzzles
and were completed in the past); and that the reviews tallied are the verdicts told. The work is in the
operators. *The gate:* each surface in turn names only what `IsResolved` admits. *The
queue:* sorting by a key returns its input in order (`InOrder`); focus bias and
warm-up move what they may; the variety pass keeps each puzzle in its tier and
loses none. *Surfaces:* counts of causes, motifs and openings, sums of attempts and
passes, the list and its pages, the streak: each pair of computations is reduced
to one set or one sum. *Verdicts:* a line played move by move
against `CheckMove` is judged by `VerifyLine` as it was told. What a
fold or a recursive function computes is proved from the run of its intermediate
values, given as a function on an initial segment of the naturals, by an induction
over a set of good numbers (`NumberInduction`, `UptoInduction`).

**Sums and counts** are over finite sets of any size. Counts use the library's
lemmas on cardinality; for `SumOver`, a fold, EnrichmentProofs proves an induction
over the subsets of a finite set that is stated with a set of good subsets in place of
a predicate (`NumberInduction`, `FoldInduction`).

**Assumptions.** `JobQueueAssumption`, `GameImportAssumption`, `MaxAborts`,
`MaxFaults`, `BoundsAssumption`: bounds are natural numbers. `Puzzles # {}` and
`Names # {}`: without them nothing can be reviewed or named. Finite sets of users, workers,
puzzles, callers and requests (`EnrichmentAssumption`, `CallersAssumption`,
`RequestsAssumption`, which also makes each request one of a kind): tables are
finite. `LimitsAssumption`, `TopMovesAssumption`, `GamesAssumption`: intervals and
limits are positive (the code's constants are) and games and engine lines are
sequences. `PoolSize > Permits` in EngineEval: the executor has two threads more
than there are permits (`stockfish.py:227`). `VersionsAssumption` and `LegacyAssumption`: the markers are not values. `GameContextAssumption`:
`MaxBookPly` is a number. `PuzzlesAssumption`: a puzzle's row has its columns, a
board on which each square holds at most one piece, and a game.

Practice's: `NoneAssumption`, `FactsAssumption` and `LinesAssumption`: the marker for
SQL's NULL is no number, row, cause or line. `LineAssumption`: a stored solution is a
sequence. Practice's `RequestsAssumption`: a request has the parameters the
endpoint declares, each absent or in its range. `PracticeAssumption` and
`InsightsAssumption`: thresholds are numbers, and what is trained at first is finite.

**Only model-checked** are the liveness properties (`EveryJobSettles`,
`PendingWorkGetsDone`, `EveryReviewIsServed`, `EveryCallReturns`, `ChainStops`), because
TLAPS reaches neither liveness under fairness nor `ENABLED`. Every invariant,
action property and refinement that a run checks is proved.

## Not modelled

- **Rate limiter.** A hit is stamped with the start of its transaction, before
  the wait for the advisory lock (`ratelimit.py:303`): hits and checks are out of
  order by up to that wait.
- **Ratings.** Two snapshots may read the same latest row and both insert
  (`ratings_auto.py:101`); the formulas of `ratings.py` are arithmetic over
  rows.
- **Worker health.** `ops.py:79` repeats recovery's rule in a second place, and a
  heartbeat in its thread may put back a row that stopping has withdrawn
  (`worker.py:406`).
- **The browser.** A poll in flight when the stall timer fires answers after
  the re-check (`src/apps/web/src/hooks/useJobPolling.ts:233`); a review key
  outlives an error (`usePuzzleSession.ts:436`). The server's side of both is in
  DiagnosisChain and TrainingReview.
- **Identity** (`identity.py:216`: two accounts import one handle for the first
  time at once) and the **openings explorer**, a read-through cache.
- **Recent form, motif trends and ranks**: aggregates nothing else repeats.
- Parsing of PGNs, titles derived from positions, prompts, wording, rendering,
  authentication, migrations, deployment and scripts.
