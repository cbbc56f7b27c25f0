--------------------------- MODULE DiagnosisChain ---------------------------
(***************************************************************************)
(* How pending diagnosis work gets a diagnosis job.  Three callers queue   *)
(* one: the completion of a puzzle generation, the completion of an        *)
(* auto-chained diagnosis that left work behind, and the hourly sweep,     *)
(* which leaves alone a user whose last diagnosis job failed or was        *)
(* canceled within a day.  The partial unique index refuses a second       *)
(* active diagnosis job, so each caller relies on the others to pick up    *)
(* the work it could not queue.                                            *)
(*                                                                         *)
(* A job's whole run under its lease is JobQueue's subject; here a worker  *)
(* runs a job until it ends, or dies and the row is reclaimed at once.     *)
(* Of updated_at the sweep only reads the newest per user: latest[u] is    *)
(* the diagnosis row written last, latestAge[u] how long ago, in ticks.    *)
(***************************************************************************)
EXTENDS Integers, FiniteSets

CONSTANTS
    Workers, Users, Puzzles,
    Rows,         \* slots for job rows
    NoRow,
    BatchMax,     \* puzzles one diagnosis run takes (DIAGNOSIS_BATCH_MAX)
    Backoff,      \* DIAGNOSIS_FAILURE_BACKOFF_SECONDS, in ticks
    Budget        \* how many events of each kind a behaviour may have

JobType == {"puzzle_generation", "diagnosis"}
Event == JobType \union {"fault", "report", "bump"}

ASSUME DiagnosisChainAssumption ==
    /\ NoRow \notin Rows
    /\ BatchMax \in Nat \ {0}
    /\ Backoff \in Nat
    /\ Budget \in [Event -> Nat]

Active == {"queued", "running"}
Stopped == {"failed", "canceled"}
Row == [status : Active \union Stopped \union {"absent", "succeeded"},
        type : JobType, username : Users \union {NoRow}, auto_chain : BOOLEAN]
Absent == [status |-> "absent", type |-> "diagnosis", username |-> NoRow,
           auto_chain |-> FALSE]
Ages == 0..(Backoff + 1)       \* an age beyond the backoff is Backoff + 1

VARIABLES
    row,         \* row[r]: a row of the jobs table
    latest,      \* latest[u]: the diagnosis row with the newest updated_at
    latestAge,   \* its age
    ended,       \* ended[u]: how u's last diagnosis job to end has ended
    endedAge,    \* and how long ago (history variables)
    puzzles,     \* puzzles[u]: the user's saved puzzles
    pending,     \* pending[u]: those without a current diagnosis
    loop, job,     \* the job loop of each worker, and its job
    batch,       \* batch[w]: pending puzzles the run selected at its start
    sweep,       \* sweep[w]: users the sweep found and has not yet queued
    left         \* events of each kind still allowed

jobVars == <<row, latest, latestAge, ended, endedAge>>
workVars == <<puzzles, pending>>
loopVars == <<loop, job, batch>>
chainVars == <<jobVars, workVars, loopVars, sweep, left>>

ChainTypeOK ==
    /\ row \in [Rows -> Row]
    /\ latest \in [Users -> Rows \union {NoRow}]
    /\ latestAge \in [Users -> Ages] /\ endedAge \in [Users -> Ages]
    /\ ended \in [Users -> Stopped \union {"succeeded"}]
    /\ puzzles \in [Users -> SUBSET Puzzles]
    /\ \A u \in Users : pending[u] \subseteq puzzles[u]
    /\ loop \in [Workers -> {"idle", "running", "ended", "remaining"}]
    /\ job \in [Workers -> Rows \union {NoRow}]
    /\ batch \in [Workers -> SUBSET Puzzles]
    /\ sweep \in [Workers -> SUBSET Users]
    /\ left \in [Event -> Nat]

ChainInit ==
    /\ row = [r \in Rows |-> Absent]
    /\ latest = [u \in Users |-> NoRow]
    /\ latestAge = [u \in Users |-> Backoff + 1]
    /\ ended = [u \in Users |-> "succeeded"]
    /\ endedAge = [u \in Users |-> Backoff + 1]
    /\ puzzles = [u \in Users |-> {}]
    /\ pending = [u \in Users |-> {}]
    /\ loop = [w \in Workers |-> "idle"]
    /\ job = [w \in Workers |-> NoRow]
    /\ batch = [w \in Workers |-> {}]
    /\ sweep = [w \in Workers |-> {}]
    /\ left = Budget

Spend(e) == left[e] > 0 /\ left' = [left EXCEPT ![e] = @ - 1]

-----------------------------------------------------------------------------
(* Writes to the jobs table *)

\* Any UPDATE of row r sets its updated_at (the column's onupdate).
Touch(r) ==
    LET u == row[r].username IN
    IF row[r].type = "diagnosis"
    THEN /\ latest' = [latest EXCEPT ![u] = r]
         /\ latestAge' = [latestAge EXCEPT ![u] = 0]
    ELSE UNCHANGED <<latest, latestAge>>

SetStatus(r, s) ==
    /\ row' = [row EXCEPT ![r].status = s]
    /\ Touch(r)
    /\ IF row[r].type = "diagnosis" /\ s \notin Active
       THEN /\ ended' = [ended EXCEPT ![row[r].username] = s]
            /\ endedAge' = [endedAge EXCEPT ![row[r].username] = 0]
       ELSE UNCHANGED <<ended, endedAge>>

HasActive(u, t) ==
    \E r \in Rows : row[r].status \in Active /\ row[r].username = u /\ row[r].type = t

\* A row that ended, that no worker holds and that is nobody's latest is of
\* no more interest, and its slot is free.
Free(r) ==
    \/ row[r].status = "absent"
    \/ /\ row[r].status \notin Active
       /\ \A u \in Users : latest[u] # r
       /\ \A w \in Workers : job[w] # r

\* _enqueue_diagnosis and the inserts of the API: the active-job index turns
\* a second active job into a no-op.
Enqueue(u, t, auto) ==
    IF HasActive(u, t) \/ \A r \in Rows : ~Free(r)
    THEN UNCHANGED jobVars
    ELSE LET r == CHOOSE r \in Rows : Free(r) IN
         /\ row' = [row EXCEPT ![r] = [status |-> "queued", type |-> t,
                                       username |-> u, auto_chain |-> auto]]
         /\ IF t = "diagnosis"
            THEN /\ latest' = [latest EXCEPT ![u] = r]
                 /\ latestAge' = [latestAge EXCEPT ![u] = 0]
            ELSE UNCHANGED <<latest, latestAge>>
         /\ UNCHANGED <<ended, endedAge>>

-----------------------------------------------------------------------------
(* Users, operators and browsers *)

\* POST /puzzles/generate, POST /users/{username}/diagnose.
Submit(u, t) ==
    /\ ~HasActive(u, t)
    /\ Spend(t)
    /\ Enqueue(u, t, FALSE)
    /\ UNCHANGED <<workVars, loopVars, sweep>>

\* POST /jobs/{id}/cancel, when nothing else writes the row meanwhile.
Cancel(r) ==
    /\ row[r].status \in Active
    /\ Spend("fault")
    /\ SetStatus(r, "canceled")
    /\ UNCHANGED <<workVars, loopVars, sweep>>

\* POST /jobs/{id}/stall-report: any row, ended ones included; only the
\* marker is assigned, but updated_at moves with it.
StallReport(r) ==
    /\ row[r].status # "absent"
    /\ Spend("report")
    /\ Touch(r)
    /\ UNCHANGED <<row, ended, endedAge, workVars, loopVars, sweep>>

\* A deployed rule or extraction version makes every diagnosis stale.
BumpVersion ==
    /\ Spend("bump")
    /\ pending' = puzzles
    /\ UNCHANGED <<jobVars, puzzles, loopVars, sweep>>

Tick ==
    /\ latestAge' = [u \in Users |-> IF latestAge[u] > Backoff
                                     THEN Backoff + 1 ELSE latestAge[u] + 1]
    /\ endedAge' = [u \in Users |-> IF endedAge[u] > Backoff
                                    THEN Backoff + 1 ELSE endedAge[u] + 1]
    /\ UNCHANGED <<row, latest, ended, workVars, loopVars, sweep, left>>

-----------------------------------------------------------------------------
(* Running a job *)

\* Claim and start; a diagnosis selects at most BatchMax pending puzzles.
Start(w) ==
    /\ loop[w] = "idle"
    /\ \E r \in Rows :
        /\ row[r].status = "queued"
        /\ SetStatus(r, "running")
        /\ job' = [job EXCEPT ![w] = r]
        /\ IF row[r].type = "diagnosis"
           THEN \E S \in SUBSET pending[row[r].username] :
                    /\ S = pending[row[r].username] \/ Cardinality(S) = BatchMax
                    /\ Cardinality(S) <= BatchMax
                    /\ batch' = [batch EXCEPT ![w] = S]
           ELSE UNCHANGED batch
    /\ loop' = [loop EXCEPT ![w] = "running"]
    /\ UNCHANGED <<workVars, sweep, left>>

Running(w, t) == loop[w] = "running" /\ row[job[w]].type = t

\* generate_puzzles saves a new puzzle: fresh, hence pending.
SavePuzzle(w) ==
    /\ Running(w, "puzzle_generation")
    /\ LET u == row[job[w]].username IN
       \E p \in Puzzles \ puzzles[u] :
        /\ puzzles' = [puzzles EXCEPT ![u] = @ \union {p}]
        /\ pending' = [pending EXCEPT ![u] = @ \union {p}]
    /\ UNCHANGED <<jobVars, loopVars, sweep, left>>

\* run_diagnosis commits a chunk of diagnoses.
CommitChunk(w) ==
    /\ Running(w, "diagnosis")
    /\ LET u == row[job[w]].username IN
       \E S \in SUBSET batch[w] :
        /\ S # {}
        /\ pending' = [pending EXCEPT ![u] = @ \ S]
        /\ batch' = [batch EXCEPT ![w] = @ \ S]
    /\ UNCHANGED <<jobVars, puzzles, loop, job, sweep, left>>

Release(w, next) ==
    /\ loop' = [loop EXCEPT ![w] = next]
    /\ job' = IF next = "idle" THEN [job EXCEPT ![w] = NoRow] ELSE job
    /\ batch' = [batch EXCEPT ![w] = {}]

\* The handler returns and the guarded success write lands, or is discarded.
Succeed(w) ==
    /\ loop[w] = "running"
    /\ batch[w] = {} \/ row[job[w]].status = "canceled"
    /\ IF row[job[w]].status = "running"
       THEN SetStatus(job[w], "succeeded") /\ Release(w, "ended")
       ELSE UNCHANGED jobVars /\ Release(w, "idle")
    /\ UNCHANGED <<workVars, sweep, left>>

\* The handler raises: what it had committed stays, nothing is chained.
Fail(w) ==
    /\ loop[w] = "running"
    /\ Spend("fault")
    /\ IF row[job[w]].status = "running" THEN SetStatus(job[w], "failed")
                                         ELSE UNCHANGED jobVars
    /\ Release(w, "idle")
    /\ UNCHANGED <<workVars, sweep>>

\* _enqueue_followup for a generation; for an auto-chained diagnosis,
\* _enqueue_remaining_diagnosis_if_pending counts what is left ...
ChainAfter(w) ==
    /\ loop[w] = "ended"
    /\ LET r == row[job[w]] IN
       IF r.type = "puzzle_generation"
       THEN Enqueue(r.username, "diagnosis", TRUE) /\ Release(w, "idle")
       ELSE /\ Release(w, IF r.auto_chain /\ pending[r.username] # {}
                          THEN "remaining" ELSE "idle")
            /\ UNCHANGED jobVars
    /\ UNCHANGED <<workVars, sweep, left>>

\* ... and then queues another run for it.
EnqueueRemaining(w) ==
    /\ loop[w] = "remaining"
    /\ Enqueue(row[job[w]].username, "diagnosis", TRUE)
    /\ Release(w, "idle")
    /\ UNCHANGED <<workVars, sweep, left>>

\* The process dies at any point, and a new one starts.
Die(w) ==
    /\ loop[w] # "idle" \/ sweep[w] # {}
    /\ Spend("fault")
    /\ Release(w, "idle")
    /\ sweep' = [sweep EXCEPT ![w] = {}]
    /\ UNCHANGED <<jobVars, workVars>>

\* cleanup_stuck_jobs puts the row of a dead worker back to queued.
Reclaim(r) ==
    /\ row[r].status = "running"
    /\ \A w \in Workers : job[w] # r
    /\ SetStatus(r, "queued")
    /\ UNCHANGED <<workVars, loopVars, sweep, left>>

-----------------------------------------------------------------------------
(* The sweep *)

\* Mutant of BackingOff: the window is forgotten.
BackingOffForever(u) == latest[u] # NoRow /\ row[latest[u]].status \in Stopped

\* Mutant of BackingOff: a canceled job does not hold the sweep off.
BackingOffAfterFailure(u) ==
    latest[u] # NoRow /\ row[latest[u]].status = "failed" /\ latestAge[u] <= Backoff

\* _diagnosis_backoff_users: the newest diagnosis row failed or was canceled,
\* within the window.
BackingOff(u) ==
    /\ latest[u] # NoRow
    /\ row[latest[u]].status \in Stopped
    /\ latestAge[u] <= Backoff

\* _sweep_once reads the users with pending work and those backing off ...
SweepRead(w) ==
    /\ sweep[w] = {}
    /\ sweep' = [sweep EXCEPT ![w] =
                    {u \in Users : pending[u] # {} /\ ~BackingOff(u)}]
    /\ sweep' # sweep
    /\ UNCHANGED <<jobVars, workVars, loopVars, left>>

\* ... and queues them one at a time.
SweepEnqueue(w, u) ==
    /\ u \in sweep[w]
    /\ Enqueue(u, "diagnosis", TRUE)
    /\ sweep' = [sweep EXCEPT ![w] = @ \ {u}]
    /\ UNCHANGED <<workVars, loopVars, left>>

-----------------------------------------------------------------------------
(* The specification *)

LoopStep(w) ==
    \/ Start(w) \/ SavePuzzle(w) \/ CommitChunk(w) \/ Succeed(w) \/ Fail(w)
    \/ ChainAfter(w) \/ EnqueueRemaining(w) \/ Die(w)

SweepStep(w) == SweepRead(w) \/ \E u \in Users : SweepEnqueue(w, u)

ChainNext ==
    \/ \E u \in Users, t \in JobType : Submit(u, t)
    \/ \E r \in Rows : Cancel(r) \/ StallReport(r) \/ Reclaim(r)
    \/ BumpVersion \/ Tick
    \/ \E w \in Workers : LoopStep(w) \/ SweepStep(w)

ChainSpec == ChainInit /\ [][ChainNext]_chainVars

\* Workers run what they claim, and recovery happens on its clock.
LoopFairness ==
    /\ \A w \in Workers :
        WF_chainVars(\/ Start(w) \/ CommitChunk(w) \/ Succeed(w)
                \/ ChainAfter(w) \/ EnqueueRemaining(w))
    /\ \A r \in Rows : WF_chainVars(Reclaim(r))

\* The sweep task runs hourly, and time passes.
SweepFairness == WF_chainVars(Tick) /\ \A w \in Workers : WF_chainVars(SweepStep(w))

SweepSpec == ChainSpec /\ LoopFairness /\ SweepFairness

-----------------------------------------------------------------------------
(* Correctness *)

\* Pending work is eventually done: by the chain of follow-ups, and where a
\* failure, a cancel, a crash between a success and its follow-up, a refused
\* follow-up, a manual run that does not chain or a version bump breaks the
\* chain, by the sweep.
PendingWorkGetsDone ==
    \A u \in Users : pending[u] # {} ~> pending[u] = {}

\* When the sweep selects a user with no active diagnosis job, that user's
\* last diagnosis to end did not fail and was not canceled within the backoff
\* (_diagnosis_backoff_users: a cancel "restart[ed] within the hour" is what
\* the window is there to prevent).  A stall report voids this: written on an
\* older row, it makes that row the newest.
SweepSparesStopped ==
    [][left["report"] = Budget["report"] =>
        \A w \in Workers : \A u \in sweep'[w] \ sweep[w] :
            \/ HasActive(u, "diagnosis")
            \/ ended[u] \notin Stopped
            \/ endedAge[u] > Backoff]_chainVars

=============================================================================
