------------------------------ MODULE JobQueue ------------------------------
(***************************************************************************)
(* The `jobs` table of KnightMind and everybody who writes a job's status: *)
(* the API routes that queue and cancel jobs, the job loop of each worker  *)
(* process, and the two crash-recovery scans a process runs (one before    *)
(* its loop starts, one on the hourly housekeeping clock).                 *)
(*                                                                         *)
(* A transaction that decides and writes in one guarded UPDATE is one      *)
(* action.  A handler that reads a row, decides, and writes it later with  *)
(* an unguarded `UPDATE ... WHERE id` is two actions: that is the case of  *)
(* cancel_job and of cleanup_stuck_jobs.                                   *)
(*                                                                         *)
(* The liveness lease (heartbeat_at against a 15 minute limit) is "fresh"  *)
(* or "stale"; it goes stale at any time nobody renews it, and a live      *)
(* handler may outrun it (MaxOutruns bounds how often).                    *)
(***************************************************************************)
EXTENDS Integers, FiniteSets

CONSTANTS
    Workers,         \* worker processes (worker_id)
    Users,           \* canonical usernames
    Clients,         \* in-flight cancel requests the API can be serving
    MaxJobs,         \* rows the jobs table may receive
    MaxDisruptions,  \* crashes and lost failure writes in a behaviour
    MaxStops,        \* orderly stops (SIGTERM) in a behaviour
    MaxOutruns       \* times a live handler lets its lease go stale

ASSUME JobQueueAssumption ==
    /\ MaxJobs \in Nat
    /\ MaxDisruptions \in Nat
    /\ MaxStops \in Nat
    /\ MaxOutruns \in Nat

Jobs == 1..MaxJobs             \* in insertion order, which is created_at order
NoJob == 0

JobType == {"puzzle_generation", "diagnosis"}
Active == {"queued", "running"}
Terminal == {"succeeded", "failed", "canceled"}
JobStatus == Active \union Terminal
Scans == {"startup", "housekeeping"}

VARIABLES
    inserted,        \* number of rows in the jobs table
    status,          \* status[j], "absent" before the row exists
    type,            \* type[j]
    username,        \* username[j]
    auto_chain,      \* params.auto_chain of job j
    lease,           \* lease[j]: heartbeat_at of j against the 15 minute limit
    recovered,       \* jobs some scan has put back to queued
    pc,              \* pc[w]: where the process's job loop is
    job,             \* job[w]: the job the loop is processing
    stopping,        \* stopping[w]: SIGTERM seen, is_running cleared
    stuck,           \* stuck[w][s]: rows a scan selected and has not written
    cancelling,      \* cancelling[c]: the job a cancel request has validated
    disruptions,
    stops,
    outruns

tableVars == <<inserted, type, username, auto_chain>>
workerVars == <<pc, job, stopping, stuck>>
boundVars == <<disruptions, stops, outruns>>
vars == <<tableVars, status, lease, recovered, workerVars, cancelling,
          boundVars>>

-----------------------------------------------------------------------------
(* States of the job loop *)

Executing == {"running", "returned", "raised", "chaining"}
Busy == {"claimed"} \union Executing
Up == {"starting", "recovering", "idle"} \union Busy

\* Worker w has claimed job j and has not yet written its outcome.
Holds(w, j) == pc[w] \in Busy \ {"chaining"} /\ job[w] = j

\* self._current_job_id: set by execute_job, after the claim has committed.
CurrentJobId(w) == IF pc[w] \in Executing THEN job[w] ELSE NoJob

TypeOK ==
    /\ inserted \in 0..MaxJobs
    /\ status \in [Jobs -> JobStatus \union {"absent"}]
    /\ type \in [Jobs -> JobType]
    /\ username \in [Jobs -> Users]
    /\ auto_chain \in [Jobs -> BOOLEAN]
    /\ lease \in [Jobs -> {"fresh", "stale"}]
    /\ recovered \subseteq Jobs
    /\ pc \in [Workers -> Up \union {"down"}]
    /\ job \in [Workers -> Jobs \union {NoJob}]
    /\ \A w \in Workers : pc[w] \in Busy => job[w] \in Jobs
    /\ stopping \in [Workers -> BOOLEAN]
    /\ stuck \in [Workers -> [Scans -> SUBSET Jobs]]
    /\ cancelling \in [Clients -> Jobs \union {NoJob}]
    /\ disruptions \in 0..MaxDisruptions
    /\ stops \in 0..MaxStops
    /\ outruns \in 0..MaxOutruns

Init ==
    /\ inserted = 0
    /\ status = [j \in Jobs |-> "absent"]
    /\ type = [j \in Jobs |-> "puzzle_generation"]
    /\ username \in {[j \in Jobs |-> u] : u \in Users}
    /\ auto_chain = [j \in Jobs |-> FALSE]
    /\ lease = [j \in Jobs |-> "stale"]
    /\ recovered = {}
    /\ pc = [w \in Workers |-> "down"]
    /\ job = [w \in Workers |-> NoJob]
    /\ stopping = [w \in Workers |-> FALSE]
    /\ stuck = [w \in Workers |-> [s \in Scans |-> {}]]
    /\ cancelling = [c \in Clients |-> NoJob]
    /\ disruptions = 0
    /\ stops = 0
    /\ outruns = 0

-----------------------------------------------------------------------------
(* Inserts, and the partial unique index ix_jobs_active_username *)

SameSlot(j, k) == username[j] = username[k] /\ type[j] = type[k]

\* Mutant of SlotTaken: the index's predicate forgets running rows.
SlotTakenByQueued(u, t) ==
    \E k \in 1..inserted : status[k] = "queued" /\ username[k] = u /\ type[k] = t

\* Some queued or running row occupies the (username, type) slot.
SlotTaken(u, t) ==
    \E k \in 1..inserted :
        status[k] \in Active /\ username[k] = u /\ type[k] = t

\* INSERT a queued row, or leave the table alone: on the index's
\* IntegrityError every caller rolls back and answers with the active job.
InsertUnlessActive(u, t, auto) ==
    IF SlotTaken(u, t) \/ inserted = MaxJobs
    THEN UNCHANGED <<tableVars, status>>
    ELSE LET j == inserted + 1 IN
         /\ inserted' = j
         /\ status' = [status EXCEPT ![j] = "queued"]
         /\ type' = [type EXCEPT ![j] = t]
         /\ username' = [username EXCEPT ![j] = u]
         /\ auto_chain' = [auto_chain EXCEPT ![j] = auto]

-----------------------------------------------------------------------------
(* API requests *)

\* POST /puzzles/generate and POST /users/{username}/diagnose.
Submit(u, t) ==
    /\ ~SlotTaken(u, t)
    /\ inserted < MaxJobs
    /\ InsertUnlessActive(u, t, FALSE)
    /\ UNCHANGED <<lease, recovered, workerVars, cancelling, boundVars>>

\* cancel_job, first half: the row is read and its status found cancellable.
CancelRead(c, j) ==
    /\ cancelling[c] = NoJob
    /\ j <= inserted
    /\ status[j] \in Active
    /\ cancelling' = [cancelling EXCEPT ![c] = j]
    /\ UNCHANGED <<tableVars, status, lease, recovered, workerVars, boundVars>>

\* cancel_job, second half: the ORM flush writes by primary key, whatever the
\* row's status is by now.
CancelWrite(c) ==
    /\ cancelling[c] # NoJob
    /\ status' = [status EXCEPT ![cancelling[c]] = "canceled"]
    /\ cancelling' = [cancelling EXCEPT ![c] = NoJob]
    /\ UNCHANGED <<tableVars, lease, recovered, workerVars, boundVars>>

-----------------------------------------------------------------------------
(* Crash recovery: cleanup_stuck_jobs *)

\* The SELECT of process w: running rows with a stale lease, never its own.
StuckJobs(w) ==
    {j \in 1..inserted : /\ status[j] = "running"
                         /\ lease[j] = "stale"
                         /\ j # CurrentJobId(w)}

\* Writing the rows of S back to queued would put two rows in one slot.
ResetCollides(S) ==
    \E j \in S, k \in 1..inserted :
        j # k /\ SameSlot(j, k) /\ status[k] \in Active

\* The commit of scan s: one UPDATE ... WHERE id per selected row, all of
\* them rolled back when one violates the active-job index.
ResetStuck(w, s) ==
    /\ IF ResetCollides(stuck[w][s])
       THEN UNCHANGED <<status, recovered>>
       ELSE /\ status' = [j \in Jobs |-> IF j \in stuck[w][s]
                                         THEN "queued" ELSE status[j]]
            /\ recovered' = recovered \union stuck[w][s]
    /\ stuck' = [stuck EXCEPT ![w][s] = {}]

\* run_worker_loop scans before its first claim ...
StartupScan(w) ==
    /\ pc[w] = "starting"
    /\ stuck' = [stuck EXCEPT ![w]["startup"] = StuckJobs(w)]
    /\ pc' = [pc EXCEPT ![w] = "recovering"]
    /\ UNCHANGED <<tableVars, status, lease, recovered, job, stopping,
                   cancelling, boundVars>>

StartupReset(w) ==
    /\ pc[w] = "recovering"
    /\ ResetStuck(w, "startup")
    /\ pc' = [pc EXCEPT ![w] = "idle"]
    /\ UNCHANGED <<tableVars, lease, job, stopping, cancelling, boundVars>>

\* Mutant of HousekeepingScan: recovery runs at startup only.
HousekeepingScanNever(w) == pc[w] = "nowhere" /\ UNCHANGED vars

\* ... and run_session_cleanup scans from process start, concurrently with
\* the loop, until the process is asked to stop.
HousekeepingScan(w) ==
    /\ pc[w] # "down"
    /\ ~stopping[w]
    /\ stuck[w]["housekeeping"] = {}
    /\ StuckJobs(w) # {}
    /\ stuck' = [stuck EXCEPT ![w]["housekeeping"] = StuckJobs(w)]
    /\ UNCHANGED <<tableVars, status, lease, recovered, pc, job, stopping,
                   cancelling, boundVars>>

HousekeepingReset(w) ==
    /\ stuck[w]["housekeeping"] # {}
    /\ ResetStuck(w, "housekeeping")
    /\ UNCHANGED <<tableVars, lease, pc, job, stopping, cancelling, boundVars>>

-----------------------------------------------------------------------------
(* The job loop: process_next_job and execute_job *)

\* Mutant of Claim: it also takes a running row whose lease is stale.
ClaimStealsStale(w) ==
    /\ pc[w] = "idle" /\ ~stopping[w]
    /\ \E j \in 1..inserted :
        /\ status[j] = "queued" \/ (status[j] = "running" /\ lease[j] = "stale")
        /\ status' = [status EXCEPT ![j] = "running"]
        /\ lease' = [lease EXCEPT ![j] = "fresh"]
        /\ job' = [job EXCEPT ![w] = j]
    /\ pc' = [pc EXCEPT ![w] = "claimed"]
    /\ UNCHANGED <<tableVars, recovered, stopping, stuck, cancelling, boundVars>>

\* _claim_job: the oldest queued row, flipped in one guarded UPDATE.
Claim(w) ==
    /\ pc[w] = "idle"
    /\ ~stopping[w]
    /\ \E j \in 1..inserted :
        /\ status[j] = "queued"
        /\ \A k \in 1..inserted : status[k] = "queued" => j <= k
        /\ status' = [status EXCEPT ![j] = "running"]
        /\ lease' = [lease EXCEPT ![j] = "fresh"]
        /\ job' = [job EXCEPT ![w] = j]
    /\ pc' = [pc EXCEPT ![w] = "claimed"]
    /\ UNCHANGED <<tableVars, recovered, stopping, stuck, cancelling,
                   boundVars>>

\* execute_job sets _current_job_id and starts the handler in a thread.
Execute(w) ==
    /\ pc[w] = "claimed"
    /\ pc' = [pc EXCEPT ![w] = "running"]
    /\ UNCHANGED <<tableVars, status, lease, recovered, job, stopping, stuck,
                   cancelling, boundVars>>

\* _heartbeat_and_check_cancellation: renews the lease of the row whatever
\* its status, unless it reads canceled (then the handler stops early).
Heartbeat(w) ==
    /\ pc[w] = "running"
    /\ status[job[w]] # "canceled"
    /\ lease' = [lease EXCEPT ![job[w]] = "fresh"]
    /\ UNCHANGED <<tableVars, status, recovered, workerVars, cancelling,
                   boundVars>>

\* The handler finishes, or stops because a heartbeat reported the cancel.
HandlerReturns(w) ==
    /\ pc[w] = "running"
    /\ pc' = [pc EXCEPT ![w] = "returned"]
    /\ UNCHANGED <<tableVars, status, lease, recovered, job, stopping, stuck,
                   cancelling, boundVars>>

\* Mutant of HandlerRaises: the job is forgotten before its failure is written.
HandlerRaisesAndForgets(w) ==
    /\ pc[w] \in {"running", "returned"}
    /\ pc' = [pc EXCEPT ![w] = "raised"]
    /\ job' = [job EXCEPT ![w] = NoJob]
    /\ UNCHANGED <<tableVars, status, lease, recovered, stopping, stuck,
                   cancelling, boundVars>>

\* The handler raises, there is none for the job's type, its result is not a
\* payload, or the success write itself fails.
HandlerRaises(w) ==
    /\ pc[w] \in {"running", "returned"}
    /\ pc' = [pc EXCEPT ![w] = "raised"]
    /\ UNCHANGED <<tableVars, status, lease, recovered, job, stopping, stuck,
                   cancelling, boundVars>>

\* Mutant of RecordSuccess: UPDATE ... WHERE id, without the status guard.
RecordSuccessUnguarded(w) ==
    /\ pc[w] = "returned"
    /\ status' = [status EXCEPT ![job[w]] = "succeeded"]
    /\ pc' = [pc EXCEPT ![w] = "chaining"]
    /\ UNCHANGED <<tableVars, lease, recovered, job, stopping, stuck,
                   cancelling, boundVars>>

\* UPDATE ... WHERE id = job AND status = 'running'; rowcount 0 discards the
\* completion and everything that follows from it.
RecordSuccess(w) ==
    /\ pc[w] = "returned"
    /\ IF status[job[w]] = "running"
       THEN /\ status' = [status EXCEPT ![job[w]] = "succeeded"]
            /\ pc' = [pc EXCEPT ![w] = "chaining"]
            /\ UNCHANGED job
       ELSE /\ pc' = [pc EXCEPT ![w] = "idle"]
            /\ job' = [job EXCEPT ![w] = NoJob]
            /\ UNCHANGED status
    /\ UNCHANGED <<tableVars, lease, recovered, stopping, stuck, cancelling,
                   boundVars>>

RecordFailure(w) ==
    /\ pc[w] = "raised"
    /\ status' = IF status[job[w]] = "running"
                 THEN [status EXCEPT ![job[w]] = "failed"] ELSE status
    /\ pc' = [pc EXCEPT ![w] = "idle"]
    /\ job' = [job EXCEPT ![w] = NoJob]
    /\ UNCHANGED <<tableVars, lease, recovered, stopping, stuck, cancelling,
                   boundVars>>

\* The failure write raises too: run_worker_loop logs it, clears
\* _current_job_id and goes on, leaving the row running.
LoseFailure(w) ==
    /\ pc[w] = "raised"
    /\ disruptions < MaxDisruptions
    /\ disruptions' = disruptions + 1
    /\ pc' = [pc EXCEPT ![w] = "idle"]
    /\ job' = [job EXCEPT ![w] = NoJob]
    /\ UNCHANGED <<tableVars, status, lease, recovered, stopping, stuck,
                   cancelling, stops, outruns>>

\* _enqueue_followup after a generation; after an auto-chained diagnosis,
\* _enqueue_remaining_diagnosis_if_pending, whose count of remaining work
\* (over tables not modelled here) may come out either way.
Chain(w) ==
    /\ pc[w] = "chaining"
    /\ \E pending \in BOOLEAN :
        IF type[job[w]] = "puzzle_generation" \/ (auto_chain[job[w]] /\ pending)
        THEN InsertUnlessActive(username[job[w]], "diagnosis", TRUE)
        ELSE UNCHANGED <<tableVars, status>>
    /\ pc' = [pc EXCEPT ![w] = "idle"]
    /\ job' = [job EXCEPT ![w] = NoJob]
    /\ UNCHANGED <<lease, recovered, stopping, stuck, cancelling, boundVars>>

-----------------------------------------------------------------------------
(* Processes and leases *)

StartProcess(w) ==
    /\ pc[w] = "down"
    /\ pc' = [pc EXCEPT ![w] = "starting"]
    /\ UNCHANGED <<tableVars, status, lease, recovered, job, stopping, stuck,
                   cancelling, boundVars>>

\* SIGTERM: stop() clears is_running and waits for the loop.
Stop(w) ==
    /\ pc[w] # "down"
    /\ ~stopping[w]
    /\ stops < MaxStops
    /\ stops' = stops + 1
    /\ stopping' = [stopping EXCEPT ![w] = TRUE]
    /\ UNCHANGED <<tableVars, status, lease, recovered, pc, job, stuck,
                   cancelling, disruptions, outruns>>

Vanish(w) ==
    /\ pc' = [pc EXCEPT ![w] = "down"]
    /\ job' = [job EXCEPT ![w] = NoJob]
    /\ stopping' = [stopping EXCEPT ![w] = FALSE]
    /\ stuck' = [stuck EXCEPT ![w] = [s \in Scans |-> {}]]
    /\ UNCHANGED <<tableVars, status, lease, recovered, cancelling, stops, outruns>>

\* Mutant of Exit: stop() does not await the job loop.
ExitAtOnce(w) == pc[w] # "down" /\ stopping[w] /\ Vanish(w) /\ UNCHANGED disruptions

\* The loop sees is_running cleared between two jobs and the process exits.
Exit(w) ==
    /\ pc[w] = "idle"
    /\ stopping[w]
    /\ Vanish(w)
    /\ UNCHANGED disruptions

\* The process dies: whatever it was doing stays undone.
Crash(w) ==
    /\ pc[w] # "down"
    /\ disruptions < MaxDisruptions
    /\ disruptions' = disruptions + 1
    /\ Vanish(w)

LeaseLapses(j) ==
    /\ status[j] = "running"
    /\ lease[j] = "fresh"
    /\ lease' = [lease EXCEPT ![j] = "stale"]
    /\ UNCHANGED <<tableVars, status, recovered, workerVars, cancelling,
                   disruptions, stops>>

\* Nobody is left to renew the lease.
OrphanLapses(j) ==
    /\ \A w \in Workers : ~Holds(w, j)
    /\ LeaseLapses(j)
    /\ UNCHANGED outruns

\* A handler works for longer than the lease between two heartbeats.
HandlerOutrunsLease(j) ==
    /\ \E w \in Workers : Holds(w, j)
    /\ outruns < MaxOutruns
    /\ outruns' = outruns + 1
    /\ LeaseLapses(j)

-----------------------------------------------------------------------------
(* The specification *)

ApiStep ==
    \/ \E u \in Users, t \in JobType : Submit(u, t)
    \/ \E c \in Clients : CancelWrite(c) \/ \E j \in Jobs : CancelRead(c, j)

ScanStep(w) ==
    \/ StartupScan(w) \/ StartupReset(w)
    \/ HousekeepingScan(w) \/ HousekeepingReset(w)

LoopStep(w) ==
    \/ Claim(w) \/ Execute(w) \/ Heartbeat(w)
    \/ HandlerReturns(w) \/ HandlerRaises(w)
    \/ RecordSuccess(w) \/ RecordFailure(w) \/ LoseFailure(w) \/ Chain(w)

ProcessStep(w) == StartProcess(w) \/ Stop(w) \/ Exit(w) \/ Crash(w)

LeaseStep == \E j \in Jobs : OrphanLapses(j) \/ HandlerOutrunsLease(j)

Next ==
    \/ ApiStep
    \/ \E w \in Workers : ScanStep(w) \/ LoopStep(w) \/ ProcessStep(w)
    \/ LeaseStep

\* The event loop keeps running, containers restart on exit, time passes.
Fairness ==
    /\ \A w \in Workers :
        /\ WF_vars(StartProcess(w))
        /\ WF_vars(StartupScan(w))
        /\ WF_vars(StartupReset(w))
        /\ WF_vars(HousekeepingScan(w))
        /\ WF_vars(HousekeepingReset(w))
        /\ WF_vars(Claim(w))
        /\ WF_vars(Execute(w))
        /\ WF_vars(HandlerReturns(w) \/ HandlerRaises(w))
        /\ WF_vars(RecordSuccess(w))
        /\ WF_vars(RecordFailure(w))
        /\ WF_vars(Chain(w))
        /\ WF_vars(Exit(w))
    /\ \A j \in Jobs : WF_vars(OrphanLapses(j))

Spec == Init /\ [][Next]_vars

FairSpec == Spec /\ Fairness

-----------------------------------------------------------------------------
(* Correctness *)

\* At most one queued or running row per (username, type), whatever inserts,
\* claims, cancels and crash-recovery resets interleave
\* (ix_jobs_active_username, models.py).
OneActivePerSlot ==
    \A j, k \in 1..inserted :
        j # k /\ status[j] \in Active /\ status[k] \in Active => ~SameSlot(j, k)

\* Two workers run the same job only after a recovery scan put that job back
\* to queued: claims alone never hand one job to two workers.
ClaimExclusive ==
    \A j \in Jobs, v, w \in Workers :
        v # w /\ Holds(v, j) /\ Holds(w, j) => j \in recovered

\* A row that says running, and that no scan has touched, has a worker behind
\* it as long as no process died and no failure write was lost: an orderly
\* stop, a cancel or a discarded completion leaves no orphan.
RunningIsHeld ==
    \A j \in 1..inserted :
        status[j] = "running" /\ j \notin recovered /\ disruptions = 0
            => \E w \in Workers : Holds(w, j)

\* A job becomes succeeded or failed only from running, under a worker that
\* was holding it: a late completion never overwrites a cancel, a reset or an
\* earlier outcome (the guarded UPDATEs of execute_job).
FinishedOnlyFromRunning ==
    [][\A j \in Jobs :
        status'[j] \in {"succeeded", "failed"} /\ status'[j] # status[j] =>
            /\ status[j] = "running"
            /\ \E w \in Workers : Holds(w, j) /\ ~Holds(w, j)']_vars

\* Every queued job is eventually finished, failed or canceled, although
\* processes die, stop, lose failure writes and outrun leases finitely often.
EveryJobSettles ==
    \A j \in Jobs : status[j] = "queued" ~> status[j] \in Terminal

=============================================================================
