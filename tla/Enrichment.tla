----------------------------- MODULE Enrichment -----------------------------
(***************************************************************************)
(* What the diagnosis jobs do with the language model: a run of a job      *)
(* diagnoses its user's pending puzzles, one model call each, and then     *)
(* names up to a batch of the puzzles that still carry a computed name.    *)
(* Every call is an audit row, and the audit rows are the budget: the      *)
(* daily caps are counted from the committed rows, once before a pass and  *)
(* again after each commit, and tracked locally in between.  A worker      *)
(* re-queues an auto-chained job while work is pending, unless naming is   *)
(* backed off.                                                             *)
(*                                                                         *)
(* A user has one active job, but may have several runs.  A diagnosis      *)
(* renews the lease of its job at every puzzle; naming never does, so its  *)
(* job can be taken back and run again while it goes on (Outrun).  A       *)
(* canceled job makes room for another at once, while its run goes on to   *)
(* the next heartbeat, and one that is naming to its end (Cancel).         *)
(*                                                                         *)
(* A behaviour fits in one day, so no row leaves the budget window, and no *)
(* puzzle is saved in it; every puzzle has a statistics row.  The order in *)
(* which a run diagnoses, and in which queued jobs are claimed, is left    *)
(* open; naming goes by created_at, the order of the puzzle numbers.       *)
(***************************************************************************)
EXTENDS Integers, FiniteSetsExt

CONSTANTS
    Users,
    NoUser,          \* whose run an idle worker has
    Workers,
    Puzzles,         \* a set of numbers, in the order of created_at
    Owner,           \* Owner[p]: the user p belongs to
    Evidence,        \* Evidence[p]: what the board analysis finds in p
    NoPosition,      \* puzzles with nothing to name them from
    UserTitled,      \* puzzles saved with a name the user typed
    Responses,       \* what may come of a call to the model
    KeyPresent,      \* whether ANTHROPIC_API_KEY is set
    CapUser, CapGlobal,      \* calls a day, per call type
    CommitInterval, NamingBatchMax,
    ErrorStreakLimit,
    Budget           \* how many events of each kind a behaviour may have

CallType == {"diagnosis", "naming"}
\* A request for a job; a cancel, a crash, a lapsed lease, a conflict, time passing.
Event == {"trigger", "mishap"}

ASSUME EnrichmentAssumption ==
    /\ IsFiniteSet(Users) /\ Users # {} /\ NoUser \notin Users
    /\ IsFiniteSet(Workers) /\ Workers # {}
    /\ IsFiniteSet(Puzzles) /\ Puzzles \subseteq Nat
    /\ Owner \in [Puzzles -> Users]
    /\ Evidence \in [Puzzles -> {"ranked", "thin", "unavailable"}]
    /\ NoPosition \subseteq Puzzles /\ UserTitled \subseteq Puzzles
    /\ Responses \subseteq {"accepted", "rejected", "error"}
    /\ KeyPresent \in BOOLEAN
    /\ CapUser \in [CallType -> Nat \ {0}] /\ CapGlobal \in [CallType -> Nat \ {0}]
    /\ CommitInterval \in Nat \ {0} /\ NamingBatchMax \in Nat \ {0}
    /\ ErrorStreakLimit \in Nat \ {0}
    /\ Budget \in [Event -> Nat]

Own(u) == {p \in Puzzles : Owner[p] = u}
Scope == {"pending", "reenrich"}
Job == [phase : {"idle", "queued", "running"}, scope : Scope, auto_chain : BOOLEAN]
Phase == {"idle", "claimed", "selected", "diagnosing", "diagnosed", "listed", "naming",
          "ended", "chaining"}
Run == [phase : Phase, user : Users \union {NoUser}, scope : Scope,
        row : {"current", "over", "canceled"}]
Diagnosis == {"none", "rules", "llm", "unavailable"}
Answered == {"accepted", "rejected"}   \* the billed statuses
SumOver(f) == MapThenSumSet(LAMBDA x : f[x], DOMAIN f)

VARIABLES
    diagnosis,   \* diagnosis[p]: the puzzle_diagnoses row of p
    title,       \* title[p]: title_source of p, "position" when it has no title
    billed,      \* billed[t][u]: audit rows of type t and user u that count
    answered,    \* puzzles with an accepted or rejected naming row
    streak,      \* streak[u]: naming failures since the last answer, at most the limit
    fresh,       \* fresh[u]: the newest of them is within the cooldown
    job,         \* job[u]: the user's active job row, "idle" when there is none
    run,         \* run[w]: what worker w executes, and what became of the row it claimed
    todo,        \* todo[w]: puzzles its pass has still to visit
    budget,      \* budget[w]: what the pass believes to be spent
    uncommitted, \* uncommitted[w]: what its session has written since the commit
    steps,       \* steps[w]: puzzles visited since the commit (naming: named)
    paid,        \* paid[t][u]: calls of type t the model answered (history)
    losses,      \* losses[t][u]: sessions lost with such calls in them (history)
    strays,      \* strays[u]: jobs taken from a run that went on (history)
    left         \* events of each kind still allowed

storeVars == <<diagnosis, title, billed, answered, streak, fresh>>
passVars == <<todo, budget, uncommitted, steps>>
historyVars == <<paid, losses, strays>>
vars == <<storeVars, job, run, passVars, historyVars, left>>

Clean == [diagnosis |-> [p \in {} |-> "none"], created |-> {}, named |-> {}, calls |-> 0,
          answered |-> {}, failures |-> 0, cleared |-> FALSE]
Unread == [user |-> 0, global |-> 0]
NoJob == [phase |-> "idle", scope |-> "pending", auto_chain |-> FALSE]
Off == [phase |-> "idle", user |-> NoUser, scope |-> "pending", row |-> "over"]
Spent == [user : Nat, global : Nat]

TypeOK ==
    /\ diagnosis \in [Puzzles -> Diagnosis]
    /\ title \in [Puzzles -> {"position", "ai", "user"}]
    /\ billed \in [CallType -> [Users -> Nat]] /\ paid \in [CallType -> [Users -> Nat]]
    /\ losses \in [CallType -> [Users -> Nat]] /\ strays \in [Users -> Nat]
    /\ answered \subseteq Puzzles
    /\ streak \in [Users -> 0..ErrorStreakLimit] /\ fresh \in [Users -> BOOLEAN]
    /\ job \in [Users -> Job]
    /\ run \in [Workers -> Run]
    /\ todo \in [Workers -> SUBSET Puzzles]
    /\ budget \in [Workers -> Spent]
    /\ \A w \in Workers :
          /\ run[w].phase = "idle" <=> run[w].user = NoUser
          /\ uncommitted[w].calls \in Nat
          /\ uncommitted[w].answered \subseteq Own(run[w].user)
          /\ uncommitted[w].failures \in 0..ErrorStreakLimit
          /\ uncommitted[w].named \subseteq Own(run[w].user)
          /\ run[w].phase \notin {"diagnosing", "naming"} => uncommitted[w] = Clean
    /\ steps \in [Workers -> Nat]
    /\ left \in [Event -> Nat]

Init ==
    /\ diagnosis = [p \in Puzzles |-> "none"]
    /\ title = [p \in Puzzles |-> IF p \in UserTitled THEN "user" ELSE "position"]
    /\ billed = [t \in CallType |-> [u \in Users |-> 0]]
    /\ answered = {}
    /\ streak = [u \in Users |-> 0] /\ fresh = [u \in Users |-> FALSE]
    /\ job = [u \in Users |-> NoJob]
    /\ run = [w \in Workers |-> Off]
    /\ todo = [w \in Workers |-> {}]
    /\ budget = [w \in Workers |-> Unread]
    /\ uncommitted = [w \in Workers |-> Clean]
    /\ steps = [w \in Workers |-> 0]
    /\ paid = [t \in CallType |-> [u \in Users |-> 0]] /\ losses = paid
    /\ strays = [u \in Users |-> 0]
    /\ left = Budget

Spend(e) == left[e] > 0 /\ left' = [left EXCEPT ![e] = @ - 1]

-----------------------------------------------------------------------------
(* The ledger *)

Budget24h(u, t) == [user |-> billed[t][u], global |-> SumOver(billed[t])]

Exhausted(w, t) == budget[w].user >= CapUser[t] \/ budget[w].global >= CapGlobal[t]

SpendNothing(b) == b          \* the new Budget is not kept
SpendOne(b) == [user |-> b.user + 1, global |-> b.global + 1]

RetryIsBackedOff(u) == streak[u] >= ErrorStreakLimit /\ fresh[u]

PendingDiagnosis(u) == {p \in Own(u) : diagnosis[p] = "none"}
Unenriched(u) == {p \in Own(u) : diagnosis[p] = "rules"}
Unnamed(u) == {p \in Own(u) : title[p] = "position"}
PendingNaming(u) == Unnamed(u) \ answered

\* The tables the session's rows belong to.
WriteRows(s) ==
    /\ diagnosis' = [p \in Puzzles |-> IF p \in DOMAIN s.diagnosis THEN s.diagnosis[p] ELSE diagnosis[p]]
    /\ title' = [p \in Puzzles |-> IF p \in s.named THEN "ai" ELSE title[p]]

\* The audit rows are written in a transaction that is never committed.
CommitRowsOnly(w, t) ==
    /\ WriteRows(uncommitted[w])
    /\ uncommitted' = [uncommitted EXCEPT ![w] = Clean]
    /\ UNCHANGED <<billed, answered, streak, fresh>>

\* The session's commit: rows and audit rows reach the tables together.  A
\* naming answer clears the failures before it; every failure is a new row.
CommitSession(w, t) ==
    LET s == uncommitted[w]
        u == run[w].user
        failures == IF s.cleared THEN s.failures ELSE streak[u] + s.failures IN
    /\ WriteRows(s)
    /\ billed' = [billed EXCEPT ![t][u] = @ + s.calls]
    /\ answered' = answered \union s.answered
    /\ streak' = [streak EXCEPT ![u] = Min({failures, ErrorStreakLimit})]
    /\ fresh' = [fresh EXCEPT ![u] = s.failures > 0 \/ (@ /\ ~s.cleared)]
    /\ uncommitted' = [uncommitted EXCEPT ![w] = Clean]

\* A rollback, or the death of the process: the calls were made all the same.
LoseSession(w, t) ==
    /\ losses' = [losses EXCEPT ![t][run[w].user] = @ + (IF uncommitted[w].calls > 0 THEN 1 ELSE 0)]
    /\ uncommitted' = [uncommitted EXCEPT ![w] = Clean]

-----------------------------------------------------------------------------
(* The job row and its runs *)

\* The runs whose row is the user's active job.
Runs(u) == {w \in Workers : run[w].user = u /\ run[w].row = "current"}

Others(w) == Runs(run[w].user) \ {w}

Queued(scope, auto_chain) == [phase |-> "queued", scope |-> scope, auto_chain |-> auto_chain]

SetPhase(w, phase) == run' = [run EXCEPT ![w].phase = phase]

\* The runs in ws find their row in another state, and w goes on with r.
Part(ws, row, w, r) ==
    run' = [x \in Workers |-> IF x = w THEN r
                              ELSE IF x \in ws THEN [run[x] EXCEPT !.row = row] ELSE run[x]]

\* Puzzle generation, the sweep: an auto-chained job, unless one is active.
Trigger(u) ==
    /\ Spend("trigger")
    /\ job[u].phase = "idle"
    /\ job' = [job EXCEPT ![u] = Queued("pending", TRUE)]
    /\ UNCHANGED <<storeVars, run, passVars, historyVars>>

\* POST /users/{username}/diagnose.
Diagnose(u, scope) ==
    /\ Spend("trigger")
    /\ job[u].phase = "idle"
    /\ job' = [job EXCEPT ![u] = Queued(scope, FALSE)]
    /\ UNCHANGED <<storeVars, run, passVars, historyVars>>

\* POST /jobs/{id}/cancel.  What runs the job learns of it at a heartbeat.
Cancel(u) ==
    /\ Spend("mishap")
    /\ job[u].phase # "idle"
    /\ job' = [job EXCEPT ![u] = NoJob]
    /\ run' = [w \in Workers |-> IF w \in Runs(u) THEN [run[w] EXCEPT !.row = "canceled"] ELSE run[w]]
    /\ strays' = [strays EXCEPT ![u] = IF job[u].phase = "running" /\ Runs(u) # {} THEN @ + 1 ELSE @]
    /\ UNCHANGED <<storeVars, passVars, paid, losses>>

Claim(w, u) ==
    /\ run[w].phase = "idle" /\ job[u].phase = "queued"
    /\ job' = [job EXCEPT ![u].phase = "running"]
    /\ run' = [run EXCEPT ![w] = [phase |-> "claimed", user |-> u, scope |-> job[u].scope,
                                 row |-> "current"]]
    /\ UNCHANGED <<storeVars, passVars, historyVars, left>>

\* cleanup_stuck_jobs, in a worker that does not execute the job: nobody has
\* renewed the lease of a job whose run is naming.
Outrun(u) ==
    /\ Spend("mishap")
    /\ job[u].phase = "running" /\ Runs(u) # {} /\ Workers \ Runs(u) # {}
    /\ \A w \in Runs(u) : run[w].phase = "naming"
    /\ job' = [job EXCEPT ![u].phase = "queued"]
    /\ strays' = [strays EXCEPT ![u] = @ + 1]
    /\ UNCHANGED <<storeVars, run, passVars, paid, losses>>

\* cleanup_stuck_jobs: the lease of a dead worker's job lapses.
Recover(u) ==
    /\ job[u].phase = "running" /\ Runs(u) = {}
    /\ job' = [job EXCEPT ![u].phase = "queued"]
    /\ UNCHANGED <<storeVars, run, passVars, historyVars, left>>

\* The terminal write, guarded by the status, of a run that goes on with r.
Settle(w, r) ==
    LET u == run[w].user IN
    IF w \in Runs(u) /\ job[u].phase = "running"
    THEN /\ job' = [job EXCEPT ![u] = NoJob]
         /\ Part(Others(w), "over", w, r)
    ELSE /\ run' = [run EXCEPT ![w] = Off]
         /\ UNCHANGED job

-----------------------------------------------------------------------------
(* run_diagnosis *)

\* The list of the puzzles to diagnose; without any, naming comes next.
Select(w) ==
    LET u == run[w].user
        pending == IF run[w].scope = "reenrich" THEN Unenriched(u) ELSE PendingDiagnosis(u) IN
    /\ run[w].phase = "claimed"
    /\ SetPhase(w, IF pending = {} THEN "diagnosed" ELSE "selected")
    /\ todo' = [todo EXCEPT ![w] = pending]
    /\ UNCHANGED <<storeVars, job, budget, uncommitted, steps, historyVars, left>>

\* What everybody has spent, as committed: before a pass, and after a commit.
ReadBudget(w, t) ==
    /\ run[w].phase = (IF t = "diagnosis" THEN "selected" ELSE "listed")
    /\ SetPhase(w, IF t = "diagnosis" THEN "diagnosing" ELSE "naming")
    /\ budget' = [budget EXCEPT ![w] = Budget24h(run[w].user, t)]
    /\ UNCHANGED <<storeVars, job, todo, uncommitted, steps, historyVars, left>>

\* The outcomes a diagnosis of p may have: "exhausted" and "skipped" are not
\* calls, and a call is answered or fails.
DiagnosisOutcome(w, p) ==
    IF Evidence[p] = "unavailable" THEN {"unavailable"}
    ELSE IF ~KeyPresent THEN {"skipped"}
    ELSE IF Exhausted(w, "diagnosis") THEN {"exhausted"}
    ELSE IF Evidence[p] = "thin" THEN {"skipped"}
    ELSE Responses

Attempted(outcome) == outcome \in Answered \union {"error"}

StoredDiagnosis(outcome) ==
    CASE outcome = "unavailable" -> "unavailable"
      [] outcome = "accepted" -> "llm"
      [] OTHER -> "rules"

\* The session writes the columns that differ from the row it loaded.
Upserted(s, p, stored) ==
    IF diagnosis[p] = stored THEN s
    ELSE [s EXCEPT !.diagnosis = [q \in DOMAIN @ \union {p} |-> IF q = p THEN stored ELSE @[q]],
                   !.created = IF diagnosis[p] = "none" THEN @ \union {p} ELSE @]

\* _persist_attempt, and the upsert.
Visited(s, p, outcome) ==
    [Upserted(s, p, StoredDiagnosis(outcome)) EXCEPT
        !.calls = IF outcome \in Answered THEN @ + 1 ELSE @]

\* One turn of the loop that is no commit point: a heartbeat, and a puzzle.
DiagnoseOne(w, p, outcome) ==
    /\ run[w].phase = "diagnosing" /\ run[w].row # "canceled"
    /\ p \in todo[w] /\ steps[w] < CommitInterval
    /\ outcome \in DiagnosisOutcome(w, p)
    /\ todo' = [todo EXCEPT ![w] = @ \ {p}]
    /\ steps' = [steps EXCEPT ![w] = @ + 1]
    /\ budget' = [budget EXCEPT ![w] = IF Attempted(outcome) THEN SpendOne(@) ELSE @]
    /\ uncommitted' = [uncommitted EXCEPT ![w] = Visited(@, p, outcome)]
    /\ paid' = [paid EXCEPT !["diagnosis"][run[w].user] = IF outcome \in Answered THEN @ + 1 ELSE @]
    /\ UNCHANGED <<storeVars, job, run, losses, strays, left>>

\* Another run has committed a row that this session inserts: IntegrityError.
Conflicts(w) == \E p \in uncommitted[w].created : diagnosis[p] # "none"

Diagnosing(w) == run[w].phase = "diagnosing"
ChunkFull(w) == Diagnosing(w) /\ steps[w] = CommitInterval
AllVisited(w) == Diagnosing(w) /\ steps[w] < CommitInterval /\ todo[w] = {}
CancelSeen(w) ==
    Diagnosing(w) /\ steps[w] < CommitInterval /\ todo[w] # {} /\ run[w].row = "canceled"

\* The end of a chunk or of a pass, in phase.
EndPass(w, phase, rest) ==
    /\ SetPhase(w, phase)
    /\ todo' = [todo EXCEPT ![w] = rest]
    /\ budget' = [budget EXCEPT ![w] = Unread]
    /\ steps' = [steps EXCEPT ![w] = 0]

\* A full chunk: commit, and then look again at what everybody has spent.
CommitChunk(w) ==
    /\ ChunkFull(w) /\ ~Conflicts(w)
    /\ CommitSession(w, "diagnosis")
    /\ EndPass(w, "selected", todo[w])
    /\ UNCHANGED <<job, historyVars, left>>

\* The commit after the last puzzle.
FinishDiagnosing(w) ==
    /\ AllVisited(w) /\ ~Conflicts(w)
    /\ CommitSession(w, "diagnosis")
    /\ EndPass(w, "diagnosed", {})
    /\ UNCHANGED <<job, historyVars, left>>

\* A heartbeat finds the job canceled: what was done is kept, nothing is named.
SeeCancel(w) ==
    /\ CancelSeen(w) /\ ~Conflicts(w)
    /\ CommitSession(w, "diagnosis")
    /\ EndPass(w, "ended", {})
    /\ UNCHANGED <<job, historyVars, left>>

\* What an idle worker has left of a run.
Forget(w) ==
    /\ todo' = [todo EXCEPT ![w] = {}]
    /\ budget' = [budget EXCEPT ![w] = Unread]
    /\ steps' = [steps EXCEPT ![w] = 0]

\* The commit fails, and with it the job.
FailDiagnosing(w) ==
    /\ ChunkFull(w) \/ AllVisited(w) \/ CancelSeen(w)
    /\ Conflicts(w)
    /\ LoseSession(w, "diagnosis")
    /\ Settle(w, Off)
    /\ Forget(w)
    /\ UNCHANGED <<storeVars, paid, strays, left>>

-----------------------------------------------------------------------------
(* name_puzzles *)

\* _name_new_puzzles: what follows the diagnoses of a run that saw no cancel.
BeginNaming(w) ==
    LET u == run[w].user IN
    /\ run[w].phase = "diagnosed"
    /\ IF RetryIsBackedOff(u)
       THEN SetPhase(w, "ended") /\ UNCHANGED todo
       ELSE /\ SetPhase(w, "listed")
            /\ todo' = [todo EXCEPT ![w] = Unnamed(u)]
    /\ UNCHANGED <<storeVars, job, budget, uncommitted, steps, historyVars, left>>

\* Names given in one pass, whatever their source, count against the limit.
Naming(w) == run[w].phase = "naming" /\ todo[w] # {} /\ steps[w] < NamingBatchMax

NameNext(w, record) ==
    /\ todo' = [todo EXCEPT ![w] = @ \ {Min(@)}]
    /\ steps' = [steps EXCEPT ![w] = @ + 1]
    /\ uncommitted' = [uncommitted EXCEPT ![w] = record]
    /\ UNCHANGED <<storeVars, job, run, losses, strays, left>>

Failed(record) == [record EXCEPT !.failures = Min({@ + 1, ErrorStreakLimit})]

\* The budget is spent: the computed name, and a skip row until the rows open
\* the user's breaker.
NameExhausted(w) ==
    /\ Naming(w) /\ Exhausted(w, "naming")
    /\ NameNext(w, Failed(uncommitted[w]))
    /\ UNCHANGED <<budget, paid>>

\* No key, or no position: skipped with a row.
NameSkipped(w) ==
    /\ Naming(w) /\ ~Exhausted(w, "naming")
    /\ ~KeyPresent \/ Min(todo[w]) \in NoPosition
    /\ NameNext(w, Failed(uncommitted[w]))
    /\ UNCHANGED <<budget, paid>>

NameCalled(w, status) ==
    LET p == Min(todo[w]) IN
    /\ Naming(w) /\ ~Exhausted(w, "naming")
    /\ KeyPresent /\ p \notin NoPosition
    /\ IF status = "error"
       THEN /\ NameNext(w, Failed(uncommitted[w]))
            /\ UNCHANGED <<budget, paid>>
       ELSE /\ NameNext(w, [uncommitted[w] EXCEPT
                  !.named = IF status = "accepted" THEN @ \union {p} ELSE @,
                  !.calls = @ + 1, !.answered = @ \union {p}, !.failures = 0, !.cleared = TRUE])
            /\ budget' = [budget EXCEPT ![w] = SpendOne(@)]
            /\ paid' = [paid EXCEPT !["naming"][run[w].user] = @ + 1]

PassOver(w) == run[w].phase = "naming" /\ (todo[w] = {} \/ steps[w] = NamingBatchMax)

CommitNames(w) ==
    /\ PassOver(w)
    /\ CommitSession(w, "naming")
    /\ EndPass(w, "ended", {})
    /\ UNCHANGED <<job, historyVars, left>>

\* A title was taken by somebody else since it was chosen: IntegrityError.
LoseNames(w) ==
    /\ Spend("mishap")
    /\ PassOver(w) /\ steps[w] > 0
    /\ LoseSession(w, "naming")
    /\ EndPass(w, "ended", {})
    /\ UNCHANGED <<storeVars, job, paid, strays>>

-----------------------------------------------------------------------------
(* The worker *)

\* The job succeeded, unless it is no longer this run's to settle.
RecordSuccess(w) ==
    /\ run[w].phase = "ended"
    /\ Settle(w, IF job[run[w].user].auto_chain
                 THEN [run[w] EXCEPT !.phase = "chaining", !.row = "over"] ELSE Off)
    /\ UNCHANGED <<storeVars, passVars, historyVars, left>>

\* Without the breaker.
ProgressingAlways(u) == PendingNaming(u)

Progressing(u) == IF RetryIsBackedOff(u) THEN {} ELSE PendingNaming(u)

\* An auto-chained job is followed by another while work remains, unless one is
\* active already.
EnqueueRemaining(w) ==
    LET u == run[w].user IN
    /\ run[w].phase = "chaining"
    /\ job' = [job EXCEPT ![u] = IF @.phase = "idle" /\ PendingDiagnosis(u) \union Progressing(u) # {}
                                THEN Queued("pending", TRUE) ELSE @]
    /\ run' = [run EXCEPT ![w] = Off]
    /\ UNCHANGED <<storeVars, passVars, historyVars, left>>

\* The process dies with whatever it was doing, and is started again.
Crash(w) ==
    /\ Spend("mishap")
    /\ run[w].phase # "idle"
    /\ LoseSession(w, IF run[w].phase = "naming" THEN "naming" ELSE "diagnosis")
    /\ run' = [run EXCEPT ![w] = Off]
    /\ Forget(w)
    /\ UNCHANGED <<storeVars, job, paid, strays>>

\* ERROR_STREAK_COOLDOWN passes without a new failure.
CooldownEnds(u) ==
    /\ Spend("mishap")
    /\ fresh[u]
    /\ fresh' = [fresh EXCEPT ![u] = FALSE]
    /\ UNCHANGED <<diagnosis, title, billed, answered, streak, job, run, passVars, historyVars>>

Step(w) ==
    \/ \E u \in Users : Claim(w, u)
    \/ Select(w) \/ \E t \in CallType : ReadBudget(w, t)
    \/ \E p \in Puzzles, o \in Responses \union {"exhausted", "skipped", "unavailable"} :
          DiagnoseOne(w, p, o)
    \/ CommitChunk(w) \/ FinishDiagnosing(w) \/ SeeCancel(w) \/ FailDiagnosing(w)
    \/ BeginNaming(w) \/ NameExhausted(w) \/ NameSkipped(w)
    \/ \E s \in Responses : NameCalled(w, s)
    \/ CommitNames(w) \/ RecordSuccess(w) \/ EnqueueRemaining(w)

Next ==
    \/ \E w \in Workers : Step(w) \/ LoseNames(w) \/ Crash(w)
    \/ \E u \in Users :
        \/ Trigger(u) \/ \E scope \in Scope : Diagnose(u, scope)
        \/ Cancel(u) \/ Outrun(u) \/ Recover(u) \/ CooldownEnds(u)

\* A worker process runs the jobs it claims, a model call returns within its
\* timeout, and the hourly recovery finds a job that nobody runs.
Spec ==
    /\ Init /\ [][Next]_vars
    /\ \A w \in Workers : WF_vars(Step(w))
    /\ \A u \in Users : WF_vars(Recover(u))

-----------------------------------------------------------------------------
(* Properties *)

Chunk(t) == IF t = "diagnosis" THEN CommitInterval ELSE NamingBatchMax

\* The calls the model answers are bounded by the daily caps.  A user's exceed
\* the user's cap by at most a chunk for each time a run went on after its job
\* was taken from it, since the next run counts without what that one has not
\* committed; the calls of all users exceed the global cap by at most a chunk
\* for each other worker; each lost session costs its chunk once more
\* (budget_last_24h, and the local budgets of run_diagnosis and name_puzzles
\* between commits).
SpendIsBounded ==
    \A t \in CallType :
        /\ \A u \in Users : paid[t][u] <= CapUser[t] + (strays[u] + losses[t][u]) * Chunk(t)
        /\ SumOver(paid[t]) <= CapGlobal[t] + (Cardinality(Workers) - 1 + SumOver(losses[t])) * Chunk(t)

\* Nothing the model wrote is stored without the audit row that counts it: a
\* name given by the model is an answered puzzle, and there are no more
\* model-written diagnoses or names than calls counted (one commit per session).
StoredIsAccounted ==
    \A u \in Users :
        /\ {p \in Own(u) : title[p] = "ai"} \subseteq answered
        /\ Cardinality(answered \intersect Own(u)) <= billed["naming"][u]
        /\ Cardinality({p \in Own(u) : diagnosis[p] = "llm"}) <= billed["diagnosis"][u]

\* A chain of jobs comes to an end by itself, with the model refusing, failing
\* or answering: each job removes pending work, spends budget or writes the
\* failures that open the breaker
\* (_enqueue_remaining_diagnosis_if_pending, retry_is_backed_off).
ChainStops == \A u \in Users : <>[](job[u].phase = "idle")

=============================================================================
