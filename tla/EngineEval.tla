----------------------------- MODULE EngineEval -----------------------------
(* Position evaluation (engine/stockfish.py, engine_routes.py): requests to
   /engine/eval and generation batches call get_or_compute_eval, which looks
   into the shared table of evaluations and otherwise runs Stockfish, within
   the permits and the thread pool of its process.

   A position stands for a normalised FEN with depth and options; an evaluation
   is the version of the engine that computed it. *)
EXTENDS Integers, FiniteSets

CONSTANTS
    Requests,     \* callers that come through POST /engine/eval
    Batches,      \* generation batches, which own a long-lived engine
    Procs,        \* processes
    Home,         \* the process of each caller
    Positions,
    Terminal,     \* positions in which the game is over
    Versions,     \* engine versions that may be installed
    MaxInflight,  \* _ENGINE_EVAL_MAX_INFLIGHT
    Permits,      \* STOCKFISH_MAX_CONCURRENCY
    PoolSize,     \* threads of _EVAL_EXECUTOR
    MaxCalls,     \* bound: calls
    MaxFaults,    \* bound: other faults than timeouts
    MaxDeploys,   \* bound: restarts of a process
    None

Callers == Requests \cup Batches

ASSUME CallersAssumption == Requests \cap Batches = {} /\ IsFiniteSet(Callers)
ASSUME HomeAssumption == Home \in [Callers -> Procs]
ASSUME LimitsAssumption ==
    {MaxInflight, Permits, PoolSize} \subseteq Nat \ {0} /\ PoolSize > Permits
ASSUME BoundsAssumption == {MaxCalls, MaxFaults, MaxDeploys} \subseteq Nat
ASSUME TerminalAssumption == Terminal \subseteq Positions

Unknown == "unknown"                    \* UNKNOWN_ENGINE_VERSION

ASSUME VersionsAssumption ==
    Unknown \notin Versions /\ None \notin Versions \cup {Unknown}

Key == Positions \X (Versions \cup {Unknown})

VARIABLES
    installed,  \* the engine binary of each process
    memo,       \* _ENGINE_VERSION_CACHE
    inflight,   \* _engine_eval_inflight
    permits,    \* _EVAL_SEMAPHORE
    lingering,  \* threads whose engine was killed and which did not return
    cache,      \* fen_eval_cache: key -> version that computed the row
    pc, key, result,
    engine,     \* the caller's engine: "none", "live" or "dead"
    attended,   \* the coroutine behind a request still awaits its thread
    calls, faults, deploys

vars == <<installed, memo, inflight, permits, lingering, cache, pc, key,
          result, engine, attended, calls, faults, deploys>>

Phases == {"idle", "version", "probe", "lookup", "acquire", "create", "submit",
           "queued", "running", "release", "store", "answer"}

Holding == {"create", "submit", "queued", "running", "release"}

Of(p, phases) == {c \in Callers : Home[c] = p /\ pc[c] \in phases}

NoCall == <<None, None>>

Init ==
    /\ installed \in [Procs -> Versions]
    /\ memo = [p \in Procs |-> None]
    /\ inflight = [p \in Procs |-> 0]
    /\ permits = [p \in Procs |-> Permits]
    /\ lingering = [p \in Procs |-> 0]
    /\ cache = [k \in Key |-> None]
    /\ pc = [c \in Callers |-> "idle"]
    /\ key = [c \in Callers |-> NoCall]
    /\ result = [c \in Callers |-> None]
    /\ engine = [c \in Callers |-> IF c \in Batches THEN "live" ELSE "none"]
    /\ attended = [c \in Callers |-> TRUE]
    /\ calls = 0
    /\ faults = 0
    /\ deploys = 0

Fault == faults < MaxFaults /\ faults' = faults + 1

To(c, phase) == pc' = [pc EXCEPT ![c] = phase]

-----------------------------------------------------------------------------
(* A call. *)

\* The route: an oversized FEN and a full process are refused at once.
Receive(c, f) ==
    /\ c \in Requests /\ pc[c] = "idle" /\ calls < MaxCalls
    /\ inflight[Home[c]] < MaxInflight
    /\ calls' = calls + 1
    /\ inflight' = [inflight EXCEPT ![Home[c]] = @ + 1]
    /\ key' = [key EXCEPT ![c] = <<f, None>>]
    /\ To(c, "version")
    /\ UNCHANGED <<installed, memo, permits, lingering, cache, result, engine,
                   attended, faults, deploys>>

\* A batch evaluates its next position; it gets a new engine when a timeout
\* killed the last one.
NextPosition(c, f) ==
    /\ c \in Batches /\ pc[c] = "idle" /\ calls < MaxCalls
    /\ calls' = calls + 1
    /\ engine' = [engine EXCEPT ![c] = "live"]
    /\ key' = [key EXCEPT ![c] = <<f, None>>]
    /\ To(c, "version")
    /\ UNCHANGED <<installed, memo, inflight, permits, lingering, cache,
                   result, attended, faults, deploys>>

\* Before the version was part of the key.
ResolveNoVersion(c) ==
    /\ pc[c] = "version"
    /\ key' = [key EXCEPT ![c][2] = CHOOSE v \in Versions : TRUE]
    /\ To(c, "lookup")
    /\ UNCHANGED <<installed, memo, inflight, permits, lingering, cache,
                   result, engine, attended, calls, faults, deploys>>

\* The version for the key: the live engine's, else the memo's, else a probe's.
\* The probe takes no permit.
ResolveVersion(c) ==
    /\ pc[c] = "version"
    /\ LET known == IF c \in Batches THEN installed[Home[c]] ELSE memo[Home[c]]
       IN  /\ key' = [key EXCEPT ![c][2] = known]
           /\ To(c, IF known = None THEN "probe" ELSE "lookup")
    /\ UNCHANGED <<installed, memo, inflight, permits, lingering, cache,
                   result, engine, attended, calls, faults, deploys>>

Probe(c) ==
    /\ pc[c] = "probe"
    /\ \/ key' = [key EXCEPT ![c][2] = installed[Home[c]]] /\ UNCHANGED faults
       \/ key' = [key EXCEPT ![c][2] = Unknown] /\ Fault
    /\ memo' = [memo EXCEPT ![Home[c]] = key'[c][2]]
    /\ To(c, "lookup")
    /\ UNCHANGED <<installed, inflight, permits, lingering, cache, result,
                   engine, attended, calls, deploys>>

\* A failing lookup counts as a miss.
LookUp(c) ==
    /\ pc[c] = "lookup"
    /\ \/ /\ cache[key[c]] # None
          /\ result' = [result EXCEPT ![c] = cache[key[c]]]
          /\ To(c, "answer")
          /\ UNCHANGED faults
       \/ /\ cache[key[c]] = None \/ faults < MaxFaults
          /\ faults' = IF cache[key[c]] = None THEN faults ELSE faults + 1
          /\ To(c, "acquire")
          /\ UNCHANGED result
    /\ UNCHANGED <<installed, memo, inflight, permits, lingering, cache, key,
                   engine, attended, calls, deploys>>

\* _EVAL_SEMAPHORE.acquire(timeout=...): a permit, or after the wait an error.
Acquire(c) ==
    /\ pc[c] = "acquire"
    /\ \/ /\ permits[Home[c]] > 0
          /\ permits' = [permits EXCEPT ![Home[c]] = @ - 1]
          /\ To(c, IF engine[c] = "none" THEN "create" ELSE "submit")
       \/ /\ permits[Home[c]] = 0
          /\ To(c, "answer")
          /\ UNCHANGED permits
    /\ UNCHANGED <<installed, memo, inflight, lingering, cache, key, result,
                   engine, attended, calls, faults, deploys>>

CreateEngine(c) ==
    /\ pc[c] = "create"
    /\ \/ /\ engine' = [engine EXCEPT ![c] = "live"]
          /\ To(c, "submit")
          /\ UNCHANGED faults
       \/ Fault /\ To(c, "release") /\ UNCHANGED engine
    /\ UNCHANGED <<installed, memo, inflight, permits, lingering, cache, key,
                   result, attended, calls, deploys>>

\* _EVAL_EXECUTOR.submit: the task starts when a thread is free.
FreeThread(p) == Cardinality(Of(p, {"running"})) + lingering[p] < PoolSize

Submit(c) ==
    /\ pc[c] = "submit"
    /\ To(c, IF FreeThread(Home[c]) THEN "running" ELSE "queued")
    /\ UNCHANGED <<installed, memo, inflight, permits, lingering, cache, key,
                   result, engine, attended, calls, faults, deploys>>

StartQueued(c) ==
    /\ pc[c] = "queued" /\ FreeThread(Home[c])
    /\ To(c, "running")
    /\ UNCHANGED <<installed, memo, inflight, permits, lingering, cache, key,
                   result, engine, attended, calls, faults, deploys>>

\* _evaluate_fen_core: a result, or an error (an illegal position, a reply the
\* engine does not give).
Evaluate(c) ==
    /\ pc[c] = "running"
    /\ \/ /\ result' = [result EXCEPT ![c] = installed[Home[c]]]
          /\ UNCHANGED faults
       \/ Fault /\ UNCHANGED result
    /\ To(c, "release")
    /\ UNCHANGED <<installed, memo, inflight, permits, lingering, cache, key,
                   engine, attended, calls, deploys>>

\* future.result(timeout=...) gives up: the engine is killed, which unblocks
\* the thread, or does not.
EvalTimeoutOfStarted(c) ==
    /\ pc[c] = "running"
    /\ engine' = [engine EXCEPT ![c] = "dead"]
    /\ \/ UNCHANGED lingering
       \/ lingering' = [lingering EXCEPT ![Home[c]] = @ + 1]
    /\ To(c, "release")
    /\ UNCHANGED <<installed, memo, inflight, permits, cache, key, result,
                   attended, calls, faults, deploys>>

\* (A task that was still queued is not cancelled: it starts on a dead engine
\* when a thread frees, and fails at once.  That moment is left out.)
EvalTimeout(c) ==
    /\ pc[c] \in {"queued", "running"}
    /\ engine' = [engine EXCEPT ![c] = "dead"]
    /\ \/ UNCHANGED lingering
       \/ /\ pc[c] = "running"
          /\ lingering' = [lingering EXCEPT ![Home[c]] = @ + 1]
    /\ To(c, "release")
    /\ UNCHANGED <<installed, memo, inflight, permits, cache, key, result,
                   attended, calls, faults, deploys>>

\* A worker that lingers after its engine was killed unwinds late.
Unwind(p) ==
    /\ lingering[p] > 0
    /\ lingering' = [lingering EXCEPT ![p] = @ - 1]
    /\ UNCHANGED <<installed, memo, inflight, permits, cache, pc, key, result,
                   engine, attended, calls, faults, deploys>>

\* Both finally clauses: an engine of one's own is closed, the permit returned.
\* A position without a move is not cached.
ReleaseOnSuccess(c) ==
    /\ pc[c] = "release"
    /\ engine' = [engine EXCEPT ![c] = IF c \in Requests THEN "none" ELSE @]
    /\ permits' = IF result[c] # None
                    THEN [permits EXCEPT ![Home[c]] = @ + 1] ELSE permits
    /\ To(c, IF result[c] = None \/ key[c][1] \in Terminal
               THEN "answer" ELSE "store")
    /\ UNCHANGED <<installed, memo, inflight, lingering, cache, key, result,
                   attended, calls, faults, deploys>>

Release(c) ==
    /\ pc[c] = "release"
    /\ engine' = [engine EXCEPT ![c] = IF c \in Requests THEN "none" ELSE @]
    /\ permits' = [permits EXCEPT ![Home[c]] = @ + 1]
    /\ To(c, IF result[c] = None \/ key[c][1] \in Terminal
               THEN "answer" ELSE "store")
    /\ UNCHANGED <<installed, memo, inflight, lingering, cache, key, result,
                   attended, calls, faults, deploys>>

\* The row of a rival wins; a failing insert is only logged.
Store(c) ==
    /\ pc[c] = "store"
    /\ \/ /\ cache' = [cache EXCEPT ![key[c]] = IF @ = None THEN result[c]
                                                            ELSE @]
          /\ result' = [result EXCEPT ![c] = cache'[key[c]]]
          /\ UNCHANGED faults
       \/ Fault /\ UNCHANGED <<cache, result>>
    /\ To(c, "answer")
    /\ UNCHANGED <<installed, memo, inflight, permits, lingering, key, engine,
                   attended, calls, deploys>>

\* The thread returns. The finally of the route lowers the counter.
Answer(c) ==
    /\ pc[c] = "answer"
    /\ inflight' = IF c \in Requests /\ attended[c]
                     THEN [inflight EXCEPT ![Home[c]] = @ - 1] ELSE inflight
    /\ attended' = [attended EXCEPT ![c] = TRUE]
    /\ key' = [key EXCEPT ![c] = NoCall]
    /\ result' = [result EXCEPT ![c] = None]
    /\ To(c, "idle")
    /\ UNCHANGED <<installed, memo, permits, lingering, cache, engine, calls,
                   faults, deploys>>

\* The coroutine is cancelled while it awaits: its finally runs, its thread
\* goes on.
Abandon(c) ==
    /\ c \in Requests /\ pc[c] # "idle" /\ attended[c] /\ Fault
    /\ attended' = [attended EXCEPT ![c] = FALSE]
    /\ inflight' = [inflight EXCEPT ![Home[c]] = @ - 1]
    /\ UNCHANGED <<installed, memo, permits, lingering, cache, pc, key, result,
                   engine, calls, deploys>>

\* A process restarts, with another engine perhaps: its memory is gone.
Deploy(p, v) ==
    /\ deploys < MaxDeploys
    /\ deploys' = deploys + 1
    /\ installed' = [installed EXCEPT ![p] = v]
    /\ memo' = [memo EXCEPT ![p] = None]
    /\ inflight' = [inflight EXCEPT ![p] = 0]
    /\ permits' = [permits EXCEPT ![p] = Permits]
    /\ lingering' = [lingering EXCEPT ![p] = 0]
    /\ LET There(f, fresh) ==
               [c \in Callers |-> IF Home[c] = p THEN fresh[c] ELSE f[c]]
       IN  /\ pc' = There(pc, [c \in Callers |-> "idle"])
           /\ key' = There(key, [c \in Callers |-> NoCall])
           /\ result' = There(result, [c \in Callers |-> None])
           /\ engine' = There(engine, [c \in Callers |->
                                       IF c \in Batches THEN "live" ELSE "none"])
           /\ attended' = There(attended, [c \in Callers |-> TRUE])
    /\ UNCHANGED <<cache, calls, faults>>

-----------------------------------------------------------------------------

Step(c) ==
    \/ ResolveVersion(c) \/ Probe(c) \/ LookUp(c) \/ Acquire(c)
    \/ CreateEngine(c) \/ Submit(c) \/ StartQueued(c) \/ Evaluate(c)
    \/ EvalTimeout(c) \/ Release(c) \/ Store(c) \/ Answer(c)

Next ==
    \/ \E c \in Callers, f \in Positions : Receive(c, f) \/ NextPosition(c, f)
    \/ \E c \in Callers : Step(c) \/ Abandon(c)
    \/ \E p \in Procs : Unwind(p) \/ \E v \in Versions : Deploy(p, v)

Spec == Init /\ [][Next]_vars /\ \A c \in Callers : WF_vars(Step(c))

-----------------------------------------------------------------------------
(* Properties. *)

\* Every variable has its type.
TypeOK ==
    /\ installed \in [Procs -> Versions]
    /\ memo \in [Procs -> Versions \cup {Unknown, None}]
    /\ inflight \in [Procs -> 0..MaxInflight]
    /\ permits \in [Procs -> 0..Permits]
    /\ lingering \in [Procs -> 0..PoolSize]
    /\ cache \in [Key -> Versions \cup {None}]
    /\ pc \in [Callers -> Phases]
    /\ key \in [Callers -> (Positions \cup {None})
                            \X (Versions \cup {Unknown, None})]
    /\ result \in [Callers -> Versions \cup {None}]
    /\ engine \in [Callers -> {"none", "live", "dead"}]
    /\ attended \in [Callers -> BOOLEAN]
    /\ calls \in 0..MaxCalls
    /\ faults \in 0..MaxFaults /\ deploys \in 0..MaxDeploys

\* Nothing that can happen to an evaluation, an error, a timeout, an engine that
\* cannot be started or a cancelled request, loses a permit or a place in
\* flight or frees one twice: both counters are what the calls in progress
\* hold, and no more engines run than there are permits.
SlotsAreConserved ==
    \A p \in Procs :
        /\ permits[p] + Cardinality(Of(p, Holding)) = Permits
        /\ inflight[p] = Cardinality({c \in Requests :
                             Home[c] = p /\ pc[c] # "idle" /\ attended[c]})
        /\ Cardinality({c \in Requests : Home[c] = p /\ engine[c] # "none"})
              <= Permits

\* "Two evaluations may share a cache entry only if they would produce the same
\* result": what a caller gets was computed by the engine its own process runs,
\* across upgrades that reach the processes one after the other, wherever the
\* version of that engine could be determined.
KnownVersionsMatch ==
    \A c \in Callers : result[c] # None /\ key[c][2] # Unknown
                          => result[c] = installed[Home[c]]

\* A wedged engine cannot block a caller for ever: every call returns, though
\* its engine never answers and though killed engines leave their threads
\* behind.
EveryCallReturns ==
    \A c \in Callers : pc[c] # "idle" ~> pc[c] = "idle"

=============================================================================
