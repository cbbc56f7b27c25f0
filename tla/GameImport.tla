------------------------------ MODULE GameImport ------------------------------
(***************************************************************************)
(* POST /import/chesscom for one user: the lease in import_summaries that  *)
(* lets one import at a time write, and the incremental download that      *)
(* skips every monthly archive older than the newest stored game.          *)
(*                                                                         *)
(* Chess.com is external: its archives are append-only, a game lands in    *)
(* the archive of the month it was played in, archives are listed and      *)
(* games are ordered oldest first.                                         *)
(*                                                                         *)
(* persist_batch renews the lease with a guarded UPDATE and commits it     *)
(* together with the games, so it is one action.  begin_import reads the   *)
(* row, decides, and assigns the lease without a guard: two actions.  Its  *)
(* lock keeps other claims out, not the owner's own updates, and the ORM   *)
(* writes only the columns that differ from the row it loaded: a takeover  *)
(* of a stale lease does not write the status, which is "importing"        *)
(* already, and it may no longer be when the takeover commits.             *)
(***************************************************************************)
EXTENDS Integers, FiniteSets, FiniteSetsExt

CONSTANTS
    Imports,         \* import requests, each served once
    NoImport,
    Months,          \* the months that pass
    GamesPerMonth,   \* games a month may bring
    BatchSize,       \* IMPORT_COMMIT_BATCH_SIZE
    MaxFaults        \* API crashes and failing Chess.com calls

ASSUME GameImportAssumption ==
    /\ NoImport \notin Imports
    /\ Months \in Nat \ {0}
    /\ GamesPerMonth \in Nat
    /\ BatchSize \in Nat \ {0}
    /\ MaxFaults \in Nat

Month == 1..Months
Game == Month \X (1..GamesPerMonth)     \* <<month, number within the month>>

VARIABLES
    month,           \* the current month
    posted,          \* games Chess.com has published
    stored,          \* rows of `games`
    storedBy,        \* storedBy[i]: those import i has inserted (history)
    status,          \* import_summaries.status
    operation,       \* import_summaries.operation_id
    fresh,           \* import_summaries.updated_at lies within the lease
    lastNewGames,    \* import_summaries.last_new_games
    pc,              \* pc[i]: where import i is
    loaded,          \* loaded[i]: the row as begin_import of i read it
    since,           \* since[i]: month of the newest stored game, 0 if none
    todo,            \* todo[i]: months still to download
    inbox,           \* inbox[i]: downloaded games not yet stored
    newGames,        \* newGames[i]: the request's count
    listed,          \* listed[i]: games posted when i listed the archives (history)
    faults

leaseVars == <<status, operation, fresh, lastNewGames>>
worldVars == <<month, posted>>
gameVars == <<stored, storedBy>>
importVars == <<since, todo, inbox, newGames, listed>>
vars == <<worldVars, gameVars, leaseVars, pc, loaded, importVars, faults>>

Working == {"claiming", "claimed", "listing", "downloading"}
Over == {"refused", "succeeded", "failed", "displaced", "dead"}
Status == {"idle", "importing", "succeeded", "failed"}   \* "idle": no row yet

TypeOK ==
    /\ month \in Month
    /\ posted \subseteq Game
    /\ stored \subseteq posted
    /\ storedBy \in [Imports -> SUBSET stored]
    /\ status \in Status
    /\ operation \in Imports \union {NoImport}
    /\ fresh \in BOOLEAN
    /\ lastNewGames \in Nat
    /\ pc \in [Imports -> Working \union Over \union {"idle"}]
    /\ loaded \in [Imports -> [status : Status, operation : Imports \union {NoImport}]]
    /\ since \in [Imports -> 0..Months]
    /\ todo \in [Imports -> SUBSET Month]
    /\ inbox \in [Imports -> SUBSET posted]
    /\ newGames \in [Imports -> Nat]
    /\ listed \in [Imports -> SUBSET posted]
    /\ faults \in 0..MaxFaults

Init ==
    /\ month = 1
    /\ posted = {}
    /\ stored = {}
    /\ storedBy = [i \in Imports |-> {}]
    /\ status = "idle"
    /\ operation = NoImport
    /\ fresh = FALSE
    /\ lastNewGames = 0
    /\ pc = [i \in Imports |-> "idle"]
    /\ loaded = [i \in Imports |-> [status |-> status, operation |-> operation]]
    /\ since = [i \in Imports |-> 0]
    /\ todo = [i \in Imports |-> {}]
    /\ inbox = [i \in Imports |-> {}]
    /\ newGames = [i \in Imports |-> 0]
    /\ listed = [i \in Imports |-> {}]
    /\ faults = 0

GoTo(i, step) == pc' = [pc EXCEPT ![i] = step]

-----------------------------------------------------------------------------
(* Chess.com *)

PlayGame ==
    /\ \E n \in 1..GamesPerMonth :
        /\ <<month, n>> \notin posted
        /\ \A k \in 1..(n - 1) : <<month, k>> \in posted
        /\ posted' = posted \union {<<month, n>>}
    /\ UNCHANGED <<month, gameVars, leaseVars, pc, loaded, importVars, faults>>

NextMonth ==
    /\ month < Months
    /\ month' = month + 1
    /\ UNCHANGED <<posted, gameVars, leaseVars, pc, loaded, importVars, faults>>

InMonth(m) == {g \in posted : g[1] = m}
Archives == {m \in Month : InMonth(m) # {}}

Older(g, h) == g[1] < h[1] \/ (g[1] = h[1] /\ g[2] < h[2])

-----------------------------------------------------------------------------
(* The lease *)

\* Mutant of Owns: the status is checked and the operation is not.
OwnsByStatus(i) == status = "importing"

\* The WHERE clause of heartbeat_import, finish_import and fail_import.
Owns(i) == status = "importing" /\ operation = i

LeaseActive == status = "importing" /\ fresh

\* begin_import, under the user's advisory lock: the row is read ...
BeginRead(i) ==
    /\ pc[i] = "idle"
    /\ \A k \in Imports : pc[k] # "claiming"
    /\ IF LeaseActive
       THEN GoTo(i, "refused") /\ UNCHANGED loaded
       ELSE /\ loaded' = [loaded EXCEPT ![i] = [status |-> status, operation |-> operation]]
            /\ GoTo(i, "claiming")
    /\ UNCHANGED <<worldVars, gameVars, leaseVars, importVars, faults>>

\* ... and the columns that differ from the row read are written.
BeginWrite(i) ==
    /\ pc[i] = "claiming"
    /\ IF loaded[i].status = "importing" THEN UNCHANGED status ELSE status' = "importing"
    /\ operation' = i
    /\ fresh' = TRUE
    /\ GoTo(i, "claimed")
    /\ UNCHANGED <<worldVars, gameVars, lastNewGames, loaded, importVars, faults>>

\* An hour passes without a batch.
LeaseLapses ==
    /\ LeaseActive
    /\ fresh' = FALSE
    /\ UNCHANGED <<worldVars, gameVars, status, operation, lastNewGames, pc,
                   loaded, importVars, faults>>

\* fail_import: a no-op for a displaced import.
RecordFailure(i) ==
    IF Owns(i)
    THEN status' = "failed" /\ fresh' = TRUE /\ UNCHANGED <<operation, lastNewGames>>
    ELSE UNCHANGED leaseVars

-----------------------------------------------------------------------------
(* The download *)

\* Mutant of NewestMonth: the cutoff is the month of the last sync.
NewestMonthByClock == IF stored = {} THEN 0 ELSE month

\* get_latest_game_time.
NewestMonth == Max({g[1] : g \in stored} \union {0})

ReadSince(i) ==
    /\ pc[i] = "claimed"
    /\ since' = [since EXCEPT ![i] = NewestMonth]
    /\ GoTo(i, "listing")
    /\ UNCHANGED <<worldVars, gameVars, leaseVars, loaded, todo, inbox,
                   newGames, listed, faults>>

\* get_player_archives, less the months before the cutoff.
ListArchives(i) ==
    /\ pc[i] = "listing"
    /\ todo' = [todo EXCEPT ![i] = {m \in Archives : m >= since[i]}]
    /\ listed' = [listed EXCEPT ![i] = posted]
    /\ GoTo(i, "downloading")
    /\ UNCHANGED <<worldVars, gameVars, leaseVars, loaded, since, inbox, newGames,
                   faults>>

\* Mutant of FetchArchive: newest month first.
FetchArchiveNewestFirst(i) ==
    /\ pc[i] = "downloading"
    /\ todo[i] # {}
    /\ Cardinality(inbox[i]) < BatchSize
    /\ inbox' = [inbox EXCEPT ![i] = @ \union InMonth(Max(todo[i]))]
    /\ todo' = [todo EXCEPT ![i] = @ \ {Max(todo[i])}]
    /\ UNCHANGED <<worldVars, gameVars, leaseVars, pc, loaded, since, newGames, listed, faults>>

\* The next archive is fetched when the games at hand do not fill a batch.
FetchArchive(i) ==
    /\ pc[i] = "downloading"
    /\ todo[i] # {}
    /\ Cardinality(inbox[i]) < BatchSize
    /\ inbox' = [inbox EXCEPT ![i] = @ \union InMonth(Min(todo[i]))]
    /\ todo' = [todo EXCEPT ![i] = @ \ {Min(todo[i])}]
    /\ UNCHANGED <<worldVars, gameVars, leaseVars, pc, loaded, since, newGames, listed, faults>>

\* The oldest games at hand: a full batch, or all that is left at the end.
IsBatch(i, B) ==
    /\ B \subseteq inbox[i] /\ B # {}
    /\ \A g \in B, h \in inbox[i] \ B : Older(g, h)
    /\ \/ Cardinality(B) = BatchSize
       \/ todo[i] = {} /\ B = inbox[i] /\ Cardinality(B) < BatchSize

\* persist_batch: heartbeat and inserts in one transaction, or, for a
\* displaced import, nothing at all and the end of the request.
PersistBatch(i) ==
    /\ pc[i] = "downloading"
    /\ \E B \in SUBSET inbox[i] :
        /\ IsBatch(i, B)
        /\ IF Owns(i)
           THEN /\ fresh' = TRUE
                /\ stored' = stored \union B
                /\ storedBy' = [storedBy EXCEPT ![i] = @ \union (B \ stored)]
                /\ newGames' = [newGames EXCEPT ![i] = @ + Cardinality(B \ stored)]
                /\ inbox' = [inbox EXCEPT ![i] = @ \ B]
                /\ UNCHANGED pc
           ELSE GoTo(i, "displaced") /\ UNCHANGED <<fresh, gameVars, newGames, inbox>>
    /\ UNCHANGED <<worldVars, status, operation, lastNewGames, loaded, since, todo,
                   listed, faults>>

\* finish_import.
Finish(i) ==
    /\ pc[i] = "downloading"
    /\ todo[i] = {} /\ inbox[i] = {}
    /\ IF Owns(i)
       THEN /\ status' = "succeeded"
            /\ fresh' = TRUE
            /\ lastNewGames' = newGames[i]
            /\ GoTo(i, "succeeded")
       ELSE GoTo(i, "displaced") /\ UNCHANGED <<status, fresh, lastNewGames>>
    /\ UNCHANGED <<worldVars, gameVars, operation, loaded, importVars, faults>>

\* Chess.com answers a listing or a download with an error or not at all.
FetchFails(i) ==
    /\ pc[i] \in {"listing", "downloading"}
    /\ faults < MaxFaults
    /\ faults' = faults + 1
    /\ RecordFailure(i)
    /\ GoTo(i, "failed")
    /\ UNCHANGED <<worldVars, gameVars, loaded, importVars>>

\* The API process dies and takes its imports with it.
Crash ==
    /\ faults < MaxFaults
    /\ \E i \in Imports : pc[i] \in Working
    /\ faults' = faults + 1
    /\ pc' = [i \in Imports |-> IF pc[i] \in Working THEN "dead" ELSE pc[i]]
    /\ UNCHANGED <<worldVars, gameVars, leaseVars, loaded, importVars>>

-----------------------------------------------------------------------------
(* The specification *)

Progress(i) ==
    \/ BeginWrite(i) \/ ReadSince(i) \/ ListArchives(i)
    \/ FetchArchive(i) \/ PersistBatch(i) \/ Finish(i)

Next ==
    \/ PlayGame \/ NextMonth \/ LeaseLapses \/ Crash
    \/ \E i \in Imports : BeginRead(i) \/ Progress(i) \/ FetchFails(i)

Spec == Init /\ [][Next]_vars

-----------------------------------------------------------------------------
(* Correctness *)

\* No month before the newest stored game's is incomplete, whatever imports
\* were interrupted, displaced or overlapping: this is what makes it safe to
\* skip the older archives (import_all_games).
NoGapBehindTheNewest ==
    \A g \in stored, h \in posted : h[1] < g[1] => h \in stored

\* An import that reports success leaves every game stored that was posted
\* when it listed the archives, the skipped months included.
SuccessIsComplete ==
    \A i \in Imports : pc[i] = "succeeded" => listed[i] \subseteq stored

\* The import whose result the row shows: the one it names, or the owner
\* that finished while that one was taking its stale lease over.
Reporter ==
    IF pc[operation] = "succeeded" THEN operation ELSE loaded[operation].operation

\* A summary that says succeeded counts the games that a successful import
\* has inserted, although imports displace one another and a takeover may
\* put its own id on its predecessor's result.
SummaryCountsStored ==
    status = "succeeded" =>
        /\ pc[Reporter] = "succeeded"
        /\ lastNewGames = Cardinality(storedBy[Reporter])

=============================================================================
