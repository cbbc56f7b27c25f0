----------------------------- MODULE PipelineProofs -----------------------------
(***************************************************************************)
(* Theorems about the stages a game passes through, each for every value   *)
(* of its constants:                                                       *)
(*   - GameImport: what is stored has no gap, a successful import is       *)
(*     complete, and a summary that says succeeded counts what a           *)
(*     successful import stored;                                           *)
(*   - PuzzleGeneration: the status and the counters of a run tell what    *)
(*     happened in it, and it is never long between two heartbeats;        *)
(*   - DiagnosisChain: the sweep leaves a user alone whose last diagnosis  *)
(*     failed or was canceled within the backoff.                          *)
(* The three share no state.                                               *)
(***************************************************************************)
EXTENDS GameImport, PuzzleGeneration, DiagnosisChain, FiniteSetTheorems,
        WellFoundedInduction, TLAPS

-----------------------------------------------------------------------------
(* GameImport: the inductive invariant *)

\* Chess.com publishes a game in the month it is played.
PostedByNow == \A g \in posted : g[1] <= month

\* An import that has not listed the archives has downloaded nothing.
NothingYet ==
    \A i \in Imports :
        pc[i] \in {"idle", "claiming", "claimed", "listing"} => inbox[i] = {}

\* The months before the cutoff are complete, and stay so: nothing is played in
\* them any more.
SkippedAreStored ==
    \A i \in Imports : pc[i] \in {"listing", "downloading"} =>
        /\ since[i] <= month
        /\ \A h \in posted : h[1] < since[i] => h \in stored

\* A listed game is stored, at hand or still to download, in the order of the
\* months; what was posted since the listing is no older than any of them.
Downloading(i) ==
    /\ \A m \in todo[i] : m <= month
    /\ \A m \in todo[i], h \in posted : h[1] < m => h \in listed[i]
    /\ \A g \in inbox[i], h \in posted : h[1] < g[1] => h \in listed[i]
    /\ \A g \in inbox[i], m \in todo[i] : g[1] < m
    /\ \A h \in listed[i] : h \in stored \/ h \in inbox[i] \/ h[1] \in todo[i]

DownloadsInOrder == \A i \in Imports : pc[i] = "downloading" => Downloading(i)

CountsAreRight == \A i \in Imports : newGames[i] = Cardinality(storedBy[i])

\* One import claims at a time, and the row it has read is still there, unless
\* its owner ended meanwhile; an import that has not claimed is not named.
ClaimsAreRight ==
    \A i \in Imports :
        /\ pc[i] \in {"idle", "claiming"} => operation # i
        /\ \A k \in Imports : pc[i] = "claiming" /\ pc[k] = "claiming" => i = k
        /\ pc[i] = "claiming" =>
             /\ operation = loaded[i].operation
             /\ \/ status = loaded[i].status
                \/ loaded[i].status = "importing" /\ status = "failed"
                \/ /\ loaded[i].status = "importing" /\ status = "succeeded"
                   /\ pc[operation] = "succeeded"

\* A row names an import, and a successful one has a reporter.
RowNamesAnImport ==
    /\ status # "idle" => operation \in Imports
    /\ status = "succeeded" => Reporter \in Imports

ImportInv ==
    /\ TypeOK
    /\ PostedByNow
    /\ NothingYet
    /\ SkippedAreStored
    /\ DownloadsInOrder
    /\ NoGapBehindTheNewest
    /\ SuccessIsComplete
    /\ CountsAreRight
    /\ ClaimsAreRight
    /\ RowNamesAnImport
    /\ SummaryCountsStored

-----------------------------------------------------------------------------
(* GameImport: months and games *)

LEMMA LeastNumber ==
    ASSUME NEW T \in SUBSET Nat, T # {}
    PROVE  \E n \in T : \A m \in T : n <= m
<1>1. PICK n \in T : \A m \in T : ~(<<m, n>> \in OpToRel(<, Nat))
  BY WFMin, NatLessThanWellFounded
<1>2. \A m \in T : ~(m < n)
  BY <1>1 DEF OpToRel
<1> QED BY <1>2

LEMMA MinOfSome ==
    ASSUME NEW T \in SUBSET Nat, T # {}
    PROVE  Min(T) \in T /\ \A m \in T : Min(T) <= m
<1>1. PICK n \in T : \A m \in T : n <= m
  BY LeastNumber
<1> QED BY <1>1 DEF Min

LEMMA MaxOfSome ==
    ASSUME NEW b \in Nat, NEW T \in SUBSET (0..b), T # {}
    PROVE  Max(T) \in T /\ \A m \in T : m <= Max(T)
<1> DEFINE D == {b - m : m \in T}
<1>1. PICK d \in D : \A e \in D : d <= e
  <2>1. D \in SUBSET Nat
    OBVIOUS
  <2>2. PICK m \in T : TRUE
    OBVIOUS
  <2>3. b - m \in D
    OBVIOUS
  <2> HIDE DEF D
  <2> QED BY <2>1, <2>3, LeastNumber
<1>2. PICK n \in T : d = b - n
  BY <1>1
<1>3. \A m \in T : m <= n
  <2> SUFFICES ASSUME NEW m \in T PROVE m <= n
    OBVIOUS
  <2>1. b - m \in D
    OBVIOUS
  <2>2. b - n <= b - m /\ m \in Int /\ n \in Int
    BY <1>1, <1>2, <2>1
  <2> QED BY <2>2
<1>4. n \in T /\ \A m \in T : n >= m
  BY <1>3
<1> QED BY <1>4 DEF Max

\* What the orders below are about.
Dated ==
    /\ \A g \in posted : g[1] \in Nat /\ g[1] \in Month
    /\ month \in Nat /\ stored \subseteq posted
    /\ \A i \in Imports : /\ inbox[i] \subseteq posted /\ listed[i] \subseteq posted
                          /\ todo[i] \subseteq Nat /\ todo[i] \subseteq Month
                          /\ since[i] \in Nat

LEMMA GamesHaveMonths == TypeOK => Dated
BY DEF TypeOK, Dated, Game, Month

LEMMA GamesHaveMonthsNext == TypeOK' => Dated'
BY GamesHaveMonths, PTL

LEMMA PostedIsFinite == TypeOK => IsFiniteSet(posted)
<1> SUFFICES ASSUME TypeOK PROVE IsFiniteSet(posted)
  OBVIOUS
<1>1. IsFiniteSet(Month) /\ IsFiniteSet(1..GamesPerMonth)
  BY FS_Interval, GameImportAssumption DEF Month
<1>2. IsFiniteSet(Game)
  BY <1>1, FS_Product DEF Game
<1> QED BY <1>2, FS_Subset DEF TypeOK

\* The cutoff is the month of a stored game, or none.
LEMMA NewestMonthIsStored ==
    ASSUME TypeOK
    PROVE  /\ NewestMonth \in 0..Months
           /\ NewestMonth # 0 => \E g \in stored : g[1] = NewestMonth
<1> DEFINE S == {g[1] : g \in stored} \union {0}
<1>1. Months \in Nat
  BY GameImportAssumption
<1>2. \A g \in stored : g[1] \in 0..Months
  BY <1>1, GamesHaveMonths DEF Dated, Month
<1>3. S \in SUBSET (0..Months) /\ S # {}
  BY <1>1, <1>2
<1>4. Max(S) \in S
  <2> HIDE DEF S
  <2> QED BY <1>1, <1>3, MaxOfSome
<1> QED BY <1>3, <1>4 DEF NewestMonth

-----------------------------------------------------------------------------
(* GameImport: the actions *)

LEMMA ImportInit == Init => ImportInv
<1> SUFFICES ASSUME Init PROVE ImportInv
  OBVIOUS
<1>1. TypeOK
  <2>1. 1 \in Month /\ 0 \in 0..Months /\ 0 \in 0..MaxFaults
    BY GameImportAssumption DEF Month
  <2> QED BY <2>1 DEF Init, TypeOK, Working, Over, Status
<1>2. CountsAreRight
  BY FS_EmptySet DEF Init, CountsAreRight
<1>3. PostedByNow /\ NothingYet /\ SkippedAreStored /\ DownloadsInOrder
  BY DEF Init, PostedByNow, NothingYet, SkippedAreStored, DownloadsInOrder
<1>4. NoGapBehindTheNewest /\ SuccessIsComplete /\ SummaryCountsStored
  BY DEF Init, NoGapBehindTheNewest, SuccessIsComplete, SummaryCountsStored
<1>5. ClaimsAreRight /\ RowNamesAnImport
  BY GameImportAssumption DEF Init, ClaimsAreRight, RowNamesAnImport
<1> QED BY <1>1, <1>2, <1>3, <1>4, <1>5 DEF ImportInv

\* A step that leaves the row's columns as they are, or fails its owner, keeps
\* what the row says, whichever imports begin to download or end.
LEMMA RowStays ==
    ASSUME ImportInv,
           UNCHANGED <<operation, lastNewGames, storedBy, loaded>>,
           status' = status \/ (status = "importing" /\ status' = "failed"),
           \A i \in Imports :
              \/ pc'[i] = pc[i]
              \/ pc[i] # "succeeded" /\ pc'[i] \notin {"idle", "claiming", "succeeded"}
    PROVE  ClaimsAreRight' /\ RowNamesAnImport' /\ SummaryCountsStored'
<1>1. /\ ClaimsAreRight /\ RowNamesAnImport /\ SummaryCountsStored
  BY DEF ImportInv
<1>2. \A i \in Imports : /\ pc'[i] = "succeeded" <=> pc[i] = "succeeded"
                        /\ pc'[i] \in {"idle", "claiming"} => pc'[i] = pc[i]
  OBVIOUS
<1>3. status' = "succeeded" => status = "succeeded" /\ operation \in Imports
  BY <1>1 DEF RowNamesAnImport
<1>4. status' = "succeeded" => Reporter' = Reporter /\ Reporter \in Imports
  BY <1>1, <1>2, <1>3 DEF Reporter, RowNamesAnImport
<1>5. RowNamesAnImport'
  BY <1>1, <1>4 DEF RowNamesAnImport
<1>6. SummaryCountsStored'
  BY <1>1, <1>2, <1>3, <1>4 DEF SummaryCountsStored
<1>7. ClaimsAreRight'
  <2> SUFFICES ASSUME NEW i \in Imports, pc'[i] = "claiming"
               PROVE  \/ status' = loaded[i].status
                      \/ loaded[i].status = "importing" /\ status' = "failed"
                      \/ /\ loaded[i].status = "importing" /\ status' = "succeeded"
                         /\ pc'[operation] = "succeeded"
    BY <1>1, <1>2 DEF ClaimsAreRight
  <2>1. \/ status = loaded[i].status
        \/ loaded[i].status = "importing" /\ status = "failed"
        \/ /\ loaded[i].status = "importing" /\ status = "succeeded"
           /\ pc[operation] = "succeeded"
    BY <1>1, <1>2 DEF ClaimsAreRight
  <2>2. status = "succeeded" => operation \in Imports
    BY <1>1 DEF RowNamesAnImport
  <2> QED BY <1>2, <2>1, <2>2
<1> QED BY <1>5, <1>6, <1>7

\* Months pass and games are posted: none in a month that is over.
LEMMA WorldMoves ==
    ASSUME ImportInv, TypeOK', month <= month', posted \subseteq posted',
           \A h \in posted' \ posted : h[1] = month /\ month' = month,
           UNCHANGED <<gameVars, leaseVars, pc, loaded, importVars>>
    PROVE  ImportInv'
<1>1. Dated /\ Dated'
  BY GamesHaveMonths, GamesHaveMonthsNext DEF ImportInv
<1>2. /\ stored' = stored /\ storedBy' = storedBy /\ pc' = pc /\ since' = since
      /\ todo' = todo /\ inbox' = inbox /\ newGames' = newGames /\ listed' = listed
      /\ status' = status /\ operation' = operation /\ lastNewGames' = lastNewGames
  BY DEF gameVars, leaseVars, importVars
<1>3. \A g \in posted : g[1] <= month
  BY DEF ImportInv, PostedByNow
<1>4. PostedByNow'
  <2>1. ASSUME NEW g \in posted' PROVE g[1] <= month'
    BY <1>1, <1>3 DEF Dated
  <2> QED BY <2>1 DEF PostedByNow
<1>5. NothingYet'
  BY <1>2 DEF ImportInv, NothingYet
<1>6. SkippedAreStored'
  <2> SUFFICES ASSUME NEW i \in Imports, pc[i] \in {"listing", "downloading"}
               PROVE  since[i] <= month' /\ \A h \in posted' : h[1] < since[i] => h \in stored
    BY <1>2 DEF SkippedAreStored
  <2>1. since[i] <= month /\ \A h \in posted : h[1] < since[i] => h \in stored
    BY DEF ImportInv, SkippedAreStored
  <2> QED BY <1>1, <2>1 DEF Dated
<1>7. DownloadsInOrder'
  <2> SUFFICES ASSUME NEW i \in Imports, pc[i] = "downloading" PROVE Downloading(i)'
    BY <1>2 DEF DownloadsInOrder
  <2>1. Downloading(i)
    BY DEF ImportInv, DownloadsInOrder
  <2>2. \A m \in todo[i] : m \in Nat /\ m <= month /\ m <= month'
    BY <1>1, <2>1 DEF Downloading, Dated
  <2>3. \A g \in inbox[i] : g[1] \in Nat /\ g[1] <= month
    BY <1>1, <1>3 DEF Dated
  <2>4. \A m \in todo[i], h \in posted' : h[1] < m => h \in listed[i]
    BY <1>1, <2>1, <2>2 DEF Downloading, Dated
  <2>5. \A g \in inbox[i], h \in posted' : h[1] < g[1] => h \in listed[i]
    BY <1>1, <2>1, <2>3 DEF Downloading, Dated
  <2> QED BY <1>2, <2>1, <2>2, <2>4, <2>5 DEF Downloading
<1>8. NoGapBehindTheNewest'
  <2> SUFFICES ASSUME NEW g \in stored, NEW h \in posted', h[1] < g[1] PROVE h \in stored
    BY <1>2 DEF NoGapBehindTheNewest
  <2>1. g \in posted /\ g[1] \in Nat /\ g[1] <= month
    BY <1>1, <1>3 DEF Dated
  <2>2. h \in posted
    BY <1>1, <2>1 DEF Dated
  <2> QED BY <2>2 DEF ImportInv, NoGapBehindTheNewest
<1>9. SuccessIsComplete' /\ CountsAreRight'
  BY <1>2 DEF ImportInv, SuccessIsComplete, CountsAreRight
<1>10. ClaimsAreRight' /\ RowNamesAnImport' /\ SummaryCountsStored'
  BY <1>2, RowStays
<1> QED BY <1>4, <1>5, <1>6, <1>7, <1>8, <1>9, <1>10 DEF ImportInv

LEMMA PlayGameKeeps == ImportInv /\ PlayGame => ImportInv'
<1> SUFFICES ASSUME ImportInv, PlayGame PROVE ImportInv'
  OBVIOUS
<1>1. PICK n \in 1..GamesPerMonth : posted' = posted \union {<<month, n>>}
  BY DEF PlayGame
<1>2. UNCHANGED <<month, gameVars, leaseVars, pc, loaded, importVars, faults>>
  BY DEF PlayGame
<1>3. TypeOK'
  <2>1. month \in Month /\ <<month, n>> \in Game
    BY DEF ImportInv, TypeOK, Game
  <2> QED BY <1>1, <1>2, <2>1 DEF ImportInv, TypeOK, gameVars, leaseVars, importVars
<1>4. month \in Nat
  BY GamesHaveMonths DEF ImportInv, Dated
<1>5. \A h \in posted' \ posted : h[1] = month
  BY <1>1
<1> QED BY <1>1, <1>2, <1>3, <1>4, <1>5, WorldMoves

LEMMA NextMonthKeeps == ImportInv /\ NextMonth => ImportInv'
<1> SUFFICES ASSUME ImportInv, NextMonth PROVE ImportInv'
  OBVIOUS
<1>1. /\ month' = month + 1 /\ month < Months /\ posted' = posted
      /\ UNCHANGED <<gameVars, leaseVars, pc, loaded, importVars, faults>>
  BY DEF NextMonth
<1>2. month \in Nat /\ month \in Month
  BY GamesHaveMonths DEF ImportInv, Dated, TypeOK
<1>3. TypeOK'
  <2>1. month' \in Month
    BY <1>1, <1>2, GameImportAssumption DEF Month
  <2> QED BY <1>1, <2>1 DEF ImportInv, TypeOK, gameVars, leaseVars, importVars
<1> QED BY <1>1, <1>2, <1>3, WorldMoves

\* An import begins or stops, or the lease changes hands: no game is touched,
\* and no import succeeds.
LEMMA LeaseMoves ==
    ASSUME ImportInv, TypeOK', UNCHANGED <<worldVars, gameVars, importVars>>,
           \A i \in Imports :
              \/ pc'[i] = pc[i]
              \/ pc'[i] \in Over \ {"succeeded"}
              \/ pc[i] \in {"idle", "claiming"} /\ pc'[i] \in {"claiming", "claimed"},
           ClaimsAreRight', RowNamesAnImport', SummaryCountsStored'
    PROVE  ImportInv'
<1>1. /\ stored' = stored /\ storedBy' = storedBy /\ since' = since /\ posted' = posted
      /\ todo' = todo /\ inbox' = inbox /\ newGames' = newGames /\ listed' = listed
      /\ month' = month
  BY DEF worldVars, gameVars, importVars
<1>2. \A i \in Imports :
         /\ pc'[i] \in {"listing", "downloading", "succeeded"} => pc'[i] = pc[i]
         /\ pc'[i] \in {"idle", "claiming", "claimed", "listing"} =>
              pc[i] \in {"idle", "claiming", "claimed", "listing"}
  BY DEF Over
<1>3. PostedByNow' /\ NoGapBehindTheNewest' /\ CountsAreRight'
  BY <1>1 DEF ImportInv, PostedByNow, NoGapBehindTheNewest, CountsAreRight
<1>4. NothingYet' /\ SkippedAreStored' /\ SuccessIsComplete'
  BY <1>1, <1>2 DEF ImportInv, NothingYet, SkippedAreStored, SuccessIsComplete
<1>5. DownloadsInOrder'
  BY <1>1, <1>2 DEF ImportInv, DownloadsInOrder, Downloading
<1> QED BY <1>3, <1>4, <1>5 DEF ImportInv

LEMMA BeginReadKeeps ==
    ASSUME ImportInv, NEW i \in Imports, BeginRead(i)
    PROVE  ImportInv'
<1>1. /\ pc[i] = "idle" /\ \A k \in Imports : pc[k] # "claiming"
      /\ UNCHANGED <<worldVars, gameVars, leaseVars, importVars, faults>>
  BY DEF BeginRead
<1>2. /\ pc \in [Imports -> Working \union Over \union {"idle"}]
      /\ loaded \in [Imports -> [status : Status, operation : Imports \union {NoImport}]]
      /\ status \in Status /\ operation \in Imports \union {NoImport}
  BY DEF ImportInv, TypeOK
<1>3. CASE LeaseActive
  <2>1. pc' = [pc EXCEPT ![i] = "refused"] /\ loaded' = loaded
    BY <1>3 DEF BeginRead, GoTo
  <2>2. TypeOK'
    BY <1>1, <1>2, <2>1 DEF ImportInv, TypeOK, worldVars, gameVars, leaseVars, importVars, Over
  <2>3. \A k \in Imports : pc'[k] = pc[k] \/ (pc[k] = "idle" /\ pc'[k] = "refused")
    BY <1>1, <1>2, <2>1
  <2>4. ClaimsAreRight' /\ RowNamesAnImport' /\ SummaryCountsStored'
    BY <1>1, <2>1, <2>3, RowStays DEF leaseVars, gameVars
  <2> QED BY <1>1, <2>2, <2>3, <2>4, LeaseMoves DEF Over
<1>4. CASE ~LeaseActive
  <2>1. /\ pc' = [pc EXCEPT ![i] = "claiming"]
        /\ loaded' = [loaded EXCEPT ![i] = [status |-> status, operation |-> operation]]
    BY <1>4 DEF BeginRead, GoTo
  <2>2. /\ pc'[i] = "claiming" /\ \A k \in Imports \ {i} : pc'[k] = pc[k]
        /\ loaded'[i] = [status |-> status, operation |-> operation]
        /\ \A k \in Imports \ {i} : loaded'[k] = loaded[k]
    BY <1>2, <2>1
  <2>3. TypeOK'
    BY <1>1, <1>2, <2>1 DEF ImportInv, TypeOK, worldVars, gameVars, leaseVars, importVars, Working
  <2>4. /\ status' = status /\ operation' = operation /\ storedBy' = storedBy
        /\ lastNewGames' = lastNewGames
    BY <1>1 DEF leaseVars, gameVars
  <2>5. ClaimsAreRight /\ RowNamesAnImport /\ SummaryCountsStored
    BY DEF ImportInv
  <2>6. operation # i
    BY <1>1, <2>5 DEF ClaimsAreRight
  <2>7. ClaimsAreRight'
    BY <1>1, <2>2, <2>4, <2>5, <2>6 DEF ClaimsAreRight
  <2>8. status = "succeeded" => Reporter' = Reporter /\ Reporter # i /\ Reporter \in Imports
    <3> SUFFICES ASSUME status = "succeeded"
                 PROVE  Reporter' = Reporter /\ Reporter # i /\ Reporter \in Imports
      OBVIOUS
    <3>1. operation \in Imports \ {i} /\ Reporter \in Imports
      BY <2>5, <2>6 DEF RowNamesAnImport
    <3>2. Reporter' = Reporter
      BY <2>2, <2>4, <3>1 DEF Reporter
    <3> QED BY <1>1, <2>5, <3>1, <3>2 DEF SummaryCountsStored
  <2>9. RowNamesAnImport' /\ SummaryCountsStored'
    BY <2>2, <2>4, <2>5, <2>8 DEF RowNamesAnImport, SummaryCountsStored
  <2>10. \A k \in Imports : \/ pc'[k] = pc[k]
                            \/ pc[k] \in {"idle", "claiming"} /\ pc'[k] \in {"claiming", "claimed"}
    BY <1>1, <2>2
  <2> QED BY <1>1, <2>3, <2>7, <2>9, <2>10, LeaseMoves
<1> QED BY <1>3, <1>4

\* A takeover that its predecessor overtook puts its own name on the result.
LEMMA BeginWriteKeeps ==
    ASSUME ImportInv, NEW i \in Imports, BeginWrite(i)
    PROVE  ImportInv'
<1>1. /\ pc[i] = "claiming" /\ pc' = [pc EXCEPT ![i] = "claimed"]
      /\ operation' = i /\ fresh' = TRUE
      /\ UNCHANGED <<worldVars, gameVars, lastNewGames, loaded, importVars, faults>>
  BY DEF BeginWrite, GoTo
<1>2. status' = IF loaded[i].status = "importing" THEN status ELSE "importing"
  BY DEF BeginWrite
<1>3. pc \in [Imports -> Working \union Over \union {"idle"}] /\ status \in Status
  BY DEF ImportInv, TypeOK
<1>4. TypeOK'
  BY <1>1, <1>2, <1>3 DEF ImportInv, TypeOK, worldVars, gameVars, importVars, Working, Status
<1>5. pc'[i] = "claimed" /\ \A k \in Imports \ {i} : pc'[k] = pc[k]
  BY <1>1, <1>3
<1>6. ClaimsAreRight /\ RowNamesAnImport /\ SummaryCountsStored
  BY DEF ImportInv
<1>7. \A k \in Imports \ {i} : pc[k] # "claiming"
  BY <1>1, <1>6 DEF ClaimsAreRight
<1>8. ClaimsAreRight'
  BY <1>1, <1>5, <1>7 DEF ClaimsAreRight
<1>9. status' = "succeeded" =>
        /\ Reporter' = Reporter /\ Reporter \in Imports \ {i}
        /\ status = "succeeded"
  <2> SUFFICES ASSUME status' = "succeeded"
               PROVE  /\ Reporter' = Reporter /\ Reporter \in Imports \ {i}
                      /\ status = "succeeded"
    OBVIOUS
  <2>1. loaded[i].status = "importing" /\ status = "succeeded"
    BY <1>2
  <2>2. operation = loaded[i].operation /\ pc[operation] = "succeeded"
    BY <1>1, <1>6, <2>1 DEF ClaimsAreRight
  <2>3. operation \in Imports \ {i}
    BY <1>1, <1>6, <2>1 DEF ClaimsAreRight, RowNamesAnImport
  <2>4. Reporter = operation /\ Reporter' = loaded[i].operation
    BY <1>1, <1>5, <2>2 DEF Reporter
  <2> QED BY <2>1, <2>2, <2>3, <2>4
<1>10. RowNamesAnImport' /\ SummaryCountsStored'
  <2>1. storedBy' = storedBy /\ lastNewGames' = lastNewGames
    BY <1>1 DEF gameVars
  <2> QED BY <1>1, <1>5, <1>6, <1>9, <2>1 DEF RowNamesAnImport, SummaryCountsStored
<1>11. \A k \in Imports : \/ pc'[k] = pc[k]
                          \/ pc[k] \in {"idle", "claiming"} /\ pc'[k] \in {"claiming", "claimed"}
  BY <1>1, <1>5
<1> QED BY <1>1, <1>4, <1>8, <1>10, <1>11, LeaseMoves

LEMMA LeaseLapsesKeeps == ImportInv /\ LeaseLapses => ImportInv'
<1> SUFFICES ASSUME ImportInv, LeaseLapses PROVE ImportInv'
  OBVIOUS
<1>1. /\ fresh' = FALSE
      /\ UNCHANGED <<worldVars, gameVars, status, operation, lastNewGames, pc, loaded, importVars,
                     faults>>
  BY DEF LeaseLapses
<1>2. TypeOK'
  BY <1>1 DEF ImportInv, TypeOK, worldVars, gameVars, importVars
<1>3. ClaimsAreRight' /\ RowNamesAnImport' /\ SummaryCountsStored'
  BY <1>1, RowStays DEF gameVars
<1> QED BY <1>1, <1>2, <1>3, LeaseMoves

LEMMA FetchFailsKeeps ==
    ASSUME ImportInv, NEW i \in Imports, FetchFails(i)
    PROVE  ImportInv'
<1>1. /\ faults < MaxFaults /\ faults' = faults + 1 /\ RecordFailure(i)
      /\ pc[i] \in {"listing", "downloading"} /\ pc' = [pc EXCEPT ![i] = "failed"]
      /\ UNCHANGED <<worldVars, gameVars, loaded, importVars>>
  BY DEF FetchFails, GoTo
<1>2. pc \in [Imports -> Working \union Over \union {"idle"}] /\ faults \in 0..MaxFaults
  BY DEF ImportInv, TypeOK
<1>3. /\ operation' = operation /\ lastNewGames' = lastNewGames
      /\ status' = status \/ (status = "importing" /\ status' = "failed")
      /\ fresh' \in {fresh, TRUE}
  BY <1>1 DEF RecordFailure, Owns, leaseVars
<1>4. faults' \in 0..MaxFaults
  BY <1>1, <1>2, GameImportAssumption
<1>5. TypeOK'
  BY <1>1, <1>2, <1>3, <1>4 DEF ImportInv, TypeOK, worldVars, gameVars, importVars, Over, Status
<1>6. \A k \in Imports : pc'[k] = pc[k] \/ (pc[k] # "succeeded" /\ pc'[k] = "failed")
  BY <1>1, <1>2
<1>7. ClaimsAreRight' /\ RowNamesAnImport' /\ SummaryCountsStored'
  BY <1>1, <1>3, <1>6, RowStays DEF gameVars
<1> QED BY <1>1, <1>5, <1>6, <1>7, LeaseMoves DEF Over

LEMMA CrashKeeps == ImportInv /\ Crash => ImportInv'
<1> SUFFICES ASSUME ImportInv, Crash PROVE ImportInv'
  OBVIOUS
<1>1. /\ faults < MaxFaults /\ faults' = faults + 1
      /\ pc' = [i \in Imports |-> IF pc[i] \in Working THEN "dead" ELSE pc[i]]
      /\ UNCHANGED <<worldVars, gameVars, leaseVars, loaded, importVars>>
  BY DEF Crash
<1>2. pc \in [Imports -> Working \union Over \union {"idle"}] /\ faults \in 0..MaxFaults
  BY DEF ImportInv, TypeOK
<1>3. faults' \in 0..MaxFaults
  BY <1>1, <1>2, GameImportAssumption
<1>4. pc' \in [Imports -> Working \union Over \union {"idle"}]
  BY <1>1, <1>2 DEF Over
<1>5. TypeOK'
  BY <1>1, <1>3, <1>4 DEF ImportInv, TypeOK, worldVars, gameVars, leaseVars, importVars
<1>6. \A k \in Imports : pc'[k] = pc[k] \/ (pc[k] # "succeeded" /\ pc'[k] = "dead")
  BY <1>1 DEF Working
<1>7. ClaimsAreRight' /\ RowNamesAnImport' /\ SummaryCountsStored'
  BY <1>1, <1>6, RowStays DEF leaseVars, gameVars
<1> QED BY <1>1, <1>5, <1>6, <1>7, LeaseMoves DEF Over

\* One import's download goes on: nothing is stored.
LEMMA DownloadMoves ==
    ASSUME ImportInv, TypeOK', NEW i \in Imports, pc[i] # "succeeded",
           UNCHANGED <<worldVars, gameVars, leaseVars, loaded, newGames>>,
           \A k \in Imports \ {i} :
              /\ pc'[k] = pc[k] /\ since'[k] = since[k] /\ todo'[k] = todo[k]
              /\ inbox'[k] = inbox[k] /\ listed'[k] = listed[k],
           pc'[i] \in {"listing", "downloading"},
           pc'[i] = "listing" => inbox'[i] = {},
           since'[i] <= month, \A h \in posted : h[1] < since'[i] => h \in stored,
           pc'[i] = "downloading" => Downloading(i)'
    PROVE  ImportInv'
<1>1. /\ stored' = stored /\ storedBy' = storedBy /\ posted' = posted /\ month' = month
      /\ newGames' = newGames
      /\ status' = status /\ operation' = operation /\ lastNewGames' = lastNewGames
  BY DEF worldVars, gameVars, leaseVars
<1>2. /\ PostedByNow' /\ NoGapBehindTheNewest' /\ CountsAreRight'
      /\ ClaimsAreRight' /\ RowNamesAnImport' /\ SummaryCountsStored'
  <2>1. PostedByNow' /\ NoGapBehindTheNewest' /\ CountsAreRight'
    BY <1>1 DEF ImportInv, PostedByNow, NoGapBehindTheNewest, CountsAreRight
  <2>2. \A k \in Imports :
           \/ pc'[k] = pc[k]
           \/ pc[k] # "succeeded" /\ pc'[k] \notin {"idle", "claiming", "succeeded"}
    OBVIOUS
  <2> QED BY <1>1, <2>1, <2>2, RowStays
<1>3. NothingYet'
  <2> SUFFICES ASSUME NEW k \in Imports, pc'[k] \in {"idle", "claiming", "claimed", "listing"}
               PROVE  inbox'[k] = {}
    BY DEF NothingYet
  <2> QED BY DEF ImportInv, NothingYet
<1>4. SkippedAreStored'
  <2> SUFFICES ASSUME NEW k \in Imports, pc'[k] \in {"listing", "downloading"}
               PROVE  since'[k] <= month /\ \A h \in posted : h[1] < since'[k] => h \in stored
    BY <1>1 DEF SkippedAreStored
  <2> QED BY DEF ImportInv, SkippedAreStored
<1>5. SuccessIsComplete'
  <2> SUFFICES ASSUME NEW k \in Imports, pc'[k] = "succeeded" PROVE listed'[k] \subseteq stored
    BY <1>1 DEF SuccessIsComplete
  <2>1. k # i
    OBVIOUS
  <2> QED BY <2>1 DEF ImportInv, SuccessIsComplete
<1>6. DownloadsInOrder'
  <2> SUFFICES ASSUME NEW k \in Imports, pc'[k] = "downloading" PROVE Downloading(k)'
    BY DEF DownloadsInOrder
  <2>1. CASE k = i
    BY <2>1
  <2>2. CASE k # i
    <3>1. Downloading(k)
      BY <2>2 DEF ImportInv, DownloadsInOrder
    <3> QED BY <1>1, <2>2, <3>1 DEF Downloading
  <2> QED BY <2>1, <2>2
<1> QED BY <1>2, <1>3, <1>4, <1>5, <1>6 DEF ImportInv

LEMMA ReadSinceKeeps ==
    ASSUME ImportInv, NEW i \in Imports, ReadSince(i)
    PROVE  ImportInv'
<1>1. /\ pc[i] = "claimed" /\ since' = [since EXCEPT ![i] = NewestMonth]
      /\ pc' = [pc EXCEPT ![i] = "listing"]
      /\ UNCHANGED <<worldVars, gameVars, leaseVars, loaded, todo, inbox, newGames, listed, faults>>
  BY DEF ReadSince, GoTo
<1>2. pc \in [Imports -> Working \union Over \union {"idle"}] /\ since \in [Imports -> 0..Months]
  BY DEF ImportInv, TypeOK
<1>3. NewestMonth \in 0..Months /\ (NewestMonth # 0 => \E g \in stored : g[1] = NewestMonth)
  BY NewestMonthIsStored DEF ImportInv
<1>4. TypeOK'
  BY <1>1, <1>2, <1>3 DEF ImportInv, TypeOK, worldVars, gameVars, leaseVars, Working
<1>5. Dated
  BY GamesHaveMonths DEF ImportInv
<1>6. /\ since'[i] = NewestMonth /\ pc'[i] = "listing" /\ inbox'[i] = {}
      /\ \A k \in Imports \ {i} : pc'[k] = pc[k] /\ since'[k] = since[k]
  BY <1>1, <1>2 DEF ImportInv, NothingYet
<1>7. since'[i] <= month /\ \A h \in posted : h[1] < since'[i] => h \in stored
  <2>1. CASE NewestMonth = 0
    BY <1>5, <1>6, <2>1 DEF Dated
  <2>2. CASE NewestMonth # 0
    <3>1. PICK g \in stored : g[1] = NewestMonth
      BY <1>3, <2>2
    <3>2. g[1] <= month
      BY <1>5 DEF ImportInv, PostedByNow, Dated
    <3>3. \A h \in posted : h[1] < g[1] => h \in stored
      BY DEF ImportInv, NoGapBehindTheNewest
    <3> QED BY <1>6, <3>1, <3>2, <3>3
  <2> QED BY <2>1, <2>2
<1> QED BY <1>1, <1>4, <1>6, <1>7, DownloadMoves

LEMMA ListArchivesKeeps ==
    ASSUME ImportInv, NEW i \in Imports, ListArchives(i)
    PROVE  ImportInv'
<1>1. /\ pc[i] = "listing" /\ todo' = [todo EXCEPT ![i] = {m \in Archives : m >= since[i]}]
      /\ listed' = [listed EXCEPT ![i] = posted] /\ pc' = [pc EXCEPT ![i] = "downloading"]
      /\ UNCHANGED <<worldVars, gameVars, leaseVars, loaded, since, inbox, newGames, faults>>
  BY DEF ListArchives, GoTo
<1>2. /\ pc \in [Imports -> Working \union Over \union {"idle"}]
      /\ todo \in [Imports -> SUBSET Month] /\ listed \in [Imports -> SUBSET posted]
  BY DEF ImportInv, TypeOK
<1>3. posted' = posted /\ stored' = stored /\ month' = month
  BY <1>1 DEF worldVars, gameVars
<1>4. TypeOK'
  <2>1. todo' \in [Imports -> SUBSET Month] /\ listed' \in [Imports -> SUBSET posted]
    BY <1>1, <1>2 DEF Archives
  <2>2. pc' \in [Imports -> Working \union Over \union {"idle"}]
    BY <1>1, <1>2 DEF Working
  <2> QED BY <1>1, <2>1, <2>2 DEF ImportInv, TypeOK, worldVars, gameVars, leaseVars
<1>5. Dated
  BY GamesHaveMonths DEF ImportInv
<1>6. /\ todo'[i] = {m \in Archives : m >= since[i]} /\ listed'[i] = posted
      /\ pc'[i] = "downloading" /\ since' = since /\ inbox' = inbox /\ inbox[i] = {}
      /\ \A k \in Imports \ {i} : pc'[k] = pc[k] /\ todo'[k] = todo[k] /\ listed'[k] = listed[k]
  BY <1>1, <1>2 DEF ImportInv, NothingYet
<1>7. since[i] <= month /\ \A h \in posted : h[1] < since[i] => h \in stored
  BY <1>1 DEF ImportInv, SkippedAreStored
<1>8. Downloading(i)'
  <2>1. \A m \in todo'[i] : m <= month
    BY <1>5, <1>6 DEF ImportInv, PostedByNow, Archives, InMonth, Dated
  <2>2. \A h \in posted : h \in stored \/ h[1] \in todo'[i]
    <3> SUFFICES ASSUME NEW h \in posted, h \notin stored PROVE h[1] \in todo'[i]
      OBVIOUS
    <3>1. h[1] \in Month /\ h[1] >= since[i]
      BY <1>5, <1>7 DEF Dated
    <3>2. h[1] \in Archives
      BY <3>1 DEF Archives, InMonth
    <3> QED BY <1>6, <3>1, <3>2
  <2> QED BY <1>3, <1>6, <2>1, <2>2 DEF Downloading
<1> QED BY <1>1, <1>4, <1>6, <1>7, <1>8, DownloadMoves

LEMMA FetchArchiveKeeps ==
    ASSUME ImportInv, NEW i \in Imports, FetchArchive(i)
    PROVE  ImportInv'
<1> DEFINE first == Min(todo[i])
<1>1. /\ pc[i] = "downloading" /\ todo[i] # {}
      /\ inbox' = [inbox EXCEPT ![i] = @ \union InMonth(first)]
      /\ todo' = [todo EXCEPT ![i] = @ \ {first}]
      /\ UNCHANGED <<worldVars, gameVars, leaseVars, pc, loaded, since, newGames, listed, faults>>
  BY DEF FetchArchive
<1>2. /\ inbox \in [Imports -> SUBSET posted] /\ todo \in [Imports -> SUBSET Month]
  BY DEF ImportInv, TypeOK
<1>3. posted' = posted /\ stored' = stored /\ month' = month
  BY <1>1 DEF worldVars, gameVars
<1>4. Dated
  BY GamesHaveMonths DEF ImportInv
<1>5. first \in todo[i] /\ first \in Nat /\ \A m \in todo[i] : first <= m
  <2>1. todo[i] \in SUBSET Nat
    BY <1>4 DEF Dated
  <2> QED BY <1>1, <2>1, MinOfSome
<1> HIDE DEF first
<1>6. TypeOK'
  <2>1. inbox' \in [Imports -> SUBSET posted] /\ todo' \in [Imports -> SUBSET Month]
    BY <1>1, <1>2 DEF InMonth
  <2> QED BY <1>1, <2>1 DEF ImportInv, TypeOK, worldVars, gameVars, leaseVars
<1>7. /\ inbox'[i] = inbox[i] \union InMonth(first) /\ todo'[i] = todo[i] \ {first}
      /\ pc' = pc /\ since' = since /\ listed' = listed
      /\ \A k \in Imports \ {i} : inbox'[k] = inbox[k] /\ todo'[k] = todo[k]
  BY <1>1, <1>2
<1>8. since[i] <= month /\ \A h \in posted : h[1] < since[i] => h \in stored
  BY <1>1 DEF ImportInv, SkippedAreStored
<1>9. Downloading(i)'
  <2>1. Downloading(i)
    BY <1>1 DEF ImportInv, DownloadsInOrder
  <2>2. \A g \in InMonth(first) : g \in posted /\ g[1] = first
    BY DEF InMonth
  <2>3. \A g \in inbox'[i], h \in posted : h[1] < g[1] => h \in listed[i]
    BY <1>5, <1>7, <2>1, <2>2 DEF Downloading
  <2>4. \A g \in inbox'[i], m \in todo'[i] : g[1] < m
    BY <1>4, <1>5, <1>7, <2>1, <2>2 DEF Downloading, Dated
  <2>5. \A h \in listed[i] : h \in stored \/ h \in inbox'[i] \/ h[1] \in todo'[i]
    <3>1. \A h \in listed[i] : h \in posted /\ (h[1] = first => h \in InMonth(first))
      BY <1>4 DEF Dated, InMonth
    <3> QED BY <1>7, <2>1, <3>1 DEF Downloading
  <2>6. \A m \in todo'[i] : m <= month /\ \A h \in posted : h[1] < m => h \in listed[i]
    BY <1>7, <2>1 DEF Downloading
  <2> QED BY <1>3, <1>7, <2>3, <2>4, <2>5, <2>6 DEF Downloading
<1> QED BY <1>1, <1>6, <1>7, <1>8, <1>9, DownloadMoves

\* The owner stores the oldest games at hand.
LEMMA StoreKeeps ==
    ASSUME ImportInv, NEW i \in Imports, PersistBatch(i), Owns(i)
    PROVE  ImportInv'
<1>1. PICK B \in SUBSET inbox[i] :
         /\ IsBatch(i, B)
         /\ fresh' = TRUE
         /\ stored' = stored \union B
         /\ storedBy' = [storedBy EXCEPT ![i] = @ \union (B \ stored)]
         /\ newGames' = [newGames EXCEPT ![i] = @ + Cardinality(B \ stored)]
         /\ inbox' = [inbox EXCEPT ![i] = @ \ B]
         /\ pc' = pc
  BY DEF PersistBatch
<1>2. /\ pc[i] = "downloading"
      /\ UNCHANGED <<worldVars, status, operation, lastNewGames, loaded, since, todo, listed,
                     faults>>
  BY DEF PersistBatch
<1>3. posted' = posted /\ month' = month
  BY <1>2 DEF worldVars
<1>4. Dated /\ TypeOK
  BY GamesHaveMonths DEF ImportInv
<1>5. /\ B \subseteq posted /\ stored \subseteq posted /\ stored \subseteq stored'
      /\ inbox'[i] = inbox[i] \ B /\ inbox' \in [Imports -> SUBSET posted]
      /\ \A k \in Imports \ {i} : inbox'[k] = inbox[k]
  BY <1>1, <1>4 DEF TypeOK, Dated
<1>6. IsFiniteSet(B \ stored) /\ Cardinality(B \ stored) \in Nat
  BY <1>4, <1>5, PostedIsFinite, FS_Subset, FS_CardinalityType
<1>7. /\ storedBy' \in [Imports -> SUBSET stored']
      /\ storedBy'[i] = storedBy[i] \union (B \ stored)
      /\ \A k \in Imports \ {i} : storedBy'[k] = storedBy[k]
  BY <1>1, <1>4 DEF TypeOK
<1>8. /\ newGames' \in [Imports -> Nat]
      /\ newGames'[i] = newGames[i] + Cardinality(B \ stored)
      /\ \A k \in Imports \ {i} : newGames'[k] = newGames[k]
  BY <1>1, <1>4, <1>6 DEF TypeOK
<1>9. TypeOK'
  <2>1. stored' \subseteq posted
    BY <1>1, <1>5
  <2> QED BY <1>1, <1>2, <1>3, <1>4, <1>5, <1>7, <1>8, <2>1 DEF TypeOK, worldVars
<1>10. Downloading(i)
  BY <1>2 DEF ImportInv, DownloadsInOrder
<1>11. PostedByNow' /\ NothingYet'
  <2>1. PostedByNow'
    BY <1>3 DEF ImportInv, PostedByNow
  <2>2. ASSUME NEW k \in Imports, pc'[k] \in {"idle", "claiming", "claimed", "listing"}
        PROVE  inbox'[k] = {}
    <3>1. k # i /\ pc[k] = pc'[k]
      BY <1>1, <1>2, <2>2
    <3> QED BY <1>5, <2>2, <3>1 DEF ImportInv, NothingYet
  <2> QED BY <2>1, <2>2 DEF NothingYet
<1>12. SkippedAreStored'
  BY <1>1, <1>2, <1>3 DEF ImportInv, SkippedAreStored
<1>13. SuccessIsComplete'
  BY <1>1, <1>2 DEF ImportInv, SuccessIsComplete
<1>14. DownloadsInOrder'
  <2> SUFFICES ASSUME NEW k \in Imports, pc[k] = "downloading" PROVE Downloading(k)'
    BY <1>1 DEF DownloadsInOrder
  <2>1. Downloading(k)
    BY DEF ImportInv, DownloadsInOrder
  <2>2. inbox'[k] \subseteq inbox[k] /\ todo'[k] = todo[k] /\ listed'[k] = listed[k]
    BY <1>2, <1>5
  <2>3. \A h \in inbox[k] : h \in inbox'[k] \/ h \in stored'
    BY <1>1, <1>5
  <2>4. \A h \in listed[k] : h \in stored' \/ h \in inbox'[k] \/ h[1] \in todo[k]
    BY <1>5, <2>1, <2>3 DEF Downloading
  <2> QED BY <1>3, <2>1, <2>2, <2>4 DEF Downloading
<1>15. NoGapBehindTheNewest'
  <2> SUFFICES ASSUME NEW g \in stored', NEW h \in posted, h[1] < g[1] PROVE h \in stored'
    BY <1>3 DEF NoGapBehindTheNewest
  <2>1. CASE g \in stored
    BY <1>5, <2>1 DEF ImportInv, NoGapBehindTheNewest
  <2>2. CASE g \in B
    <3>1. h \in stored \/ h \in inbox[i] \/ h[1] \in todo[i]
      BY <2>2, <1>10 DEF Downloading
    <3>2. g[1] \in Nat /\ h[1] \in Nat
      BY <1>4, <1>5, <2>2 DEF Dated
    <3>3. h[1] \notin todo[i]
      BY <1>10, <2>2, <3>2 DEF Downloading
    <3>4. h \notin inbox[i] \ B
      <4>1. ASSUME h \in inbox[i] \ B PROVE FALSE
        <5>1. Older(g, h)
          BY <1>1, <2>2, <4>1 DEF IsBatch
        <5> QED BY <3>2, <5>1 DEF Older
      <4> QED BY <4>1
    <3> QED BY <1>1, <3>1, <3>3, <3>4
  <2> QED BY <1>1, <2>1, <2>2
<1>16. CountsAreRight'
  <2>1. newGames[i] = Cardinality(storedBy[i]) /\ storedBy[i] \subseteq stored
    BY <1>4 DEF ImportInv, CountsAreRight, TypeOK
  <2>2. IsFiniteSet(storedBy[i]) /\ storedBy[i] \intersect (B \ stored) = {}
    BY <1>4, <2>1, PostedIsFinite, FS_Subset DEF TypeOK
  <2>3. Cardinality(storedBy[i]) \in Nat
    BY <2>2, FS_CardinalityType
  <2>4. Cardinality(storedBy[i] \union (B \ stored))
          = Cardinality(storedBy[i]) + Cardinality(B \ stored)
    <3>1. Cardinality(storedBy[i] \union (B \ stored))
            = Cardinality(storedBy[i]) + Cardinality(B \ stored) - Cardinality({})
      BY <1>6, <2>2, FS_Union
    <3> QED BY <1>6, <2>3, <3>1, FS_EmptySet
  <2>5. newGames'[i] = Cardinality(storedBy'[i])
    BY <1>7, <1>8, <2>1, <2>4
  <2>6. \A k \in Imports \ {i} : newGames'[k] = Cardinality(storedBy'[k])
    BY <1>7, <1>8 DEF ImportInv, CountsAreRight
  <2> QED BY <2>5, <2>6 DEF CountsAreRight
<1>17. ClaimsAreRight' /\ RowNamesAnImport' /\ SummaryCountsStored'
  <2>1. status = "importing"
    BY DEF Owns
  <2> QED BY <1>1, <1>2, <2>1
        DEF ImportInv, ClaimsAreRight, RowNamesAnImport, SummaryCountsStored
<1> QED BY <1>9, <1>11, <1>12, <1>13, <1>14, <1>15, <1>16, <1>17 DEF ImportInv

\* An import that was displaced meanwhile stores nothing, and ends.
LEMMA DisplacedKeeps ==
    ASSUME ImportInv, NEW i \in Imports, PersistBatch(i) \/ Finish(i), ~Owns(i)
    PROVE  ImportInv'
<1>1. /\ pc[i] = "downloading" /\ pc' = [pc EXCEPT ![i] = "displaced"]
      /\ UNCHANGED <<worldVars, gameVars, leaseVars, loaded, importVars, faults>>
  BY DEF PersistBatch, Finish, GoTo, gameVars, leaseVars, importVars
<1>2. pc \in [Imports -> Working \union Over \union {"idle"}]
  BY DEF ImportInv, TypeOK
<1>3. TypeOK'
  BY <1>1, <1>2 DEF ImportInv, TypeOK, worldVars, gameVars, leaseVars, importVars, Over
<1>4. \A k \in Imports : pc'[k] = pc[k] \/ (pc[k] # "succeeded" /\ pc'[k] = "displaced")
  BY <1>1, <1>2
<1>5. ClaimsAreRight' /\ RowNamesAnImport' /\ SummaryCountsStored'
  BY <1>1, <1>4, RowStays DEF leaseVars, gameVars
<1> QED BY <1>1, <1>3, <1>4, <1>5, LeaseMoves DEF Over

LEMMA SucceedKeeps ==
    ASSUME ImportInv, NEW i \in Imports, Finish(i), Owns(i)
    PROVE  ImportInv'
<1>1. /\ pc[i] = "downloading" /\ todo[i] = {} /\ inbox[i] = {}
      /\ status' = "succeeded" /\ fresh' = TRUE /\ lastNewGames' = newGames[i]
      /\ pc' = [pc EXCEPT ![i] = "succeeded"]
      /\ UNCHANGED <<worldVars, gameVars, operation, loaded, importVars, faults>>
  BY DEF Finish, GoTo
<1>2. TypeOK /\ pc \in [Imports -> Working \union Over \union {"idle"}]
  BY DEF ImportInv, TypeOK
<1>3. /\ stored' = stored /\ storedBy' = storedBy /\ since' = since /\ posted' = posted
      /\ todo' = todo /\ inbox' = inbox /\ newGames' = newGames /\ listed' = listed
      /\ month' = month
  BY <1>1 DEF worldVars, gameVars, importVars
<1>4. pc'[i] = "succeeded" /\ \A k \in Imports \ {i} : pc'[k] = pc[k]
  BY <1>1, <1>2
<1>5. TypeOK'
  <2>1. lastNewGames' \in Nat /\ pc' \in [Imports -> Working \union Over \union {"idle"}]
    BY <1>1, <1>2 DEF TypeOK, Over
  <2> QED BY <1>1, <1>2, <1>3, <2>1 DEF TypeOK, Status
<1>6. PostedByNow' /\ NoGapBehindTheNewest' /\ CountsAreRight'
  BY <1>3 DEF ImportInv, PostedByNow, NoGapBehindTheNewest, CountsAreRight
<1>7. NothingYet' /\ SkippedAreStored'
  BY <1>3, <1>4 DEF ImportInv, NothingYet, SkippedAreStored
<1>8. DownloadsInOrder'
  BY <1>3, <1>4 DEF ImportInv, DownloadsInOrder, Downloading
<1>9. SuccessIsComplete'
  <2>1. listed[i] \subseteq stored
    BY <1>1 DEF ImportInv, DownloadsInOrder, Downloading
  <2> QED BY <1>3, <1>4, <2>1 DEF ImportInv, SuccessIsComplete
<1>10. /\ status = "importing" /\ operation = i /\ operation' = i /\ Reporter' = i
  BY <1>1, <1>4 DEF Owns, Reporter
<1>11. RowNamesAnImport' /\ SummaryCountsStored'
  BY <1>1, <1>3, <1>4, <1>10 DEF ImportInv, CountsAreRight, RowNamesAnImport, SummaryCountsStored
<1>12. ClaimsAreRight'
  <2>1. ClaimsAreRight
    BY DEF ImportInv
  <2>2. \A k \in Imports : pc'[k] \in {"idle", "claiming"} => k # i /\ pc[k] = pc'[k]
    BY <1>4
  <2> QED BY <1>1, <1>4, <1>10, <2>1, <2>2 DEF ClaimsAreRight
<1> QED BY <1>5, <1>6, <1>7, <1>8, <1>9, <1>11, <1>12 DEF ImportInv

-----------------------------------------------------------------------------
(* GameImport: the theorems *)

LEMMA ImportNext == ImportInv /\ [Next]_vars => ImportInv'
<1> SUFFICES ASSUME ImportInv, [Next]_vars PROVE ImportInv'
  OBVIOUS
<1>1. CASE UNCHANGED vars
  <2>1. /\ UNCHANGED <<worldVars, gameVars, importVars, leaseVars, loaded>>
        /\ pc' = pc /\ faults' = faults
    BY <1>1 DEF vars
  <2>2. TypeOK'
    BY <2>1 DEF ImportInv, TypeOK, worldVars, gameVars, importVars, leaseVars
  <2>3. ClaimsAreRight' /\ RowNamesAnImport' /\ SummaryCountsStored'
    BY <2>1, RowStays DEF leaseVars, gameVars
  <2> QED BY <2>1, <2>2, <2>3, LeaseMoves
<1>2. CASE PlayGame \/ NextMonth \/ LeaseLapses \/ Crash
  BY <1>2, PlayGameKeeps, NextMonthKeeps, LeaseLapsesKeeps, CrashKeeps
<1>3. ASSUME NEW i \in Imports, BeginRead(i) \/ Progress(i) \/ FetchFails(i) PROVE ImportInv'
  <2>1. CASE BeginRead(i) \/ FetchFails(i) \/ BeginWrite(i)
    BY <2>1, BeginReadKeeps, FetchFailsKeeps, BeginWriteKeeps
  <2>2. CASE ReadSince(i) \/ ListArchives(i) \/ FetchArchive(i)
    BY <2>2, ReadSinceKeeps, ListArchivesKeeps, FetchArchiveKeeps
  <2>3. CASE PersistBatch(i)
    BY <2>3, StoreKeeps, DisplacedKeeps
  <2>4. CASE Finish(i)
    BY <2>4, SucceedKeeps, DisplacedKeeps
  <2> QED BY <1>3, <2>1, <2>2, <2>3, <2>4 DEF Progress
<1> QED BY <1>1, <1>2, <1>3 DEF Next

\* ImportInv is an invariant: every download is in order, whoever holds the lease.
THEOREM ImportInvariance == Spec => []ImportInv
<1>1. Init => ImportInv
  BY ImportInit
<1>2. ImportInv /\ [Next]_vars => ImportInv'
  BY ImportNext
<1> QED BY <1>1, <1>2, PTL DEF Spec

\* No month before the newest stored game's is incomplete, so import_all_games
\* may skip the archives before it, for any number of imports that overlap,
\* displace one another, fail or die.
THEOREM NothingIsSkipped == Spec => []NoGapBehindTheNewest
<1>1. ImportInv => NoGapBehindTheNewest
  BY DEF ImportInv
<1> QED BY <1>1, ImportInvariance, PTL

\* An import that reports success has stored every game that was posted when it
\* listed the archives, the ones it skipped included.
THEOREM SuccessMeansComplete == Spec => []SuccessIsComplete
<1>1. ImportInv => SuccessIsComplete
  BY DEF ImportInv
<1> QED BY <1>1, ImportInvariance, PTL

\* A summary that says succeeded counts the games a successful import has
\* inserted: the one it names, or the one whose lease that one took over while
\* it finished (begin_import does not write a status it has read already).
THEOREM SummariesAreTrue == Spec => []SummaryCountsStored
<1>1. ImportInv => SummaryCountsStored
  BY DEF ImportInv
<1> QED BY <1>1, ImportInvariance, PTL

-----------------------------------------------------------------------------
(* PuzzleGeneration: the inductive invariant *)

\* The steps between the first ply of a game and its last.
InGame == {"ply", "before", "after", "confirm", "walk", "save"}

\* In a game, the plies since the last heartbeat follow from the ply.
GapFollowsThePly == stage \in InGame => sinceCheck = ply % Interval

\* Every position counted as analysed was judged, failed or timed out, or is at
\* hand; a timed out one may have been judged before.
PositionsAreAccounted ==
    LET open == IF stage \in {"before", "after"} THEN 1 ELSE 0
    IN  /\ judged + open <= count["analyzed"]
        /\ count["analyzed"] <= judged + open
                                  + count["failed"] + count["timedOut"]

\* A position that failed or timed out anywhere was not confirmed.
FailedIsNotConfirmed ==
    count["confirmed"] + count["failed"] + count["timedOut"]
      + (IF stage \in {"before", "after", "confirm"} THEN 1 ELSE 0)
        <= count["analyzed"]

\* The status is set once, at the end.
StatusIsLast == stage # "done" => runStatus = "running"

RunInv ==
    /\ RunTypeOK
    /\ HeartbeatsBoundTheGap
    /\ GapFollowsThePly
    /\ CandidatesAreAccounted
    /\ PositionsAreAccounted
    /\ FailedIsNotConfirmed
    /\ StatusIsLast
    /\ StatusTellsTheTruth

-----------------------------------------------------------------------------
(* PuzzleGeneration: typing *)

LEMMA InitType == RunInit => RunTypeOK
<1>1. Len(Games) \in Nat
  BY GamesAssumption
<1>2. 0 \in 0..Len(Games) /\ 0 \in 0..MaxRunFaults
  BY <1>1, LimitsAssumption
<1> SUFFICES ASSUME RunInit PROVE RunTypeOK
  OBVIOUS
<1>3. game \in 0..Len(Games) /\ runFaults \in 0..MaxRunFaults
  BY <1>2 DEF RunInit
<1>4. scan \in [before : Evals \cup {0}, best : Moves \cup {NoMove},
                accept : SUBSET Moves]
  BY DEF RunInit, NoScan
<1>5. count \in [Counters -> Nat]
  BY DEF RunInit
<1>6. /\ stage = "start" /\ ply \in Nat /\ engine = "none" /\ runStatus = "running"
      /\ canceled \in BOOLEAN
      /\ sinceCheck \in Nat /\ judged \in Nat /\ lost \in Nat /\ aborted \in Nat
  BY DEF RunInit
<1> QED BY <1>3, <1>4, <1>5, <1>6 DEF RunTypeOK

\* A shallow acceptance set is a set of moves.
LEMMA AcceptSetType ==
    ASSUME NEW top \in TopMoves, NEW b \in Moves \cup {NoMove}
    PROVE  AcceptSet(top, b) \subseteq Moves
<1> DEFINE Line == [uci : Moves, eval : Evals]
<1>1. top \in Seq(Line)
  BY TopMovesAssumption, Zenon
<1>2. \A i \in DOMAIN top : top[i] \in Line
  <2> HIDE DEF Line
  <2> QED BY <1>1
<1>3. \A i \in DOMAIN top : top[i].uci \in Moves
  BY <1>2
<1>4. \A i \in {i \in DOMAIN top : top[1].eval - top[i].eval <= Tolerance} :
        top[i].uci \in Moves
  BY <1>3
<1> QED BY <1>4 DEF AcceptSet

\* Bumping a counter keeps the counters natural numbers.
LEMMA BumpType ==
    ASSUME RunTypeOK, NEW c \in Counters, Bump(c)
    PROVE  count' \in [Counters -> Nat]
BY DEF RunTypeOK, Bump

LEMMA Bump2Type ==
    ASSUME RunTypeOK, NEW c \in Counters, NEW d \in Counters, Bump2(c, d)
    PROVE  count' \in [Counters -> Nat]
<1>1. [count EXCEPT ![c] = @ + 1] \in [Counters -> Nat]
  BY DEF RunTypeOK
<1> QED BY <1>1 DEF Bump2

\* What a fault, and the engine it leaves, can be.
LEMMA FaultType ==
    ASSUME RunTypeOK
    PROVE  /\ Fault => runFaults' \in 0..MaxRunFaults
           /\ Errs => /\ runFaults' \in 0..MaxRunFaults
                      /\ engine' \in {"none", "live", "crashed", "killed"}
           /\ OnTimeout => /\ engine' \in {"none", "live", "crashed", "killed"}
                           /\ stage' \in {"game", "ply"}
BY LimitsAssumption DEF RunTypeOK, Fault, Errs, OnTimeout, Recreate

\* Every step preserves the types.
LEMMA TypeStep == RunTypeOK /\ [RunNext]_runVars => RunTypeOK'
<1> SUFFICES ASSUME RunTypeOK, [RunNext]_runVars PROVE RunTypeOK'
  OBVIOUS
<1> USE DEF Counters
<1>1. CASE Begin
  BY <1>1 DEF Begin, RunTypeOK
<1>2. CASE StartGame
  <2>1. game' \in 0..Len(Games)
    <3>1. Len(Games) \in Nat
      BY GamesAssumption
    <3> QED BY <1>2, <3>1 DEF StartGame, RunTypeOK
  <2> QED BY <1>2, <2>1 DEF StartGame, RunTypeOK
<1>3. CASE NextPly
  <2>1. count' \in [Counters -> Nat]
    <3>1. UNCHANGED count \/ Bump("analyzed")
      BY <1>3, Zenon DEF NextPly
    <3> QED BY <3>1, BumpType DEF RunTypeOK
  <2>2. ply' \in {ply, ply + 1} /\ sinceCheck' \in {0, sinceCheck, sinceCheck + 1}
    BY <1>3, Zenon DEF NextPly
  <2>3. ply' \in Nat /\ sinceCheck' \in Nat
    <3>1. ply \in Nat /\ sinceCheck \in Nat
      BY Zenon DEF RunTypeOK
    <3> QED BY <2>2, <3>1
  <2> QED BY <1>3, <2>1, <2>3 DEF NextPly, RunTypeOK
<1>4. CASE ScanBefore
  <2>1. count' \in [Counters -> Nat]
    BY <1>4, BumpType DEF ScanBefore, RunTypeOK
  <2>2. /\ engine' \in {"none", "live", "crashed", "killed"}
        /\ runFaults' \in 0..MaxRunFaults
        /\ stage' \in {"game", "ply", "after"}
    BY <1>4, FaultType DEF ScanBefore, TimesOut, RunTypeOK
  <2>3. /\ judged' \in Nat
        /\ scan' \in [before : Evals \cup {0}, best : Moves \cup {NoMove},
                      accept : SUBSET Moves]
    BY <1>4 DEF ScanBefore, RunTypeOK
  <2> QED BY <1>4, <2>1, <2>2, <2>3 DEF ScanBefore, RunTypeOK
<1>5. CASE ScanAfter
  <2>1. count' \in [Counters -> Nat]
    BY <1>5, BumpType DEF ScanAfter, RunTypeOK
  <2>2. /\ engine' \in {"none", "live", "crashed", "killed"}
        /\ runFaults' \in 0..MaxRunFaults
        /\ stage' \in {"game", "ply", "confirm"}
    BY <1>5, FaultType DEF ScanAfter, TimesOut, RunTypeOK
  <2>3. /\ judged' \in Nat
        /\ scan' \in [before : Evals \cup {0}, best : Moves \cup {NoMove},
                      accept : SUBSET Moves]
    <3>1. \A top \in TopMoves : AcceptSet(top, scan.best) \subseteq Moves
      BY AcceptSetType DEF RunTypeOK
    <3>2. scan' = NoScan
          \/ \E top \in TopMoves :
                scan' = [scan EXCEPT !.accept = AcceptSet(top, scan.best)]
      BY <1>5, Zenon DEF ScanAfter
    <3>3. scan \in [before : Evals \cup {0}, best : Moves \cup {NoMove},
                   accept : SUBSET Moves]
      BY DEF RunTypeOK
    <3>4. judged' \in {judged, judged + 1} /\ judged \in Nat
      BY <1>5 DEF ScanAfter, RunTypeOK
    <3>5. scan' \in [before : Evals \cup {0}, best : Moves \cup {NoMove},
                    accept : SUBSET Moves]
      BY <3>1, <3>2, <3>3 DEF NoScan
    <3> QED BY <3>4, <3>5
  <2> QED BY <1>5, <2>1, <2>2, <2>3 DEF ScanAfter, RunTypeOK
<1>6. CASE Confirm
  <2>1. count' \in [Counters -> Nat]
    BY <1>6, BumpType, Bump2Type DEF Confirm, Confirmation, RunTypeOK
  <2>2. /\ engine' \in {"none", "live", "crashed", "killed"}
        /\ runFaults' \in 0..MaxRunFaults
        /\ stage' \in {"game", "ply", "walk"}
    BY <1>6, FaultType DEF Confirm, TimesOut, RunTypeOK
  <2>3. aborted' \in Nat
    BY <1>6 DEF Confirm, RunTypeOK
  <2> QED BY <1>6, <2>1, <2>2, <2>3 DEF Confirm, RunTypeOK, NoScan
<1>7. CASE WalkLine
  BY <1>7, FaultType DEF WalkLine, TimesOut, RunTypeOK
<1>8. CASE Save
  <2>1. count' \in [Counters -> Nat]
    BY <1>8, BumpType DEF Save, RunTypeOK
  <2>2. /\ UNCHANGED runFaults \/ Fault
        /\ lost' \in {lost, lost + 1}
        /\ stage' \in {"game", "ply"}
    BY <1>8 DEF Save
  <2>3. runFaults' \in 0..MaxRunFaults /\ lost' \in Nat
    <3>1. runFaults \in 0..MaxRunFaults /\ lost \in Nat
      BY Zenon DEF RunTypeOK
    <3> QED BY <2>2, <3>1, FaultType
  <2> QED BY <1>8, <2>1, <2>2, <2>3 DEF Save, RunTypeOK
<1>9. CASE FinishRun
  BY <1>9 DEF FinishRun, StatusOf, RunTypeOK
<1>10. CASE CancelRun
  BY <1>10 DEF CancelRun, RunTypeOK
<1>11. CASE UNCHANGED runVars
  BY <1>11 DEF runVars, RunTypeOK
<1> QED
  BY <1>1, <1>2, <1>3, <1>4, <1>5, <1>6, <1>7, <1>8, <1>9, <1>10, <1>11 DEF RunNext

\* RunTypeOK, part by part as the next lemmas use it.
LEMMA NumbersAreNatural ==
    ASSUME RunTypeOK
    PROVE  /\ ply \in Nat /\ sinceCheck \in Nat
           /\ judged \in Nat /\ lost \in Nat /\ aborted \in Nat
           /\ count \in [Counters -> Nat]
           /\ \A c \in Counters : count[c] \in Nat
BY DEF RunTypeOK

-----------------------------------------------------------------------------
(* PuzzleGeneration: heartbeats *)

\* Quotient and remainder.
LEMMA Division ==
    ASSUME NEW n \in Nat, NEW k \in Nat \ {0}
    PROVE  /\ n = k * (n \div k) + (n % k)
           /\ n \div k \in Nat
           /\ n % k \in 0..(k - 1)
<1>1. n = k * (n \div k) + (n % k)
  OBVIOUS
<1>2. n \div k \in Nat
  OBVIOUS
<1>3. n % k \in 0..(k - 1)
  OBVIOUS
<1> QED BY <1>1, <1>2, <1>3

\* Counting on to a number that is not a multiple, the remainder counts on.
LEMMA Modulo ==
    ASSUME NEW n \in Nat, NEW k \in Nat \ {0}, (n + 1) % k # 0
    PROVE  (n + 1) % k = (n % k) + 1
<1> DEFINE q == n \div k
           r == n % k
           p == (n + 1) \div k
           s == (n + 1) % k
<1>1. n = k * q + r /\ r \in 0..(k - 1) /\ q \in Nat
  BY Division
<1>2. n + 1 = k * p + s /\ s \in 1..(k - 1) /\ p \in Nat
  <2>1. n + 1 \in Nat
    OBVIOUS
  <2>2. n + 1 = k * p + s /\ s \in 0..(k - 1) /\ p \in Nat
    BY <2>1, Division
  <2>3. s # 0
    OBVIOUS
  <2> HIDE DEF p, s
  <2> QED BY <2>2, <2>3
<1> HIDE DEF q, r, p, s
<1>3. k * q + r + 1 = k * p + s
  BY <1>1, <1>2
<1>4. p = q
  <2>1. ~(p > q)
    <3> SUFFICES ASSUME p > q PROVE FALSE
      OBVIOUS
    <3>1. p >= q + 1
      BY <1>1, <1>2
    <3>2. k * p >= k * q + k
      BY <3>1, <1>1, <1>2
    <3> QED BY <3>2, <1>1, <1>2, <1>3
  <2>2. ~(p < q)
    <3> SUFFICES ASSUME p < q PROVE FALSE
      OBVIOUS
    <3>1. q >= p + 1
      BY <1>1, <1>2
    <3>2. k * q >= k * p + k
      BY <3>1, <1>1, <1>2
    <3> QED BY <3>2, <1>1, <1>2, <1>3
  <2> QED BY <2>1, <2>2, <1>1, <1>2
<1>5. s = r + 1
  BY <1>1, <1>2, <1>3, <1>4
<1> QED BY <1>5 DEF r, s

LEMMA GapInit == RunInit => HeartbeatsBoundTheGap /\ GapFollowsThePly
BY LimitsAssumption DEF RunInit, HeartbeatsBoundTheGap, GapFollowsThePly, InGame

\* Every step keeps the gap below the interval, and tied to the ply.
LEMMA GapStep ==
    ASSUME RunTypeOK, HeartbeatsBoundTheGap, GapFollowsThePly, [RunNext]_runVars
    PROVE  HeartbeatsBoundTheGap' /\ GapFollowsThePly'
<1> USE NumbersAreNatural
    DEF HeartbeatsBoundTheGap, GapFollowsThePly, InGame
<1>1. CASE StartGame
  <2>1. 0 % Interval = 0 /\ 0 < Interval
    BY LimitsAssumption
  <2> QED BY <1>1, <2>1 DEF StartGame
<1>2. CASE NextPly
  <2>1. CASE ply = Len(Games[game])
    BY <1>2, <2>1 DEF NextPly
  <2>2. CASE ply # Len(Games[game])
    <3>1. sinceCheck = ply % Interval /\ ply' = ply + 1
      BY <1>2, <2>2 DEF NextPly
    <3>2. CASE (ply + 1) % Interval = 0
      <4>1. sinceCheck' = 0
        BY <1>2, <2>2, <3>2 DEF NextPly
      <4> QED BY <3>1, <3>2, <4>1, LimitsAssumption
    <3>3. CASE (ply + 1) % Interval # 0
      <4>1. sinceCheck' = sinceCheck + 1
        BY <1>2, <2>2, <3>3 DEF NextPly
      <4>2. (ply + 1) % Interval = (ply % Interval) + 1
        BY <3>3, Modulo, LimitsAssumption
      <4>3. (ply + 1) % Interval < Interval
        BY Division, LimitsAssumption
      <4> QED BY <3>1, <4>1, <4>2, <4>3
    <3> QED BY <3>2, <3>3
  <2> QED BY <2>1, <2>2
<1>3. CASE ScanBefore
  BY <1>3 DEF ScanBefore
<1>4. CASE ScanAfter
  BY <1>4 DEF ScanAfter
<1>5. CASE Confirm
  BY <1>5 DEF Confirm
<1>6. CASE WalkLine \/ Save
  BY <1>6 DEF WalkLine, Save
<1>7. CASE Begin \/ FinishRun \/ CancelRun \/ UNCHANGED runVars
  BY <1>7 DEF Begin, FinishRun, CancelRun, runVars
<1> QED BY <1>1, <1>2, <1>3, <1>4, <1>5, <1>6, <1>7 DEF RunNext

-----------------------------------------------------------------------------
(* PuzzleGeneration: the counters *)

\* What bumping a counter does to each of them.
LEMMA BumpValue ==
    ASSUME RunTypeOK, NEW c \in Counters
    PROVE  /\ Bump(c) => \A k \in Counters :
                count'[k] = IF k = c THEN count[k] + 1 ELSE count[k]
           /\ \A d \in Counters \ {c} : Bump2(c, d) => \A k \in Counters :
                count'[k] = IF k \in {c, d} THEN count[k] + 1 ELSE count[k]
BY DEF RunTypeOK, Bump, Bump2

LEMMA CountersInit ==
    RunInit => CandidatesAreAccounted /\ PositionsAreAccounted /\ FailedIsNotConfirmed
BY DEF RunInit, Counters, CandidatesAreAccounted, PositionsAreAccounted,
    FailedIsNotConfirmed

\* Every step keeps the three accounts of the counters.
LEMMA CountersStep ==
    ASSUME RunTypeOK, [RunNext]_runVars,
           CandidatesAreAccounted, PositionsAreAccounted, FailedIsNotConfirmed
    PROVE  CandidatesAreAccounted' /\ PositionsAreAccounted' /\ FailedIsNotConfirmed'
<1> USE NumbersAreNatural
    DEF CandidatesAreAccounted, PositionsAreAccounted, FailedIsNotConfirmed, Counters
<1>1. CASE Begin \/ StartGame \/ WalkLine \/ FinishRun \/ CancelRun \/ UNCHANGED runVars
  BY <1>1 DEF Begin, StartGame, WalkLine, FinishRun, CancelRun, runVars
<1>2. CASE NextPly
  <2>1. CASE stage' = "before" /\ Bump("analyzed")
    <3>1. stage = "ply" /\ UNCHANGED <<judged, lost, aborted>>
      BY <1>2 DEF NextPly
    <3> QED BY <2>1, <3>1, BumpValue
  <2>2. CASE stage' \in {"game", "ply"} /\ UNCHANGED count
    BY <1>2, <2>2 DEF NextPly
  <2> QED BY <1>2, <2>1, <2>2 DEF NextPly
<1>3. CASE ScanBefore
  <2>1. CASE stage' = "after" /\ UNCHANGED <<count, judged>>
    BY <1>3, <2>1 DEF ScanBefore
  <2>2. CASE stage' = "ply" /\ judged' = judged + 1 /\ UNCHANGED count
    BY <1>3, <2>2 DEF ScanBefore
  <2>3. CASE stage' \in {"game", "ply"} /\ Bump("timedOut") /\ UNCHANGED judged
    BY <1>3, <2>3, BumpValue DEF ScanBefore
  <2>4. CASE stage' = "ply" /\ Bump("failed") /\ UNCHANGED judged
    BY <1>3, <2>4, BumpValue DEF ScanBefore
  <2> QED BY <1>3, <2>1, <2>2, <2>3, <2>4 DEF ScanBefore, OnTimeout
<1>4. CASE ScanAfter
  <2>1. CASE stage' = "ply" /\ judged' = judged + 1 /\ UNCHANGED count
    BY <1>4, <2>1 DEF ScanAfter
  <2>2. CASE stage' = "confirm" /\ judged' = judged + 1 /\ Bump("found")
    BY <1>4, <2>2, BumpValue DEF ScanAfter
  <2>3. CASE stage' \in {"game", "ply"} /\ Bump("timedOut") /\ UNCHANGED judged
    BY <1>4, <2>3, BumpValue DEF ScanAfter
  <2>4. CASE stage' = "ply" /\ Bump("failed") /\ UNCHANGED judged
    BY <1>4, <2>4, BumpValue DEF ScanAfter
  <2> QED BY <1>4, <2>1, <2>2, <2>3, <2>4 DEF ScanAfter, OnTimeout
<1>5. CASE Confirm
  <2>1. CASE stage' = "walk" /\ Bump("confirmed") /\ UNCHANGED aborted
    BY <1>5, <2>1, BumpValue DEF Confirm
  <2>2. CASE stage' = "ply" /\ Bump("unstable") /\ UNCHANGED aborted
    BY <1>5, <2>2, BumpValue DEF Confirm
  <2>3. CASE stage' = "ply" /\ Bump("lowMargin") /\ UNCHANGED aborted
    BY <1>5, <2>3, BumpValue DEF Confirm
  <2>4. CASE stage' = "game" /\ Bump("timedOut") /\ aborted' = aborted + 1
    BY <1>5, <2>4, BumpValue DEF Confirm
  <2>5. CASE stage' = "ply" /\ Bump2("timedOut", "unstable") /\ UNCHANGED aborted
    BY <1>5, <2>5, BumpValue DEF Confirm
  <2>6. CASE \E e, f \in Evals, m \in Moves, top \in TopMoves :
               /\ LET verdict == Confirmation(e, f, m, top)
                  IN  IF verdict = "accepted"
                        THEN stage' = "walk" /\ Bump("confirmed")
                        ELSE stage' = "ply" /\ Bump(verdict)
               /\ UNCHANGED aborted
    <3>1. PICK e \in Evals, f \in Evals, m \in Moves, top \in TopMoves :
               /\ LET verdict == Confirmation(e, f, m, top)
                  IN  IF verdict = "accepted"
                        THEN stage' = "walk" /\ Bump("confirmed")
                        ELSE stage' = "ply" /\ Bump(verdict)
               /\ UNCHANGED aborted
      BY <2>6
    <3>2. Confirmation(e, f, m, top) \in {"accepted", "unstable", "lowMargin"}
      BY DEF Confirmation
    <3> QED BY <3>1, <3>2, <2>1, <2>2, <2>3
  <2>7. CASE /\ OnTimeout
             /\ IF engine' = "none"
                  THEN Bump("timedOut") /\ aborted' = aborted + 1
                  ELSE Bump2("timedOut", "unstable") /\ UNCHANGED aborted
    BY <2>7, <2>4, <2>5 DEF OnTimeout
  <2> QED BY <1>5, <2>2, <2>6, <2>7 DEF Confirm
<1>6. CASE Save
  <2>1. CASE stage' \in {"game", "ply"} /\ Bump("generated") /\ UNCHANGED lost
    BY <1>6, <2>1, BumpValue DEF Save
  <2>2. CASE stage' = "ply" /\ Bump("skipped") /\ UNCHANGED lost
    BY <1>6, <2>2, BumpValue DEF Save
  <2>3. CASE stage' = "ply" /\ lost' = lost + 1 /\ UNCHANGED count
    BY <1>6, <2>3 DEF Save
  <2> QED BY <1>6, <2>1, <2>2, <2>3 DEF Save
<1> QED BY <1>1, <1>2, <1>3, <1>4, <1>5, <1>6 DEF RunNext

-----------------------------------------------------------------------------
(* PuzzleGeneration: the status *)

LEMMA StatusInit == RunInit => StatusIsLast /\ StatusTellsTheTruth
BY DEF RunInit, StatusIsLast, StatusTellsTheTruth

\* Only the last step sets a status that claims something, from counters that
\* bear it out.
LEMMA StatusStep ==
    ASSUME RunTypeOK, [RunNext]_runVars, PositionsAreAccounted, FailedIsNotConfirmed,
           StatusIsLast, StatusTellsTheTruth
    PROVE  StatusIsLast' /\ StatusTellsTheTruth'
<1> USE NumbersAreNatural DEF StatusIsLast, StatusTellsTheTruth
<1>1. CASE Begin
  BY <1>1 DEF Begin
<1>2. CASE FinishRun
  <2>1. stage' = "done" /\ UNCHANGED <<count, judged>>
    BY <1>2 DEF FinishRun
  <2> DEFINE failures == count["failed"] + count["timedOut"]
  <2>2. runStatus' = StatusOf(failures)
    BY <1>2 DEF FinishRun
  <2>3. /\ judged <= count["analyzed"] /\ count["analyzed"] <= judged + failures
        /\ count["confirmed"] + failures <= count["analyzed"]
        /\ failures \in Nat /\ count["confirmed"] \in Nat
    BY <1>2 DEF FinishRun, PositionsAreAccounted, FailedIsNotConfirmed, Counters
  <2> HIDE DEF failures
  <2>4. runStatus' \in {"success", "no_mistakes"} => judged = count["analyzed"]
    <3>1. runStatus' \in {"success", "no_mistakes"} => ~(failures > 0)
      BY <2>2 DEF StatusOf
    <3> QED BY <3>1, <2>3 DEF Counters
  <2>5. runStatus' = "all_failed" => count["confirmed"] = 0
    <3>1. runStatus' = "all_failed" => failures >= count["analyzed"]
      BY <2>2 DEF StatusOf
    <3> QED BY <3>1, <2>3 DEF Counters
  <2> QED BY <2>1, <2>4, <2>5
<1>3. CASE StartGame \/ NextPly \/ ScanBefore \/ ScanAfter \/ Confirm
           \/ WalkLine \/ Save \/ CancelRun
  <2>1. stage # "done" /\ runStatus' = runStatus
    BY <1>3 DEF StartGame, NextPly, ScanBefore, ScanAfter, Confirm, WalkLine,
      Save, CancelRun
  <2> QED BY <2>1
<1>4. CASE UNCHANGED runVars
  BY <1>4 DEF runVars
<1> QED BY <1>1, <1>2, <1>3, <1>4 DEF RunNext

-----------------------------------------------------------------------------
(* PuzzleGeneration: the theorems *)

LEMMA RunInvariance == RunSpec => []RunInv
<1>1. RunInit => RunInv
  BY InitType, GapInit, CountersInit, StatusInit DEF RunInv
<1>2. RunInv /\ [RunNext]_runVars => RunInv'
  BY TypeStep, GapStep, CountersStep, StatusStep DEF RunInv
<1> QED BY <1>1, <1>2, PTL DEF RunSpec

\* Every variable of a generation run has its type in every reachable state.
THEOREM RunTypeCorrect == RunSpec => []RunTypeOK
BY RunInvariance, PTL DEF RunInv

\* However long the games and whatever fails in them, generate_puzzles is never
\* more than an interval away from its last heartbeat.
THEOREM HeartbeatsAreRegular == RunSpec => []HeartbeatsBoundTheGap
BY RunInvariance, PTL DEF RunInv

\* Every candidate ends in exactly one counter of GenerationResult, save those a
\* run gives up for want of an engine or loses to a failure, and every confirmed
\* one is new, a duplicate or a failed save.
THEOREM CandidatesAddUp == RunSpec => []CandidatesAreAccounted
BY RunInvariance, PTL DEF RunInv

\* The status of a run is borne out by what it evaluated: success and
\* no_mistakes mean that no position was missed, all_failed that none passed.
THEOREM StatusIsTrue == RunSpec => []StatusTellsTheTruth
BY RunInvariance, PTL DEF RunInv

-----------------------------------------------------------------------------
(* DiagnosisChain: the inductive invariant *)

\* ChainTypeOK bounds what is pending for a user; it is a function of users.
PendingIsTyped == pending \in [Users -> SUBSET Puzzles]

\* A row some job wrote belongs to a user.
RowsHaveUsers == \A r \in Rows : row[r].status # "absent" => row[r].username \in Users

\* A loop that is not idle holds a row that was written.
LoopsHoldRows ==
    \A w \in Workers : loop[w] # "idle" =>
        job[w] \in Rows /\ row[job[w]].status # "absent"

ActiveDiagnosis(r, u) ==
    row[r].status \in Active /\ row[r].username = u /\ row[r].type = "diagnosis"

\* The active-job index: a user has one active diagnosis.
OneDiagnosis ==
    \A u \in Users : \A r, s \in Rows :
        ActiveDiagnosis(r, u) /\ ActiveDiagnosis(s, u) => r = s

\* The newest row of a user is a diagnosis of theirs.
LatestIsTheirs ==
    \A u \in Users : latest[u] # NoRow =>
        /\ row[latest[u]].status # "absent"
        /\ row[latest[u]].username = u
        /\ row[latest[u]].type = "diagnosis"

\* Stall reports that were made are spent.
ReportsAreSpent == left["report"] <= Budget["report"]

NoReport == left["report"] = Budget["report"]

\* Without a stall report, the newest diagnosis row of a user is the active one
\* or, when none is active, the last to end.
LatestTells(u) ==
    /\ \A r \in Rows : ActiveDiagnosis(r, u) => latest[u] = r
    /\ latest[u] = NoRow => ended[u] = "succeeded"
    /\ latest[u] # NoRow /\ ~HasActive(u, "diagnosis") =>
        row[latest[u]].status = ended[u] /\ latestAge[u] = endedAge[u]

ChainInv ==
    /\ ChainTypeOK
    /\ PendingIsTyped
    /\ RowsHaveUsers
    /\ LoopsHoldRows
    /\ OneDiagnosis
    /\ LatestIsTheirs
    /\ ReportsAreSpent
    /\ NoReport => \A u \in Users : LatestTells(u)

-----------------------------------------------------------------------------
(* DiagnosisChain: the writes to the jobs table *)

JobTypes ==
    /\ row \in [Rows -> Row]
    /\ latest \in [Users -> Rows \union {NoRow}]
    /\ latestAge \in [Users -> Ages] /\ endedAge \in [Users -> Ages]
    /\ ended \in [Users -> Stopped \union {"succeeded"}]

\* What every write keeps: the facts about the rows, and no written row becomes
\* absent.
JobsKept ==
    /\ JobTypes'
    /\ RowsHaveUsers'
    /\ OneDiagnosis'
    /\ LatestIsTheirs'
    /\ \A r \in Rows : row[r].status # "absent" => row'[r].status # "absent"

TellsKept == (\A u \in Users : LatestTells(u)) => (\A u \in Users : LatestTells(u)')

LEMMA AgesAreNumbers == 0 \in Ages /\ Ages \subseteq Nat
BY DiagnosisChainAssumption DEF Ages

\* A row's parts.
LEMMA RowParts ==
    ASSUME JobTypes, NEW r \in Rows
    PROVE  /\ row[r] \in Row
           /\ row[r].status \in Active \union Stopped \union {"absent", "succeeded"}
           /\ row[r].type \in JobType
           /\ row[r].username \in Users \union {NoRow}
BY DEF JobTypes, Row

\* A new status leaves the other columns and the other rows alone.
LEMMA StatusColumn ==
    ASSUME JobTypes, NEW r \in Rows, NEW s \in Active \union Stopped \union {"succeeded"},
           row' = [row EXCEPT ![r].status = s]
    PROVE  /\ row' \in [Rows -> Row]
           /\ \A q \in Rows : /\ q # r => row'[q] = row[q]
                              /\ row'[q].type = row[q].type
                              /\ row'[q].username = row[q].username
           /\ row'[r].status = s
<1>1. row \in [Rows -> Row]
  BY DEF JobTypes
<1>2. [row[r] EXCEPT !.status = s] \in Row
  BY <1>1 DEF Row
<1>3. row' = [row EXCEPT ![r] = [row[r] EXCEPT !.status = s]]
  OBVIOUS
<1>4. row' \in [Rows -> Row]
  BY <1>1, <1>2, <1>3
<1>5. \A q \in Rows : q # r => row'[q] = row[q]
  BY <1>1, <1>3
<1>6. row'[r] = [row[r] EXCEPT !.status = s]
  BY <1>1, <1>3
<1>7. /\ row'[r].type = row[r].type /\ row'[r].username = row[r].username
      /\ row'[r].status = s
  BY <1>1, <1>6 DEF Row
<1> QED BY <1>4, <1>5, <1>7

\* A change of status of an active row: claim, success, failure, cancel, reclaim.
LEMMA SetStatusKeeps ==
    ASSUME JobTypes, RowsHaveUsers, OneDiagnosis, LatestIsTheirs,
           NEW r \in Rows, row[r].status \in Active,
           NEW s \in Active \union Stopped \union {"succeeded"}, SetStatus(r, s)
    PROVE  JobsKept /\ TellsKept
<1> DEFINE u == row[r].username
<1>1. u \in Users
  BY DEF RowsHaveUsers, Active
<1>2. /\ row' \in [Rows -> Row]
      /\ \A q \in Rows : /\ q # r => row'[q] = row[q]
                         /\ row'[q].type = row[q].type
                         /\ row'[q].username = row[q].username
      /\ row'[r].status = s
  BY StatusColumn DEF SetStatus
<1>3. CASE row[r].type # "diagnosis"
  <2>1. UNCHANGED <<latest, latestAge, ended, endedAge>>
    BY <1>3 DEF SetStatus, Touch
  <2>2. JobTypes'
    BY <1>2, <2>1 DEF JobTypes
  <2>3. \A q \in Rows, v \in Users : ActiveDiagnosis(q, v)' <=> ActiveDiagnosis(q, v)
    BY <1>2, <1>3 DEF ActiveDiagnosis
  <2>4. \A v \in Users : latest[v] # NoRow => latest[v] \in Rows /\ latest[v] # r
    BY <1>3 DEF LatestIsTheirs, JobTypes
  <2>5. LatestIsTheirs'
    BY <1>2, <2>1, <2>4 DEF LatestIsTheirs
  <2>6. RowsHaveUsers' /\ \A q \in Rows : row[q].status # "absent" => row'[q].status # "absent"
    BY <1>1, <1>2 DEF RowsHaveUsers, Active, Stopped
  <2>7. OneDiagnosis'
    BY <2>3 DEF OneDiagnosis
  <2>8. \A v \in Users : HasActive(v, "diagnosis")' <=> HasActive(v, "diagnosis")
    BY <2>3 DEF HasActive, ActiveDiagnosis
  <2>9. TellsKept
    BY <1>2, <2>1, <2>3, <2>4, <2>8 DEF TellsKept, LatestTells
  <2> QED BY <2>2, <2>5, <2>6, <2>7, <2>9 DEF JobsKept
<1>4. CASE row[r].type = "diagnosis"
  <2>1. /\ latest' = [latest EXCEPT ![u] = r]
        /\ latestAge' = [latestAge EXCEPT ![u] = 0]
    BY <1>4 DEF SetStatus, Touch
  <2>2. IF s \notin Active
        THEN ended' = [ended EXCEPT ![u] = s] /\ endedAge' = [endedAge EXCEPT ![u] = 0]
        ELSE UNCHANGED <<ended, endedAge>>
    BY <1>4 DEF SetStatus
  <2>3. JobTypes'
    <3>1. latest' \in [Users -> Rows \union {NoRow}] /\ latestAge' \in [Users -> Ages]
      BY <2>1, AgesAreNumbers DEF JobTypes
    <3>2. endedAge' \in [Users -> Ages] /\ ended' \in [Users -> Stopped \union {"succeeded"}]
      BY <2>2, AgesAreNumbers DEF JobTypes
    <3> QED BY <1>2, <3>1, <3>2 DEF JobTypes
  <2>4. /\ latest'[u] = r /\ latestAge'[u] = 0
        /\ \A v \in Users : v # u => latest'[v] = latest[v] /\ latestAge'[v] = latestAge[v]
    BY <1>1, <2>1 DEF JobTypes
  <2>5. /\ s \notin Active => ended'[u] = s /\ endedAge'[u] = 0
        /\ \A v \in Users : v # u => ended'[v] = ended[v] /\ endedAge'[v] = endedAge[v]
    BY <1>1, <2>2 DEF JobTypes
  <2>6. ActiveDiagnosis(r, u)
    BY <1>4 DEF ActiveDiagnosis
  <2>7. \A q \in Rows, v \in Users : ActiveDiagnosis(q, v)' => ActiveDiagnosis(q, v)
    BY <1>2, <2>6 DEF ActiveDiagnosis
  <2>8. OneDiagnosis'
    BY <2>7 DEF OneDiagnosis
  <2>9. RowsHaveUsers' /\ \A q \in Rows : row[q].status # "absent" => row'[q].status # "absent"
    BY <1>1, <1>2 DEF RowsHaveUsers, Active, Stopped
  <2>10. \A v \in Users : v # u /\ latest[v] # NoRow => latest[v] \in Rows /\ latest[v] # r
    BY DEF LatestIsTheirs, JobTypes
  <2>11. LatestIsTheirs'
    <3> SUFFICES ASSUME NEW v \in Users, latest'[v] # NoRow
                 PROVE  /\ row'[latest'[v]].status # "absent"
                        /\ row'[latest'[v]].username = v
                        /\ row'[latest'[v]].type = "diagnosis"
      BY DEF LatestIsTheirs
    <3>1. CASE v = u
      BY <1>2, <1>4, <2>4, <3>1 DEF Active, Stopped
    <3>2. CASE v # u
      BY <1>2, <2>4, <2>10, <3>2 DEF LatestIsTheirs
    <3> QED BY <3>1, <3>2
  <2>12. TellsKept
    <3> SUFFICES ASSUME \A v \in Users : LatestTells(v), NEW v \in Users
                 PROVE  LatestTells(v)'
      BY DEF TellsKept
    <3>1. CASE v = u
      <4>1. ASSUME NEW q \in Rows, ActiveDiagnosis(q, v)' PROVE latest'[v] = q
        <5>1. ActiveDiagnosis(q, v)
          BY <4>1, <2>7
        <5>2. ActiveDiagnosis(r, v)
          BY <2>6, <3>1
        <5>3. q = r
          BY <5>1, <5>2 DEF OneDiagnosis
        <5> QED BY <2>4, <3>1, <5>3
      <4>2. latest'[v] # NoRow
        BY <2>4, <3>1, DiagnosisChainAssumption
      <4>3. s \in Active => HasActive(v, "diagnosis")'
        BY <1>2, <1>4, <3>1 DEF HasActive
      <4>4. s \notin Active => row'[latest'[v]].status = ended'[v] /\ latestAge'[v] = endedAge'[v]
        BY <1>2, <2>4, <2>5, <3>1
      <4> HIDE DEF u
      <4> QED BY <4>1, <4>2, <4>3, <4>4 DEF LatestTells
    <3>2. CASE v # u
      <4>1. \A q \in Rows : ActiveDiagnosis(q, v)' <=> ActiveDiagnosis(q, v)
        BY <1>2, <3>2 DEF ActiveDiagnosis
      <4>2. HasActive(v, "diagnosis")' <=> HasActive(v, "diagnosis")
        BY <4>1 DEF HasActive, ActiveDiagnosis
      <4>3. LatestTells(v)
        OBVIOUS
      <4> HIDE DEF u
      <4> QED BY <1>2, <2>4, <2>5, <2>10, <3>2, <4>1, <4>2, <4>3 DEF LatestTells
    <3> QED BY <3>1, <3>2
  <2> QED BY <2>3, <2>8, <2>9, <2>11, <2>12 DEF JobsKept
<1> QED BY <1>3, <1>4

\* An insert, or the index refusing it.
LEMMA EnqueueKeeps ==
    ASSUME JobTypes, RowsHaveUsers, OneDiagnosis, LatestIsTheirs,
           NEW u \in Users, NEW t \in JobType, NEW auto \in BOOLEAN, Enqueue(u, t, auto)
    PROVE  JobsKept /\ TellsKept
<1>1. CASE UNCHANGED jobVars
  <2>1. UNCHANGED <<row, latest, latestAge, ended, endedAge>>
    BY <1>1 DEF jobVars
  <2>2. JobsKept
    BY <2>1 DEF JobsKept, JobTypes, RowsHaveUsers, OneDiagnosis, LatestIsTheirs, ActiveDiagnosis
  <2>3. TellsKept
    BY <2>1 DEF TellsKept, LatestTells, ActiveDiagnosis, HasActive
  <2> QED BY <2>2, <2>3
<1>2. CASE ~(UNCHANGED jobVars)
  <2> DEFINE new == [status |-> "queued", type |-> t, username |-> u, auto_chain |-> auto]
  <2>1. PICK r \in Rows :
            /\ Free(r)
            /\ row' = [row EXCEPT ![r] = new]
            /\ t = "diagnosis" => /\ latest' = [latest EXCEPT ![u] = r]
                                 /\ latestAge' = [latestAge EXCEPT ![u] = 0]
    <3> DEFINE q == CHOOSE q \in Rows : Free(q)
    <3>1. /\ \E p \in Rows : Free(p)
          /\ row' = [row EXCEPT ![q] = new]
          /\ t = "diagnosis" => /\ latest' = [latest EXCEPT ![u] = q]
                               /\ latestAge' = [latestAge EXCEPT ![u] = 0]
      BY <1>2, Zenon DEF Enqueue
    <3>2. q \in Rows /\ Free(q)
      BY <3>1, Zenon
    <3> HIDE DEF q, new
    <3> QED BY <3>1, <3>2
  <2>2. /\ ~HasActive(u, t)
        /\ t # "diagnosis" => UNCHANGED <<latest, latestAge>>
        /\ UNCHANGED <<ended, endedAge>>
    BY <1>2, Zenon DEF Enqueue
  <2>3. /\ new \in Row
        /\ new.status = "queued" /\ new.type = t /\ new.username = u
    BY DEF Row, Active
  <2> HIDE DEF new
  <2>4. /\ row' \in [Rows -> Row] /\ row'[r] = new
        /\ \A q \in Rows : q # r => row'[q] = row[q]
    BY <2>1, <2>3 DEF JobTypes
  <2>5. row[r].status \notin Active
    BY <2>1 DEF Free, Active
  <2>6. \A v \in Users : latest[v] # r
    <3> SUFFICES ASSUME NEW v \in Users, latest[v] = r PROVE FALSE
      OBVIOUS
    <3>1. row[r].status # "absent"
      BY DiagnosisChainAssumption DEF LatestIsTheirs
    <3> QED BY <2>1, <3>1 DEF Free
  <2>7. \A v \in Users : latest[v] # NoRow => latest[v] \in Rows
    BY DEF JobTypes
  <2>8. /\ t = "diagnosis" => latest'[u] = r /\ latestAge'[u] = 0
        /\ \A v \in Users : t # "diagnosis" \/ v # u =>
              latest'[v] = latest[v] /\ latestAge'[v] = latestAge[v]
    BY <2>1, <2>2 DEF JobTypes
  <2>9. JobTypes'
    <3>1. latest' \in [Users -> Rows \union {NoRow}] /\ latestAge' \in [Users -> Ages]
      BY <2>1, <2>2, AgesAreNumbers DEF JobTypes
    <3> QED BY <2>2, <2>4, <3>1 DEF JobTypes
  <2>10. RowsHaveUsers' /\ \A q \in Rows : row[q].status # "absent" => row'[q].status # "absent"
    BY <2>3, <2>4 DEF RowsHaveUsers
  <2>11. \A q \in Rows, v \in Users :
            ActiveDiagnosis(q, v)' <=>
                (ActiveDiagnosis(q, v) \/ (q = r /\ v = u /\ t = "diagnosis"))
    <3>1. ASSUME NEW q \in Rows, NEW v \in Users, q # r
          PROVE  ActiveDiagnosis(q, v)' <=> ActiveDiagnosis(q, v)
      BY <2>4, <3>1 DEF ActiveDiagnosis
    <3>2. ASSUME NEW v \in Users
          PROVE  /\ ~ActiveDiagnosis(r, v)
                 /\ (ActiveDiagnosis(r, v)' <=> (v = u /\ t = "diagnosis"))
      <4>1. ~ActiveDiagnosis(r, v)
        BY <2>5 DEF ActiveDiagnosis
      <4>2. row'[r].status = "queued" /\ row'[r].username = u /\ row'[r].type = t
        BY <2>3, <2>4
      <4> QED BY <4>1, <4>2 DEF ActiveDiagnosis, Active
    <3> QED BY <3>1, <3>2 DEF ActiveDiagnosis
  <2>12. t = "diagnosis" => \A q \in Rows : ~ActiveDiagnosis(q, u)
    BY <2>2 DEF HasActive, ActiveDiagnosis
  <2>13. OneDiagnosis'
    BY <2>11, <2>12 DEF OneDiagnosis
  <2>14. LatestIsTheirs'
    <3> SUFFICES ASSUME NEW v \in Users, latest'[v] # NoRow
                 PROVE  /\ row'[latest'[v]].status # "absent"
                        /\ row'[latest'[v]].username = v
                        /\ row'[latest'[v]].type = "diagnosis"
      BY DEF LatestIsTheirs
    <3>1. CASE v = u /\ t = "diagnosis"
      BY <2>3, <2>4, <2>8, <3>1
    <3>2. CASE ~(v = u /\ t = "diagnosis")
      BY <2>4, <2>6, <2>7, <2>8, <3>2 DEF LatestIsTheirs
    <3> QED BY <3>1, <3>2
  <2>15. TellsKept
    <3> SUFFICES ASSUME \A v \in Users : LatestTells(v), NEW v \in Users
                 PROVE  LatestTells(v)'
      BY DEF TellsKept
    <3>1. LatestTells(v)
      OBVIOUS
    <3>2. CASE v = u /\ t = "diagnosis"
      <4>1. \A q \in Rows : ActiveDiagnosis(q, v)' => q = r
        BY <2>11, <2>12, <3>2
      <4>2. HasActive(v, "diagnosis")'
        BY <2>3, <2>4, <3>2 DEF HasActive, Active
      <4>3. latest'[v] = r /\ r # NoRow
        BY <2>8, <3>2, DiagnosisChainAssumption
      <4> QED BY <4>1, <4>2, <4>3 DEF LatestTells
    <3>3. CASE ~(v = u /\ t = "diagnosis")
      <4>1. \A q \in Rows : ActiveDiagnosis(q, v)' <=> ActiveDiagnosis(q, v)
        <5> TAKE q \in Rows
        <5> QED BY <2>11, <3>3 DEF ActiveDiagnosis
      <4>2. HasActive(v, "diagnosis")' <=> HasActive(v, "diagnosis")
        BY <4>1 DEF HasActive, ActiveDiagnosis
      <4>3. latest'[v] = latest[v] /\ latestAge'[v] = latestAge[v]
        BY <2>8, <3>3
      <4>4. ended'[v] = ended[v] /\ endedAge'[v] = endedAge[v]
        BY <2>2
      <4>5. latest[v] # NoRow => row'[latest[v]] = row[latest[v]]
        BY <2>4, <2>6, <2>7
      <4> QED BY <3>1, <4>1, <4>2, <4>3, <4>4, <4>5 DEF LatestTells
    <3> QED BY <3>2, <3>3
  <2> QED BY <2>9, <2>10, <2>13, <2>14, <2>15 DEF JobsKept
<1> QED BY <1>1, <1>2

-----------------------------------------------------------------------------
(* DiagnosisChain: the other variables *)

WorkTypes ==
    /\ puzzles \in [Users -> SUBSET Puzzles]
    /\ \A u \in Users : pending[u] \subseteq puzzles[u]
    /\ PendingIsTyped

LoopTypes ==
    /\ loop \in [Workers -> {"idle", "running", "ended", "remaining"}]
    /\ job \in [Workers -> Rows \union {NoRow}]
    /\ batch \in [Workers -> SUBSET Puzzles]

\* What every step of a loop keeps.
LoopsKept ==
    /\ LoopTypes'
    /\ \A w \in Workers : loop'[w] # "idle" =>
        job'[w] \in Rows /\ row[job'[w]].status # "absent"

\* What every event keeps.
LeftKept ==
    /\ left' \in [Event -> Nat]
    /\ ReportsAreSpent'
    /\ NoReport' => NoReport

LEMMA ChainParts ==
    ASSUME ChainInv
    PROVE  /\ JobTypes /\ WorkTypes /\ LoopTypes
           /\ sweep \in [Workers -> SUBSET Users] /\ left \in [Event -> Nat]
           /\ RowsHaveUsers /\ LoopsHoldRows /\ OneDiagnosis /\ LatestIsTheirs
           /\ ReportsAreSpent
BY DEF ChainInv, ChainTypeOK, JobTypes, WorkTypes, LoopTypes

\* The parts, after a step, make the whole.
LEMMA ChainAssembles ==
    ASSUME JobsKept, NoReport' => \A u \in Users : LatestTells(u)',
           WorkTypes', LoopsKept, sweep' \in [Workers -> SUBSET Users], LeftKept
    PROVE  ChainInv'
<1>1. LoopsHoldRows'
  BY DEF LoopsHoldRows, LoopsKept, JobsKept
<1>2. ChainTypeOK'
  BY DEF ChainTypeOK, JobsKept, JobTypes, WorkTypes, LoopsKept, LoopTypes, LeftKept
<1> QED BY <1>1, <1>2 DEF ChainInv, JobsKept, WorkTypes, LeftKept

LEMMA ChainAssemblesTelling ==
    ASSUME ChainInv, JobsKept, TellsKept,
           WorkTypes', LoopsKept, sweep' \in [Workers -> SUBSET Users], LeftKept
    PROVE  ChainInv'
<1>1. NoReport' => \A u \in Users : LatestTells(u)'
  BY DEF ChainInv, LeftKept, TellsKept
<1> QED BY <1>1, ChainAssembles

LEMMA JobsStay == ASSUME ChainInv, UNCHANGED jobVars PROVE JobsKept /\ TellsKept
<1>1. UNCHANGED <<row, latest, latestAge, ended, endedAge>>
  BY DEF jobVars
<1>2. JobsKept
  BY <1>1, ChainParts DEF JobsKept, JobTypes, RowsHaveUsers, OneDiagnosis, LatestIsTheirs,
                          ActiveDiagnosis
<1>3. TellsKept
  BY <1>1 DEF TellsKept, LatestTells, ActiveDiagnosis, HasActive
<1> QED BY <1>2, <1>3

LEMMA WorkStays == ASSUME ChainInv, UNCHANGED workVars PROVE WorkTypes'
BY ChainParts DEF workVars, WorkTypes, PendingIsTyped

LEMMA LoopsStay == ASSUME ChainInv, UNCHANGED loopVars PROVE LoopsKept
BY ChainParts DEF loopVars, LoopsKept, LoopTypes, LoopsHoldRows

LEMMA LeftStays == ASSUME ChainInv, UNCHANGED left PROVE LeftKept
BY ChainParts DEF LeftKept, ReportsAreSpent, NoReport

LEMMA SpendKeeps ==
    ASSUME ChainInv, NEW e \in Event, Spend(e)
    PROVE  LeftKept /\ (e = "report" => ~NoReport')
<1>1. left \in [Event -> Nat] /\ "report" \in Event /\ Budget["report"] \in Nat
  BY ChainParts, DiagnosisChainAssumption DEF Event
<1>2. /\ left[e] > 0 /\ left[e] \in Nat /\ left["report"] \in Nat
      /\ left' = [left EXCEPT ![e] = left[e] - 1]
  BY <1>1 DEF Spend
<1>3. left' \in [Event -> Nat]
  BY <1>1, <1>2
<1>4. IF e = "report" THEN left'["report"] = left["report"] - 1 /\ left["report"] > 0
                      ELSE left'["report"] = left["report"]
  BY <1>1, <1>2
<1>5. left["report"] <= Budget["report"]
  BY ChainParts DEF ReportsAreSpent
<1>6. /\ left'["report"] <= Budget["report"]
      /\ left'["report"] = Budget["report"] => left["report"] = Budget["report"]
      /\ e = "report" => left'["report"] # Budget["report"]
  BY <1>1, <1>2, <1>4, <1>5
<1> QED BY <1>3, <1>6 DEF LeftKept, ReportsAreSpent, NoReport

LEMMA ReleaseKeeps ==
    ASSUME ChainInv, NEW w \in Workers, NEW next \in {"idle", "ended", "remaining"},
           Release(w, next), loop[w] # "idle" \/ next = "idle"
    PROVE  LoopsKept
<1>1. /\ loop \in [Workers -> {"idle", "running", "ended", "remaining"}]
      /\ job \in [Workers -> Rows \union {NoRow}]
      /\ batch \in [Workers -> SUBSET Puzzles]
  BY ChainParts DEF LoopTypes
<1>2. /\ loop' = [loop EXCEPT ![w] = next]
      /\ job' = IF next = "idle" THEN [job EXCEPT ![w] = NoRow] ELSE job
      /\ batch' = [batch EXCEPT ![w] = {}]
  BY DEF Release
<1>3. LoopTypes'
  BY <1>1, <1>2 DEF LoopTypes
<1>4. ASSUME NEW v \in Workers, loop'[v] # "idle"
      PROVE  job'[v] \in Rows /\ row[job'[v]].status # "absent"
  <2>1. job'[v] = job[v] /\ loop[v] # "idle"
    BY <1>1, <1>2, <1>4
  <2> QED BY <2>1, ChainParts DEF LoopsHoldRows
<1> QED BY <1>3, <1>4 DEF LoopsKept

-----------------------------------------------------------------------------
(* DiagnosisChain: the actions *)

LEMMA ChainInitInv == ChainInit => ChainInv
<1> SUFFICES ASSUME ChainInit PROVE ChainInv
  OBVIOUS
<1>1. Absent \in Row
  BY DEF Absent, Row, JobType
<1>2. Backoff + 1 \in Ages
  BY DiagnosisChainAssumption DEF Ages
<1>3. JobTypes
  BY <1>1, <1>2 DEF ChainInit, JobTypes
<1>4. ChainTypeOK
  BY <1>3, DiagnosisChainAssumption DEF ChainInit, ChainTypeOK, JobTypes
<1>5. \A r \in Rows : row[r].status = "absent"
  BY DEF ChainInit, Absent
<1>6. PendingIsTyped /\ RowsHaveUsers /\ OneDiagnosis
  BY <1>5 DEF ChainInit, PendingIsTyped, RowsHaveUsers, OneDiagnosis, ActiveDiagnosis, Active
<1>7. LoopsHoldRows /\ LatestIsTheirs
  BY DEF ChainInit, LoopsHoldRows, LatestIsTheirs
<1>8. ReportsAreSpent
  BY DiagnosisChainAssumption DEF ChainInit, ReportsAreSpent, Event
<1>9. \A u \in Users : LatestTells(u)
  BY <1>5 DEF ChainInit, LatestTells, ActiveDiagnosis, Active
<1> QED BY <1>4, <1>6, <1>7, <1>8, <1>9 DEF ChainInv

LEMMA SubmitKeeps ==
    ASSUME ChainInv, NEW u \in Users, NEW t \in JobType, Submit(u, t)
    PROVE  ChainInv'
<1>1. Enqueue(u, t, FALSE) /\ Spend(t) /\ UNCHANGED <<workVars, loopVars, sweep>>
  BY DEF Submit
<1>2. t \in Event
  BY DEF Event
<1> QED BY <1>1, <1>2, ChainParts, EnqueueKeeps, SpendKeeps, WorkStays, LoopsStay,
           ChainAssemblesTelling

LEMMA CancelKeeps ==
    ASSUME ChainInv, NEW r \in Rows, Cancel(r) PROVE ChainInv'
<1>1. /\ row[r].status \in Active /\ SetStatus(r, "canceled") /\ Spend("fault")
      /\ UNCHANGED <<workVars, loopVars, sweep>>
  BY DEF Cancel
<1>2. "fault" \in Event /\ "canceled" \in Active \union Stopped \union {"succeeded"}
  BY DEF Event, Stopped
<1>3. JobsKept /\ TellsKept
  BY <1>1, <1>2, ChainParts, SetStatusKeeps
<1> QED BY <1>1, <1>2, <1>3, ChainParts, SpendKeeps, WorkStays, LoopsStay,
           ChainAssemblesTelling

\* A stall report moves updated_at of any written row, and ends the promise.
LEMMA StallReportKeeps ==
    ASSUME ChainInv, NEW r \in Rows, StallReport(r) PROVE ChainInv'
<1> DEFINE u == row[r].username
<1>1. /\ row[r].status # "absent" /\ Touch(r) /\ Spend("report")
      /\ UNCHANGED <<row, ended, endedAge, workVars, loopVars, sweep>>
  BY DEF StallReport
<1>2. LeftKept /\ ~NoReport'
  <2>1. "report" \in Event
    BY DEF Event
  <2> QED BY <1>1, <2>1, SpendKeeps
<1>3. u \in Users
  BY <1>1, ChainParts DEF RowsHaveUsers
<1>4. /\ latest' \in [Users -> Rows \union {NoRow}]
      /\ latestAge' \in [Users -> Ages]
      /\ \A v \in Users : \/ latest'[v] = latest[v]
                          \/ latest'[v] = r /\ v = u /\ row[r].type = "diagnosis"
  BY <1>1, <1>3, ChainParts, AgesAreNumbers DEF Touch, JobTypes
<1>5. JobTypes' /\ RowsHaveUsers'
  BY <1>1, <1>4, ChainParts DEF JobTypes, RowsHaveUsers
<1>6. OneDiagnosis'
  BY <1>1, ChainParts DEF OneDiagnosis, ActiveDiagnosis
<1>7. LatestIsTheirs'
  BY <1>1, <1>4, ChainParts DEF LatestIsTheirs
<1>8. JobsKept
  BY <1>1, <1>5, <1>6, <1>7 DEF JobsKept
<1> QED BY <1>1, <1>2, <1>8, ChainParts, WorkStays, LoopsStay, ChainAssembles

LEMMA BumpVersionKeeps == ASSUME ChainInv, BumpVersion PROVE ChainInv'
<1>1. /\ Spend("bump") /\ pending' = puzzles /\ puzzles' = puzzles
      /\ UNCHANGED <<jobVars, loopVars, sweep>>
  BY DEF BumpVersion
<1>2. "bump" \in Event
  BY DEF Event
<1>3. WorkTypes'
  BY <1>1, ChainParts DEF WorkTypes, PendingIsTyped
<1> QED BY <1>1, <1>2, <1>3, ChainParts, SpendKeeps, JobsStay, LoopsStay,
           ChainAssemblesTelling

\* The two ages grow alike.
LEMMA TickKeeps == ASSUME ChainInv, Tick PROVE ChainInv'
<1> DEFINE Grown(a) == IF a > Backoff THEN Backoff + 1 ELSE a + 1
<1>1. /\ latestAge' = [u \in Users |-> Grown(latestAge[u])]
      /\ endedAge' = [u \in Users |-> Grown(endedAge[u])]
      /\ UNCHANGED <<row, latest, ended, workVars, loopVars, sweep, left>>
  BY DEF Tick
<1>2. \A a \in Ages : Grown(a) \in Ages
  BY DiagnosisChainAssumption DEF Ages
<1> HIDE DEF Grown
<1>3. latestAge' \in [Users -> Ages] /\ endedAge' \in [Users -> Ages]
  BY <1>1, <1>2, ChainParts DEF JobTypes
<1>4. JobsKept
  BY <1>1, <1>3, ChainParts DEF JobsKept, JobTypes, RowsHaveUsers, OneDiagnosis,
                                LatestIsTheirs, ActiveDiagnosis
<1>5. \A u \in Users : latestAge[u] = endedAge[u] => latestAge'[u] = endedAge'[u]
  BY <1>1
<1>6. TellsKept
  BY <1>1, <1>5 DEF TellsKept, LatestTells, ActiveDiagnosis, HasActive
<1> QED BY <1>1, <1>4, <1>6, ChainParts, WorkStays, LoopsStay, LeftStays,
           ChainAssemblesTelling

LEMMA ReclaimKeeps ==
    ASSUME ChainInv, NEW r \in Rows, Reclaim(r) PROVE ChainInv'
<1>1. /\ row[r].status \in Active /\ SetStatus(r, "queued")
      /\ UNCHANGED <<workVars, loopVars, sweep, left>>
  BY DEF Reclaim, Active
<1>2. "queued" \in Active \union Stopped \union {"succeeded"}
  BY DEF Active
<1>3. JobsKept /\ TellsKept
  BY <1>1, <1>2, ChainParts, SetStatusKeeps
<1> QED BY <1>1, <1>3, ChainParts, LeftStays, WorkStays, LoopsStay,
           ChainAssemblesTelling

LEMMA StartKeeps ==
    ASSUME ChainInv, NEW w \in Workers, Start(w) PROVE ChainInv'
<1>1. PICK r \in Rows :
        /\ row[r].status = "queued"
        /\ SetStatus(r, "running")
        /\ job' = [job EXCEPT ![w] = r]
        /\ IF row[r].type = "diagnosis"
           THEN \E S \in SUBSET pending[row[r].username] :
                    batch' = [batch EXCEPT ![w] = S]
           ELSE UNCHANGED batch
  BY DEF Start
<1>2. loop' = [loop EXCEPT ![w] = "running"] /\ UNCHANGED <<workVars, sweep, left>>
  BY DEF Start
<1>3. JobsKept /\ TellsKept
  <2>1. row[r].status \in Active /\ "running" \in Active \union Stopped \union {"succeeded"}
    BY <1>1 DEF Active
  <2> QED BY <1>1, <2>1, ChainParts, SetStatusKeeps
<1>4. batch' \in [Workers -> SUBSET Puzzles]
  <2>1. row[r].username \in Users
    BY <1>1, ChainParts DEF RowsHaveUsers
  <2>2. pending[row[r].username] \subseteq Puzzles
    BY <2>1, ChainParts DEF WorkTypes, PendingIsTyped
  <2> QED BY <1>1, <2>2, ChainParts DEF LoopTypes
<1>5. LoopTypes'
  BY <1>1, <1>2, <1>4, ChainParts DEF LoopTypes
<1>6. ASSUME NEW v \in Workers, loop'[v] # "idle"
      PROVE  job'[v] \in Rows /\ row[job'[v]].status # "absent"
  <2>1. CASE v = w
    BY <1>1, <2>1, ChainParts DEF LoopTypes
  <2>2. CASE v # w
    BY <1>1, <1>2, <1>6, <2>2, ChainParts DEF LoopTypes, LoopsHoldRows
  <2> QED BY <2>1, <2>2
<1>7. LoopsKept
  BY <1>5, <1>6 DEF LoopsKept
<1> QED BY <1>2, <1>3, <1>7, ChainParts, LeftStays, WorkStays, ChainAssemblesTelling

\* The two steps that change the work itself.
LEMMA WorkMoves ==
    ASSUME ChainInv, NEW w \in Workers, SavePuzzle(w) \/ CommitChunk(w)
    PROVE  ChainInv'
<1> DEFINE u == row[job[w]].username
<1>1. loop[w] # "idle"
  BY DEF SavePuzzle, CommitChunk, Running
<1>2. u \in Users
  BY <1>1, ChainParts DEF LoopsHoldRows, RowsHaveUsers
<1>3. WorkTypes'
  <2>1. CASE SavePuzzle(w)
    <3>1. PICK p \in Puzzles : /\ puzzles' = [puzzles EXCEPT ![u] = @ \union {p}]
                               /\ pending' = [pending EXCEPT ![u] = @ \union {p}]
      BY <2>1 DEF SavePuzzle
    <3> HIDE DEF u
    <3> QED BY <1>2, <3>1, ChainParts DEF WorkTypes, PendingIsTyped
  <2>2. CASE CommitChunk(w)
    <3>1. PICK S \in SUBSET batch[w] : pending' = [pending EXCEPT ![u] = @ \ S]
      BY <2>2 DEF CommitChunk
    <3>2. puzzles' = puzzles
      BY <2>2 DEF CommitChunk
    <3> HIDE DEF u
    <3> QED BY <1>2, <3>1, <3>2, ChainParts DEF WorkTypes, PendingIsTyped
  <2> QED BY <2>1, <2>2
<1>4. LoopsKept
  <2>1. CASE SavePuzzle(w)
    BY <2>1, LoopsStay DEF SavePuzzle
  <2>2. CASE CommitChunk(w)
    <3>1. /\ \E S : batch' = [batch EXCEPT ![w] = @ \ S]
          /\ UNCHANGED <<loop, job>>
      BY <2>2 DEF CommitChunk
    <3>2. batch' \in [Workers -> SUBSET Puzzles]
      BY <3>1, ChainParts DEF LoopTypes
    <3> QED BY <3>1, <3>2, ChainParts DEF LoopsKept, LoopTypes, LoopsHoldRows
  <2> QED BY <2>1, <2>2
<1>5. UNCHANGED <<jobVars, sweep, left>>
  BY DEF SavePuzzle, CommitChunk
<1> QED BY <1>3, <1>4, <1>5, ChainParts, JobsStay, LeftStays, ChainAssemblesTelling

LEMMA OutcomeKeeps ==
    ASSUME ChainInv, NEW w \in Workers, Succeed(w) \/ Fail(w)
    PROVE  ChainInv'
<1>1. loop[w] # "idle" /\ UNCHANGED <<workVars, sweep>>
  BY DEF Succeed, Fail
<1>2. job[w] \in Rows
  BY <1>1, ChainParts DEF LoopsHoldRows
<1>3. LeftKept
  <2>1. "fault" \in Event
    BY DEF Event
  <2> QED BY <2>1, SpendKeeps, LeftStays DEF Succeed, Fail
<1>4. LoopsKept
  <2>1. \E next \in {"idle", "ended"} : Release(w, next)
    BY DEF Succeed, Fail
  <2> QED BY <1>1, <2>1, ReleaseKeeps
<1>5. JobsKept /\ TellsKept
  <2>1. \/ UNCHANGED jobVars
        \/ /\ row[job[w]].status = "running"
           /\ \E s \in {"succeeded", "failed"} : SetStatus(job[w], s)
    BY DEF Succeed, Fail
  <2>2. CASE UNCHANGED jobVars
    BY <2>2, JobsStay
  <2>3. ASSUME row[job[w]].status = "running", NEW s \in {"succeeded", "failed"},
               SetStatus(job[w], s)
        PROVE  JobsKept /\ TellsKept
    <3>1. row[job[w]].status \in Active /\ s \in Active \union Stopped \union {"succeeded"}
      BY <2>3 DEF Active, Stopped
    <3> QED BY <1>2, <2>3, <3>1, ChainParts, SetStatusKeeps
  <2> QED BY <2>1, <2>2, <2>3
<1> QED BY <1>1, <1>3, <1>4, <1>5, ChainParts, WorkStays, ChainAssemblesTelling

LEMMA FollowUpKeeps ==
    ASSUME ChainInv, NEW w \in Workers, ChainAfter(w) \/ EnqueueRemaining(w)
    PROVE  ChainInv'
<1>1. loop[w] # "idle" /\ UNCHANGED <<workVars, sweep, left>>
  BY DEF ChainAfter, EnqueueRemaining
<1>2. row[job[w]].username \in Users
  BY <1>1, ChainParts DEF LoopsHoldRows, RowsHaveUsers
<1>3. LoopsKept
  <2>1. \E next \in {"idle", "remaining"} : Release(w, next)
    BY DEF ChainAfter, EnqueueRemaining
  <2> QED BY <1>1, <2>1, ReleaseKeeps
<1>4. JobsKept /\ TellsKept
  <2>1. \/ UNCHANGED jobVars
        \/ Enqueue(row[job[w]].username, "diagnosis", TRUE)
    BY DEF ChainAfter, EnqueueRemaining
  <2>2. "diagnosis" \in JobType
    BY DEF JobType
  <2> QED BY <1>2, <2>1, <2>2, ChainParts, JobsStay, EnqueueKeeps
<1> QED BY <1>1, <1>3, <1>4, ChainParts, LeftStays, WorkStays, ChainAssemblesTelling

LEMMA DieKeeps ==
    ASSUME ChainInv, NEW w \in Workers, Die(w) PROVE ChainInv'
<1>1. /\ Spend("fault") /\ Release(w, "idle") /\ sweep' = [sweep EXCEPT ![w] = {}]
      /\ UNCHANGED <<jobVars, workVars>>
  BY DEF Die
<1>2. "fault" \in Event
  BY DEF Event
<1>3. sweep' \in [Workers -> SUBSET Users]
  BY <1>1, ChainParts
<1>4. LoopsKept
  BY <1>1, ReleaseKeeps
<1> QED BY <1>1, <1>2, <1>3, <1>4, SpendKeeps, JobsStay, WorkStays, ChainAssemblesTelling

LEMMA SweepReadKeeps ==
    ASSUME ChainInv, NEW w \in Workers, SweepRead(w) PROVE ChainInv'
<1>1. sweep' \in [Workers -> SUBSET Users]
  BY ChainParts DEF SweepRead
<1>2. UNCHANGED <<jobVars, workVars, loopVars, left>>
  BY DEF SweepRead
<1> QED BY <1>1, <1>2, JobsStay, WorkStays, LoopsStay, LeftStays, ChainAssemblesTelling

LEMMA SweepEnqueueKeeps ==
    ASSUME ChainInv, NEW w \in Workers, NEW u \in Users, SweepEnqueue(w, u)
    PROVE  ChainInv'
<1>1. /\ Enqueue(u, "diagnosis", TRUE) /\ sweep' = [sweep EXCEPT ![w] = @ \ {u}]
      /\ UNCHANGED <<workVars, loopVars, left>>
  BY DEF SweepEnqueue
<1>2. sweep' \in [Workers -> SUBSET Users]
  BY <1>1, ChainParts
<1>3. "diagnosis" \in JobType
  BY DEF JobType
<1>4. JobsKept /\ TellsKept
  BY <1>1, <1>3, ChainParts, EnqueueKeeps
<1> QED BY <1>1, <1>2, <1>4, WorkStays, LoopsStay, LeftStays, ChainAssemblesTelling

LEMMA ChainNextInv == ChainInv /\ [ChainNext]_chainVars => ChainInv'
<1> SUFFICES ASSUME ChainInv, [ChainNext]_chainVars PROVE ChainInv'
  OBVIOUS
<1>1. CASE UNCHANGED chainVars
  <2>1. UNCHANGED <<jobVars, workVars, loopVars, sweep, left>>
    BY <1>1 DEF chainVars
  <2> QED BY <2>1, ChainParts, JobsStay, WorkStays, LoopsStay, LeftStays,
             ChainAssemblesTelling
<1>2. CASE \E u \in Users, t \in JobType : Submit(u, t)
  BY <1>2, SubmitKeeps
<1>3. CASE \E r \in Rows : Cancel(r) \/ StallReport(r) \/ Reclaim(r)
  BY <1>3, CancelKeeps, StallReportKeeps, ReclaimKeeps
<1>4. CASE BumpVersion \/ Tick
  BY <1>4, BumpVersionKeeps, TickKeeps
<1>5. ASSUME NEW w \in Workers, LoopStep(w) PROVE ChainInv'
  BY <1>5, StartKeeps, WorkMoves, OutcomeKeeps, FollowUpKeeps, DieKeeps DEF LoopStep
<1>6. ASSUME NEW w \in Workers, SweepStep(w) PROVE ChainInv'
  BY <1>6, SweepReadKeeps, SweepEnqueueKeeps DEF SweepStep
<1> QED BY <1>1, <1>2, <1>3, <1>4, <1>5, <1>6 DEF ChainNext

-----------------------------------------------------------------------------
(* DiagnosisChain: the theorems *)

\* ChainInv is an invariant: one active diagnosis a user, and without a stall
\* report updated_at points at it, or at the last to end.
THEOREM ChainInvariance == ChainSpec => []ChainInv
<1>1. ChainInit => ChainInv
  BY ChainInitInv
<1>2. ChainInv /\ [ChainNext]_chainVars => ChainInv'
  BY ChainNextInv
<1> QED BY <1>1, <1>2, PTL DEF ChainSpec

\* Every variable of the chain keeps its type.
THEOREM ChainTypeCorrect == ChainSpec => []ChainTypeOK
<1>1. ChainInv => ChainTypeOK
  BY DEF ChainInv
<1> QED BY <1>1, ChainInvariance, PTL

\* What SweepSparesStopped says of one step.
SparesStopped ==
    left["report"] = Budget["report"] =>
        \A w \in Workers : \A u \in sweep'[w] \ sweep[w] :
            \/ HasActive(u, "diagnosis")
            \/ ended[u] \notin Stopped
            \/ endedAge[u] > Backoff

\* A user with no active diagnosis whom the backoff query does not name has
\* ended well, or long ago.
LEMMA NotBackingOff ==
    ASSUME ChainInv, NoReport, NEW u \in Users, ~BackingOff(u), ~HasActive(u, "diagnosis")
    PROVE  ended[u] \notin Stopped \/ endedAge[u] > Backoff
<1>1. LatestTells(u)
  BY DEF ChainInv
<1>2. CASE latest[u] = NoRow
  BY <1>1, <1>2 DEF LatestTells, Stopped
<1>3. CASE latest[u] # NoRow
  <2>1. row[latest[u]].status = ended[u] /\ latestAge[u] = endedAge[u]
    BY <1>1, <1>3 DEF LatestTells
  <2>2. latestAge[u] \in Nat /\ Backoff \in Nat
    BY ChainParts, AgesAreNumbers, DiagnosisChainAssumption DEF JobTypes
  <2> QED BY <1>3, <2>1, <2>2 DEF BackingOff
<1> QED BY <1>2, <1>3

\* Only the read of the sweep selects users.
LEMMA OnlyTheReadSelects ==
    ASSUME ChainInv, [ChainNext]_chainVars, NEW w \in Workers, NEW u \in sweep'[w] \ sweep[w]
    PROVE  u \in Users /\ ~BackingOff(u)
<1>1. sweep \in [Workers -> SUBSET Users]
  BY ChainParts
<1>2. sweep' # sweep
  OBVIOUS
<1>3. ~(UNCHANGED sweep)
  BY <1>2
<1>4. PICK v \in Workers : Die(v) \/ SweepStep(v)
  <2>1. ~(UNCHANGED chainVars)
    BY <1>3 DEF chainVars
  <2>2. \A a \in Users, t \in JobType : ~Submit(a, t)
    BY <1>3 DEF Submit
  <2>3. \A r \in Rows : ~(Cancel(r) \/ StallReport(r) \/ Reclaim(r))
    BY <1>3 DEF Cancel, StallReport, Reclaim
  <2>4. ~(BumpVersion \/ Tick)
    BY <1>3 DEF BumpVersion, Tick
  <2>5. \A v \in Workers : LoopStep(v) => Die(v)
    BY <1>3 DEF LoopStep, Start, SavePuzzle, CommitChunk, Succeed, Fail, ChainAfter,
                EnqueueRemaining
  <2> QED BY <2>1, <2>2, <2>3, <2>4, <2>5 DEF ChainNext
<1>5. SweepRead(v)
  <2>1. CASE Die(v)
    BY <1>1, <2>1 DEF Die
  <2>2. CASE \E a \in Users : SweepEnqueue(v, a)
    BY <1>1, <2>2 DEF SweepEnqueue
  <2> QED BY <1>4, <2>1, <2>2 DEF SweepStep
<1>6. sweep' = [sweep EXCEPT ![v] = {a \in Users : pending[a] # {} /\ ~BackingOff(a)}]
  BY <1>5 DEF SweepRead
<1>7. v = w
  BY <1>1, <1>6
<1> QED BY <1>1, <1>6, <1>7

\* The sweep starts no diagnosis for a user whose last one failed or was canceled
\* within the backoff and who has none in flight, however many workers sweep,
\* claim, crash and chain meanwhile, as long as no stall report was made.
THEOREM SweepLeavesStoppedAlone == ChainSpec => SweepSparesStopped
<1>1. ChainInv /\ [ChainNext]_chainVars => [SparesStopped]_chainVars
  <2> SUFFICES ASSUME ChainInv, [ChainNext]_chainVars PROVE SparesStopped
    OBVIOUS
  <2>1. ASSUME NoReport, NEW w \in Workers, NEW u \in sweep'[w] \ sweep[w]
        PROVE  \/ HasActive(u, "diagnosis")
               \/ ended[u] \notin Stopped
               \/ endedAge[u] > Backoff
    BY <2>1, OnlyTheReadSelects, NotBackingOff
  <2> QED BY <2>1 DEF SparesStopped, NoReport
<1> QED BY <1>1, ChainInvariance, PTL DEF ChainSpec, SweepSparesStopped, SparesStopped

=============================================================================
