--------------------------- MODULE JobQueueProofs ---------------------------
(***************************************************************************)
(* Theorems about JobQueue, for any number of workers, users, cancel       *)
(* requests, rows and faults.                                              *)
(***************************************************************************)
EXTENDS JobQueue, TLAPS

-----------------------------------------------------------------------------
(* The inductive invariant *)

\* Every row somebody refers to has been inserted.
RowsExist ==
    /\ \A w \in Workers :
        pc[w] \in Busy => job[w] \in 1..inserted
    /\ \A w \in Workers, s \in Scans : stuck[w][s] \subseteq 1..inserted
    /\ \A c \in Clients : cancelling[c] \in {NoJob} \union 1..inserted

\* A scan never has two rows of one slot in hand: they were running together.
StuckSlotsDiffer ==
    \A w \in Workers, s \in Scans : \A j, k \in stuck[w][s] :
        j # k => ~SameSlot(j, k)

\* Until a scan touches it, a held row is running, or a cancel hit it.
HeldStatus ==
    \A w \in Workers, j \in Jobs :
        Holds(w, j) /\ j \notin recovered => status[j] \in {"running", "canceled"}

IInv ==
    /\ TypeOK
    /\ RowsExist
    /\ OneActivePerSlot
    /\ StuckSlotsDiffer
    /\ HeldStatus
    /\ ClaimExclusive

-----------------------------------------------------------------------------
(* Typing *)

LEMMA InitType == Init => TypeOK
BY JobQueueAssumption DEF Init, TypeOK, Jobs, JobType, JobStatus, Scans, NoJob,
    Up, Busy, Executing

\* Inserted rows are jobs, and so is the next one while there is room.
LEMMA RowsAreJobs ==
    ASSUME TypeOK
    PROVE  /\ inserted \in Nat
           /\ 1..inserted \subseteq Jobs
           /\ inserted # MaxJobs => /\ inserted + 1 \in Jobs
                                    /\ inserted + 1 \in 0..MaxJobs
BY JobQueueAssumption DEF TypeOK, Jobs

LEMMA StuckJobsType ==
    ASSUME TypeOK, NEW w \in Workers
    PROVE  StuckJobs(w) \in SUBSET Jobs
BY RowsAreJobs DEF StuckJobs

\* An insert, or a refused one, keeps the table well typed.
LEMMA InsertType ==
    ASSUME TypeOK, NEW u \in Users, NEW t \in JobType, NEW auto \in BOOLEAN,
           InsertUnlessActive(u, t, auto)
    PROVE  /\ inserted' \in 0..MaxJobs
           /\ status' \in [Jobs -> JobStatus \union {"absent"}]
           /\ type' \in [Jobs -> JobType]
           /\ username' \in [Jobs -> Users]
           /\ auto_chain' \in [Jobs -> BOOLEAN]
<1>1. CASE SlotTaken(u, t) \/ inserted = MaxJobs
  BY <1>1 DEF InsertUnlessActive, TypeOK, tableVars
<1>2. CASE ~(SlotTaken(u, t) \/ inserted = MaxJobs)
  <2>1. inserted' \in 0..MaxJobs
    BY <1>2, RowsAreJobs DEF InsertUnlessActive, TypeOK
  <2>2. status' \in [Jobs -> JobStatus \union {"absent"}]
    <3>1. "queued" \in JobStatus
      BY DEF JobStatus, Active
    <3> QED BY <1>2, <3>1 DEF InsertUnlessActive, TypeOK
  <2>3. /\ type' \in [Jobs -> JobType] /\ username' \in [Jobs -> Users]
        /\ auto_chain' \in [Jobs -> BOOLEAN]
    <3>1. /\ type \in [Jobs -> JobType] /\ username \in [Jobs -> Users]
          /\ auto_chain \in [Jobs -> BOOLEAN]
      BY DEF TypeOK
    <3> QED BY <1>2, <3>1 DEF InsertUnlessActive
  <2> QED BY <2>1, <2>2, <2>3
<1> QED BY <1>1, <1>2

\* The commit of a scan keeps statuses, recovered and stuck well typed.
LEMMA ResetType ==
    ASSUME TypeOK, NEW w \in Workers, NEW s \in Scans, ResetStuck(w, s)
    PROVE  /\ status' \in [Jobs -> JobStatus \union {"absent"}]
           /\ recovered' \subseteq Jobs
           /\ stuck' \in [Workers -> [Scans -> SUBSET Jobs]]
BY DEF TypeOK, ResetStuck, JobStatus, Active

\* Every step preserves the types.
LEMMA TypeStep == TypeOK /\ [Next]_vars => TypeOK'
<1> SUFFICES ASSUME TypeOK, [Next]_vars PROVE TypeOK'
  OBVIOUS
<1> USE DEF tableVars, workerVars, boundVars, Up, Busy, Executing
<1>1. CASE ApiStep
  <2>1. CASE \E u \in Users, t \in JobType : Submit(u, t)
    BY <2>1, InsertType DEF Submit, TypeOK
  <2>2. CASE \E c \in Clients : CancelWrite(c)
    BY <2>2 DEF CancelWrite, TypeOK, JobStatus, Terminal
  <2>3. CASE \E c \in Clients, j \in Jobs : CancelRead(c, j)
    BY <2>3 DEF CancelRead, TypeOK
  <2> QED BY <1>1, <2>1, <2>2, <2>3 DEF ApiStep
<1>2. ASSUME NEW w \in Workers, ScanStep(w) PROVE TypeOK'
  <2>1. CASE StartupScan(w)
    BY <2>1, StuckJobsType DEF StartupScan, TypeOK, Scans
  <2>2. CASE StartupReset(w)
    BY <2>2, ResetType DEF StartupReset, TypeOK, Scans
  <2>3. CASE HousekeepingScan(w)
    BY <2>3, StuckJobsType DEF HousekeepingScan, TypeOK, Scans
  <2>4. CASE HousekeepingReset(w)
    BY <2>4, ResetType DEF HousekeepingReset, TypeOK, Scans
  <2> QED BY <1>2, <2>1, <2>2, <2>3, <2>4 DEF ScanStep
<1>3. ASSUME NEW w \in Workers, LoopStep(w) PROVE TypeOK'
  <2>1. CASE Claim(w)
    BY <2>1, RowsAreJobs DEF Claim, TypeOK, JobStatus, Active
  <2>2. CASE Execute(w)
    BY <2>2 DEF Execute, TypeOK
  <2>3. CASE Heartbeat(w)
    BY <2>3 DEF Heartbeat, TypeOK
  <2>4. CASE HandlerReturns(w) \/ HandlerRaises(w)
    BY <2>4 DEF HandlerReturns, HandlerRaises, TypeOK
  <2>5. CASE RecordSuccess(w)
    <3>1. "succeeded" \in JobStatus
      BY DEF JobStatus, Terminal
    <3>2. status' \in [Jobs -> JobStatus \union {"absent"}]
      BY <2>5, <3>1 DEF RecordSuccess, TypeOK
    <3>3. /\ pc' \in [Workers -> Up \union {"down"}]
          /\ job' \in [Workers -> Jobs \union {NoJob}]
      BY <2>5 DEF RecordSuccess, TypeOK
    <3>4. /\ UNCHANGED <<inserted, type, username, auto_chain, lease, recovered,
                       stopping, stuck, cancelling, disruptions, stops, outruns>>
          /\ \A v \in Workers : pc'[v] \in Busy => pc[v] \in Busy /\ job'[v] = job[v]
      BY <2>5 DEF RecordSuccess, TypeOK
    <3> QED BY <3>2, <3>3, <3>4 DEF TypeOK
  <2>6. CASE RecordFailure(w)
    BY <2>6 DEF RecordFailure, TypeOK, JobStatus, Terminal
  <2>7. CASE LoseFailure(w)
    BY <2>7, JobQueueAssumption DEF LoseFailure, TypeOK
  <2>8. CASE Chain(w)
    <3>1. inserted' \in 0..MaxJobs /\ type' \in [Jobs -> JobType]
          /\ status' \in [Jobs -> JobStatus \union {"absent"}]
          /\ username' \in [Jobs -> Users] /\ auto_chain' \in [Jobs -> BOOLEAN]
      BY <2>8, InsertType DEF Chain, TypeOK, JobType
    <3> QED BY <2>8, <3>1 DEF Chain, TypeOK
  <2> QED BY <1>3, <2>1, <2>2, <2>3, <2>4, <2>5, <2>6, <2>7, <2>8 DEF LoopStep
<1>4. ASSUME NEW w \in Workers, ProcessStep(w) PROVE TypeOK'
  <2>1. CASE StartProcess(w)
    BY <2>1 DEF StartProcess, TypeOK
  <2>2. CASE Stop(w)
    BY <2>2, JobQueueAssumption DEF Stop, TypeOK
  <2>3. CASE Exit(w) \/ Crash(w)
    <3>1. Vanish(w)
      BY <2>3 DEF Exit, Crash
    <3>2. disruptions' \in 0..MaxDisruptions
      BY <2>3, JobQueueAssumption DEF Exit, Crash, TypeOK
    <3>3. stuck' \in [Workers -> [Scans -> SUBSET Jobs]]
      <4>1. [s \in Scans |-> {}] \in [Scans -> SUBSET Jobs]
        OBVIOUS
      <4> QED BY <3>1, <4>1, Zenon DEF Vanish, TypeOK
    <3> QED BY <3>1, <3>2, <3>3 DEF Vanish, TypeOK
  <2> QED BY <1>4, <2>1, <2>2, <2>3 DEF ProcessStep
<1>5. CASE LeaseStep
  BY <1>5, JobQueueAssumption
  DEF LeaseStep, OrphanLapses, HandlerOutrunsLease, LeaseLapses, TypeOK
<1>6. CASE UNCHANGED vars
  BY <1>6 DEF vars, TypeOK
<1> QED BY <1>1, <1>2, <1>3, <1>4, <1>5, <1>6 DEF Next

\* Every reachable state is well typed.
THEOREM TypeCorrect == Spec => []TypeOK
BY InitType, TypeStep, PTL DEF Spec

-----------------------------------------------------------------------------
(* Rows that exist *)

\* What an insert does to the table, for rows that were there and the new one.
LEMMA InsertFacts ==
    ASSUME TypeOK, NEW u, NEW t, NEW auto, InsertUnlessActive(u, t, auto)
    PROVE  \/ UNCHANGED <<inserted, type, username, auto_chain, status>>
           \/ /\ ~SlotTaken(u, t)
              /\ inserted' = inserted + 1
              /\ inserted + 1 \in Jobs
              /\ \A k \in 1..inserted : /\ status'[k] = status[k]
                                        /\ type'[k] = type[k]
                                        /\ username'[k] = username[k]
              /\ \A k \in Jobs : k # inserted + 1 => status'[k] = status[k]
              /\ type'[inserted + 1] = t
              /\ username'[inserted + 1] = u
<1>1. CASE SlotTaken(u, t) \/ inserted = MaxJobs
  BY <1>1 DEF InsertUnlessActive, tableVars
<1>2. CASE ~(SlotTaken(u, t) \/ inserted = MaxJobs)
  BY <1>2, RowsAreJobs DEF InsertUnlessActive, TypeOK
<1> QED BY <1>1, <1>2

\* The rows in the table when a step starts keep their slot, and stay.
LEMMA RowsStay ==
    ASSUME TypeOK, [Next]_vars
    PROVE  /\ inserted' \in Nat /\ inserted <= inserted'
           /\ 1..inserted \subseteq 1..inserted'
           /\ \A k \in 1..inserted : type'[k] = type[k] /\ username'[k] = username[k]
<1> USE RowsAreJobs DEF tableVars
<1>1. ASSUME NEW u, NEW t, NEW auto, InsertUnlessActive(u, t, auto)
      PROVE  /\ inserted' \in Nat /\ inserted <= inserted'
             /\ 1..inserted \subseteq 1..inserted'
             /\ \A k \in 1..inserted : type'[k] = type[k] /\ username'[k] = username[k]
  BY <1>1, InsertFacts
<1>2. CASE \E u \in Users, t \in JobType : Submit(u, t)
  BY <1>1, <1>2 DEF Submit
<1>3. CASE \E w \in Workers : Chain(w)
  <2>1. PICK w \in Workers : Chain(w)
    BY <1>3
  <2>2. \/ InsertUnlessActive(username[job[w]], "diagnosis", TRUE)
        \/ UNCHANGED tableVars
    BY <2>1 DEF Chain
  <2>3. CASE InsertUnlessActive(username[job[w]], "diagnosis", TRUE)
    BY <2>3, <1>1, Zenon
  <2>4. CASE UNCHANGED tableVars
    BY <2>4
  <2> QED BY <2>2, <2>3, <2>4
<1>4. CASE UNCHANGED tableVars
  BY <1>4
<1>5. CASE \E c \in Clients : CancelWrite(c) \/ \E j \in Jobs : CancelRead(c, j)
  BY <1>5, <1>4 DEF CancelWrite, CancelRead
<1>6. ASSUME NEW w \in Workers, ScanStep(w) PROVE UNCHANGED tableVars
  BY <1>6 DEF ScanStep, StartupScan, StartupReset, HousekeepingScan,
              HousekeepingReset
<1>7. ASSUME NEW w \in Workers, LoopStep(w), ~Chain(w) PROVE UNCHANGED tableVars
  BY <1>7 DEF LoopStep, Claim, Execute, Heartbeat, HandlerReturns,
              HandlerRaises, RecordSuccess, RecordFailure, LoseFailure
<1>8. ASSUME NEW w \in Workers, ProcessStep(w) PROVE UNCHANGED tableVars
  BY <1>8 DEF ProcessStep, StartProcess, Stop, Exit, Crash, Vanish
<1>9. CASE LeaseStep
  BY <1>4, <1>9 DEF LeaseStep, OrphanLapses, HandlerOutrunsLease, LeaseLapses
<1>10. CASE UNCHANGED vars
  BY <1>4, <1>10 DEF vars
<1> QED BY <1>2, <1>3, <1>4, <1>5, <1>6, <1>7, <1>8, <1>9, <1>10
        DEF Next, ApiStep

\* References keep pointing at rows of the table.
LEMMA RowsStep == TypeOK /\ RowsExist /\ [Next]_vars => RowsExist'
<1> SUFFICES ASSUME TypeOK, RowsExist, [Next]_vars PROVE RowsExist'
  OBVIOUS
<1> USE DEF workerVars
<1>1. /\ 1..inserted \subseteq 1..inserted'
      /\ 1..inserted \subseteq Jobs
  BY RowsStay, RowsAreJobs
<1> HIDE DEF Jobs
<1>2. CASE UNCHANGED <<workerVars, cancelling>>
  BY <1>1, <1>2 DEF RowsExist
<1>3. CASE ApiStep
  <2>1. CASE \E u \in Users, t \in JobType : Submit(u, t)
    BY <2>1, <1>2 DEF Submit
  <2>2. CASE \E c \in Clients : CancelWrite(c)
    BY <2>2, <1>1 DEF CancelWrite, RowsExist, TypeOK
  <2>3. CASE \E c \in Clients, j \in Jobs : CancelRead(c, j)
    <3>1. PICK c \in Clients, j \in Jobs : CancelRead(c, j)
      BY <2>3
    <3>2. j \in 1..inserted
      BY <3>1, RowsAreJobs DEF CancelRead, Jobs
    <3> QED BY <3>1, <3>2, <1>1 DEF CancelRead, RowsExist, TypeOK
  <2> QED BY <1>3, <2>1, <2>2, <2>3 DEF ApiStep
<1>4. ASSUME NEW w \in Workers, ScanStep(w) PROVE RowsExist'
  <2>1. StuckJobs(w) \subseteq 1..inserted
    BY DEF StuckJobs
  <2>2. CASE StartupScan(w)
    BY <2>1, <2>2, <1>1 DEF StartupScan, RowsExist, TypeOK, Busy, Executing
  <2>3. CASE HousekeepingScan(w)
    BY <2>1, <2>3, <1>1 DEF HousekeepingScan, RowsExist, TypeOK
  <2>4. CASE StartupReset(w)
    BY <2>4, <1>1
    DEF StartupReset, ResetStuck, RowsExist, TypeOK, Busy, Executing
  <2>5. CASE HousekeepingReset(w)
    BY <2>5, <1>1 DEF HousekeepingReset, ResetStuck, RowsExist, TypeOK
  <2> QED BY <1>4, <2>2, <2>3, <2>4, <2>5 DEF ScanStep
<1>5. ASSUME NEW w \in Workers, LoopStep(w) PROVE RowsExist'
  <2>1. CASE Claim(w)
    BY <2>1, <1>1 DEF Claim, RowsExist, TypeOK
  <2>2. CASE Execute(w) \/ HandlerReturns(w) \/ HandlerRaises(w)
    BY <2>2, <1>1 DEF Execute, HandlerReturns, HandlerRaises, RowsExist, TypeOK,
                      Busy, Executing
  <2>3. CASE Heartbeat(w)
    BY <2>3, <1>2 DEF Heartbeat
  <2>4. CASE RecordSuccess(w)
    BY <2>4, <1>1 DEF RecordSuccess, RowsExist, TypeOK, Busy, Executing
  <2>5. CASE RecordFailure(w) \/ LoseFailure(w) \/ Chain(w)
    BY <2>5, <1>1 DEF RecordFailure, LoseFailure, Chain, RowsExist, TypeOK,
                      Busy, Executing
  <2> QED BY <1>5, <2>1, <2>2, <2>3, <2>4, <2>5 DEF LoopStep
<1>6. ASSUME NEW w \in Workers, ProcessStep(w) PROVE RowsExist'
  <2>1. CASE StartProcess(w)
    BY <2>1, <1>1 DEF StartProcess, RowsExist, TypeOK, Busy, Executing
  <2>2. CASE Stop(w)
    BY <2>2, <1>1 DEF Stop, RowsExist, TypeOK
  <2>3. CASE Exit(w) \/ Crash(w)
    <3>1. Vanish(w)
      BY <2>3 DEF Exit, Crash
    <3> QED BY <3>1, <1>1 DEF Vanish, RowsExist, TypeOK, Busy, Executing
  <2> QED BY <1>6, <2>1, <2>2, <2>3 DEF ProcessStep
<1>7. CASE LeaseStep
  BY <1>7, <1>2 DEF LeaseStep, OrphanLapses, HandlerOutrunsLease, LeaseLapses
<1>8. CASE UNCHANGED vars
  BY <1>8, <1>2 DEF vars
<1> QED BY <1>3, <1>4, <1>5, <1>6, <1>7, <1>8 DEF Next

-----------------------------------------------------------------------------
(* One active row per slot *)

\* A step that adds no row and activates none keeps the slots exclusive.
LEMMA SlotsKept ==
    ASSUME OneActivePerSlot, UNCHANGED tableVars,
           \A j \in 1..inserted : status'[j] \in Active => status[j] \in Active
    PROVE  OneActivePerSlot'
BY DEF OneActivePerSlot, SameSlot, tableVars

\* An insert that saw its slot free keeps the slots exclusive.
LEMMA SlotsInsert ==
    ASSUME TypeOK, OneActivePerSlot, NEW u, NEW t, NEW auto,
           InsertUnlessActive(u, t, auto)
    PROVE  OneActivePerSlot'
<1>1. CASE UNCHANGED <<inserted, type, username, auto_chain, status>>
  BY <1>1 DEF OneActivePerSlot, SameSlot
<1>2. CASE ~UNCHANGED <<inserted, type, username, auto_chain, status>>
  <2>1. PICK n \in Jobs : n = inserted + 1
    BY <1>2, InsertFacts
  <2>2. 1..inserted' = 1..inserted \union {n}
    BY <1>2, <2>1, InsertFacts, RowsAreJobs
  <2>3. ASSUME NEW k \in 1..inserted, status'[k] \in Active
        PROVE  ~SameSlot(k, n)' /\ ~SameSlot(n, k)'
    BY <1>2, <2>1, <2>3, InsertFacts DEF SlotTaken, SameSlot
  <2>4. ASSUME NEW j \in 1..inserted, NEW k \in 1..inserted, j # k,
               status'[j] \in Active, status'[k] \in Active
        PROVE  ~SameSlot(j, k)'
    <3>1. status[j] \in Active /\ status[k] \in Active
      BY <1>2, <2>4, InsertFacts
    <3>2. ~SameSlot(j, k)
      BY <3>1, <2>4 DEF OneActivePerSlot
    <3> QED BY <1>2, <3>2, InsertFacts DEF SameSlot
  <2> QED BY <2>2, <2>3, <2>4 DEF OneActivePerSlot
<1> QED BY <1>1, <1>2

\* A reset puts back rows of different slots, none of them taken meanwhile.
LEMMA SlotsReset ==
    ASSUME TypeOK, RowsExist, OneActivePerSlot, StuckSlotsDiffer,
           UNCHANGED tableVars, NEW w \in Workers, NEW s \in Scans,
           ResetStuck(w, s)
    PROVE  OneActivePerSlot'
<1>1. CASE ResetCollides(stuck[w][s])
  BY <1>1, SlotsKept DEF ResetStuck
<1>2. CASE ~ResetCollides(stuck[w][s])
  <2> DEFINE S == stuck[w][s]
  <2>1. \A j \in 1..inserted : status'[j] = IF j \in S THEN "queued" ELSE status[j]
    BY <1>2, RowsAreJobs DEF ResetStuck
  <2>2. ASSUME NEW j \in 1..inserted, NEW k \in 1..inserted, j # k,
               status'[j] \in Active, status'[k] \in Active
        PROVE  ~SameSlot(j, k)
    <3>1. CASE j \in S /\ k \in S
      BY <2>2, <3>1 DEF StuckSlotsDiffer
    <3>2. CASE j \in S /\ k \notin S
      BY <1>2, <2>1, <2>2, <3>2 DEF ResetCollides
    <3>3. CASE j \notin S /\ k \in S
      BY <1>2, <2>1, <2>2, <3>3 DEF ResetCollides, SameSlot
    <3>4. CASE j \notin S /\ k \notin S
      BY <2>1, <2>2, <3>4 DEF OneActivePerSlot
    <3> QED BY <3>1, <3>2, <3>3, <3>4
  <2> QED BY <2>2 DEF OneActivePerSlot, SameSlot, tableVars
<1> QED BY <1>1, <1>2

LEMMA SlotStep ==
    TypeOK /\ RowsExist /\ OneActivePerSlot /\ StuckSlotsDiffer /\ [Next]_vars
        => OneActivePerSlot'
<1> SUFFICES ASSUME TypeOK, RowsExist, OneActivePerSlot, StuckSlotsDiffer,
                    [Next]_vars
             PROVE  OneActivePerSlot'
  OBVIOUS
<1>1. CASE UNCHANGED <<tableVars, status>>
  BY <1>1, SlotsKept
<1>2. CASE ApiStep
  <2>1. CASE \E u \in Users, t \in JobType : Submit(u, t)
    BY <2>1, SlotsInsert DEF Submit
  <2>2. CASE \E c \in Clients : CancelWrite(c)
    BY <2>2, SlotsKept, RowsAreJobs DEF CancelWrite, TypeOK, Active
  <2>3. CASE \E c \in Clients, j \in Jobs : CancelRead(c, j)
    BY <2>3, <1>1 DEF CancelRead
  <2> QED BY <1>2, <2>1, <2>2, <2>3 DEF ApiStep
<1>3. ASSUME NEW w \in Workers, ScanStep(w) PROVE OneActivePerSlot'
  <2>1. CASE StartupScan(w) \/ HousekeepingScan(w)
    BY <2>1, <1>1 DEF StartupScan, HousekeepingScan
  <2>2. CASE StartupReset(w) \/ HousekeepingReset(w)
    BY <2>2, SlotsReset DEF StartupReset, HousekeepingReset, Scans
  <2> QED BY <1>3, <2>1, <2>2 DEF ScanStep
<1>4. ASSUME NEW w \in Workers, LoopStep(w) PROVE OneActivePerSlot'
  <2>1. CASE Claim(w)
    BY <2>1, SlotsKept, RowsAreJobs DEF Claim, TypeOK, Active
  <2>2. CASE RecordSuccess(w) \/ RecordFailure(w)
    BY <2>2, SlotsKept, RowsAreJobs
    DEF RecordSuccess, RecordFailure, TypeOK, Active
  <2>3. CASE Chain(w)
    <3>1. \/ InsertUnlessActive(username[job[w]], "diagnosis", TRUE)
          \/ UNCHANGED <<tableVars, status>>
      BY <2>3 DEF Chain
    <3> QED BY <3>1, <1>1, SlotsInsert
  <2>4. CASE \/ Execute(w) \/ Heartbeat(w) \/ HandlerReturns(w)
             \/ HandlerRaises(w) \/ LoseFailure(w)
    BY <2>4, <1>1 DEF Execute, Heartbeat, HandlerReturns, HandlerRaises,
                      LoseFailure
  <2> QED BY <1>4, <2>1, <2>2, <2>3, <2>4 DEF LoopStep
<1>5. ASSUME NEW w \in Workers, ProcessStep(w) PROVE OneActivePerSlot'
  BY <1>5, <1>1 DEF ProcessStep, StartProcess, Stop, Exit, Crash, Vanish
<1>6. CASE LeaseStep
  BY <1>6, <1>1 DEF LeaseStep, OrphanLapses, HandlerOutrunsLease, LeaseLapses
<1>7. CASE UNCHANGED vars
  BY <1>7, <1>1 DEF vars
<1> QED BY <1>2, <1>3, <1>4, <1>5, <1>6, <1>7 DEF Next

\* What a scan holds keeps differing: rows never change slot, and a new scan
\* selects rows that are running together.
LEMMA StuckStep ==
    TypeOK /\ RowsExist /\ OneActivePerSlot /\ StuckSlotsDiffer /\ [Next]_vars
        => StuckSlotsDiffer'
<1> SUFFICES ASSUME TypeOK, RowsExist, OneActivePerSlot, StuckSlotsDiffer,
                    [Next]_vars
             PROVE  StuckSlotsDiffer'
  OBVIOUS
<1>1. ASSUME NEW j \in 1..inserted, NEW k \in 1..inserted
      PROVE  SameSlot(j, k)' <=> SameSlot(j, k)
  BY RowsStay DEF SameSlot
<1>2. ASSUME NEW w \in Workers
      PROVE  \A j, k \in StuckJobs(w) : j # k => ~SameSlot(j, k)
  BY DEF StuckJobs, OneActivePerSlot, Active
<1>3. ASSUME NEW w \in Workers, NEW s \in Scans
      PROVE  stuck'[w][s] \in {{}, stuck[w][s], StuckJobs(w)}
  <2>1. CASE UNCHANGED stuck
    BY <2>1
  <2>2. ASSUME NEW v \in Workers, ScanStep(v)
        PROVE  stuck'[w][s] \in {{}, stuck[w][s], StuckJobs(w)}
    <3>1. CASE StartupScan(v) \/ HousekeepingScan(v)
      BY <3>1 DEF StartupScan, HousekeepingScan, TypeOK, Scans
    <3>2. CASE StartupReset(v) \/ HousekeepingReset(v)
      BY <3>2 DEF StartupReset, HousekeepingReset, ResetStuck, TypeOK, Scans
    <3> QED BY <2>2, <3>1, <3>2 DEF ScanStep
  <2>3. ASSUME NEW v \in Workers, ProcessStep(v)
        PROVE  stuck'[w][s] \in {{}, stuck[w][s], StuckJobs(w)}
    <3>1. CASE StartProcess(v) \/ Stop(v)
      BY <3>1 DEF StartProcess, Stop
    <3>2. CASE Exit(v) \/ Crash(v)
      <4>1. stuck' = [stuck EXCEPT ![v] = [r \in Scans |-> {}]]
        BY <3>2 DEF Exit, Crash, Vanish
      <4>2. CASE v = w
        BY <4>1, <4>2 DEF TypeOK
      <4>3. CASE v # w
        BY <4>1, <4>3 DEF TypeOK
      <4> QED BY <4>2, <4>3
    <3> QED BY <2>3, <3>1, <3>2 DEF ProcessStep
  <2>4. ASSUME NEW v \in Workers, LoopStep(v) PROVE UNCHANGED stuck
    BY <2>4 DEF LoopStep, Claim, Execute, Heartbeat, HandlerReturns, workerVars,
                HandlerRaises, RecordSuccess, RecordFailure, LoseFailure, Chain
  <2>5. ApiStep \/ LeaseStep \/ UNCHANGED vars => UNCHANGED stuck
    BY DEF ApiStep, Submit, CancelRead, CancelWrite, LeaseStep, OrphanLapses,
           HandlerOutrunsLease, LeaseLapses, vars, workerVars
  <2> QED BY <2>1, <2>2, <2>3, <2>4, <2>5 DEF Next
<1>4. \A w \in Workers : StuckJobs(w) \subseteq 1..inserted
  BY DEF StuckJobs
<1> QED BY <1>1, <1>2, <1>3, <1>4 DEF StuckSlotsDiffer, RowsExist

-----------------------------------------------------------------------------
(* One worker per job *)

\* A step that gives nobody a job keeps both claims about holders, if it
\* leaves the status of held jobs alone or cancels them.
LEMMA HoldersKept ==
    ASSUME IInv, recovered \subseteq recovered',
           \A w \in Workers, j \in Jobs : Holds(w, j)' => Holds(w, j),
           \A w \in Workers, j \in Jobs :
               Holds(w, j)' /\ j \notin recovered'
                   => status'[j] \in {status[j], "canceled"}
    PROVE  HeldStatus' /\ ClaimExclusive'
BY DEF IInv, HeldStatus, ClaimExclusive

\* Recording an outcome: whoever else holds the job shares a recovered one.
LEMMA HoldersRecord ==
    ASSUME IInv, NEW v \in Workers, Holds(v, job[v]), UNCHANGED recovered,
           pc' \in {[pc EXCEPT ![v] = "idle"], [pc EXCEPT ![v] = "chaining"]},
           job' \in {job, [job EXCEPT ![v] = NoJob]},
           \A j \in Jobs : j # job[v] => status'[j] = status[j]
    PROVE  HeldStatus' /\ ClaimExclusive'
<1>1. ASSUME NEW w \in Workers, NEW j \in Jobs, Holds(w, j)'
      PROVE  w # v /\ Holds(w, j)
  BY <1>1 DEF IInv, TypeOK, Holds, Busy, Executing
<1>2. ASSUME NEW w \in Workers, NEW j \in Jobs, Holds(w, j)', j \notin recovered'
      PROVE  status'[j] = status[j]
  <2>1. j # job[v]
    BY <1>1, <1>2 DEF IInv, ClaimExclusive
  <2> QED BY <2>1
<1> QED BY <1>1, <1>2, HoldersKept

LEMMA HoldStep == IInv /\ [Next]_vars => HeldStatus' /\ ClaimExclusive'
<1> SUFFICES ASSUME IInv, [Next]_vars PROVE HeldStatus' /\ ClaimExclusive'
  OBVIOUS
<1> USE DEF workerVars
<1>1. CASE UNCHANGED <<status, recovered, pc, job>>
  BY <1>1, HoldersKept DEF Holds
<1>2. ASSUME NEW u, NEW t, NEW auto, InsertUnlessActive(u, t, auto),
             UNCHANGED recovered,
             \A w \in Workers, j \in Jobs : Holds(w, j)' => Holds(w, j)
      PROVE  HeldStatus' /\ ClaimExclusive'
  <2>1. ASSUME NEW w \in Workers, NEW j \in Jobs, Holds(w, j)
        PROVE  j \in 1..inserted
    BY <2>1 DEF IInv, RowsExist, Holds
  <2>2. \A j \in 1..inserted : status'[j] = status[j]
    BY <1>2, InsertFacts DEF IInv
  <2> QED BY <1>2, <2>1, <2>2, HoldersKept
<1>3. CASE ApiStep
  <2>1. CASE \E u \in Users, t \in JobType : Submit(u, t)
    <3>1. PICK u \in Users, t \in JobType : Submit(u, t)
      BY <2>1
    <3>2. InsertUnlessActive(u, t, FALSE) /\ UNCHANGED <<recovered, pc, job>>
      BY <3>1 DEF Submit
    <3>3. \A w \in Workers, j \in Jobs : Holds(w, j)' => Holds(w, j)
      BY <3>2 DEF Holds
    <3> QED BY <1>2, <3>2, <3>3, Zenon
  <2>2. CASE \E c \in Clients : CancelWrite(c)
    BY <2>2, HoldersKept DEF CancelWrite, IInv, TypeOK, Holds
  <2>3. CASE \E c \in Clients, j \in Jobs : CancelRead(c, j)
    BY <2>3, <1>1 DEF CancelRead
  <2> QED BY <1>3, <2>1, <2>2, <2>3 DEF ApiStep
<1>4. ASSUME NEW w \in Workers, ScanStep(w) PROVE HeldStatus' /\ ClaimExclusive'
  <2>1. \A v \in Workers, j \in Jobs : Holds(v, j)' => Holds(v, j)
    BY <1>4 DEF ScanStep, StartupScan, StartupReset, HousekeepingScan, Holds,
                HousekeepingReset, IInv, TypeOK, Busy, Executing
  <2>2. CASE StartupScan(w) \/ HousekeepingScan(w)
    BY <2>1, <2>2, HoldersKept DEF StartupScan, HousekeepingScan
  <2>3. CASE StartupReset(w) \/ HousekeepingReset(w)
    <3>1. PICK s \in Scans : ResetStuck(w, s)
      BY <2>3 DEF StartupReset, HousekeepingReset, Scans
    <3> QED BY <2>1, <3>1, HoldersKept DEF ResetStuck
  <2> QED BY <1>4, <2>2, <2>3 DEF ScanStep
<1>5. ASSUME NEW w \in Workers, LoopStep(w) PROVE HeldStatus' /\ ClaimExclusive'
  <2>1. CASE Claim(w)
    <3>1. PICK j \in 1..inserted :
            /\ status[j] = "queued"
            /\ status' = [status EXCEPT ![j] = "running"]
            /\ job' = [job EXCEPT ![w] = j]
      BY <2>1 DEF Claim
    <3>2. j \in Jobs /\ ~\E v \in Workers : Holds(v, j) /\ j \notin recovered
      BY <3>1, RowsAreJobs DEF IInv, HeldStatus
    <3>3. UNCHANGED recovered /\ pc' = [pc EXCEPT ![w] = "claimed"]
      BY <2>1 DEF Claim
    <3>4. \A v \in Workers, k \in Jobs :
            Holds(v, k)' <=> IF v = w THEN k = j ELSE Holds(v, k)
      BY <3>1, <3>3 DEF Holds, IInv, TypeOK, Busy, Executing
    <3>5. HeldStatus'
      BY <3>1, <3>2, <3>3, <3>4 DEF HeldStatus, IInv, TypeOK
    <3>6. ClaimExclusive'
      BY <3>2, <3>3, <3>4 DEF ClaimExclusive, IInv
    <3> QED BY <3>5, <3>6
  <2>2. CASE Execute(w) \/ HandlerReturns(w) \/ HandlerRaises(w)
    <3>1. UNCHANGED <<status, recovered>>
      BY <2>2 DEF Execute, HandlerReturns, HandlerRaises
    <3>2. \A v \in Workers, j \in Jobs : Holds(v, j)' => Holds(v, j)
      BY <2>2 DEF Execute, HandlerReturns, HandlerRaises, Holds, IInv, TypeOK,
                  Busy, Executing
    <3> QED BY <3>1, <3>2, HoldersKept
  <2>3. CASE Heartbeat(w)
    BY <2>3, <1>1 DEF Heartbeat
  <2>4. CASE RecordSuccess(w)
    <3>1. Holds(w, job[w])
      BY <2>4 DEF RecordSuccess, Holds, Busy, Executing
    <3> QED BY <2>4, <3>1, HoldersRecord DEF RecordSuccess, IInv, TypeOK
  <2>5. CASE RecordFailure(w) \/ LoseFailure(w)
    <3>1. Holds(w, job[w])
      BY <2>5 DEF RecordFailure, LoseFailure, Holds, Busy, Executing
    <3> QED BY <2>5, <3>1, HoldersRecord
            DEF RecordFailure, LoseFailure, IInv, TypeOK
  <2>6. CASE Chain(w)
    <3>1. \A v \in Workers, j \in Jobs : Holds(v, j)' => Holds(v, j)
      BY <2>6 DEF Chain, Holds, IInv, TypeOK, Busy, Executing
    <3>2. CASE InsertUnlessActive(username[job[w]], "diagnosis", TRUE)
      <4>1. UNCHANGED recovered
        BY <2>6 DEF Chain
      <4> QED BY <1>2, <3>1, <3>2, <4>1, Zenon
    <3>3. CASE UNCHANGED <<tableVars, status>>
      BY <2>6, <3>1, <3>3, HoldersKept DEF Chain
    <3>4. \/ InsertUnlessActive(username[job[w]], "diagnosis", TRUE)
          \/ UNCHANGED <<tableVars, status>>
      BY <2>6 DEF Chain
    <3> QED BY <3>2, <3>3, <3>4
  <2> QED BY <1>5, <2>1, <2>2, <2>3, <2>4, <2>5, <2>6 DEF LoopStep
<1>6. ASSUME NEW w \in Workers, ProcessStep(w) PROVE HeldStatus' /\ ClaimExclusive'
  <2>1. UNCHANGED <<status, recovered>>
    BY <1>6 DEF ProcessStep, StartProcess, Stop, Exit, Crash, Vanish
  <2>2. \A v \in Workers, j \in Jobs : Holds(v, j)' => Holds(v, j)
    BY <1>6 DEF ProcessStep, StartProcess, Stop, Exit, Crash, Vanish, Holds,
                IInv, TypeOK, Busy, Executing
  <2> QED BY <2>1, <2>2, HoldersKept
<1>7. CASE LeaseStep
  BY <1>7, <1>1 DEF LeaseStep, OrphanLapses, HandlerOutrunsLease, LeaseLapses
<1>8. CASE UNCHANGED vars
  BY <1>8, <1>1 DEF vars
<1> QED BY <1>3, <1>4, <1>5, <1>6, <1>7, <1>8 DEF Next

-----------------------------------------------------------------------------
(* The theorems *)

LEMMA InitInvariant == Init => IInv
<1> SUFFICES ASSUME Init PROVE IInv
  OBVIOUS
<1>1. RowsExist /\ StuckSlotsDiffer /\ HeldStatus /\ ClaimExclusive
  BY DEF Init, RowsExist, StuckSlotsDiffer, HeldStatus, ClaimExclusive, Holds,
         Busy, Executing, NoJob
<1>2. OneActivePerSlot
  BY DEF Init, OneActivePerSlot
<1> QED BY <1>1, <1>2, InitType DEF IInv

LEMMA StepInvariant == IInv /\ [Next]_vars => IInv'
BY TypeStep, RowsStep, SlotStep, StuckStep, HoldStep DEF IInv

LEMMA Invariant == Spec => []IInv
BY InitInvariant, StepInvariant, PTL DEF Spec

\* No interleaving of inserts, claims, cancels and recovery resets leaves two
\* queued or running rows for one user and job type.
THEOREM SlotsAreExclusive == Spec => []OneActivePerSlot
BY Invariant, PTL DEF IInv

\* Only a job that crash recovery reset can be in the hands of two workers.
THEOREM ClaimsAreExclusive == Spec => []ClaimExclusive
BY Invariant, PTL DEF IInv

\* The only steps that finish a job are the guarded writes of its holder.
LEMMA FinishStep ==
    ASSUME IInv, Next, NEW j \in Jobs,
           status'[j] \in {"succeeded", "failed"}, status'[j] # status[j]
    PROVE  /\ status[j] = "running"
           /\ \E w \in Workers : Holds(w, j) /\ ~Holds(w, j)'
<1> USE DEF IInv
<1>1. ASSUME NEW u, NEW t, NEW auto, InsertUnlessActive(u, t, auto) PROVE FALSE
  BY <1>1, InsertFacts, RowsAreJobs DEF InsertUnlessActive, TypeOK, tableVars
<1>2. ASSUME NEW w \in Workers, RecordSuccess(w) \/ RecordFailure(w)
      PROVE  /\ status[j] = "running"
             /\ Holds(w, j) /\ ~Holds(w, j)'
  BY <1>2 DEF RecordSuccess, RecordFailure, TypeOK, Holds, Busy, Executing
<1>3. ASSUME status' \in {status} PROVE FALSE
  BY <1>3
<1>4. ~ApiStep
  <2>1. ASSUME NEW u \in Users, NEW t \in JobType, Submit(u, t) PROVE FALSE
    <3>1. InsertUnlessActive(u, t, FALSE)
      BY <2>1 DEF Submit
    <3> QED BY <1>1, <3>1, Zenon
  <2>2. ASSUME NEW c \in Clients, CancelWrite(c) PROVE FALSE
    BY <2>2 DEF CancelWrite, TypeOK
  <2>3. ASSUME NEW c \in Clients, NEW k \in Jobs, CancelRead(c, k) PROVE FALSE
    BY <2>3 DEF CancelRead
  <2> QED BY <2>1, <2>2, <2>3 DEF ApiStep
<1>5. ASSUME NEW w \in Workers, ScanStep(w) PROVE FALSE
  BY <1>5 DEF ScanStep, StartupScan, StartupReset, HousekeepingScan,
              HousekeepingReset, ResetStuck
<1>6. ASSUME NEW w \in Workers, LoopStep(w)
      PROVE  RecordSuccess(w) \/ RecordFailure(w)
  <2>1. ~Claim(w)
    BY DEF Claim, TypeOK
  <2>2. ~Chain(w)
    <3>1. Chain(w) => \/ InsertUnlessActive(username[job[w]], "diagnosis", TRUE)
                      \/ UNCHANGED status
      BY DEF Chain
    <3> QED BY <1>1, <1>3, <3>1, Zenon
  <2> QED BY <1>6, <2>1, <2>2 DEF LoopStep, Execute, Heartbeat, HandlerReturns,
                                  HandlerRaises, LoseFailure
<1>7. ASSUME NEW w \in Workers, ProcessStep(w) PROVE FALSE
  BY <1>7 DEF ProcessStep, StartProcess, Stop, Exit, Crash, Vanish
<1>8. ~LeaseStep
  BY DEF LeaseStep, OrphanLapses, HandlerOutrunsLease, LeaseLapses
<1> QED BY <1>2, <1>4, <1>5, <1>6, <1>7, <1>8 DEF Next

\* A completion, on time or late, never overwrites a cancel, a reset or an
\* earlier outcome.
THEOREM CompletionsAreGuarded == Spec => FinishedOnlyFromRunning
<1>1. IInv /\ [Next]_vars =>
        [\A j \in Jobs :
            status'[j] \in {"succeeded", "failed"} /\ status'[j] # status[j] =>
                /\ status[j] = "running"
                /\ \E w \in Workers : Holds(w, j) /\ ~Holds(w, j)']_vars
  BY FinishStep
<1> QED BY <1>1, Invariant, PTL DEF Spec, FinishedOnlyFromRunning

-----------------------------------------------------------------------------
(* A worker behind every running row *)

\* Rows that are not in the table yet do not run: RunningIsHeld for all jobs.
RunningHasHolder ==
    \A j \in Jobs :
        status[j] = "running" /\ j \notin recovered /\ disruptions = 0
            => \E w \in Workers : Holds(w, j)

\* A step keeps the holders if it starts no job and a worker lets go of a job
\* only when the row stops running or a fault is counted.
LEMMA RunningKept ==
    ASSUME RunningHasHolder, TypeOK, TypeOK',
           recovered \subseteq recovered', disruptions' = 0 => disruptions = 0,
           \A j \in Jobs : status'[j] = "running" => status[j] = "running",
           \A w \in Workers, j \in Jobs :
               Holds(w, j) => \/ Holds(w, j)'
                              \/ status'[j] # "running"
                              \/ disruptions' # 0
    PROVE  RunningHasHolder'
BY DEF RunningHasHolder

LEMMA RunningStep ==
    ASSUME TypeOK, RunningHasHolder, [Next]_vars
    PROVE  RunningHasHolder'
<1> USE DEF workerVars, boundVars
<1>1. TypeOK'
  BY TypeStep
<1>2. CASE UNCHANGED <<status, recovered, pc, job, disruptions>>
  BY <1>2 DEF RunningHasHolder, Holds
<1>3. ASSUME NEW u, NEW t, NEW auto, InsertUnlessActive(u, t, auto)
      PROVE  \A j \in Jobs : status'[j] = "running" => status[j] = "running"
  <2>1. CASE SlotTaken(u, t) \/ inserted = MaxJobs
    BY <1>3, <2>1 DEF InsertUnlessActive
  <2>2. CASE ~(SlotTaken(u, t) \/ inserted = MaxJobs)
    BY <1>3, <2>2 DEF InsertUnlessActive, TypeOK
  <2> QED BY <2>1, <2>2
<1>4. CASE ApiStep
  <2>1. CASE \E u \in Users, t \in JobType : Submit(u, t)
    <3>1. PICK u \in Users, t \in JobType : Submit(u, t)
      BY <2>1
    <3>2. InsertUnlessActive(u, t, FALSE) /\ UNCHANGED <<recovered, pc, job, disruptions>>
      BY <3>1 DEF Submit
    <3>3. \A w \in Workers, j \in Jobs : Holds(w, j) => Holds(w, j)'
      BY <3>2 DEF Holds
    <3>4. \A j \in Jobs : status'[j] = "running" => status[j] = "running"
      BY <1>3, <3>2, Zenon
    <3> QED BY <1>1, <3>2, <3>3, <3>4, RunningKept
  <2>2. CASE \E c \in Clients : CancelWrite(c)
    <3>1. \A j \in Jobs : status'[j] = "running" => status[j] = "running"
      BY <2>2 DEF CancelWrite, TypeOK
    <3>2. UNCHANGED <<recovered, pc, job, disruptions>>
      BY <2>2 DEF CancelWrite
    <3> QED BY <1>1, <3>1, <3>2, RunningKept DEF Holds
  <2>3. CASE \E c \in Clients, j \in Jobs : CancelRead(c, j)
    BY <2>3, <1>2 DEF CancelRead
  <2> QED BY <1>4, <2>1, <2>2, <2>3 DEF ApiStep
<1>5. ASSUME NEW w \in Workers, ScanStep(w) PROVE RunningHasHolder'
  <2>1. \A v \in Workers, j \in Jobs : Holds(v, j) => Holds(v, j)'
    BY <1>5 DEF ScanStep, StartupScan, StartupReset, HousekeepingScan, Holds,
                HousekeepingReset, TypeOK, Busy, Executing
  <2>2. CASE StartupScan(w) \/ HousekeepingScan(w)
    <3>1. UNCHANGED <<status, recovered, disruptions>>
      BY <2>2 DEF StartupScan, HousekeepingScan
    <3> QED BY <1>1, <2>1, <3>1, RunningKept
  <2>3. CASE StartupReset(w) \/ HousekeepingReset(w)
    <3>1. (\E s \in Scans : ResetStuck(w, s)) /\ UNCHANGED disruptions
      BY <2>3 DEF StartupReset, HousekeepingReset, Scans
    <3>2. /\ recovered \subseteq recovered'
          /\ \A j \in Jobs : status'[j] = "running" => status[j] = "running"
      BY <3>1 DEF ResetStuck
    <3> QED BY <1>1, <2>1, <3>1, <3>2, RunningKept
  <2> QED BY <1>5, <2>2, <2>3 DEF ScanStep
<1>6. ASSUME NEW w \in Workers, LoopStep(w) PROVE RunningHasHolder'
  <2>1. CASE Claim(w)
    <3>1. PICK j \in 1..inserted :
            /\ status' = [status EXCEPT ![j] = "running"]
            /\ job' = [job EXCEPT ![w] = j]
      BY <2>1 DEF Claim
    <3>2. /\ pc[w] = "idle" /\ pc' = [pc EXCEPT ![w] = "claimed"]
          /\ UNCHANGED <<recovered, disruptions>>
      BY <2>1 DEF Claim
    <3>3. j \in Jobs /\ Holds(w, j)'
      BY <3>1, <3>2, RowsAreJobs DEF Holds, Busy, Executing, TypeOK
    <3>4. \A v \in Workers, k \in Jobs : Holds(v, k) => Holds(v, k)'
      BY <3>1, <3>2 DEF Holds, Busy, Executing, TypeOK
    <3>5. \A k \in Jobs : k # j => status'[k] = status[k]
      BY <3>1, <3>3 DEF TypeOK
    <3> QED BY <3>2, <3>3, <3>4, <3>5 DEF RunningHasHolder
  <2>2. CASE Execute(w) \/ HandlerReturns(w) \/ HandlerRaises(w)
    <3>1. UNCHANGED <<status, recovered, disruptions>>
      BY <2>2 DEF Execute, HandlerReturns, HandlerRaises
    <3>2. \A v \in Workers, j \in Jobs : Holds(v, j) => Holds(v, j)'
      BY <2>2 DEF Execute, HandlerReturns, HandlerRaises, Holds, TypeOK,
                  Busy, Executing
    <3> QED BY <1>1, <3>1, <3>2, RunningKept
  <2>3. CASE Heartbeat(w)
    BY <2>3, <1>2 DEF Heartbeat
  <2>4. CASE RecordSuccess(w) \/ RecordFailure(w)
    <3>1. /\ UNCHANGED <<recovered, disruptions>>
          /\ \A j \in Jobs : status'[j] = "running" => status[j] = "running"
      BY <2>4 DEF RecordSuccess, RecordFailure, TypeOK
    <3>2. \A v \in Workers, j \in Jobs : v # w /\ Holds(v, j) => Holds(v, j)'
      BY <2>4 DEF RecordSuccess, RecordFailure, Holds, TypeOK
    <3>3. \A j \in Jobs : Holds(w, j) => status'[j] # "running"
      BY <2>4 DEF RecordSuccess, RecordFailure, Holds, TypeOK
    <3> QED BY <1>1, <3>1, <3>2, <3>3, RunningKept
  <2>5. CASE LoseFailure(w)
    BY <2>5, JobQueueAssumption DEF LoseFailure, TypeOK, RunningHasHolder
  <2>6. CASE Chain(w)
    <3>1. UNCHANGED <<recovered, disruptions>>
      BY <2>6 DEF Chain
    <3>2. \A v \in Workers, j \in Jobs : Holds(v, j) => Holds(v, j)'
      BY <2>6 DEF Chain, Holds, TypeOK, Busy, Executing
    <3>3. \/ InsertUnlessActive(username[job[w]], "diagnosis", TRUE)
          \/ UNCHANGED status
      BY <2>6 DEF Chain
    <3>4. \A j \in Jobs : status'[j] = "running" => status[j] = "running"
      BY <1>3, <3>3, Zenon
    <3> QED BY <1>1, <3>1, <3>2, <3>4, RunningKept
  <2> QED BY <1>6, <2>1, <2>2, <2>3, <2>4, <2>5, <2>6 DEF LoopStep
<1>7. ASSUME NEW w \in Workers, ProcessStep(w) PROVE RunningHasHolder'
  <2>1. CASE StartProcess(w) \/ Stop(w) \/ Exit(w)
    <3>1. UNCHANGED <<status, recovered, disruptions>>
      BY <2>1 DEF StartProcess, Stop, Exit, Vanish
    <3>2. \A v \in Workers, j \in Jobs : Holds(v, j) => Holds(v, j)'
      BY <2>1 DEF StartProcess, Stop, Exit, Vanish, Holds, TypeOK, Busy, Executing
    <3> QED BY <1>1, <3>1, <3>2, RunningKept
  <2>2. CASE Crash(w)
    BY <2>2, JobQueueAssumption DEF Crash, TypeOK, RunningHasHolder
  <2> QED BY <1>7, <2>1, <2>2 DEF ProcessStep
<1>8. CASE LeaseStep
  BY <1>8, <1>2 DEF LeaseStep, OrphanLapses, HandlerOutrunsLease, LeaseLapses
<1>9. CASE UNCHANGED vars
  BY <1>9, <1>2 DEF vars
<1> QED BY <1>4, <1>5, <1>6, <1>7, <1>8, <1>9 DEF Next

\* Without faults, a running row that no scan touched is somebody's work: an
\* orderly stop, a cancel or a discarded completion orphans nothing.
THEOREM RunningStaysHeld == Spec => []RunningIsHeld
<1>1. Init => TypeOK /\ RunningHasHolder
  BY InitType DEF Init, RunningHasHolder
<1>2. TypeOK /\ RunningHasHolder /\ [Next]_vars => TypeOK' /\ RunningHasHolder'
  BY TypeStep, RunningStep
<1>3. TypeOK /\ RunningHasHolder => RunningIsHeld
  BY RowsAreJobs DEF RunningHasHolder, RunningIsHeld
<1> QED BY <1>1, <1>2, <1>3, PTL DEF Spec

=============================================================================
