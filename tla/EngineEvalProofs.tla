-------------------------- MODULE EngineEvalProofs --------------------------
(***************************************************************************)
(* Theorems about EngineEval, for any finite number of requests and        *)
(* batches, any processes, positions and engine versions, and any limits.  *)
(***************************************************************************)
EXTENDS EngineEval, FiniteSetTheorems, TLAPS

-----------------------------------------------------------------------------
(* The inductive invariant *)

\* The types, without the upper bounds of the counters and the lower one of
\* inflight, which follow from what the calls in progress hold.
Shape ==
    /\ installed \in [Procs -> Versions]
    /\ memo \in [Procs -> Versions \cup {Unknown, None}]
    /\ inflight \in [Procs -> Int]
    /\ permits \in [Procs -> Nat]
    /\ lingering \in [Procs -> Nat]
    /\ cache \in [Key -> Versions \cup {None}]
    /\ pc \in [Callers -> Phases]
    /\ key \in [Callers -> (Positions \cup {None})
                            \X (Versions \cup {Unknown, None})]
    /\ result \in [Callers -> Versions \cup {None}]
    /\ engine \in [Callers -> {"none", "live", "dead"}]
    /\ attended \in [Callers -> BOOLEAN]
    /\ calls \in 0..MaxCalls
    /\ faults \in 0..MaxFaults /\ deploys \in 0..MaxDeploys

\* The requests whose coroutine is counted as in flight.
Counted(p) == {c \in Requests : Home[c] = p /\ pc[c] # "idle" /\ attended[c]}

\* Permits and places in flight are what the calls in progress hold.
Conserved ==
    \A p \in Procs : /\ permits[p] + Cardinality(Of(p, Holding)) = Permits
                     /\ inflight[p] = Cardinality(Counted(p))

\* A request that begins is attended.
IdleIsAttended == \A c \in Callers : pc[c] = "idle" => attended[c]

\* The route refuses before it goes over the limit.
InflightFits == \A p \in Procs : inflight[p] <= MaxInflight

\* A thread is running, lingering, or free.
ThreadsFit ==
    \A p \in Procs :
        Cardinality(Of(p, {"running"})) + lingering[p] <= PoolSize

\* A request has an engine only while it holds a permit.
EngineIsHeld ==
    \A c \in Requests : engine[c] # "none" => pc[c] \in Holding

\* The phases after the version of the key is known, and those which may have
\* a result.
Keyed == Phases \ {"idle", "version", "probe"}

Resulting == {"release", "store", "answer"}

\* A row of the shared table was computed by the version in its key, the memo
\* is what the process runs, and so is the key of a call in progress, unless
\* the version could not be determined.
VersionsAgree ==
    /\ \A f \in Positions, v \in Versions : cache[<<f, v>>] \in {None, v}
    /\ \A p \in Procs : memo[p] \in {None, Unknown, installed[p]}
    /\ \A c \in Callers :
        /\ pc[c] # "idle" => key[c][1] \in Positions
        /\ pc[c] \in Keyed => key[c][2] \in {Unknown, installed[Home[c]]}
        /\ pc[c] \notin Resulting => result[c] = None

IInv ==
    /\ Shape
    /\ Conserved
    /\ IdleIsAttended
    /\ InflightFits
    /\ ThreadsFit
    /\ EngineIsHeld
    /\ VersionsAgree
    /\ KnownVersionsMatch

-----------------------------------------------------------------------------
(* Typing *)

\* Replacing the version in the key of one caller.
LEMMA KeyUpdate ==
    ASSUME Shape, NEW c \in Callers, NEW v \in Versions \cup {Unknown, None}
    PROVE  LET new == [key EXCEPT ![c][2] = v]
           IN  /\ new \in [Callers -> (Positions \cup {None})
                                        \X (Versions \cup {Unknown, None})]
               /\ new[c] = <<key[c][1], v>>
               /\ \A d \in Callers \ {c} : new[d] = key[d]
BY DEF Shape

LEMMA FaultType == ASSUME Shape, Fault PROVE faults' \in 0..MaxFaults
BY BoundsAssumption DEF Shape, Fault

LEMMA ToType ==
    ASSUME Shape, NEW c \in Callers, NEW phase \in Phases, To(c, phase)
    PROVE  pc' \in [Callers -> Phases]
BY DEF Shape, To

\* The home of a caller is a process, where a version is installed.
LEMMA HomeType ==
    ASSUME Shape, NEW c \in Callers
    PROVE  Home[c] \in Procs /\ installed[Home[c]] \in Versions
BY HomeAssumption DEF Shape

LEMMA ShapeInit == Init => Shape
<1> SUFFICES ASSUME Init PROVE Shape
  OBVIOUS
<1>1. key \in [Callers -> (Positions \cup {None}) \X (Versions \cup {Unknown, None})]
  BY DEF Init, NoCall
<1>2. pc \in [Callers -> Phases] /\ permits \in [Procs -> Nat]
  BY LimitsAssumption DEF Init, Phases
<1> QED BY <1>1, <1>2, BoundsAssumption DEF Init, Shape

\* Every step of a call preserves the types.
LEMMA ShapeCall ==
    ASSUME Shape, VersionsAgree, NEW c \in Callers, Step(c)
    PROVE  Shape'
<1> USE HomeType, FaultType DEF Phases
<1>1. CASE ResolveVersion(c)
  <2> DEFINE known == IF c \in Batches THEN installed[Home[c]] ELSE memo[Home[c]]
  <2>1. known \in Versions \cup {Unknown, None}
    BY DEF Shape
  <2>2. key' = [key EXCEPT ![c][2] = known]
    BY <1>1 DEF ResolveVersion
  <2>3. pc' \in [Callers -> Phases]
    BY <1>1, ToType DEF ResolveVersion
  <2> HIDE DEF known
  <2>4. key' \in [Callers -> (Positions \cup {None})
                               \X (Versions \cup {Unknown, None})]
    BY <2>1, <2>2, KeyUpdate
  <2> QED BY <1>1, <2>3, <2>4 DEF ResolveVersion, Shape
<1>2. CASE Probe(c)
  <2>1. PICK v \in Versions \cup {Unknown} :
            key' = [key EXCEPT ![c][2] = v] /\ faults' \in 0..MaxFaults
    BY <1>2 DEF Probe, Shape
  <2>2. key' \in [Callers -> (Positions \cup {None})
                               \X (Versions \cup {Unknown, None})]
        /\ key'[c] = <<key[c][1], v>>
    BY <2>1, KeyUpdate
  <2>3. memo' \in [Procs -> Versions \cup {Unknown, None}]
    BY <1>2, <2>2 DEF Probe, Shape
  <2> QED BY <1>2, <2>1, <2>2, <2>3, ToType DEF Probe, Shape
<1>3. CASE LookUp(c)
  <2>1. result' \in [Callers -> Versions \cup {None}]
    <3>1. CASE UNCHANGED result
      BY <3>1 DEF Shape
    <3>2. CASE pc[c] = "lookup" /\ result' = [result EXCEPT ![c] = cache[key[c]]]
      <4>1. key[c] \in Positions \X (Versions \cup {Unknown})
        BY <3>2, HomeAssumption DEF VersionsAgree, Keyed, Shape
      <4> QED BY <3>2, <4>1 DEF Shape, Key
    <3> QED BY <1>3, <3>1, <3>2 DEF LookUp
  <2>2. faults' \in 0..MaxFaults
    BY <1>3, BoundsAssumption DEF LookUp, Shape
  <2> QED BY <1>3, <2>1, <2>2, ToType DEF LookUp, Shape
<1>4. CASE Acquire(c)
  <2>1. pc' \in [Callers -> Phases]
    BY <1>4, ToType DEF Acquire
  <2>2. permits' \in [Procs -> Nat]
    BY <1>4 DEF Acquire, Shape
  <2> QED BY <1>4, <2>1, <2>2 DEF Acquire, Shape
<1>5. CASE CreateEngine(c)
  BY <1>5, ToType DEF CreateEngine, Shape
<1>6. CASE Submit(c) \/ StartQueued(c)
  BY <1>6, ToType DEF Submit, StartQueued, Shape
<1>7. CASE Evaluate(c)
  BY <1>7, ToType DEF Evaluate, Shape
<1>8. CASE EvalTimeout(c)
  BY <1>8, ToType DEF EvalTimeout, Shape
<1>9. CASE Release(c)
  BY <1>9, ToType DEF Release, Shape
<1>10. CASE Store(c)
  <2>1. key[c] \in Positions \X (Versions \cup {Unknown})
    BY <1>10, HomeAssumption DEF Store, VersionsAgree, Keyed, Shape
  <2>2. cache' \in [Key -> Versions \cup {None}]
    BY <1>10, <2>1 DEF Store, Shape, Key
  <2>3. result' \in [Callers -> Versions \cup {None}]
    BY <1>10, <2>1, <2>2 DEF Store, Shape, Key
  <2> QED BY <1>10, <2>2, <2>3, ToType DEF Store, Shape
<1>11. CASE Answer(c)
  BY <1>11, ToType DEF Answer, Shape, NoCall
<1> QED
  BY <1>1, <1>2, <1>3, <1>4, <1>5, <1>6, <1>7, <1>8, <1>9, <1>10, <1>11 DEF Step

LEMMA ShapeStep ==
    ASSUME Shape, VersionsAgree, [Next]_vars
    PROVE  Shape'
<1> USE HomeType DEF Phases
<1>1. ASSUME NEW c \in Callers, NEW f \in Positions,
             Receive(c, f) \/ NextPosition(c, f)
      PROVE  Shape'
  <2>1. key' \in [Callers -> (Positions \cup {None})
                               \X (Versions \cup {Unknown, None})]
    BY <1>1 DEF Receive, NextPosition, Shape
  <2>2. inflight' \in [Procs -> Int] /\ calls' \in 0..MaxCalls
    BY <1>1, BoundsAssumption DEF Receive, NextPosition, Shape
  <2>3. pc' \in [Callers -> Phases]
    BY <1>1, ToType DEF Receive, NextPosition
  <2> QED BY <1>1, <2>1, <2>2, <2>3 DEF Receive, NextPosition, Shape
<1>2. ASSUME NEW c \in Callers, Abandon(c) PROVE Shape'
  BY <1>2, FaultType DEF Abandon, Shape
<1>3. ASSUME NEW p \in Procs, Unwind(p) PROVE Shape'
  BY <1>3 DEF Unwind, Shape
<1>4. ASSUME NEW p \in Procs, NEW v \in Versions, Deploy(p, v) PROVE Shape'
  <2>1. key' \in [Callers -> (Positions \cup {None})
                               \X (Versions \cup {Unknown, None})]
    BY <1>4 DEF Deploy, Shape, NoCall
  <2>2. deploys' \in 0..MaxDeploys
    BY <1>4, BoundsAssumption DEF Deploy, Shape
  <2>3. /\ pc' \in [Callers -> Phases]
        /\ result' \in [Callers -> Versions \cup {None}]
        /\ engine' \in [Callers -> {"none", "live", "dead"}]
        /\ attended' \in [Callers -> BOOLEAN]
    BY <1>4 DEF Deploy, Shape
  <2>4. /\ installed' \in [Procs -> Versions]
        /\ memo' \in [Procs -> Versions \cup {Unknown, None}]
        /\ inflight' \in [Procs -> Int]
        /\ permits' \in [Procs -> Nat] /\ lingering' \in [Procs -> Nat]
    BY <1>4, LimitsAssumption DEF Deploy, Shape
  <2> QED BY <1>4, <2>1, <2>2, <2>3, <2>4 DEF Deploy, Shape
<1>5. CASE UNCHANGED vars
  BY <1>5 DEF vars, Shape
<1> QED BY <1>1, <1>2, <1>3, <1>4, <1>5, ShapeCall DEF Next

-----------------------------------------------------------------------------
(* Permits, places in flight and threads *)

\* Two sets of callers that agree but for one caller.
LEMMA DifferInOne ==
    ASSUME NEW S \in SUBSET Callers, NEW T \in SUBSET Callers, NEW c \in Callers,
           \A d \in Callers \ {c} : d \in S <=> d \in T
    PROVE  /\ Cardinality(S) \in Nat /\ Cardinality(T) \in Nat
           /\ (c \in S <=> c \in T) => Cardinality(T) = Cardinality(S)
           /\ c \in S /\ c \notin T => Cardinality(T) = Cardinality(S) - 1
           /\ c \notin S /\ c \in T => Cardinality(T) = Cardinality(S) + 1
<1>1. IsFiniteSet(S) /\ IsFiniteSet(T)
  BY CallersAssumption, FS_Subset
<1>2. Cardinality(S) \in Nat /\ Cardinality(T) \in Nat
  BY <1>1, FS_CardinalityType
<1>3. (c \in S <=> c \in T) => S = T
  OBVIOUS
<1>4. ASSUME c \in S, c \notin T PROVE Cardinality(T) = Cardinality(S) - 1
  <2>1. T = S \ {c}
    BY <1>4
  <2> QED BY <2>1, <1>1, <1>4, FS_RemoveElement
<1>5. ASSUME c \notin S, c \in T PROVE Cardinality(T) = Cardinality(S) + 1
  <2>1. T = S \cup {c}
    BY <1>5
  <2> QED BY <2>1, <1>1, <1>5, FS_AddElement
<1> QED BY <1>2, <1>3, <1>4, <1>5

\* A step that moves one caller moves it into, out of or within each set of
\* phases, at its home.
LEMMA OneMoves ==
    ASSUME Shape, Shape', NEW c \in Callers,
           \A d \in Callers \ {c} : pc'[d] = pc[d],
           NEW p \in Procs, NEW S
    PROVE  /\ Cardinality(Of(p, S)) \in Nat /\ Cardinality(Of(p, S))' \in Nat
           /\ Home[c] # p \/ (pc[c] \in S <=> pc'[c] \in S) =>
                Cardinality(Of(p, S))' = Cardinality(Of(p, S))
           /\ Home[c] = p /\ pc[c] \in S /\ pc'[c] \notin S =>
                Cardinality(Of(p, S))' = Cardinality(Of(p, S)) - 1
           /\ Home[c] = p /\ pc[c] \notin S /\ pc'[c] \in S =>
                Cardinality(Of(p, S))' = Cardinality(Of(p, S)) + 1
<1> DEFINE T == {d \in Callers : Home[d] = p /\ pc'[d] \in S}
<1>1. Of(p, S)' = T
  BY DEF Of
<1>2. /\ Of(p, S) \subseteq Callers /\ T \subseteq Callers
      /\ \A d \in Callers \ {c} : d \in Of(p, S) <=> d \in T
      /\ c \in Of(p, S) <=> Home[c] = p /\ pc[c] \in S
      /\ c \in T <=> Home[c] = p /\ pc'[c] \in S
  BY DEF Of
<1> HIDE DEF T
<1> QED BY <1>1, <1>2, DifferInOne

\* The same of the requests that are counted as in flight.
LEMMA OneCounted ==
    ASSUME Shape, Shape', NEW c \in Callers,
           \A d \in Callers \ {c} : pc'[d] = pc[d] /\ attended'[d] = attended[d],
           NEW p \in Procs
    PROVE  /\ Cardinality(Counted(p)) \in Nat /\ Cardinality(Counted(p))' \in Nat
           /\ (c \in Counted(p) <=> c \in Counted(p)') =>
                Cardinality(Counted(p))' = Cardinality(Counted(p))
           /\ c \in Counted(p) /\ c \notin Counted(p)' =>
                Cardinality(Counted(p))' = Cardinality(Counted(p)) - 1
           /\ c \notin Counted(p) /\ c \in Counted(p)' =>
                Cardinality(Counted(p))' = Cardinality(Counted(p)) + 1
<1> DEFINE T == {d \in Requests : Home[d] = p /\ pc'[d] # "idle" /\ attended'[d]}
<1>1. Counted(p)' = T
  BY DEF Counted
<1>2. /\ Counted(p) \subseteq Callers /\ T \subseteq Callers
      /\ \A d \in Callers \ {c} : d \in Counted(p) <=> d \in T
  BY DEF Counted, Callers
<1> HIDE DEF T
<1> QED BY <1>1, <1>2, DifferInOne

\* Nobody, once a process restarts.
LEMMA NobodyLeft ==
    ASSUME Shape, NEW p \in Procs, NEW v \in Versions, Deploy(p, v)
    PROVE  /\ \A S : "idle" \notin S => Cardinality(Of(p, S))' = 0
           /\ Cardinality(Counted(p))' = 0
           /\ \A q \in Procs \ {p} :
                /\ \A S : Of(q, S)' = Of(q, S)
                /\ Counted(q)' = Counted(q)
<1>1. \A d \in Callers :
        /\ pc'[d] = IF Home[d] = p THEN "idle" ELSE pc[d]
        /\ attended'[d] = IF Home[d] = p THEN TRUE ELSE attended[d]
  BY DEF Deploy
<1>2. ASSUME NEW S, "idle" \notin S PROVE Cardinality(Of(p, S))' = 0
  <2>1. Of(p, S)' = {}
    BY <1>1, <1>2 DEF Of
  <2> QED BY <2>1, FS_EmptySet
<1>3. Cardinality(Counted(p))' = 0
  <2>1. Counted(p)' = {}
    BY <1>1 DEF Counted, Callers
  <2> QED BY <2>1, FS_EmptySet
<1>4. ASSUME NEW q \in Procs \ {p}, NEW S PROVE Of(q, S)' = Of(q, S)
  BY <1>1 DEF Of
<1>5. ASSUME NEW q \in Procs \ {p} PROVE Counted(q)' = Counted(q)
  BY <1>1 DEF Counted, Callers
<1> QED BY <1>2, <1>3, <1>4, <1>5

LEMMA ToValue ==
    ASSUME Shape, NEW c \in Callers, NEW phase, To(c, phase)
    PROVE  pc'[c] = phase /\ \A d \in Callers \ {c} : pc'[d] = pc[d]
BY DEF Shape, To

\* Every step keeps permits what the calls hold.
LEMMA PermitsStep ==
    ASSUME Shape, Shape', [Next]_vars, NEW p \in Procs,
           permits[p] + Cardinality(Of(p, Holding)) = Permits
    PROVE  permits'[p] + Cardinality(Of(p, Holding))' = Permits
<1> USE HomeType DEF Holding
<1>1. ASSUME NEW c \in Callers, \A d \in Callers \ {c} : pc'[d] = pc[d],
             UNCHANGED permits, pc[c] \in Holding <=> pc'[c] \in Holding
      PROVE  permits'[p] + Cardinality(Of(p, Holding))' = Permits
  BY <1>1, OneMoves
<1>2. ASSUME NEW c \in Callers, NEW f \in Positions,
             Receive(c, f) \/ NextPosition(c, f)
      PROVE  permits'[p] + Cardinality(Of(p, Holding))' = Permits
  BY <1>1, <1>2, ToValue DEF Receive, NextPosition
<1>3. ASSUME NEW c \in Callers, Step(c)
      PROVE  permits'[p] + Cardinality(Of(p, Holding))' = Permits
  <2>1. CASE ResolveVersion(c) \/ Probe(c) \/ LookUp(c) \/ Store(c) \/ Answer(c)
    BY <1>1, <2>1, ToValue DEF ResolveVersion, Probe, LookUp, Store, Answer
  <2>2. CASE CreateEngine(c) \/ Submit(c) \/ StartQueued(c) \/ Evaluate(c)
             \/ EvalTimeout(c)
    BY <1>1, <2>2, ToValue DEF CreateEngine, Submit, StartQueued, Evaluate,
      EvalTimeout
  <2>3. CASE Acquire(c)
    <3>1. pc[c] \notin Holding /\ \A d \in Callers \ {c} : pc'[d] = pc[d]
      BY <2>3, ToValue DEF Acquire
    <3>2. CASE permits' = [permits EXCEPT ![Home[c]] = @ - 1] /\ pc'[c] \in Holding
      <4>1. permits'[p] = IF Home[c] = p THEN permits[p] - 1 ELSE permits[p]
        BY <3>2 DEF Shape
      <4>2. permits[p] \in Nat
        BY DEF Shape
      <4> HIDE DEF Holding
      <4> QED BY <3>1, <3>2, <4>1, <4>2, OneMoves
    <3>3. CASE UNCHANGED permits /\ pc'[c] \notin Holding
      BY <1>1, <3>1, <3>3
    <3> QED BY <2>3, <3>2, <3>3, ToValue DEF Acquire
  <2>4. CASE Release(c)
    <3>1. /\ pc[c] \in Holding /\ pc'[c] \notin Holding
          /\ \A d \in Callers \ {c} : pc'[d] = pc[d]
      BY <2>4, ToValue DEF Release
    <3>2. permits'[p] = IF Home[c] = p THEN permits[p] + 1 ELSE permits[p]
      BY <2>4 DEF Release, Shape
    <3>3. permits[p] \in Nat
      BY DEF Shape
    <3> HIDE DEF Holding
    <3> QED BY <3>1, <3>2, <3>3, OneMoves
  <2> QED BY <1>3, <2>1, <2>2, <2>3, <2>4 DEF Step
<1>4. ASSUME NEW c \in Callers, Abandon(c)
      PROVE  permits'[p] + Cardinality(Of(p, Holding))' = Permits
  BY <1>1, <1>4 DEF Abandon
<1>5. ASSUME NEW q \in Procs, Unwind(q) \/ UNCHANGED vars
      PROVE  permits'[p] + Cardinality(Of(p, Holding))' = Permits
  BY <1>5 DEF Unwind, vars, Of
<1>6. ASSUME NEW q \in Procs, NEW v \in Versions, Deploy(q, v)
      PROVE  permits'[p] + Cardinality(Of(p, Holding))' = Permits
  <2>1. permits'[p] = IF q = p THEN Permits ELSE permits[p]
    BY <1>6 DEF Deploy, Shape
  <2>2. Cardinality(Of(p, Holding))' = IF q = p THEN 0 ELSE Cardinality(Of(p, Holding))
    BY <1>6, NobodyLeft
  <2> QED BY <2>1, <2>2, LimitsAssumption
<1> QED
  BY <1>2, <1>3, <1>4, <1>5, <1>6 DEF Next, vars, Of

\* Every step keeps inflight what the coroutines count.
LEMMA InflightStep ==
    ASSUME Shape, Shape', IdleIsAttended, [Next]_vars, NEW p \in Procs,
           inflight[p] = Cardinality(Counted(p)), inflight[p] <= MaxInflight
    PROVE  /\ inflight'[p] = Cardinality(Counted(p))'
           /\ inflight'[p] <= MaxInflight
<1> USE HomeType, LimitsAssumption
<1> DEFINE Goal == /\ inflight'[p] = Cardinality(Counted(p))'
                   /\ inflight'[p] <= MaxInflight
<1>1. ASSUME NEW c \in Callers,
             \A d \in Callers \ {c} : pc'[d] = pc[d] /\ attended'[d] = attended[d],
             UNCHANGED inflight, c \in Counted(p) <=> c \in Counted(p)'
      PROVE  Goal
  BY <1>1, OneCounted
<1>2. ASSUME NEW c \in Callers, Step(c), ~Answer(c) PROVE Goal
  <2>1. /\ \A d \in Callers \ {c} : pc'[d] = pc[d]
        /\ pc[c] # "idle" /\ pc'[c] # "idle" /\ UNCHANGED <<inflight, attended>>
    BY <1>2, ToValue DEF Step, ResolveVersion, Probe, LookUp, Acquire,
      CreateEngine, Submit, StartQueued, Evaluate, EvalTimeout, Release, Store
  <2> QED BY <1>1, <2>1 DEF Counted
<1>3. ASSUME NEW c \in Callers, Answer(c) PROVE Goal
  <2>1. /\ pc[c] # "idle" /\ pc'[c] = "idle"
        /\ \A d \in Callers \ {c} : pc'[d] = pc[d] /\ attended'[d] = attended[d]
    BY <1>3, ToValue DEF Answer, Shape
  <2>2. inflight'[p] = IF c \in Requests /\ attended[c] /\ Home[c] = p
                         THEN inflight[p] - 1 ELSE inflight[p]
    BY <1>3 DEF Answer, Shape
  <2>3. /\ c \notin Counted(p)'
        /\ c \in Counted(p) <=> c \in Requests /\ attended[c] /\ Home[c] = p
    BY <2>1 DEF Counted
  <2> QED BY <2>1, <2>2, <2>3, OneCounted
<1>4. ASSUME NEW c \in Callers, NEW f \in Positions, Receive(c, f) PROVE Goal
  <2>1. /\ c \in Requests /\ pc[c] = "idle" /\ pc'[c] # "idle"
        /\ \A d \in Callers \ {c} : pc'[d] = pc[d] /\ attended'[d] = attended[d]
        /\ attended'[c] = attended[c] /\ inflight[Home[c]] < MaxInflight
    BY <1>4, ToValue DEF Receive
  <2>2. inflight'[p] = IF Home[c] = p THEN inflight[p] + 1 ELSE inflight[p]
    BY <1>4 DEF Receive, Shape
  <2>3. /\ c \notin Counted(p)
        /\ c \in Counted(p)' <=> Home[c] = p
    BY <2>1 DEF Counted, IdleIsAttended
  <2> QED BY <2>1, <2>2, <2>3, OneCounted
<1>5. ASSUME NEW c \in Callers, NEW f \in Positions, NextPosition(c, f) PROVE Goal
  <2>1. /\ c \notin Requests /\ UNCHANGED <<inflight, attended>>
        /\ \A d \in Callers \ {c} : pc'[d] = pc[d]
    BY <1>5, CallersAssumption, ToValue DEF NextPosition
  <2> QED BY <1>1, <2>1 DEF Counted
<1>6. ASSUME NEW c \in Callers, Abandon(c) PROVE Goal
  <2>1. /\ c \in Requests /\ pc[c] # "idle" /\ attended[c] /\ ~attended'[c]
        /\ \A d \in Callers \ {c} : pc'[d] = pc[d] /\ attended'[d] = attended[d]
    BY <1>6 DEF Abandon, Shape
  <2>2. inflight'[p] = IF Home[c] = p THEN inflight[p] - 1 ELSE inflight[p]
    BY <1>6 DEF Abandon, Shape
  <2>3. c \notin Counted(p)' /\ (c \in Counted(p) <=> Home[c] = p)
    BY <2>1 DEF Counted
  <2> QED BY <2>1, <2>2, <2>3, OneCounted
<1>7. ASSUME NEW q \in Procs, Unwind(q) \/ UNCHANGED vars PROVE Goal
  BY <1>7 DEF Unwind, vars, Counted
<1>8. ASSUME NEW q \in Procs, NEW v \in Versions, Deploy(q, v) PROVE Goal
  <2>1. inflight'[p] = IF q = p THEN 0 ELSE inflight[p]
    BY <1>8 DEF Deploy, Shape
  <2>2. Cardinality(Counted(p))' = IF q = p THEN 0 ELSE Cardinality(Counted(p))
    BY <1>8, NobodyLeft
  <2> QED BY <2>1, <2>2
<1> QED
  BY <1>2, <1>3, <1>4, <1>5, <1>6, <1>7, <1>8 DEF Next

\* Every step keeps the threads within the pool.
LEMMA ThreadsStep ==
    ASSUME Shape, Shape', [Next]_vars, NEW p \in Procs,
           Cardinality(Of(p, {"running"})) + lingering[p] <= PoolSize
    PROVE  Cardinality(Of(p, {"running"}))' + lingering'[p] <= PoolSize
<1> USE HomeType, LimitsAssumption
<1> DEFINE Goal == Cardinality(Of(p, {"running"}))' + lingering'[p] <= PoolSize
<1>1. ASSUME NEW c \in Callers, \A d \in Callers \ {c} : pc'[d] = pc[d],
             UNCHANGED lingering,
             pc'[c] = "running" => pc[c] = "running" \/ FreeThread(Home[c])
      PROVE  Goal
  <2>1. lingering[p] \in Nat
    BY DEF Shape
  <2> QED BY <1>1, <2>1, OneMoves DEF FreeThread
<1>2. ASSUME NEW c \in Callers, Step(c), ~EvalTimeout(c) PROVE Goal
  <2>1. /\ \A d \in Callers \ {c} : pc'[d] = pc[d]
        /\ UNCHANGED lingering
        /\ pc'[c] = "running" => FreeThread(Home[c])
    BY <1>2, ToValue DEF Step, ResolveVersion, Probe, LookUp, Acquire,
      CreateEngine, Submit, StartQueued, Evaluate, Release, Store, Answer
  <2> QED BY <1>1, <2>1
<1>3. ASSUME NEW c \in Callers, EvalTimeout(c) PROVE Goal
  <2>1. \A d \in Callers \ {c} : pc'[d] = pc[d]
    BY <1>3, ToValue DEF EvalTimeout
  <2>2. pc'[c] = "release" /\ pc'[c] # "running"
    BY <1>3, ToValue DEF EvalTimeout
  <2>3. CASE UNCHANGED lingering
    BY <1>1, <2>1, <2>2, <2>3
  <2>4. CASE /\ pc[c] = "running"
             /\ lingering' = [lingering EXCEPT ![Home[c]] = @ + 1]
    <3>1. lingering'[p] = IF Home[c] = p THEN lingering[p] + 1 ELSE lingering[p]
      BY <2>4 DEF Shape
    <3>2. lingering[p] \in Nat
      BY DEF Shape
    <3> QED BY <2>1, <2>2, <2>4, <3>1, <3>2, OneMoves
  <2> QED BY <1>3, <2>3, <2>4 DEF EvalTimeout
<1>4. ASSUME NEW c \in Callers, NEW f \in Positions,
             Receive(c, f) \/ NextPosition(c, f)
      PROVE  Goal
  <2>1. /\ \A d \in Callers \ {c} : pc'[d] = pc[d]
        /\ UNCHANGED lingering /\ pc'[c] = "version"
    BY <1>4, ToValue DEF Receive, NextPosition
  <2> QED BY <1>1, <2>1
<1>5. ASSUME NEW c \in Callers, Abandon(c) PROVE Goal
  BY <1>1, <1>5 DEF Abandon
<1>6. ASSUME NEW q \in Procs, Unwind(q) PROVE Goal
  <2>1. lingering[p] \in Nat /\ lingering'[p] \in {lingering[p], lingering[p] - 1}
    BY <1>6 DEF Unwind, Shape
  <2>2. Of(p, {"running"})' = Of(p, {"running"})
    BY <1>6 DEF Unwind, Of
  <2>3. Cardinality(Of(p, {"running"})) \in Nat
    BY CallersAssumption, FS_Subset, FS_CardinalityType DEF Of
  <2> QED BY <2>1, <2>2, <2>3
<1>7. ASSUME NEW q \in Procs, NEW v \in Versions, Deploy(q, v) PROVE Goal
  <2>1. lingering'[p] = IF q = p THEN 0 ELSE lingering[p]
    BY <1>7 DEF Deploy, Shape
  <2>2. Cardinality(Of(p, {"running"}))'
          = IF q = p THEN 0 ELSE Cardinality(Of(p, {"running"}))
    BY <1>7, NobodyLeft
  <2> QED BY <2>1, <2>2
<1>8. CASE UNCHANGED vars
  BY <1>8 DEF vars, Of
<1> QED
  BY <1>2, <1>3, <1>4, <1>5, <1>6, <1>7, <1>8 DEF Next

\* Every step keeps the engines of requests with their permits, and the idle
\* requests attended.
LEMMA EnginesStep ==
    ASSUME Shape, [Next]_vars, EngineIsHeld, IdleIsAttended
    PROVE  EngineIsHeld' /\ IdleIsAttended'
<1> USE DEF EngineIsHeld, IdleIsAttended, Holding
<1>1. ASSUME NEW c \in Callers, Step(c) PROVE EngineIsHeld' /\ IdleIsAttended'
  <2>1. CASE ResolveVersion(c) \/ Probe(c) \/ LookUp(c) \/ Acquire(c)
    BY <2>1, ToValue DEF ResolveVersion, Probe, LookUp, Acquire, Callers
  <2>2. CASE CreateEngine(c)
    BY <2>2, ToValue DEF CreateEngine, Shape, Callers
  <2>3. CASE Submit(c) \/ StartQueued(c) \/ Evaluate(c) \/ Store(c)
    BY <2>3, ToValue DEF Submit, StartQueued, Evaluate, Store, Callers
  <2>4. CASE EvalTimeout(c)
    BY <2>4, ToValue DEF EvalTimeout, Shape, Callers
  <2>5. CASE Release(c)
    BY <2>5, ToValue DEF Release, Shape, Callers
  <2>6. CASE Answer(c)
    BY <2>6, ToValue DEF Answer, Shape, Callers
  <2> QED BY <1>1, <2>1, <2>2, <2>3, <2>4, <2>5, <2>6 DEF Step
<1>2. ASSUME NEW c \in Callers, NEW f \in Positions,
             Receive(c, f) \/ NextPosition(c, f)
      PROVE  EngineIsHeld' /\ IdleIsAttended'
  BY <1>2, ToValue, CallersAssumption DEF Receive, NextPosition, Shape, Callers
<1>3. ASSUME NEW c \in Callers, Abandon(c) PROVE EngineIsHeld' /\ IdleIsAttended'
  BY <1>3 DEF Abandon, Shape
<1>4. ASSUME NEW p \in Procs, NEW v \in Versions, Deploy(p, v)
      PROVE  EngineIsHeld' /\ IdleIsAttended'
  BY <1>4, CallersAssumption DEF Deploy, Callers
<1>5. ASSUME NEW p \in Procs, Unwind(p) \/ UNCHANGED vars
      PROVE  EngineIsHeld' /\ IdleIsAttended'
  BY <1>5 DEF Unwind, vars
<1>6. CASE UNCHANGED vars
  BY <1>6 DEF vars
<1> QED BY <1>1, <1>2, <1>3, <1>4, <1>5, <1>6 DEF Next

-----------------------------------------------------------------------------
(* Versions *)

\* The part of VersionsAgree and KnownVersionsMatch that is about one caller.
CallAgrees(c) ==
    /\ pc[c] # "idle" => key[c][1] \in Positions
    /\ pc[c] \in Keyed => key[c][2] \in {Unknown, installed[Home[c]]}
    /\ pc[c] \notin Resulting => result[c] = None
    /\ result[c] # None /\ key[c][2] # Unknown => result[c] = installed[Home[c]]

\* The table and the memos.
TableAgrees == \A f \in Positions, v \in Versions : cache[<<f, v>>] \in {None, v}

MemosAgree == \A p \in Procs : memo[p] \in {None, Unknown, installed[p]}

LEMMA AgreeParts ==
    VersionsAgree /\ KnownVersionsMatch
      <=> TableAgrees /\ MemosAgree /\ \A c \in Callers : CallAgrees(c)
BY DEF VersionsAgree, KnownVersionsMatch, TableAgrees, MemosAgree, CallAgrees

\* A step of one caller that leaves the installed versions alone disturbs no
\* other call.
LEMMA OthersAgree ==
    ASSUME NEW c \in Callers, UNCHANGED installed,
           \A d \in Callers \ {c} : pc'[d] = pc[d] /\ key'[d] = key[d]
                                      /\ result'[d] = result[d],
           \A d \in Callers : CallAgrees(d), CallAgrees(c)'
    PROVE  (\A d \in Callers : CallAgrees(d))'
<1>1. ASSUME NEW d \in Callers \ {c} PROVE CallAgrees(d)'
  BY DEF CallAgrees
<1> QED BY <1>1

\* Every step of a call keeps the versions in agreement.
LEMMA AgreeCall ==
    ASSUME Shape, Shape', NEW c \in Callers, Step(c), TableAgrees, MemosAgree,
           \A d \in Callers : CallAgrees(d)
    PROVE  TableAgrees' /\ MemosAgree' /\ (\A d \in Callers : CallAgrees(d))'
<1> USE HomeType, VersionsAssumption
<1> DEFINE Goal == TableAgrees' /\ MemosAgree' /\ (\A d \in Callers : CallAgrees(d))'
<1>1. CallAgrees(c)
  OBVIOUS
<1>2. CASE ResolveVersion(c)
  <2> DEFINE known == IF c \in Batches THEN installed[Home[c]] ELSE memo[Home[c]]
  <2>1. known \in {None, Unknown, installed[Home[c]]}
        /\ known \in Versions \cup {Unknown, None}
    BY DEF MemosAgree, Shape
  <2>2. /\ pc[c] = "version" /\ key' = [key EXCEPT ![c][2] = known]
        /\ To(c, IF known = None THEN "probe" ELSE "lookup")
        /\ UNCHANGED <<installed, memo, cache, result>>
    BY <1>2 DEF ResolveVersion
  <2> HIDE DEF known
  <2>3. key'[c] = <<key[c][1], known>> /\ \A d \in Callers \ {c} : key'[d] = key[d]
    BY <2>1, <2>2, KeyUpdate
  <2>4. CallAgrees(c)'
    BY <1>1, <2>1, <2>2, <2>3, ToValue DEF CallAgrees, Keyed, Resulting
  <2>5. (\A d \in Callers : CallAgrees(d))'
    BY <2>2, <2>3, <2>4, ToValue, OthersAgree
  <2> QED BY <2>2, <2>5 DEF TableAgrees, MemosAgree
<1>3. CASE Probe(c)
  <2>1. PICK v \in {Unknown, installed[Home[c]]} : key' = [key EXCEPT ![c][2] = v]
    BY <1>3 DEF Probe
  <2>2. /\ pc[c] = "probe" /\ To(c, "lookup")
        /\ memo' = [memo EXCEPT ![Home[c]] = key'[c][2]]
        /\ UNCHANGED <<installed, cache, result>>
    BY <1>3 DEF Probe
  <2>3. key'[c] = <<key[c][1], v>> /\ \A d \in Callers \ {c} : key'[d] = key[d]
    <3>1. v \in Versions \cup {Unknown, None}
      BY <2>1
    <3> QED BY <2>1, <3>1, KeyUpdate
  <2>4. CallAgrees(c)'
    BY <1>1, <2>1, <2>2, <2>3, ToValue DEF CallAgrees, Keyed, Resulting
  <2>5. (\A d \in Callers : CallAgrees(d))'
    BY <2>2, <2>3, <2>4, ToValue, OthersAgree
  <2>6. MemosAgree'
    BY <2>1, <2>2, <2>3 DEF MemosAgree, Shape
  <2> QED BY <2>2, <2>5, <2>6 DEF TableAgrees
<1>4. CASE LookUp(c)
  <2>1. /\ pc[c] = "lookup" /\ UNCHANGED <<installed, memo, cache, key>>
        /\ \A d \in Callers \ {c} : result'[d] = result[d]
    BY <1>4 DEF LookUp, Shape
  <2>2. key[c][1] \in Positions /\ key[c][2] \in {Unknown, installed[Home[c]]}
    BY <1>1, <2>1 DEF CallAgrees, Keyed, Phases
  <2>3. key[c] = <<key[c][1], key[c][2]>>
    BY DEF Shape
  <2>4. key[c][2] # Unknown => cache[key[c]] \in {None, installed[Home[c]]}
    BY <2>2, <2>3 DEF TableAgrees
  <2>5. CASE result' = [result EXCEPT ![c] = cache[key[c]]] /\ To(c, "answer")
    <3>1. result'[c] = cache[key[c]]
      BY <2>5 DEF Shape
    <3>2. CallAgrees(c)'
      BY <2>1, <2>2, <2>4, <2>5, <3>1, ToValue DEF CallAgrees, Resulting
    <3> QED
      BY <2>1, <2>5, <3>2, ToValue, OthersAgree DEF TableAgrees, MemosAgree
  <2>6. CASE UNCHANGED result /\ To(c, "acquire")
    <3>1. CallAgrees(c)'
      BY <1>1, <2>1, <2>2, <2>6, ToValue DEF CallAgrees, Resulting
    <3> QED
      BY <2>1, <2>6, <3>1, ToValue, OthersAgree DEF TableAgrees, MemosAgree
  <2> QED BY <1>4, <2>5, <2>6 DEF LookUp
<1>5. CASE Acquire(c) \/ CreateEngine(c) \/ Submit(c) \/ StartQueued(c)
             \/ EvalTimeout(c) \/ Release(c)
  <2>1. /\ UNCHANGED <<installed, memo, cache, key, result>>
        /\ \A d \in Callers \ {c} : pc'[d] = pc[d]
        /\ pc[c] \in Keyed /\ pc'[c] \in Phases
        /\ pc[c] \in Resulting => pc'[c] \in Resulting
    BY <1>5, ToValue DEF Acquire, CreateEngine, Submit, StartQueued,
      EvalTimeout, Release, Keyed, Resulting, Phases
  <2>2. CallAgrees(c)'
    BY <1>1, <2>1 DEF CallAgrees, Keyed, Phases
  <2> QED BY <2>1, <2>2, OthersAgree DEF TableAgrees, MemosAgree
<1>6. CASE Evaluate(c)
  <2>1. /\ pc[c] = "running" /\ pc'[c] = "release"
        /\ \A d \in Callers \ {c} : pc'[d] = pc[d] /\ result'[d] = result[d]
        /\ UNCHANGED <<installed, memo, cache, key>>
        /\ result'[c] \in {result[c], installed[Home[c]]}
    BY <1>6, ToValue DEF Evaluate, Shape
  <2>2. CallAgrees(c)'
    BY <1>1, <2>1 DEF CallAgrees, Keyed, Phases, Resulting
  <2> QED BY <2>1, <2>2, OthersAgree DEF TableAgrees, MemosAgree
<1>7. CASE Store(c)
  <2>1. /\ pc[c] = "store" /\ pc'[c] = "answer" /\ UNCHANGED <<installed, memo, key>>
        /\ \A d \in Callers \ {c} : pc'[d] = pc[d] /\ result'[d] = result[d]
    BY <1>7, ToValue DEF Store, Shape
  <2>2. key[c][1] \in Positions /\ key[c][2] \in {Unknown, installed[Home[c]]}
    BY <1>1, <2>1 DEF CallAgrees, Keyed, Phases
  <2>3. key[c] = <<key[c][1], key[c][2]>> /\ key[c] \in Key
    BY <2>2 DEF Shape, Key
  <2>4. CASE UNCHANGED <<cache, result>>
    <3>1. CallAgrees(c)'
      BY <1>1, <2>1, <2>2, <2>4 DEF CallAgrees, Resulting
    <3> QED BY <2>1, <2>4, <3>1, OthersAgree DEF TableAgrees, MemosAgree
  <2>5. CASE /\ cache' = [cache EXCEPT ![key[c]] = IF @ = None THEN result[c]
                                                               ELSE @]
             /\ result' = [result EXCEPT ![c] = cache'[key[c]]]
    <3>1. /\ cache'[key[c]] = IF cache[key[c]] = None THEN result[c]
                                                      ELSE cache[key[c]]
          /\ \A k \in Key \ {key[c]} : cache'[k] = cache[k]
      BY <2>3, <2>5 DEF Shape
    <3>2. key[c][2] # Unknown => cache'[key[c]] \in {None, installed[Home[c]]}
      <4>1. key[c][2] # Unknown => cache[key[c]] \in {None, installed[Home[c]]}
        BY <2>2, <2>3 DEF TableAgrees
      <4>2. key[c][2] # Unknown => result[c] \in {None, installed[Home[c]]}
        BY <1>1 DEF CallAgrees
      <4> QED BY <3>1, <4>1, <4>2
    <3>3. TableAgrees'
      <4> SUFFICES ASSUME NEW f \in Positions, NEW v \in Versions
                   PROVE  cache'[<<f, v>>] \in {None, v}
        BY DEF TableAgrees
      <4>1. <<f, v>> \in Key
        BY DEF Key
      <4>2. CASE <<f, v>> = key[c]
        BY <4>2, <2>2, <2>3, <3>2
      <4>3. CASE <<f, v>> # key[c]
        BY <4>1, <4>3, <3>1 DEF TableAgrees
      <4> QED BY <4>2, <4>3
    <3>4. result'[c] = cache'[key[c]]
      BY <2>5 DEF Shape
    <3>5. CallAgrees(c)'
      BY <2>1, <2>2, <3>2, <3>4 DEF CallAgrees, Resulting
    <3> QED BY <2>1, <3>3, <3>5, OthersAgree DEF MemosAgree
  <2> QED BY <1>7, <2>4, <2>5 DEF Store
<1>8. CASE Answer(c)
  <2>1. /\ pc'[c] = "idle" /\ result'[c] = None
        /\ \A d \in Callers \ {c} : /\ pc'[d] = pc[d] /\ result'[d] = result[d]
                                    /\ key'[d] = key[d]
        /\ UNCHANGED <<installed, memo, cache>>
    BY <1>8, ToValue DEF Answer, Shape
  <2>2. CallAgrees(c)'
    BY <2>1 DEF CallAgrees, Keyed
  <2> QED BY <2>1, <2>2, OthersAgree DEF TableAgrees, MemosAgree
<1> QED BY <1>2, <1>3, <1>4, <1>5, <1>6, <1>7, <1>8 DEF Step

\* Every step keeps the versions in agreement, a deploy as well: it changes what
\* a process runs and forgets what the process knew.
LEMMA AgreeStep ==
    ASSUME Shape, Shape', [Next]_vars, TableAgrees, MemosAgree,
           \A d \in Callers : CallAgrees(d)
    PROVE  TableAgrees' /\ MemosAgree' /\ (\A d \in Callers : CallAgrees(d))'
<1> USE HomeType, VersionsAssumption
<1> DEFINE Goal == TableAgrees' /\ MemosAgree' /\ (\A d \in Callers : CallAgrees(d))'
<1>1. ASSUME NEW c \in Callers, NEW f \in Positions,
             Receive(c, f) \/ NextPosition(c, f)
      PROVE  Goal
  <2>1. /\ pc[c] = "idle" /\ pc'[c] = "version" /\ key'[c] = <<f, None>>
        /\ \A d \in Callers \ {c} : pc'[d] = pc[d] /\ key'[d] = key[d]
        /\ UNCHANGED <<installed, memo, cache, result>>
    BY <1>1, ToValue DEF Receive, NextPosition, Shape
  <2>2. result[c] = None
    BY <2>1 DEF CallAgrees, Resulting
  <2>3. CallAgrees(c)'
    BY <2>1, <2>2 DEF CallAgrees, Keyed
  <2> QED BY <2>1, <2>3, OthersAgree DEF TableAgrees, MemosAgree
<1>2. ASSUME NEW c \in Callers, Abandon(c) PROVE Goal
  BY <1>2 DEF Abandon, TableAgrees, MemosAgree, CallAgrees
<1>3. ASSUME NEW p \in Procs, Unwind(p) PROVE Goal
  BY <1>3 DEF Unwind, TableAgrees, MemosAgree, CallAgrees
<1>4. ASSUME NEW p \in Procs, NEW v \in Versions, Deploy(p, v) PROVE Goal
  <2>1. TableAgrees'
    BY <1>4 DEF Deploy, TableAgrees
  <2>2. \A q \in Procs : /\ installed'[q] = IF q = p THEN v ELSE installed[q]
                         /\ memo'[q] = IF q = p THEN None ELSE memo[q]
    BY <1>4 DEF Deploy, Shape
  <2>3. MemosAgree'
    BY <2>2 DEF MemosAgree
  <2>4. ASSUME NEW d \in Callers PROVE CallAgrees(d)'
    <3>1. CASE Home[d] = p
      <4>1. pc'[d] = "idle" /\ result'[d] = None
        BY <1>4, <3>1 DEF Deploy
      <4> QED BY <4>1 DEF CallAgrees, Keyed
    <3>2. CASE Home[d] # p
      <4>1. /\ pc'[d] = pc[d] /\ key'[d] = key[d] /\ result'[d] = result[d]
            /\ installed'[Home[d]] = installed[Home[d]]
        BY <1>4, <2>2, <3>2 DEF Deploy
      <4> QED BY <4>1 DEF CallAgrees
    <3> QED BY <3>1, <3>2
  <2> QED BY <2>1, <2>3, <2>4
<1>5. CASE UNCHANGED vars
  BY <1>5 DEF vars, TableAgrees, MemosAgree, CallAgrees
<1> QED BY <1>1, <1>2, <1>3, <1>4, <1>5, AgreeCall DEF Next

-----------------------------------------------------------------------------
(* The theorems *)

LEMMA InvInit == Init => IInv
<1> SUFFICES ASSUME Init PROVE IInv
  OBVIOUS
<1>1. Shape
  BY ShapeInit
<1>2. ASSUME NEW p \in Procs
      PROVE  /\ permits[p] = Permits /\ inflight[p] = 0 /\ lingering[p] = 0
             /\ Of(p, Holding) = {} /\ Of(p, {"running"}) = {} /\ Counted(p) = {}
  BY DEF Init, Of, Holding, Counted, Callers
<1>3. Conserved /\ InflightFits /\ ThreadsFit
  BY <1>2, FS_EmptySet, LimitsAssumption DEF Conserved, InflightFits, ThreadsFit
<1>4. EngineIsHeld /\ IdleIsAttended
  BY CallersAssumption DEF Init, EngineIsHeld, IdleIsAttended, Callers
<1>5. VersionsAgree /\ KnownVersionsMatch
  BY DEF Init, VersionsAgree, KnownVersionsMatch, Keyed, Key
<1> QED BY <1>1, <1>3, <1>4, <1>5 DEF IInv

LEMMA InvStep == IInv /\ [Next]_vars => IInv'
<1> SUFFICES ASSUME IInv, [Next]_vars PROVE IInv'
  OBVIOUS
<1>1. Shape'
  BY ShapeStep DEF IInv
<1>2. Conserved'
  BY <1>1, PermitsStep, InflightStep DEF IInv, Conserved, InflightFits
<1>3. InflightFits'
  BY <1>1, InflightStep DEF IInv, Conserved, InflightFits
<1>4. ThreadsFit'
  BY <1>1, ThreadsStep DEF IInv, ThreadsFit
<1>5. EngineIsHeld' /\ IdleIsAttended'
  BY EnginesStep DEF IInv
<1>6. VersionsAgree' /\ KnownVersionsMatch'
  <2>1. TableAgrees /\ MemosAgree /\ \A c \in Callers : CallAgrees(c)
    BY AgreeParts DEF IInv
  <2>2. TableAgrees' /\ MemosAgree' /\ (\A c \in Callers : CallAgrees(c))'
    BY <1>1, <2>1, AgreeStep DEF IInv
  <2> QED BY <2>2, AgreeParts, PTL
<1> QED BY <1>1, <1>2, <1>3, <1>4, <1>5, <1>6 DEF IInv

LEMMA Inductive == Spec => []IInv
BY InvInit, InvStep, PTL DEF Spec

\* The bounds that the types leave open follow from what is conserved.
LEMMA TypesFollow == IInv => TypeOK
<1> SUFFICES ASSUME IInv PROVE TypeOK
  OBVIOUS
<1>1. ASSUME NEW p \in Procs
      PROVE  /\ Cardinality(Of(p, Holding)) \in Nat
             /\ Cardinality(Of(p, {"running"})) \in Nat
             /\ Cardinality(Counted(p)) \in Nat
  <2>1. /\ Of(p, Holding) \subseteq Callers /\ Of(p, {"running"}) \subseteq Callers
        /\ Counted(p) \subseteq Callers
    BY DEF Of, Counted, Callers
  <2> QED BY <2>1, CallersAssumption, FS_Subset, FS_CardinalityType
<1>2. ASSUME NEW p \in Procs
      PROVE  /\ permits[p] \in 0..Permits /\ inflight[p] \in 0..MaxInflight
             /\ lingering[p] \in 0..PoolSize
  BY <1>1, LimitsAssumption DEF IInv, Shape, Conserved, InflightFits, ThreadsFit
<1>3. /\ permits \in [Procs -> 0..Permits] /\ inflight \in [Procs -> 0..MaxInflight]
      /\ lingering \in [Procs -> 0..PoolSize]
  BY <1>2 DEF IInv, Shape
<1> QED BY <1>3 DEF IInv, Shape, TypeOK

\* No more engines of requests than permits, as each holds one.
LEMMA SlotsFollow == IInv => SlotsAreConserved
<1> SUFFICES ASSUME IInv PROVE SlotsAreConserved
  OBVIOUS
<1>1. ASSUME NEW p \in Procs
      PROVE  Cardinality({c \in Requests : Home[c] = p /\ engine[c] # "none"})
               <= Permits
  <2> DEFINE E == {c \in Requests : Home[c] = p /\ engine[c] # "none"}
  <2>1. E \subseteq Of(p, Holding)
    BY DEF IInv, EngineIsHeld, Of, Callers
  <2>2. IsFiniteSet(Of(p, Holding))
    BY CallersAssumption, FS_Subset DEF Of
  <2>3. /\ Cardinality(E) <= Cardinality(Of(p, Holding))
        /\ Cardinality(E) \in Nat /\ Cardinality(Of(p, Holding)) \in Nat
    BY <2>1, <2>2, FS_Subset, FS_CardinalityType
  <2>4. permits[p] \in Nat /\ permits[p] + Cardinality(Of(p, Holding)) = Permits
    BY DEF IInv, Shape, Conserved
  <2> HIDE DEF E
  <2>5. Cardinality(E) <= Permits
    BY <2>3, <2>4, LimitsAssumption
  <2> QED BY <2>5 DEF E
<1> QED BY <1>1 DEF IInv, Conserved, Counted, SlotsAreConserved

\* Every variable of the evaluation service has its type: in particular the
\* counters stay within their limits and never below zero.
THEOREM TypeCorrect == Spec => []TypeOK
BY Inductive, TypesFollow, PTL

\* However calls of get_or_compute_eval end, permits and places in flight are
\* exactly what the calls in progress hold, and engines do not outnumber them.
THEOREM SlotsAreNeverLost == Spec => []SlotsAreConserved
BY Inductive, SlotsFollow, PTL

\* What a caller of get_or_compute_eval gets was computed by the engine version
\* of its own process, wherever that version could be determined.
THEOREM VersionsNeverMix == Spec => []KnownVersionsMatch
BY Inductive, PTL DEF IInv

=============================================================================
