-------------------------- MODULE EnrichmentProofs --------------------------
(***************************************************************************)
(* Theorems about Enrichment, for any users, workers, puzzles, caps and    *)
(* chunks: what may be spent on the model, and that nothing it wrote is    *)
(* stored without the audit row that counts it.                            *)
(*                                                                         *)
(* There is a ledger for each user and one for everybody, which is that of *)
(* NoUser; the bounds on both are proved together.                         *)
(***************************************************************************)
EXTENDS Enrichment, FiniteSetTheorems, WellFoundedInduction, TLAPS

-----------------------------------------------------------------------------
(* The inductive invariant *)

Ledger == Users \union {NoUser}

\* What a count per user says in ledger l.
In(l, f) == IF l = NoUser THEN SumOver(f) ELSE f[l]

\* The phase in which a run makes calls of type t.
PhaseOf(t) == IF t = "diagnosis" THEN "diagnosing" ELSE "naming"

Calling(t, w) == run[w].phase = PhaseOf(t)

\* Worker w's run is one of ledger l.
Covers(l, w) == l = NoUser \/ run[w].user = l

\* Calls of type t in w's open session.
Open(t, w) == IF Calling(t, w) THEN uncommitted[w].calls ELSE 0

OpenIn(t, l) == [w \in Workers |-> IF Covers(l, w) THEN Open(t, w) ELSE 0]

\* All calls of type t that are counted in l or may still be.
Called(t, l) == In(l, billed[t]) + SumOver(OpenIn(t, l))

Cap(t, l) == IF l = NoUser THEN CapGlobal[t] ELSE CapUser[t]
View(w, l) == IF l = NoUser THEN budget[w].global ELSE budget[w].user

\* w's run does not yet think that the calls of l are spent.
MayCall(t, l, w) == Covers(l, w) /\ Calling(t, w) /\ View(w, l) < Cap(t, l)

\* How many runs of l may go on beside the one that looks at what is counted.
Spare(l) == IF l = NoUser THEN Cardinality(Workers) - 1 ELSE strays[l]

\* u's runs that have not left their job yet, whatever became of it.
Live(u) == {w \in Workers : run[w].user = u /\ run[w].phase # "chaining"}

Attended(u) == job[u].phase = "running" /\ Runs(u) # {}

StoreTyped ==
    /\ diagnosis \in [Puzzles -> Diagnosis]
    /\ title \in [Puzzles -> {"position", "ai", "user"}]
    /\ billed \in [CallType -> [Users -> Nat]]
    /\ answered \subseteq Puzzles
    /\ streak \in [Users -> 0..ErrorStreakLimit] /\ fresh \in [Users -> BOOLEAN]

RunTyped ==
    /\ job \in [Users -> Job] /\ run \in [Workers -> Run]
    /\ todo \in [Workers -> SUBSET Puzzles] /\ budget \in [Workers -> Spent]
    /\ steps \in [Workers -> Nat] /\ DOMAIN uncommitted = Workers

HistoryTyped ==
    /\ paid \in [CallType -> [Users -> Nat]] /\ losses \in [CallType -> [Users -> Nat]]
    /\ strays \in [Users -> Nat] /\ left \in [Event -> Nat]

\* A session's record s of a run for user u, whose puzzles are the user's.
SessionTyped(s, u) ==
    /\ DOMAIN s = DOMAIN Clean
    /\ DOMAIN s.diagnosis \subseteq Own(u)
    /\ \A p \in DOMAIN s.diagnosis : s.diagnosis[p] \in Diagnosis
    /\ s.named \subseteq Own(u) /\ s.answered \subseteq Own(u)
    /\ s.calls \in Nat /\ s.failures \in 0..ErrorStreakLimit /\ s.cleared \in BOOLEAN

\* What the model wrote in a session are answers that the session counts.
DiagnosesFit(s) ==
    /\ s.named = {} /\ s.answered = {}
    /\ Cardinality({p \in DOMAIN s.diagnosis : s.diagnosis[p] = "llm"}) <= s.calls

NamesFit(s) ==
    /\ DOMAIN s.diagnosis = {}
    /\ s.named \subseteq s.answered /\ Cardinality(s.answered) <= s.calls

\* A session has no more calls than the puzzles it visited, at most a chunk.
SessionFits(w) ==
    \A t \in CallType : Calling(t, w) =>
        /\ uncommitted[w].calls <= steps[w] /\ steps[w] <= Chunk(t)
        /\ IF t = "diagnosis" THEN DiagnosesFit(uncommitted[w]) ELSE NamesFit(uncommitted[w])

\* A worker without a run has no user; one whose run makes no calls has written
\* nothing; and the row of a run is its job's only until it has settled it.
WorkerFits(w) ==
    /\ run[w].phase = "idle" <=> run[w].user = NoUser
    /\ run[w].phase \in {"idle", "chaining"} => run[w].row # "current"
    /\ SessionTyped(uncommitted[w], run[w].user)
    /\ run[w].phase \in {"selected", "diagnosing", "listed", "naming"} =>
          todo[w] \subseteq Own(run[w].user)
    /\ run[w].phase \notin {"diagnosing", "naming"} => uncommitted[w] = Clean /\ steps[w] = 0
    /\ SessionFits(w)

Shape ==
    /\ StoreTyped /\ RunTyped /\ HistoryTyped
    /\ \A w \in Workers : WorkerFits(w)

\* Only a run whose job was taken from it has another of the same user beside it.
RunsAreFew ==
    \A u \in Users :
        Cardinality(Live(u)) <= strays[u] + (IF Attended(u) THEN 1 ELSE 0)

\* Every answered call is counted, in an open session, or in a lost one.
PaidIsKept ==
    \A t \in CallType, l \in Ledger :
        In(l, paid[t]) <= Called(t, l) + In(l, losses[t]) * Chunk(t)

\* Let v be the last worker whose run found the budget of l open, when base
\* calls were counted, and others the runs that then went on beside it.  All
\* calls since, and those then open, are v's own and at most a chunk for each of
\* the others; v's keep base within the cap; and who may still call is v or one
\* of the others, with no other calls than the open ones.
LastLookBounds(t, l, base, v, others, since) ==
    /\ Called(t, l) <= base + SumOver(since)
    /\ base + since[v] <= Cap(t, l)
    /\ v \notin others /\ Cardinality(others) <= Spare(l)
    /\ \A w \in Workers \ (others \union {v}) : since[w] = 0
    /\ MayCall(t, l, v) => base + since[v] <= View(v, l)
    /\ \A w \in Workers : MayCall(t, l, w) => w \in others \union {v} /\ since[w] = OpenIn(t, l)[w]

CallsAreBounded ==
    \A t \in CallType, l \in Ledger :
        \E base \in 0..Cap(t, l), v \in Workers, others \in SUBSET Workers,
           since \in [Workers -> 0..Chunk(t)] :
            LastLookBounds(t, l, base, v, others, since)

IInv ==
    /\ Shape
    /\ RunsAreFew
    /\ StoredIsAccounted
    /\ PaidIsKept
    /\ CallsAreBounded

-----------------------------------------------------------------------------
(* Sums.  Induction is over sets of numbers and finite sets, so that its    *)
(* lemmas take no operator.                                                *)

LEMMA LeastNumber ==
    ASSUME NEW T \in SUBSET Nat, T # {}
    PROVE  \E n \in T : \A m \in T : n <= m
<1>1. PICK n \in T : \A m \in T : ~(<<m, n>> \in OpToRel(<, Nat))
  BY WFMin, NatLessThanWellFounded
<1>2. \A m \in T : ~(m < n)
  BY <1>1 DEF OpToRel
<1> QED BY <1>2

LEMMA NumberInduction ==
    ASSUME NEW T \in SUBSET Nat, 0 \in T, \A n \in T : n + 1 \in T
    PROVE  T = Nat
<1> SUFFICES ASSUME Nat \ T # {} PROVE FALSE
  OBVIOUS
<1>1. PICK n \in Nat \ T : \A m \in Nat \ T : n <= m
  BY LeastNumber
<1>2. n # 0 /\ n - 1 \in Nat /\ n - 1 \in T
  BY <1>1
<1>3. n - 1 + 1 \in T
  BY <1>2
<1> QED BY <1>1, <1>3

\* The element a fold takes out of a set first.
Pick(s) == CHOOSE x \in s : TRUE

\* A set of subsets of D that has the empty one, and a subset when it has what
\* a fold leaves of it, has all of them.
LEMMA FoldInduction ==
    ASSUME NEW D, IsFiniteSet(D), NEW Good \in SUBSET (SUBSET D),
           {} \in Good,
           \A s \in SUBSET D : s # {} /\ s \ {Pick(s)} \in Good => s \in Good
    PROVE  Good = SUBSET D
<1> DEFINE Upto(n) == \A s \in SUBSET D : Cardinality(s) <= n => s \in Good
           T == {n \in Nat : Upto(n)}
<1>1. \A s \in SUBSET D : IsFiniteSet(s) /\ Cardinality(s) \in Nat
  BY FS_Subset, FS_CardinalityType
<1>2. Upto(0)
  <2>1. \A s \in SUBSET D : Cardinality(s) <= 0 => Cardinality(s) = 0
    BY <1>1
  <2>2. \A s \in SUBSET D : Cardinality(s) = 0 => s = {}
    BY <1>1, FS_EmptySet
  <2> QED BY <2>1, <2>2
<1>3. ASSUME NEW n \in Nat, Upto(n) PROVE Upto(n + 1)
  <2> SUFFICES ASSUME NEW s \in SUBSET D, Cardinality(s) <= n + 1, s # {}
               PROVE  s \in Good
    OBVIOUS
  <2>1. Pick(s) \in s
    BY DEF Pick
  <2>2. Cardinality(s \ {Pick(s)}) = Cardinality(s) - 1
    BY <1>1, <2>1, FS_RemoveElement
  <2>3. s \ {Pick(s)} \in SUBSET D /\ Cardinality(s \ {Pick(s)}) <= n
    BY <1>1, <2>2
  <2> QED BY <1>3, <2>3
<1>4. T = Nat
  <2> HIDE DEF Upto
  <2>1. 0 \in T /\ \A n \in T : n + 1 \in T
    BY <1>2, <1>3
  <2> HIDE DEF T
  <2> QED BY <2>1, NumberInduction DEF T
<1> QED BY <1>1, <1>4

\* g sums f over the subsets of D.
Sums(g, f, D) ==
    g = [s \in SUBSET D |-> IF s = {} THEN 0 ELSE f[Pick(s)] + g[s \ {Pick(s)}]]

LEMMA SumsExist ==
    ASSUME NEW D, IsFiniteSet(D), NEW f
    PROVE  \E g : Sums(g, f, D)
<1> DEFINE Small(n) == {s \in SUBSET D : Cardinality(s) <= n}
           On(g, n) == g = [s \in Small(n) |->
                               IF s = {} THEN 0 ELSE f[Pick(s)] + g[s \ {Pick(s)}]]
           T == {n \in Nat : \E g : On(g, n)}
<1>1. \A s \in SUBSET D : IsFiniteSet(s) /\ Cardinality(s) \in Nat
  BY FS_Subset, FS_CardinalityType
<1>2. 0 \in T
  <2>1. \A s \in Small(0) : s = {}
    BY <1>1, FS_EmptySet
  <2>2. On([s \in Small(0) |-> 0], 0)
    BY <2>1
  <2> QED BY <2>2
<1>3. ASSUME NEW n \in T PROVE n + 1 \in T
  <2>1. PICK g : On(g, n)
    BY <1>3
  <2> DEFINE h == [s \in Small(n + 1) |->
                      IF s = {} THEN 0 ELSE f[Pick(s)] + g[s \ {Pick(s)}]]
  <2>2. ASSUME NEW s \in Small(n + 1), s # {}
        PROVE  s \ {Pick(s)} \in Small(n) /\ s \ {Pick(s)} \in Small(n + 1)
    <3>1. Pick(s) \in s
      BY <2>2 DEF Pick
    <3>2. Cardinality(s \ {Pick(s)}) = Cardinality(s) - 1
      BY <1>1, <3>1, FS_RemoveElement
    <3> QED BY <1>1, <3>2
  <2>3. \A s \in Small(n) : s \in Small(n + 1) /\ h[s] = g[s]
    <3>1. \A s \in Small(n) : s \in Small(n + 1)
      BY <1>1
    <3>2. \A s \in Small(n) :
              g[s] = IF s = {} THEN 0 ELSE f[Pick(s)] + g[s \ {Pick(s)}]
      <4> HIDE DEF Small
      <4> QED BY <2>1
    <3> HIDE DEF Small
    <3> QED BY <3>1, <3>2
  <2>4. On(h, n + 1)
    <3> HIDE DEF Small
    <3>1. \A s \in Small(n + 1) :
              (IF s = {} THEN 0 ELSE f[Pick(s)] + g[s \ {Pick(s)}])
                = (IF s = {} THEN 0 ELSE f[Pick(s)] + h[s \ {Pick(s)}])
      <4> HIDE DEF h
      <4> QED BY <2>2, <2>3
    <3> QED BY <3>1
  <2> HIDE DEF On
  <2> QED BY <2>4
<1>4. Cardinality(D) \in T
  <2>1. Cardinality(D) \in Nat /\ T \in SUBSET Nat
    BY FS_CardinalityType
  <2> HIDE DEF T
  <2> QED BY <1>2, <1>3, <2>1, NumberInduction
<1>5. PICK g : On(g, Cardinality(D))
  BY <1>4
<1>6. Small(Cardinality(D)) = SUBSET D
  BY <1>1, FS_Subset
<1>7. Sums(g, f, D)
  <2> HIDE DEF Small
  <2> QED BY <1>5, <1>6 DEF Sums
<1> QED BY <1>7

\* What the fold of SumOver computes.
LEMMA SumOverSums ==
    ASSUME NEW D, IsFiniteSet(D), NEW f, DOMAIN f = D
    PROVE  \E g : Sums(g, f, D) /\ SumOver(f) = g[D]
<1> DEFINE sums == CHOOSE g : Sums(g, f, D)
<1>1. SumOver(f) = sums[D]
  BY DEF SumOver, MapThenSumSet, MapThenFoldSet, Sums, Pick
<1>2. Sums(sums, f, D)
  <2> HIDE DEF Sums
  <2> QED BY SumsExist
<1> QED BY <1>1, <1>2

\* A sum of numbers is a number.
LEMMA SumType ==
    ASSUME NEW D, IsFiniteSet(D), NEW f \in [D -> Nat]
    PROVE  SumOver(f) \in Nat
<1>1. PICK g : Sums(g, f, D) /\ SumOver(f) = g[D]
  BY SumOverSums
<1> DEFINE Good == {s \in SUBSET D : g[s] \in Nat}
<1>2. \A s \in SUBSET D : g[s] = IF s = {} THEN 0 ELSE f[Pick(s)] + g[s \ {Pick(s)}]
  BY <1>1 DEF Sums
<1>3. \A s \in SUBSET D : s # {} => Pick(s) \in s
  BY DEF Pick
<1>4. {} \in Good
  <2>1. {} \in SUBSET D
    OBVIOUS
  <2>2. g[{}] = 0
    BY <1>2, <2>1
  <2> QED BY <2>1, <2>2
<1>5. ASSUME NEW s \in SUBSET D, s # {}, s \ {Pick(s)} \in Good PROVE s \in Good
  <2>1. g[s] = f[Pick(s)] + g[s \ {Pick(s)}] /\ f[Pick(s)] \in Nat
    BY <1>2, <1>3, <1>5
  <2> QED BY <1>5, <2>1
<1>6. Good = SUBSET D
  <2>1. Good \in SUBSET (SUBSET D)
    OBVIOUS
  <2> HIDE DEF Good
  <2> QED BY <1>4, <1>5, <2>1, FoldInduction
<1> QED BY <1>1, <1>6

\* A sum moves with its only changed term.
LEMMA SumMoves ==
    ASSUME NEW D, IsFiniteSet(D), NEW f \in [D -> Nat], NEW h \in [D -> Nat], NEW u \in D,
           \A v \in D \ {u} : h[v] = f[v]
    PROVE  SumOver(h) = SumOver(f) + h[u] - f[u]
<1>1. PICK g : Sums(g, f, D) /\ SumOver(f) = g[D]
  BY SumOverSums
<1>2. PICK k : Sums(k, h, D) /\ SumOver(h) = k[D]
  BY SumOverSums
<1> DEFINE Good == {s \in SUBSET D :
                       /\ g[s] \in Int
                       /\ k[s] = g[s] + (IF u \in s THEN h[u] - f[u] ELSE 0)}
<1>3. \A s \in SUBSET D : g[s] = IF s = {} THEN 0 ELSE f[Pick(s)] + g[s \ {Pick(s)}]
  BY <1>1 DEF Sums
<1>4. \A s \in SUBSET D : k[s] = IF s = {} THEN 0 ELSE h[Pick(s)] + k[s \ {Pick(s)}]
  BY <1>2 DEF Sums
<1>5. \A s \in SUBSET D : s # {} => Pick(s) \in s
  BY DEF Pick
<1>6. {} \in Good
  <2>1. {} \in SUBSET D /\ u \notin {}
    OBVIOUS
  <2>2. g[{}] = 0 /\ k[{}] = 0
    BY <1>3, <1>4, <2>1
  <2> QED BY <2>1, <2>2
<1>7. ASSUME NEW s \in SUBSET D, s # {}, s \ {Pick(s)} \in Good PROVE s \in Good
  <2> DEFINE x == Pick(s)
             rest == s \ {x}
  <2>1. x \in s /\ x \in D /\ rest \in SUBSET D
    BY <1>5, <1>7
  <2>2. g[s] = f[x] + g[rest] /\ k[s] = h[x] + k[rest]
    BY <1>3, <1>4, <1>7
  <2>3. g[rest] \in Int /\ k[rest] = g[rest] + (IF u \in rest THEN h[u] - f[u] ELSE 0)
    BY <1>7
  <2>4. f[x] \in Nat /\ h[x] \in Nat /\ f[u] \in Nat /\ h[u] \in Nat
    BY <2>1
  <2>5. x # u => h[x] = f[x] /\ (u \in rest <=> u \in s)
    BY <2>1
  <2>6. x = u => u \notin rest /\ u \in s
    BY <2>1
  <2> HIDE DEF x, rest
  <2>7. g[s] \in Int
    BY <2>2, <2>3, <2>4
  <2>8. k[s] = g[s] + (IF u \in s THEN h[u] - f[u] ELSE 0)
    BY <2>2, <2>3, <2>4, <2>5, <2>6
  <2> QED BY <2>7, <2>8
<1>8. Good = SUBSET D
  <2>1. Good \in SUBSET (SUBSET D)
    OBVIOUS
  <2> HIDE DEF Good
  <2> QED BY <1>6, <1>7, <2>1, FoldInduction
<1>9. D \in Good /\ u \in D /\ f[u] \in Nat /\ h[u] \in Nat
  BY <1>8
<1> QED BY <1>1, <1>2, <1>9

\* A sum whose terms are zero but for v and R is at most that of v, and c for
\* each in R, when c bounds every term.
LEMMA SumIsBounded ==
    ASSUME NEW D, IsFiniteSet(D), NEW c \in Nat, NEW f \in [D -> 0..c],
           NEW v \in D, NEW R \in SUBSET (D \ {v}),
           \A x \in D \ (R \union {v}) : f[x] = 0
    PROVE  SumOver(f) <= f[v] + Cardinality(R) * c
<1>1. PICK g : Sums(g, f, D) /\ SumOver(f) = g[D]
  BY SumOverSums
<1> DEFINE Own1(s) == IF v \in s THEN f[v] ELSE 0
           n(s) == Cardinality(s \intersect R)
           Good == {s \in SUBSET D : g[s] \in Int /\ g[s] <= Own1(s) + n(s) * c}
<1>2. \A s \in SUBSET D : g[s] = IF s = {} THEN 0 ELSE f[Pick(s)] + g[s \ {Pick(s)}]
  BY <1>1 DEF Sums
<1>3. \A s \in SUBSET D : s # {} => Pick(s) \in s
  BY DEF Pick
<1>4. \A s \in SUBSET D : IsFiniteSet(s \intersect R) /\ n(s) \in Nat
  BY FS_Subset, FS_CardinalityType
<1>5. {} \in Good
  <2>1. {} \in SUBSET D /\ v \notin {} /\ {} \intersect R = {}
    OBVIOUS
  <2>2. g[{}] = 0
    BY <1>2, <2>1
  <2>3. n({}) = 0
    BY <2>1, FS_EmptySet
  <2> HIDE DEF n
  <2> QED BY <2>1, <2>2, <2>3
<1>6. ASSUME NEW s \in SUBSET D, s # {}, s \ {Pick(s)} \in Good PROVE s \in Good
  <2> DEFINE x == Pick(s)
             rest == s \ {x}
  <2>1. x \in s /\ x \in D /\ rest \in SUBSET D
    BY <1>3, <1>6
  <2>2. g[s] = f[x] + g[rest] /\ g[rest] \in Int /\ g[rest] <= Own1(rest) + n(rest) * c
    BY <1>2, <1>6
  <2>3. f[x] \in Nat /\ f[x] <= c /\ f[v] \in Nat
    BY <2>1
  <2>4. n(s) \in Nat /\ n(rest) \in Nat
    BY <1>4, <2>1
  <2>5. g[s] <= Own1(s) + n(s) * c
    <3>1. CASE x \in R
      <4>1. s \intersect R = (rest \intersect R) \union {x} /\ x \notin rest \intersect R
        BY <2>1, <3>1
      <4>2. n(s) = n(rest) + 1
        BY <1>4, <2>1, <4>1, FS_AddElement
      <4>3. Own1(s) = Own1(rest)
        BY <3>1
      <4>4. n(s) * c = n(rest) * c + c /\ n(rest) * c \in Nat
        <5> HIDE DEF n
        <5> QED BY <2>4, <4>2
      <4>5. Own1(rest) \in Nat
        BY <2>3
      <4> HIDE DEF Own1, n, x, rest
      <4> QED BY <2>2, <2>3, <4>3, <4>4, <4>5
    <3>2. CASE x = v
      <4>1. s \intersect R = rest \intersect R /\ v \notin rest /\ v \in s
        BY <2>1, <3>2
      <4>2. Own1(s) = f[v] /\ Own1(rest) = 0 /\ n(s) = n(rest)
        BY <4>1
      <4>3. n(rest) * c \in Nat
        <5> HIDE DEF n
        <5> QED BY <2>4
      <4> HIDE DEF Own1, n, x, rest
      <4> QED BY <2>2, <2>3, <3>2, <4>2, <4>3
    <3>3. CASE x \notin R \union {v}
      <4>1. s \intersect R = rest \intersect R /\ (v \in rest <=> v \in s) /\ f[x] = 0
        BY <2>1, <3>3
      <4>2. Own1(s) = Own1(rest) /\ n(s) = n(rest)
        BY <4>1
      <4> HIDE DEF Own1, n, x, rest
      <4> QED BY <2>2, <4>1, <4>2
    <3> QED BY <3>1, <3>2, <3>3
  <2> HIDE DEF Own1, n, x, rest
  <2> QED BY <2>2, <2>3, <2>5
<1>7. Good = SUBSET D
  <2>1. Good \in SUBSET (SUBSET D)
    OBVIOUS
  <2> HIDE DEF Good
  <2> QED BY <1>5, <1>6, <2>1, FoldInduction
<1>8. D \in Good /\ D \intersect R = R
  BY <1>7
<1> QED BY <1>1, <1>8

-----------------------------------------------------------------------------
(* The ledgers *)

LEMMA ChunkType == \A t \in CallType : Chunk(t) \in Nat /\ Chunk(t) > 0
BY EnrichmentAssumption DEF Chunk

LEMMA CapType == \A t \in CallType, l \in Ledger : Cap(t, l) \in Nat
BY EnrichmentAssumption DEF Cap, Ledger

\* An open session has at most a chunk of calls.
OpenFits ==
    \A t \in CallType, w \in Workers : Open(t, w) \in 0..Chunk(t)

LEMMA OpenType == Shape => OpenFits
<1> SUFFICES ASSUME Shape, NEW t \in CallType, NEW w \in Workers
             PROVE  Open(t, w) \in 0..Chunk(t)
  BY DEF OpenFits
<1>1. uncommitted[w].calls \in Nat /\ steps[w] \in Nat
  BY DEF Shape, WorkerFits, SessionTyped, RunTyped
<1>2. CASE Calling(t, w)
  <2>1. uncommitted[w].calls <= steps[w] /\ steps[w] <= Chunk(t)
    BY <1>2 DEF Shape, WorkerFits, SessionFits
  <2>2. Open(t, w) = uncommitted[w].calls
    BY <1>2 DEF Open
  <2> QED BY <1>1, <2>1, <2>2, ChunkType
<1>3. CASE ~Calling(t, w)
  BY <1>3, ChunkType DEF Open
<1> QED BY <1>2, <1>3

LEMMA OpenTypeNext == Shape' => OpenFits'
BY OpenType, PTL

LEMMA OpenInType ==
    OpenFits => \A t \in CallType, l \in Ledger : OpenIn(t, l) \in [Workers -> 0..Chunk(t)]
BY ChunkType DEF OpenFits, OpenIn

LEMMA OpenInTypeNext ==
    ASSUME OpenFits', NEW t \in CallType, NEW l \in Ledger
    PROVE  OpenIn(t, l)' \in [Workers -> 0..Chunk(t)]
BY ChunkType DEF OpenFits, OpenIn, Chunk

\* What is counted in a ledger, when there is a count for each user.
LEMMA InType ==
    ASSUME NEW f \in [Users -> Nat], NEW l \in Ledger
    PROVE  In(l, f) \in Nat
<1>1. SumOver(f) \in Nat
  BY SumType, EnrichmentAssumption
<1> QED BY <1>1 DEF In, Ledger

LEMMA InMoves ==
    ASSUME NEW f \in [Users -> Nat], NEW h \in [Users -> Nat], NEW u \in Users,
           \A v \in Users \ {u} : h[v] = f[v], NEW l \in Ledger
    PROVE  In(l, h) = In(l, f) + (IF l \in {NoUser, u} THEN h[u] - f[u] ELSE 0)
<1>1. SumOver(h) = SumOver(f) + h[u] - f[u]
  BY SumMoves, EnrichmentAssumption
<1>2. SumOver(f) \in Nat /\ f[u] \in Nat /\ h[u] \in Nat
  BY SumType, EnrichmentAssumption
<1>3. CASE l = NoUser
  BY <1>1, <1>2, <1>3 DEF In
<1>4. CASE l \in Users \ {u}
  <2>1. l # NoUser /\ h[l] = f[l] /\ f[l] \in Nat
    BY <1>4, EnrichmentAssumption
  <2> QED BY <1>4, <2>1 DEF In
<1>5. CASE l = u
  <2>1. l # NoUser
    BY <1>5, EnrichmentAssumption
  <2> QED BY <1>2, <1>5, <2>1 DEF In
<1> QED BY <1>3, <1>4, <1>5 DEF Ledger

\* What a worker's run has left alone when another one moves.
Stays(x) ==
    /\ run'[x].phase = run[x].phase /\ run'[x].user = run[x].user
    /\ run'[x].row \in {run[x].row, "over", "canceled"}
    /\ uncommitted'[x] = uncommitted[x] /\ todo'[x] = todo[x]
    /\ budget'[x] = budget[x] /\ steps'[x] = steps[x]

OthersStay(w) == \A x \in Workers \ {w} : Stays(x)

BooksStay(u) ==
    \A t \in CallType : \A v \in Users \ {u} :
        /\ billed'[t][v] = billed[t][v]
        /\ paid'[t][v] = paid[t][v]
        /\ losses'[t][v] = losses[t][v]

\* What a step of w does to the calls of type t: either they are counted, open
\* or lost as before, or one is made, or a session with some of them is lost.
PaidMoves(t, w) ==
    LET u == run[w].user IN
    \/ /\ losses'[t][u] = losses[t][u]
       /\ paid'[t][u] - paid[t][u] <= billed'[t][u] + Open(t, w)' - billed[t][u] - Open(t, w)
    \/ /\ losses'[t][u] = losses[t][u] + 1
       /\ paid'[t][u] = paid[t][u] /\ billed'[t][u] = billed[t][u] /\ Open(t, w)' = 0

\* What it does to the bound: there are no more calls than before, and if w may
\* still make one, it has seen no more room; or it makes one, both budgets
\* being open; or it looks at what is counted by now.
CallsMove(t, w) ==
    LET u == run[w].user IN
    \/ /\ billed'[t][u] + Open(t, w)' <= billed[t][u] + Open(t, w)
       /\ Calling(t, w)' => /\ Calling(t, w) /\ Open(t, w)' = Open(t, w)
                            /\ budget[w].user <= budget'[w].user
                            /\ budget[w].global <= budget'[w].global
    \/ /\ Calling(t, w) /\ ~Exhausted(w, t)
       /\ billed'[t][u] = billed[t][u] /\ Open(t, w)' = Open(t, w) + 1
       /\ budget'[w].user = budget[w].user + 1 /\ budget'[w].global = budget[w].global + 1
    \/ /\ billed'[t] = billed[t] /\ Open(t, w) = 0 /\ Open(t, w)' = 0
       /\ budget'[w].user = billed[t][u] /\ budget'[w].global = SumOver(billed[t])

\* A step of a run.
WorkStep(w) ==
    /\ run[w].user \in Users /\ run'[w].user \in {run[w].user, NoUser}
    /\ OthersStay(w) /\ BooksStay(run[w].user) /\ strays' = strays
    /\ \A t \in CallType : PaidMoves(t, w) /\ CallsMove(t, w)

\* A step that touches no session, and that changes no run that makes calls.
RestStep ==
    /\ \A x \in Workers :
          {run[x].phase, run'[x].phase} \intersect {"diagnosing", "naming"} # {} =>
              run'[x].phase = run[x].phase /\ run'[x].user = run[x].user
    /\ UNCHANGED <<billed, paid, losses, uncommitted, budget>>
    /\ \A u \in Users : strays[u] <= strays'[u]

\* The numbers of a ledger that w's run is in, before and after its step.
LEMMA LedgerMoves ==
    ASSUME IInv, Shape', NEW w \in Workers, WorkStep(w), NEW t \in CallType,
           NEW l \in Ledger, l \in {NoUser, run[w].user}
    PROVE  LET u == run[w].user IN
           /\ In(l, billed'[t]) = In(l, billed[t]) + billed'[t][u] - billed[t][u]
           /\ In(l, paid'[t]) = In(l, paid[t]) + paid'[t][u] - paid[t][u]
           /\ In(l, losses'[t]) = In(l, losses[t]) + losses'[t][u] - losses[t][u]
           /\ Called(t, l)' = Called(t, l) + (billed'[t][u] + Open(t, w)' - billed[t][u] - Open(t, w))
           /\ OpenIn(t, l)[w] = Open(t, w) /\ OpenIn(t, l)'[w] = Open(t, w)'
           /\ \A x \in Workers \ {w} : OpenIn(t, l)'[x] = OpenIn(t, l)[x]
           /\ {In(l, billed[t]), In(l, paid[t]), In(l, losses[t]), SumOver(OpenIn(t, l)),
               billed[t][u], billed'[t][u], paid[t][u], paid'[t][u], losses[t][u], losses'[t][u]}
                \subseteq Nat
           /\ Open(t, w) \in 0..Chunk(t) /\ Open(t, w)' \in 0..Chunk(t)
           /\ In(l, billed'[t]) \in Nat
<1> DEFINE u == run[w].user
<1>1. /\ billed[t] \in [Users -> Nat] /\ billed'[t] \in [Users -> Nat]
      /\ paid[t] \in [Users -> Nat] /\ paid'[t] \in [Users -> Nat]
      /\ losses[t] \in [Users -> Nat] /\ losses'[t] \in [Users -> Nat]
  BY DEF IInv, Shape, StoreTyped, HistoryTyped
<1>2. u \in Users /\ u # NoUser
  BY EnrichmentAssumption DEF WorkStep
<1>3. /\ In(l, billed'[t]) = In(l, billed[t]) + (billed'[t][u] - billed[t][u])
      /\ In(l, paid'[t]) = In(l, paid[t]) + (paid'[t][u] - paid[t][u])
      /\ In(l, losses'[t]) = In(l, losses[t]) + (losses'[t][u] - losses[t][u])
  <2>1. \A v \in Users \ {u} : /\ billed'[t][v] = billed[t][v] /\ paid'[t][v] = paid[t][v]
                               /\ losses'[t][v] = losses[t][v]
    BY DEF WorkStep, BooksStay
  <2>2. \A f, h \in [Users -> Nat] : (\A v \in Users \ {u} : h[v] = f[v]) =>
            In(l, h) = In(l, f) + (h[u] - f[u])
    BY <1>2, InMoves
  <2> QED BY <1>1, <2>1, <2>2
<1>4. /\ In(l, billed[t]) \in Nat /\ In(l, paid[t]) \in Nat /\ In(l, losses[t]) \in Nat
      /\ In(l, billed'[t]) \in Nat
      /\ billed[t][u] \in Nat /\ billed'[t][u] \in Nat /\ paid[t][u] \in Nat
      /\ paid'[t][u] \in Nat /\ losses[t][u] \in Nat /\ losses'[t][u] \in Nat
  BY <1>1, <1>2, InType
<1>5. OpenFits /\ OpenFits'
  BY OpenType, OpenTypeNext DEF IInv
<1>6. Open(t, w) \in 0..Chunk(t) /\ Open(t, w)' \in 0..Chunk(t)
  BY <1>5 DEF OpenFits, Chunk
<1>7. PICK f \in [Workers -> Nat] : f = OpenIn(t, l)
  BY <1>5, OpenInType, ChunkType
<1>8. PICK h \in [Workers -> Nat] : h = OpenIn(t, l)'
  BY <1>5, OpenInTypeNext, ChunkType
<1>9. f[w] = Open(t, w)
  BY <1>7 DEF OpenIn, Covers
<1>10. h[w] = Open(t, w)'
  <2>1. CASE Calling(t, w)'
    <3>1. run'[w].user # NoUser
      BY <2>1 DEF Calling, PhaseOf, Shape, WorkerFits
    <3>2. Covers(l, w)'
      BY <3>1 DEF WorkStep, Covers
    <3> QED BY <1>8, <3>2 DEF OpenIn
  <2>2. CASE ~Calling(t, w)'
    BY <1>8, <2>2 DEF OpenIn, Open
  <2> QED BY <2>1, <2>2
<1>11. \A x \in Workers \ {w} : h[x] = f[x]
  <2> SUFFICES ASSUME NEW x \in Workers \ {w} PROVE h[x] = f[x]
    OBVIOUS
  <2>1. Stays(x)
    BY DEF WorkStep, OthersStay
  <2>2. (Covers(l, x)' <=> Covers(l, x)) /\ Open(t, x)' = Open(t, x)
    BY <2>1 DEF Stays, Covers, Open, Calling, PhaseOf
  <2> QED BY <1>7, <1>8, <2>2 DEF OpenIn
<1>12. SumOver(h) = SumOver(f) + h[w] - f[w] /\ SumOver(f) \in Nat
  BY <1>11, SumMoves, SumType, EnrichmentAssumption
<1>13. Called(t, l) = In(l, billed[t]) + SumOver(f)
       /\ Called(t, l)' = In(l, billed'[t]) + SumOver(h)
  BY <1>7, <1>8 DEF Called, In, OpenIn
<1>14. Called(t, l)' = Called(t, l) + (billed'[t][u] + Open(t, w)' - billed[t][u] - Open(t, w))
  BY <1>3, <1>4, <1>6, <1>9, <1>10, <1>12, <1>13
<1> QED BY <1>3, <1>4, <1>6, <1>7, <1>8, <1>9, <1>10, <1>11, <1>12, <1>14

\* The others are as they were.
LEMMA LedgerRests ==
    ASSUME IInv, Shape', NEW w \in Workers, WorkStep(w), NEW t \in CallType,
           NEW l \in Ledger \ {NoUser, run[w].user}
    PROVE  /\ In(l, billed'[t]) = In(l, billed[t])
           /\ In(l, paid'[t]) = In(l, paid[t])
           /\ In(l, losses'[t]) = In(l, losses[t])
           /\ OpenIn(t, l)' = OpenIn(t, l) /\ Called(t, l)' = Called(t, l)
           /\ \A x \in Workers : MayCall(t, l, x)' => MayCall(t, l, x) /\ View(x, l)' = View(x, l)
<1>1. l \in Users /\ l # NoUser
  BY DEF Ledger
<1>2. /\ In(l, billed'[t]) = In(l, billed[t])
      /\ In(l, paid'[t]) = In(l, paid[t])
      /\ In(l, losses'[t]) = In(l, losses[t])
  BY <1>1 DEF WorkStep, BooksStay, In
<1>3. ~Covers(l, w) /\ ~Covers(l, w)'
  BY <1>1 DEF WorkStep, Covers
<1>4. \A x \in Workers \ {w} :
         /\ Covers(l, x)' <=> Covers(l, x)
         /\ Open(t, x)' = Open(t, x) /\ View(x, l)' = View(x, l)
         /\ MayCall(t, l, x)' <=> MayCall(t, l, x)
  <2> SUFFICES ASSUME NEW x \in Workers \ {w}
               PROVE  /\ Covers(l, x)' <=> Covers(l, x)
                      /\ Open(t, x)' = Open(t, x) /\ View(x, l)' = View(x, l)
                      /\ MayCall(t, l, x)' <=> MayCall(t, l, x)
    OBVIOUS
  <2>1. Stays(x)
    BY DEF WorkStep, OthersStay
  <2> QED BY <2>1 DEF Stays, Covers, Open, View, MayCall, Calling, PhaseOf, Cap
<1>5. OpenIn(t, l)' = OpenIn(t, l)
  BY <1>3, <1>4 DEF OpenIn
<1>6. Called(t, l)' = Called(t, l)
  BY <1>2, <1>5 DEF Called, In
<1>7. ~MayCall(t, l, w)'
  BY <1>3 DEF MayCall
<1> QED BY <1>2, <1>4, <1>5, <1>6, <1>7

\* As long as there are no more calls and nobody may call who might not before,
\* the last look stays the last.
LEMMA LookStays ==
    ASSUME IInv, NEW t \in CallType, NEW l \in Ledger,
           Called(t, l) \in Nat, Called(t, l)' \in Nat, Called(t, l)' <= Called(t, l),
           Spare(l) <= Spare(l)', Spare(l) \in Int, Spare(l)' \in Int,
           \A x \in Workers : View(x, l) \in Nat /\ View(x, l)' \in Nat,
           \A x \in Workers : MayCall(t, l, x)' =>
               /\ MayCall(t, l, x) /\ View(x, l) <= View(x, l)'
               /\ OpenIn(t, l)'[x] = OpenIn(t, l)[x]
    PROVE  \E base \in 0..Cap(t, l), v \in Workers, others \in SUBSET Workers,
              since \in [Workers -> 0..Chunk(t)] :
               LastLookBounds(t, l, base, v, others, since)'
<1>1. PICK base \in 0..Cap(t, l), v \in Workers, others \in SUBSET Workers,
           since \in [Workers -> 0..Chunk(t)] :
               LastLookBounds(t, l, base, v, others, since)
  BY DEF IInv, CallsAreBounded
<1>2. base \in Nat /\ SumOver(since) \in Nat /\ since[v] \in Nat
  <2>1. since \in [Workers -> Nat]
    BY <1>1, ChunkType
  <2> QED BY <1>1, <2>1, CapType, SumType, EnrichmentAssumption
<1>3. Cardinality(others) \in Nat
  BY FS_Subset, FS_CardinalityType, EnrichmentAssumption
<1>4. Called(t, l)' <= base + SumOver(since)
  BY <1>1, <1>2 DEF LastLookBounds
<1>5. Cardinality(others) <= Spare(l)'
  BY <1>1, <1>3 DEF LastLookBounds
<1>6. MayCall(t, l, v)' => base + since[v] <= View(v, l)'
  BY <1>1, <1>2 DEF LastLookBounds
<1>7. \A x \in Workers : MayCall(t, l, x)' =>
          x \in others \union {v} /\ since[x] = OpenIn(t, l)'[x]
  BY <1>1 DEF LastLookBounds
<1>8. /\ base + since[v] <= Cap(t, l) /\ v \notin others
      /\ \A x \in Workers \ (others \union {v}) : since[x] = 0
  BY <1>1 DEF LastLookBounds
<1>9. LastLookBounds(t, l, base, v, others, since)'
  BY <1>4, <1>5, <1>6, <1>7, <1>8 DEF LastLookBounds, Cap
<1> QED BY <1>9

LEMMA SpareType ==
    ASSUME Shape, NEW l \in Ledger
    PROVE  Spare(l) \in Int
<1>1. Cardinality(Workers) \in Nat
  BY FS_CardinalityType, EnrichmentAssumption
<1> QED BY <1>1 DEF Spare, Shape, HistoryTyped, Ledger

LEMMA SpareTypeNext == Shape' => \A l \in Ledger : Spare(l)' \in Int
<1>1. Cardinality(Workers) \in Nat
  BY FS_CardinalityType, EnrichmentAssumption
<1> QED BY <1>1 DEF Spare, Shape, HistoryTyped, Ledger

LEMMA ViewType ==
    Shape => \A x \in Workers, l \in Ledger : View(x, l) \in Nat
BY DEF View, Shape, RunTyped, Spent

LEMMA ViewTypeNext == Shape' => \A x \in Workers, l \in Ledger : View(x, l)' \in Nat
BY DEF View, Shape, RunTyped, Spent

LEMMA CalledType ==
    ASSUME Shape, NEW t \in CallType, NEW l \in Ledger
    PROVE  Called(t, l) \in Nat
<1>1. In(l, billed[t]) \in Nat
  BY InType DEF Shape, StoreTyped
<1>2. OpenIn(t, l) \in [Workers -> Nat]
  BY OpenType, OpenInType, ChunkType
<1>3. SumOver(OpenIn(t, l)) \in Nat
  BY <1>2, SumType, EnrichmentAssumption
<1> QED BY <1>1, <1>3 DEF Called

CalledTyped == \A t \in CallType, l \in Ledger : Called(t, l) \in Nat

LEMMA CalledTypeNext == Shape' => CalledTyped'
<1>1. Shape => CalledTyped
  BY CalledType DEF CalledTyped
<1> QED BY <1>1, PTL

LEMMA PaidStep ==
    ASSUME IInv, Shape', NEW w \in Workers, WorkStep(w)
    PROVE  PaidIsKept'
<1> SUFFICES ASSUME NEW t \in CallType, NEW l \in Ledger
             PROVE  In(l, paid'[t]) <= Called(t, l)' + In(l, losses'[t]) * Chunk(t)
  BY DEF PaidIsKept, In, Chunk
<1>1. In(l, paid[t]) <= Called(t, l) + In(l, losses[t]) * Chunk(t)
  BY DEF IInv, PaidIsKept
<1>2. CASE l \notin {NoUser, run[w].user}
  <2>1. /\ In(l, paid'[t]) = In(l, paid[t]) /\ In(l, losses'[t]) = In(l, losses[t])
        /\ Called(t, l)' = Called(t, l)
    BY <1>2, LedgerRests
  <2> QED BY <1>1, <2>1
<1>3. CASE l \in {NoUser, run[w].user}
  <2> DEFINE u == run[w].user   c == Chunk(t)
             b == billed[t][u]   b1 == billed'[t][u]   o == Open(t, w)   o1 == Open(t, w)'
             p == paid[t][u]   p1 == paid'[t][u]   x == losses[t][u]   x1 == losses'[t][u]
             P == In(l, paid[t])   L == In(l, losses[t])   C == Called(t, l)
  <2>1. /\ In(l, paid'[t]) = P + p1 - p /\ In(l, losses'[t]) = L + x1 - x
        /\ Called(t, l)' = C + (b1 + o1 - b - o)
        /\ P \in Nat /\ L \in Nat /\ b \in Nat /\ b1 \in Nat /\ p \in Nat /\ p1 \in Nat
        /\ x \in Nat /\ x1 \in Nat /\ o \in 0..c /\ o1 \in 0..c
    BY <1>3, LedgerMoves
  <2>2. C \in Nat /\ c \in Nat
    BY CalledType, ChunkType DEF IInv
  <2>3. \/ x1 = x /\ p1 - p <= b1 + o1 - b - o
        \/ x1 = x + 1 /\ p1 = p /\ b1 = b /\ o1 = 0
    BY DEF WorkStep, PaidMoves
  <2>4. P + p1 - p <= C + (b1 + o1 - b - o) + (L + x1 - x) * c
    <3>1. P <= C + L * c
      BY <1>1
    <3> HIDE DEF c, b, b1, o, o1, p, p1, x, x1, P, L, C
    <3>2. CASE x1 = x /\ p1 - p <= b1 + o1 - b - o
      <4>1. (L + x1 - x) * c = L * c /\ L * c \in Nat
        BY <2>1, <2>2, <3>2
      <4> QED BY <2>1, <2>2, <3>1, <3>2, <4>1
    <3>3. CASE x1 = x + 1 /\ p1 = p /\ b1 = b /\ o1 = 0
      <4>1. (L + x1 - x) * c = L * c + c /\ L * c \in Nat
        BY <2>1, <2>2, <3>3
      <4> QED BY <2>1, <2>2, <3>1, <3>3, <4>1
    <3> QED BY <2>3, <3>2, <3>3
  <2> QED BY <2>1, <2>4
<1> QED BY <1>2, <1>3

\* A run that looks finds beside it no more runs of the ledger than can be spared.
LEMMA BesideTheLook ==
    ASSUME IInv, RunsAreFew', Shape', NEW w \in Workers, WorkStep(w), NEW t \in CallType,
           Calling(t, w)', NEW l \in {NoUser, run[w].user},
           NEW others \in SUBSET (Workers \ {w}),
           \A x \in others : Covers(l, x)' /\ Calling(t, x)'
    PROVE  Cardinality(others) <= Spare(l)'
<1>1. IsFiniteSet(others) /\ Cardinality(others) \in Nat /\ Cardinality(Workers) \in Nat
  BY FS_Subset, FS_CardinalityType, EnrichmentAssumption
<1>2. CASE l = NoUser
  <2>1. Cardinality(Workers \ {w}) = Cardinality(Workers) - 1 /\ IsFiniteSet(Workers \ {w})
    BY FS_RemoveElement, EnrichmentAssumption
  <2>2. Cardinality(others) <= Cardinality(Workers \ {w})
    BY <2>1, FS_Subset
  <2> QED BY <1>2, <2>1, <2>2 DEF Spare
<1>3. CASE l = run[w].user /\ l # NoUser
  <2>1. l \in Users
    BY <1>3 DEF WorkStep
  <2>2. run'[w].user = l
    <3>1. run'[w].user # NoUser
      BY DEF Calling, PhaseOf, Shape, WorkerFits
    <3> QED BY <1>3, <3>1 DEF WorkStep
  <2>3. others \union {w} \subseteq Live(l)'
    BY <1>3, <2>2 DEF Live, Covers, Calling, PhaseOf
  <2>4. Cardinality(others \union {w}) = Cardinality(others) + 1
    BY <1>1, FS_AddElement
  <2>5. IsFiniteSet(Live(l)') /\ Cardinality(Live(l)') \in Nat
    <3>1. Live(l)' \subseteq Workers
      BY DEF Live
    <3> QED BY <3>1, FS_Subset, FS_CardinalityType, EnrichmentAssumption
  <2>6. Cardinality(others) + 1 <= Cardinality(Live(l)')
    BY <2>3, <2>4, <2>5, FS_Subset
  <2>7. Cardinality(Live(l)') <= strays'[l] + 1
    <3>1. Cardinality(Live(l)') <= strays'[l] + (IF Attended(l)' THEN 1 ELSE 0)
      BY <2>1 DEF RunsAreFew, Live, Attended
    <3>2. strays'[l] \in Nat
      BY <2>1 DEF Shape, HistoryTyped
    <3> QED BY <2>5, <3>1, <3>2
  <2>8. strays'[l] \in Nat
    BY <2>1 DEF Shape, HistoryTyped
  <2> QED BY <1>1, <1>3, <2>5, <2>6, <2>7, <2>8 DEF Spare
<1> QED BY <1>2, <1>3

LEMMA CallsStep ==
    ASSUME IInv, Shape', RunsAreFew', NEW w \in Workers, WorkStep(w)
    PROVE  CallsAreBounded'
<1> SUFFICES ASSUME NEW t \in CallType, NEW l \in Ledger
             PROVE  \E base \in 0..Cap(t, l), v \in Workers, others \in SUBSET Workers,
                       since \in [Workers -> 0..Chunk(t)] :
                        LastLookBounds(t, l, base, v, others, since)'
  BY DEF CallsAreBounded, Cap, Chunk, Ledger
<1>1. /\ Called(t, l) \in Nat /\ Spare(l) \in Int /\ Spare(l)' \in Int
      /\ \A x \in Workers : View(x, l) \in Nat /\ View(x, l)' \in Nat
  BY CalledType, SpareType, SpareTypeNext, ViewType, ViewTypeNext DEF IInv
<1>2. Spare(l)' = Spare(l)
  BY DEF WorkStep, Spare
<1>3. CASE l \notin {NoUser, run[w].user}
  <2>1. /\ OpenIn(t, l)' = OpenIn(t, l) /\ Called(t, l)' = Called(t, l)
        /\ \A x \in Workers : MayCall(t, l, x)' => MayCall(t, l, x) /\ View(x, l)' = View(x, l)
    BY <1>3, LedgerRests
  <2> QED BY <1>1, <1>2, <2>1, LookStays
<1>4. CASE l \in {NoUser, run[w].user}
  <2> DEFINE u == run[w].user
             b == billed[t][u]   b1 == billed'[t][u]   o == Open(t, w)   o1 == Open(t, w)'
  <2>1. /\ Called(t, l)' = Called(t, l) + (b1 + o1 - b - o)
        /\ b \in Nat /\ b1 \in Nat /\ o \in 0..Chunk(t) /\ o1 \in 0..Chunk(t)
        /\ OpenIn(t, l)[w] = o /\ OpenIn(t, l)'[w] = o1
        /\ \A x \in Workers \ {w} : OpenIn(t, l)'[x] = OpenIn(t, l)[x]
        /\ SumOver(OpenIn(t, l)) \in Nat
    BY <1>4, LedgerMoves
  <2>2. ASSUME NEW x \in Workers \ {w}
        PROVE  /\ MayCall(t, l, x)' <=> MayCall(t, l, x)
               /\ View(x, l)' = View(x, l)
               /\ Covers(l, x)' <=> Covers(l, x)
               /\ Calling(t, x)' <=> Calling(t, x)
    <3>1. Stays(x)
      BY DEF WorkStep, OthersStay
    <3> QED BY <3>1 DEF Stays, Covers, View, MayCall, Calling, PhaseOf, Cap
  <2>3. Covers(l, w)
    BY <1>4 DEF Covers
  <2>4. Called(t, l)' \in Nat
    BY CalledTypeNext DEF CalledTyped, Ledger
  <2>5. ASSUME b1 + o1 <= b + o,
               MayCall(t, l, w)' => /\ MayCall(t, l, w) /\ o1 = o
                                    /\ View(w, l) <= View(w, l)'
        PROVE  \E base \in 0..Cap(t, l), v \in Workers, others \in SUBSET Workers,
                   since \in [Workers -> 0..Chunk(t)] :
                   LastLookBounds(t, l, base, v, others, since)'
    <3>1. Called(t, l)' <= Called(t, l)
      <4> HIDE DEF b, b1, o, o1
      <4> QED BY <1>1, <2>1, <2>5
    <3>2. ASSUME NEW x \in Workers, MayCall(t, l, x)'
          PROVE  /\ MayCall(t, l, x) /\ View(x, l) <= View(x, l)'
                 /\ OpenIn(t, l)'[x] = OpenIn(t, l)[x]
      <4>1. CASE x = w
        BY <2>1, <2>5, <3>2, <4>1
      <4>2. CASE x # w
        BY <1>1, <2>1, <2>2, <3>2, <4>2
      <4> QED BY <4>1, <4>2
    <3> QED BY <1>1, <1>2, <2>4, <3>1, <3>2, LookStays
  <2>6. CASE /\ b1 + o1 <= b + o
             /\ Calling(t, w)' => /\ Calling(t, w) /\ o1 = o
                                  /\ budget[w].user <= budget'[w].user
                                  /\ budget[w].global <= budget'[w].global
    <3>1. MayCall(t, l, w)' => View(w, l) <= View(w, l)' /\ Calling(t, w) /\ o1 = o
      BY <2>6 DEF MayCall, View
    <3>2. MayCall(t, l, w)' => View(w, l)' < Cap(t, l)
      BY DEF MayCall, Cap
    <3>3. MayCall(t, l, w)' => MayCall(t, l, w)
      BY <1>1, <2>3, <3>1, <3>2, CapType DEF MayCall
    <3> QED BY <2>5, <2>6, <3>1, <3>3
  <2>7. CASE /\ Calling(t, w) /\ ~Exhausted(w, t) /\ b1 = b /\ o1 = o + 1
             /\ budget'[w].user = budget[w].user + 1 /\ budget'[w].global = budget[w].global + 1
    <3>1. PICK base \in 0..Cap(t, l), v \in Workers, others \in SUBSET Workers,
               since \in [Workers -> 0..Chunk(t)] :
                   LastLookBounds(t, l, base, v, others, since)
      BY DEF IInv, CallsAreBounded
    <3>2. /\ Called(t, l) <= base + SumOver(since) /\ base + since[v] <= Cap(t, l)
          /\ v \notin others /\ Cardinality(others) <= Spare(l)
          /\ \A x \in Workers \ (others \union {v}) : since[x] = 0
          /\ MayCall(t, l, v) => base + since[v] <= View(v, l)
          /\ \A x \in Workers : MayCall(t, l, x) =>
                x \in others \union {v} /\ since[x] = OpenIn(t, l)[x]
      BY <3>1 DEF LastLookBounds
    <3>3. View(w, l)' = View(w, l) + 1 /\ View(w, l) < Cap(t, l)
      <4>1. budget[w].user < CapUser[t] /\ budget[w].global < CapGlobal[t]
        <5>1. /\ budget[w].user \in Nat /\ budget[w].global \in Nat
              /\ CapUser[t] \in Nat /\ CapGlobal[t] \in Nat
          BY EnrichmentAssumption DEF IInv, Shape, RunTyped, Spent
        <5> QED BY <2>7, <5>1 DEF Exhausted
      <4> QED BY <2>7, <4>1 DEF View, Cap
    <3>4. MayCall(t, l, w)
      BY <2>3, <2>7, <3>3 DEF MayCall
    <3>5. since[w] = o /\ w \in others \union {v}
      BY <2>1, <3>2, <3>4
    <3>6. PICK more \in [Workers -> 0..Chunk(t)] :
              more[w] = o1 /\ \A x \in Workers \ {w} : more[x] = since[x]
      <4>1. [since EXCEPT ![w] = o1] \in [Workers -> 0..Chunk(t)]
        BY <2>1, <3>1
      <4> HIDE DEF o1
      <4> QED BY <3>1, <4>1
    <3>7. SumOver(more) = SumOver(since) + 1 /\ SumOver(since) \in Nat /\ base \in Nat
      <4>1. more \in [Workers -> Nat] /\ since \in [Workers -> Nat]
        BY <3>1, <3>6, ChunkType
      <4>2. SumOver(more) = SumOver(since) + more[w] - since[w] /\ SumOver(since) \in Nat
        BY <3>6, <4>1, SumMoves, SumType, EnrichmentAssumption
      <4>3. more[w] = since[w] + 1 /\ since[w] \in Nat
        BY <2>7, <3>5, <3>6, <4>1
      <4> QED BY <3>1, <4>2, <4>3, CapType
    <3>8. Called(t, l)' <= base + SumOver(more)
      <4>1. Called(t, l)' = Called(t, l) + 1
        <5> HIDE DEF b, b1, o, o1
        <5> QED BY <1>1, <2>1, <2>7
      <4> QED BY <1>1, <3>2, <3>7, <4>1
    <3>9. base + more[v] <= Cap(t, l) /\ (MayCall(t, l, v)' => base + more[v] <= View(v, l)')
      <4>1. CASE v = w
        <5>1. base + since[w] <= View(w, l) /\ more[w] = since[w] + 1 /\ since[w] \in Nat
          BY <2>1, <2>7, <3>2, <3>4, <3>5, <3>6, <4>1
        <5> QED BY <1>1, <3>3, <3>7, <4>1, <5>1, CapType
      <4>2. CASE v # w
        BY <2>2, <3>2, <3>6, <4>2
      <4> QED BY <4>1, <4>2
    <3>10. \A x \in Workers \ (others \union {v}) : more[x] = 0
      BY <3>2, <3>5, <3>6
    <3>11. ASSUME NEW x \in Workers, MayCall(t, l, x)'
           PROVE  x \in others \union {v} /\ more[x] = OpenIn(t, l)'[x]
      <4>1. CASE x = w
        BY <2>1, <3>5, <3>6, <4>1
      <4>2. CASE x # w
        BY <2>1, <2>2, <3>2, <3>6, <3>11, <4>2
      <4> QED BY <4>1, <4>2
    <3>12. LastLookBounds(t, l, base, v, others, more)'
      BY <1>2, <3>2, <3>8, <3>9, <3>10, <3>11 DEF LastLookBounds, Cap
    <3> QED BY <3>1, <3>6, <3>12
  <2>8. CASE /\ billed'[t] = billed[t] /\ o = 0 /\ o1 = 0
             /\ budget'[w].user = billed[t][u] /\ budget'[w].global = SumOver(billed[t])
    <3>1. CASE ~MayCall(t, l, w)'
      BY <2>1, <2>5, <2>8, <3>1
    <3>2. CASE MayCall(t, l, w)'
      <4>1. View(w, l)' = In(l, billed[t]) /\ In(l, billed'[t]) = In(l, billed[t])
        BY <1>4, <2>8 DEF View, In
      <4>2. View(w, l)' < Cap(t, l)
        BY <3>2 DEF MayCall, Cap
      <4>3. PICK now \in 0..Cap(t, l) : now = In(l, billed[t])
        BY <1>1, <4>1, <4>2, CapType
      <4>4. OpenFits'
        BY OpenTypeNext
      <4>5. PICK open \in [Workers -> 0..Chunk(t)] : open = OpenIn(t, l)'
        BY <4>4, OpenInTypeNext
      <4>6. PICK others \in SUBSET (Workers \ {w}) :
                \A x \in Workers \ {w} : x \in others <=> Covers(l, x)' /\ Calling(t, x)'
        <5>1. {x \in Workers \ {w} : Covers(l, x)' /\ Calling(t, x)'} \in SUBSET (Workers \ {w})
          OBVIOUS
        <5> QED BY <5>1
      <4>7. Cardinality(others) <= Spare(l)'
        <5>1. Calling(t, w)'
          BY <3>2 DEF MayCall
        <5>2. \A x \in others : Covers(l, x)' /\ Calling(t, x)'
          BY <4>6
        <5> QED BY <1>4, <5>1, <5>2, BesideTheLook
      <4>8. Called(t, l)' = now + SumOver(open)
        BY <4>1, <4>3, <4>5 DEF Called, In
      <4>9. open[w] = 0
        BY <2>1, <2>8, <4>5
      <4>10. \A x \in Workers \ (others \union {w}) : open[x] = 0
        BY <4>5, <4>6 DEF OpenIn, Open
      <4>11. \A x \in Workers : MayCall(t, l, x)' => x \in others \union {w} /\ open[x] = OpenIn(t, l)'[x]
        BY <4>5, <4>6 DEF MayCall
      <4>12. now + open[w] <= Cap(t, l) /\ now + open[w] <= View(w, l)' /\ now + SumOver(open) \in Nat
        BY <1>1, <2>4, <4>1, <4>2, <4>3, <4>8, <4>9, CapType
      <4>13. LastLookBounds(t, l, now, w, others, open)'
        BY <4>6, <4>7, <4>8, <4>10, <4>11, <4>12 DEF LastLookBounds, Cap
      <4>14. others \in SUBSET Workers
        BY <4>6
      <4> QED BY <4>3, <4>5, <4>13, <4>14
    <3> QED BY <3>1, <3>2
  <2> QED BY <2>6, <2>7, <2>8 DEF WorkStep, CallsMove
<1> QED BY <1>3, <1>4

\* The invariant after a step of a run.
LEMMA WorkKeeps ==
    ASSUME IInv, Shape', RunsAreFew', StoredIsAccounted', NEW w \in Workers, WorkStep(w)
    PROVE  IInv'
BY PaidStep, CallsStep DEF IInv

\* And after one that touches no session.
LEMMA RestKeeps ==
    ASSUME IInv, Shape', RunsAreFew', StoredIsAccounted', RestStep
    PROVE  IInv'
<1>1. \A t \in CallType, x \in Workers :
         /\ Calling(t, x)' <=> Calling(t, x)
         /\ Open(t, x)' = Open(t, x)
         /\ Calling(t, x) => run'[x].user = run[x].user
  BY DEF RestStep, Calling, PhaseOf, Open, CallType
<1>2. \A t \in CallType, l \in Ledger : OpenIn(t, l)' = OpenIn(t, l)
  <2> SUFFICES ASSUME NEW t \in CallType, NEW l \in Ledger, NEW x \in Workers
               PROVE  (IF Covers(l, x)' THEN Open(t, x)' ELSE 0) = (IF Covers(l, x) THEN Open(t, x) ELSE 0)
    BY DEF OpenIn
  <2>1. CASE Calling(t, x)
    BY <1>1, <2>1 DEF Covers
  <2>2. CASE ~Calling(t, x)
    BY <1>1, <2>2 DEF Open
  <2> QED BY <2>1, <2>2
<1>3. \A t \in CallType, l \in Ledger :
         /\ Called(t, l)' = Called(t, l)
         /\ In(l, paid'[t]) = In(l, paid[t]) /\ In(l, losses'[t]) = In(l, losses[t])
  BY <1>2 DEF RestStep, Called, In
<1>4. PaidIsKept'
  BY <1>3 DEF IInv, PaidIsKept, In, Chunk
<1>5. CallsAreBounded'
  <2> SUFFICES ASSUME NEW t \in CallType, NEW l \in Ledger
               PROVE  \E base \in 0..Cap(t, l), v \in Workers, others \in SUBSET Workers,
                         since \in [Workers -> 0..Chunk(t)] :
                          LastLookBounds(t, l, base, v, others, since)'
    BY DEF CallsAreBounded, Cap, Chunk, Ledger
  <2>1. /\ Called(t, l) \in Nat /\ Spare(l) \in Int /\ Spare(l)' \in Int
        /\ \A x \in Workers : View(x, l) \in Nat /\ View(x, l)' = View(x, l)
    BY CalledType, SpareType, SpareTypeNext, ViewType DEF IInv, RestStep, View
  <2>2. Spare(l) <= Spare(l)'
    BY <2>1 DEF RestStep, Spare, Ledger
  <2>3. \A x \in Workers : MayCall(t, l, x)' => MayCall(t, l, x)
    BY <1>1 DEF MayCall, Covers, View, RestStep, Cap
  <2> QED BY <1>2, <1>3, <2>1, <2>2, <2>3, LookStays
<1> QED BY <1>4, <1>5 DEF IInv

-----------------------------------------------------------------------------
(* The shape of the state, and the runs of a user *)

LEMMA TypeFollows == Shape => TypeOK
<1> SUFFICES ASSUME Shape PROVE TypeOK
  OBVIOUS
<1>1. \A w \in Workers : WorkerFits(w)
  BY DEF Shape
<1>2. ASSUME NEW w \in Workers
      PROVE  /\ run[w].phase = "idle" <=> run[w].user = NoUser
             /\ uncommitted[w].calls \in Nat
             /\ uncommitted[w].answered \subseteq Own(run[w].user)
             /\ uncommitted[w].failures \in 0..ErrorStreakLimit
             /\ uncommitted[w].named \subseteq Own(run[w].user)
             /\ run[w].phase \notin {"diagnosing", "naming"} => uncommitted[w] = Clean
  BY <1>1 DEF WorkerFits, SessionTyped
<1> QED BY <1>2 DEF Shape, StoreTyped, RunTyped, HistoryTyped, TypeOK

\* A worker fits as before when its run is left alone.
LEMMA StayingFits ==
    ASSUME NEW x \in Workers, WorkerFits(x), Stays(x)
    PROVE  WorkerFits(x)'
<1>1. \A t \in CallType : Calling(t, x)' <=> Calling(t, x)
  BY DEF Stays, Calling, PhaseOf
<1>2. SessionFits(x)'
  BY <1>1 DEF WorkerFits, SessionFits, Stays, Chunk, DiagnosesFit, NamesFit
<1>3. SessionTyped(uncommitted[x], run[x].user)'
  BY DEF WorkerFits, Stays, SessionTyped, Own, Clean
<1> QED BY <1>2, <1>3 DEF WorkerFits, Stays, Own, Clean

\* And when it has an empty session.
LEMMA CleanFits ==
    ASSUME NEW w \in Workers, uncommitted'[w] = Clean, steps'[w] = 0,
           run'[w].phase = "idle" <=> run'[w].user = NoUser,
           run'[w].phase \in {"idle", "chaining"} => run'[w].row # "current",
           run'[w].phase \in {"selected", "diagnosing", "listed", "naming"} =>
              todo'[w] \subseteq Own(run'[w].user)
    PROVE  WorkerFits(w)'
<1>1. /\ Clean.diagnosis = [p \in {} |-> "none"] /\ Clean.named = {} /\ Clean.calls = 0
      /\ Clean.answered = {} /\ Clean.failures = 0 /\ Clean.cleared = FALSE
  BY DEF Clean
<1>2. SessionTyped(uncommitted[w], run[w].user)'
  <2>1. ErrorStreakLimit \in Nat
    BY EnrichmentAssumption
  <2> QED BY <1>1, <2>1 DEF SessionTyped, Own, Clean
<1>3. SessionFits(w)'
  <2>1. DOMAIN Clean.diagnosis = {} /\ Cardinality({}) = 0
    BY <1>1, FS_EmptySet
  <2>2. {p \in DOMAIN Clean.diagnosis : Clean.diagnosis[p] = "llm"} = {}
    BY <2>1
  <2>3. \A t \in CallType : Chunk(t) \in Nat
    BY ChunkType
  <2> QED BY <1>1, <2>1, <2>2, <2>3 DEF SessionFits, DiagnosesFit, NamesFit, Chunk
<1> QED BY <1>2, <1>3 DEF WorkerFits, Own, Clean

\* The shape after a step of one worker.
LEMMA ShapeStep ==
    ASSUME Shape, NEW w \in Workers, OthersStay(w), StoreTyped', RunTyped', HistoryTyped',
           WorkerFits(w)'
    PROVE  Shape'
<1>1. ASSUME NEW x \in Workers PROVE WorkerFits(x)'
  <2>1. CASE x = w
    BY <2>1
  <2>2. CASE x # w
    BY <2>2, StayingFits DEF Shape, OthersStay
  <2> QED BY <2>1, <2>2
<1> QED BY <1>1 DEF Shape

\* The runs of each user are as few as they were, when none has begun and those
\* that have a job have it still.
LEMMA FewAsBefore ==
    ASSUME IInv, strays' = strays,
           \A u \in Users : Live(u)' = Live(u) /\ (Attended(u) => Attended(u)')
    PROVE  RunsAreFew'
<1> SUFFICES ASSUME NEW u \in Users
             PROVE  Cardinality(Live(u)') <= strays'[u] + (IF Attended(u)' THEN 1 ELSE 0)
  BY DEF RunsAreFew, Live, Attended
<1>1. Cardinality(Live(u)) <= strays[u] + (IF Attended(u) THEN 1 ELSE 0)
  BY DEF IInv, RunsAreFew
<1>2. Cardinality(Live(u)) \in Nat /\ strays[u] \in Nat
  <2>1. Live(u) \subseteq Workers
    BY DEF Live
  <2> QED BY <2>1, FS_Subset, FS_CardinalityType, EnrichmentAssumption
       DEF IInv, Shape, HistoryTyped
<1> QED BY <1>1, <1>2

LEMMA RunsStayFew ==
    ASSUME IInv, strays' = strays, job' = job,
           \A x \in Workers : /\ run'[x].user = run[x].user /\ run'[x].row = run[x].row
                              /\ run'[x].phase = "chaining" <=> run[x].phase = "chaining"
    PROVE  RunsAreFew'
<1>1. \A u \in Users : Live(u)' = Live(u) /\ Runs(u)' = Runs(u)
  BY DEF Live, Runs
<1> QED BY <1>1, FewAsBefore DEF Attended

\* A run leaves its job, and with it there may be nobody left who has that.
LEMMA FewWithoutOne ==
    ASSUME IInv, strays' = strays, NEW w \in Workers, NEW whose \in Users, run[w].user = whose,
           run[w].phase # "chaining", Live(whose)' = Live(whose) \ {w},
           \A u \in Users \ {whose} : Live(u)' = Live(u) /\ (Attended(u) => Attended(u)')
    PROVE  RunsAreFew'
<1> SUFFICES ASSUME NEW u \in Users
             PROVE  Cardinality(Live(u)') <= strays'[u] + (IF Attended(u)' THEN 1 ELSE 0)
  BY DEF RunsAreFew, Live, Attended
<1>1. Cardinality(Live(u)) <= strays[u] + (IF Attended(u) THEN 1 ELSE 0)
  BY DEF IInv, RunsAreFew
<1>2. IsFiniteSet(Live(u)) /\ Cardinality(Live(u)) \in Nat /\ strays[u] \in Nat
  <2>1. Live(u) \subseteq Workers
    BY DEF Live
  <2> QED BY <2>1, FS_Subset, FS_CardinalityType, EnrichmentAssumption
       DEF IInv, Shape, HistoryTyped
<1>3. CASE u = whose
  <2>1. w \in Live(u)
    BY <1>3 DEF Live
  <2>2. Cardinality(Live(u)') = Cardinality(Live(u)) - 1
    BY <1>2, <1>3, <2>1, FS_RemoveElement
  <2> QED BY <1>1, <1>2, <2>2
<1>4. CASE u # whose
  BY <1>1, <1>2, <1>4
<1> QED BY <1>3, <1>4

-----------------------------------------------------------------------------
(* The steps that commit *)

LEMMA AtMostBoth ==
    ASSUME NEW A, NEW B, IsFiniteSet(A), IsFiniteSet(B), NEW C \in SUBSET (A \union B)
    PROVE  Cardinality(C) <= Cardinality(A) + Cardinality(B)
<1>1. /\ IsFiniteSet(A \union B)
      /\ Cardinality(A \union B) = Cardinality(A) + Cardinality(B) - Cardinality(A \intersect B)
  BY FS_Union
<1>2. IsFiniteSet(A \intersect B)
  BY FS_Subset
<1>3. Cardinality(C) <= Cardinality(A \union B) /\ IsFiniteSet(C)
  BY <1>1, FS_Subset
<1> QED BY <1>1, <1>2, <1>3, FS_CardinalityType

LEMMA MinOfTwo ==
    ASSUME NEW a \in Nat, NEW b \in Nat
    PROVE  Min({a, b}) \in {a, b} /\ Min({a, b}) <= a /\ Min({a, b}) <= b
<1>1. PICK n \in {a, b} : \A m \in {a, b} : n <= m
  BY LeastNumber
<1> QED BY <1>1 DEF Min

LEMMA MinOfSome ==
    ASSUME NEW T \in SUBSET Nat, T # {}
    PROVE  Min(T) \in T
<1>1. PICK n \in T : \A m \in T : n <= m
  BY LeastNumber
<1> QED BY <1>1 DEF Min

\* What is left alone when nothing is stored.
StoreStays == UNCHANGED <<diagnosis, title, billed, answered>>

LEMMA StoreStaysAccounted == StoredIsAccounted /\ StoreStays => StoredIsAccounted'
BY DEF StoredIsAccounted, StoreStays, Own

\* A run that makes calls has a user, and makes those of one type.
LEMMA CallerHasUser ==
    ASSUME Shape, NEW w \in Workers, run[w].phase # "idle"
    PROVE  run[w].user \in Users
<1>1. run[w].user \in Users \union {NoUser} /\ run[w].user # NoUser
  BY DEF Shape, RunTyped, WorkerFits, Run
<1> QED BY <1>1

LEMMA CallsOneType ==
    ASSUME NEW w \in Workers, NEW t \in CallType, Calling(t, w)
    PROVE  /\ run[w].phase \in {"diagnosing", "naming"}
           /\ \A r \in CallType \ {t} : ~Calling(r, w) /\ Open(r, w) = 0
           /\ Open(t, w) = uncommitted[w].calls
BY DEF Calling, PhaseOf, CallType, Open

LEMMA CommitType ==
    ASSUME IInv, NEW w \in Workers, NEW t \in CallType, Calling(t, w), CommitSession(w, t)
    PROVE  StoreTyped' /\ uncommitted' = [uncommitted EXCEPT ![w] = Clean]
<1> DEFINE s == uncommitted[w]
           u == run[w].user
<1>1. Shape /\ WorkerFits(w) /\ u \in Users
  BY CallerHasUser, CallsOneType DEF IInv, Shape
<1>2. /\ s.calls \in Nat /\ s.answered \subseteq Own(u) /\ s.failures \in 0..ErrorStreakLimit
      /\ \A p \in DOMAIN s.diagnosis : s.diagnosis[p] \in Diagnosis
      /\ s.cleared \in BOOLEAN
  BY <1>1 DEF WorkerFits, SessionTyped
<1>3. diagnosis' \in [Puzzles -> Diagnosis]
  BY <1>1, <1>2 DEF CommitSession, WriteRows, Shape, StoreTyped
<1>4. title' \in [Puzzles -> {"position", "ai", "user"}]
  BY <1>1 DEF CommitSession, WriteRows, Shape, StoreTyped
<1>5. billed' \in [CallType -> [Users -> Nat]]
  BY <1>1, <1>2 DEF CommitSession, Shape, StoreTyped
<1>6. answered' \subseteq Puzzles
  BY <1>1, <1>2 DEF CommitSession, Shape, StoreTyped, Own
<1>7. streak' \in [Users -> 0..ErrorStreakLimit]
  <2> DEFINE failures == IF s.cleared THEN s.failures ELSE streak[u] + s.failures
  <2>1. failures \in Nat /\ ErrorStreakLimit \in Nat
    BY <1>1, <1>2, EnrichmentAssumption DEF Shape, StoreTyped
  <2>2. Min({failures, ErrorStreakLimit}) \in 0..ErrorStreakLimit
    <3> HIDE DEF failures
    <3> QED BY <2>1, MinOfTwo
  <2>3. streak' = [streak EXCEPT ![u] = Min({failures, ErrorStreakLimit})]
    BY DEF CommitSession
  <2> HIDE DEF failures
  <2> QED BY <1>1, <2>2, <2>3 DEF Shape, StoreTyped
<1>8. fresh' \in [Users -> BOOLEAN]
  BY <1>1, <1>2, Zenon DEF CommitSession, Shape, StoreTyped
<1>9. uncommitted' = [uncommitted EXCEPT ![w] = Clean]
  BY DEF CommitSession
<1> QED BY <1>3, <1>4, <1>5, <1>6, <1>7, <1>8, <1>9 DEF StoreTyped

LEMMA CommitBills ==
    ASSUME IInv, NEW w \in Workers, NEW t \in CallType, Calling(t, w), CommitSession(w, t)
    PROVE  \A r \in CallType :
              /\ billed'[r][run[w].user] = billed[r][run[w].user] + Open(r, w)
              /\ \A v \in Users \ {run[w].user} : billed'[r][v] = billed[r][v]
<1>1. run[w].user \in Users /\ billed \in [CallType -> [Users -> Nat]] /\ uncommitted[w].calls \in Nat
  BY CallerHasUser, CallsOneType DEF IInv, Shape, StoreTyped, WorkerFits, SessionTyped
<1>2. billed' = [billed EXCEPT ![t][run[w].user] = @ + uncommitted[w].calls]
  BY DEF CommitSession
<1>3. Open(t, w) = uncommitted[w].calls /\ \A r \in CallType \ {t} : Open(r, w) = 0
  BY CallsOneType
<1> QED BY <1>1, <1>2, <1>3

LEMMA CommitAccounts ==
    ASSUME IInv, NEW w \in Workers, NEW t \in CallType, Calling(t, w), CommitSession(w, t)
    PROVE  StoredIsAccounted'
<1> DEFINE s == uncommitted[w]
           u == run[w].user
           ai(v) == {p \in Own(v) : title[p] = "ai"}
           ai1(v) == {p \in Own(v) : title'[p] = "ai"}
           llm(v) == {p \in Own(v) : diagnosis[p] = "llm"}
           llm1(v) == {p \in Own(v) : diagnosis'[p] = "llm"}
           llmNew == {p \in DOMAIN s.diagnosis : s.diagnosis[p] = "llm"}
<1>1. /\ u \in Users /\ s.calls \in Nat /\ s.answered \subseteq Own(u)
      /\ s.named \subseteq Own(u) /\ DOMAIN s.diagnosis \subseteq Own(u)
  BY CallerHasUser, CallsOneType DEF IInv, Shape, WorkerFits, SessionTyped
<1>2. \A v \in Users : Own(v) \subseteq Puzzles /\ IsFiniteSet(Own(v))
  BY FS_Subset, EnrichmentAssumption DEF Own
<1>3. \A v \in Users \ {u} : Own(v) \intersect Own(u) = {}
  BY DEF Own
<1>4. /\ title' = [p \in Puzzles |-> IF p \in s.named THEN "ai" ELSE title[p]]
      /\ diagnosis' = [p \in Puzzles |->
                          IF p \in DOMAIN s.diagnosis THEN s.diagnosis[p] ELSE diagnosis[p]]
      /\ answered' = answered \union s.answered
  BY DEF CommitSession, WriteRows
<1>5. \A v \in Users :
         /\ ai(v) \subseteq answered
         /\ Cardinality(answered \intersect Own(v)) <= billed["naming"][v]
         /\ Cardinality(llm(v)) <= billed["diagnosis"][v]
  BY DEF IInv, StoredIsAccounted
<1>6. billed \in [CallType -> [Users -> Nat]] /\ CallType = {"diagnosis", "naming"}
  BY DEF IInv, Shape, StoreTyped, CallType
<1>7. /\ billed'["naming"][u] = billed["naming"][u] + Open("naming", w)
      /\ billed'["diagnosis"][u] = billed["diagnosis"][u] + Open("diagnosis", w)
      /\ \A v \in Users \ {u} : /\ billed'["naming"][v] = billed["naming"][v]
                                /\ billed'["diagnosis"][v] = billed["diagnosis"][v]
  BY <1>6, CommitBills
<1>8. IF t = "diagnosis" THEN DiagnosesFit(s) ELSE NamesFit(s)
  BY DEF IInv, Shape, WorkerFits, SessionFits
<1>9. s.named \subseteq s.answered /\ Cardinality(s.answered) <= Open("naming", w)
  <2>1. CASE t = "diagnosis"
    <3>1. Open("naming", w) = 0
      BY <1>6, <2>1, CallsOneType
    <3> QED BY <1>8, <2>1, <3>1, FS_EmptySet DEF DiagnosesFit
  <2>2. CASE t = "naming"
    <3>1. Open("naming", w) = s.calls
      BY <2>2, CallsOneType
    <3> QED BY <1>8, <2>2, <3>1 DEF NamesFit
  <2> QED BY <1>6, <2>1, <2>2
<1>10. Cardinality(llmNew) <= Open("diagnosis", w)
  <2>1. CASE t = "diagnosis"
    <3>1. Open("diagnosis", w) = s.calls
      BY <2>1, CallsOneType
    <3> QED BY <1>8, <2>1, <3>1 DEF DiagnosesFit
  <2>2. CASE t = "naming"
    <3>1. llmNew = {}
      BY <1>8, <2>2 DEF NamesFit
    <3>2. Open("diagnosis", w) = 0
      BY <1>6, <2>2, CallsOneType
    <3> QED BY <3>1, <3>2, FS_EmptySet
  <2> QED BY <1>6, <2>1, <2>2
<1>11. Open("diagnosis", w) \in Nat /\ Open("naming", w) \in Nat
  BY <1>1 DEF Open
<1>12. /\ ai1(u) \subseteq answered'
       /\ Cardinality(answered' \intersect Own(u)) <= billed'["naming"][u]
       /\ Cardinality(llm1(u)) <= billed'["diagnosis"][u]
  <2>1. ai1(u) \subseteq ai(u) \union s.named
    BY <1>1, <1>2, <1>4
  <2>2. Cardinality(answered' \intersect Own(u))
          <= Cardinality(answered \intersect Own(u)) + Cardinality(s.answered)
    <3>1. answered' \intersect Own(u) \subseteq (answered \intersect Own(u)) \union s.answered
      BY <1>4
    <3>2. IsFiniteSet(answered \intersect Own(u)) /\ IsFiniteSet(s.answered)
      BY <1>1, <1>2, FS_Subset
    <3> QED BY <3>1, <3>2, AtMostBoth
  <2>3. Cardinality(llm1(u)) <= Cardinality(llm(u)) + Cardinality(llmNew)
    <3>1. llm1(u) \subseteq llm(u) \union llmNew
      BY <1>1, <1>2, <1>4
    <3>2. IsFiniteSet(llm(u)) /\ IsFiniteSet(llmNew)
      BY <1>1, <1>2, FS_Subset
    <3> HIDE DEF llm, llm1, llmNew
    <3> QED BY <3>1, <3>2, AtMostBoth
  <2>4. /\ Cardinality(answered' \intersect Own(u)) \in Nat
        /\ Cardinality(answered \intersect Own(u)) \in Nat /\ Cardinality(s.answered) \in Nat
        /\ Cardinality(llm1(u)) \in Nat /\ Cardinality(llm(u)) \in Nat
        /\ Cardinality(llmNew) \in Nat
    <3>1. /\ IsFiniteSet(answered' \intersect Own(u)) /\ IsFiniteSet(answered \intersect Own(u))
          /\ IsFiniteSet(s.answered) /\ IsFiniteSet(llm1(u)) /\ IsFiniteSet(llm(u))
          /\ IsFiniteSet(llmNew)
      BY <1>1, <1>2, FS_Subset
    <3> HIDE DEF llm, llm1, llmNew
    <3> QED BY <3>1, FS_CardinalityType
  <2> HIDE DEF ai, ai1, llm, llm1, llmNew
  <2>5. billed["naming"][u] \in Nat /\ billed["diagnosis"][u] \in Nat
    BY <1>1, <1>6
  <2>6. ai1(u) \subseteq answered'
    BY <1>1, <1>4, <1>5, <1>9, <2>1
  <2>7. Cardinality(answered' \intersect Own(u)) <= billed'["naming"][u]
    BY <1>1, <1>5, <1>7, <1>9, <1>11, <2>2, <2>4, <2>5
  <2>8. Cardinality(llm1(u)) <= billed'["diagnosis"][u]
    BY <1>1, <1>5, <1>7, <1>10, <1>11, <2>3, <2>4, <2>5
  <2> QED BY <2>6, <2>7, <2>8
<1>13. ASSUME NEW v \in Users \ {u}
       PROVE  /\ ai1(v) \subseteq answered'
              /\ Cardinality(answered' \intersect Own(v)) <= billed'["naming"][v]
              /\ Cardinality(llm1(v)) <= billed'["diagnosis"][v]
  <2>1. \A p \in Own(v) : p \in Puzzles /\ p \notin Own(u)
    BY <1>2, <1>3
  <2>2. \A p \in Own(v) : title'[p] = title[p] /\ diagnosis'[p] = diagnosis[p]
    BY <1>1, <1>4, <2>1
  <2>3. ai1(v) = ai(v) /\ llm1(v) = llm(v)
    BY <2>2
  <2>4. answered' \intersect Own(v) = answered \intersect Own(v)
    BY <1>1, <1>4, <2>1
  <2>5. ai(v) \subseteq answered'
    BY <1>4, <1>5
  <2> HIDE DEF ai, ai1, llm, llm1
  <2> QED BY <1>5, <1>7, <2>3, <2>4, <2>5
<1>14. \A v \in Users :
         /\ ai1(v) \subseteq answered'
         /\ Cardinality(answered' \intersect Own(v)) <= billed'["naming"][v]
         /\ Cardinality(llm1(v)) <= billed'["diagnosis"][v]
  <2> HIDE DEF ai1, llm1
  <2> QED BY <1>12, <1>13
<1> QED BY <1>14 DEF StoredIsAccounted, Own

\* The end of a chunk or of a pass, with a commit.
LEMMA CommitKeeps ==
    ASSUME IInv, NEW w \in Workers, NEW t \in CallType, Calling(t, w), CommitSession(w, t),
           NEW phase \in {"selected", "diagnosed", "ended"},
           NEW rest \in SUBSET Own(run[w].user), EndPass(w, phase, rest),
           UNCHANGED <<job, historyVars, left>>
    PROVE  IInv'
<1> DEFINE u == run[w].user
<1>1. Shape /\ RunTyped /\ HistoryTyped /\ WorkerFits(w) /\ u \in Users /\ u # NoUser
      /\ run[w].phase \in {"diagnosing", "naming"}
  BY CallerHasUser, CallsOneType, EnrichmentAssumption DEF IInv, Shape
<1>2. StoreTyped' /\ uncommitted' = [uncommitted EXCEPT ![w] = Clean]
  BY CommitType
<1>3. /\ run' = [run EXCEPT ![w].phase = phase]
      /\ todo' = [todo EXCEPT ![w] = rest]
      /\ budget' = [budget EXCEPT ![w] = Unread]
      /\ steps' = [steps EXCEPT ![w] = 0]
  BY DEF EndPass, SetPhase
<1>4. job' = job /\ paid' = paid /\ losses' = losses /\ strays' = strays /\ left' = left
  BY DEF historyVars
<1>5. OthersStay(w)
  BY <1>1, <1>2, <1>3 DEF OthersStay, Stays, RunTyped
<1>6. run'[w].phase = phase /\ run'[w].user = u /\ run'[w].row = run[w].row
      /\ \A x \in Workers \ {w} : run'[x] = run[x]
  BY <1>1, <1>3 DEF RunTyped, Run
<1>7. RunTyped'
  <2>1. run' \in [Workers -> Run]
    BY <1>1, <1>3 DEF RunTyped, Run, Phase
  <2>2. todo' \in [Workers -> SUBSET Puzzles]
    BY <1>1, <1>3 DEF RunTyped, Own
  <2>3. budget' \in [Workers -> Spent]
    BY <1>1, <1>3 DEF RunTyped, Unread, Spent
  <2>4. steps' \in [Workers -> Nat] /\ DOMAIN uncommitted' = Workers
    BY <1>1, <1>2, <1>3 DEF RunTyped
  <2> QED BY <1>1, <1>4, <2>1, <2>2, <2>3, <2>4 DEF RunTyped
<1>8. HistoryTyped'
  BY <1>1, <1>4 DEF HistoryTyped
<1>9. WorkerFits(w)'
  <2>1. uncommitted'[w] = Clean /\ steps'[w] = 0 /\ todo'[w] \subseteq Own(run'[w].user)
    BY <1>1, <1>2, <1>3, <1>6 DEF RunTyped
  <2> QED BY <1>1, <1>6, <2>1, CleanFits
<1>10. Shape'
  BY <1>1, <1>2, <1>5, <1>7, <1>8, <1>9, ShapeStep
<1>11. RunsAreFew'
  <2>1. \A x \in Workers : /\ run'[x].user = run[x].user /\ run'[x].row = run[x].row
                           /\ run'[x].phase = "chaining" <=> run[x].phase = "chaining"
    BY <1>1, <1>6
  <2> QED BY <1>4, <2>1, RunsStayFew
<1>12. \A r \in CallType : ~Calling(r, w)' /\ Open(r, w)' = 0
  BY <1>6 DEF Calling, PhaseOf, Open
<1>13. WorkStep(w)
  <2>1. BooksStay(u)
    BY <1>4, CommitBills DEF BooksStay
  <2>2. ASSUME NEW r \in CallType PROVE PaidMoves(r, w) /\ CallsMove(r, w)
    <3>1. billed'[r][u] = billed[r][u] + Open(r, w)
      BY CommitBills
    <3>2. billed[r][u] \in Nat /\ Open(r, w) \in Nat /\ paid[r][u] \in Nat
      BY <1>1 DEF Shape, StoreTyped, HistoryTyped, Open, WorkerFits, SessionTyped
    <3>3. PaidMoves(r, w)
      BY <1>4, <1>12, <3>1, <3>2 DEF PaidMoves
    <3>4. CallsMove(r, w)
      BY <1>12, <3>1, <3>2 DEF CallsMove
    <3> QED BY <3>3, <3>4
  <2> QED BY <1>1, <1>4, <1>5, <1>6, <2>1, <2>2 DEF WorkStep
<1>14. StoredIsAccounted'
  BY CommitAccounts
<1> QED BY <1>10, <1>11, <1>13, <1>14, WorkKeeps

\* The four steps that commit.
LEMMA CommitsKeep ==
    ASSUME IInv, NEW w \in Workers,
           CommitChunk(w) \/ FinishDiagnosing(w) \/ SeeCancel(w) \/ CommitNames(w)
    PROVE  IInv'
<1>1. /\ "diagnosis" \in CallType /\ "naming" \in CallType
      /\ {} \in SUBSET Own(run[w].user)
  BY DEF CallType
<1>2. CASE CommitChunk(w)
  <2>1. Calling("diagnosis", w)
    BY <1>2 DEF CommitChunk, ChunkFull, Diagnosing, Calling, PhaseOf
  <2>2. todo[w] \in SUBSET Own(run[w].user)
    BY <2>1 DEF IInv, Shape, WorkerFits, Calling, PhaseOf
  <2> QED BY <1>1, <1>2, <2>1, <2>2, CommitKeeps DEF CommitChunk
<1>3. CASE FinishDiagnosing(w)
  <2>1. Calling("diagnosis", w)
    BY <1>3 DEF FinishDiagnosing, AllVisited, Diagnosing, Calling, PhaseOf
  <2> QED BY <1>1, <1>3, <2>1, CommitKeeps DEF FinishDiagnosing
<1>4. CASE SeeCancel(w)
  <2>1. Calling("diagnosis", w)
    BY <1>4 DEF SeeCancel, CancelSeen, Diagnosing, Calling, PhaseOf
  <2> QED BY <1>1, <1>4, <2>1, CommitKeeps DEF SeeCancel
<1>5. CASE CommitNames(w)
  <2>1. Calling("naming", w)
    BY <1>5 DEF CommitNames, PassOver, Calling, PhaseOf
  <2> QED BY <1>1, <1>5, <2>1, CommitKeeps DEF CommitNames
<1> QED BY <1>2, <1>3, <1>4, <1>5

-----------------------------------------------------------------------------
(* The steps that lose a session *)

\* A session lost, and the run out of its pass.
LEMMA LoseKeeps ==
    ASSUME IInv, NEW w \in Workers, run[w].phase # "idle", NEW t \in CallType,
           LoseSession(w, t), \A r \in CallType \ {t} : ~Calling(r, w),
           run' \in [Workers -> Run], \A x \in Workers \ {w} : Stays(x),
           run'[w].phase \notin {"diagnosing", "naming"}, run'[w].user \in {run[w].user, NoUser},
           run'[w].phase = "idle" <=> run'[w].user = NoUser,
           run'[w].phase \in {"idle", "chaining"} => run'[w].row # "current",
           todo' = [todo EXCEPT ![w] = {}], budget' = [budget EXCEPT ![w] = Unread],
           steps' = [steps EXCEPT ![w] = 0],
           job' \in [Users -> Job], left' \in [Event -> Nat], RunsAreFew',
           UNCHANGED <<storeVars, paid, strays>>
    PROVE  IInv'
<1> DEFINE u == run[w].user
<1>1. Shape /\ StoreTyped /\ RunTyped /\ HistoryTyped /\ WorkerFits(w) /\ u \in Users /\ u # NoUser
  BY CallerHasUser, EnrichmentAssumption DEF IInv, Shape
<1>2. /\ losses' = [losses EXCEPT ![t][u] = @ + (IF uncommitted[w].calls > 0 THEN 1 ELSE 0)]
      /\ uncommitted' = [uncommitted EXCEPT ![w] = Clean]
  BY DEF LoseSession
<1>3. billed' = billed /\ paid' = paid /\ strays' = strays
  BY DEF storeVars
<1>4. OthersStay(w)
  BY DEF OthersStay
<1>5. losses' \in [CallType -> [Users -> Nat]]
  BY <1>1, <1>2 DEF HistoryTyped
<1>6. StoreTyped'
  BY <1>1 DEF StoreTyped, storeVars
<1>7. RunTyped'
  <2>1. todo' \in [Workers -> SUBSET Puzzles] /\ steps' \in [Workers -> Nat]
    BY <1>1 DEF RunTyped
  <2>2. budget' \in [Workers -> Spent]
    BY <1>1 DEF RunTyped, Unread, Spent
  <2> QED BY <1>1, <1>2, <2>1, <2>2 DEF RunTyped
<1>8. HistoryTyped'
  BY <1>1, <1>3, <1>5 DEF HistoryTyped
<1>9. WorkerFits(w)'
  <2>1. uncommitted'[w] = Clean /\ steps'[w] = 0 /\ todo'[w] \subseteq Own(run'[w].user)
    BY <1>1, <1>2 DEF RunTyped
  <2> QED BY <2>1, CleanFits
<1>10. Shape'
  BY <1>1, <1>4, <1>6, <1>7, <1>8, <1>9, ShapeStep
<1>11. \A r \in CallType : ~Calling(r, w)' /\ Open(r, w)' = 0
  BY DEF Calling, PhaseOf, Open
<1>12. ASSUME NEW r \in CallType PROVE PaidMoves(r, w) /\ CallsMove(r, w)
  <2>1. billed[r][u] \in Nat /\ Open(r, w) \in Nat /\ paid[r][u] \in Nat /\ losses[r][u] \in Nat
    BY <1>1 DEF StoreTyped, HistoryTyped, Open, WorkerFits, SessionTyped
  <2>2. CallsMove(r, w)
    BY <1>3, <1>11, <2>1 DEF CallsMove
  <2>3. CASE Open(r, w) = 0 /\ losses'[r][u] = losses[r][u]
    BY <1>3, <1>11, <2>1, <2>2, <2>3 DEF PaidMoves
  <2>4. CASE losses'[r][u] = losses[r][u] + 1
    BY <1>3, <1>11, <2>2, <2>4 DEF PaidMoves
  <2>5. CASE r # t
    <3>1. Open(r, w) = 0 /\ losses'[r][u] = losses[r][u]
      BY <1>1, <1>2, <2>5 DEF Open, HistoryTyped
    <3> QED BY <2>3, <3>1
  <2>6. CASE r = t
    <3>1. uncommitted[w].calls \in Nat
      BY <1>1 DEF WorkerFits, SessionTyped
    <3>2. CASE uncommitted[w].calls > 0
      <4>1. losses'[r][u] = losses[r][u] + 1
        BY <1>1, <1>2, <2>6, <3>2 DEF HistoryTyped
      <4> QED BY <2>4, <4>1
    <3>3. CASE uncommitted[w].calls = 0
      <4>1. losses'[r][u] = losses[r][u]
        BY <1>1, <1>2, <2>1, <2>6, <3>3 DEF HistoryTyped
      <4>2. Open(r, w) = 0
        BY <3>3 DEF Open
      <4> QED BY <2>3, <4>1, <4>2
    <3> QED BY <3>1, <3>2, <3>3
  <2> QED BY <2>5, <2>6
<1>13. BooksStay(u)
  BY <1>1, <1>2, <1>3 DEF BooksStay, HistoryTyped
<1>14. WorkStep(w)
  BY <1>1, <1>3, <1>4, <1>12, <1>13 DEF WorkStep
<1>15. StoredIsAccounted'
  BY StoreStaysAccounted DEF IInv, StoreStays, storeVars
<1> QED BY <1>10, <1>14, <1>15, WorkKeeps

LEMMA SpendType ==
    ASSUME IInv, NEW e \in Event, Spend(e)
    PROVE  left' \in [Event -> Nat]
<1>1. left \in [Event -> Nat] /\ left[e] > 0 /\ left' = [left EXCEPT ![e] = @ - 1]
  BY DEF IInv, Shape, HistoryTyped, Spend
<1> QED BY <1>1

\* What becomes of the runs when w goes on with r, and has left its job by that
\* if it had not before.
LEMMA RunGoesOn ==
    ASSUME IInv, NEW w \in Workers, run[w].phase # "idle", NEW r \in Run,
           r.phase \in {"idle", "chaining"}, r.row = "over",
           NEW ws \in SUBSET (Runs(run[w].user) \ {w}), Part(ws, "over", w, r)
    PROVE  /\ run' \in [Workers -> Run] /\ run'[w] = r
           /\ \A x \in Workers \ {w} :
                 /\ run'[x].phase = run[x].phase /\ run'[x].user = run[x].user
                 /\ run'[x].row \in {run[x].row, "over"}
                 /\ x \notin ws => run'[x] = run[x]
<1>1. run \in [Workers -> Run]
  BY DEF IInv, Shape, RunTyped
<1>2. run' = [x \in Workers |-> IF x = w THEN r
                                ELSE IF x \in ws THEN [run[x] EXCEPT !.row = "over"] ELSE run[x]]
  BY DEF Part
<1>3. \A x \in Workers :
         /\ [run[x] EXCEPT !.row = "over"] \in Run
         /\ [run[x] EXCEPT !.row = "over"].phase = run[x].phase
         /\ [run[x] EXCEPT !.row = "over"].user = run[x].user
         /\ [run[x] EXCEPT !.row = "over"].row = "over"
  BY <1>1 DEF Run
<1>4. run' \in [Workers -> Run]
  BY <1>1, <1>2, <1>3
<1>5. run'[w] = r
  BY <1>2
<1>6. ASSUME NEW x \in Workers \ {w}
      PROVE  /\ run'[x].phase = run[x].phase /\ run'[x].user = run[x].user
             /\ run'[x].row \in {run[x].row, "over"}
             /\ x \notin ws => run'[x] = run[x]
  <2>1. CASE x \in ws
    <3>1. run'[x] = [run[x] EXCEPT !.row = "over"]
      BY <1>2, <2>1
    <3> QED BY <1>3, <2>1, <3>1
  <2>2. CASE x \notin ws
    <3>1. run'[x] = run[x]
      BY <1>2, <2>2
    <3> QED BY <2>2, <3>1
  <2> QED BY <2>1, <2>2
<1> QED BY <1>4, <1>5, <1>6

\* The terminal write, whatever it finds.
LEMMA Settled ==
    ASSUME IInv, NEW w \in Workers, run[w].phase \notin {"idle", "chaining"}, strays' = strays,
           NEW r \in {Off, [run[w] EXCEPT !.phase = "chaining", !.row = "over"]}, Settle(w, r)
    PROVE  /\ run' \in [Workers -> Run] /\ job' \in [Users -> Job] /\ RunsAreFew'
           /\ run'[w].phase \in {"idle", "chaining"} /\ run'[w].row = "over"
           /\ run'[w].user \in {run[w].user, NoUser}
           /\ run'[w].phase = "idle" <=> run'[w].user = NoUser
           /\ r = Off => run'[w] = Off
           /\ \A x \in Workers \ {w} :
                 /\ run'[x].phase = run[x].phase /\ run'[x].user = run[x].user
                 /\ run'[x].row \in {run[x].row, "over"}
<1>1. PICK u \in Users : u = run[w].user
  BY CallerHasUser DEF IInv
<1>2. Shape /\ run \in [Workers -> Run] /\ job \in [Users -> Job] /\ u # NoUser
  BY EnrichmentAssumption DEF IInv, Shape, RunTyped
<1>3. Off \in Run /\ Off.phase = "idle" /\ Off.user = NoUser /\ Off.row = "over"
  BY DEF Off, Run, Phase, Scope
<1>4. PICK c \in Run : /\ c = [run[w] EXCEPT !.phase = "chaining", !.row = "over"]
                       /\ c.phase = "chaining" /\ c.row = "over" /\ c.user = u
  <2>1. PICK a \in Run : a = run[w]
    BY <1>2
  <2>2. PICK c : c = [a EXCEPT !.phase = "chaining", !.row = "over"]
    OBVIOUS
  <2>3. c = [phase |-> "chaining", user |-> a.user, scope |-> a.scope, row |-> "over"]
    BY <2>2 DEF Run
  <2>4. c \in Run
    BY <2>1, <2>3 DEF Run, Phase
  <2> QED BY <1>1, <2>1, <2>2, <2>3, <2>4
<1>5. r \in {Off, c}
  BY <1>4
<1>6. r \in Run /\ r.phase \in {"idle", "chaining"} /\ r.row = "over" /\ r.user \in {u, NoUser}
      /\ (r.phase = "idle" <=> r.user = NoUser)
  BY <1>2, <1>3, <1>4, <1>5
<1>7. /\ run' \in [Workers -> Run] /\ run'[w] \in {r, Off} /\ (r = Off => run'[w] = Off)
      /\ \A x \in Workers \ {w} :
            /\ run'[x].phase = run[x].phase /\ run'[x].user = run[x].user
            /\ run'[x].row \in {run[x].row, "over"}
            /\ x \notin Runs(u) => run'[x] = run[x]
      /\ job' \in [Users -> Job] /\ \A v \in Users \ {u} : job'[v] = job[v]
  <2>1. CASE w \in Runs(u) /\ job[u].phase = "running"
    <3>1. job' = [job EXCEPT ![u] = NoJob] /\ Part(Runs(u) \ {w}, "over", w, r)
      BY <1>1, <2>1 DEF Settle, Others
    <3>2. job' \in [Users -> Job] /\ \A v \in Users \ {u} : job'[v] = job[v]
      BY <1>2, <3>1 DEF NoJob, Job, Scope
    <3> QED BY <1>1, <1>6, <3>1, <3>2, RunGoesOn
  <2>2. CASE ~(w \in Runs(u) /\ job[u].phase = "running")
    <3>1. run' = [run EXCEPT ![w] = Off] /\ job' = job
      BY <1>1, <2>2 DEF Settle
    <3> QED BY <1>2, <1>3, <3>1
  <2> QED BY <2>1, <2>2
<1>8. run'[w].phase \in {"idle", "chaining"} /\ run'[w].row = "over"
      /\ run'[w].user \in {u, NoUser} /\ (run'[w].phase = "idle" <=> run'[w].user = NoUser)
  BY <1>2, <1>3, <1>6, <1>7
<1>9. RunsAreFew'
  <2>1. Live(u)' = Live(u) \ {w}
    BY <1>2, <1>7, <1>8 DEF Live
  <2>2. ASSUME NEW v \in Users \ {u} PROVE Live(v)' = Live(v) /\ (Attended(v) => Attended(v)')
    <3>1. w \notin Live(v) /\ w \notin Live(v)' /\ w \notin Runs(v) /\ w \notin Runs(v)'
      BY <1>1, <1>8, EnrichmentAssumption DEF Live, Runs
    <3>2. \A x \in Workers \ {w} : x \in Runs(v) => run'[x] = run[x]
      BY <1>7 DEF Runs
    <3>3. Live(v)' = Live(v) /\ Runs(v) \subseteq Runs(v)'
      BY <1>7, <3>1, <3>2 DEF Live, Runs
    <3> QED BY <1>7, <3>3 DEF Attended
  <2> QED BY <1>1, <2>1, <2>2, FewWithoutOne
<1> QED BY <1>1, <1>7, <1>8, <1>9

LEMMA FailDiagnosingKeeps ==
    ASSUME IInv, NEW w \in Workers, FailDiagnosing(w)
    PROVE  IInv'
<1>1. run[w].phase = "diagnosing"
  BY DEF FailDiagnosing, ChunkFull, AllVisited, CancelSeen, Diagnosing
<1>2. "diagnosis" \in CallType /\ \A r \in CallType \ {"diagnosis"} : ~Calling(r, w)
  BY <1>1 DEF CallType, Calling, PhaseOf
<1>3. /\ LoseSession(w, "diagnosis") /\ Settle(w, Off) /\ Forget(w)
      /\ UNCHANGED <<storeVars, paid, strays, left>>
  BY DEF FailDiagnosing
<1>4. PICK r \in {Off, [run[w] EXCEPT !.phase = "chaining", !.row = "over"]} : r = Off
  OBVIOUS
<1>5. /\ run' \in [Workers -> Run] /\ job' \in [Users -> Job] /\ RunsAreFew'
      /\ run'[w] = Off
      /\ \A x \in Workers \ {w} :
            /\ run'[x].phase = run[x].phase /\ run'[x].user = run[x].user
            /\ run'[x].row \in {run[x].row, "over"}
  <2>1. strays' = strays /\ Settle(w, r)
    BY <1>3, <1>4
  <2> QED BY <1>1, <1>4, <2>1, Settled
<1>6. \A x \in Workers \ {w} : Stays(x)
  <2>1. /\ todo' = [todo EXCEPT ![w] = {}] /\ budget' = [budget EXCEPT ![w] = Unread]
        /\ steps' = [steps EXCEPT ![w] = 0] /\ uncommitted' = [uncommitted EXCEPT ![w] = Clean]
    BY <1>3 DEF Forget, LoseSession
  <2> QED BY <1>5, <2>1 DEF IInv, Shape, RunTyped, Stays
<1>7. left' \in [Event -> Nat]
  BY <1>3 DEF IInv, Shape, HistoryTyped
<1>8. run'[w].phase = "idle" /\ run'[w].user = NoUser /\ run'[w].row = "over"
  BY <1>5 DEF Off
<1>9. /\ todo' = [todo EXCEPT ![w] = {}] /\ budget' = [budget EXCEPT ![w] = Unread]
      /\ steps' = [steps EXCEPT ![w] = 0]
  BY <1>3 DEF Forget
<1>10. run[w].phase # "idle"
  BY <1>1
<1> QED BY <1>2, <1>3, <1>5, <1>6, <1>7, <1>8, <1>9, <1>10, LoseKeeps

LEMMA LoseNamesKeeps ==
    ASSUME IInv, NEW w \in Workers, LoseNames(w)
    PROVE  IInv'
<1>1. run[w].phase = "naming"
  BY DEF LoseNames, PassOver
<1>2. "naming" \in CallType /\ (\A r \in CallType \ {"naming"} : ~Calling(r, w)) /\ "mishap" \in Event
  BY <1>1 DEF CallType, Calling, PhaseOf, Event
<1>3. /\ Spend("mishap") /\ LoseSession(w, "naming") /\ EndPass(w, "ended", {})
      /\ UNCHANGED <<storeVars, job, paid, strays>>
  BY DEF LoseNames
<1>4. Shape /\ run \in [Workers -> Run] /\ job \in [Users -> Job] /\ DOMAIN uncommitted = Workers
      /\ DOMAIN todo = Workers /\ DOMAIN budget = Workers /\ DOMAIN steps = Workers
      /\ run[w].user \in Users /\ run[w].user # NoUser
  BY <1>1, CallerHasUser, EnrichmentAssumption DEF IInv, Shape, RunTyped
<1>5. /\ run' = [run EXCEPT ![w].phase = "ended"] /\ todo' = [todo EXCEPT ![w] = {}]
      /\ budget' = [budget EXCEPT ![w] = Unread] /\ steps' = [steps EXCEPT ![w] = 0]
      /\ uncommitted' = [uncommitted EXCEPT ![w] = Clean]
  BY <1>3 DEF EndPass, SetPhase, LoseSession
<1>6. /\ run'[w].phase = "ended" /\ run'[w].user = run[w].user /\ run'[w].row = run[w].row
      /\ \A x \in Workers \ {w} : run'[x] = run[x]
      /\ run' \in [Workers -> Run]
  BY <1>4, <1>5 DEF Run, Phase
<1>7. \A x \in Workers \ {w} : Stays(x)
  BY <1>4, <1>5, <1>6 DEF Stays
<1>8. RunsAreFew'
  <2>1. \A x \in Workers : /\ run'[x].user = run[x].user /\ run'[x].row = run[x].row
                           /\ run'[x].phase = "chaining" <=> run[x].phase = "chaining"
    BY <1>1, <1>6
  <2> QED BY <1>3, <2>1, RunsStayFew
<1>9. left' \in [Event -> Nat]
  BY <1>2, <1>3, SpendType
<1> QED BY <1>1, <1>2, <1>3, <1>4, <1>5, <1>6, <1>7, <1>8, <1>9, LoseKeeps

LEMMA CrashKeeps ==
    ASSUME IInv, NEW w \in Workers, Crash(w)
    PROVE  IInv'
<1>1. PICK t \in CallType : t = IF run[w].phase = "naming" THEN "naming" ELSE "diagnosis"
  BY DEF CallType
<1>2. /\ Spend("mishap") /\ run[w].phase # "idle" /\ LoseSession(w, t)
      /\ run' = [run EXCEPT ![w] = Off] /\ Forget(w)
      /\ UNCHANGED <<storeVars, job, paid, strays>>
  BY <1>1 DEF Crash
<1>3. \A r \in CallType \ {t} : ~Calling(r, w)
  BY <1>1 DEF CallType, Calling, PhaseOf
<1>4. Shape /\ run \in [Workers -> Run] /\ job \in [Users -> Job] /\ DOMAIN uncommitted = Workers
      /\ DOMAIN todo = Workers /\ DOMAIN budget = Workers /\ DOMAIN steps = Workers
      /\ WorkerFits(w)
  BY DEF IInv, Shape, RunTyped
<1>5. PICK u \in Users : u = run[w].user
  BY <1>2, CallerHasUser DEF IInv
<1>6. /\ run' \in [Workers -> Run] /\ run'[w] = Off
      /\ \A x \in Workers \ {w} : run'[x] = run[x]
      /\ Off.phase = "idle" /\ Off.user = NoUser /\ Off.row = "over"
  BY <1>2, <1>4 DEF Off, Run, Phase, Scope
<1>7. \A x \in Workers \ {w} : Stays(x)
  BY <1>2, <1>4, <1>6 DEF Stays, Forget, LoseSession
<1>8. RunsAreFew'
  <2>1. u # NoUser /\ \A v \in Users : v # NoUser
    BY EnrichmentAssumption
  <2>2. \A v \in Users \ {u} : Live(v)' = Live(v) /\ Runs(v)' = Runs(v)
    BY <1>5, <1>6, <2>1 DEF Live, Runs
  <2>3. \A v \in Users \ {u} : Attended(v) => Attended(v)'
    BY <1>2, <2>2 DEF Attended
  <2>4. CASE run[w].phase = "chaining"
    <3>1. run[w].row # "current"
      BY <1>4, <2>4 DEF WorkerFits
    <3>2. Live(u)' = Live(u) /\ Runs(u)' = Runs(u)
      BY <1>5, <1>6, <2>1, <2>4, <3>1 DEF Live, Runs
    <3>3. \A v \in Users : Live(v)' = Live(v) /\ (Attended(v) => Attended(v)')
      BY <1>2, <2>2, <2>3, <3>2 DEF Attended
    <3> QED BY <1>2, <3>3, FewAsBefore
  <2>5. CASE run[w].phase # "chaining"
    <3>1. Live(u)' = Live(u) \ {w}
      BY <1>5, <1>6, <2>1 DEF Live
    <3> QED BY <1>2, <1>5, <2>2, <2>3, <2>5, <3>1, FewWithoutOne
  <2> QED BY <2>4, <2>5
<1>9. left' \in [Event -> Nat]
  BY <1>2, SpendType DEF Event
<1> QED BY <1>2, <1>3, <1>4, <1>6, <1>7, <1>8, <1>9, LoseKeeps DEF Forget

-----------------------------------------------------------------------------
(* The steps that visit a puzzle *)

\* No call was made, and there is no more room than there was; or one was.
NoCall(w) ==
    /\ uncommitted'[w].calls = uncommitted[w].calls /\ paid' = paid
    /\ budget'[w].user >= budget[w].user /\ budget'[w].global >= budget[w].global

OneCall(w, t) ==
    /\ ~Exhausted(w, t) /\ budget'[w] = SpendOne(budget[w])
    /\ uncommitted'[w].calls = uncommitted[w].calls + 1
    /\ paid' = [paid EXCEPT ![t][run[w].user] = @ + 1]

LEMMA VisitKeeps ==
    ASSUME IInv, NEW w \in Workers, NEW t \in CallType, Calling(t, w), NEW record,
           uncommitted' = [uncommitted EXCEPT ![w] = record],
           SessionTyped(record, run[w].user),
           IF t = "diagnosis" THEN DiagnosesFit(record) ELSE NamesFit(record),
           NEW p \in Puzzles, todo' = [todo EXCEPT ![w] = @ \ {p}],
           steps[w] < Chunk(t), steps' = [steps EXCEPT ![w] = @ + 1],
           budget' \in [Workers -> Spent], \A x \in Workers \ {w} : budget'[x] = budget[x],
           UNCHANGED <<storeVars, job, run, losses, strays, left>>,
           NoCall(w) \/ OneCall(w, t)
    PROVE  IInv'
<1> DEFINE u == run[w].user
<1>1. Shape /\ StoreTyped /\ RunTyped /\ HistoryTyped /\ WorkerFits(w) /\ u \in Users /\ u # NoUser
      /\ run[w].phase \in {"diagnosing", "naming"}
  BY CallerHasUser, CallsOneType, EnrichmentAssumption DEF IInv, Shape
<1>2. /\ billed' = billed /\ losses' = losses /\ strays' = strays /\ job' = job /\ run' = run
  BY DEF storeVars
<1>3. uncommitted'[w] = record /\ \A x \in Workers \ {w} : uncommitted'[x] = uncommitted[x]
  BY <1>1 DEF RunTyped
<1>4. /\ record.calls \in Nat /\ uncommitted[w].calls \in Nat
      /\ record.calls \in {uncommitted[w].calls, uncommitted[w].calls + 1}
  BY <1>1, <1>3 DEF WorkerFits, SessionTyped, NoCall, OneCall
<1>5. /\ todo' \in [Workers -> SUBSET Puzzles] /\ todo'[w] \subseteq todo[w]
      /\ \A x \in Workers \ {w} : todo'[x] = todo[x]
      /\ steps' \in [Workers -> Nat] /\ steps'[w] = steps[w] + 1 /\ steps[w] \in Nat
      /\ \A x \in Workers \ {w} : steps'[x] = steps[x]
  BY <1>1 DEF RunTyped
<1>6. OthersStay(w)
  BY <1>2, <1>3, <1>5 DEF OthersStay, Stays
<1>7. paid' \in [CallType -> [Users -> Nat]]
      /\ \A r \in CallType : \A v \in Users \ {u} : paid'[r][v] = paid[r][v]
  <2>1. CASE NoCall(w)
    BY <1>1, <2>1 DEF NoCall, HistoryTyped
  <2>2. CASE OneCall(w, t)
    BY <1>1, <2>2 DEF OneCall, HistoryTyped
  <2> QED BY <2>1, <2>2
<1>8. StoreTyped' /\ HistoryTyped'
  BY <1>1, <1>2, <1>7 DEF StoreTyped, HistoryTyped, storeVars
<1>9. RunTyped'
  BY <1>1, <1>2, <1>5 DEF RunTyped
<1>10. WorkerFits(w)'
  <2>1. SessionTyped(uncommitted[w], run[w].user)'
    BY <1>2, <1>3 DEF SessionTyped, Own, Clean
  <2>2. Chunk(t) \in Nat
    BY ChunkType
  <2>3. uncommitted[w].calls <= steps[w]
    BY <1>1 DEF WorkerFits, SessionFits
  <2>4. record.calls <= steps'[w] /\ steps'[w] <= Chunk(t)
    BY <1>4, <1>5, <2>2, <2>3
  <2>5. ASSUME NEW r \in CallType, Calling(r, w)' PROVE r = t
    BY <1>2, <2>5 DEF Calling, PhaseOf, CallType
  <2>6. SessionFits(w)'
    BY <1>3, <2>4, <2>5 DEF SessionFits, DiagnosesFit, NamesFit, Chunk
  <2>7. todo'[w] \subseteq Own(u)
    BY <1>1, <1>5 DEF WorkerFits
  <2> QED BY <1>1, <1>2, <2>1, <2>6, <2>7 DEF WorkerFits, Own, Clean
<1>11. Shape'
  BY <1>1, <1>6, <1>8, <1>9, <1>10, ShapeStep
<1>12. RunsAreFew'
  BY <1>2, RunsStayFew
<1>13. \A r \in CallType : Calling(r, w)' <=> Calling(r, w)
  BY <1>2 DEF Calling, PhaseOf
<1>14. ASSUME NEW r \in CallType PROVE PaidMoves(r, w) /\ CallsMove(r, w)
  <2>1. /\ billed[r][u] \in Nat /\ paid[r][u] \in Nat /\ Open(r, w) \in Nat
        /\ budget[w].user \in Nat /\ budget[w].global \in Nat
        /\ budget'[w].user \in Nat /\ budget'[w].global \in Nat
    BY <1>1 DEF StoreTyped, HistoryTyped, RunTyped, Spent, Open, WorkerFits, SessionTyped
  <2>2. CASE r = t
    <3>1. Open(r, w) = uncommitted[w].calls /\ Open(r, w)' = uncommitted'[w].calls
      BY <1>13, <2>2 DEF Open
    <3>2. CASE NoCall(w)
      BY <1>2, <1>13, <2>1, <2>2, <3>1, <3>2 DEF NoCall, PaidMoves, CallsMove
    <3>3. CASE OneCall(w, t)
      <4>1. paid'[r][u] = paid[r][u] + 1
        BY <1>1, <2>2, <3>3 DEF OneCall, HistoryTyped
      <4>2. budget'[w].user = budget[w].user + 1 /\ budget'[w].global = budget[w].global + 1
        BY <3>3 DEF OneCall, SpendOne
      <4>3. PaidMoves(r, w)
        BY <1>2, <2>1, <3>1, <3>3, <4>1 DEF PaidMoves, OneCall
      <4>4. CallsMove(r, w)
        BY <1>2, <2>2, <3>1, <3>3, <4>2 DEF CallsMove, OneCall
      <4> QED BY <4>3, <4>4
    <3> QED BY <3>2, <3>3
  <2>3. CASE r # t
    <3>1. ~Calling(r, w) /\ Open(r, w) = 0 /\ ~Calling(r, w)' /\ Open(r, w)' = 0
      BY <1>13, <2>3, CallsOneType DEF Open
    <3>2. paid'[r][u] = paid[r][u]
      <4>1. CASE NoCall(w)
        BY <4>1 DEF NoCall
      <4>2. CASE OneCall(w, t)
        BY <1>1, <2>3, <4>2 DEF OneCall, HistoryTyped
      <4> QED BY <4>1, <4>2
    <3> QED BY <1>2, <2>1, <3>1, <3>2 DEF PaidMoves, CallsMove
  <2> QED BY <2>2, <2>3
<1>15. WorkStep(w)
  BY <1>1, <1>2, <1>6, <1>7, <1>14 DEF WorkStep, BooksStay
<1>16. StoredIsAccounted'
  BY StoreStaysAccounted DEF IInv, StoreStays, storeVars
<1> QED BY <1>11, <1>12, <1>15, <1>16, WorkKeeps

LEMMA DiagnoseOneKeeps ==
    ASSUME IInv, NEW w \in Workers, NEW p \in Puzzles,
           NEW o \in Responses \union {"exhausted", "skipped", "unavailable"},
           DiagnoseOne(w, p, o)
    PROVE  IInv'
<1> DEFINE s == uncommitted[w]
           u == run[w].user
           called == o \in Answered
<1>1. Shape /\ RunTyped /\ HistoryTyped /\ StoreTyped /\ WorkerFits(w) /\ "diagnosis" \in CallType
  BY DEF IInv, Shape, CallType
<1>2. Calling("diagnosis", w) /\ run[w].phase = "diagnosing"
  BY DEF DiagnoseOne, Calling, PhaseOf
<1>3. /\ p \in todo[w] /\ o \in DiagnosisOutcome(w, p)
      /\ steps[w] < Chunk("diagnosis")
      /\ todo' = [todo EXCEPT ![w] = @ \ {p}] /\ steps' = [steps EXCEPT ![w] = @ + 1]
      /\ UNCHANGED <<storeVars, job, run, losses, strays, left>>
  BY DEF DiagnoseOne, Chunk
<1>4. p \in Own(u)
  BY <1>1, <1>2, <1>3 DEF WorkerFits
<1>5. PICK stored \in Diagnosis : stored = StoredDiagnosis(o)
  BY DEF StoredDiagnosis, Diagnosis
<1>6. DOMAIN s = {"diagnosis", "created", "named", "calls", "answered", "failures", "cleared"}
  BY <1>1 DEF WorkerFits, SessionTyped, Clean
<1>7. PICK up : up = Upserted(s, p, stored)
  OBVIOUS
<1>8. /\ DOMAIN up = DOMAIN s /\ up.named = s.named /\ up.calls = s.calls
      /\ up.answered = s.answered /\ up.failures = s.failures /\ up.cleared = s.cleared
      /\ \/ up.diagnosis = s.diagnosis
         \/ /\ diagnosis[p] # stored
            /\ up.diagnosis = [q \in DOMAIN s.diagnosis \union {p} |->
                                  IF q = p THEN stored ELSE s.diagnosis[q]]
  BY <1>6, <1>7 DEF Upserted
<1>9. PICK record : record = [up EXCEPT !.calls = IF called THEN @ + 1 ELSE @]
  OBVIOUS
<1>10. /\ DOMAIN record = DOMAIN s /\ record.named = s.named
       /\ record.calls = (IF called THEN s.calls + 1 ELSE s.calls)
       /\ record.answered = s.answered /\ record.failures = s.failures
       /\ record.cleared = s.cleared /\ record.diagnosis = up.diagnosis
  BY <1>6, <1>8, <1>9
<1>11. uncommitted' = [uncommitted EXCEPT ![w] = record]
  <2>1. uncommitted' = [uncommitted EXCEPT ![w] = Visited(s, p, o)]
    BY DEF DiagnoseOne
  <2>2. record = Visited(s, p, o)
    BY <1>5, <1>7, <1>9 DEF Visited
  <2> QED BY <2>1, <2>2
<1>12. SessionTyped(record, u)
  <2>1. SessionTyped(s, u)
    BY <1>1 DEF WorkerFits
  <2>2. /\ DOMAIN record.diagnosis \subseteq Own(u)
        /\ \A q \in DOMAIN record.diagnosis : record.diagnosis[q] \in Diagnosis
    BY <1>4, <1>8, <1>10, <2>1 DEF SessionTyped
  <2>3. record.calls \in Nat
    BY <1>10, <2>1 DEF SessionTyped
  <2> QED BY <1>10, <2>1, <2>2, <2>3 DEF SessionTyped
<1>13. ~called => stored # "llm"
  BY <1>5 DEF StoredDiagnosis, Answered
<1>14. DiagnosesFit(record)
  <2> DEFINE llm == {q \in DOMAIN s.diagnosis : s.diagnosis[q] = "llm"}
             llm1 == {q \in DOMAIN record.diagnosis : record.diagnosis[q] = "llm"}
  <2>1. s.named = {} /\ s.answered = {} /\ Cardinality(llm) <= s.calls
    BY <1>1, <1>2 DEF WorkerFits, SessionFits, DiagnosesFit
  <2>2. s.calls \in Nat
    BY <1>1 DEF WorkerFits, SessionTyped
  <2>3. IsFiniteSet(llm) /\ Cardinality(llm) \in Nat
    <3>1. IsFiniteSet(Own(u)) /\ llm \subseteq Own(u)
      BY <1>1, FS_Subset, EnrichmentAssumption DEF WorkerFits, SessionTyped, Own
    <3> HIDE DEF llm
    <3> QED BY <3>1, FS_Subset, FS_CardinalityType
  <2>4. llm1 \subseteq llm \union {p} /\ (~called => llm1 \subseteq llm)
    BY <1>8, <1>10, <1>13
  <2>5. Cardinality(llm1) <= record.calls
    <3>1. CASE called
      <4>1. IsFiniteSet({p}) /\ Cardinality({p}) = 1
        BY FS_Singleton
      <4>2. llm1 \in SUBSET (llm \union {p})
        BY <2>4
      <4> HIDE DEF llm, llm1
      <4>3. Cardinality(llm1) <= Cardinality(llm) + 1
        BY <2>3, <4>1, <4>2, AtMostBoth
      <4>4. Cardinality(llm1) \in Nat
        BY <2>3, <4>1, <4>2, FS_Union, FS_Subset, FS_CardinalityType
      <4>5. record.calls = s.calls + 1
        BY <1>10, <3>1
      <4> QED BY <2>1, <2>2, <2>3, <4>3, <4>4, <4>5
    <3>2. CASE ~called
      <4>1. llm1 \subseteq llm
        BY <2>4, <3>2
      <4>2. record.calls = s.calls
        BY <1>10, <3>2
      <4> HIDE DEF llm, llm1
      <4>3. Cardinality(llm1) <= Cardinality(llm) /\ Cardinality(llm1) \in Nat
        BY <2>3, <4>1, FS_Subset, FS_CardinalityType
      <4> QED BY <2>1, <2>2, <2>3, <4>2, <4>3
    <3> QED BY <3>1, <3>2
  <2> QED BY <1>10, <2>1, <2>5 DEF DiagnosesFit
<1>15. /\ budget' \in [Workers -> Spent] /\ \A x \in Workers \ {w} : budget'[x] = budget[x]
       /\ budget'[w] = IF Attempted(o) THEN SpendOne(budget[w]) ELSE budget[w]
  <2>1. budget \in [Workers -> Spent] /\ SpendOne(budget[w]) \in Spent
    BY <1>1 DEF RunTyped, SpendOne, Spent
  <2>2. budget' = [budget EXCEPT ![w] = IF Attempted(o) THEN SpendOne(@) ELSE @]
    BY DEF DiagnoseOne
  <2> QED BY <2>1, <2>2
<1>16. NoCall(w) \/ OneCall(w, "diagnosis")
  <2>1. paid' = [paid EXCEPT !["diagnosis"][u] = IF called THEN @ + 1 ELSE @]
    BY DEF DiagnoseOne
  <2>2. uncommitted'[w] = record
    BY <1>1, <1>11 DEF RunTyped
  <2>3. CASE called
    <3>1. ~Exhausted(w, "diagnosis")
      BY <1>3, <2>3 DEF DiagnosisOutcome, Answered
    <3>2. budget'[w] = SpendOne(budget[w])
      BY <1>15, <2>3 DEF Attempted
    <3>3. paid' = [paid EXCEPT !["diagnosis"][u] = @ + 1] /\ record.calls = s.calls + 1
      BY <1>10, <2>1, <2>3
    <3> QED BY <2>2, <3>1, <3>2, <3>3 DEF OneCall
  <2>4. CASE ~called
    <3>1. paid' = paid /\ record.calls = s.calls
      BY <1>1, <1>10, <2>1, <2>4 DEF HistoryTyped
    <3>2. budget[w].user \in Nat /\ budget[w].global \in Nat
      BY <1>1 DEF RunTyped, Spent
    <3>3. budget'[w].user >= budget[w].user /\ budget'[w].global >= budget[w].global
      BY <1>15, <3>2 DEF SpendOne
    <3> QED BY <2>2, <3>1, <3>3 DEF NoCall
  <2> QED BY <2>3, <2>4
<1> QED BY <1>1, <1>2, <1>3, <1>11, <1>12, <1>14, <1>15, <1>16, VisitKeeps

\* The next puzzle gets its name or keeps it, and the session its record.
LEMMA NameNextKeeps ==
    ASSUME IInv, NEW w \in Workers, Naming(w), NEW record, NameNext(w, record),
           SessionTyped(record, run[w].user), NamesFit(record),
           budget' \in [Workers -> Spent], \A x \in Workers \ {w} : budget'[x] = budget[x],
           uncommitted'[w] = record => NoCall(w) \/ OneCall(w, "naming")
    PROVE  IInv'
<1>1. Shape /\ RunTyped /\ WorkerFits(w) /\ "naming" \in CallType /\ Calling("naming", w)
  BY DEF IInv, Shape, CallType, Naming, Calling, PhaseOf
<1>2. PICK p \in Puzzles : p = Min(todo[w])
  <2>1. todo[w] # {} /\ todo[w] \subseteq Puzzles /\ todo[w] \in SUBSET Nat
    BY <1>1, EnrichmentAssumption DEF Naming, RunTyped
  <2> QED BY <2>1, MinOfSome
<1>3. /\ todo' = [todo EXCEPT ![w] = @ \ {p}] /\ steps' = [steps EXCEPT ![w] = @ + 1]
      /\ uncommitted' = [uncommitted EXCEPT ![w] = record]
      /\ UNCHANGED <<storeVars, job, run, losses, strays, left>>
      /\ steps[w] < Chunk("naming")
  BY <1>2 DEF NameNext, Naming, Chunk
<1>4. NoCall(w) \/ OneCall(w, "naming")
  BY <1>1, <1>3 DEF RunTyped
<1> QED BY <1>1, <1>3, <1>4, VisitKeeps

LEMMA NamingSession ==
    ASSUME IInv, NEW w \in Workers, Naming(w)
    PROVE  /\ SessionTyped(uncommitted[w], run[w].user) /\ NamesFit(uncommitted[w])
           /\ todo[w] \subseteq Own(run[w].user) /\ Min(todo[w]) \in todo[w]
<1>1. WorkerFits(w) /\ RunTyped /\ run[w].phase = "naming" /\ todo[w] # {}
  BY DEF IInv, Shape, Naming
<1>2. NamesFit(uncommitted[w])
  BY <1>1 DEF WorkerFits, SessionFits, Calling, PhaseOf, CallType
<1>3. Min(todo[w]) \in todo[w]
  <2>1. todo[w] \in SUBSET Nat
    BY <1>1, EnrichmentAssumption DEF RunTyped
  <2> QED BY <1>1, <2>1, MinOfSome
<1> QED BY <1>1, <1>2, <1>3 DEF WorkerFits

\* Without an answer: one failure more.
LEMMA FailedNameKeeps ==
    ASSUME IInv, NEW w \in Workers, Naming(w), NameNext(w, Failed(uncommitted[w])),
           UNCHANGED <<budget, paid>>
    PROVE  IInv'
<1> DEFINE s == uncommitted[w]
           u == run[w].user
<1>1. RunTyped /\ SessionTyped(s, u) /\ NamesFit(s)
  BY NamingSession DEF IInv, Shape
<1>2. PICK record : record = Failed(s)
  OBVIOUS
<1>3. /\ DOMAIN record = DOMAIN Clean
      /\ record.diagnosis = s.diagnosis /\ record.named = s.named
      /\ record.calls = s.calls /\ record.answered = s.answered /\ record.cleared = s.cleared
      /\ record.failures = Min({s.failures + 1, ErrorStreakLimit})
  <2>1. DOMAIN s = {"diagnosis", "created", "named", "calls", "answered", "failures", "cleared"}
    BY <1>1 DEF SessionTyped, Clean
  <2> QED BY <1>2, <2>1 DEF Failed, Clean
<1>4. record.failures \in 0..ErrorStreakLimit
  <2>1. s.failures + 1 \in Nat /\ ErrorStreakLimit \in Nat
    BY <1>1, EnrichmentAssumption DEF SessionTyped
  <2> QED BY <1>3, <2>1, MinOfTwo
<1>5. SessionTyped(record, u)
  BY <1>1, <1>3, <1>4 DEF SessionTyped
<1>6. NamesFit(record)
  BY <1>1, <1>3 DEF NamesFit
<1>7. /\ budget' \in [Workers -> Spent] /\ budget' = budget /\ paid' = paid
      /\ budget[w].user \in Nat /\ budget[w].global \in Nat
  BY <1>1 DEF RunTyped, Spent
<1>8. uncommitted'[w] = record => NoCall(w)
  BY <1>3, <1>7 DEF NoCall
<1> QED BY <1>2, <1>5, <1>6, <1>7, <1>8, NameNextKeeps

\* With an answer: a call that is counted, and the failures before it cleared.
AnswerRecord(w, names) ==
    [uncommitted[w] EXCEPT !.named = names, !.calls = @ + 1,
                           !.answered = @ \union {Min(todo[w])},
                           !.failures = 0, !.cleared = TRUE]

LEMMA AnsweredNameKeeps ==
    ASSUME IInv, NEW w \in Workers, Naming(w), ~Exhausted(w, "naming"), NEW names,
           names \in {uncommitted[w].named, uncommitted[w].named \union {Min(todo[w])}},
           NameNext(w, AnswerRecord(w, names)),
           budget' = [budget EXCEPT ![w] = SpendOne(@)],
           paid' = [paid EXCEPT !["naming"][run[w].user] = @ + 1]
    PROVE  IInv'
<1> DEFINE s == uncommitted[w]
           u == run[w].user
<1>1. RunTyped /\ SessionTyped(s, u) /\ NamesFit(s)
  BY NamingSession DEF IInv, Shape
<1>2. PICK p \in Own(u) : p = Min(todo[w])
  BY NamingSession
<1>3. PICK record : record = AnswerRecord(w, names)
  OBVIOUS
<1>4. /\ DOMAIN record = DOMAIN Clean
      /\ record.diagnosis = s.diagnosis /\ record.named = names
      /\ record.calls = s.calls + 1 /\ record.answered = s.answered \union {p}
      /\ record.cleared = TRUE /\ record.failures = 0
  <2>1. DOMAIN s = {"diagnosis", "created", "named", "calls", "answered", "failures", "cleared"}
    BY <1>1 DEF SessionTyped, Clean
  <2> QED BY <1>2, <1>3, <2>1 DEF Clean, AnswerRecord
<1>5. Cardinality(record.answered) <= record.calls
  <2>1. IsFiniteSet(s.answered) /\ IsFiniteSet({p}) /\ Cardinality({p}) = 1
    <3>1. IsFiniteSet(Own(u))
      BY FS_Subset, EnrichmentAssumption DEF Own
    <3> QED BY <1>1, <3>1, FS_Subset, FS_Singleton DEF SessionTyped
  <2>2. PICK all : all = s.answered \union {p}
    OBVIOUS
  <2>3. Cardinality(all) <= Cardinality(s.answered) + 1
    BY <2>1, <2>2, AtMostBoth
  <2>4. Cardinality(all) \in Nat /\ Cardinality(s.answered) \in Nat
    BY <2>1, <2>2, FS_Union, FS_CardinalityType
  <2>5. Cardinality(s.answered) <= s.calls /\ s.calls \in Nat
    BY <1>1 DEF NamesFit, SessionTyped
  <2> QED BY <1>4, <2>2, <2>3, <2>4, <2>5
<1>6. NamesFit(record)
  <2>1. record.named \subseteq record.answered
    BY <1>1, <1>2, <1>4 DEF NamesFit
  <2> QED BY <1>1, <1>4, <1>5, <2>1 DEF NamesFit
<1>7. SessionTyped(record, u)
  <2>1. record.failures \in 0..ErrorStreakLimit
    <3>1. ErrorStreakLimit \in Nat /\ record.failures = 0
      BY <1>4, EnrichmentAssumption, Zenon
    <3> QED BY <3>1
  <2>2. record.named \subseteq Own(u) /\ record.answered \subseteq Own(u)
    BY <1>1, <1>2, <1>4 DEF SessionTyped
  <2>3. record.calls \in Nat
    BY <1>1, <1>4 DEF SessionTyped
  <2> QED BY <1>1, <1>4, <2>1, <2>2, <2>3 DEF SessionTyped
<1>8. /\ budget' \in [Workers -> Spent] /\ \A x \in Workers \ {w} : budget'[x] = budget[x]
      /\ budget'[w] = SpendOne(budget[w])
  <2>1. budget \in [Workers -> Spent] /\ SpendOne(budget[w]) \in Spent
    BY <1>1 DEF RunTyped, SpendOne, Spent
  <2> QED BY <2>1
<1>9. uncommitted'[w] = record => OneCall(w, "naming")
  BY <1>4, <1>8 DEF OneCall
<1> QED BY <1>3, <1>6, <1>7, <1>8, <1>9, NameNextKeeps

LEMMA NameKeeps ==
    ASSUME IInv, NEW w \in Workers,
           NameExhausted(w) \/ NameSkipped(w) \/ \E status \in Responses : NameCalled(w, status)
    PROVE  IInv'
<1>1. CASE NameExhausted(w) \/ NameSkipped(w)
  BY <1>1, FailedNameKeeps DEF NameExhausted, NameSkipped
<1>2. ASSUME NEW status \in Responses, NameCalled(w, status) PROVE IInv'
  <2>1. CASE status = "error"
    BY <1>2, <2>1, FailedNameKeeps DEF NameCalled
  <2>2. CASE status # "error"
    <3>1. PICK names : names = IF status = "accepted" THEN uncommitted[w].named \union {Min(todo[w])}
                                                      ELSE uncommitted[w].named
      OBVIOUS
    <3>2. Naming(w) /\ ~Exhausted(w, "naming") /\ NameNext(w, AnswerRecord(w, names))
      BY <1>2, <2>2, <3>1 DEF NameCalled, AnswerRecord
    <3>3. /\ budget' = [budget EXCEPT ![w] = SpendOne(@)]
          /\ paid' = [paid EXCEPT !["naming"][run[w].user] = @ + 1]
      BY <1>2, <2>2 DEF NameCalled
    <3> QED BY <3>1, <3>2, <3>3, AnsweredNameKeeps
  <2> QED BY <2>1, <2>2
<1> QED BY <1>1, <1>2

-----------------------------------------------------------------------------
(* The steps that touch no session *)

\* What becomes of one worker that has no open session, before or after.
LEMMA QuietKeeps ==
    ASSUME IInv, NEW w \in Workers,
           run[w].phase \notin {"diagnosing", "naming"},
           run' \in [Workers -> Run], job' \in [Users -> Job],
           \A x \in Workers \ {w} : Stays(x),
           run'[w].phase \notin {"diagnosing", "naming"},
           run'[w].phase = "idle" <=> run'[w].user = NoUser,
           run'[w].phase \in {"idle", "chaining"} => run'[w].row # "current",
           run'[w].phase \in {"selected", "listed"} => todo'[w] \subseteq Own(run'[w].user),
           todo' \in [Workers -> SUBSET Puzzles], RunsAreFew',
           UNCHANGED <<storeVars, budget, uncommitted, steps, historyVars, left>>
    PROVE  IInv'
<1>1. Shape /\ StoreTyped /\ RunTyped /\ HistoryTyped /\ WorkerFits(w)
  BY DEF IInv, Shape
<1>2. uncommitted' = uncommitted /\ steps' = steps /\ budget' = budget
  OBVIOUS
<1>3. StoreTyped' /\ RunTyped' /\ HistoryTyped'
  BY <1>1 DEF StoreTyped, RunTyped, HistoryTyped, storeVars, historyVars
<1>4. WorkerFits(w)'
  <2>1. uncommitted'[w] = Clean /\ steps'[w] = 0
    BY <1>1, <1>2 DEF WorkerFits
  <2> QED BY <2>1, CleanFits
<1>5. Shape'
  BY <1>1, <1>3, <1>4, ShapeStep DEF OthersStay
<1>6. RestStep
  <2>1. UNCHANGED <<billed, paid, losses, uncommitted, budget>>
    BY DEF storeVars, historyVars
  <2>2. \A u \in Users : strays[u] <= strays'[u]
    BY <1>1 DEF historyVars, HistoryTyped
  <2>3. \A x \in Workers :
           {run[x].phase, run'[x].phase} \intersect {"diagnosing", "naming"} # {} =>
               run'[x].phase = run[x].phase /\ run'[x].user = run[x].user
    BY DEF Stays
  <2> QED BY <2>1, <2>2, <2>3 DEF RestStep
<1>7. StoredIsAccounted'
  BY StoreStaysAccounted DEF IInv, StoreStays, storeVars
<1> QED BY <1>5, <1>6, <1>7, RestKeeps

LEMMA ClaimKeeps ==
    ASSUME IInv, NEW w \in Workers, NEW u \in Users, Claim(w, u)
    PROVE  IInv'
<1>1. RunTyped /\ WorkerFits(w) /\ u # NoUser /\ run[w].user = NoUser /\ run[w].phase = "idle"
  BY EnrichmentAssumption DEF IInv, Shape, Claim, WorkerFits
<1>2. PICK r \in Run : /\ r = [phase |-> "claimed", user |-> u, scope |-> job[u].scope, row |-> "current"]
                       /\ r.phase = "claimed" /\ r.user = u /\ r.row = "current"
  <2>1. PICK scope \in Scope : scope = job[u].scope
    BY <1>1 DEF RunTyped, Job
  <2>2. [phase |-> "claimed", user |-> u, scope |-> scope, row |-> "current"] \in Run
    BY DEF Run, Phase
  <2> QED BY <2>1, <2>2
<1>3. /\ run' = [run EXCEPT ![w] = r] /\ job' = [job EXCEPT ![u].phase = "running"]
      /\ job[u].phase = "queued"
      /\ UNCHANGED <<storeVars, passVars, historyVars, left>>
  BY <1>2 DEF Claim
<1>4. /\ run' \in [Workers -> Run] /\ run'[w] = r /\ \A x \in Workers \ {w} : run'[x] = run[x]
      /\ job' \in [Users -> Job] /\ job'[u].phase = "running"
      /\ \A v \in Users \ {u} : job'[v] = job[v]
  BY <1>1, <1>3 DEF RunTyped, Job
<1>5. \A x \in Workers \ {w} : Stays(x)
  BY <1>3, <1>4 DEF Stays, passVars
<1>6. RunsAreFew'
  <2> SUFFICES ASSUME NEW v \in Users
               PROVE  Cardinality(Live(v)') <= strays'[v] + (IF Attended(v)' THEN 1 ELSE 0)
    BY DEF RunsAreFew, Live, Attended
  <2>1. Cardinality(Live(v)) <= strays[v] + (IF Attended(v) THEN 1 ELSE 0)
    BY DEF IInv, RunsAreFew
  <2>2. IsFiniteSet(Live(v)) /\ Cardinality(Live(v)) \in Nat /\ strays[v] \in Nat /\ strays'[v] = strays[v]
    <3>1. Live(v) \subseteq Workers
      BY DEF Live
    <3> QED BY <1>3, <3>1, FS_Subset, FS_CardinalityType, EnrichmentAssumption
         DEF IInv, Shape, HistoryTyped, historyVars
  <2>3. v # NoUser
    BY EnrichmentAssumption
  <2>4. CASE v = u
    <3>1. ~Attended(u) /\ Attended(u)'
      BY <1>2, <1>3, <1>4 DEF Attended, Runs
    <3>2. Live(u)' = Live(u) \union {w} /\ w \notin Live(u)
      BY <1>1, <1>2, <1>4 DEF Live
    <3>3. Cardinality(Live(u)') = Cardinality(Live(u)) + 1
      BY <2>2, <2>4, <3>2, FS_AddElement
    <3> QED BY <2>1, <2>2, <2>4, <3>1, <3>3
  <2>5. CASE v # u
    <3>1. Live(v)' = Live(v) /\ Runs(v)' = Runs(v)
      BY <1>1, <1>2, <1>4, <2>3, <2>5 DEF Live, Runs
    <3>2. Attended(v)' <=> Attended(v)
      BY <1>4, <2>5, <3>1 DEF Attended
    <3> QED BY <2>1, <2>2, <3>1, <3>2
  <2> QED BY <2>4, <2>5
<1>7. todo' \in [Workers -> SUBSET Puzzles] /\ UNCHANGED <<budget, uncommitted, steps>>
  BY <1>1, <1>3 DEF RunTyped, passVars
<1>8. run'[w].phase = "claimed" /\ run'[w].user # NoUser
  BY <1>1, <1>2, <1>4
<1> QED BY <1>1, <1>3, <1>4, <1>5, <1>6, <1>7, <1>8, QuietKeeps

\* A run goes on to another phase, with the puzzles that it has then to visit.
LEMMA PhaseKeeps ==
    ASSUME IInv, NEW w \in Workers, NEW phase \in {"selected", "diagnosed", "listed", "ended"},
           run[w].phase \notin {"idle", "diagnosing", "naming", "chaining"}, SetPhase(w, phase),
           NEW rest \in SUBSET Puzzles, todo' = [todo EXCEPT ![w] = rest],
           phase \in {"selected", "listed"} => rest \subseteq Own(run[w].user),
           UNCHANGED <<storeVars, job, budget, uncommitted, steps, historyVars, left>>
    PROVE  IInv'
<1>1. RunTyped /\ run[w].user # NoUser
  BY CallerHasUser, EnrichmentAssumption DEF IInv, Shape
<1>2. run' = [run EXCEPT ![w].phase = phase]
  BY DEF SetPhase
<1>3. /\ run' \in [Workers -> Run] /\ \A x \in Workers \ {w} : run'[x] = run[x]
      /\ run'[w].phase = phase /\ run'[w].user = run[w].user /\ run'[w].row = run[w].row
  BY <1>1, <1>2 DEF RunTyped, Run, Phase
<1>4. todo' \in [Workers -> SUBSET Puzzles] /\ todo'[w] = rest
      /\ \A x \in Workers \ {w} : todo'[x] = todo[x]
  BY <1>1 DEF RunTyped
<1>5. \A x \in Workers \ {w} : Stays(x)
  BY <1>3, <1>4 DEF Stays
<1>6. RunsAreFew'
  <2>1. \A x \in Workers : /\ run'[x].user = run[x].user /\ run'[x].row = run[x].row
                           /\ run'[x].phase = "chaining" <=> run[x].phase = "chaining"
    BY <1>3
  <2> QED BY <2>1, RunsStayFew DEF historyVars
<1>7. job' \in [Users -> Job]
  BY <1>1 DEF RunTyped
<1>8. phase \in {"selected", "listed"} => todo'[w] \subseteq Own(run'[w].user)
  BY <1>3, <1>4
<1> QED BY <1>1, <1>3, <1>4, <1>5, <1>6, <1>7, <1>8, QuietKeeps

LEMMA SelectKeeps ==
    ASSUME IInv, NEW w \in Workers, Select(w)
    PROVE  IInv'
<1>1. PICK rest : rest = IF run[w].scope = "reenrich" THEN Unenriched(run[w].user)
                                                      ELSE PendingDiagnosis(run[w].user)
  OBVIOUS
<1>2. rest \subseteq Own(run[w].user) /\ rest \in SUBSET Puzzles
  BY <1>1 DEF Unenriched, PendingDiagnosis, Own
<1>3. PICK phase \in {"selected", "diagnosed"} : phase = IF rest = {} THEN "diagnosed" ELSE "selected"
  OBVIOUS
<1>4. /\ run[w].phase = "claimed" /\ SetPhase(w, phase) /\ todo' = [todo EXCEPT ![w] = rest]
      /\ UNCHANGED <<storeVars, job, budget, uncommitted, steps, historyVars, left>>
  BY <1>1, <1>3 DEF Select
<1> QED BY <1>2, <1>4, PhaseKeeps

LEMMA BeginNamingKeeps ==
    ASSUME IInv, NEW w \in Workers, BeginNaming(w)
    PROVE  IInv'
<1>1. RunTyped /\ run[w].phase = "diagnosed"
      /\ UNCHANGED <<storeVars, job, budget, uncommitted, steps, historyVars, left>>
  BY DEF IInv, Shape, BeginNaming
<1>2. CASE SetPhase(w, "ended") /\ UNCHANGED todo
  <2>1. todo[w] \in SUBSET Puzzles /\ todo' = [todo EXCEPT ![w] = todo[w]]
    BY <1>1, <1>2 DEF RunTyped
  <2> QED BY <1>1, <1>2, <2>1, PhaseKeeps
<1>3. CASE SetPhase(w, "listed") /\ todo' = [todo EXCEPT ![w] = Unnamed(run[w].user)]
  <2>1. Unnamed(run[w].user) \in SUBSET Puzzles /\ Unnamed(run[w].user) \subseteq Own(run[w].user)
    BY DEF Unnamed, Own
  <2> QED BY <1>1, <1>3, <2>1, PhaseKeeps
<1> QED BY <1>2, <1>3 DEF BeginNaming

LEMMA RecordSuccessKeeps ==
    ASSUME IInv, NEW w \in Workers, RecordSuccess(w)
    PROVE  IInv'
<1>1. PICK r \in {Off, [run[w] EXCEPT !.phase = "chaining", !.row = "over"]} : Settle(w, r)
  BY DEF RecordSuccess
<1>2. run[w].phase = "ended" /\ UNCHANGED <<storeVars, passVars, historyVars, left>>
  BY DEF RecordSuccess
<1>3. strays' = strays /\ run[w].phase \notin {"idle", "chaining"}
  BY <1>2 DEF historyVars
<1>4. /\ run' \in [Workers -> Run] /\ job' \in [Users -> Job] /\ RunsAreFew'
      /\ run'[w].phase \in {"idle", "chaining"} /\ run'[w].row = "over"
      /\ run'[w].phase = "idle" <=> run'[w].user = NoUser
      /\ \A x \in Workers \ {w} :
            /\ run'[x].phase = run[x].phase /\ run'[x].user = run[x].user
            /\ run'[x].row \in {run[x].row, "over"}
  BY <1>1, <1>3, Settled
<1>5. \A x \in Workers \ {w} : Stays(x)
  BY <1>2, <1>4 DEF Stays, passVars
<1>6. todo' \in [Workers -> SUBSET Puzzles] /\ UNCHANGED <<budget, uncommitted, steps>>
  BY <1>2 DEF IInv, Shape, RunTyped, passVars
<1> QED BY <1>2, <1>4, <1>5, <1>6, QuietKeeps

LEMMA EnqueueRemainingKeeps ==
    ASSUME IInv, NEW w \in Workers, EnqueueRemaining(w)
    PROVE  IInv'
<1>1. RunTyped /\ WorkerFits(w) /\ run[w].phase = "chaining" /\ run[w].row # "current"
  BY DEF IInv, Shape, EnqueueRemaining, WorkerFits
<1>2. PICK u \in Users : u = run[w].user
  BY <1>1, CallerHasUser DEF IInv
<1>3. /\ run' = [run EXCEPT ![w] = Off] /\ UNCHANGED <<storeVars, passVars, historyVars, left>>
  BY DEF EnqueueRemaining
<1>4. PICK again \in BOOLEAN :
          job' = [job EXCEPT ![u] = IF @.phase = "idle" /\ again THEN Queued("pending", TRUE) ELSE @]
  <2>1. job' = [job EXCEPT ![u] = IF @.phase = "idle" /\ PendingDiagnosis(u) \union Progressing(u) # {}
                                  THEN Queued("pending", TRUE) ELSE @]
    BY <1>2 DEF EnqueueRemaining
  <2> QED BY <2>1
<1>5. Queued("pending", TRUE) \in Job
  BY DEF Queued, Job, Scope
<1>6. /\ job' \in [Users -> Job]
      /\ \A v \in Users : job[v].phase = "running" => job'[v].phase = "running"
  BY <1>1, <1>4, <1>5 DEF RunTyped
<1>7. /\ run' \in [Workers -> Run] /\ run'[w] = Off /\ \A x \in Workers \ {w} : run'[x] = run[x]
      /\ Off.phase = "idle" /\ Off.user = NoUser /\ Off.row = "over"
  BY <1>1, <1>3 DEF RunTyped, Off, Run, Phase, Scope
<1>8. RunsAreFew'
  <2>1. \A v \in Users : v # NoUser
    BY EnrichmentAssumption
  <2>2. \A v \in Users : Live(v)' = Live(v) /\ Runs(v)' = Runs(v)
    BY <1>1, <1>7, <2>1 DEF Live, Runs
  <2>3. \A v \in Users : Attended(v) => Attended(v)'
    BY <1>6, <2>2 DEF Attended
  <2> QED BY <1>3, <2>2, <2>3, FewAsBefore DEF historyVars
<1>9. \A x \in Workers \ {w} : Stays(x)
  BY <1>3, <1>7 DEF Stays, passVars
<1>10. todo' \in [Workers -> SUBSET Puzzles] /\ UNCHANGED <<budget, uncommitted, steps>>
  BY <1>1, <1>3 DEF RunTyped, passVars
<1>11. run[w].phase \notin {"diagnosing", "naming"}
  BY <1>1
<1> QED BY <1>3, <1>6, <1>7, <1>8, <1>9, <1>10, <1>11, QuietKeeps

\* A run looks at what is counted, with nothing open.
LEMMA ReadBudgetKeeps ==
    ASSUME IInv, NEW w \in Workers, NEW t \in CallType, ReadBudget(w, t)
    PROVE  IInv'
<1> DEFINE u == run[w].user
<1>1. Shape /\ StoreTyped /\ RunTyped /\ HistoryTyped /\ WorkerFits(w)
  BY DEF IInv, Shape
<1>2. run[w].phase \in {"selected", "listed"}
  BY DEF ReadBudget
<1>3. u \in Users /\ u # NoUser /\ uncommitted[w] = Clean /\ steps[w] = 0 /\ todo[w] \subseteq Own(u)
  BY <1>1, <1>2, CallerHasUser, EnrichmentAssumption DEF WorkerFits
<1>4. /\ run' = [run EXCEPT ![w].phase = PhaseOf(t)]
      /\ budget' = [budget EXCEPT ![w] = Budget24h(u, t)]
      /\ UNCHANGED <<storeVars, job, todo, uncommitted, steps, historyVars, left>>
  BY DEF ReadBudget, SetPhase, PhaseOf
<1>5. billed' = billed /\ paid' = paid /\ losses' = losses /\ strays' = strays
  BY <1>4 DEF storeVars, historyVars
<1>6. PhaseOf(t) \in {"diagnosing", "naming"}
  BY DEF PhaseOf
<1>7. /\ run' \in [Workers -> Run] /\ \A x \in Workers \ {w} : run'[x] = run[x]
      /\ run'[w].phase = PhaseOf(t) /\ run'[w].user = u /\ run'[w].row = run[w].row
  BY <1>1, <1>4, <1>6 DEF RunTyped, Run, Phase
<1>8. /\ budget' \in [Workers -> Spent] /\ \A x \in Workers \ {w} : budget'[x] = budget[x]
      /\ budget'[w].user = billed[t][u] /\ budget'[w].global = SumOver(billed[t])
  <2>1. Budget24h(u, t) \in Spent
    <3>1. billed[t] \in [Users -> Nat] /\ billed[t][u] \in Nat
      BY <1>1, <1>3 DEF StoreTyped
    <3>2. SumOver(billed[t]) \in Nat
      BY <3>1, SumType, EnrichmentAssumption
    <3> QED BY <3>1, <3>2 DEF Budget24h, Spent
  <2> QED BY <1>1, <1>4, <2>1 DEF RunTyped, Budget24h
<1>9. OthersStay(w)
  BY <1>4, <1>7, <1>8 DEF OthersStay, Stays
<1>10. StoreTyped' /\ RunTyped' /\ HistoryTyped'
  BY <1>1, <1>4, <1>7, <1>8 DEF StoreTyped, RunTyped, HistoryTyped, storeVars, historyVars
<1>11. WorkerFits(w)'
  <2>1. uncommitted'[w] = Clean /\ steps'[w] = 0 /\ todo'[w] \subseteq Own(run'[w].user)
    BY <1>3, <1>4, <1>7
  <2> QED BY <1>3, <1>6, <1>7, <2>1, CleanFits
<1>12. Shape'
  BY <1>1, <1>9, <1>10, <1>11, ShapeStep
<1>13. RunsAreFew'
  <2>1. \A x \in Workers : /\ run'[x].user = run[x].user /\ run'[x].row = run[x].row
                           /\ run'[x].phase = "chaining" <=> run[x].phase = "chaining"
    BY <1>2, <1>6, <1>7
  <2> QED BY <1>4, <1>5, <2>1, RunsStayFew
<1>14. ASSUME NEW r \in CallType PROVE PaidMoves(r, w) /\ CallsMove(r, w)
  <2>1. Open(r, w) = 0 /\ Open(r, w)' = 0
    <3>1. ~Calling(r, w)
      BY <1>2 DEF Calling, PhaseOf
    <3>2. uncommitted'[w].calls = 0
      BY <1>3, <1>4 DEF Clean
    <3> QED BY <3>1, <3>2 DEF Open
  <2>2. billed[r][u] \in Nat /\ paid[r][u] \in Nat
    BY <1>1, <1>3 DEF StoreTyped, HistoryTyped
  <2>3. PaidMoves(r, w)
    BY <1>5, <2>1, <2>2 DEF PaidMoves
  <2>4. CASE r = t
    <3>1. billed'[t] = billed[t] /\ Open(t, w) = 0 /\ Open(t, w)' = 0
      BY <1>5, <2>1, <2>4
    <3>2. CallsMove(t, w)
      BY <1>8, <3>1 DEF CallsMove
    <3> QED BY <2>3, <2>4, <3>2
  <2>5. CASE r # t
    <3>1. ~Calling(r, w)'
      BY <1>7, <2>5 DEF Calling, PhaseOf, CallType
    <3>2. CallsMove(r, w)
      BY <1>5, <2>1, <2>2, <3>1 DEF CallsMove
    <3> QED BY <2>3, <3>2
  <2> QED BY <2>3, <2>4, <2>5
<1>15. WorkStep(w)
  BY <1>3, <1>5, <1>7, <1>9, <1>14 DEF WorkStep, BooksStay
<1>16. StoredIsAccounted'
  BY <1>4, StoreStaysAccounted DEF IInv, StoreStays, storeVars
<1> QED BY <1>12, <1>13, <1>15, <1>16, WorkKeeps

\* What the user, the clock and the recovery do to job rows: no run changes but
\* for the row it knows, and who loses the job it runs is a stray.
LEMMA RowsKeep ==
    ASSUME IInv, run' \in [Workers -> Run], job' \in [Users -> Job],
           \A x \in Workers : /\ run'[x].phase = run[x].phase /\ run'[x].user = run[x].user
                              /\ run'[x].row \in {run[x].row, "canceled"},
           strays' \in [Users -> Nat], \A u \in Users : strays[u] <= strays'[u],
           \A u \in Users : Attended(u) /\ ~Attended(u)' => strays'[u] = strays[u] + 1,
           StoreStays, streak' = streak, fresh' \in [Users -> BOOLEAN],
           UNCHANGED <<passVars, paid, losses>>, left' \in [Event -> Nat]
    PROVE  IInv'
<1>1. Shape /\ StoreTyped /\ RunTyped /\ HistoryTyped
  BY DEF IInv, Shape
<1>2. StoreTyped' /\ RunTyped' /\ HistoryTyped'
  BY <1>1 DEF StoreTyped, RunTyped, HistoryTyped, StoreStays, passVars
<1>3. \A x \in Workers : WorkerFits(x)'
  <2>1. \A x \in Workers : Stays(x)
    BY DEF Stays, passVars
  <2> QED BY <1>1, <2>1, StayingFits DEF Shape
<1>4. Shape'
  BY <1>2, <1>3 DEF Shape
<1>5. RunsAreFew'
  <2> SUFFICES ASSUME NEW u \in Users
               PROVE  Cardinality(Live(u)') <= strays'[u] + (IF Attended(u)' THEN 1 ELSE 0)
    BY DEF RunsAreFew, Live, Attended
  <2>1. Cardinality(Live(u)) <= strays[u] + (IF Attended(u) THEN 1 ELSE 0)
    BY DEF IInv, RunsAreFew
  <2>2. Live(u)' = Live(u)
    BY DEF Live
  <2>3. Cardinality(Live(u)) \in Nat /\ strays[u] \in Nat /\ strays'[u] \in Nat
    <3>1. Live(u) \subseteq Workers
      BY DEF Live
    <3> QED BY <1>1, <3>1, FS_Subset, FS_CardinalityType, EnrichmentAssumption DEF HistoryTyped
  <2> QED BY <2>1, <2>2, <2>3
<1>6. RestStep
  BY DEF RestStep, StoreStays, passVars
<1>7. StoredIsAccounted'
  BY StoreStaysAccounted DEF IInv
<1> QED BY <1>4, <1>5, <1>6, <1>7, RestKeeps

\* A job row that nobody runs, or that nobody has run yet.
LEMMA UnattendedKeeps ==
    ASSUME IInv, NEW u \in Users, ~Attended(u), NEW row \in Job, job' = [job EXCEPT ![u] = row],
           UNCHANGED <<storeVars, run, passVars, historyVars>>, left' \in [Event -> Nat]
    PROVE  IInv'
<1>1. /\ RunTyped /\ HistoryTyped /\ StoreTyped
      /\ run' = run /\ strays' = strays /\ UNCHANGED <<passVars, paid, losses>>
      /\ StoreStays /\ streak' = streak /\ fresh' = fresh
  BY DEF IInv, Shape, historyVars, storeVars, StoreStays
<1>2. run' \in [Workers -> Run] /\ job' \in [Users -> Job] /\ strays' \in [Users -> Nat]
      /\ fresh' \in [Users -> BOOLEAN]
      /\ \A v \in Users \ {u} : job'[v] = job[v]
  BY <1>1 DEF RunTyped, HistoryTyped, StoreTyped
<1>3. \A v \in Users : Attended(v) => Attended(v)'
  BY <1>1, <1>2 DEF Attended, Runs
<1>4. \A v \in Users : strays[v] <= strays'[v]
  BY <1>1 DEF HistoryTyped
<1> QED BY <1>1, <1>2, <1>3, <1>4, RowsKeep

LEMMA RowEventsKeep ==
    ASSUME IInv, NEW u \in Users,
           \/ Trigger(u) \/ (\E scope \in Scope : Diagnose(u, scope)) \/ Recover(u)
           \/ Cancel(u) \/ Outrun(u) \/ CooldownEnds(u)
    PROVE  IInv'
<1>1. Shape /\ RunTyped /\ HistoryTyped /\ StoreTyped /\ job[u] \in Job /\ Event = {"trigger", "mishap"}
  BY DEF IInv, Shape, RunTyped, Event
<1>2. ASSUME NEW scope \in Scope, NEW chain \in BOOLEAN PROVE Queued(scope, chain) \in Job
  BY DEF Queued, Job
<1>3. CASE Trigger(u) \/ \E scope \in Scope : Diagnose(u, scope)
  <2>1. PICK row \in Job : job' = [job EXCEPT ![u] = row]
    <3>1. "pending" \in Scope /\ TRUE \in BOOLEAN /\ FALSE \in BOOLEAN
      BY DEF Scope
    <3>2. CASE Trigger(u)
      BY <1>2, <3>1, <3>2 DEF Trigger
    <3>3. CASE \E scope \in Scope : Diagnose(u, scope)
      BY <1>2, <3>1, <3>3 DEF Diagnose
    <3> QED BY <1>3, <3>2, <3>3
  <2>2. /\ Spend("trigger") /\ job[u].phase = "idle"
        /\ UNCHANGED <<storeVars, run, passVars, historyVars>>
    BY <1>3 DEF Trigger, Diagnose
  <2>3. ~Attended(u) /\ left' \in [Event -> Nat]
    BY <1>1, <2>2, SpendType DEF Attended
  <2> QED BY <2>1, <2>2, <2>3, UnattendedKeeps
<1>4. CASE Recover(u)
  <2>1. /\ Runs(u) = {} /\ job' = [job EXCEPT ![u].phase = "queued"]
        /\ UNCHANGED <<storeVars, run, passVars, historyVars, left>>
    BY <1>4 DEF Recover
  <2>2. PICK row \in Job : job' = [job EXCEPT ![u] = row]
    <3>1. [job[u] EXCEPT !.phase = "queued"] \in Job
      BY <1>1 DEF Job
    <3>2. job' = [job EXCEPT ![u] = [job[u] EXCEPT !.phase = "queued"]]
      BY <2>1
    <3> QED BY <3>1, <3>2
  <2>3. ~Attended(u) /\ left' \in [Event -> Nat]
    BY <1>1, <2>1 DEF Attended, HistoryTyped
  <2> QED BY <2>1, <2>2, <2>3, UnattendedKeeps
<1>5. CASE Cancel(u)
  <2>1. /\ Spend("mishap") /\ job' = [job EXCEPT ![u] = NoJob]
        /\ run' = [w \in Workers |-> IF w \in Runs(u) THEN [run[w] EXCEPT !.row = "canceled"] ELSE run[w]]
        /\ strays' = [strays EXCEPT ![u] = IF job[u].phase = "running" /\ Runs(u) # {} THEN @ + 1 ELSE @]
        /\ UNCHANGED <<storeVars, passVars, paid, losses>>
    BY <1>5 DEF Cancel
  <2>2. \A x \in Workers :
           /\ [run[x] EXCEPT !.row = "canceled"] \in Run
           /\ [run[x] EXCEPT !.row = "canceled"].phase = run[x].phase
           /\ [run[x] EXCEPT !.row = "canceled"].user = run[x].user
           /\ [run[x] EXCEPT !.row = "canceled"].row = "canceled"
    BY <1>1 DEF RunTyped, Run
  <2>3. run' \in [Workers -> Run] /\ job' \in [Users -> Job] /\ strays' \in [Users -> Nat]
    <3>1. NoJob \in Job
      BY DEF NoJob, Job, Scope
    <3> QED BY <1>1, <2>1, <2>2, <3>1 DEF RunTyped, HistoryTyped
  <2>4. ASSUME NEW x \in Workers
        PROVE  /\ run'[x].phase = run[x].phase /\ run'[x].user = run[x].user
               /\ run'[x].row \in {run[x].row, "canceled"}
               /\ x \notin Runs(u) => run'[x] = run[x]
    <3>1. CASE x \in Runs(u)
      <4>1. run'[x] = [run[x] EXCEPT !.row = "canceled"]
        BY <2>1, <3>1
      <4> QED BY <2>2, <3>1, <4>1
    <3>2. CASE x \notin Runs(u)
      <4>1. run'[x] = run[x]
        BY <2>1, <3>2
      <4> QED BY <3>2, <4>1
    <3> QED BY <3>1, <3>2
  <2>5. \A v \in Users : Attended(v) /\ ~Attended(v)' => strays'[v] = strays[v] + 1
    <3>1. Attended(u) => strays'[u] = strays[u] + 1
      BY <1>1, <2>1 DEF Attended, HistoryTyped
    <3>2. ASSUME NEW v \in Users \ {u}, Attended(v) PROVE Attended(v)'
      <4>1. job'[v] = job[v]
        BY <1>1, <2>1 DEF RunTyped
      <4>2. \A x \in Runs(v) : x \notin Runs(u)
        BY DEF Runs
      <4>3. Runs(v) \subseteq Runs(v)'
        BY <2>4, <4>2 DEF Runs
      <4> QED BY <3>2, <4>1, <4>3 DEF Attended
    <3> QED BY <3>1, <3>2
  <2>6. \A v \in Users : strays[v] <= strays'[v]
    BY <1>1, <2>1 DEF HistoryTyped
  <2>7. left' \in [Event -> Nat] /\ StoreStays /\ streak' = streak /\ fresh' \in [Users -> BOOLEAN]
    BY <1>1, <2>1, SpendType DEF StoreStays, storeVars, StoreTyped
  <2> QED BY <2>1, <2>3, <2>4, <2>5, <2>6, <2>7, RowsKeep
<1>6. CASE Outrun(u)
  <2>1. /\ Spend("mishap") /\ job' = [job EXCEPT ![u].phase = "queued"]
        /\ strays' = [strays EXCEPT ![u] = @ + 1]
        /\ UNCHANGED <<storeVars, run, passVars, paid, losses>>
    BY <1>6 DEF Outrun
  <2>2. job' \in [Users -> Job] /\ \A v \in Users \ {u} : job'[v] = job[v]
    BY <1>1, <2>1 DEF RunTyped, Job
  <2>3. /\ strays' \in [Users -> Nat] /\ strays'[u] = strays[u] + 1
        /\ \A v \in Users : strays[v] <= strays'[v]
    BY <1>1, <2>1 DEF HistoryTyped
  <2>4. \A v \in Users : Attended(v) /\ ~Attended(v)' => strays'[v] = strays[v] + 1
    <3>1. \A v \in Users \ {u} : Attended(v) => Attended(v)'
      BY <2>1, <2>2 DEF Attended, Runs
    <3> QED BY <2>3, <3>1
  <2>5. left' \in [Event -> Nat] /\ StoreStays /\ streak' = streak /\ fresh' \in [Users -> BOOLEAN]
    BY <1>1, <2>1, SpendType DEF StoreStays, storeVars, StoreTyped
  <2>6. run' \in [Workers -> Run]
    BY <1>1, <2>1 DEF RunTyped
  <2> QED BY <2>1, <2>2, <2>3, <2>4, <2>5, <2>6, RowsKeep
<1>7. CASE CooldownEnds(u)
  <2>1. /\ Spend("mishap") /\ fresh' = [fresh EXCEPT ![u] = FALSE]
        /\ UNCHANGED <<diagnosis, title, billed, answered, streak, job, run, passVars, historyVars>>
    BY <1>7 DEF CooldownEnds
  <2>2. fresh' \in [Users -> BOOLEAN]
    <3>1. FALSE \in BOOLEAN /\ fresh \in [Users -> BOOLEAN]
      BY <1>1 DEF StoreTyped
    <3> QED BY <2>1, <3>1, Zenon
  <2>3. /\ left' \in [Event -> Nat] /\ StoreStays /\ streak' = streak
        /\ job' \in [Users -> Job] /\ run' \in [Workers -> Run] /\ strays' \in [Users -> Nat]
        /\ UNCHANGED <<passVars, paid, losses>> /\ run' = run
    BY <1>1, <2>1, SpendType DEF StoreStays, RunTyped, HistoryTyped, historyVars
  <2>4. \A v \in Users : strays[v] <= strays'[v]
    BY <1>1, <2>1 DEF HistoryTyped, historyVars
  <2>5. \A v \in Users : Attended(v) => Attended(v)'
    BY <2>1 DEF Attended, Runs
  <2> QED BY <2>2, <2>3, <2>4, <2>5, RowsKeep
<1> QED BY <1>3, <1>4, <1>5, <1>6, <1>7

LEMMA StutterKeeps == IInv /\ UNCHANGED vars => IInv'
<1> SUFFICES ASSUME IInv, UNCHANGED vars PROVE IInv'
  OBVIOUS
<1>1. Shape /\ RunTyped /\ HistoryTyped /\ StoreTyped
  BY DEF IInv, Shape
<1>2. /\ job' = job /\ run' = run /\ strays' = strays /\ left' = left /\ fresh' = fresh
      /\ streak' = streak /\ StoreStays /\ UNCHANGED <<passVars, paid, losses>>
  BY DEF vars, storeVars, historyVars, StoreStays
<1>3. /\ job' \in [Users -> Job] /\ run' \in [Workers -> Run] /\ strays' \in [Users -> Nat]
      /\ left' \in [Event -> Nat] /\ fresh' \in [Users -> BOOLEAN]
      /\ \A u \in Users : strays[u] <= strays'[u]
  BY <1>1, <1>2 DEF RunTyped, HistoryTyped, StoreTyped
<1>4. \A u \in Users : Attended(u) => Attended(u)'
  BY <1>2 DEF Attended, Runs
<1> QED BY <1>2, <1>3, <1>4, RowsKeep

-----------------------------------------------------------------------------
(* The theorems *)

LEMMA InitInv == Init => IInv
<1> SUFFICES ASSUME Init PROVE IInv
  OBVIOUS
<1>1. Clean.calls = 0 /\ Off.phase = "idle" /\ Off.user = NoUser /\ Off.row = "over"
  BY DEF Clean, Off
<1>2. \A w \in Workers : run[w] = Off /\ uncommitted[w] = Clean /\ steps[w] = 0 /\ todo[w] = {}
                         /\ budget[w] = Unread
  BY DEF Init
<1>3. \A u \in Users : u # NoUser
  BY EnrichmentAssumption
<1>4. Shape
  <2>1. StoreTyped
    BY EnrichmentAssumption DEF Init, StoreTyped, Diagnosis
  <2>2. RunTyped
    <3>1. NoJob \in Job /\ Off \in Run /\ Unread \in Spent
      BY DEF NoJob, Job, Scope, Off, Run, Phase, Unread, Spent
    <3> QED BY <3>1 DEF Init, RunTyped
  <2>3. HistoryTyped
    BY EnrichmentAssumption DEF Init, HistoryTyped
  <2>4. ASSUME NEW w \in Workers PROVE WorkerFits(w)
    <3>1. SessionTyped(Clean, NoUser)
      <4>1. ErrorStreakLimit \in Nat
        BY EnrichmentAssumption
      <4> QED BY <4>1 DEF SessionTyped, Clean
    <3>2. SessionFits(w)
      BY <1>1, <1>2 DEF SessionFits, Calling, PhaseOf
    <3> QED BY <1>1, <1>2, <3>1, <3>2 DEF WorkerFits
  <2> QED BY <2>1, <2>2, <2>3, <2>4 DEF Shape
<1>5. RunsAreFew
  <2> SUFFICES ASSUME NEW u \in Users
               PROVE  Cardinality(Live(u)) <= strays[u] + (IF Attended(u) THEN 1 ELSE 0)
    BY DEF RunsAreFew
  <2>1. Live(u) = {} /\ ~Attended(u) /\ strays[u] = 0
    BY <1>1, <1>2, <1>3 DEF Init, Live, Attended, NoJob
  <2> QED BY <2>1, FS_EmptySet
<1>6. /\ \A t \in CallType, u \in Users : billed[t][u] = 0 /\ paid[t][u] = 0 /\ losses[t][u] = 0
      /\ answered = {}
      /\ \A p \in Puzzles : diagnosis[p] = "none" /\ title[p] \in {"position", "user"}
  BY DEF Init
<1>7. StoredIsAccounted
  <2> SUFFICES ASSUME NEW u \in Users
               PROVE  /\ {p \in Own(u) : title[p] = "ai"} \subseteq answered
                      /\ Cardinality(answered \intersect Own(u)) <= billed["naming"][u]
                      /\ Cardinality({p \in Own(u) : diagnosis[p] = "llm"}) <= billed["diagnosis"][u]
    BY DEF StoredIsAccounted
  <2>1. /\ {p \in Own(u) : title[p] = "ai"} = {} /\ answered \intersect Own(u) = {}
        /\ {p \in Own(u) : diagnosis[p] = "llm"} = {}
    BY <1>6 DEF Own
  <2>2. billed["naming"][u] = 0 /\ billed["diagnosis"][u] = 0
    BY <1>6 DEF CallType
  <2> QED BY <2>1, <2>2, FS_EmptySet
<1>8. ASSUME NEW t \in CallType, NEW l \in Ledger
      PROVE  In(l, paid[t]) = In(l, billed[t]) /\ Called(t, l) = In(l, billed[t])
             /\ In(l, billed[t]) = 0 /\ In(l, losses[t]) \in Nat
  <2>1. /\ billed[t] \in [Users -> 0..0] /\ paid[t] = billed[t] /\ losses[t] \in [Users -> Nat]
    BY <1>6 DEF Init
  <2>2. SumOver(billed[t]) = 0
    <3>1. PICK u \in Users : TRUE
      BY EnrichmentAssumption
    <3>2. SumOver(billed[t]) <= billed[t][u] + Cardinality({}) * 0
      <4>1. \A x \in Users \ ({} \union {u}) : billed[t][x] = 0
        BY <1>6
      <4>2. {} \in SUBSET (Users \ {u}) /\ 0 \in Nat
        OBVIOUS
      <4> QED BY <2>1, <4>1, <4>2, SumIsBounded, EnrichmentAssumption
    <3>3. SumOver(billed[t]) \in Nat
      BY <1>4, SumType, EnrichmentAssumption DEF Shape, StoreTyped
    <3> QED BY <1>6, <3>2, <3>3, FS_EmptySet
  <2>3. In(l, billed[t]) = 0
    BY <1>6, <2>2 DEF In, Ledger
  <2>4. SumOver(OpenIn(t, l)) = 0
    <3>1. PICK w \in Workers : TRUE
      BY EnrichmentAssumption
    <3>2. PICK f \in [Workers -> 0..0] : f = OpenIn(t, l)
      <4>1. \A x \in Workers : Open(t, x) = 0
        BY <1>1, <1>2 DEF Open
      <4>2. OpenIn(t, l) \in [Workers -> 0..0]
        BY <4>1 DEF OpenIn
      <4> QED BY <4>2
    <3>3. \A x \in Workers : f[x] = 0
      BY <3>2
    <3>4. SumOver(f) <= f[w] + Cardinality({}) * 0
      <4>1. {} \in SUBSET (Workers \ {w}) /\ 0 \in Nat
        OBVIOUS
      <4> QED BY <3>2, <3>3, <4>1, SumIsBounded, EnrichmentAssumption
    <3>5. SumOver(f) \in Nat
      <4>1. f \in [Workers -> Nat]
        BY <3>2
      <4> QED BY <4>1, SumType, EnrichmentAssumption
    <3> QED BY <3>2, <3>3, <3>4, <3>5, FS_EmptySet
  <2>5. In(l, losses[t]) \in Nat
    BY <2>1, InType
  <2> QED BY <2>1, <2>3, <2>4, <2>5 DEF Called
<1>9. PaidIsKept
  <2> SUFFICES ASSUME NEW t \in CallType, NEW l \in Ledger
               PROVE  In(l, paid[t]) <= Called(t, l) + In(l, losses[t]) * Chunk(t)
    BY DEF PaidIsKept
  <2>1. In(l, losses[t]) * Chunk(t) \in Nat
    <3>1. \A a, b \in Nat : a * b \in Nat
      OBVIOUS
    <3> QED BY <1>8, <3>1, ChunkType
  <2> QED BY <1>8, <2>1
<1>10. CallsAreBounded
  <2> SUFFICES ASSUME NEW t \in CallType, NEW l \in Ledger
               PROVE  \E base \in 0..Cap(t, l), v \in Workers, others \in SUBSET Workers,
                         since \in [Workers -> 0..Chunk(t)] :
                          LastLookBounds(t, l, base, v, others, since)
    BY DEF CallsAreBounded
  <2>1. PICK v \in Workers : TRUE
    BY EnrichmentAssumption
  <2>2. PICK since \in [Workers -> 0..Chunk(t)] : \A w \in Workers : since[w] = 0
    <3>1. [w \in Workers |-> 0] \in [Workers -> 0..Chunk(t)]
      BY ChunkType
    <3> QED BY <3>1
  <2>3. 0 \in 0..Cap(t, l)
    BY CapType
  <2>4. SumOver(since) \in Nat
    <3>1. since \in [Workers -> Nat]
      BY ChunkType
    <3> QED BY <3>1, SumType, EnrichmentAssumption
  <2>5. \A w \in Workers : ~MayCall(t, l, w)
    BY <1>1, <1>2 DEF MayCall, Calling, PhaseOf
  <2>6. Cardinality({}) <= Spare(l)
    <3>1. Cardinality(Workers) \in Nat /\ Cardinality(Workers) # 0
      BY FS_CardinalityType, FS_EmptySet, EnrichmentAssumption
    <3>2. \A u \in Users : strays[u] = 0
      BY DEF Init
    <3> QED BY <3>1, <3>2, FS_EmptySet DEF Spare, Ledger
  <2>7. LastLookBounds(t, l, 0, v, {}, since)
    BY <1>8, <2>2, <2>3, <2>4, <2>5, <2>6, CapType DEF LastLookBounds
  <2> QED BY <2>1, <2>2, <2>3, <2>7
<1> QED BY <1>4, <1>5, <1>7, <1>9, <1>10 DEF IInv

LEMMA NextInv == IInv /\ [Next]_vars => IInv'
<1> SUFFICES ASSUME IInv, [Next]_vars PROVE IInv'
  OBVIOUS
<1>1. CASE UNCHANGED vars
  BY <1>1, StutterKeeps
<1>2. ASSUME NEW w \in Workers, Step(w) PROVE IInv'
  <2>1. CASE CommitChunk(w) \/ FinishDiagnosing(w) \/ SeeCancel(w) \/ CommitNames(w)
    BY <2>1, CommitsKeep
  <2>2. CASE NameExhausted(w) \/ NameSkipped(w) \/ \E s \in Responses : NameCalled(w, s)
    BY <2>2, NameKeeps
  <2>3. CASE \E p \in Puzzles, o \in Responses \union {"exhausted", "skipped", "unavailable"} :
                DiagnoseOne(w, p, o)
    BY <2>3, DiagnoseOneKeeps
  <2>4. CASE (\E u \in Users : Claim(w, u)) \/ Select(w) \/ BeginNaming(w)
    BY <2>4, ClaimKeeps, SelectKeeps, BeginNamingKeeps
  <2>5. CASE (\E t \in CallType : ReadBudget(w, t)) \/ FailDiagnosing(w)
    BY <2>5, ReadBudgetKeeps, FailDiagnosingKeeps
  <2>6. CASE RecordSuccess(w) \/ EnqueueRemaining(w)
    BY <2>6, RecordSuccessKeeps, EnqueueRemainingKeeps
  <2> QED BY <1>2, <2>1, <2>2, <2>3, <2>4, <2>5, <2>6 DEF Step
<1>3. ASSUME NEW w \in Workers, LoseNames(w) \/ Crash(w) PROVE IInv'
  BY <1>3, LoseNamesKeeps, CrashKeeps
<1>4. ASSUME NEW u \in Users,
             \/ Trigger(u) \/ (\E scope \in Scope : Diagnose(u, scope)) \/ Recover(u)
             \/ Cancel(u) \/ Outrun(u) \/ CooldownEnds(u)
      PROVE  IInv'
  BY <1>4, RowEventsKeep
<1> QED BY <1>1, <1>2, <1>3, <1>4 DEF Next

\* IInv is an invariant: every state keeps the ledgers that the bounds rest on,
\* and knows how many runs a user may have.
THEOREM Invariance == Spec => []IInv
<1>1. Init => IInv
  BY InitInv
<1>2. IInv /\ [Next]_vars => IInv'
  BY NextInv
<1> QED BY <1>1, <1>2, PTL DEF Spec

\* The tables, the jobs, their runs and their sessions have the shape the
\* handlers rely on.
THEOREM TypeCorrect == Spec => []TypeOK
<1>1. IInv => TypeOK
  BY TypeFollows DEF IInv
<1> QED BY <1>1, Invariance, PTL

\* Nothing the model wrote is stored without the audit row that counts it,
\* whatever crashes, conflicts, lapsed leases and cancels come between.
THEOREM StoredStaysAccounted == Spec => []StoredIsAccounted
<1>1. IInv => StoredIsAccounted
  BY DEF IInv
<1> QED BY <1>1, Invariance, PTL

\* The calls of a ledger are within its cap, but for a chunk for each run that
\* may have gone on beside the last look, and for each lost session.
LEMMA LedgerIsBounded ==
    ASSUME IInv, NEW t \in CallType, NEW l \in Ledger
    PROVE  In(l, paid[t]) <= Cap(t, l) + (Spare(l) + In(l, losses[t])) * Chunk(t)
<1>1. PICK base \in 0..Cap(t, l), v \in Workers, others \in SUBSET Workers,
           since \in [Workers -> 0..Chunk(t)] :
               LastLookBounds(t, l, base, v, others, since)
  BY DEF IInv, CallsAreBounded
<1> DEFINE c == Chunk(t)   n == Cardinality(others)   k == Spare(l)   x == In(l, losses[t])
<1>2. c \in Nat /\ Cap(t, l) \in Nat /\ n \in Nat /\ k \in Int
  BY ChunkType, CapType, SpareType, FS_Subset, FS_CardinalityType, EnrichmentAssumption DEF IInv
<1>3. x \in Nat /\ In(l, paid[t]) \in Nat /\ Called(t, l) \in Nat
  BY InType, CalledType DEF IInv, Shape, HistoryTyped
<1>4. SumOver(since) <= since[v] + n * c /\ SumOver(since) \in Nat /\ since[v] \in Nat
  <2>1. since \in [Workers -> Nat]
    BY <1>1, <1>2
  <2>2. SumOver(since) \in Nat /\ since[v] \in Nat
    BY <2>1, SumType, EnrichmentAssumption
  <2>3. others \in SUBSET (Workers \ {v})
    BY <1>1 DEF LastLookBounds
  <2>4. \A w \in Workers \ (others \union {v}) : since[w] = 0
    BY <1>1 DEF LastLookBounds
  <2> QED BY <1>2, <2>2, <2>3, <2>4, SumIsBounded, EnrichmentAssumption
<1>5. Called(t, l) <= base + SumOver(since) /\ base + since[v] <= Cap(t, l) /\ n <= k
  BY <1>1 DEF LastLookBounds
<1>6. In(l, paid[t]) <= Called(t, l) + x * c
  BY DEF IInv, PaidIsKept
<1>7. n * c <= k * c /\ (k + x) * c = k * c + x * c /\ n * c \in Nat /\ k * c \in Int /\ x * c \in Nat
  <2>1. n \in Nat /\ k \in Nat /\ n <= k /\ c \in Nat /\ x \in Nat
    BY <1>2, <1>3, <1>5
  <2> HIDE DEF n, k, c, x
  <2>2. PICK d \in Nat : k = n + d
    <3>1. k - n \in Nat /\ k = n + (k - n)
      BY <2>1
    <3> QED BY <3>1
  <2>3. k * c = n * c + d * c /\ n * c \in Nat /\ d * c \in Nat /\ x * c \in Nat
    BY <2>1, <2>2
  <2>4. (k + x) * c = k * c + x * c
    BY <2>1
  <2> QED BY <2>3, <2>4
<1>8. base \in Nat
  BY <1>1, <1>2
<1> HIDE DEF c, n, k, x
<1> QED BY <1>2, <1>3, <1>4, <1>5, <1>6, <1>7, <1>8 DEF c, k, x

LEMMA BoundFollows == IInv => SpendIsBounded
<1> SUFFICES ASSUME IInv, NEW t \in CallType
             PROVE  /\ \A u \in Users :
                          paid[t][u] <= CapUser[t] + (strays[u] + losses[t][u]) * Chunk(t)
                    /\ SumOver(paid[t])
                         <= CapGlobal[t] + (Cardinality(Workers) - 1 + SumOver(losses[t])) * Chunk(t)
  BY DEF SpendIsBounded
<1>1. ASSUME NEW u \in Users
      PROVE  paid[t][u] <= CapUser[t] + (strays[u] + losses[t][u]) * Chunk(t)
  <2>1. u \in Ledger /\ u # NoUser
    BY EnrichmentAssumption DEF Ledger
  <2> QED BY <2>1, LedgerIsBounded DEF In, Cap, Spare
<1>2. SumOver(paid[t])
        <= CapGlobal[t] + (Cardinality(Workers) - 1 + SumOver(losses[t])) * Chunk(t)
  <2>1. NoUser \in Ledger
    BY DEF Ledger
  <2> QED BY <2>1, LedgerIsBounded DEF In, Cap, Spare
<1> QED BY <1>1, <1>2

\* The daily caps hold up to a chunk for each run that goes on after its job was
\* taken from it (for the global caps, each other worker) and for each lost
\* session, for any users, workers, puzzles, caps, chunks, lapsed leases, cancels
\* and crashes.
THEOREM SpendStaysBounded == Spec => []SpendIsBounded
BY Invariance, BoundFollows, PTL

=============================================================================
