------------------------ MODULE TrainingReviewProofs ------------------------
(***************************************************************************)
(* Theorems about TrainingReview, for any puzzles, sessions, keys and      *)
(* requests: the counters and the stats follow the ledger, and the         *)
(* transactions implement ReviewLedger.                                    *)
(***************************************************************************)
EXTENDS TrainingReview, FiniteSetTheorems, TLAPS

-----------------------------------------------------------------------------
(* The inductive invariant *)

\* Only a review in a session waits for the session's row.
EnteringHasSession ==
    \A r \in Reviewers : pc[r] = "entering" => req[r].session \in Sessions

\* A session's row has one holder, who read its counters while it was open and
\* still is.
SessionLocksExclude ==
    \A r \in Reviewers :
        pc[r] \in Holding /\ req[r].session # NoSession =>
            /\ phase[req[r].session] = "open"
            /\ seen[r] = counters[req[r].session]
            /\ \A q \in Reviewers : LocksSession(q, req[r].session) => q = r

\* The unique index: a flushed review collides with no committed and with no
\* other flushed one.
KeysExclude ==
    \A r \in Reviewers :
        InsertedReview(r) =>
            /\ \A i \in DOMAIN log : ~SameReview(log[i], req[r])
            /\ \A q \in Reviewers \ {r} :
                  InsertedReview(q) => ~SameReview(req[q], req[r])

\* A stats row has one holder, who knows what it says.
StatsLocksExclude ==
    \A r \in Reviewers :
        LocksStats(r, req[r].puzzle) =>
            /\ statsSeen[r] = stats[req[r].puzzle]
            /\ \A q \in Reviewers : LocksStats(q, req[r].puzzle) => q = r

\* The stats of a puzzle without a row are those of a new one.
UnratedIsNew == \A p \in Puzzles \ rated : stats[p] = NewStats

\* What is being completed is a session.
CompletionsAreOfSessions ==
    \A c \in Completers : cpc[c] = "writing" => csession[c] \in Sessions

IInv ==
    /\ TypeOK
    /\ EnteringHasSession
    /\ SessionLocksExclude
    /\ KeysExclude
    /\ StatsLocksExclude
    /\ UnratedIsNew
    /\ CompletionsAreOfSessions
    /\ SessionCountsReviews
    /\ StreaksFollowReviews
    /\ StatsFollowReviews
    /\ AnswersReportTheLedger

-----------------------------------------------------------------------------
(* Typing *)

LEMMA ReviewType ==
    ASSUME NEW v \in Review
    PROVE  /\ v.puzzle \in Puzzles /\ v.session \in Sessions \union {NoSession}
           /\ v.key \in Keys \union {NoKey} /\ v.result \in Result
           /\ v.scheduling \in BOOLEAN
BY DEF Review

\* One more review keeps the counters counters.
LEMMA TallyType ==
    ASSUME NEW c \in Counters, NEW result \in Result
    PROVE  /\ Tally(c, result) \in Counters
           /\ Tally(c, result).pass = c.pass + (IF result = "pass" THEN 1 ELSE 0)
           /\ Tally(c, result).fail = c.fail + (IF result = "pass" THEN 0 ELSE 1)
           /\ result = "pass" =>
                /\ Tally(c, result).streak = c.streak + 1
                /\ Tally(c, result).best =
                      IF c.streak + 1 > c.best THEN c.streak + 1 ELSE c.best
           /\ result # "pass" =>
                Tally(c, result).streak = 0 /\ Tally(c, result).best = c.best
<1> /\ c.pass \in Nat /\ c.fail \in Nat /\ c.streak \in Nat /\ c.best \in Nat
    /\ c = [pass |-> c.pass, fail |-> c.fail, streak |-> c.streak, best |-> c.best]
  BY DEF Counters
<1>1. CASE result = "pass"
  <2> DEFINE best == IF c.streak + 1 > c.best THEN c.streak + 1 ELSE c.best
  <2>1. Tally(c, result) = [pass |-> c.pass + 1, fail |-> c.fail,
                            streak |-> c.streak + 1, best |-> best]
    BY <1>1 DEF Tally
  <2>2. best \in Nat /\ best = IF c.streak + 1 > c.best THEN c.streak + 1 ELSE c.best
    OBVIOUS
  <2> HIDE DEF best
  <2> QED BY <1>1, <2>1, <2>2 DEF Counters
<1>2. CASE result # "pass"
  <2>1. Tally(c, result) = [pass |-> c.pass, fail |-> c.fail + 1,
                            streak |-> 0, best |-> c.best]
    BY <1>2 DEF Tally
  <2> QED BY <1>2, <2>1 DEF Counters
<1> QED BY <1>1, <1>2

LEMMA InitType == Init => TypeOK
<1> SUFFICES ASSUME Init PROVE TypeOK
  OBVIOUS
<1>1. (CHOOSE v \in Review : TRUE) \in Review
  <2>1. PICK p \in Puzzles : TRUE
    BY TrainingReviewAssumption
  <2>2. [puzzle |-> p, session |-> NoSession, key |-> NoKey, result |-> "pass",
         scheduling |-> TRUE] \in Review
    BY DEF Review, Result
  <2> QED BY <2>2
<1>2. ZeroCounters \in Counters /\ NewStats \in Stats
  BY DEF ZeroCounters, Counters, NewStats, Stats
<1>3. /\ req \in [Reviewers -> Review] /\ seen \in [Reviewers -> Counters]
      /\ statsSeen \in [Reviewers -> Stats] /\ counters \in [Sessions -> Counters]
      /\ stats \in [Puzzles -> Stats]
  BY <1>1, <1>2 DEF Init
<1>4. log \in Seq(Review)
  BY DEF Init
<1>5. policy \in [Sessions -> [Puzzles -> Policy]]
  BY DEF Init, Policy
<1> QED BY <1>3, <1>4, <1>5, TrainingReviewAssumption DEF Init, TypeOK

LEMMA GoToType ==
    ASSUME TypeOK, NEW r \in Reviewers, NEW step, GoTo(r, step)
    PROVE  /\ pc'[r] = step /\ \A q \in Reviewers \ {r} : pc'[q] = pc[q]
           /\ step \in InTransaction \union Served \union {"idle"} =>
                pc' \in [Reviewers -> InTransaction \union Served \union {"idle"}]
BY DEF TypeOK, GoTo

LEMMA LogType ==
    ASSUME TypeOK
    PROVE  /\ Len(log) \in Nat /\ DOMAIN log = 1..Len(log)
           /\ \A i \in DOMAIN log : log[i] \in Review
BY DEF TypeOK

\* The result of a prior review with the same key is a result.
LEMMA PriorType ==
    ASSUME TypeOK, NEW v \in Review, Prior(v) # {}
    PROVE  LET i == CHOOSE i \in Prior(v) : TRUE
           IN  /\ i \in DOMAIN log /\ SameReview(log[i], v)
               /\ log[i].result \in Result
<1> DEFINE i == CHOOSE i \in Prior(v) : TRUE
<1>1. i \in Prior(v)
  OBVIOUS
<1>2. i \in DOMAIN log /\ SameReview(log[i], v)
  BY <1>1 DEF Prior
<1> QED BY <1>2, LogType, ReviewType

\* Every step of a review request preserves the types.
LEMMA ReviewerType ==
    ASSUME TypeOK, EnteringHasSession, NEW r \in Reviewers,
           Receive(r) \/ ReviewStep(r) \/ AbortReview(r)
    PROVE  TypeOK'
<1> USE DEF sessionVars, statsVars, completeVars, hintVars, InTransaction, Served
<1>1. req[r] \in Review /\ seen[r] \in Counters /\ statsSeen[r] \in Stats
  BY DEF TypeOK
<1>2. CASE Receive(r)
  <2>1. PICK v \in Review :
          /\ req' = [req EXCEPT ![r] = v]
          /\ IF Prior(v) # {}
             THEN /\ answer' = [answer EXCEPT
                                   ![r] = log[CHOOSE i \in Prior(v) : TRUE].result]
                  /\ GoTo(r, "answered")
             ELSE /\ GoTo(r, IF v.session = NoSession THEN "inserting" ELSE "entering")
                  /\ UNCHANGED answer
    BY <1>2 DEF Receive
  <2>2. req' \in [Reviewers -> Review]
    BY <2>1 DEF TypeOK
  <2>3. answer' \in [Reviewers -> Result \union {"none"}]
    BY <2>1, PriorType DEF TypeOK
  <2>4. pc' \in [Reviewers -> InTransaction \union Served \union {"idle"}]
    BY <2>1, GoToType
  <2> QED BY <1>2, <2>2, <2>3, <2>4 DEF Receive, TypeOK
<1>3. CASE EnterSession(r)
  <2>1. pc' \in [Reviewers -> InTransaction \union Served \union {"idle"}]
    BY <1>3, GoToType DEF EnterSession
  <2>2. seen' \in [Reviewers -> Counters]
    <3>1. CASE UNCHANGED seen
      BY <3>1 DEF TypeOK
    <3>2. CASE /\ phase[req[r].session] = "open"
               /\ seen' = [seen EXCEPT ![r] = counters[req[r].session]]
               /\ req[r].session \in Sessions
      BY <3>2 DEF TypeOK
    <3> QED BY <1>3, <3>1, <3>2 DEF EnterSession, EnteringHasSession
  <2> QED BY <1>3, <2>1, <2>2 DEF EnterSession, TypeOK
<1>4. CASE InsertReview(r)
  <2>1. pc' \in [Reviewers -> InTransaction \union Served \union {"idle"}]
    BY <1>4, GoToType DEF InsertReview
  <2> QED BY <1>4, <2>1 DEF InsertReview, TypeOK
<1>5. CASE LockStats(r)
  <2>1. pc' \in [Reviewers -> InTransaction \union Served \union {"idle"}]
    BY <1>5, GoToType DEF LockStats
  <2>2. statsSeen' \in [Reviewers -> Stats]
    <3>1. \A p \in rated : stats[p] \in Stats
      BY DEF TypeOK
    <3>2. \A p \in rated : [statsSeen EXCEPT ![r] = stats[p]] \in [Reviewers -> Stats]
      BY <3>1 DEF TypeOK
    <3>3. statsSeen \in [Reviewers -> Stats]
      BY DEF TypeOK
    <3> QED BY <1>5, <3>2, <3>3 DEF LockStats
  <2> QED BY <1>5, <2>1, <2>2 DEF LockStats, TypeOK
<1>6. CASE CreateStats(r)
  <2>1. pc' \in [Reviewers -> InTransaction \union Served \union {"idle"}]
    BY <1>6, GoToType DEF CreateStats
  <2>2. NewStats \in Stats
    BY DEF NewStats, Stats
  <2>3. statsSeen' \in [Reviewers -> Stats]
    BY <1>6, <2>2 DEF CreateStats, TypeOK
  <2> QED BY <1>6, <2>1, <2>3 DEF CreateStats, TypeOK
<1>7. CASE SkipStats(r)
  <2>1. pc' \in [Reviewers -> InTransaction \union Served \union {"idle"}]
    BY <1>7, GoToType DEF SkipStats
  <2> QED BY <1>7, <2>1 DEF SkipStats, TypeOK
<1>8. CASE CommitReview(r)
  <2> DEFINE v == req[r]
             old == statsSeen[r]
             next == [attempts |-> old.attempts + 1,
                      passes |-> old.passes + (IF v.result = "pass" THEN 1 ELSE 0),
                      last |-> v.result]
  <2>1. pc' \in [Reviewers -> InTransaction \union Served \union {"idle"}]
    BY <1>8, GoToType DEF CommitReview
  <2>2. log' \in Seq(Review)
    <3>1. log' = Append(log, req[r]) /\ log \in Seq(Review)
      BY <1>8 DEF CommitReview, TypeOK
    <3> HIDE DEF v
    <3> QED BY <1>1, <3>1
  <2>3. counters' \in [Sessions -> Counters]
    <3>1. Tally(seen[r], v.result) \in Counters
      BY <1>1, TallyType, ReviewType
    <3> QED BY <1>8, <3>1 DEF CommitReview, TypeOK
  <2>4. rated' \subseteq Puzzles
    BY <1>1, <1>8, ReviewType DEF CommitReview, TypeOK
  <2>5. stats' \in [Puzzles -> Stats]
    <3>1. next \in Stats
      BY <1>1, ReviewType DEF Stats
    <3>2. stats' \in {stats, [stats EXCEPT ![v.puzzle] = next]}
      BY <1>8 DEF CommitReview
    <3> HIDE DEF next
    <3> QED BY <3>1, <3>2 DEF TypeOK
  <2>6. answer' \in [Reviewers -> Result \union {"none"}]
    BY <1>1, <1>8, ReviewType DEF CommitReview, TypeOK
  <2> HIDE DEF v, old, next
  <2> QED BY <1>8, <2>1, <2>2, <2>3, <2>4, <2>5, <2>6 DEF CommitReview, TypeOK
<1>9. CASE ResolveConflict(r)
  <2>1. pc' \in [Reviewers -> InTransaction \union Served \union {"idle"}]
    BY <1>9, GoToType DEF ResolveConflict
  <2>2. answer' \in [Reviewers -> Result \union {"none"}]
    BY <1>1, <1>9, PriorType DEF ResolveConflict, TypeOK
  <2> QED BY <1>9, <2>1, <2>2 DEF ResolveConflict, TypeOK
<1>10. CASE AbortReview(r)
  <2>1. pc' \in [Reviewers -> InTransaction \union Served \union {"idle"}]
    BY <1>10, GoToType DEF AbortReview
  <2>2. aborts' \in 0..MaxAborts
    BY <1>10, TrainingReviewAssumption DEF AbortReview, TypeOK
  <2> QED BY <1>10, <2>1, <2>2 DEF AbortReview, TypeOK
<1> QED
  BY <1>2, <1>3, <1>4, <1>5, <1>6, <1>7, <1>8, <1>9, <1>10 DEF ReviewStep

\* So does every step of a session, a completion or a hint.
LEMMA SessionType == ASSUME TypeOK, SessionStep PROVE TypeOK'
<1> USE DEF sessionVars, statsVars, reviewVars, completeVars, hintVars
<1>1. ASSUME NEW s \in Sessions, StartSession(s) \/ CloseAbandoned(s) PROVE TypeOK'
  BY <1>1 DEF StartSession, CloseAbandoned, TypeOK
<1>2. ASSUME NEW s \in Sessions, StartFocusPractice(s) PROVE TypeOK'
  BY <1>2 DEF StartFocusPractice, TypeOK
<1>3. ASSUME NEW c \in Completers, WriteCompletion(c) PROVE TypeOK'
  BY <1>3 DEF WriteCompletion, TypeOK
<1>4. ASSUME NEW c \in Completers, NEW s \in Sessions, ReadCompletion(c, s)
      PROVE  TypeOK'
  BY <1>4 DEF ReadCompletion, TypeOK
<1>5. ASSUME NEW h \in Hinters, WriteHints(h) PROVE TypeOK'
  <2>1. hseen[h] + 1 \in Nat
    BY DEF TypeOK
  <2> QED BY <1>5, <2>1 DEF WriteHints, TypeOK
<1>6. ASSUME NEW h \in Hinters, NEW s \in Sessions, ReadHints(h, s) PROVE TypeOK'
  BY <1>6 DEF ReadHints, TypeOK
<1> QED BY <1>1, <1>2, <1>3, <1>4, <1>5, <1>6 DEF SessionStep

LEMMA TypeStep == TypeOK /\ EnteringHasSession /\ [Next]_vars => TypeOK'
<1>1. TypeOK /\ UNCHANGED vars => TypeOK'
  BY DEF TypeOK, vars, sessionVars, statsVars, reviewVars, completeVars, hintVars
<1> QED BY <1>1, ReviewerType, SessionType DEF Next

-----------------------------------------------------------------------------
(* Row locks *)

\* What a step of one request in progress can change, apart from its commit.
LEMMA ReviewFrame ==
    ASSUME TypeOK, NEW r \in Reviewers, ReviewStep(r) \/ AbortReview(r)
    PROVE  /\ UNCHANGED <<phase, policy, req, cpc, csession>>
           /\ \A q \in Reviewers \ {r} : /\ pc'[q] = pc[q] /\ seen'[q] = seen[q]
                                         /\ statsSeen'[q] = statsSeen[q]
                                         /\ answer'[q] = answer[q]
           /\ ~EnterSession(r) => seen'[r] = seen[r]
           /\ ~CommitReview(r) => UNCHANGED <<counters, log, rated, stats>>
           /\ pc'[r] \notin {"idle", "entering"}
BY GoToType DEF ReviewStep, EnterSession, InsertReview, LockStats, CreateStats,
    SkipStats, CommitReview, ResolveConflict, AbortReview, TypeOK,
    sessionVars, statsVars, completeVars, hintVars

\* What the arrival of a request changes.
LEMMA ReceiveFrame ==
    ASSUME TypeOK, NEW r \in Reviewers, Receive(r)
    PROVE  /\ UNCHANGED <<phase, counters, log, rated, stats, seen, statsSeen, cpc,
                          csession>>
           /\ pc[r] = "idle" /\ req'[r] \in Review
           /\ \A q \in Reviewers \ {r} : /\ pc'[q] = pc[q] /\ req'[q] = req[q]
                                         /\ answer'[q] = answer[q]
           /\ \/ /\ pc'[r] = "answered" /\ Prior(req'[r]) # {}
                 /\ answer'[r] = log[CHOOSE i \in Prior(req'[r]) : TRUE].result
              \/ pc'[r] = "inserting" /\ req'[r].session = NoSession
              \/ pc'[r] = "entering" /\ req'[r].session # NoSession
<1> USE DEF sessionVars, statsVars, completeVars, hintVars
<1>1. PICK v \in Review :
        /\ req' = [req EXCEPT ![r] = v]
        /\ IF Prior(v) # {}
           THEN /\ answer' = [answer EXCEPT
                                 ![r] = log[CHOOSE i \in Prior(v) : TRUE].result]
                /\ GoTo(r, "answered")
           ELSE /\ GoTo(r, IF v.session = NoSession THEN "inserting" ELSE "entering")
                /\ UNCHANGED answer
  BY DEF Receive
<1>2. req'[r] = v /\ \A q \in Reviewers \ {r} : req'[q] = req[q]
  BY <1>1 DEF TypeOK
<1>3. /\ UNCHANGED <<phase, counters, log, rated, stats, seen, statsSeen, cpc, csession>>
      /\ pc[r] = "idle"
  BY DEF Receive
<1>4. CASE Prior(v) # {}
  <2>1. /\ answer'[r] = log[CHOOSE i \in Prior(v) : TRUE].result
        /\ \A q \in Reviewers \ {r} : answer'[q] = answer[q]
    BY <1>1, <1>4 DEF TypeOK
  <2>2. pc'[r] = "answered" /\ \A q \in Reviewers \ {r} : pc'[q] = pc[q]
    BY <1>1, <1>4, GoToType
  <2> QED BY <1>2, <1>3, <1>4, <2>1, <2>2
<1>5. CASE Prior(v) = {}
  <2>1. /\ pc'[r] = IF v.session = NoSession THEN "inserting" ELSE "entering"
        /\ \A q \in Reviewers \ {r} : pc'[q] = pc[q]
    BY <1>1, <1>5, GoToType
  <2> QED BY <1>1, <1>2, <1>3, <1>5, <2>1
<1> QED BY <1>4, <1>5

\* What the other steps change.
LEMMA SessionFrame ==
    ASSUME SessionStep
    PROVE  UNCHANGED <<counters, log, rated, stats, reviewVars>>
BY DEF SessionStep, StartSession, StartFocusPractice, CloseAbandoned,
    WriteCompletion, ReadCompletion, WriteHints, ReadHints, statsVars, sessionVars

LEMMA EnteringStep ==
    ASSUME TypeOK, EnteringHasSession, [Next]_vars
    PROVE  EnteringHasSession'
<1> USE DEF EnteringHasSession
<1>1. ASSUME NEW r \in Reviewers, Receive(r) PROVE EnteringHasSession'
  BY <1>1, ReceiveFrame, ReviewType
<1>2. ASSUME NEW r \in Reviewers, ReviewStep(r) \/ AbortReview(r)
      PROVE  EnteringHasSession'
  BY <1>2, ReviewFrame
<1>3. CASE SessionStep \/ UNCHANGED vars
  BY <1>3, SessionFrame DEF reviewVars, vars
<1> QED BY <1>1, <1>2, <1>3 DEF Next

\* No other step touches a session row that is held.
LEMMA HeldRow ==
    ASSUME TypeOK, CompletionsAreOfSessions, SessionStep,
           NEW r \in Reviewers, pc[r] \in Holding, req[r].session # NoSession,
           phase[req[r].session] = "open"
    PROVE  phase'[req[r].session] = "open"
<1> DEFINE s == req[r].session
<1>1. LocksSession(r, s) /\ ~SessionFree(s)
  BY DEF LocksSession, SessionFree
<1> USE DEF sessionVars
<1>2. ASSUME NEW t \in Sessions,
             StartSession(t) \/ StartFocusPractice(t) \/ CloseAbandoned(t)
      PROVE  phase'[s] = "open"
  <2>1. t # s
    BY <1>1, <1>2 DEF StartSession, StartFocusPractice, CloseAbandoned
  <2>2. PICK x : phase' = [phase EXCEPT ![t] = x]
    BY <1>2 DEF StartSession, StartFocusPractice, CloseAbandoned
  <2>3. phase'[s] = phase[s]
    BY <2>1, <2>2 DEF TypeOK
  <2> QED BY <2>3
<1>3. ASSUME NEW c \in Completers, WriteCompletion(c) PROVE phase'[s] = "open"
  <2>1. csession[c] # s
    BY <1>1, <1>3 DEF WriteCompletion
  <2> QED BY <1>3, <2>1 DEF WriteCompletion, TypeOK
<1>4. ASSUME NEW c \in Completers, NEW t \in Sessions, ReadCompletion(c, t)
      PROVE  phase'[s] = "open"
  BY <1>4 DEF ReadCompletion
<1>5. ASSUME NEW h \in Hinters,
             WriteHints(h) \/ \E t \in Sessions : ReadHints(h, t)
      PROVE  phase'[s] = "open"
  BY <1>5 DEF WriteHints, ReadHints
<1> QED BY <1>2, <1>3, <1>4, <1>5 DEF SessionStep

LEMMA SessionLocksStep ==
    ASSUME TypeOK, EnteringHasSession, SessionLocksExclude,
           CompletionsAreOfSessions, [Next]_vars
    PROVE  SessionLocksExclude'
<1> USE DEF SessionLocksExclude, LocksSession, Holding
<1>1. ASSUME NEW r \in Reviewers, Receive(r) PROVE SessionLocksExclude'
  BY <1>1, ReceiveFrame
<1>2. ASSUME NEW r \in Reviewers, ReviewStep(r) \/ AbortReview(r)
      PROVE  SessionLocksExclude'
  <2>1. CASE EnterSession(r)
    <3> DEFINE s == req[r].session
    <3>1. CASE pc'[r] = "refused"
      BY <1>2, <2>1, <3>1, ReviewFrame DEF EnterSession, statsVars, sessionVars
    <3>2. CASE pc'[r] # "refused"
      <4>1. /\ phase[s] = "open" /\ seen'[r] = counters[s] /\ s \in Sessions
            /\ UNCHANGED <<phase, counters, req>>
        BY <2>1, <3>2, GoToType DEF EnterSession, EnteringHasSession, TypeOK,
          sessionVars
      <4>2. \A q \in Reviewers : ~LocksSession(q, s)
        BY <2>1 DEF EnterSession, SessionFree
      <4> QED BY <1>2, <4>1, <4>2, ReviewFrame
    <3> QED BY <3>1, <3>2
  <2>2. CASE CommitReview(r)
    <3> DEFINE s == req[r].session
    <3>1. pc[r] \in Holding /\ pc'[r] \notin Holding
      BY <2>2, GoToType DEF CommitReview
    <3>2. ASSUME NEW q \in Reviewers \ {r}, pc[q] \in Holding,
                 req[q].session # NoSession
          PROVE  counters'[req[q].session] = counters[req[q].session]
      <4>1. req[q].session # s
        BY <3>1, <3>2
      <4> QED BY <2>2, <4>1 DEF CommitReview, TypeOK
    <3> QED BY <1>2, <3>1, <3>2, ReviewFrame
  <2>3. CASE ~EnterSession(r) /\ ~CommitReview(r)
    <3>1. pc'[r] \in Holding => pc[r] \in Holding
      BY <1>2, <2>3, GoToType DEF ReviewStep, InsertReview, LockStats, CreateStats,
        SkipStats, ResolveConflict, AbortReview
    <3> QED BY <1>2, <2>3, <3>1, ReviewFrame
  <2> QED BY <2>1, <2>2, <2>3
<1>3. CASE SessionStep
  BY <1>3, SessionFrame, HeldRow DEF reviewVars
<1>4. CASE UNCHANGED vars
  BY <1>4 DEF vars, sessionVars, reviewVars
<1> QED BY <1>1, <1>2, <1>3, <1>4 DEF Next

\* The ledger after a commit.
LEMMA Appended ==
    ASSUME TypeOK, NEW r \in Reviewers, CommitReview(r)
    PROVE  /\ log' = Append(log, req[r]) /\ req[r] \in Review
           /\ DOMAIN log' = DOMAIN log \union {Len(log) + 1}
           /\ Len(log) + 1 \notin DOMAIN log
           /\ \A i \in DOMAIN log : log'[i] = log[i] /\ i < Len(log) + 1
           /\ log'[Len(log) + 1] = req[r]
<1>1. log \in Seq(Review) /\ req[r] \in Review /\ log' = Append(log, req[r])
  BY DEF TypeOK, CommitReview
<1> QED BY <1>1

\* The ledger grows at its end or stays.
LEMMA LogGrows ==
    ASSUME TypeOK, [Next]_vars
    PROVE  /\ DOMAIN log \subseteq DOMAIN log'
           /\ \A i \in DOMAIN log : log'[i] = log[i]
<1>1. ASSUME NEW r \in Reviewers, Receive(r) PROVE log' = log
  BY <1>1, ReceiveFrame
<1>2. ASSUME NEW r \in Reviewers, ReviewStep(r) \/ AbortReview(r), ~CommitReview(r)
      PROVE  log' = log
  BY <1>2, ReviewFrame
<1>3. CASE SessionStep \/ UNCHANGED vars
  BY <1>3, SessionFrame DEF vars
<1> QED BY <1>1, <1>2, <1>3, Appended DEF Next

LEMMA KeysStep ==
    ASSUME TypeOK, KeysExclude, [Next]_vars
    PROVE  KeysExclude'
<1> USE DEF KeysExclude, InsertedReview
<1>1. ASSUME NEW r \in Reviewers, Receive(r) PROVE KeysExclude'
  BY <1>1, ReceiveFrame
<1>2. ASSUME NEW r \in Reviewers, ReviewStep(r) \/ AbortReview(r)
      PROVE  KeysExclude'
  <2>1. CASE InsertReview(r)
    <3>1. /\ \A q \in Reviewers \ {r} : InsertedReview(q) => ~SameReview(req[q], req[r])
          /\ pc'[r] = "scheduling" => Prior(req[r]) = {}
          /\ pc'[r] \in {"scheduling", "conflict"}
          /\ UNCHANGED <<log, req>>
      BY <2>1, GoToType DEF InsertReview
    <3>2. ASSUME NEW q \in Reviewers \ {r}, InsertedReview(q)
          PROVE  ~SameReview(req[r], req[q])
      BY <3>1, <3>2 DEF SameReview
    <3> QED BY <1>2, <3>1, <3>2, ReviewFrame DEF Prior
  <2>2. CASE CommitReview(r)
    <3>1. InsertedReview(r) /\ pc'[r] = "answered"
      BY <2>2, GoToType DEF CommitReview
    <3>2. ASSUME NEW q \in Reviewers \ {r}, InsertedReview(q), NEW i \in DOMAIN log'
          PROVE  ~SameReview(log'[i], req[q])
      BY <2>2, <3>1, <3>2, Appended
    <3> QED BY <1>2, <3>1, <3>2, ReviewFrame
  <2>3. CASE ~InsertReview(r) /\ ~CommitReview(r)
    <3>1. InsertedReview(r)' => InsertedReview(r)
      BY <1>2, <2>3, GoToType DEF ReviewStep, EnterSession, LockStats, CreateStats,
        SkipStats, ResolveConflict, AbortReview
    <3> QED BY <1>2, <2>3, <3>1, ReviewFrame
  <2> QED BY <2>1, <2>2, <2>3
<1>3. CASE SessionStep \/ UNCHANGED vars
  BY <1>3, SessionFrame DEF vars, reviewVars
<1> QED BY <1>1, <1>2, <1>3 DEF Next

LEMMA StatsLocksStep ==
    ASSUME TypeOK, StatsLocksExclude, UnratedIsNew, [Next]_vars
    PROVE  StatsLocksExclude' /\ UnratedIsNew'
<1> USE DEF StatsLocksExclude, LocksStats, UnratedIsNew
<1>1. ASSUME NEW r \in Reviewers, Receive(r)
      PROVE  StatsLocksExclude' /\ UnratedIsNew'
  BY <1>1, ReceiveFrame
<1>2. ASSUME NEW r \in Reviewers, ReviewStep(r) \/ AbortReview(r)
      PROVE  StatsLocksExclude' /\ UnratedIsNew'
  <2> DEFINE p == req[r].puzzle
  <2>1. p \in Puzzles
    BY ReviewType DEF TypeOK
  <2>2. CASE LockStats(r) \/ CreateStats(r)
    <3>1. ~CommitReview(r)
      BY <2>2 DEF LockStats, CreateStats, CommitReview
    <3>2. /\ UNCHANGED <<req, stats, rated>>
          /\ \A q \in Reviewers \ {r} : pc'[q] = pc[q] /\ statsSeen'[q] = statsSeen[q]
      BY <1>2, <3>1, ReviewFrame
    <3>3. CASE pc'[r] = "committing"
      <4>1. statsSeen'[r] = stats[p] /\ \A q \in Reviewers : ~LocksStats(q, p)
        BY <2>1, <2>2, <3>3, GoToType DEF LockStats, CreateStats, TypeOK
      <4> QED BY <3>2, <4>1
    <3>4. CASE pc'[r] # "committing"
      BY <3>2, <3>4
    <3> QED BY <3>3, <3>4
  <2>3. CASE CommitReview(r)
    <3>1. pc[r] = "committing" /\ pc'[r] = "answered"
      BY <2>3, GoToType DEF CommitReview
    <3>2. \A q \in Puzzles \ {p} : stats'[q] = stats[q] /\ (q \in rated' <=> q \in rated)
      BY <2>3 DEF CommitReview, TypeOK, statsVars
    <3>3. CASE req[r].scheduling
      <4>1. p \in rated'
        BY <2>3, <3>3 DEF CommitReview
      <4>2. ASSUME NEW q \in Reviewers \ {r}, LocksStats(q, req[q].puzzle)
            PROVE  req[q].puzzle \in Puzzles \ {p}
        <5>1. req[q].puzzle \in Puzzles
          BY ReviewType DEF TypeOK
        <5> QED BY <3>1, <3>3, <4>2, <5>1
      <4> QED BY <1>2, <3>1, <3>2, <4>1, <4>2, ReviewFrame
    <3>4. CASE ~req[r].scheduling
      <4>1. UNCHANGED <<rated, stats>>
        BY <2>3, <3>4 DEF CommitReview, statsVars
      <4> QED BY <1>2, <3>1, <4>1, ReviewFrame
    <3> QED BY <3>3, <3>4
  <2>4. CASE ~LockStats(r) /\ ~CreateStats(r) /\ ~CommitReview(r)
    <3>1. /\ statsSeen'[r] = statsSeen[r]
          /\ pc'[r] = "committing" => ~req[r].scheduling
      BY <1>2, <2>4, GoToType DEF ReviewStep, EnterSession, InsertReview, SkipStats,
        ResolveConflict, AbortReview
    <3> QED BY <1>2, <2>4, <3>1, ReviewFrame
  <2> QED BY <2>2, <2>3, <2>4
<1>3. CASE SessionStep \/ UNCHANGED vars
  BY <1>3, SessionFrame DEF vars, reviewVars, statsVars
<1> QED BY <1>1, <1>2, <1>3 DEF Next

LEMMA CompletionsStep ==
    ASSUME TypeOK, CompletionsAreOfSessions, [Next]_vars
    PROVE  CompletionsAreOfSessions'
<1> USE DEF CompletionsAreOfSessions
<1>1. ASSUME NEW r \in Reviewers, Receive(r) \/ ReviewStep(r) \/ AbortReview(r)
      PROVE  CompletionsAreOfSessions'
  BY <1>1, ReceiveFrame, ReviewFrame
<1>2. ASSUME NEW c \in Completers,
             WriteCompletion(c) \/ \E s \in Sessions : ReadCompletion(c, s)
      PROVE  CompletionsAreOfSessions'
  BY <1>2 DEF WriteCompletion, ReadCompletion, TypeOK
<1>3. CASE \/ \E s \in Sessions : StartSession(s) \/ StartFocusPractice(s)
                                    \/ CloseAbandoned(s)
           \/ \E h \in Hinters : WriteHints(h) \/ \E s \in Sessions : ReadHints(h, s)
           \/ UNCHANGED vars
  BY <1>3 DEF StartSession, StartFocusPractice, CloseAbandoned, WriteHints,
    ReadHints, completeVars, vars
<1> QED BY <1>1, <1>2, <1>3 DEF Next, SessionStep

-----------------------------------------------------------------------------
(* The ledger and what is computed from it *)

\* A review that is found or appended answers its request for good.
LEMMA AnswersStep ==
    ASSUME TypeOK, AnswersReportTheLedger, [Next]_vars
    PROVE  AnswersReportTheLedger'
<1> DEFINE Reports(r) == \E i \in DOMAIN log : /\ log[i] = req[r] \/ SameReview(log[i], req[r])
                                               /\ log[i].result = answer[r]
<1>1. ASSUME NEW r \in Reviewers, pc[r] = "answered", pc'[r] = "answered",
             req'[r] = req[r], answer'[r] = answer[r]
      PROVE  Reports(r)'
  BY <1>1, LogGrows DEF AnswersReportTheLedger
<1>2. ASSUME NEW r \in Reviewers, Receive(r), NEW q \in Reviewers,
             pc'[q] = "answered"
      PROVE  Reports(q)'
  <2>1. CASE q = r
    <3>1. /\ Prior(req'[r]) # {} /\ req'[r] \in Review /\ log' = log
          /\ answer'[r] = log[CHOOSE i \in Prior(req'[r]) : TRUE].result
      BY <1>2, <2>1, ReceiveFrame
    <3> QED BY <2>1, <3>1, PriorType
  <2>2. CASE q # r
    BY <1>1, <1>2, <2>2, ReceiveFrame
  <2> QED BY <2>1, <2>2
<1>3. ASSUME NEW r \in Reviewers, ReviewStep(r) \/ AbortReview(r),
             NEW q \in Reviewers, pc'[q] = "answered"
      PROVE  Reports(q)'
  <2>1. CASE q # r
    BY <1>1, <1>3, <2>1, ReviewFrame
  <2>2. CASE q = r /\ CommitReview(r)
    <3>1. answer'[r] = req[r].result /\ req' = req
      BY <2>2 DEF CommitReview, TypeOK
    <3> QED BY <2>2, <3>1, Appended
  <2>3. CASE q = r /\ ResolveConflict(r)
    <3>1. /\ Prior(req[r]) # {} /\ req' = req /\ log' = log
          /\ answer'[r] = log[CHOOSE i \in Prior(req[r]) : TRUE].result
      BY <1>3, <2>3, GoToType DEF ResolveConflict, TypeOK
    <3>2. req[r] \in Review
      BY DEF TypeOK
    <3> QED BY <2>3, <3>1, <3>2, PriorType
  <2>4. q = r => CommitReview(r) \/ ResolveConflict(r)
    BY <1>3, GoToType DEF ReviewStep, EnterSession, InsertReview, LockStats,
      CreateStats, SkipStats, AbortReview
  <2> QED BY <2>1, <2>2, <2>3, <2>4
<1>4. CASE SessionStep \/ UNCHANGED vars
  BY <1>1, <1>4, SessionFrame DEF vars, reviewVars, AnswersReportTheLedger
<1>5. ASSUME NEW q \in Reviewers, pc'[q] = "answered" PROVE Reports(q)'
  BY <1>2, <1>3, <1>4, <1>5 DEF Next, AnswersReportTheLedger
<1> QED BY <1>5 DEF AnswersReportTheLedger

\* A set of ledger entries, before and after a review is appended to it or not.
LEMMA OneMoreEntry ==
    ASSUME TypeOK, NEW S \in SUBSET DOMAIN log, NEW n, n \notin DOMAIN log
    PROVE  /\ Cardinality(S) \in Nat
           /\ Cardinality(S \union {n}) = Cardinality(S) + 1
<1>1. IsFiniteSet(DOMAIN log)
  <2>1. DOMAIN log = 1..Len(log) /\ Len(log) \in Nat
    BY LogType
  <2> QED BY <2>1, FS_Interval
<1>2. IsFiniteSet(S)
  BY <1>1, FS_Subset
<1> QED BY <1>2, FS_CardinalityType, FS_AddElement

\* What a commit does to the counters of a session.
LEMMA CommitTallies ==
    ASSUME TypeOK, SessionLocksExclude, NEW r \in Reviewers, CommitReview(r),
           NEW s \in Sessions
    PROVE  counters'[s] = IF req[r].session = s
                          THEN Tally(counters[s], req[r].result) ELSE counters[s]
<1>1. CASE req[r].session = s
  <2>1. counters'[s] = Tally(seen[r], req[r].result)
    BY <1>1, TrainingReviewAssumption DEF CommitReview, TypeOK
  <2>2. seen[r] = counters[s]
    BY <1>1, TrainingReviewAssumption DEF SessionLocksExclude, Holding, CommitReview
  <2> QED BY <1>1, <2>1, <2>2
<1>2. CASE req[r].session # s
  BY <1>2 DEF CommitReview, TypeOK
<1> QED BY <1>1, <1>2

\* Every step keeps the session counters equal to what the ledger holds.
LEMMA CountsStep ==
    ASSUME TypeOK, SessionLocksExclude, SessionCountsReviews, [Next]_vars
    PROVE  SessionCountsReviews'
<1>1. CASE UNCHANGED <<counters, log>>
  BY <1>1 DEF SessionCountsReviews, Reviewed
<1>2. ASSUME NEW r \in Reviewers, CommitReview(r) PROVE SessionCountsReviews'
  <2> DEFINE v == req[r]
             n == Len(log) + 1
  <2>1. v \in Review /\ v.result \in {"pass", "fail"}
    BY ReviewType DEF TypeOK, Result
  <2>2. ASSUME NEW s \in Sessions, NEW result \in {"pass", "fail"}
        PROVE  Reviewed(s, result)' = IF v.session = s /\ v.result = result
                 THEN Reviewed(s, result) \union {n} ELSE Reviewed(s, result)
    BY <1>2, Appended DEF Reviewed
  <2>3. ASSUME NEW s \in Sessions, NEW result \in {"pass", "fail"}
        PROVE  Cardinality(Reviewed(s, result)') = Cardinality(Reviewed(s, result))
                 + (IF v.session = s /\ v.result = result THEN 1 ELSE 0)
    <3>1. Reviewed(s, result) \subseteq DOMAIN log /\ n \notin DOMAIN log
      BY <1>2, Appended DEF Reviewed
    <3>2. /\ Cardinality(Reviewed(s, result)) \in Nat
          /\ Cardinality(Reviewed(s, result) \union {n})
               = Cardinality(Reviewed(s, result)) + 1
      BY <3>1, OneMoreEntry
    <3> HIDE DEF v, n
    <3>3. CASE v.session = s /\ v.result = result
      BY <2>2, <3>2, <3>3
    <3>4. CASE ~(v.session = s /\ v.result = result)
      BY <2>2, <3>2, <3>4
    <3> QED BY <3>3, <3>4
  <2>4. ASSUME NEW s \in Sessions
        PROVE  /\ counters'[s].pass = counters[s].pass
                    + (IF v.session = s /\ v.result = "pass" THEN 1 ELSE 0)
               /\ counters'[s].fail = counters[s].fail
                    + (IF v.session = s /\ v.result = "fail" THEN 1 ELSE 0)
    <3>0. counters[s] \in Counters /\ counters[s].pass \in Nat /\ counters[s].fail \in Nat
      BY DEF TypeOK, Counters
    <3>1. counters'[s] = IF v.session = s THEN Tally(counters[s], v.result)
                                            ELSE counters[s]
      BY <1>2, CommitTallies
    <3>2. CASE v.session = s
      BY <2>1, <3>0, <3>1, <3>2, TallyType DEF Result
    <3>3. CASE v.session # s
      BY <3>0, <3>1, <3>3
    <3> QED BY <3>2, <3>3
  <2> HIDE DEF v
  <2> QED BY <2>3, <2>4 DEF SessionCountsReviews
<1>3. UNCHANGED <<counters, log>> \/ \E r \in Reviewers : CommitReview(r)
  BY ReceiveFrame, ReviewFrame, SessionFrame DEF Next, vars, sessionVars
<1> QED BY <1>1, <1>2, <1>3

\* The runs of passes before and after a commit: earlier ones stay as they
\* were, a pass prolongs the last one, a fail ends it.
LEMMA RunsMove ==
    ASSUME TypeOK, NEW r \in Reviewers, CommitReview(r), NEW s \in Sessions,
           NEW n, n = Len(log) + 1
    PROVE  /\ \A m \in 0..Len(log) : RunAt(s, m)' = RunAt(s, m)
           /\ req[r].session # s => RunAt(s, n)' = RunAt(s, Len(log))
           /\ req[r].session = s /\ req[r].result = "pass" =>
                  RunAt(s, n)' = RunAt(s, Len(log)) \union {n}
           /\ req[r].session = s /\ req[r].result = "fail" => RunAt(s, n)' = {}
<1> DEFINE v == req[r]
           S(result) == Reviewed(s, result)
           T(result) == Reviewed(s, result)'
<1>1. /\ Len(log) \in Nat /\ n \in Nat /\ n \notin DOMAIN log /\ Len(log) < n
      /\ \A i \in DOMAIN log : i \in Nat /\ i <= Len(log) /\ i < n
  BY LogType
<1>2. \A result : S(result) \subseteq DOMAIN log
  BY DEF Reviewed
<1>3. ASSUME NEW result
      PROVE  T(result) = IF v.session = s /\ v.result = result
                         THEN S(result) \union {n} ELSE S(result)
  BY Appended DEF Reviewed
<1>4. ASSUME NEW m
      PROVE  /\ RunAt(s, m) = {i \in S("pass") : i <= m /\ \A j \in S("fail") : j <= m => j < i}
             /\ RunAt(s, m)' = {i \in T("pass") : i <= m /\ \A j \in T("fail") : j <= m => j < i}
  BY DEF RunAt
<1> HIDE DEF v, S, T
<1>5. ASSUME NEW m \in 0..Len(log) PROVE RunAt(s, m)' = RunAt(s, m)
  <2>1. m \in Nat /\ m < n /\ ~(n <= m)
    BY <1>1
  <2>2. \A i : (i \in T("pass") /\ i <= m) <=> (i \in S("pass") /\ i <= m)
    BY <1>3, <2>1
  <2>3. \A i : (i \in T("fail") /\ i <= m) <=> (i \in S("fail") /\ i <= m)
    BY <1>3, <2>1
  <2> QED BY <1>4, <2>2, <2>3
<1>6. RunAt(s, Len(log)) = {i \in S("pass") : \A j \in S("fail") : j < i}
  BY <1>1, <1>2, <1>4
<1>7. RunAt(s, n)' = {i \in T("pass") : \A j \in T("fail") : j < i}
  <2>1. \A result : \A i \in T(result) : i \in Nat /\ i <= n
    BY <1>1, <1>2, <1>3
  <2> QED BY <1>4, <2>1
<1>8. v.session # s => RunAt(s, n)' = RunAt(s, Len(log))
  BY <1>3, <1>6, <1>7
<1>9. v.session = s /\ v.result = "pass" =>
        RunAt(s, n)' = RunAt(s, Len(log)) \union {n}
  BY <1>1, <1>2, <1>3, <1>6, <1>7
<1>10. v.session = s /\ v.result = "fail" => RunAt(s, n)' = {}
  <2> SUFFICES ASSUME v.session = s, v.result = "fail" PROVE RunAt(s, n)' = {}
    OBVIOUS
  <2>1. n \in T("fail") /\ T("pass") = S("pass")
    BY <1>3
  <2>2. \A i \in S("pass") : ~(n < i)
    BY <1>1, <1>2
  <2> QED BY <1>7, <2>1, <2>2
<1> QED BY <1>5, <1>8, <1>9, <1>10 DEF v

\* Every step keeps the streaks of a session equal to the runs in the ledger.
LEMMA StreaksStep ==
    ASSUME TypeOK, SessionLocksExclude, StreaksFollowReviews, [Next]_vars
    PROVE  StreaksFollowReviews'
<1>1. CASE UNCHANGED <<counters, log>>
  <2>1. ASSUME NEW s, NEW m PROVE RunAt(s, m)' = RunAt(s, m)
    BY <1>1 DEF RunAt, Reviewed
  <2>2. Len(log') = Len(log) /\ counters' = counters
    BY <1>1
  <2> QED BY <2>1, <2>2 DEF StreaksFollowReviews
<1>2. ASSUME NEW r \in Reviewers, CommitReview(r), NEW s \in Sessions,
             NEW n, n = Len(log) + 1
      PROVE  /\ counters'[s].streak = Cardinality(RunAt(s, n)')
             /\ \A m \in 0..n : Cardinality(RunAt(s, m)') <= counters'[s].best
             /\ \E m \in 0..n : Cardinality(RunAt(s, m)') = counters'[s].best
  <2> DEFINE c == counters[s]
             v == req[r]
             Size(m) == Cardinality(RunAt(s, m))
             SizeNow(m) == Cardinality(RunAt(s, m)')
  <2>1. /\ Len(log) \in Nat /\ n \in Nat /\ n \notin DOMAIN log
        /\ 0..n = (0..Len(log)) \union {n} /\ Len(log) \in 0..Len(log)
    BY <1>2, LogType
  <2>2. c.streak \in Nat /\ c.best \in Nat /\ c \in Counters
    BY DEF TypeOK, Counters
  <2>3. \A m \in 0..Len(log) : Size(m) \in Nat
    <3>1. \A m \in 0..Len(log) : RunAt(s, m) \subseteq DOMAIN log
      BY DEF RunAt, Reviewed
    <3> QED BY <2>1, <3>1, OneMoreEntry
  <2>4. /\ c.streak = Size(Len(log))
        /\ \A m \in 0..Len(log) : Size(m) <= c.best
        /\ \E m \in 0..Len(log) : Size(m) = c.best
    BY DEF StreaksFollowReviews
  <2>5. \A m \in 0..Len(log) : SizeNow(m) = Size(m)
    BY <1>2, RunsMove
  <2>6. counters'[s] = IF v.session = s THEN Tally(c, v.result) ELSE c
    BY <1>2, CommitTallies
  <2>7. v.result \in {"pass", "fail"} /\ v.result \in Result
    BY ReviewType DEF TypeOK, Result
  <2>8. CASE v.session # s
    <3>1. SizeNow(n) = Size(Len(log))
      BY <1>2, <2>8, RunsMove
    <3> HIDE DEF v, c, Size, SizeNow
    <3>2. /\ counters'[s].streak = SizeNow(n)
          /\ \A m \in 0..n : SizeNow(m) <= counters'[s].best
          /\ \E m \in 0..n : SizeNow(m) = counters'[s].best
      BY <2>1, <2>4, <2>5, <2>6, <2>8, <3>1
    <3> QED BY <3>2 DEF SizeNow
  <2>9. CASE v.session = s /\ v.result = "pass"
    <3>1. SizeNow(n) = Size(Len(log)) + 1
      <4>1. RunAt(s, n)' = RunAt(s, Len(log)) \union {n}
        BY <1>2, <2>9, RunsMove
      <4>2. RunAt(s, Len(log)) \subseteq DOMAIN log
        BY DEF RunAt, Reviewed
      <4> QED BY <2>1, <4>1, <4>2, OneMoreEntry
    <3>2. /\ counters'[s].streak = c.streak + 1
          /\ counters'[s].best = IF c.streak + 1 > c.best THEN c.streak + 1 ELSE c.best
      BY <2>2, <2>6, <2>7, <2>9, TallyType
    <3> HIDE DEF v, c, Size, SizeNow
    <3>3. /\ counters'[s].streak = SizeNow(n)
          /\ \A m \in 0..n : SizeNow(m) <= counters'[s].best
      BY <2>1, <2>2, <2>3, <2>4, <2>5, <3>1, <3>2
    <3>4. \E m \in 0..n : SizeNow(m) = counters'[s].best
      <4>1. PICK m \in 0..Len(log) : Size(m) = c.best
        BY <2>4
      <4>2. m \in 0..n /\ n \in 0..n /\ SizeNow(m) = c.best /\ SizeNow(n) = c.streak + 1
        BY <2>1, <2>4, <2>5, <3>1, <4>1
      <4> QED BY <3>2, <4>2
    <3> QED BY <3>3, <3>4 DEF SizeNow
  <2>10. CASE v.session = s /\ v.result = "fail"
    <3>1. SizeNow(n) = 0
      BY <1>2, <2>10, RunsMove, FS_EmptySet
    <3>2. counters'[s].streak = 0 /\ counters'[s].best = c.best
      BY <2>2, <2>6, <2>7, <2>10, TallyType
    <3> HIDE DEF v, c, Size, SizeNow
    <3>3. /\ counters'[s].streak = SizeNow(n)
          /\ \A m \in 0..n : SizeNow(m) <= counters'[s].best
          /\ \E m \in 0..n : SizeNow(m) = counters'[s].best
      BY <2>1, <2>2, <2>4, <2>5, <3>1, <3>2
    <3> QED BY <3>3 DEF SizeNow
  <2> QED BY <2>7, <2>8, <2>9, <2>10
<1>3. UNCHANGED <<counters, log>> \/ \E r \in Reviewers : CommitReview(r)
  BY ReceiveFrame, ReviewFrame, SessionFrame DEF Next, vars, sessionVars
<1>4. ASSUME NEW r \in Reviewers, CommitReview(r) PROVE StreaksFollowReviews'
  <2> DEFINE n == Len(log')
  <2>1. n = Len(log) + 1
    BY <1>4, Appended, LogType DEF TypeOK
  <2>2. \A s \in Sessions :
          /\ counters'[s].streak = Cardinality(RunAt(s, Len(log))')
          /\ \A m \in 0..Len(log') : Cardinality(RunAt(s, m)') <= counters'[s].best
          /\ \E m \in 0..Len(log') : Cardinality(RunAt(s, m)') = counters'[s].best
    BY <1>2, <1>4, <2>1
  <2> QED BY <2>2 DEF StreaksFollowReviews
<1> QED BY <1>1, <1>3, <1>4

\* Every step keeps the stats of every puzzle equal to what the ledger holds.
LEMMA StatsStep ==
    ASSUME TypeOK, StatsLocksExclude, StatsFollowReviews, [Next]_vars
    PROVE  StatsFollowReviews'
<1>1. CASE UNCHANGED <<stats, log>>
  BY <1>1 DEF StatsFollowReviews, Scheduled
<1>2. ASSUME NEW r \in Reviewers, CommitReview(r) PROVE StatsFollowReviews'
  <2> DEFINE v == req[r]
             n == Len(log) + 1
             Passed(p) == {i \in Scheduled(p) : log[i].result = "pass"}
  <2>1. v \in Review /\ v.scheduling \in BOOLEAN
    BY ReviewType DEF TypeOK
  <2>2. ASSUME NEW p \in Puzzles
        PROVE  /\ Scheduled(p) \subseteq DOMAIN log /\ Passed(p) \subseteq DOMAIN log
               /\ n \notin DOMAIN log /\ \A i \in DOMAIN log : i < n
               /\ n \in Nat /\ DOMAIN log \subseteq Nat
    BY <1>2, Appended, LogType DEF Scheduled
  <2>3. ASSUME NEW p \in Puzzles
        PROVE  /\ Cardinality(Scheduled(p)) \in Nat
               /\ Cardinality(Scheduled(p) \union {n}) = Cardinality(Scheduled(p)) + 1
               /\ Cardinality(Passed(p)) \in Nat
               /\ Cardinality(Passed(p) \union {n}) = Cardinality(Passed(p)) + 1
    BY <2>2, OneMoreEntry
  <2>4. ASSUME NEW p \in Puzzles, ~(v.puzzle = p /\ v.scheduling)
        PROVE  /\ Scheduled(p)' = Scheduled(p) /\ Passed(p)' = Passed(p)
               /\ stats'[p] = stats[p]
               /\ \A i \in Scheduled(p) : log'[i] = log[i]
    <3>1. Scheduled(p)' = Scheduled(p) /\ \A i \in Scheduled(p) : log'[i] = log[i]
      BY <1>2, <2>4, Appended DEF Scheduled
    <3>2. stats'[p] = stats[p]
      BY <1>2, <2>4 DEF CommitReview, TypeOK, statsVars
    <3> QED BY <3>1, <3>2
  <2>5. ASSUME NEW p \in Puzzles, v.puzzle = p, v.scheduling
        PROVE  /\ Scheduled(p)' = Scheduled(p) \union {n}
               /\ Passed(p)' = IF v.result = "pass" THEN Passed(p) \union {n}
                                                    ELSE Passed(p)
               /\ stats'[p].attempts = stats[p].attempts + 1
               /\ stats'[p].passes = stats[p].passes
                                       + (IF v.result = "pass" THEN 1 ELSE 0)
               /\ stats'[p].last = v.result /\ log'[n] = v
    <3>1. Scheduled(p)' = Scheduled(p) \union {n}
      BY <1>2, <2>5, Appended DEF Scheduled
    <3>2. \A i \in Scheduled(p) : log'[i] = log[i]
      BY <1>2, Appended DEF Scheduled
    <3>3. log'[n] = v
      BY <1>2, Appended
    <3>4. Passed(p)' = IF v.result = "pass" THEN Passed(p) \union {n} ELSE Passed(p)
      BY <3>1, <3>2, <3>3
    <3>5. statsSeen[r] = stats[p]
      BY <1>2, <2>5 DEF StatsLocksExclude, LocksStats, CommitReview
    <3>6. stats'[p] = [attempts |-> stats[p].attempts + 1,
                       passes |-> stats[p].passes
                                    + (IF v.result = "pass" THEN 1 ELSE 0),
                       last |-> v.result]
      BY <1>2, <2>5, <3>5 DEF CommitReview, TypeOK
    <3> QED BY <3>1, <3>3, <3>4, <3>6
  <2>6. ASSUME NEW p \in Puzzles
        PROVE  /\ stats'[p].attempts = Cardinality(Scheduled(p)')
               /\ stats'[p].passes = Cardinality(Passed(p)')
               /\ \A i \in Scheduled(p)' :
                    (\A j \in Scheduled(p)' : j <= i) => stats'[p].last = log'[i].result
    <3>1. /\ stats[p].attempts = Cardinality(Scheduled(p))
          /\ stats[p].passes = Cardinality(Passed(p))
          /\ \A i \in Scheduled(p) :
               (\A j \in Scheduled(p) : j <= i) => stats[p].last = log[i].result
      BY DEF StatsFollowReviews
    <3> HIDE DEF v, n, Passed
    <3>2. CASE ~(v.puzzle = p /\ v.scheduling)
      BY <2>4, <3>1, <3>2
    <3>3. CASE v.puzzle = p /\ v.scheduling
      <4>1. ASSUME NEW i \in Scheduled(p)', \A j \in Scheduled(p)' : j <= i
            PROVE  i = n
        BY <2>2, <2>5, <3>3, <4>1
      <4>2. \A i \in Scheduled(p)' :
              (\A j \in Scheduled(p)' : j <= i) => stats'[p].last = log'[i].result
        BY <2>5, <3>3, <4>1
      <4>3. stats'[p].attempts = Cardinality(Scheduled(p)')
        <5>1. /\ stats[p].attempts = Cardinality(Scheduled(p))
              /\ stats'[p].attempts = stats[p].attempts + 1
          BY <2>5, <3>1, <3>3
        <5> QED BY <2>3, <2>5, <3>3, <5>1
      <4>4. stats'[p].passes = Cardinality(Passed(p)')
        <5>1. CASE v.result = "pass"
          BY <2>3, <2>5, <3>1, <3>3, <5>1
        <5>2. CASE v.result # "pass"
          <6>1. Passed(p)' = Passed(p) /\ stats'[p].passes = stats[p].passes + 0
            BY <2>5, <3>3, <5>2
          <6>2. stats[p].passes = Cardinality(Passed(p)) /\ Cardinality(Passed(p)) \in Nat
            BY <2>3, <3>1
          <6>3. stats'[p].passes = Cardinality(Passed(p))
            BY <6>1, <6>2
          <6> QED BY <6>1, <6>3
        <5> QED BY <5>1, <5>2
      <4> QED BY <4>2, <4>3, <4>4
    <3> QED BY <3>2, <3>3
  <2> QED BY <2>6 DEF StatsFollowReviews
<1>3. UNCHANGED <<stats, log>> \/ \E r \in Reviewers : CommitReview(r)
  BY ReceiveFrame, ReviewFrame, SessionFrame DEF Next, vars, statsVars
<1> QED BY <1>1, <1>2, <1>3

-----------------------------------------------------------------------------
(* The theorems *)

LEMMA InvInit == Init => IInv
<1> SUFFICES ASSUME Init PROVE IInv
  OBVIOUS
<1>1. \A r \in Reviewers : pc[r] = "idle"
  BY DEF Init
<1>2. DOMAIN log = {}
  BY DEF Init
<1>3. /\ EnteringHasSession /\ SessionLocksExclude /\ KeysExclude
      /\ StatsLocksExclude /\ AnswersReportTheLedger
  BY <1>1 DEF EnteringHasSession, SessionLocksExclude, Holding, KeysExclude,
    InsertedReview, StatsLocksExclude, LocksStats, AnswersReportTheLedger
<1>4. UnratedIsNew /\ CompletionsAreOfSessions
  BY DEF Init, UnratedIsNew, CompletionsAreOfSessions
<1>5. SessionCountsReviews
  <2>1. \A s \in Sessions, result \in Result : Reviewed(s, result) = {}
    BY <1>2 DEF Reviewed
  <2> QED
    BY <2>1, FS_EmptySet DEF Init, SessionCountsReviews, ZeroCounters, Result
<1>7. StreaksFollowReviews
  <2>1. ASSUME NEW s, NEW m PROVE Cardinality(RunAt(s, m)) = 0
    BY <1>2, FS_EmptySet DEF RunAt, Reviewed
  <2>2. Len(log) = 0 /\ 0 \in 0..Len(log)
    BY DEF Init
  <2>3. \A s \in Sessions : counters[s].streak = 0 /\ counters[s].best = 0
    BY DEF Init, ZeroCounters
  <2> QED BY <2>1, <2>2, <2>3 DEF StreaksFollowReviews
<1>6. StatsFollowReviews
  <2>1. \A p \in Puzzles : Scheduled(p) = {}
    BY <1>2 DEF Scheduled
  <2>2. \A p \in Puzzles : {i \in Scheduled(p) : log[i].result = "pass"} = {}
    BY <2>1
  <2> QED
    BY <2>1, <2>2, FS_EmptySet DEF Init, StatsFollowReviews, NewStats
<1> QED BY <1>3, <1>4, <1>5, <1>6, <1>7, InitType DEF IInv

LEMMA InvStep == IInv /\ [Next]_vars => IInv'
BY TypeStep, EnteringStep, SessionLocksStep, KeysStep, StatsLocksStep,
   CompletionsStep, AnswersStep, CountsStep, StreaksStep, StatsStep DEF IInv

LEMMA Inductive == Spec => []IInv
BY InvInit, InvStep, PTL DEF Spec

\* Every variable of the session and review tables and of the requests has its
\* type in every reachable state.
THEOREM TypeCorrect == Spec => []TypeOK
BY Inductive, PTL DEF IInv

\* pass_count and fail_count are the numbers of reviews recorded in a session,
\* whatever requests run at once, conflict, retry or die.
THEOREM CountsAreTrue == Spec => []SessionCountsReviews
BY Inductive, PTL DEF IInv

\* current_streak is the run of passes a session's reviews end with, and
\* best_streak the longest it ever had, whatever requests race.
THEOREM StreaksAreTrue == Spec => []StreaksFollowReviews
BY Inductive, PTL DEF IInv

\* A puzzle's attempts, passes and last result are those of its scheduling
\* reviews, across sessions and racing first reviews.
THEOREM StatsAreTrue == Spec => []StatsFollowReviews
BY Inductive, PTL DEF IInv

\* A request is answered 200 only with the result the ledger holds for it.
THEOREM AnswersAreTrue == Spec => []AnswersReportTheLedger
BY Inductive, PTL DEF IInv

\* What a commit finds: an open session and a new key.
LEMMA CommitIsLegal ==
    ASSUME IInv, NEW r \in Reviewers, CommitReview(r)
    PROVE  /\ req[r] \in Review /\ log' = Append(log, req[r])
           /\ UNCHANGED phase
           /\ req[r].session # NoSession => phase[req[r].session] = "open"
           /\ \A i \in DOMAIN log : ~SameReview(log[i], req[r])
<1>1. pc[r] = "committing"
  BY DEF CommitReview
<1> QED
  BY <1>1, Appended DEF IInv, SessionLocksExclude, Holding, KeysExclude,
    InsertedReview, CommitReview

\* Once complete_session or the sweep has closed a session, no review changes
\* its counters any more.
THEOREM SummaryStays == Spec => SummaryIsFinal
<1>1. IInv /\ [Next]_vars =>
        [\A s \in Sessions : phase[s] = "completed" => counters'[s] = counters[s]]_vars
  <2> SUFFICES ASSUME IInv, [Next]_vars, NEW s \in Sessions, phase[s] = "completed"
               PROVE  counters'[s] = counters[s]
    OBVIOUS
  <2>1. ASSUME NEW r \in Reviewers, CommitReview(r)
        PROVE  counters'[s] = counters[s]
    <3>1. req[r].session # s
      BY <2>1, CommitIsLegal, TrainingReviewAssumption
    <3> QED BY <2>1, <3>1 DEF CommitReview, IInv, TypeOK
  <2>2. UNCHANGED counters \/ \E r \in Reviewers : CommitReview(r)
    BY ReceiveFrame, ReviewFrame, SessionFrame DEF Next, vars, sessionVars, IInv
  <2> QED BY <2>1, <2>2
<1> QED BY <1>1, Inductive, PTL DEF Spec, SummaryIsFinal

\* The concurrent transactions of review_puzzle, complete_session and the sweep
\* implement the ledger: reviews are appended one by one, a key counts once, and
\* a completed session receives none.
THEOREM ImplementsTheLedger == Spec => KeepsTheLedger
<1> DEFINE closed == {s \in Sessions : phase[s] = "completed"}
<1>1. Init => Ledger!Init
  BY DEF Init, Ledger!Init
<1>2. IInv /\ [Next]_vars => [Ledger!Next]_<<log, closed>>
  <2> SUFFICES ASSUME IInv, [Next]_vars
               PROVE  Ledger!Next \/ UNCHANGED <<log, closed>>
    OBVIOUS
  <2>1. ASSUME NEW r \in Reviewers, CommitReview(r) PROVE Ledger!Next
    <3>1. /\ req[r] \in Review /\ log' = Append(log, req[r]) /\ UNCHANGED closed
          /\ \A i \in DOMAIN log : ~SameReview(log[i], req[r])
          /\ req[r].session \notin closed
      BY <2>1, CommitIsLegal, TrainingReviewAssumption
    <3>2. Ledger!Record(req[r])
      BY <3>1 DEF Ledger!Record, Ledger!SameReview, SameReview
    <3>3. req[r] \in Ledger!Review
      BY <3>1 DEF Review, Ledger!Review, Result, Ledger!Result
    <3> QED BY <3>2, <3>3 DEF Ledger!Next
  <2>2. ASSUME UNCHANGED log, NEW s \in Sessions, phase' = [phase EXCEPT ![s] = "completed"]
        PROVE  Ledger!Next
    <3>1. closed' = closed \union {s}
      BY <2>2 DEF IInv, TypeOK
    <3> QED BY <2>2, <3>1 DEF Ledger!Next, Ledger!Close
  <2>3. ASSUME NEW s \in Sessions, phase[s] = "absent", phase' = [phase EXCEPT ![s] = "open"]
        PROVE  UNCHANGED closed
    BY <2>3 DEF IInv, TypeOK
  <2>4. ASSUME NEW r \in Reviewers, Receive(r) \/ ReviewStep(r) \/ AbortReview(r),
               ~CommitReview(r)
        PROVE  UNCHANGED <<log, closed>>
    BY <2>4, ReceiveFrame, ReviewFrame DEF IInv
  <2>5. CASE SessionStep
    <3>1. UNCHANGED log
      BY <2>5, SessionFrame
    <3>2. ASSUME NEW s \in Sessions, StartSession(s) \/ StartFocusPractice(s)
          PROVE  UNCHANGED closed
      BY <2>3, <3>2 DEF StartSession, StartFocusPractice
    <3>3. ASSUME NEW s \in Sessions, CloseAbandoned(s) PROVE Ledger!Next
      BY <2>2, <3>1, <3>3 DEF CloseAbandoned
    <3>4. ASSUME NEW c \in Completers, WriteCompletion(c) PROVE Ledger!Next
      <4>1. csession[c] \in Sessions
        BY <3>4 DEF IInv, CompletionsAreOfSessions, WriteCompletion
      <4> QED BY <2>2, <3>1, <3>4, <4>1 DEF WriteCompletion
    <3>5. ASSUME UNCHANGED phase PROVE UNCHANGED closed
      BY <3>5
    <3> QED
      BY <2>5, <3>1, <3>2, <3>3, <3>4, <3>5 DEF SessionStep, ReadCompletion,
        WriteHints, ReadHints, sessionVars
  <2>6. CASE UNCHANGED vars
    BY <2>6 DEF vars, sessionVars
  <2> QED BY <2>1, <2>4, <2>5, <2>6 DEF Next
<1> QED
  BY <1>1, <1>2, Inductive, PTL DEF Spec, KeepsTheLedger, Ledger!Spec

=============================================================================
