------------------------- MODULE PuzzleSavingProofs -------------------------
(***************************************************************************)
(* Theorems about PuzzleSaving, for any requests, positions and names: the *)
(* manual plies stay a sequence, typed names stay, requests fail only      *)
(* after losing as many races as their loops have rounds, and manual       *)
(* saving implements PuzzleBook.                                           *)
(***************************************************************************)
EXTENDS PuzzleSaving, FiniteSetTheorems, WellFoundedInduction, TLAPS

-----------------------------------------------------------------------------
(* The inductive invariant *)

Row == [id : Savers \union Generators \union {Legacy},
        game : {"manual", "imported", "old"}, ply : Nat,
        position : Positions \union {NoPosition}]

\* The types that the steps of saves rely on; the others are in RInv below.
Shape ==
    /\ wanted \in [Savers -> Positions]
    /\ puzzles \in Seq(Row)
    /\ DOMAIN title \subseteq Savers \union Generators \union {Legacy}
    /\ pc \in [Requests -> Steps]
    /\ DOMAIN local = Requests
    /\ \A r \in Requests : DOMAIN local[r] = {"attempt", "retry", "ply", "free"}
    /\ \A r \in Requests : local[r].ply \in Nat
    /\ DOMAIN seen = Namers
    /\ \A n \in Namers : DOMAIN seen[n] = {"rows", "title", "used"}

Over == {"done", "found", "failed"}

\* A save is between the choice of its ply and the end of its attempt.
Allocated == {"saving", "titling", "inserting", "duplicate", "renaming"}

\* A save is before save_puzzle, or back from its failure.
Asking == {"arriving", "allocating", "absorbing"}

\* Generation calls save_puzzle alone.
GeneratorsOnlySave == \A g \in Generators : pc[g] \notin Asking

\* The rows of the synthetic game are those of saves that are done, and they
\* have stats.
ManualRowsAreDone ==
    \A row \in Rows :
        /\ row.game = "manual" => row.id \in Savers
        /\ row.id \in Savers =>
              row.game = "manual" /\ pc[row.id] = "done" /\ row.id \in DOMAIN title

\* A save has stats once it is done.
TitledAreDone == \A r \in Savers : r \in DOMAIN title => pc[r] = "done"

\* A save has been answered once it is over.
AnsweredAreOver ==
    \A a \in answers : a.request \in Savers /\ pc[a.request] \in Over

\* What a naming pass is about to name was not typed by a user.
SeenAreNotTyped ==
    \A n \in Namers : \A row \in seen[n].rows :
        row.id \in Generators \union {Legacy}

\* The ply of a save was the next one when it was chosen, and rows only come.
PliesWereNext ==
    \A r \in Savers :
        pc[r] \in Allocated => local[r].ply <= Cardinality(ManualRows)

\* Whatever suffix a save has to use, it inserts the name that was typed.
FreeTitlesKeepTheName ==
    \A r \in Savers : pc[r] = "inserting" => local[r].free.name = NameOf[r]

IInv ==
    /\ Shape
    /\ IsFiniteSet(ManualRows)
    /\ GeneratorsOnlySave
    /\ ManualRowsAreDone
    /\ TitledAreDone
    /\ AnsweredAreOver
    /\ SeenAreNotTyped
    /\ PliesWereNext
    /\ FreeTitlesKeepTheName
    /\ PliesAreASequence
    /\ TypedNamesAreShown

-----------------------------------------------------------------------------
(* Titles *)

\* A set of numbers that is not empty has a least one.
LEMMA LeastNumber ==
    ASSUME NEW T \in SUBSET Nat, T # {}
    PROVE  \E n \in T : \A m \in T : n <= m
<1>1. PICK n \in T : \A m \in T : ~(<<m, n>> \in OpToRel(<, Nat))
  BY WFMin, NatLessThanWellFounded
<1>2. \A m \in T : ~(m < n)
  BY <1>1 DEF OpToRel
<1> QED BY <1>2

\* The number of a counted title can always be found: one of Cardinality(used)
\* + 1 titles is not among the used ones.
LEMMA FreeNumber ==
    ASSUME NEW name, NEW used, IsFiniteSet(used)
    PROVE  \E t \in FreeNumbered(name, used) :
               \A u \in FreeNumbered(name, used) : t.n <= u.n
<1> DEFINE numbers == 2..(Cardinality(used) + 2)
           free == {n \in numbers : Title(name, "", n) \notin used}
<1>1. Cardinality(used) \in Nat
  BY FS_CardinalityType
<1>2. free # {}
  <2>1. SUFFICES ASSUME \A n \in numbers : Title(name, "", n) \in used
                 PROVE  FALSE
    OBVIOUS
  <2> DEFINE f == [n \in numbers |-> Title(name, "", n)]
  <2>2. f \in Injection(numbers, used)
    BY <2>1 DEF Title, Injection, IsInjective
  <2>3. Cardinality(numbers) <= Cardinality(used)
    <3> HIDE DEF f, numbers
    <3> QED BY <2>2, FS_Injection
  <2>4. Cardinality(numbers) = Cardinality(used) + 1
    BY <1>1, FS_Interval
  <2> HIDE DEF numbers
  <2> QED BY <1>1, <2>3, <2>4
<1>3. PICK n \in free : \A m \in free : n <= m
  <2>1. free \subseteq Nat
    <3>1. numbers \subseteq Nat
      BY <1>1
    <3> HIDE DEF numbers
    <3> QED BY <3>1
  <2> HIDE DEF free
  <2> QED BY <1>2, <2>1, LeastNumber
<1>4. Title(name, "", n) \in FreeNumbered(name, used)
  BY <1>3 DEF FreeNumbered
<1>5. ASSUME NEW u \in FreeNumbered(name, used)
      PROVE  Title(name, "", n).n <= u.n
  <2>1. PICK m \in free : u = Title(name, "", m)
    BY <1>5 DEF FreeNumbered
  <2> QED BY <1>3, <2>1 DEF Title
<1> QED BY <1>4, <1>5

\* Disambiguation keeps the name, whatever is used.
LEMMA NameIsKept ==
    ASSUME NEW name, NEW used, IsFiniteSet(used), NEW move
    PROVE  Disambiguate(name, used, move).name = name
<1> DEFINE Least(t) == \A u \in FreeNumbered(name, used) : t.n <= u.n
           least == CHOOSE t \in FreeNumbered(name, used) : Least(t)
<1>1. \E t \in FreeNumbered(name, used) : Least(t)
  BY FreeNumber
<1>2. least \in FreeNumbered(name, used)
  <2> HIDE DEF Least
  <2> QED BY <1>1
<1>3. Disambiguate(name, used, move)
        \in {Title(name, "", 0), Title(name, "move", move), least}
  BY DEF Disambiguate
<1> HIDE DEF least
<1>4. least.name = name
  <2>1. PICK n \in 2..(Cardinality(used) + 2) : least = Title(name, "", n)
    BY <1>2 DEF FreeNumbered
  <2> QED BY <2>1 DEF Title
<1>5. Title(name, "", 0).name = name /\ Title(name, "move", move).name = name
  BY DEF Title
<1> QED BY <1>3, <1>4, <1>5

\* The titles of the library are finitely many.
LEMMA TakenIsFinite ==
    ASSUME Shape
    PROVE  IsFiniteSet(Taken)
<1> DEFINE D == DOMAIN title
           f == [i \in D |-> title[i].title]
<1>1. IsFiniteSet(D)
  <2>1. IsFiniteSet(Savers \union Generators \union {Legacy})
    BY RequestsAssumption, FS_Union, FS_Singleton
  <2> QED BY <2>1, FS_Subset DEF Shape
<1>2. f \in Surjection(D, Taken)
  BY DEF Surjection, Taken
<1> HIDE DEF D, f
<1> QED BY <1>1, <1>2, FS_Surjection

-----------------------------------------------------------------------------
(* Plies *)

\* The next ply is the number of manual rows.
LEMMA NextPlyCounts ==
    ASSUME IsFiniteSet(ManualRows), PliesAreASequence
    PROVE  NextManualPly = Cardinality(ManualRows)
<1> DEFINE c == Cardinality(ManualRows)
           plies == {row.ply : row \in ManualRows}
           Highest(p) == \A row \in ManualRows : row.ply <= p
           highest == CHOOSE p \in plies : Highest(p)
<1>1. c \in Nat /\ (c = 0 <=> ManualRows = {})
  BY FS_CardinalityType, FS_EmptySet
<1>2. plies = 0..(c - 1)
  BY DEF PliesAreASequence
<1>3. CASE ManualRows = {}
  BY <1>1, <1>3 DEF NextManualPly
<1>4. CASE ManualRows # {}
  <2>1. \A row \in ManualRows : row.ply \in 0..(c - 1)
    BY <1>2
  <2>2. c - 1 \in plies /\ Highest(c - 1)
    <3> HIDE DEF c, plies
    <3> QED BY <1>1, <1>2, <1>4, <2>1
  <2>3. \A p \in plies : Highest(p) => p = c - 1
    <3>1. PICK row \in ManualRows : row.ply = c - 1
      BY <2>2
    <3> HIDE DEF c
    <3> QED BY <1>1, <1>2, <3>1
  <2>4. highest = c - 1
    <3> HIDE DEF plies, Highest, c
    <3> QED BY <2>2, <2>3
  <2>5. NextManualPly = 1 + highest
    BY <1>4 DEF NextManualPly
  <2> HIDE DEF highest, c
  <2>6. NextManualPly = c
    BY <1>1, <2>4, <2>5
  <2> QED BY <2>6 DEF c
<1> QED BY <1>3, <1>4

-----------------------------------------------------------------------------
(* Steps *)

LEMMA InitInv == Init => IInv
<1> SUFFICES ASSUME Init PROVE IInv
  OBVIOUS
<1> DEFINE old == [id |-> Legacy, game |-> "old", ply |-> 0, position |-> NoPosition]
<1>1. puzzles = <<old>> /\ old \in Row
  BY DEF Init, Row
<1>2. Rows = {old} /\ ManualRows = {}
  <2>1. DOMAIN puzzles = {1} /\ puzzles[1] = old
    BY <1>1
  <2>2. Rows = {old}
    BY <2>1 DEF Rows, Range
  <2> QED BY <2>2 DEF ManualRows
<1>3. IsFiniteSet(ManualRows) /\ Cardinality(ManualRows) = 0
  BY <1>2, FS_EmptySet
<1>4. Shape
  <2>1. puzzles \in Seq(Row)
    BY <1>1
  <2>2. pc \in [Requests -> Steps] /\ wanted \in [Savers -> Positions]
    BY DEF Init, Steps
  <2>3. DOMAIN title = {} /\ DOMAIN local = Requests /\ DOMAIN seen = Namers
    BY DEF Init
  <2>4. DOMAIN Fresh = {"attempt", "retry", "ply", "free"} /\ Fresh.ply \in Nat
    BY DEF Fresh
  <2>5. DOMAIN Nothing = {"rows", "title", "used"}
    BY DEF Nothing
  <2>6. \A r \in Requests : local[r] = Fresh
    BY DEF Init
  <2>7. \A n \in Namers : seen[n] = Nothing
    BY DEF Init
  <2> QED BY <2>1, <2>2, <2>3, <2>4, <2>5, <2>6, <2>7 DEF Shape
<1>5. ManualRowsAreDone
  BY <1>2, LegacyAssumption DEF ManualRowsAreDone
<1>6. PliesAreASequence
  BY <1>2, <1>3 DEF PliesAreASequence
<1>7. DOMAIN title = {}
  BY DEF Init
<1>8. PliesWereNext
  BY RequestsAssumption DEF Init, PliesWereNext, Allocated, Requests
<1>9. FreeTitlesKeepTheName
  BY DEF Init, FreeTitlesKeepTheName, Requests
<1>10. GeneratorsOnlySave
  BY DEF Init, GeneratorsOnlySave, Asking, Requests
<1> QED
  BY <1>3, <1>4, <1>5, <1>6, <1>7, <1>8, <1>9, <1>10
  DEF Init, IInv, TitledAreDone, AnsweredAreOver, SeenAreNotTyped, Nothing,
      TypedNamesAreShown

\* What Goto and End do.
LEMMA GotoMoves ==
    ASSUME Shape, NEW r \in Requests, NEW step \in Steps, Goto(r, step)
    PROVE  /\ pc' \in [Requests -> Steps] /\ pc'[r] = step
           /\ \A q \in Requests \ {r} : pc'[q] = pc[q]
BY DEF Shape, Goto

\* The variables of a request are kept in the other ones' steps.
LocalMoves(r) ==
    /\ DOMAIN local' = Requests
    /\ DOMAIN local'[r] = {"attempt", "retry", "ply", "free"}
    /\ local'[r].ply \in Nat
    /\ \A q \in Requests \ {r} : local'[q] = local[q]

LEMMA EndMoves ==
    ASSUME Shape, NEW r \in Requests, NEW outcome \in Steps, End(r, outcome)
    PROVE  /\ pc' \in [Requests -> Steps] /\ pc'[r] = outcome
           /\ \A q \in Requests \ {r} : pc'[q] = pc[q]
           /\ LocalMoves(r)
<1>1. Goto(r, outcome) /\ local' = [local EXCEPT ![r] = Fresh]
  BY DEF End
<1>2. DOMAIN Fresh = {"attempt", "retry", "ply", "free"} /\ Fresh.ply = 0
  BY DEF Fresh
<1>3. LocalMoves(r)
  BY <1>1, <1>2 DEF Shape, LocalMoves
<1> QED BY <1>1, <1>3, GotoMoves

LEMMA LocalStays ==
    ASSUME Shape, NEW r \in Requests, UNCHANGED local
    PROVE  LocalMoves(r) /\ local'[r] = local[r]
BY DEF Shape, LocalMoves

\* Titles may come and change, but for those of saves.
SavedTitlesStay ==
    /\ DOMAIN title \subseteq DOMAIN title'
    /\ DOMAIN title' \subseteq DOMAIN title \union Generators \union {Legacy}
    /\ \A i \in DOMAIN title \intersect Savers : title'[i] = title[i]

\* A request that writes no row and no title of a save preserves the
\* invariant: it was not over, it keeps what its next step relies on, and it
\* is over if it answers.
LEMMA QuietStep ==
    ASSUME IInv, NEW r \in Requests, pc[r] \notin Over,
           UNCHANGED <<wanted, puzzles>>, SavedTitlesStay,
           pc' \in [Requests -> Steps],
           \A q \in Requests \ {r} : pc'[q] = pc[q],
           LocalMoves(r),
           r \in Generators => pc'[r] \notin Asking,
           r \in Savers /\ pc'[r] \in Allocated =>
               local'[r].ply <= Cardinality(ManualRows),
           r \in Savers /\ pc'[r] = "inserting" =>
               local'[r].free.name = NameOf[r],
           \/ UNCHANGED answers
           \/ /\ r \in Savers /\ pc'[r] \in Over
              /\ \E a : a.request = r /\ answers' = answers \union {a},
           DOMAIN seen' = Namers,
           \A n \in Namers : DOMAIN seen'[n] = {"rows", "title", "used"},
           SeenAreNotTyped'
    PROVE  IInv'
<1> USE DEF IInv
<1>1. Rows' = Rows /\ ManualRows' = ManualRows
  BY DEF Rows, ManualRows
<1>2. Shape'
  BY DEF Shape, LocalMoves, SavedTitlesStay
<1>3. \A q \in Requests : pc[q] \in Over => pc'[q] = pc[q]
  OBVIOUS
<1>4. ManualRowsAreDone' /\ TitledAreDone' /\ TypedNamesAreShown'
  <2>1. \A q \in Savers : q \in DOMAIN title' => q \in DOMAIN title
    BY LegacyAssumption, RequestsAssumption DEF SavedTitlesStay
  <2>2. ManualRowsAreDone'
    BY <1>1, <1>3 DEF ManualRowsAreDone, SavedTitlesStay, Over, Requests
  <2>3. TitledAreDone'
    BY <1>3, <2>1 DEF TitledAreDone, Over, Requests
  <2>4. TypedNamesAreShown'
    BY <2>1 DEF TypedNamesAreShown, SavedTitlesStay
  <2> QED BY <2>2, <2>3, <2>4
<1>5. AnsweredAreOver'
  BY <1>3 DEF AnsweredAreOver, Requests
<1>6. PliesWereNext'
  BY <1>1 DEF PliesWereNext, LocalMoves, Requests
<1>7. FreeTitlesKeepTheName'
  BY DEF FreeTitlesKeepTheName, LocalMoves, Requests
<1>8. PliesAreASequence' /\ IsFiniteSet(ManualRows)'
  BY <1>1 DEF PliesAreASequence
<1>9. GeneratorsOnlySave'
  BY DEF GeneratorsOnlySave, Requests
<1> QED BY <1>2, <1>4, <1>5, <1>6, <1>7, <1>8, <1>9


\* A step of a save is one of a request that is no naming pass.
LEMMA QuietSave ==
    ASSUME IInv, NEW r \in Savers \union Generators \union Reviewers,
           pc[r] \notin Over,
           UNCHANGED <<wanted, dbVars, seen>>,
           pc' \in [Requests -> Steps],
           \A q \in Requests \ {r} : pc'[q] = pc[q],
           LocalMoves(r),
           r \in Generators => pc'[r] \notin Asking,
           r \in Savers /\ pc'[r] \in Allocated =>
               local'[r].ply <= Cardinality(ManualRows),
           r \in Savers /\ pc'[r] = "inserting" =>
               local'[r].free.name = NameOf[r],
           \/ UNCHANGED answers
           \/ /\ r \in Savers /\ pc'[r] \in Over
              /\ \E a : a.request = r /\ answers' = answers \union {a}
    PROVE  IInv'
<1>1. SeenAreNotTyped'
  BY DEF IInv, SeenAreNotTyped
<1>2. DOMAIN seen' = Namers /\ \A n \in Namers : DOMAIN seen'[n] = {"rows", "title", "used"}
  BY DEF IInv, Shape
<1>3. SavedTitlesStay /\ UNCHANGED <<wanted, puzzles>>
  BY DEF SavedTitlesStay, dbVars
<1> QED BY <1>1, <1>2, <1>3, QuietStep DEF Requests

LEMMA AnswerInv ==
    ASSUME IInv, NEW r \in Savers, pc[r] \notin Over,
           UNCHANGED <<wanted, dbVars, seen>>,
           NEW puzzle, NEW is_new, Answer(r, puzzle, is_new)
    PROVE  IInv'
<1> DEFINE a == [request |-> r, puzzle |-> puzzle, is_new |-> is_new]
<1>1. End(r, "done") /\ answers' = answers \union {a} /\ a.request = r
  BY DEF Answer, Reply
<1>2. r \in Requests /\ "done" \in Steps
  BY DEF Requests, Steps
<1>3. /\ pc' \in [Requests -> Steps] /\ pc'[r] = "done"
      /\ \A q \in Requests \ {r} : pc'[q] = pc[q]
      /\ LocalMoves(r)
  BY <1>1, <1>2, EndMoves DEF IInv
<1> HIDE DEF a
<1> QED BY <1>1, <1>3, QuietSave DEF Over, Allocated, Asking

\* A request that ends without an answer.
LEMMA EndInv ==
    ASSUME IInv, NEW r \in Savers \union Generators \union Reviewers,
           pc[r] \notin Over, UNCHANGED <<wanted, dbVars, seen, answers>>,
           NEW outcome \in Over, End(r, outcome)
    PROVE  IInv'
<1>1. r \in Requests /\ outcome \in Steps
  BY DEF Requests, Steps, Over
<1>2. /\ pc' \in [Requests -> Steps] /\ pc'[r] = outcome
      /\ \A q \in Requests \ {r} : pc'[q] = pc[q]
      /\ LocalMoves(r)
  BY <1>1, EndMoves DEF IInv
<1>3. pc'[r] \notin Allocated \union Asking /\ pc'[r] # "inserting"
  BY <1>2 DEF Over, Allocated, Asking
<1> QED BY <1>2, <1>3, QuietSave

\* A request that only goes to another step, without its ply or with a ply it
\* has chosen.
LEMMA GotoInv ==
    ASSUME IInv, NEW r \in Savers \union Generators, pc[r] \notin Over,
           UNCHANGED <<wanted, dbVars, local, seen, answers>>,
           NEW step \in Steps \ {"inserting"}, Goto(r, step),
           step \in Allocated => pc[r] \in Allocated,
           step \in Asking => r \in Savers
    PROVE  IInv'
<1>1. r \in Requests
  BY DEF Requests
<1>2. /\ pc' \in [Requests -> Steps] /\ pc'[r] = step
      /\ \A q \in Requests \ {r} : pc'[q] = pc[q]
  BY <1>1, GotoMoves DEF IInv
<1>3. LocalMoves(r) /\ local'[r] = local[r]
  BY <1>1, LocalStays DEF IInv
<1>4. r \in Savers /\ step \in Allocated => local[r].ply <= Cardinality(ManualRows)
  BY DEF IInv, PliesWereNext
<1>5. r \in Generators => step \notin Asking
  BY RequestsAssumption
<1> QED BY <1>2, <1>3, <1>4, <1>5, QuietSave

LEMMA NextAttemptInv ==
    ASSUME IInv, NEW r \in Savers, pc[r] \notin Over,
           UNCHANGED <<wanted, dbVars, seen>>, NextAttempt(r)
    PROVE  IInv'
<1>1. r \in Requests /\ "arriving" \in Steps /\ "failed" \in Steps
  BY DEF Requests, Steps
<1>2. CASE local[r].attempt + 1 < MaxAttempts
  <2> DEFINE new == [Fresh EXCEPT !.attempt = local[r].attempt + 1]
  <2>1. local' = [local EXCEPT ![r] = new] /\ Goto(r, "arriving") /\ UNCHANGED answers
    BY <1>2 DEF NextAttempt
  <2>2. DOMAIN new = {"attempt", "retry", "ply", "free"} /\ new.ply = 0
    BY DEF Fresh
  <2> HIDE DEF new
  <2>3. LocalMoves(r)
    BY <1>1, <2>1, <2>2 DEF IInv, Shape, LocalMoves
  <2>4. /\ pc' \in [Requests -> Steps] /\ pc'[r] = "arriving"
        /\ \A q \in Requests \ {r} : pc'[q] = pc[q]
    BY <1>1, <2>1, GotoMoves DEF IInv
  <2> QED BY <2>1, <2>3, <2>4, RequestsAssumption, QuietSave DEF Allocated
<1>3. CASE ~(local[r].attempt + 1 < MaxAttempts)
  <2> DEFINE a == [request |-> r, puzzle |-> "none", is_new |-> FALSE]
  <2>1. End(r, "failed") /\ answers' = answers \union {a} /\ a.request = r
    BY <1>3 DEF NextAttempt, Reply
  <2>2. /\ pc' \in [Requests -> Steps] /\ pc'[r] = "failed"
        /\ \A q \in Requests \ {r} : pc'[q] = pc[q]
        /\ LocalMoves(r)
    BY <1>1, <2>1, EndMoves DEF IInv
  <2> HIDE DEF a
  <2> QED BY <2>1, <2>2, QuietSave DEF Over, Allocated, Asking
<1> QED BY <1>2, <1>3

LEMMA ResolveTakenInv ==
    ASSUME IInv, NEW r \in Savers \union Generators, pc[r] \notin Over,
           UNCHANGED <<wanted, dbVars, seen>>,
           NEW row, ResolveTaken(r, row)
    PROVE  IInv'
<1>1. CASE r \in Savers /\ row.position = wanted[r]
  BY <1>1, AnswerInv DEF ResolveTaken
<1>2. CASE r \in Savers /\ row.position # wanted[r]
  BY <1>2, NextAttemptInv DEF ResolveTaken
<1>3. CASE r \notin Savers
  BY <1>3, EndInv DEF ResolveTaken, Over
<1> QED BY <1>1, <1>2, <1>3

\* The steps of a save that insert nothing.
LEMMA SaveStepInv ==
    ASSUME IInv, NEW r \in Savers \union Generators,
           \/ LookUpPosition(r) \/ AllocatePly(r) \/ AbsorbConflict(r)
           \/ LookUpPly(r) \/ PickTitle(r) \/ InsertFails(r) \/ Recover(r)
    PROVE  IInv'
<1> USE DEF Over
<1>1. r \in Requests /\ Shape
  BY DEF Requests, IInv
<1>2. CASE LookUpPosition(r)
  <2>1. r \in Savers /\ pc[r] = "arriving" /\ UNCHANGED <<wanted, dbVars, seen>>
    BY <1>2 DEF LookUpPosition
  <2>2. CASE AtPosition(r) = {}
    <3>1. Goto(r, "allocating") /\ UNCHANGED <<answers, local>>
      BY <1>2, <2>2 DEF LookUpPosition
    <3> QED BY <2>1, <3>1, GotoInv DEF Steps, Allocated, Asking
  <2>3. CASE AtPosition(r) # {}
    BY <1>2, <2>1, <2>3, AnswerInv DEF LookUpPosition
  <2> QED BY <2>2, <2>3
<1>3. CASE AllocatePly(r)
  <2>1. /\ local' = [local EXCEPT ![r].ply = NextManualPly] /\ Goto(r, "saving")
        /\ UNCHANGED <<wanted, dbVars, seen, answers>> /\ pc[r] = "allocating"
    BY <1>3 DEF AllocatePly
  <2>2. NextManualPly = Cardinality(ManualRows) /\ Cardinality(ManualRows) \in Nat
    BY NextPlyCounts, FS_CardinalityType DEF IInv
  <2>3. LocalMoves(r) /\ local'[r].ply = NextManualPly
    BY <1>1, <2>1, <2>2 DEF Shape, LocalMoves
  <2>4. /\ pc' \in [Requests -> Steps] /\ pc'[r] = "saving"
        /\ \A q \in Requests \ {r} : pc'[q] = pc[q]
    BY <1>1, <2>1, GotoMoves DEF Steps
  <2> QED BY <2>1, <2>2, <2>3, <2>4, QuietSave DEF Asking
<1>4. CASE AbsorbConflict(r)
  <2>1. pc[r] = "absorbing" /\ UNCHANGED <<wanted, dbVars, seen>>
    BY <1>4 DEF AbsorbConflict
  <2>2. r \in Savers
    BY <2>1 DEF IInv, GeneratorsOnlySave, Asking
  <2>3. CASE AtPosition(r) = {}
    BY <1>4, <2>1, <2>2, <2>3, NextAttemptInv DEF AbsorbConflict
  <2>4. CASE AtPosition(r) # {}
    BY <1>4, <2>1, <2>2, <2>4, AnswerInv DEF AbsorbConflict
  <2> QED BY <2>3, <2>4
<1>5. CASE LookUpPly(r)
  <2>1. pc[r] = "saving" /\ UNCHANGED <<wanted, dbVars, seen>>
    BY <1>5 DEF LookUpPly
  <2>2. CASE AtSlot(r) = {}
    <3>1. Goto(r, "titling") /\ UNCHANGED <<answers, local>>
      BY <1>5, <2>2 DEF LookUpPly
    <3> QED BY <2>1, <3>1, GotoInv DEF Steps, Allocated, Asking
  <2>3. CASE AtSlot(r) # {}
    BY <1>5, <2>1, <2>3, ResolveTakenInv DEF LookUpPly
  <2> QED BY <2>2, <2>3
<1>6. CASE PickTitle(r)
  <2> DEFINE t == Disambiguate(NameOf[r], Taken, MoveNumber(local[r].ply))
  <2>1. /\ local' = [local EXCEPT ![r].free = t] /\ Goto(r, "inserting")
        /\ UNCHANGED <<wanted, dbVars, seen, answers>> /\ pc[r] = "titling"
    BY <1>6 DEF PickTitle
  <2>2. t.name = NameOf[r]
    BY <1>1, TakenIsFinite, NameIsKept
  <2> HIDE DEF t
  <2>3. LocalMoves(r) /\ local'[r].ply = local[r].ply /\ local'[r].free = t
    BY <1>1, <2>1 DEF Shape, LocalMoves
  <2>4. /\ pc' \in [Requests -> Steps] /\ pc'[r] = "inserting"
        /\ \A q \in Requests \ {r} : pc'[q] = pc[q]
    BY <1>1, <2>1, GotoMoves DEF Steps
  <2>5. r \in Savers => local[r].ply <= Cardinality(ManualRows)
    BY <2>1 DEF IInv, PliesWereNext, Allocated
  <2> QED BY <2>1, <2>2, <2>3, <2>4, <2>5, QuietSave DEF Asking
<1>7. CASE InsertFails(r)
  <2>1. PICK step \in {"renaming", "duplicate"} : Goto(r, step)
    BY <1>7 DEF InsertFails
  <2>2. pc[r] = "inserting" /\ UNCHANGED <<wanted, dbVars, local, seen, answers>>
    BY <1>7 DEF InsertFails
  <2> QED BY <2>1, <2>2, GotoInv DEF Steps, Allocated, Asking
<1>8. CASE Recover(r)
  <2>1. pc[r] \in {"duplicate", "renaming"} /\ UNCHANGED <<wanted, dbVars, seen>>
    BY <1>8 DEF Recover
  <2>2. CASE AtSlot(r) # {}
    BY <1>8, <2>1, <2>2, ResolveTakenInv DEF Recover
  <2>3. CASE AtSlot(r) = {} /\ pc[r] = "renaming" /\ local[r].retry + 1 < TitleAttempts
    <3>1. /\ local' = [local EXCEPT ![r].retry = @ + 1]
          /\ Goto(r, "titling") /\ UNCHANGED answers
      BY <1>8, <2>3 DEF Recover
    <3>2. LocalMoves(r) /\ local'[r].ply = local[r].ply
      BY <1>1, <3>1 DEF Shape, LocalMoves
    <3>3. /\ pc' \in [Requests -> Steps] /\ pc'[r] = "titling"
          /\ \A q \in Requests \ {r} : pc'[q] = pc[q]
      BY <1>1, <3>1, GotoMoves DEF Steps
    <3>4. r \in Savers => local[r].ply <= Cardinality(ManualRows)
      BY <2>1 DEF IInv, PliesWereNext, Allocated
    <3> QED BY <2>1, <3>1, <3>2, <3>3, <3>4, QuietSave DEF Asking
  <2>4. CASE /\ AtSlot(r) = {}
             /\ ~(pc[r] = "renaming" /\ local[r].retry + 1 < TitleAttempts)
    <3>1. Raise(r)
      BY <1>8, <2>4 DEF Recover
    <3>2. CASE r \in Savers
      <4>1. Goto(r, "absorbing") /\ UNCHANGED <<local, answers>>
        BY <3>1, <3>2 DEF Raise
      <4> QED BY <2>1, <3>2, <4>1, GotoInv DEF Steps, Allocated, Asking
    <3>3. CASE r \notin Savers
      BY <2>1, <3>1, <3>3, EndInv DEF Raise
    <3> QED BY <3>2, <3>3
  <2> QED BY <2>2, <2>3, <2>4
<1> QED BY <1>2, <1>3, <1>4, <1>5, <1>6, <1>7, <1>8

\* An appended row is one more row.
LEMMA RowsGrow ==
    ASSUME puzzles \in Seq(Row), NEW row \in Row, puzzles' = Append(puzzles, row)
    PROVE  puzzles' \in Seq(Row) /\ Rows' = Rows \union {row}
<1>1. /\ puzzles' \in Seq(Row) /\ Len(puzzles') = Len(puzzles) + 1
      /\ \A i \in 1..Len(puzzles) : puzzles'[i] = puzzles[i]
      /\ puzzles'[Len(puzzles) + 1] = row
  OBVIOUS
<1>2. /\ Len(puzzles) \in Nat /\ DOMAIN puzzles = 1..Len(puzzles)
      /\ DOMAIN puzzles' = 1..(Len(puzzles) + 1)
  BY <1>1
<1>3. Rows' = {puzzles'[i] : i \in DOMAIN puzzles'} /\ Rows = {puzzles[i] : i \in DOMAIN puzzles}
  BY DEF Rows, Range
<1>4. DOMAIN puzzles' = DOMAIN puzzles \union {Len(puzzles) + 1}
  BY <1>2
<1> QED BY <1>1, <1>2, <1>3, <1>4

\* What Insert relies on and does.
LEMMA InsertFacts ==
    ASSUME IInv, NEW r \in Savers \union Generators, Insert(r)
    PROVE  LET row == [id |-> r, game |-> Game(r), ply |-> local[r].ply,
                       position |-> IF r \in Savers THEN wanted[r] ELSE NoPosition]
           IN  /\ row \in Row
               /\ puzzles' \in Seq(Row) /\ Rows' = Rows \union {row}
               /\ DOMAIN title' = DOMAIN title \union {r}
               /\ \A i \in DOMAIN title \ {r} : title'[i] = title[i]
               /\ title'[r] =
                      [title |-> local[r].free,
                       source |-> IF r \in Savers THEN "user" ELSE "position"]
               /\ AtSlot(r) = {} /\ (r \in Savers => AtPosition(r) = {})
               /\ pc[r] = "inserting" /\ End(r, "done")
               /\ pc' \in [Requests -> Steps] /\ pc'[r] = "done"
               /\ \A q \in Requests \ {r} : pc'[q] = pc[q]
               /\ LocalMoves(r)
               /\ IF r \in Savers
                  THEN answers' = answers \union
                           {[request |-> r, puzzle |-> r, is_new |-> TRUE]}
                  ELSE answers' = answers
               /\ wanted' = wanted /\ seen' = seen
<1> DEFINE row == [id |-> r, game |-> Game(r), ply |-> local[r].ply,
                   position |-> IF r \in Savers THEN wanted[r] ELSE NoPosition]
           stats == [title |-> local[r].free,
                     source |-> IF r \in Savers THEN "user" ELSE "position"]
<1>1. Shape /\ r \in Requests /\ "done" \in Steps
  BY DEF IInv, Requests, Steps
<1>2. row \in Row
  BY <1>1 DEF Shape, Row, Game
<1>3. puzzles' = Append(puzzles, row)
  BY DEF Insert
<1>4. puzzles' \in Seq(Row) /\ Rows' = Rows \union {row}
  <2> HIDE DEF row
  <2> QED BY <1>1, <1>2, <1>3, RowsGrow DEF Shape
<1>6. /\ DOMAIN title' = DOMAIN title \union {r}
      /\ \A i \in DOMAIN title \ {r} : title'[i] = title[i]
      /\ title'[r] = stats
  BY DEF Insert, WriteTitles
<1>7. AtSlot(r) = {} /\ (r \in Savers => AtPosition(r) = {})
  BY DEF Insert, Violation
<1>8. End(r, "done")
  BY DEF Insert, Answer
<1>9. /\ pc' \in [Requests -> Steps] /\ pc'[r] = "done"
      /\ \A q \in Requests \ {r} : pc'[q] = pc[q]
      /\ LocalMoves(r)
  BY <1>1, <1>8, EndMoves
<1>10. IF r \in Savers
       THEN answers' = answers \union
                {[request |-> r, puzzle |-> r, is_new |-> TRUE]}
       ELSE answers' = answers
  BY DEF Insert, Answer, Reply
<1>11. pc[r] = "inserting" /\ wanted' = wanted /\ seen' = seen
  BY DEF Insert
<1> HIDE DEF row, stats
<1> QED BY <1>2, <1>4, <1>6, <1>7, <1>8, <1>9, <1>10, <1>11 DEF row, stats

LEMMA InsertInv ==
    ASSUME IInv, NEW r \in Savers \union Generators, Insert(r)
    PROVE  IInv'
<1> DEFINE row == [id |-> r, game |-> Game(r), ply |-> local[r].ply,
                   position |-> IF r \in Savers THEN wanted[r] ELSE NoPosition]
<1> USE InsertFacts DEF IInv
<1>1. row.id = r /\ row.game = Game(r) /\ row.ply = local[r].ply
  OBVIOUS
<1>2. Rows' = Rows \union {row}
  BY InsertFacts
<1>3. \A q \in Requests : pc[q] \in Over => pc'[q] = pc[q]
  BY InsertFacts DEF Over
<1>4. r \in Requests /\ (r \in Savers => Game(r) = "manual")
                     /\ (r \notin Savers => Game(r) = "imported")
  BY DEF Requests, Game
<1>5. r \in Savers => r \notin DOMAIN title
  BY InsertFacts DEF TitledAreDone
<1>6. /\ DOMAIN title' = DOMAIN title \union {r}
      /\ \A i \in DOMAIN title \ {r} : title'[i] = title[i]
      /\ pc'[r] = "done" /\ pc[r] = "inserting"
      /\ wanted' = wanted /\ seen' = seen /\ LocalMoves(r)
      /\ pc' \in [Requests -> Steps] /\ puzzles' \in Seq(Row)
      /\ \A q \in Requests \ {r} : pc'[q] = pc[q]
  BY InsertFacts
<1> HIDE InsertFacts
<1>7. Shape'
  BY <1>4, <1>6 DEF Shape, LocalMoves
<1>8. ManualRowsAreDone'
  <2> SUFFICES ASSUME NEW old \in Rows'
               PROVE  /\ old.game = "manual" => old.id \in Savers
                      /\ old.id \in Savers =>
                            /\ old.game = "manual" /\ pc'[old.id] = "done"
                            /\ old.id \in DOMAIN title'
    BY DEF ManualRowsAreDone
  <2> HIDE DEF row
  <2>1. CASE old = row
    BY <1>1, <1>4, <1>6, <2>1
  <2>2. CASE old \in Rows
    BY <1>3, <1>6, <2>2 DEF ManualRowsAreDone, Over, Requests
  <2> QED BY <1>2, <2>1, <2>2
<1>9. TitledAreDone'
  BY <1>3, <1>6 DEF TitledAreDone, Over, Requests
<1>10. AnsweredAreOver'
  <2> SUFFICES ASSUME NEW a \in answers'
               PROVE  a.request \in Savers /\ pc'[a.request] \in Over
    BY DEF AnsweredAreOver
  <2>1. CASE a \in answers
    BY <1>3, <2>1 DEF AnsweredAreOver, Requests
  <2>2. CASE a \notin answers
    <3>1. r \in Savers /\ answers' = answers \union
                {[request |-> r, puzzle |-> r, is_new |-> TRUE]}
      BY <2>2, InsertFacts
    <3>2. a.request = r
      BY <2>2, <3>1
    <3> QED BY <1>6, <3>1, <3>2 DEF Over
  <2> QED BY <2>1, <2>2
<1>11. SeenAreNotTyped'
  BY <1>6 DEF SeenAreNotTyped
<1>12. GeneratorsOnlySave'
  BY <1>6 DEF GeneratorsOnlySave, Asking, Requests
<1>13. FreeTitlesKeepTheName'
  BY <1>6 DEF FreeTitlesKeepTheName, LocalMoves, Requests
<1>14. TypedNamesAreShown'
  <2> SUFFICES ASSUME NEW q \in Savers, q \in DOMAIN title'
               PROVE  title'[q].source = "user" /\ title'[q].title.name = NameOf[q]
    BY DEF TypedNamesAreShown
  <2>1. CASE q # r
    BY <1>6, <2>1 DEF TypedNamesAreShown
  <2>2. CASE q = r
    <3>1. title'[r] = [title |-> local[r].free, source |-> "user"]
      BY <2>2, InsertFacts
    <3>2. local[r].free.name = NameOf[r]
      BY <1>6, <2>2 DEF FreeTitlesKeepTheName
    <3> QED BY <2>2, <3>1, <3>2
  <2> QED BY <2>1, <2>2
<1>15. CASE r \in Savers
  <2>1. ManualRows' = ManualRows \union {row}
    <3> HIDE DEF row
    <3> QED BY <1>1, <1>2, <1>4, <1>15 DEF ManualRows
  <2>2. \A old \in ManualRows : old.ply # local[r].ply
    BY <1>4, <1>15, InsertFacts DEF AtSlot, ManualRows
  <2>3. row \notin ManualRows
    <3> HIDE DEF row
    <3> QED BY <1>1, <2>2
  <2>4. /\ IsFiniteSet(ManualRows') /\ Cardinality(ManualRows) \in Nat
        /\ Cardinality(ManualRows') = Cardinality(ManualRows) + 1
    <3> HIDE DEF row
    <3> QED BY <2>1, <2>3, FS_AddElement, FS_CardinalityType
  <2>5. local[r].ply \in Nat /\ local[r].ply <= Cardinality(ManualRows)
    BY <1>4, <1>6, <1>15 DEF PliesWereNext, Allocated, Shape
  <2>6. local[r].ply = Cardinality(ManualRows)
    <3>1. local[r].ply \notin {old.ply : old \in ManualRows}
      BY <2>2
    <3>2. local[r].ply \notin 0..(Cardinality(ManualRows) - 1)
      BY <3>1 DEF PliesAreASequence
    <3> QED BY <2>4, <2>5, <3>2
  <2>7. PliesAreASequence'
    <3>1. {old.ply : old \in ManualRows'} =
              {old.ply : old \in ManualRows} \union {local[r].ply}
      <4> HIDE DEF row
      <4> QED BY <1>1, <2>1
    <3>2. {old.ply : old \in ManualRows'} = 0..(Cardinality(ManualRows') - 1)
      <4> DEFINE c == Cardinality(ManualRows)
      <4>1. {old.ply : old \in ManualRows'} = 0..(c - 1) \union {c}
        BY <2>6, <3>1 DEF PliesAreASequence
      <4>2. 0..(c - 1) \union {c} = 0..(c + 1 - 1)
        <5> HIDE DEF c
        <5>1. c \in Nat
          BY <2>4 DEF c
        <5> QED BY <5>1
      <4> QED BY <2>4, <4>1, <4>2
    <3> QED BY <3>2 DEF PliesAreASequence
  <2>8. PliesWereNext'
    <3> SUFFICES ASSUME NEW q \in Savers, pc'[q] \in Allocated
                 PROVE  local'[q].ply <= Cardinality(ManualRows')
      BY DEF PliesWereNext
    <3>1. q # r /\ q \in Requests
      BY <1>6 DEF Allocated, Requests
    <3>2. local[q].ply \in Nat /\ local[q].ply <= Cardinality(ManualRows)
      BY <1>6, <3>1 DEF PliesWereNext, Shape
    <3> QED BY <1>6, <2>4, <3>1, <3>2 DEF LocalMoves
  <2> QED BY <1>7, <1>8, <1>9, <1>10, <1>11, <1>12, <1>13, <1>14, <2>4, <2>7, <2>8
<1>16. CASE r \notin Savers
  <2>1. ManualRows' = ManualRows
    <3> HIDE DEF row
    <3> QED BY <1>1, <1>2, <1>4, <1>16 DEF ManualRows
  <2>2. PliesAreASequence' /\ IsFiniteSet(ManualRows)'
    BY <2>1 DEF PliesAreASequence
  <2>3. PliesWereNext'
    BY <1>6, <1>16, <2>1 DEF PliesWereNext, LocalMoves, Requests
  <2> QED BY <1>7, <1>8, <1>9, <1>10, <1>11, <1>12, <1>13, <1>14, <2>2, <2>3
<1> QED BY <1>15, <1>16

LEMMA ReviewInv ==
    ASSUME IInv, NEW v \in Reviewers, PickReviewTitle(v) \/ InsertReviewStats(v)
    PROVE  IInv'
<1>1. /\ Shape /\ v \in Requests /\ v \in Savers \union Generators \union Reviewers
      /\ v \notin Savers /\ v \notin Generators
  BY RequestsAssumption DEF Requests, IInv
<1>2. CASE PickReviewTitle(v)
  <2>1. pc[v] = "arriving" /\ UNCHANGED <<wanted, dbVars, seen, answers>>
    BY <1>2 DEF PickReviewTitle
  <2>2. CASE Legacy \in DOMAIN title
    BY <1>1, <1>2, <2>1, <2>2, EndInv DEF PickReviewTitle, Over
  <2>3. CASE Legacy \notin DOMAIN title
    <3> DEFINE t == Disambiguate(NameOf[v], Taken, MoveNumber(local[v].ply))
    <3>1. local' = [local EXCEPT ![v].free = t] /\ Goto(v, "inserting")
      BY <1>2, <2>3 DEF PickReviewTitle
    <3> HIDE DEF t
    <3>2. LocalMoves(v)
      BY <1>1, <3>1 DEF Shape, LocalMoves
    <3>3. /\ pc' \in [Requests -> Steps]
          /\ \A q \in Requests \ {v} : pc'[q] = pc[q]
      BY <1>1, <3>1, GotoMoves DEF Steps
    <3> QED BY <1>1, <2>1, <3>2, <3>3, QuietSave DEF Over
  <2> QED BY <2>2, <2>3
<1>3. CASE InsertReviewStats(v)
  <2>1. /\ pc[v] = "inserting" /\ UNCHANGED <<wanted, puzzles, seen, answers>>
        /\ \/ UNCHANGED title
           \/ WriteTitles({Legacy}, [i \in {Legacy} |-> local[v].free], "motif")
    BY <1>3 DEF InsertReviewStats
  <2>2. PICK outcome \in Over : End(v, outcome)
    BY <1>3 DEF InsertReviewStats, Over
  <2>3. SavedTitlesStay
    BY <2>1, LegacyAssumption DEF SavedTitlesStay, WriteTitles
  <2>4. /\ pc' \in [Requests -> Steps]
        /\ \A q \in Requests \ {v} : pc'[q] = pc[q]
        /\ LocalMoves(v)
    BY <1>1, <2>2, EndMoves DEF Over, Steps
  <2>5. SeenAreNotTyped'
    BY <2>1 DEF IInv, SeenAreNotTyped
  <2>6. DOMAIN seen' = Namers /\ \A n \in Namers : DOMAIN seen'[n] = {"rows", "title", "used"}
    BY <1>1, <2>1 DEF Shape
  <2> QED BY <1>1, <2>1, <2>3, <2>4, <2>5, <2>6, QuietStep DEF Over
<1> QED BY <1>2, <1>3

\* A pass reads no row of a save, as it has a typed name.
LEMMA SavesAreNotNameable ==
    ASSUME IInv, NEW row \in Rows, Nameable(row)
    PROVE  row.id \in Generators \union {Legacy}
<1>1. row.id \in Savers \union Generators \union {Legacy}
  <2>1. PICK i \in DOMAIN puzzles : row = puzzles[i]
    BY DEF Rows, Range
  <2>2. row \in Row
    BY <2>1 DEF IInv, Shape
  <2> QED BY <2>2 DEF Row
<1>2. row.id \notin Savers
  BY DEF IInv, Nameable, ManualRowsAreDone, TypedNamesAreShown
<1> QED BY <1>1, <1>2

LEMMA NamingInv ==
    ASSUME IInv, NEW n \in Namers, ReadRows(n) \/ ReadTitles(n) \/ CommitNames(n)
    PROVE  IInv'
<1>1. Shape /\ n \in Requests /\ n \notin Savers /\ n \notin Generators
  BY RequestsAssumption DEF Requests, IInv
<1>2. CASE ReadRows(n)
  <2> DEFINE rows == {row \in Rows : Nameable(row)}
  <2>1. /\ pc[n] = "arriving" /\ Goto(n, "titling")
        /\ seen' = [seen EXCEPT ![n].rows = rows, ![n].title = title]
        /\ UNCHANGED <<wanted, dbVars, local, answers>>
    BY <1>2 DEF ReadRows
  <2>2. \A row \in rows : row.id \in Generators \union {Legacy}
    BY SavesAreNotNameable
  <2> HIDE DEF rows
  <2>3. /\ DOMAIN seen' = Namers /\ \A m \in Namers : DOMAIN seen'[m] = {"rows", "title", "used"}
        /\ seen'[n].rows = rows /\ \A m \in Namers \ {n} : seen'[m] = seen[m]
    BY <1>1, <2>1 DEF Shape
  <2>4. SeenAreNotTyped'
    BY <2>2, <2>3 DEF IInv, SeenAreNotTyped
  <2>5. /\ pc' \in [Requests -> Steps]
        /\ \A q \in Requests \ {n} : pc'[q] = pc[q]
    BY <1>1, <2>1, GotoMoves DEF Steps
  <2>6. LocalMoves(n)
    BY <1>1, <2>1, LocalStays
  <2>7. SavedTitlesStay /\ UNCHANGED <<wanted, puzzles>>
    BY <2>1 DEF SavedTitlesStay, dbVars
  <2> QED BY <1>1, <2>1, <2>3, <2>4, <2>5, <2>6, <2>7, QuietStep DEF Over
<1>3. CASE ReadTitles(n)
  <2>1. /\ pc[n] = "titling" /\ Goto(n, "inserting")
        /\ seen' = [seen EXCEPT ![n].used = Taken]
        /\ UNCHANGED <<wanted, dbVars, local, answers>>
    BY <1>3 DEF ReadTitles
  <2>2. /\ DOMAIN seen' = Namers /\ \A m \in Namers : DOMAIN seen'[m] = {"rows", "title", "used"}
        /\ \A m \in Namers : seen'[m].rows = seen[m].rows
    BY <1>1, <2>1 DEF Shape
  <2>3. SeenAreNotTyped'
    BY <2>2 DEF IInv, SeenAreNotTyped
  <2>4. /\ pc' \in [Requests -> Steps]
        /\ \A q \in Requests \ {n} : pc'[q] = pc[q]
    BY <1>1, <2>1, GotoMoves DEF Steps
  <2>5. LocalMoves(n)
    BY <1>1, <2>1, LocalStays
  <2>6. SavedTitlesStay /\ UNCHANGED <<wanted, puzzles>>
    BY <2>1 DEF SavedTitlesStay, dbVars
  <2> QED BY <1>1, <2>1, <2>2, <2>3, <2>4, <2>5, <2>6, QuietStep DEF Over
<1>4. CASE CommitNames(n)
  <2> DEFINE ids == {row.id : row \in seen[n].rows}
  <2>1. /\ pc[n] = "inserting" /\ UNCHANGED <<wanted, puzzles, answers>>
        /\ seen' = [seen EXCEPT ![n] = Nothing]
        /\ \/ UNCHANGED title
           \/ \E given : WriteTitles(ids, given, "ai")
    BY <1>4 DEF CommitNames
  <2>2. PICK outcome \in Over : End(n, outcome)
    BY <1>4 DEF CommitNames, Over
  <2>3. ids \subseteq Generators \union {Legacy}
    BY DEF IInv, SeenAreNotTyped
  <2> HIDE DEF ids
  <2>4. SavedTitlesStay
    BY <2>1, <2>3, LegacyAssumption, RequestsAssumption DEF SavedTitlesStay, WriteTitles
  <2>5. /\ pc' \in [Requests -> Steps]
        /\ \A q \in Requests \ {n} : pc'[q] = pc[q]
        /\ LocalMoves(n)
    BY <1>1, <2>2, EndMoves DEF Over, Steps
  <2>6. /\ DOMAIN seen' = Namers /\ \A m \in Namers : DOMAIN seen'[m] = {"rows", "title", "used"}
        /\ seen'[n].rows = {} /\ \A m \in Namers \ {n} : seen'[m] = seen[m]
    BY <1>1, <2>1 DEF Shape, Nothing
  <2>7. SeenAreNotTyped'
    BY <2>6 DEF IInv, SeenAreNotTyped
  <2> QED BY <1>1, <2>1, <2>4, <2>5, <2>6, <2>7, QuietStep DEF Over
<1> QED BY <1>2, <1>3, <1>4

LEMMA StutterInv == IInv /\ UNCHANGED vars => IInv'
<1> SUFFICES ASSUME IInv, UNCHANGED vars PROVE IInv'
  OBVIOUS
<1>1. Rows' = Rows /\ ManualRows' = ManualRows
  BY DEF vars, dbVars, Rows, ManualRows
<1> QED
  BY <1>1
  DEF vars, dbVars, IInv, Shape, GeneratorsOnlySave, ManualRowsAreDone,
      TitledAreDone, AnsweredAreOver, SeenAreNotTyped, PliesWereNext,
      FreeTitlesKeepTheName, PliesAreASequence, TypedNamesAreShown

LEMMA NextInv == IInv /\ [Next]_vars => IInv'
<1> SUFFICES ASSUME IInv, [Next]_vars PROVE IInv'
  OBVIOUS
<1>1. ASSUME NEW r \in Savers \union Generators, SaveStep(r) PROVE IInv'
  BY <1>1, SaveStepInv, InsertInv DEF SaveStep
<1>2. ASSUME NEW v \in Reviewers, PickReviewTitle(v) \/ InsertReviewStats(v)
      PROVE  IInv'
  BY <1>2, ReviewInv
<1>3. ASSUME NEW n \in Namers, ReadRows(n) \/ ReadTitles(n) \/ CommitNames(n)
      PROVE  IInv'
  BY <1>3, NamingInv
<1>4. CASE UNCHANGED vars
  BY <1>4, StutterInv
<1> QED BY <1>1, <1>2, <1>3, <1>4 DEF Next

LEMMA Invariance == Spec => []IInv
BY InitInv, NextInv, PTL DEF Spec

-----------------------------------------------------------------------------
(* Lost races: the invariant behind the refusals *)

\* The races request r has lost: others that committed meanwhile.
Lost(r) == Cardinality(Rivals(r))

\* The rounds of its loops that r has used up.
Rounds(r) == local[r].attempt + local[r].retry

\* What the rounds of r and its next step owe to the races it has lost.
RacesWereLost(r) ==
    /\ pc[r] \notin Over => Lost(r) >= Rounds(r)
    /\ pc[r] = "inserting" /\ r \notin Namers /\ local[r].free \in Taken =>
           Lost(r) >= Rounds(r) + 1
    /\ pc[r] = "renaming" => Lost(r) >= Rounds(r) + 1
    /\ r \in Savers /\ pc[r] \in Allocated /\ AtSlot(r) # {} =>
           Lost(r) >= local[r].attempt + 1
    /\ pc[r] = "duplicate" => AtSlot(r) # {} \/ (r \in Savers /\ AtPosition(r) # {})
    /\ r \in Savers /\ pc[r] = "absorbing" /\ AtPosition(r) = {} =>
           Lost(r) >= local[r].attempt + 1
    /\ r \in Reviewers /\ pc[r] = "inserting" /\ Legacy \in DOMAIN title =>
           Lost(r) >= 1
    /\ r \in Namers /\ pc[r] \in {"titling", "inserting"} /\ Lost(r) = 0 =>
           /\ seen[r].title = title
           /\ pc[r] = "inserting" => seen[r].used = Taken
    /\ pc[r] = "failed" => Lost(r) >= Patience(r)

\* A title is shown by one puzzle.
TitlesAreUnique ==
    \A i, j \in DOMAIN title : title[i].title = title[j].title => i = j

\* A generated puzzle that has a row is done.
GeneratedAreDone ==
    \A row \in Rows : row.id \in Generators => pc[row.id] = "done"

\* A naming pass has read rows that are still there.
SeenAreRows ==
    \A n \in Namers : seen[n].rows \subseteq Rows /\ IsFiniteSet(seen[n].used)

RInv ==
    /\ TypeOK
    /\ \E row \in Rows : row.id = Legacy
    /\ TitlesAreUnique
    /\ GeneratedAreDone
    /\ SeenAreRows
    /\ \A r \in Requests : RacesWereLost(r)

\* Disambiguation returns a title that is not used.
LEMMA DisambiguateIsFree ==
    ASSUME NEW name, NEW used, IsFiniteSet(used), NEW move
    PROVE  Disambiguate(name, used, move) \notin used
<1> DEFINE Least(t) == \A u \in FreeNumbered(name, used) : t.n <= u.n
           least == CHOOSE t \in FreeNumbered(name, used) : Least(t)
<1>1. \E t \in FreeNumbered(name, used) : Least(t)
  BY FreeNumber
<1>2. least \in FreeNumbered(name, used)
  <2> HIDE DEF Least
  <2> QED BY <1>1
<1>3. least \notin used
  BY <1>2 DEF FreeNumbered
<1> QED BY <1>3 DEF Disambiguate

\* ... and one of its name.
LEMMA DisambiguateIsTitle ==
    ASSUME NEW name \in Names, NEW used, IsFiniteSet(used), NEW move \in Nat
    PROVE  TitleOK(Disambiguate(name, used, move))
<1> DEFINE Least(t) == \A u \in FreeNumbered(name, used) : t.n <= u.n
           least == CHOOSE t \in FreeNumbered(name, used) : Least(t)
<1>1. \E t \in FreeNumbered(name, used) : Least(t)
  BY FreeNumber
<1>2. least \in FreeNumbered(name, used)
  <2> HIDE DEF Least
  <2> QED BY <1>1
<1>3. TitleOK(least)
  <2>1. PICK n \in 2..(Cardinality(used) + 2) : least = Title(name, "", n)
    BY <1>2 DEF FreeNumbered
  <2> HIDE DEF least
  <2>2. n \in Nat
    <3>1. Cardinality(used) \in Nat
      BY FS_CardinalityType
    <3> QED BY <3>1
  <2> QED BY <2>1, <2>2 DEF TitleOK, Title
<1>4. TitleOK(Title(name, "", 0)) /\ TitleOK(Title(name, "move", move))
  BY DEF TitleOK, Title
<1>5. Disambiguate(name, used, move)
        \in {Title(name, "", 0), Title(name, "move", move), least}
  BY DEF Disambiguate
<1> HIDE DEF least
<1> QED BY <1>3, <1>4, <1>5

LEMMA RequestsAreFinite == IsFiniteSet(Requests)
BY RequestsAssumption, FS_Union DEF Requests

\* Sets of requests that grow.
LEMMA LargerSets ==
    ASSUME NEW S \in SUBSET Requests, NEW T \in SUBSET Requests, S \subseteq T
    PROVE  /\ Cardinality(S) \in Nat /\ Cardinality(T) \in Nat
           /\ Cardinality(S) <= Cardinality(T)
           /\ S # T => Cardinality(S) + 1 <= Cardinality(T)
<1>1. IsFiniteSet(S) /\ IsFiniteSet(T)
  BY RequestsAreFinite, FS_Subset
<1>2. Cardinality(S) \in Nat /\ Cardinality(T) \in Nat
  BY <1>1, FS_CardinalityType
<1>3. Cardinality(S) <= Cardinality(T) /\ (Cardinality(S) = Cardinality(T) => S = T)
  BY <1>1, FS_Subset
<1> QED BY <1>2, <1>3

\* What a request does on its way leaves the others alone, and takes no row.
OwnStep(q) ==
    /\ pc[q] \notin Over
    /\ wanted' = wanted
    /\ Rows \subseteq Rows'
    /\ pc' \in [Requests -> Steps]
    /\ \A p \in Requests \ {q} : pc'[p] = pc[p]
    /\ LocalMoves(q)
    /\ \A n \in Namers \ {q} : seen'[n] = seen[n]

\* q commits a row or titles.
Commits(q) ==
    IF q \in Savers \union Generators
    THEN (\A row \in Rows : row.id # q) /\ (\E row \in Rows' : row.id = q)
    ELSE pc'[q] = "done"

\* A request that is over stays a rival, and one that commits becomes one.
LEMMA RivalsGrow ==
    ASSUME NEW q \in Requests, OwnStep(q), NEW r \in Requests
    PROVE  /\ Lost(r) \in Nat /\ Lost(r)' \in Nat /\ Lost(r)' >= Lost(r)
           /\ r # q /\ Commits(q) => Lost(r)' >= Lost(r) + 1
           /\ r = q /\ UNCHANGED puzzles => Lost(r)' = Lost(r)
<1>1. Rivals(r) \in SUBSET Requests /\ Rivals(r)' \in SUBSET Requests
  BY DEF Rivals, Requests
<1>2. Rivals(r) \subseteq Rivals(r)'
  BY DEF OwnStep, Over, Rivals, Requests
<1>3. ASSUME r # q, Commits(q) PROVE Rivals(r) # Rivals(r)'
  <2>1. CASE q \in Savers \union Generators
    <3>1. q \notin Rivals(r)
      BY <1>3, <2>1, RequestsAssumption DEF Commits, Rivals
    <3>2. q \in Rivals(r)'
      BY <1>3, <2>1 DEF Commits, Rivals
    <3> QED BY <3>1, <3>2
  <2>2. CASE q \notin Savers \union Generators
    <3>1. q \notin Rivals(r)
      BY <2>2 DEF OwnStep, Over, Rivals
    <3>2. q \in Rivals(r)'
      BY <1>3, <2>2 DEF Commits, Rivals, Requests
    <3> QED BY <3>1, <3>2
  <2> QED BY <2>1, <2>2
<1>4. ASSUME r = q, UNCHANGED puzzles PROVE Rivals(r)' = Rivals(r)
  BY <1>4 DEF OwnStep, Rivals, Rows, Requests
<1> QED BY <1>1, <1>2, <1>3, <1>4, LargerSets DEF Lost

\* A step of q leaves what the other requests are owed, as it either changes no
\* row and no title, or is one more race they have lost.
LEMMA OthersAreOwed ==
    ASSUME IInv, RInv, NEW q \in Requests, OwnStep(q),
           UNCHANGED dbVars \/ Commits(q),
           NEW r \in Requests \ {q}
    PROVE  RacesWereLost(r)'
<1>1. /\ pc'[r] = pc[r] /\ local'[r] = local[r] /\ wanted' = wanted
      /\ r \in Namers => seen'[r] = seen[r]
  BY DEF OwnStep, LocalMoves
<1>2. /\ Lost(r) \in Nat /\ Lost(r)' \in Nat /\ Lost(r)' >= Lost(r)
      /\ UNCHANGED dbVars \/ Lost(r)' >= Lost(r) + 1
  BY RivalsGrow
<1>3. AtSlot(r) \subseteq AtSlot(r)' /\ AtPosition(r) \subseteq AtPosition(r)'
  BY <1>1 DEF OwnStep, AtSlot, AtPosition, ManualRows, Game
<1>4. /\ UNCHANGED dbVars => Taken' = Taken /\ title' = title
      /\ UNCHANGED dbVars => AtSlot(r)' = AtSlot(r)
  BY <1>1 DEF dbVars, Taken, AtSlot, Rows, Game
<1>5. /\ local[r].attempt \in Nat /\ local[r].retry \in Nat
      /\ Rounds(r) \in Nat /\ Rounds(r)' = Rounds(r)
      /\ Patience(r)' = Patience(r)
  BY <1>1, PuzzleSavingAssumption DEF RInv, TypeOK, Rounds, Patience
<1>6. RacesWereLost(r)
  BY DEF RInv
<1> USE <1>1, <1>2, <1>3, <1>4, <1>5, <1>6
<1>7. pc'[r] \notin Over => Lost(r)' >= Rounds(r)'
  BY DEF RacesWereLost
<1>8. pc'[r] = "inserting" /\ r \notin Namers /\ local'[r].free \in Taken' =>
          Lost(r)' >= Rounds(r)' + 1
  BY DEF RacesWereLost, Over
<1>9. pc'[r] = "renaming" => Lost(r)' >= Rounds(r)' + 1
  BY DEF RacesWereLost
<1>10. r \in Savers /\ pc'[r] \in Allocated /\ AtSlot(r)' # {} =>
          Lost(r)' >= local'[r].attempt + 1
  <2>1. pc[r] \in Allocated => Lost(r) >= local[r].attempt
    BY DEF RacesWereLost, Rounds, Over, Allocated
  <2> QED BY <2>1 DEF RacesWereLost
<1>11. pc'[r] = "duplicate" => AtSlot(r)' # {} \/ (r \in Savers /\ AtPosition(r)' # {})
  BY DEF RacesWereLost
<1>12. r \in Savers /\ pc'[r] = "absorbing" /\ AtPosition(r)' = {} =>
          Lost(r)' >= local'[r].attempt + 1
  BY DEF RacesWereLost
<1>13. r \in Reviewers /\ pc'[r] = "inserting" /\ Legacy \in DOMAIN title' =>
          Lost(r)' >= 1
  BY DEF RacesWereLost
<1>14. r \in Namers /\ pc'[r] \in {"titling", "inserting"} /\ Lost(r)' = 0 =>
          /\ seen'[r].title = title'
          /\ pc'[r] = "inserting" => seen'[r].used = Taken'
  BY DEF RacesWereLost
<1>15. pc'[r] = "failed" => Lost(r)' >= Patience(r)'
  <2>1. Patience(r) \in Nat
    BY PuzzleSavingAssumption DEF Patience
  <2> QED BY <2>1 DEF RacesWereLost
<1> QED
  BY <1>7, <1>8, <1>9, <1>10, <1>11, <1>12, <1>13, <1>14, <1>15 DEF RacesWereLost

LocalOK(l) ==
    /\ l.attempt \in 0..(MaxAttempts - 1)
    /\ l.retry \in 0..(TitleAttempts - 1)
    /\ l.ply \in Nat
    /\ TitleOK(l.free)

AnswerOK(a) ==
    a \in [request : Savers, puzzle : Savers \union {"none"}, is_new : BOOLEAN]

LEMMA FreshIsOK == LocalOK(Fresh)
<1>1. (CHOOSE name \in Names : TRUE) \in Names
  BY PuzzleSavingAssumption
<1>2. ASSUME NEW name \in Names
      PROVE  LocalOK([attempt |-> 0, retry |-> 0, ply |-> 0,
                      free |-> Title(name, "", 0)])
  <2>1. 0 \in 0..(MaxAttempts - 1) /\ 0 \in 0..(TitleAttempts - 1)
    BY PuzzleSavingAssumption
  <2>2. TitleOK(Title(name, "", 0))
    BY DEF TitleOK, Title
  <2> QED BY <2>1, <2>2 DEF LocalOK
<1> QED BY <1>1, <1>2 DEF Fresh

StatsOK ==
    /\ DOMAIN title \subseteq {row.id : row \in Rows}
    /\ {row.id : row \in Rows} \subseteq DOMAIN title \union {Legacy}
    /\ \A i \in DOMAIN title :
        TitleOK(title[i].title) /\ title[i].source \in Sources

\* The invariant after a step of q, from what q may have changed.
LEMMA StepRaces ==
    ASSUME IInv, IInv', RInv, NEW q \in Requests, OwnStep(q),
           UNCHANGED dbVars \/ Commits(q),
           LocalOK(local'[q]),
           \/ UNCHANGED answers
           \/ \E a : AnswerOK(a) /\ answers' = answers \union {a},
           StatsOK', TitlesAreUnique', GeneratedAreDone', SeenAreRows',
           RacesWereLost(q)'
    PROVE  RInv'
<1>1. TypeOK'
  <2>1. pc' \in [Requests -> Steps] /\ wanted' \in [Savers -> Positions]
    BY DEF IInv, Shape
  <2>2. \A r \in Requests : LocalOK(local'[r])
    BY DEF OwnStep, LocalMoves, RInv, TypeOK, LocalOK
  <2>3. \A a \in answers' : AnswerOK(a)
    BY DEF RInv, TypeOK, AnswerOK
  <2>4. answers' \subseteq
            [request : Savers, puzzle : Savers \union {"none"}, is_new : BOOLEAN]
    BY <2>3 DEF AnswerOK
  <2>5. \A row \in Rows' : row \in Row
    BY DEF IInv, Shape, Rows, Range
  <2> QED BY <2>1, <2>2, <2>4, <2>5 DEF TypeOK, StatsOK, LocalOK, Row
<1>2. \E row \in Rows' : row.id = Legacy
  BY DEF RInv, OwnStep
<1>3. \A r \in Requests : RacesWereLost(r)'
  BY OthersAreOwed
<1> QED BY <1>1, <1>2, <1>3 DEF RInv

\* A step that writes no row, no title and nothing a naming pass has read.
LEMMA QuietRaces ==
    ASSUME IInv, IInv', RInv, NEW q \in Requests, OwnStep(q),
           UNCHANGED <<dbVars, seen>>,
           LocalOK(local'[q]),
           \/ UNCHANGED answers
           \/ \E a : AnswerOK(a) /\ answers' = answers \union {a},
           RacesWereLost(q)'
    PROVE  RInv'
<1>1. Rows' = Rows /\ title' = title /\ seen' = seen
  BY DEF Rows, dbVars
<1>2. StatsOK' /\ TitlesAreUnique' /\ SeenAreRows'
  BY <1>1 DEF RInv, TypeOK, StatsOK, TitlesAreUnique, SeenAreRows
<1>3. GeneratedAreDone'
  BY <1>1 DEF RInv, GeneratedAreDone, OwnStep, Over, Requests
<1> QED BY <1>2, <1>3, StepRaces

\* A request that ends.
LEMMA EndRaces ==
    ASSUME IInv, IInv', RInv, NEW r \in Requests, pc[r] \notin Over,
           UNCHANGED <<wanted, dbVars, seen>>,
           NEW outcome \in Over, End(r, outcome),
           outcome = "failed" => Lost(r) >= Patience(r),
           \/ UNCHANGED answers
           \/ \E a : AnswerOK(a) /\ answers' = answers \union {a}
    PROVE  RInv'
<1>1. /\ pc' \in [Requests -> Steps] /\ pc'[r] = outcome
      /\ \A q \in Requests \ {r} : pc'[q] = pc[q]
      /\ LocalMoves(r)
  BY EndMoves DEF IInv, Over, Steps
<1>2. local'[r] = Fresh
  BY DEF End, IInv, Shape
<1>3. OwnStep(r)
  BY <1>1 DEF OwnStep, Rows, dbVars
<1>4. Lost(r)' = Lost(r) /\ Patience(r)' = Patience(r)
  BY <1>3, RivalsGrow DEF dbVars, Patience
<1>5. RacesWereLost(r)'
  BY <1>1, <1>4 DEF RacesWereLost, Over, Allocated
<1> QED BY <1>2, <1>3, <1>5, FreshIsOK, QuietRaces

\* A request that only goes on.
LEMMA GotoRaces ==
    ASSUME IInv, IInv', RInv, NEW r \in Requests, pc[r] \notin Over,
           UNCHANGED <<wanted, dbVars, local, seen, answers>>,
           NEW step \in Steps, Goto(r, step), RacesWereLost(r)'
    PROVE  RInv'
<1>1. /\ pc' \in [Requests -> Steps] /\ pc'[r] = step
      /\ \A q \in Requests \ {r} : pc'[q] = pc[q]
      /\ LocalMoves(r) /\ local'[r] = local[r]
  BY GotoMoves, LocalStays DEF IInv
<1>2. OwnStep(r)
  BY <1>1 DEF OwnStep, Rows, dbVars
<1>3. LocalOK(local'[r])
  BY <1>1 DEF RInv, TypeOK, LocalOK
<1> QED BY <1>2, <1>3, QuietRaces

LEMMA PatienceIs ==
    /\ \A r \in Savers : Patience(r) = MaxAttempts
    /\ \A r \in Generators : Patience(r) = TitleAttempts
    /\ \A r \in Reviewers \union Namers : Patience(r) = 1
BY RequestsAssumption DEF Patience

LEMMA AnswerRaces ==
    ASSUME IInv, IInv', RInv, NEW r \in Savers, pc[r] \notin Over,
           UNCHANGED <<wanted, dbVars, seen>>,
           NEW row \in ManualRows, Answer(r, row.id, FALSE)
    PROVE  RInv'
<1> DEFINE a == [request |-> r, puzzle |-> row.id, is_new |-> FALSE]
<1>1. row.id \in Savers
  BY DEF IInv, ManualRowsAreDone, ManualRows
<1>2. AnswerOK(a)
  BY <1>1 DEF AnswerOK
<1>3. End(r, "done") /\ answers' = answers \union {a}
  BY DEF Answer, Reply
<1> HIDE DEF a
<1> QED BY <1>2, <1>3, EndRaces DEF Over, Requests

\* One more attempt, or the refusal: a race was lost in this one.
LEMMA NextAttemptRaces ==
    ASSUME IInv, IInv', RInv, NEW r \in Savers, pc[r] \notin Over,
           UNCHANGED <<wanted, dbVars, seen>>,
           Lost(r) >= local[r].attempt + 1, NextAttempt(r)
    PROVE  RInv'
<1>1. r \in Requests /\ local[r].attempt \in 0..(MaxAttempts - 1) /\ MaxAttempts \in Nat
  BY PuzzleSavingAssumption DEF Requests, RInv, TypeOK
<1>2. CASE local[r].attempt + 1 < MaxAttempts
  <2> DEFINE new == [Fresh EXCEPT !.attempt = local[r].attempt + 1]
  <2>1. local' = [local EXCEPT ![r] = new] /\ Goto(r, "arriving") /\ UNCHANGED answers
    BY <1>2 DEF NextAttempt
  <2>2. /\ DOMAIN new = {"attempt", "retry", "ply", "free"} /\ new.ply = 0
        /\ new.attempt = local[r].attempt + 1 /\ new.retry = 0
        /\ new.retry = Fresh.retry /\ new.free = Fresh.free
    BY DEF Fresh
  <2> HIDE DEF new
  <2>3. LocalOK(new)
    BY <1>1, <1>2, <2>2, FreshIsOK DEF LocalOK
  <2>4. LocalMoves(r) /\ local'[r] = new
    BY <1>1, <2>1, <2>2 DEF IInv, Shape, LocalMoves
  <2>5. /\ pc' \in [Requests -> Steps] /\ pc'[r] = "arriving"
        /\ \A q \in Requests \ {r} : pc'[q] = pc[q]
    BY <1>1, <2>1, GotoMoves DEF IInv, Steps
  <2>6. OwnStep(r)
    BY <2>4, <2>5 DEF OwnStep, Rows, dbVars
  <2>7. Lost(r)' = Lost(r) /\ Rounds(r)' = local[r].attempt + 1
    BY <1>1, <2>2, <2>4, <2>6, RivalsGrow DEF dbVars, Rounds
  <2>8. RacesWereLost(r)'
    BY <1>1, <2>5, <2>7, RequestsAssumption DEF RacesWereLost, Over, Allocated
  <2> QED BY <1>1, <2>1, <2>3, <2>4, <2>6, <2>8, QuietRaces
<1>3. CASE ~(local[r].attempt + 1 < MaxAttempts)
  <2> DEFINE a == [request |-> r, puzzle |-> "none", is_new |-> FALSE]
  <2>1. End(r, "failed") /\ answers' = answers \union {a}
    BY <1>3 DEF NextAttempt, Reply
  <2>2. AnswerOK(a)
    BY DEF AnswerOK
  <2>3. Patience(r) = MaxAttempts
    BY PatienceIs
  <2>4. Lost(r) \in Nat
    BY <1>1, LargerSets DEF Lost, Rivals, Requests
  <2>5. Lost(r) >= Patience(r)
    BY <1>1, <1>3, <2>3, <2>4
  <2> HIDE DEF a
  <2> QED BY <1>1, <2>1, <2>2, <2>5, EndRaces DEF Over
<1> QED BY <1>2, <1>3

\* save_puzzle came back with the row that has the ply: a save that picked a
\* free ply has lost a race for it.
LEMMA ResolveTakenRaces ==
    ASSUME IInv, IInv', RInv, NEW r \in Savers \union Generators,
           pc[r] \in Allocated, UNCHANGED <<wanted, dbVars, seen>>,
           NEW row \in AtSlot(r), ResolveTaken(r, row)
    PROVE  RInv'
<1>1. r \in Requests /\ pc[r] \notin Over
  BY DEF Requests, Allocated, Over
<1>2. CASE r \in Savers /\ row.position = wanted[r]
  <2>1. row \in ManualRows
    BY <1>2 DEF AtSlot, Game, ManualRows
  <2> QED BY <1>1, <1>2, <2>1, AnswerRaces DEF ResolveTaken
<1>3. CASE r \in Savers /\ row.position # wanted[r]
  <2>1. Lost(r) >= local[r].attempt + 1
    BY <1>1, <1>3 DEF RInv, RacesWereLost
  <2> QED BY <1>1, <1>3, <2>1, NextAttemptRaces DEF ResolveTaken
<1>4. CASE r \notin Savers
  BY <1>1, <1>4, EndRaces DEF ResolveTaken, Over
<1> QED BY <1>2, <1>3, <1>4

\* The steps of a save that insert nothing.
LEMMA SaveStepRaces ==
    ASSUME IInv, IInv', RInv, NEW r \in Savers \union Generators,
           \/ LookUpPosition(r) \/ AllocatePly(r) \/ AbsorbConflict(r)
           \/ LookUpPly(r) \/ PickTitle(r) \/ InsertFails(r) \/ Recover(r)
    PROVE  RInv'
<1>1. /\ r \in Requests /\ Shape /\ r \notin Namers /\ r \notin Reviewers
      /\ local[r].attempt \in Nat /\ local[r].retry \in Nat
      /\ Rounds(r) = local[r].attempt + local[r].retry
      /\ Lost(r) \in Nat /\ RacesWereLost(r) /\ LocalOK(local[r])
  <2>1. Lost(r) \in Nat
    BY LargerSets DEF Lost, Rivals, Requests
  <2>2. r \in Requests
    BY DEF Requests
  <2>3. LocalOK(local[r]) /\ local[r].attempt \in Nat /\ local[r].retry \in Nat
    BY <2>2 DEF RInv, TypeOK, LocalOK
  <2> QED BY <2>1, <2>2, <2>3, RequestsAssumption DEF IInv, RInv, Rounds
\* The request goes on: what it has lost it keeps.
<1>2. ASSUME UNCHANGED <<wanted, dbVars, seen>>, pc[r] \notin Over, LocalMoves(r),
             NEW step \in Steps, Goto(r, step)
      PROVE  /\ OwnStep(r) /\ Lost(r)' = Lost(r) /\ pc'[r] = step
             /\ Taken' = Taken /\ title' = title
             /\ local'[r].ply = local[r].ply => AtSlot(r)' = AtSlot(r)
             /\ AtPosition(r)' = AtPosition(r)
  <2>1. OwnStep(r) /\ pc'[r] = step
    BY <1>1, <1>2, GotoMoves DEF OwnStep, Rows, dbVars
  <2>2. Lost(r)' = Lost(r)
    BY <1>1, <1>2, <2>1, RivalsGrow DEF dbVars
  <2>3. Taken' = Taken /\ title' = title /\ Rows' = Rows
    BY <1>2 DEF dbVars, Taken, Rows
  <2>4. local'[r].ply = local[r].ply => AtSlot(r)' = AtSlot(r)
    BY <2>3 DEF AtSlot, Game
  <2>5. AtPosition(r)' = AtPosition(r)
    BY <1>2, <2>3 DEF AtPosition, ManualRows
  <2> QED BY <2>1, <2>2, <2>3, <2>4, <2>5
<1>3. ASSUME UNCHANGED local PROVE LocalMoves(r) /\ local'[r] = local[r] /\ Rounds(r)' = Rounds(r)
  BY <1>1, <1>3, LocalStays DEF Rounds
<1>4. CASE LookUpPosition(r)
  <2>1. r \in Savers /\ pc[r] = "arriving" /\ UNCHANGED <<wanted, dbVars, seen>>
    BY <1>4 DEF LookUpPosition
  <2>2. CASE AtPosition(r) = {}
    <3>1. Goto(r, "allocating") /\ UNCHANGED <<answers, local>>
      BY <1>4, <2>2 DEF LookUpPosition
    <3>2. RacesWereLost(r)'
      BY <1>1, <1>2, <1>3, <2>1, <3>1 DEF RacesWereLost, Over, Allocated, Steps
    <3> QED BY <1>1, <2>1, <3>1, <3>2, GotoRaces DEF Steps, Over
  <2>3. CASE AtPosition(r) # {}
    <3>1. AtPosition(r) \subseteq ManualRows
      BY DEF AtPosition
    <3> QED BY <1>4, <2>1, <2>3, <3>1, AnswerRaces DEF LookUpPosition, Over
  <2> QED BY <2>2, <2>3
<1>5. CASE AllocatePly(r)
  <2>1. /\ local' = [local EXCEPT ![r].ply = NextManualPly] /\ Goto(r, "saving")
        /\ UNCHANGED <<wanted, dbVars, seen, answers>> /\ pc[r] = "allocating"
    BY <1>5 DEF AllocatePly
  <2>2. r \in Savers
    BY <2>1 DEF IInv, GeneratorsOnlySave, Asking
  <2>3. NextManualPly = Cardinality(ManualRows) /\ Cardinality(ManualRows) \in Nat
    BY NextPlyCounts, FS_CardinalityType DEF IInv
  <2>4. /\ LocalMoves(r) /\ local'[r].ply = Cardinality(ManualRows)
        /\ local'[r].attempt = local[r].attempt /\ local'[r].retry = local[r].retry
        /\ local'[r].free = local[r].free
    BY <1>1, <2>1, <2>3 DEF Shape, LocalMoves
  <2>5. AtSlot(r)' = {}
    <3>1. \A row \in ManualRows : row.ply # Cardinality(ManualRows)
      BY <2>3 DEF IInv, PliesAreASequence
    <3>2. Rows' = Rows
      BY <2>1 DEF Rows, dbVars
    <3> QED BY <2>2, <2>4, <3>1, <3>2 DEF AtSlot, Game, ManualRows
  <2>6. LocalOK(local'[r]) /\ Rounds(r)' = Rounds(r)
    BY <1>1, <2>3, <2>4 DEF LocalOK, Rounds
  <2>7. OwnStep(r) /\ Lost(r)' = Lost(r) /\ pc'[r] = "saving"
    BY <1>2, <2>1, <2>4 DEF Over, Steps
  <2>8. RacesWereLost(r)'
    BY <1>1, <2>1, <2>5, <2>6, <2>7 DEF RacesWereLost, Over, Allocated
  <2> QED BY <1>1, <2>1, <2>6, <2>7, <2>8, QuietRaces
<1>6. CASE AbsorbConflict(r)
  <2>1. pc[r] = "absorbing" /\ UNCHANGED <<wanted, dbVars, seen>> /\ pc[r] \notin Over
    BY <1>6 DEF AbsorbConflict, Over
  <2>2. r \in Savers
    BY <2>1 DEF IInv, GeneratorsOnlySave, Asking
  <2>3. CASE AtPosition(r) = {}
    <3>1. NextAttempt(r)
      BY <1>6, <2>3 DEF AbsorbConflict
    <3>2. Lost(r) >= local[r].attempt + 1
      BY <1>1, <2>1, <2>2, <2>3 DEF RacesWereLost
    <3> QED BY <2>1, <2>2, <3>1, <3>2, NextAttemptRaces
  <2>4. CASE AtPosition(r) # {}
    <3>1. AtPosition(r) \subseteq ManualRows
      BY DEF AtPosition
    <3> QED BY <1>6, <2>1, <2>2, <2>4, <3>1, AnswerRaces DEF AbsorbConflict
  <2> QED BY <2>3, <2>4
<1>7. CASE LookUpPly(r)
  <2>1. pc[r] = "saving" /\ UNCHANGED <<wanted, dbVars, seen>>
    BY <1>7 DEF LookUpPly
  <2>2. CASE AtSlot(r) = {}
    <3>1. Goto(r, "titling") /\ UNCHANGED <<answers, local>>
      BY <1>7, <2>2 DEF LookUpPly
    <3>2. /\ Lost(r)' = Lost(r) /\ Rounds(r)' = Rounds(r) /\ AtSlot(r)' = {}
          /\ pc'[r] = "titling"
      BY <1>2, <1>3, <2>1, <2>2, <3>1 DEF Over, Steps
    <3>3. RacesWereLost(r)'
      BY <1>1, <2>1, <3>2 DEF RacesWereLost, Over, Allocated
    <3> QED BY <1>1, <2>1, <3>1, <3>3, GotoRaces DEF Steps, Over
  <2>3. CASE AtSlot(r) # {}
    BY <1>7, <2>1, <2>3, ResolveTakenRaces DEF LookUpPly, Allocated
  <2> QED BY <2>2, <2>3
<1>8. CASE PickTitle(r)
  <2> DEFINE t == Disambiguate(NameOf[r], Taken, MoveNumber(local[r].ply))
  <2>1. /\ local' = [local EXCEPT ![r].free = t] /\ Goto(r, "inserting")
        /\ UNCHANGED <<wanted, dbVars, seen, answers>> /\ pc[r] = "titling"
    BY <1>8 DEF PickTitle
  <2>2. t \notin Taken /\ TitleOK(t)
    <3>1. NameOf[r] \in Names
      BY PuzzleSavingAssumption
    <3>2. MoveNumber(local[r].ply) \in Nat
      BY <1>1 DEF LocalOK, MoveNumber
    <3> QED BY <1>1, <3>1, <3>2, TakenIsFinite, DisambiguateIsFree, DisambiguateIsTitle
  <2> HIDE DEF t
  <2>3. /\ LocalMoves(r) /\ local'[r].ply = local[r].ply /\ local'[r].free = t
        /\ local'[r].attempt = local[r].attempt /\ local'[r].retry = local[r].retry
    BY <1>1, <2>1 DEF Shape, LocalMoves
  <2>4. LocalOK(local'[r]) /\ Rounds(r)' = Rounds(r)
    BY <1>1, <2>2, <2>3 DEF LocalOK, Rounds
  <2>5. /\ OwnStep(r) /\ Lost(r)' = Lost(r) /\ pc'[r] = "inserting"
        /\ Taken' = Taken /\ AtSlot(r)' = AtSlot(r)
    BY <1>2, <2>1, <2>3 DEF Over, Steps
  <2>6. RacesWereLost(r)'
    BY <1>1, <2>1, <2>2, <2>3, <2>4, <2>5 DEF RacesWereLost, Over, Allocated
  <2> QED BY <1>1, <2>1, <2>4, <2>5, <2>6, QuietRaces
<1>9. CASE InsertFails(r)
  <2>1. pc[r] = "inserting" /\ UNCHANGED <<wanted, dbVars, local, seen, answers>>
    BY <1>9 DEF InsertFails
  <2>2. CASE Violation(r) = "title"
    <3>1. Goto(r, "renaming") /\ local[r].free \in Taken
      BY <1>9, <2>2 DEF InsertFails, Violation
    <3>2. /\ Lost(r)' = Lost(r) /\ Rounds(r)' = Rounds(r) /\ local'[r] = local[r]
          /\ pc'[r] = "renaming" /\ AtSlot(r)' = AtSlot(r)
      BY <1>2, <1>3, <2>1, <3>1 DEF Over, Steps
    <3>3. RacesWereLost(r)'
      BY <1>1, <2>1, <3>1, <3>2 DEF RacesWereLost, Over, Allocated
    <3> QED BY <1>1, <2>1, <3>1, <3>3, GotoRaces DEF Steps, Over
  <2>3. CASE Violation(r) # "title"
    <3>1. /\ Goto(r, "duplicate")
          /\ AtSlot(r) # {} \/ (r \in Savers /\ AtPosition(r) # {})
      BY <1>9, <2>3 DEF InsertFails, Violation
    <3>2. /\ Lost(r)' = Lost(r) /\ Rounds(r)' = Rounds(r) /\ local'[r] = local[r]
          /\ pc'[r] = "duplicate" /\ AtSlot(r)' = AtSlot(r)
          /\ AtPosition(r)' = AtPosition(r)
      BY <1>2, <1>3, <2>1, <3>1 DEF Over, Steps
    <3>3. RacesWereLost(r)'
      BY <1>1, <2>1, <3>1, <3>2 DEF RacesWereLost, Over, Allocated
    <3> QED BY <1>1, <2>1, <3>1, <3>3, GotoRaces DEF Steps, Over
  <2> QED BY <2>2, <2>3
<1>10. CASE Recover(r)
  <2>1. pc[r] \in {"duplicate", "renaming"} /\ UNCHANGED <<wanted, dbVars, seen>>
    BY <1>10 DEF Recover
  <2>2. pc[r] \in Allocated /\ pc[r] \notin Over
    BY <2>1 DEF Allocated, Over
  <2>3. CASE AtSlot(r) # {}
    BY <1>10, <2>1, <2>2, <2>3, ResolveTakenRaces DEF Recover
  <2>4. CASE AtSlot(r) = {} /\ pc[r] = "renaming" /\ local[r].retry + 1 < TitleAttempts
    <3>1. /\ local' = [local EXCEPT ![r].retry = @ + 1]
          /\ Goto(r, "titling") /\ UNCHANGED answers
      BY <1>10, <2>4 DEF Recover
    <3>2. /\ LocalMoves(r) /\ local'[r].ply = local[r].ply
          /\ local'[r].attempt = local[r].attempt
          /\ local'[r].retry = local[r].retry + 1
          /\ local'[r].free = local[r].free
      BY <1>1, <3>1 DEF Shape, LocalMoves
    <3>3. LocalOK(local'[r]) /\ Rounds(r)' = Rounds(r) + 1
      BY <1>1, <2>4, <3>2, PuzzleSavingAssumption DEF LocalOK, Rounds
    <3>4. /\ OwnStep(r) /\ Lost(r)' = Lost(r) /\ pc'[r] = "titling"
          /\ AtSlot(r)' = {}
      BY <1>2, <2>1, <2>2, <2>4, <3>1, <3>2 DEF Steps
    <3>5. RacesWereLost(r)'
      BY <1>1, <2>4, <3>3, <3>4 DEF RacesWereLost, Over, Allocated
    <3> QED BY <1>1, <2>1, <3>1, <3>3, <3>4, <3>5, QuietRaces
  <2>5. CASE /\ AtSlot(r) = {}
             /\ ~(pc[r] = "renaming" /\ local[r].retry + 1 < TitleAttempts)
    <3>1. Raise(r)
      BY <1>10, <2>5 DEF Recover
    <3>2. CASE r \in Savers
      <4>1. Goto(r, "absorbing") /\ UNCHANGED <<local, answers>>
        BY <3>1, <3>2 DEF Raise
      <4>2. AtPosition(r) # {} \/ Lost(r) >= local[r].attempt + 1
        BY <1>1, <2>1, <2>5 DEF RacesWereLost
      <4>3. /\ Lost(r)' = Lost(r) /\ Rounds(r)' = Rounds(r) /\ local'[r] = local[r]
            /\ pc'[r] = "absorbing" /\ AtPosition(r)' = AtPosition(r)
        BY <1>2, <1>3, <2>1, <2>2, <4>1 DEF Steps
      <4>4. RacesWereLost(r)'
        BY <1>1, <2>2, <4>2, <4>3 DEF RacesWereLost, Over, Allocated
      <4> QED BY <1>1, <2>1, <2>2, <4>1, <4>4, GotoRaces DEF Steps
    <3>3. CASE r \notin Savers
      <4>1. pc[r] = "renaming" /\ local[r].retry + 1 >= TitleAttempts
        BY <1>1, <2>1, <2>5, <3>3, PuzzleSavingAssumption DEF RacesWereLost
      <4>2. Lost(r) >= TitleAttempts /\ Patience(r) = TitleAttempts
        BY <1>1, <3>3, <4>1, PatienceIs, PuzzleSavingAssumption DEF RacesWereLost
      <4>3. End(r, "failed") /\ UNCHANGED answers
        BY <3>1, <3>3 DEF Raise
      <4> QED BY <1>1, <2>1, <2>2, <4>2, <4>3, EndRaces DEF Over
    <3> QED BY <3>2, <3>3
  <2> QED BY <2>3, <2>4, <2>5
<1> QED BY <1>4, <1>5, <1>6, <1>7, <1>8, <1>9, <1>10

\* A stats row with a title nobody shows keeps the titles unique.
LEMMA NewTitleIsUnique ==
    ASSUME TitlesAreUnique, NEW id, NEW stats, stats.title \notin Taken,
           DOMAIN title' = DOMAIN title \union {id},
           \A i \in DOMAIN title \ {id} : title'[i] = title[i],
           title'[id] = stats
    PROVE  TitlesAreUnique'
<1> SUFFICES ASSUME NEW i \in DOMAIN title', NEW j \in DOMAIN title',
                    title'[i].title = title'[j].title
             PROVE  i = j
  BY DEF TitlesAreUnique
<1>1. \A k \in DOMAIN title' \ {id} :
          k \in DOMAIN title /\ title'[k] = title[k] /\ title[k].title \in Taken
  BY DEF Taken
<1> QED BY <1>1 DEF TitlesAreUnique

LEMMA InsertRaces ==
    ASSUME IInv, IInv', RInv, NEW r \in Savers \union Generators, Insert(r)
    PROVE  RInv'
<1> DEFINE row == [id |-> r, game |-> Game(r), ply |-> local[r].ply,
                   position |-> IF r \in Savers THEN wanted[r] ELSE NoPosition]
           stats == [title |-> local[r].free,
                     source |-> IF r \in Savers THEN "user" ELSE "position"]
           a == [request |-> r, puzzle |-> r, is_new |-> TRUE]
<1>1. /\ Rows' = Rows \union {row}
      /\ DOMAIN title' = DOMAIN title \union {r}
      /\ \A i \in DOMAIN title \ {r} : title'[i] = title[i]
      /\ title'[r] = stats
      /\ End(r, "done") /\ pc[r] = "inserting"
      /\ pc' \in [Requests -> Steps] /\ pc'[r] = "done"
      /\ \A q \in Requests \ {r} : pc'[q] = pc[q]
      /\ LocalMoves(r)
      /\ answers' = answers \/ (r \in Savers /\ answers' = answers \union {a})
      /\ wanted' = wanted /\ seen' = seen
  BY InsertFacts
<1>2. /\ row.id = r /\ stats.title = local[r].free /\ stats.source \in Sources
      /\ r \in Savers => AnswerOK(a)
  BY DEF Sources, AnswerOK
<1>3. r \in Requests
  BY DEF Requests
<1> HIDE DEF row, stats, a
<1>4. local[r].free \notin Taken /\ TitleOK(local[r].free)
  BY <1>3 DEF Insert, Violation, RInv, TypeOK
<1>5. OwnStep(r)
  BY <1>1 DEF OwnStep, Over
<1>6. Commits(r)
  <2>1. \A old \in Rows : old.id # r
    BY <1>1 DEF IInv, ManualRowsAreDone, RInv, GeneratedAreDone
  <2> QED BY <1>1, <1>2, <2>1 DEF Commits
<1>7. LocalOK(local'[r])
  <2>1. local'[r] = Fresh
    BY <1>1, <1>3 DEF End, IInv, Shape
  <2> QED BY <2>1, FreshIsOK
<1>8. StatsOK'
  <2>1. {old.id : old \in Rows'} = {old.id : old \in Rows} \union {r}
    BY <1>1, <1>2
  <2>2. \A i \in DOMAIN title' : TitleOK(title'[i].title) /\ title'[i].source \in Sources
    BY <1>1, <1>2, <1>4 DEF RInv, TypeOK
  <2> QED BY <1>1, <2>1, <2>2 DEF RInv, TypeOK, StatsOK
<1>9. TitlesAreUnique'
  BY <1>1, <1>2, <1>4, NewTitleIsUnique DEF RInv
<1>10. GeneratedAreDone'
  BY <1>1, <1>2 DEF RInv, GeneratedAreDone, Requests
<1>11. SeenAreRows'
  BY <1>1 DEF RInv, SeenAreRows
<1>12. RacesWereLost(r)'
  BY <1>1 DEF RacesWereLost, Over, Allocated
<1> QED
  BY <1>1, <1>2, <1>3, <1>5, <1>6, <1>7, <1>8, <1>9, <1>10, <1>11, <1>12, StepRaces

LEMMA ReviewRaces ==
    ASSUME IInv, IInv', RInv, NEW v \in Reviewers,
           PickReviewTitle(v) \/ InsertReviewStats(v)
    PROVE  RInv'
<1>1. /\ v \in Requests /\ Shape /\ v \notin Savers \union Generators /\ v \notin Namers
      /\ RacesWereLost(v) /\ LocalOK(local[v]) /\ Lost(v) \in Nat
      /\ local[v].attempt \in Nat /\ local[v].retry \in Nat
      /\ Rounds(v) = local[v].attempt + local[v].retry /\ Patience(v) = 1
  <2>1. v \in Requests
    BY DEF Requests
  <2>2. LocalOK(local[v]) /\ local[v].attempt \in Nat /\ local[v].retry \in Nat
    BY <2>1 DEF RInv, TypeOK, LocalOK
  <2>3. Lost(v) \in Nat
    BY LargerSets DEF Lost, Rivals, Requests
  <2> QED BY <2>1, <2>2, <2>3, RequestsAssumption, PatienceIs DEF IInv, RInv, Rounds
<1>2. CASE PickReviewTitle(v)
  <2>1. pc[v] = "arriving" /\ UNCHANGED <<wanted, dbVars, seen, answers>>
    BY <1>2 DEF PickReviewTitle
  <2>2. CASE Legacy \in DOMAIN title
    BY <1>1, <1>2, <2>1, <2>2, EndRaces DEF PickReviewTitle, Over
  <2>3. CASE Legacy \notin DOMAIN title
    <3> DEFINE t == Disambiguate(NameOf[v], Taken, MoveNumber(local[v].ply))
    <3>1. local' = [local EXCEPT ![v].free = t] /\ Goto(v, "inserting")
      BY <1>2, <2>3 DEF PickReviewTitle
    <3>2. t \notin Taken /\ TitleOK(t)
      <4>1. NameOf[v] \in Names
        BY PuzzleSavingAssumption
      <4>2. MoveNumber(local[v].ply) \in Nat
        BY <1>1 DEF LocalOK, MoveNumber
      <4> QED BY <1>1, <4>1, <4>2, TakenIsFinite, DisambiguateIsFree, DisambiguateIsTitle
    <3> HIDE DEF t
    <3>3. /\ LocalMoves(v) /\ local'[v].ply = local[v].ply /\ local'[v].free = t
          /\ local'[v].attempt = local[v].attempt /\ local'[v].retry = local[v].retry
      BY <1>1, <3>1 DEF Shape, LocalMoves
    <3>4. /\ pc' \in [Requests -> Steps] /\ pc'[v] = "inserting"
          /\ \A q \in Requests \ {v} : pc'[q] = pc[q]
      BY <1>1, <3>1, GotoMoves DEF Steps
    <3>5. OwnStep(v)
      BY <2>1, <3>3, <3>4 DEF OwnStep, Over, Rows, dbVars
    <3>6. Lost(v)' = Lost(v) /\ Taken' = Taken /\ title' = title
      BY <1>1, <2>1, <3>5, RivalsGrow DEF dbVars, Taken
    <3>7. LocalOK(local'[v]) /\ Rounds(v)' = Rounds(v)
      BY <1>1, <3>2, <3>3 DEF LocalOK, Rounds
    <3>8. RacesWereLost(v)'
      BY <1>1, <2>1, <2>3, <3>2, <3>3, <3>4, <3>6, <3>7 DEF RacesWereLost, Over
    <3> QED BY <1>1, <2>1, <3>5, <3>7, <3>8, QuietRaces
  <2> QED BY <2>2, <2>3
<1>3. CASE InsertReviewStats(v)
  <2>1. pc[v] = "inserting" /\ UNCHANGED <<wanted, puzzles, seen, answers>>
    BY <1>3 DEF InsertReviewStats
  <2>2. CASE Legacy \in DOMAIN title \/ local[v].free \in Taken
    <3>1. End(v, "failed") /\ UNCHANGED title
      BY <1>3, <2>2 DEF InsertReviewStats
    <3>2. Lost(v) >= 1
      BY <1>1, <2>1, <2>2 DEF RacesWereLost
    <3> QED BY <1>1, <2>1, <3>1, <3>2, EndRaces DEF Over, dbVars
  <2>3. CASE ~(Legacy \in DOMAIN title \/ local[v].free \in Taken)
    <3> DEFINE stats == [title |-> local[v].free, source |-> "motif"]
    <3>1. /\ End(v, "done")
          /\ WriteTitles({Legacy}, [i \in {Legacy} |-> local[v].free], "motif")
      BY <1>3, <2>3 DEF InsertReviewStats
    <3>2. /\ DOMAIN title' = DOMAIN title \union {Legacy}
          /\ \A i \in DOMAIN title \ {Legacy} : title'[i] = title[i]
          /\ title'[Legacy] = stats
      BY <3>1 DEF WriteTitles
    <3>3. stats.title = local[v].free /\ stats.source \in Sources
      BY DEF Sources
    <3> HIDE DEF stats
    <3>4. /\ pc' \in [Requests -> Steps] /\ pc'[v] = "done"
          /\ \A q \in Requests \ {v} : pc'[q] = pc[q]
          /\ LocalMoves(v) /\ local'[v] = Fresh
      BY <1>1, <3>1, EndMoves DEF Steps, End, Shape
    <3>5. Rows' = Rows
      BY <2>1 DEF Rows
    <3>6. OwnStep(v) /\ Commits(v)
      BY <1>1, <2>1, <3>4, <3>5 DEF OwnStep, Over, Commits
    <3>7. TitlesAreUnique'
      BY <2>3, <3>2, <3>3, NewTitleIsUnique DEF RInv
    <3>8. StatsOK'
      <4>1. \A i \in DOMAIN title' :
                TitleOK(title'[i].title) /\ title'[i].source \in Sources
        BY <1>1, <3>2, <3>3 DEF RInv, TypeOK, LocalOK
      <4> QED BY <3>2, <3>5, <4>1 DEF RInv, TypeOK, StatsOK
    <3>9. GeneratedAreDone' /\ SeenAreRows'
      BY <1>1, <2>1, <3>4, <3>5 DEF RInv, GeneratedAreDone, SeenAreRows, Requests
    <3>10. RacesWereLost(v)'
      BY <3>4 DEF RacesWereLost, Over, Allocated
    <3> QED BY <1>1, <2>1, <3>4, <3>6, <3>7, <3>8, <3>9, <3>10, FreshIsOK, StepRaces
  <2> QED BY <2>2, <2>3
<1> QED BY <1>2, <1>3

LEMMA ImageIsFinite ==
    ASSUME NEW S, IsFiniteSet(S), NEW f, DOMAIN f = S
    PROVE  IsFiniteSet({f[x] : x \in S})
<1> DEFINE T == {f[x] : x \in S}
           g == [x \in S |-> f[x]]
<1>1. g \in Surjection(S, T)
  BY DEF Surjection
<1> HIDE DEF g
<1> QED BY <1>1, FS_Surjection

\* What pass n was to give up for a row of its own.
OwnTitle(n, id) == {seen[n].title[i].title : i \in {id} \intersect DOMAIN seen[n].title}

\* Where the rows of pass n are, in the order it names them.
Places(n) == {k \in DOMAIN puzzles : puzzles[k] \in seen[n].rows}

\* A row gets no title that pass n has read or given to an earlier row, but for
\* its own.
LEMMA GivenAreFree ==
    ASSUME puzzles \in Seq(Row), NEW n, IsFiniteSet(seen[n].used),
           NEW given, GivesInOrder(n, given),
           NEW k \in Places(n)
    PROVE  /\ given[puzzles[k].id] \in seen[n].used =>
                  given[puzzles[k].id] \in OwnTitle(n, puzzles[k].id)
           /\ \A j \in Places(n) :
                  j < k /\ given[puzzles[j].id] = given[puzzles[k].id] =>
                      given[puzzles[k].id] \in OwnTitle(n, puzzles[k].id)
<1> DEFINE id == puzzles[k].id
           earlier == {j \in Places(n) : j < k}
           used == seen[n].used \union {given[puzzles[j].id] : j \in earlier}
           own == OwnTitle(n, id)
<1>1. IsFiniteSet(earlier)
  <2>1. Len(puzzles) \in Nat /\ DOMAIN puzzles = 1..Len(puzzles)
    OBVIOUS
  <2>2. earlier \subseteq 1..Len(puzzles) /\ IsFiniteSet(1..Len(puzzles))
    BY <2>1, FS_Interval DEF Places
  <2> QED BY <2>2, FS_Subset
<1>2. IsFiniteSet({given[puzzles[j].id] : j \in earlier})
  <2> DEFINE f == [j \in earlier |-> given[puzzles[j].id]]
  <2>1. IsFiniteSet({f[j] : j \in earlier})
    <3>1. DOMAIN f = earlier
      OBVIOUS
    <3> HIDE DEF f
    <3> QED BY <1>1, <3>1, ImageIsFinite
  <2>2. {f[j] : j \in earlier} = {given[puzzles[j].id] : j \in earlier}
    OBVIOUS
  <2> QED BY <2>1, <2>2
<1>3. IsFiniteSet(used \ own)
  <2>1. IsFiniteSet(used)
    <3> HIDE DEF earlier
    <3> QED BY <1>2, FS_Union
  <2> HIDE DEF used, own
  <2> QED BY <2>1, FS_Subset
<1>4. given[id] = Disambiguate(given[id].name, used \ own, MoveNumber(puzzles[k].ply))
  BY DEF GivesInOrder, Places, OwnTitle
<1>5. given[id] \notin used \ own
  <2> HIDE DEF used, own
  <2> QED BY <1>3, <1>4, DisambiguateIsFree
<1> QED BY <1>5

\* With the titles as they are, no title a pass gives is another row's.
LEMMA CurrentNamesAreFree ==
    ASSUME puzzles \in Seq(Row), TitlesAreUnique, NEW n,
           seen[n].rows \subseteq Rows, seen[n].title = title,
           seen[n].used = Taken, IsFiniteSet(Taken),
           NEW given, GivesInOrder(n, given),
           DOMAIN given = {row.id : row \in seen[n].rows}
    PROVE  /\ IsInjective(given)
           /\ \A i \in DOMAIN given : \A j \in DOMAIN title \ DOMAIN given :
                  given[i] # title[j].title
<1>1. ASSUME NEW i \in DOMAIN given PROVE \E k \in Places(n) : puzzles[k].id = i
  <2>1. PICK row \in seen[n].rows : row.id = i
    OBVIOUS
  <2>2. PICK k \in DOMAIN puzzles : puzzles[k] = row
    BY <2>1 DEF Rows, Range
  <2> QED BY <2>1, <2>2 DEF Places
<1>2. \A id, t : t \in OwnTitle(n, id) => id \in DOMAIN title /\ t = title[id].title
  BY DEF OwnTitle
<1>3. \A j \in DOMAIN title : title[j].title \in seen[n].used
  BY DEF Taken
\* A title that is taken is the row's own.
<1>4. ASSUME NEW i \in DOMAIN given, NEW j \in DOMAIN title, given[i] = title[j].title
      PROVE  i = j
  <2>1. PICK k \in Places(n) : puzzles[k].id = i
    BY <1>1
  <2>2. given[i] \in OwnTitle(n, i)
    BY <1>3, <1>4, <2>1, GivenAreFree
  <2> QED BY <1>2, <1>4, <2>2 DEF TitlesAreUnique
<1>5. ASSUME NEW i \in DOMAIN given, NEW j \in DOMAIN given, given[i] = given[j],
             NEW k \in Places(n), puzzles[k].id = i,
             NEW l \in Places(n), puzzles[l].id = j, k < l
      PROVE  i = j
  <2>1. given[j] \in OwnTitle(n, j)
    BY <1>5, GivenAreFree
  <2>2. j \in DOMAIN title /\ given[i] = title[j].title
    BY <1>2, <1>5, <2>1
  <2> QED BY <1>4, <2>2
<1>6. ASSUME NEW i \in DOMAIN given, NEW j \in DOMAIN given, given[i] = given[j]
      PROVE  i = j
  <2>1. PICK k \in Places(n) : puzzles[k].id = i
    BY <1>1
  <2>2. PICK l \in Places(n) : puzzles[l].id = j
    BY <1>1
  <2>3. k \in Int /\ l \in Int
    <3>1. DOMAIN puzzles = 1..Len(puzzles)
      OBVIOUS
    <3> QED BY <3>1 DEF Places
  <2>4. k < l \/ l < k \/ k = l
    BY <2>3
  <2> QED BY <1>5, <1>6, <2>1, <2>2, <2>4
<1>7. IsInjective(given)
  BY <1>6 DEF IsInjective
<1> QED BY <1>4, <1>7

\* The titles a pass may give are titles.
LEMMA GivenAreTitles ==
    ASSUME puzzles \in Seq(Row), NEW n, IsFiniteSet(seen[n].used),
           seen[n].rows \subseteq Rows, NEW t \in TitlesToGive(n)
    PROVE  TitleOK(t)
<1> DEFINE most == Cardinality(seen[n].used) + Cardinality(seen[n].rows) + 1
<1>1. most \in Nat
  <2>1. Len(puzzles) \in Nat /\ DOMAIN puzzles = 1..Len(puzzles)
    OBVIOUS
  <2>2. IsFiniteSet({puzzles[k] : k \in DOMAIN puzzles})
    <3>1. IsFiniteSet(DOMAIN puzzles)
      BY <2>1, FS_Interval
    <3> QED BY <3>1, ImageIsFinite
  <2>3. IsFiniteSet(seen[n].rows)
    BY <2>2, FS_Subset DEF Rows, Range
  <2>4. Cardinality(seen[n].used) \in Nat /\ Cardinality(seen[n].rows) \in Nat
    BY <2>3, FS_CardinalityType
  <2> QED BY <2>4
<1>2. \A row \in seen[n].rows : MoveNumber(row.ply) \in Nat
  <2>1. \A row \in Rows : row \in Row
    BY DEF Rows, Range
  <2>2. \A row \in seen[n].rows : row.ply \in Nat
    BY <2>1 DEF Row
  <2> QED BY <2>2 DEF MoveNumber
<1> DEFINE numbers == {0} \union 2..most
           moves == {MoveNumber(row.ply) : row \in seen[n].rows}
<1>3. t \in [name : Names, suffix : {""}, n : numbers]
               \union [name : Names, suffix : {"move"}, n : moves]
  BY DEF TitlesToGive
<1>4. \A i \in numbers \union moves : i \in Nat
  <2> HIDE DEF most
  <2> QED BY <1>1, <1>2
<1> HIDE DEF numbers, moves
<1> QED BY <1>3, <1>4 DEF TitleOK

LEMMA NamingRaces ==
    ASSUME IInv, IInv', RInv, NEW n \in Namers,
           ReadRows(n) \/ ReadTitles(n) \/ CommitNames(n)
    PROVE  RInv'
<1>1. /\ n \in Requests /\ Shape /\ n \notin Savers \union Generators
      /\ n \notin Reviewers /\ puzzles \in Seq(Row)
      /\ RacesWereLost(n) /\ LocalOK(local[n]) /\ Lost(n) \in Nat
      /\ local[n].attempt \in Nat /\ local[n].retry \in Nat
      /\ Rounds(n) = local[n].attempt + local[n].retry /\ Patience(n) = 1
      /\ seen[n].rows \subseteq Rows /\ IsFiniteSet(seen[n].used)
  <2>1. n \in Requests
    BY DEF Requests
  <2>2. LocalOK(local[n]) /\ local[n].attempt \in Nat /\ local[n].retry \in Nat
    BY <2>1 DEF RInv, TypeOK, LocalOK
  <2>3. Lost(n) \in Nat
    BY LargerSets DEF Lost, Rivals, Requests
  <2> QED
    BY <2>1, <2>2, <2>3, RequestsAssumption, PatienceIs
    DEF IInv, Shape, RInv, SeenAreRows, Rounds
\* A pass that only reads.
<1>2. ASSUME UNCHANGED <<wanted, dbVars, local, answers>>, pc[n] \notin Over,
             NEW step \in {"titling", "inserting"}, Goto(n, step),
             NEW rows \in SUBSET Rows, NEW old, NEW used, IsFiniteSet(used),
             \A m \in Namers \ {n} : seen'[m] = seen[m],
             seen'[n].rows = rows, seen'[n].title = old, seen'[n].used = used,
             Lost(n) = 0 => old = title /\ (step = "inserting" => used = Taken)
      PROVE  RInv'
  <2>2. /\ pc' \in [Requests -> Steps] /\ pc'[n] = step
        /\ \A q \in Requests \ {n} : pc'[q] = pc[q]
        /\ LocalMoves(n) /\ local'[n] = local[n]
    BY <1>1, <1>2, GotoMoves, LocalStays DEF Steps
  <2>3. Rows' = Rows /\ title' = title /\ Taken' = Taken
    BY <1>2 DEF dbVars, Rows, Taken
  <2>4. OwnStep(n)
    BY <1>2, <2>2, <2>3 DEF OwnStep
  <2>5. Lost(n)' = Lost(n) /\ Rounds(n)' = Rounds(n)
    BY <1>1, <1>2, <2>2, <2>4, RivalsGrow DEF dbVars, Rounds
  <2>6. RacesWereLost(n)'
    BY <1>1, <1>2, <2>2, <2>3, <2>5 DEF RacesWereLost, Over
  <2>7. StatsOK' /\ TitlesAreUnique'
    BY <2>3 DEF RInv, TypeOK, StatsOK, TitlesAreUnique
  <2>8. GeneratedAreDone' /\ SeenAreRows'
    BY <1>1, <1>2, <2>2, <2>3 DEF RInv, GeneratedAreDone, SeenAreRows, Requests
  <2> QED BY <1>1, <1>2, <2>2, <2>4, <2>6, <2>7, <2>8, StepRaces
<1>3. CASE ReadRows(n)
  <2> DEFINE rows == {row \in Rows : Nameable(row)}
  <2>1. /\ pc[n] = "arriving" /\ Goto(n, "titling")
        /\ seen' = [seen EXCEPT ![n].rows = rows, ![n].title = title]
        /\ UNCHANGED <<wanted, dbVars, local, answers>>
    BY <1>3 DEF ReadRows
  <2>2. rows \subseteq Rows
    OBVIOUS
  <2> HIDE DEF rows
  <2>3. /\ \A m \in Namers \ {n} : seen'[m] = seen[m]
        /\ seen'[n].rows = rows /\ seen'[n].title = title
        /\ seen'[n].used = seen[n].used
    BY <1>1, <2>1 DEF Shape
  <2> QED BY <1>1, <1>2, <2>1, <2>2, <2>3 DEF Over
<1>4. CASE ReadTitles(n)
  <2>1. /\ pc[n] = "titling" /\ Goto(n, "inserting")
        /\ seen' = [seen EXCEPT ![n].used = Taken]
        /\ UNCHANGED <<wanted, dbVars, local, answers>>
    BY <1>4 DEF ReadTitles
  <2>2. /\ \A m \in Namers \ {n} : seen'[m] = seen[m]
        /\ seen'[n].rows = seen[n].rows /\ seen'[n].title = seen[n].title
        /\ seen'[n].used = Taken
    BY <1>1, <2>1 DEF Shape
  <2>3. Lost(n) = 0 => seen[n].title = title
    BY <1>1, <2>1 DEF RacesWereLost
  <2> QED BY <1>1, <1>2, <2>1, <2>2, <2>3, TakenIsFinite DEF Over
<1>5. CASE CommitNames(n)
  <2> DEFINE ids == {row.id : row \in seen[n].rows}
             missing == ids \ DOMAIN seen[n].title
             others == {title[i].title : i \in DOMAIN title \ ids}
  <2>1. PICK given \in [ids -> TitlesToGive(n)] :
            /\ GivesInOrder(n, given)
            /\ IF \/ \E i \in ids : given[i] \in others
                  \/ ~IsInjective(given)
                  \/ missing \intersect DOMAIN title # {}
               THEN End(n, "failed") /\ UNCHANGED title
               ELSE End(n, "done") /\ WriteTitles(ids, given, "ai")
    BY <1>5 DEF CommitNames
  <2>2. /\ pc[n] = "inserting" /\ UNCHANGED <<wanted, puzzles, answers>>
        /\ seen' = [seen EXCEPT ![n] = Nothing]
    BY <1>5 DEF CommitNames
  <2>3. /\ seen'[n] = Nothing /\ \A m \in Namers \ {n} : seen'[m] = seen[m]
    BY <1>1, <2>2 DEF Shape
  <2>4. Rows' = Rows
    BY <2>2 DEF Rows
  <2>5. SeenAreRows'
    <3>1. Nothing.rows = {} /\ IsFiniteSet(Nothing.used)
      BY FS_EmptySet DEF Nothing
    <3> QED BY <2>3, <2>4, <3>1 DEF RInv, SeenAreRows
  <2>6. ASSUME NEW outcome \in Over, End(n, outcome)
        PROVE  /\ OwnStep(n) /\ pc'[n] = outcome /\ LocalOK(local'[n])
               /\ GeneratedAreDone'
    <3>1. /\ pc' \in [Requests -> Steps] /\ pc'[n] = outcome
          /\ \A q \in Requests \ {n} : pc'[q] = pc[q]
          /\ LocalMoves(n) /\ local'[n] = Fresh
      BY <1>1, <2>6, EndMoves DEF Over, Steps, End, Shape
    <3>2. OwnStep(n)
      BY <2>2, <2>3, <2>4, <3>1 DEF OwnStep, Over
    <3>3. GeneratedAreDone'
      BY <1>1, <2>4, <3>1 DEF RInv, GeneratedAreDone, Requests
    <3> QED BY <3>1, <3>2, <3>3, FreshIsOK
  <2>7. CASE \/ \E i \in ids : given[i] \in others
             \/ ~IsInjective(given)
             \/ missing \intersect DOMAIN title # {}
    <3>1. End(n, "failed") /\ UNCHANGED title
      BY <2>1, <2>7
    <3>2. Lost(n) # 0
      <4> SUFFICES ASSUME Lost(n) = 0 PROVE FALSE
        OBVIOUS
      <4>1. seen[n].title = title /\ seen[n].used = Taken
        BY <1>1, <2>2 DEF RacesWereLost
      <4>2. DOMAIN given = ids
        OBVIOUS
      <4>3. /\ IsInjective(given)
            /\ \A i \in ids : \A j \in DOMAIN title \ ids : given[i] # title[j].title
        BY <1>1, <2>1, <4>1, <4>2, CurrentNamesAreFree DEF RInv
      <4>4. missing \intersect DOMAIN title = {}
        BY <4>1
      <4> QED BY <2>7, <4>3, <4>4
    <3>3. OwnStep(n) /\ pc'[n] = "failed" /\ LocalOK(local'[n]) /\ GeneratedAreDone'
      BY <2>6, <3>1 DEF Over
    <3>4. StatsOK' /\ TitlesAreUnique'
      BY <2>4, <3>1 DEF RInv, TypeOK, StatsOK, TitlesAreUnique
    <3>5. Lost(n)' = Lost(n) /\ Patience(n)' = 1
      BY <1>1, <2>2, <3>3, RivalsGrow DEF Patience
    <3>6. RacesWereLost(n)'
      BY <1>1, <3>2, <3>3, <3>5 DEF RacesWereLost, Over, Allocated
    <3>7. UNCHANGED dbVars
      BY <2>2, <3>1 DEF dbVars
    <3> QED BY <1>1, <2>2, <2>5, <3>3, <3>4, <3>6, <3>7, StepRaces
  <2>8. CASE ~(\/ \E i \in ids : given[i] \in others
               \/ ~IsInjective(given)
               \/ missing \intersect DOMAIN title # {})
    <3>1. End(n, "done") /\ WriteTitles(ids, given, "ai")
      BY <2>1, <2>8
    <3>2. /\ DOMAIN title' = DOMAIN title \union ids
          /\ \A i \in ids : title'[i] = [title |-> given[i], source |-> "ai"]
          /\ \A i \in DOMAIN title \ ids : title'[i] = title[i]
      BY <3>1 DEF WriteTitles
    <3>3. OwnStep(n) /\ pc'[n] = "done" /\ LocalOK(local'[n]) /\ GeneratedAreDone'
      BY <2>6, <3>1 DEF Over
    <3>4. Commits(n)
      BY <1>1, <3>3 DEF Commits
    <3>5. \A i \in ids : TitleOK(given[i])
      BY <1>1, GivenAreTitles
    <3>6. StatsOK'
      <4>1. ids \subseteq {row.id : row \in Rows}
        BY <1>1
      <4>2. \A i \in DOMAIN title' :
                TitleOK(title'[i].title) /\ title'[i].source \in Sources
        <5> HIDE DEF ids
        <5> QED BY <3>2, <3>5 DEF RInv, TypeOK, Sources
      <4> HIDE DEF ids
      <4> QED BY <2>4, <3>2, <4>1, <4>2 DEF RInv, TypeOK, StatsOK
    <3>7. TitlesAreUnique'
      <4> SUFFICES ASSUME NEW i \in DOMAIN title', NEW j \in DOMAIN title',
                          title'[i].title = title'[j].title
                   PROVE  i = j
        BY DEF TitlesAreUnique
      <4>1. DOMAIN given = ids /\ \A k, l \in ids : given[k] = given[l] => k = l
        BY <2>8 DEF IsInjective
      <4>2. \A k \in ids : \A l \in DOMAIN title \ ids : given[k] # title[l].title
        BY <2>8
      <4> HIDE DEF ids
      <4>3. \A k \in ids : title'[k].title = given[k]
        BY <3>2
      <4> QED BY <3>2, <4>1, <4>2, <4>3 DEF RInv, TitlesAreUnique
    <3>8. RacesWereLost(n)'
      BY <3>3 DEF RacesWereLost, Over, Allocated
    <3> QED BY <1>1, <2>2, <2>5, <3>3, <3>4, <3>6, <3>7, <3>8, StepRaces
  <2> QED BY <2>7, <2>8
<1> QED BY <1>3, <1>4, <1>5

LEMMA InitRaces == Init => RInv
<1> SUFFICES ASSUME Init PROVE RInv
  OBVIOUS
<1> DEFINE old == [id |-> Legacy, game |-> "old", ply |-> 0, position |-> NoPosition]
<1>1. Rows = {old} /\ DOMAIN title = {}
  <2>1. DOMAIN puzzles = {1} /\ puzzles[1] = old
    BY DEF Init
  <2> QED BY <2>1 DEF Init, Rows, Range
<1>2. /\ \A r \in Requests : local[r] = Fresh /\ pc[r] \in {"saving", "arriving"}
      /\ pc \in [Requests -> Steps] /\ wanted \in [Savers -> Positions]
      /\ \A r \in Savers \union Namers : pc[r] = "arriving"
      /\ answers = {}
  BY RequestsAssumption DEF Init, Steps, Requests
<1>3. LocalOK(Fresh) /\ Fresh.attempt = 0 /\ Fresh.retry = 0
  BY FreshIsOK DEF Fresh
<1>4. TypeOK
  BY <1>1, <1>2, <1>3 DEF TypeOK, LocalOK
<1>5. \E row \in Rows : row.id = Legacy
  BY <1>1
<1>6. TitlesAreUnique
  BY <1>1 DEF TitlesAreUnique
<1>7. GeneratedAreDone
  BY <1>1, LegacyAssumption DEF GeneratedAreDone
<1>8. SeenAreRows
  BY FS_EmptySet DEF Init, SeenAreRows, Nothing
<1>9. ASSUME NEW r \in Requests PROVE RacesWereLost(r)
  <2>1. Lost(r) \in Nat
    BY LargerSets DEF Lost, Rivals, Requests
  <2>2. Rounds(r) = 0 /\ (r \in Savers \union Namers => pc[r] = "arriving")
    BY <1>2, <1>3 DEF Rounds
  <2> QED BY <1>2, <2>1, <2>2 DEF RacesWereLost, Over, Allocated
<1> QED BY <1>4, <1>5, <1>6, <1>7, <1>8, <1>9 DEF RInv

LEMMA StutterRaces == RInv /\ UNCHANGED vars => RInv'
<1> SUFFICES ASSUME RInv, UNCHANGED vars PROVE RInv'
  OBVIOUS
<1>1. Rows' = Rows /\ Taken' = Taken /\ ManualRows' = ManualRows
  BY DEF vars, dbVars, Rows, Taken, ManualRows
<1>2. TypeOK' /\ TitlesAreUnique' /\ GeneratedAreDone' /\ SeenAreRows'
  BY <1>1 DEF vars, dbVars, RInv, TypeOK, TitlesAreUnique, GeneratedAreDone, SeenAreRows
<1>3. ASSUME NEW r \in Requests PROVE RacesWereLost(r)'
  <2>1. AtSlot(r)' = AtSlot(r) /\ AtPosition(r)' = AtPosition(r)
    BY <1>1 DEF vars, AtSlot, AtPosition, Game
  <2>2. Lost(r)' = Lost(r) /\ Rounds(r)' = Rounds(r) /\ Patience(r)' = Patience(r)
    BY <1>1 DEF vars, Lost, Rivals, Rounds, Patience
  <2>3. RacesWereLost(r)
    BY DEF RInv
  <2> QED BY <1>1, <2>1, <2>2, <2>3 DEF vars, dbVars, RacesWereLost
<1> QED BY <1>1, <1>2, <1>3 DEF RInv

LEMMA RacesInvariance == Spec => []RInv
<1>1. ASSUME IInv, IInv', RInv, [Next]_vars PROVE RInv'
  <2> USE <1>1
  <2>1. ASSUME NEW r \in Savers \union Generators, SaveStep(r) PROVE RInv'
    BY <2>1, SaveStepRaces, InsertRaces DEF SaveStep
  <2>2. ASSUME NEW v \in Reviewers, PickReviewTitle(v) \/ InsertReviewStats(v)
        PROVE  RInv'
    BY <2>2, ReviewRaces
  <2>3. ASSUME NEW n \in Namers, ReadRows(n) \/ ReadTitles(n) \/ CommitNames(n)
        PROVE  RInv'
    BY <2>3, NamingRaces
  <2>4. CASE UNCHANGED vars
    BY <2>4, StutterRaces
  <2> QED BY <2>1, <2>2, <2>3, <2>4 DEF Next
<1> QED BY InitRaces, Invariance, <1>1, PTL DEF Spec

-----------------------------------------------------------------------------
(* The book of positions *)

TheBook == {[position |-> row.position, puzzle |-> row.id] : row \in ManualRows}

BookVars == <<wanted, TheBook, answers>>

LEMMA RunningIsUnanswered ==
    ASSUME IInv, NEW r \in Savers, pc[r] \notin Over
    PROVE  Book!Unanswered(r)
BY DEF IInv, AnsweredAreOver, Book!Unanswered

LEMMA BookStays == UNCHANGED puzzles => TheBook' = TheBook
BY DEF TheBook, ManualRows, Rows

\* An answer that names a row of the position finds the position's puzzle.
LEMMA AnswerFinds ==
    ASSUME IInv, NEW r \in Savers, pc[r] \notin Over, UNCHANGED <<wanted, dbVars>>,
           NEW row \in ManualRows, row.position = wanted[r],
           Answer(r, row.id, FALSE)
    PROVE  Book!Find(r)
<1> DEFINE e == [position |-> row.position, puzzle |-> row.id]
<1>1. e \in TheBook /\ e.position = wanted[r] /\ e.puzzle = row.id
  BY DEF TheBook
<1>2. answers' = answers \union
          {[request |-> r, puzzle |-> e.puzzle, is_new |-> FALSE]}
  BY DEF Answer, Reply
<1>3. UNCHANGED <<wanted, TheBook>>
  BY BookStays DEF dbVars
<1> HIDE DEF e
<1> QED BY <1>1, <1>2, <1>3, RunningIsUnanswered DEF Book!Find, TheBook

\* Another attempt is no step of the book; the end of the last one refuses.
LEMMA NextAttemptRefuses ==
    ASSUME IInv, NEW r \in Savers, pc[r] \notin Over, UNCHANGED <<wanted, dbVars>>,
           NextAttempt(r)
    PROVE  Book!Refuse(r) \/ UNCHANGED BookVars
<1>1. UNCHANGED <<wanted, TheBook>>
  BY BookStays DEF dbVars
<1>2. \/ UNCHANGED answers
      \/ answers' = answers \union {Book!Refusal(r)}
  BY DEF NextAttempt, Reply, Book!Refusal
<1> QED BY <1>1, <1>2, RunningIsUnanswered DEF Book!Refuse, BookVars, TheBook

\* The step of the book a save takes, if any.
BookStep(r) ==
    \/ r \in Savers /\ (Book!Enter(r, r) \/ Book!Find(r) \/ Book!Refuse(r))
    \/ UNCHANGED BookVars

LEMMA ResolveTakenSteps ==
    ASSUME IInv, NEW r \in Savers \union Generators, pc[r] \notin Over,
           UNCHANGED <<wanted, dbVars>>, NEW row \in AtSlot(r), ResolveTaken(r, row)
    PROVE  BookStep(r)
<1>1. CASE r \in Savers /\ row.position = wanted[r]
  <2>1. row \in ManualRows
    BY <1>1 DEF AtSlot, Game, ManualRows
  <2> QED BY <1>1, <2>1, AnswerFinds DEF ResolveTaken, BookStep
<1>2. CASE r \in Savers /\ row.position # wanted[r]
  BY <1>2, NextAttemptRefuses DEF ResolveTaken, BookStep
<1>3. CASE r \notin Savers
  <2>1. UNCHANGED <<wanted, answers, TheBook>>
    BY <1>3, BookStays DEF ResolveTaken, dbVars
  <2> QED BY <2>1 DEF BookStep, BookVars
<1> QED BY <1>1, <1>2, <1>3

LEMMA InsertEnters ==
    ASSUME IInv, NEW r \in Savers \union Generators, Insert(r)
    PROVE  BookStep(r)
<1> DEFINE row == [id |-> r, game |-> Game(r), ply |-> local[r].ply,
                   position |-> IF r \in Savers THEN wanted[r] ELSE NoPosition]
           entry == [position |-> wanted[r], puzzle |-> r]
<1>1. /\ Rows' = Rows \union {row} /\ wanted' = wanted /\ pc[r] = "inserting"
      /\ r \in Savers => AtPosition(r) = {}
      /\ IF r \in Savers
         THEN answers' = answers \union
                  {[request |-> r, puzzle |-> r, is_new |-> TRUE]}
         ELSE answers' = answers
  BY InsertFacts
<1>2. row.game = Game(r) /\ row.id = r
  OBVIOUS
<1>3. CASE r \in Savers
  <2>1. row.position = wanted[r] /\ row.game = "manual"
    BY <1>3 DEF Game
  <2> HIDE DEF row
  <2>2. ManualRows' = ManualRows \union {row}
    BY <1>1, <2>1 DEF ManualRows
  <2>3. TheBook' = TheBook \union {entry}
    BY <1>2, <2>1, <2>2 DEF TheBook
  <2>4. ASSUME NEW e \in TheBook PROVE e.position # wanted[r] /\ e.puzzle # r
    <3>1. PICK old \in ManualRows : e = [position |-> old.position, puzzle |-> old.id]
      BY <2>4 DEF TheBook
    <3>2. old.position # wanted[r]
      BY <1>1, <1>3, <3>1 DEF AtPosition
    <3>3. old.id # r
      BY <1>1, <1>3, <3>1 DEF IInv, ManualRowsAreDone, ManualRows
    <3> QED BY <3>1, <3>2, <3>3
  <2>5. Book!Unanswered(r)
    BY <1>1, <1>3, RunningIsUnanswered DEF Over
  <2>6. Book!Enter(r, r)
    <3> HIDE DEF entry
    <3> QED BY <1>1, <1>3, <2>3, <2>4, <2>5 DEF Book!Enter, TheBook, entry
  <2> QED BY <1>3, <2>6 DEF BookStep
<1>4. CASE r \notin Savers
  <2>1. row.game # "manual"
    BY <1>4 DEF Game
  <2> HIDE DEF row
  <2>2. ManualRows' = ManualRows
    BY <1>1, <2>1 DEF ManualRows
  <2>3. TheBook' = TheBook
    BY <2>2 DEF TheBook
  <2> QED BY <1>1, <1>4, <2>3 DEF BookStep, BookVars
<1> QED BY <1>3, <1>4

\* Every step of a save is a step of the book, or none.
LEMMA SaveStepSteps ==
    ASSUME IInv, NEW r \in Savers \union Generators, SaveStep(r)
    PROVE  BookStep(r)
<1> USE DEF Over
<1>1. CASE Insert(r)
  BY <1>1, InsertEnters
<1>2. ASSUME UNCHANGED <<wanted, dbVars, answers>> PROVE BookStep(r)
  BY <1>2, BookStays DEF dbVars, BookStep, BookVars
<1>3. CASE AllocatePly(r) \/ PickTitle(r) \/ InsertFails(r)
  BY <1>2, <1>3 DEF AllocatePly, PickTitle, InsertFails
<1>4. ASSUME r \in Savers, pc[r] \notin Over, UNCHANGED <<wanted, dbVars>>,
             NEW row \in AtPosition(r), Answer(r, row.id, FALSE)
      PROVE  BookStep(r)
  <2>1. row \in ManualRows /\ row.position = wanted[r]
    BY <1>4 DEF AtPosition
  <2> QED BY <1>4, <2>1, AnswerFinds DEF BookStep
<1>5. CASE LookUpPosition(r)
  <2>1. r \in Savers /\ pc[r] = "arriving" /\ UNCHANGED <<wanted, dbVars>>
    BY <1>5 DEF LookUpPosition
  <2>2. CASE AtPosition(r) = {}
    BY <1>2, <1>5, <2>1, <2>2 DEF LookUpPosition
  <2>3. CASE AtPosition(r) # {}
    BY <1>4, <1>5, <2>1, <2>3 DEF LookUpPosition
  <2> QED BY <2>2, <2>3
<1>6. CASE AbsorbConflict(r)
  <2>1. pc[r] = "absorbing" /\ UNCHANGED <<wanted, dbVars>>
    BY <1>6 DEF AbsorbConflict
  <2>2. r \in Savers
    BY <2>1 DEF IInv, GeneratorsOnlySave, Asking
  <2>3. CASE AtPosition(r) = {}
    BY <1>6, <2>1, <2>2, <2>3, NextAttemptRefuses DEF AbsorbConflict, BookStep
  <2>4. CASE AtPosition(r) # {}
    BY <1>4, <1>6, <2>1, <2>2, <2>4 DEF AbsorbConflict
  <2> QED BY <2>3, <2>4
<1>7. CASE LookUpPly(r)
  <2>1. pc[r] = "saving" /\ UNCHANGED <<wanted, dbVars>>
    BY <1>7 DEF LookUpPly
  <2>2. CASE AtSlot(r) = {}
    BY <1>2, <1>7, <2>1, <2>2 DEF LookUpPly
  <2>3. CASE AtSlot(r) # {}
    BY <1>7, <2>1, <2>3, ResolveTakenSteps DEF LookUpPly
  <2> QED BY <2>2, <2>3
<1>8. CASE Recover(r)
  <2>1. pc[r] \in {"duplicate", "renaming"} /\ UNCHANGED <<wanted, dbVars>>
    BY <1>8 DEF Recover
  <2>2. CASE AtSlot(r) # {}
    BY <1>8, <2>1, <2>2, ResolveTakenSteps DEF Recover
  <2>3. CASE AtSlot(r) = {}
    <3>1. UNCHANGED answers
      BY <1>8, <2>3 DEF Recover, Raise
    <3> QED BY <1>2, <2>1, <3>1
  <2> QED BY <2>2, <2>3
<1> QED BY <1>1, <1>3, <1>5, <1>6, <1>7, <1>8 DEF SaveStep

-----------------------------------------------------------------------------
(* What is proved *)

\* The plies of the synthetic game are 0, 1, 2, ... without gaps, for any
\* number of saves that race: the unique index turns a stale ply into a retry.
THEOREM PliesStayASequence == Spec => []PliesAreASequence
<1>1. IInv => PliesAreASequence
  BY DEF IInv
<1> QED BY Invariance, <1>1, PTL

\* A puzzle saved by hand shows the name its user typed, whatever it collides
\* with and whoever names or reviews puzzles since.
THEOREM TypedNamesStay == Spec => []TypedNamesAreShown
<1>1. IInv => TypedNamesAreShown
  BY DEF IInv
<1> QED BY Invariance, <1>1, PTL

\* The variables have their types, the titles a naming pass gives included.
THEOREM TypeCorrect == Spec => []TypeOK
<1>1. RInv => TypeOK
  BY DEF RInv
<1> QED BY RacesInvariance, <1>1, PTL

\* A save is refused, a generated puzzle dropped, a review or a naming pass
\* rolled back only after losing as many races as its loops have rounds, for
\* any bounds of the loops and any number of requests.
THEOREM FailuresTakeRivals == Spec => []FailuresNeedRivals
<1>1. RInv => FailuresNeedRivals
  BY DEF RInv, RacesWereLost, Lost, FailuresNeedRivals
<1> QED BY RacesInvariance, <1>1, PTL

\* Manual saving implements PuzzleBook: plies, titles, retries and absorbed
\* conflicts are invisible to who saves a position.
THEOREM ImplementsTheBook == Spec => KeepsTheBook
<1>1. Init => Book!Init
  <2> SUFFICES ASSUME Init PROVE Book!Init
    OBVIOUS
  <2>1. ManualRows = {}
    BY DEF Init, ManualRows, Rows, Range
  <2>2. TheBook = {}
    BY <2>1 DEF TheBook
  <2> QED BY <2>2 DEF Init, Book!Init, TheBook
<1>2. ASSUME IInv, [Next]_vars PROVE [Book!Next]_(Book!bookVars)
  <2> USE <1>2
  <2>1. UNCHANGED BookVars => UNCHANGED Book!bookVars
    BY DEF BookVars, Book!bookVars, TheBook
  <2>2. ASSUME NEW r \in Savers \union Generators, SaveStep(r)
        PROVE  Book!Next \/ UNCHANGED BookVars
    BY <2>2, SaveStepSteps DEF BookStep, Book!Next
  <2>3. ASSUME UNCHANGED <<wanted, puzzles, answers>> PROVE UNCHANGED BookVars
    BY <2>3, BookStays DEF BookVars
  <2>4. ASSUME NEW v \in Reviewers, PickReviewTitle(v) \/ InsertReviewStats(v)
        PROVE  UNCHANGED BookVars
    BY <2>3, <2>4 DEF PickReviewTitle, InsertReviewStats, dbVars
  <2>5. ASSUME NEW n \in Namers, ReadRows(n) \/ ReadTitles(n) \/ CommitNames(n)
        PROVE  UNCHANGED BookVars
    BY <2>3, <2>5 DEF ReadRows, ReadTitles, CommitNames, dbVars
  <2>6. CASE UNCHANGED vars
    BY <2>1, <2>3, <2>6 DEF vars, dbVars
  <2> QED BY <2>1, <2>2, <2>4, <2>5, <2>6 DEF Next
<1> QED BY Invariance, <1>1, <1>2, PTL DEF Spec, KeepsTheBook, Book!Spec

=============================================================================
