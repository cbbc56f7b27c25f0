---------------------------- MODULE PuzzleSaving ----------------------------
(***************************************************************************)
(* How puzzles of one user get their place in the library: manual saves    *)
(* (POST /puzzles/manual), the saves of puzzle generation, first reviews   *)
(* of puzzles that have no stats row yet, and the AI naming pass.          *)
(*                                                                         *)
(* Each query is an action of its own and each INSERT with its COMMIT is   *)
(* one: the three unique indexes decide at that point.  Manual puzzles     *)
(* share a synthetic game whose ply is a sequence number that a save       *)
(* computes before the transaction that uses it; titles are looked up      *)
(* before they are taken.                                                  *)
(***************************************************************************)
EXTENDS Integers, FiniteSets, SequencesExt

CONSTANTS
    Savers,          \* POST /puzzles/manual requests
    Generators,      \* save_puzzle calls for one (game, ply) of a real game
    Reviewers,       \* first reviews of the puzzle that lacks a stats row
    Namers,          \* naming passes, one at a time: an active job per type
    Positions,       \* normalized positions
    Names,           \* names before disambiguation
    NameOf,          \* NameOf[r]: what r calls its puzzle: typed by the user,
                     \* composed from the position, or after its motif
    MaxAttempts,     \* max_attempts of create_manual_puzzle
    TitleAttempts    \* TITLE_ATTEMPTS of save_puzzle

ASSUME PuzzleSavingAssumption ==
    /\ MaxAttempts \in Nat \ {0}
    /\ TitleAttempts \in Nat \ {0}
    /\ Names # {}
    /\ NameOf \in [Savers \union Generators \union Reviewers -> Names]

\* Finitely many requests, each of one kind.
ASSUME RequestsAssumption ==
    /\ IsFiniteSet(Savers) /\ IsFiniteSet(Generators)
    /\ IsFiniteSet(Reviewers) /\ IsFiniteSet(Namers)
    /\ Savers \intersect (Generators \union Reviewers \union Namers) = {}
    /\ Generators \intersect (Reviewers \union Namers) = {}
    /\ Reviewers \intersect Namers = {}

Requests == Savers \union Generators \union Reviewers \union Namers

NoPosition == "none"
Legacy == "legacy"             \* id of the puzzle without a stats row

ASSUME LegacyAssumption == Legacy \notin Savers \union Generators

VARIABLES
    wanted,          \* wanted[r]: the position manual save r stores
    puzzles,         \* the user's puzzles rows, in order of created_at
    title,           \* title[i]: puzzle_stats.title of puzzle i, by id
    pc,              \* pc[r]: where request r is
    local,           \* local[r]: the variables of request r in progress:
                     \*   attempt   of create_manual_puzzle's loop
                     \*   retry     of save_puzzle's title loop
                     \*   ply       it will insert
                     \*   free      title that unique_title found free
    seen,            \* seen[n]: what naming pass n read
    answers          \* set of [request, puzzle, is_new] sent to manual saves

dbVars == <<puzzles, title>>
vars == <<wanted, dbVars, pc, local, seen, answers>>

-----------------------------------------------------------------------------
(* Titles *)

\* A name, and the suffix that keeps it apart: none, ", move m" or " (n)".
Title(name, suffix, n) == [name |-> name, suffix |-> suffix, n |-> n]

\* The numbered titles of a name that are not used, up to a number that is
\* high enough for one of them to be free.
FreeNumbered(name, used) ==
    {Title(name, "", n) : n \in 2..(Cardinality(used) + 2)} \ used

\* The name itself, else with its move number, else with the first free number.
Disambiguate(name, used, move) ==
    LET bare == Title(name, "", 0)
        moved == Title(name, "move", move)
        free == FreeNumbered(name, used)
    IN  IF bare \notin used THEN bare
        ELSE IF moved \notin used THEN moved
        ELSE CHOOSE t \in free : \A u \in free : t.n <= u.n

\* Every title the library shows.
Taken == {title[i].title : i \in DOMAIN title}

MoveNumber(p) == p \div 2 + 1

-----------------------------------------------------------------------------
(* The puzzles table and its unique indexes *)

Rows == Range(puzzles)

ManualRows == {row \in Rows : row.game = "manual"}

Game(r) == IF r \in Savers THEN "manual" ELSE "imported"

\* Rows under the key (username, source_game_id, ply) of request r.
AtSlot(r) == {row \in Rows : row.game = Game(r) /\ row.ply = local[r].ply}

\* Manual rows of the position r saves.
AtPosition(r) == {row \in ManualRows : row.position = wanted[r]}

\* Mutant of NextManualPly: the filter on the synthetic game is missing.
NextPlyOfAnyGame ==
    IF Rows = {} THEN 0
    ELSE 1 + (CHOOSE p \in {row.ply : row \in Rows} :
                  \A row \in Rows : row.ply <= p)

\* max(ply) + 1 over the manual rows, or 0.
NextManualPly ==
    IF ManualRows = {} THEN 0
    ELSE 1 + (CHOOSE p \in {row.ply : row \in ManualRows} :
                  \A row \in ManualRows : row.ply <= p)

\* The index that would reject what r is about to insert: the puzzles row
\* goes first, then the stats row with the title.
Violation(r) ==
    IF AtSlot(r) # {} \/ (r \in Savers /\ AtPosition(r) # {}) THEN "puzzle"
    ELSE IF local[r].free \in Taken THEN "title" ELSE "none"

-----------------------------------------------------------------------------
(* States *)

Sources == {"user", "position", "ai", "motif"}

\* What a naming pass has read before it starts.
Nothing == [rows |-> {}, title |-> <<>>, used |-> {}]

TitleOK(t) == t.name \in Names /\ t.suffix \in {"", "move"} /\ t.n \in Nat

Steps == {"arriving", "allocating", "saving", "titling", "inserting",
          "duplicate", "renaming", "absorbing", "done", "found", "failed"}

TypeOK ==
    /\ wanted \in [Savers -> Positions]
    /\ \A row \in Rows :
        /\ row.id \in Savers \union Generators \union {Legacy}
        /\ row.game \in {"manual", "imported", "old"}
        /\ row.ply \in Nat
        /\ row.position \in Positions \union {NoPosition}
    /\ DOMAIN title \subseteq {row.id : row \in Rows}
    /\ {row.id : row \in Rows} \subseteq DOMAIN title \union {Legacy}
    /\ \A i \in DOMAIN title :
        TitleOK(title[i].title) /\ title[i].source \in Sources
    /\ pc \in [Requests -> Steps]
    /\ \A r \in Requests :
        /\ local[r].attempt \in 0..(MaxAttempts - 1)
        /\ local[r].retry \in 0..(TitleAttempts - 1)
        /\ local[r].ply \in Nat
        /\ TitleOK(local[r].free)
    /\ answers \subseteq
        [request : Savers, puzzle : Savers \union {"none"}, is_new : BOOLEAN]

Fresh == [attempt |-> 0, retry |-> 0, ply |-> 0,
          free |-> Title(CHOOSE name \in Names : TRUE, "", 0)]

Init ==
    /\ wanted \in [Savers -> Positions]
    /\ puzzles = <<[id |-> Legacy, game |-> "old", ply |-> 0,
                    position |-> NoPosition]>>
    /\ title = <<>>
    /\ pc = [r \in Requests |-> IF r \in Generators THEN "saving" ELSE "arriving"]
    /\ local = [r \in Requests |-> Fresh]
    /\ seen = [n \in Namers |-> Nothing]
    /\ answers = {}

\* The stats rows of ids get these titles.
WriteTitles(ids, given, source) ==
    title' = [i \in DOMAIN title \union ids |->
                 IF i \in ids THEN [title |-> given[i], source |-> source]
                 ELSE title[i]]

Goto(r, step) == pc' = [pc EXCEPT ![r] = step]

\* Request r is over and its variables are gone.
End(r, outcome) == Goto(r, outcome) /\ local' = [local EXCEPT ![r] = Fresh]

-----------------------------------------------------------------------------
(* create_manual_puzzle *)

Reply(r, puzzle, is_new) ==
    answers' = answers \union
        {[request |-> r, puzzle |-> puzzle, is_new |-> is_new]}

Answer(r, puzzle, is_new) == Reply(r, puzzle, is_new) /\ End(r, "done")

\* The next round of the loop, or a 409 after max_attempts of them.
NextAttempt(r) ==
    IF local[r].attempt + 1 < MaxAttempts
    THEN /\ local' = [local EXCEPT ![r] =
                          [Fresh EXCEPT !.attempt = local[r].attempt + 1]]
         /\ Goto(r, "arriving")
         /\ UNCHANGED answers
    ELSE Reply(r, "none", FALSE) /\ End(r, "failed")

\* The first query of a round: the position may be there already.
LookUpPosition(r) ==
    /\ r \in Savers
    /\ pc[r] = "arriving"
    /\ IF AtPosition(r) = {}
       THEN Goto(r, "allocating") /\ UNCHANGED <<answers, local>>
       ELSE \E row \in AtPosition(r) : Answer(r, row.id, FALSE)
    /\ UNCHANGED <<wanted, dbVars, seen>>

AllocatePly(r) ==
    /\ pc[r] = "allocating"
    /\ local' = [local EXCEPT ![r].ply = NextManualPly]
    /\ Goto(r, "saving")
    /\ UNCHANGED <<wanted, dbVars, seen, answers>>

\* save_puzzle raised for another reason than its ply or a title it could
\* replace: answer with the row that took the position, or try again.
AbsorbConflict(r) ==
    /\ pc[r] = "absorbing"
    /\ IF AtPosition(r) = {}
       THEN NextAttempt(r)
       ELSE \E row \in AtPosition(r) : Answer(r, row.id, FALSE)
    /\ UNCHANGED <<wanted, dbVars, seen>>

-----------------------------------------------------------------------------
(* save_puzzle *)

\* Mutant of ResolveTaken: the row that took the ply is the answer.
ResolveTakenByPly(r, row) ==
    IF r \in Savers THEN Answer(r, row.id, FALSE)
    ELSE End(r, "done") /\ UNCHANGED answers

\* save_puzzle returned (False, row.id).  The manual route answers with that
\* row only if it holds the same position; generation counts it as skipped.
ResolveTaken(r, row) ==
    IF r \in Savers
    THEN IF row.position = wanted[r]
         THEN Answer(r, row.id, FALSE) ELSE NextAttempt(r)
    ELSE End(r, "done") /\ UNCHANGED answers

LookUpPly(r) ==
    /\ pc[r] = "saving"
    /\ IF AtSlot(r) = {}
       THEN Goto(r, "titling") /\ UNCHANGED <<answers, local>>
       ELSE \E row \in AtSlot(r) : ResolveTaken(r, row)
    /\ UNCHANGED <<wanted, dbVars, seen>>

\* Mutant of PickTitle: the name is used as it comes.
PickTitleBlindly(r) ==
    /\ pc[r] = "titling"
    /\ local' = [local EXCEPT ![r].free = Title(NameOf[r], "", 0)]
    /\ Goto(r, "inserting")
    /\ UNCHANGED <<wanted, dbVars, seen, answers>>

\* unique_title.
PickTitle(r) ==
    /\ pc[r] = "titling"
    /\ local' = [local EXCEPT ![r].free =
           Disambiguate(NameOf[r], Taken, MoveNumber(local[r].ply))]
    /\ Goto(r, "inserting")
    /\ UNCHANGED <<wanted, dbVars, seen, answers>>

\* Both rows are inserted and committed.
Insert(r) ==
    /\ pc[r] = "inserting"
    /\ Violation(r) = "none"
    /\ puzzles' = Append(puzzles,
           [id |-> r, game |-> Game(r), ply |-> local[r].ply,
            position |-> IF r \in Savers THEN wanted[r] ELSE NoPosition])
    /\ WriteTitles({r}, [i \in {r} |-> local[r].free],
                   IF r \in Savers THEN "user" ELSE "position")
    /\ IF r \in Savers
       THEN Answer(r, r, TRUE)
       ELSE End(r, "done") /\ UNCHANGED answers
    /\ UNCHANGED <<wanted, seen>>

\* IntegrityError: rolled back, and the error remembered.
InsertFails(r) ==
    /\ pc[r] = "inserting"
    /\ Violation(r) # "none"
    /\ Goto(r, IF Violation(r) = "title" THEN "renaming" ELSE "duplicate")
    /\ UNCHANGED <<wanted, dbVars, local, seen, answers>>

\* save_puzzle re-raises: generation logs it and drops the puzzle.
Raise(r) ==
    /\ IF r \in Savers THEN Goto(r, "absorbing") /\ UNCHANGED local
       ELSE End(r, "failed")
    /\ UNCHANGED answers

\* After the rollback: who has our ply?  If nobody, another title is worth a
\* try, as long as it was the title that failed.
Recover(r) ==
    /\ pc[r] \in {"duplicate", "renaming"}
    /\ IF AtSlot(r) # {}
       THEN \E row \in AtSlot(r) : ResolveTaken(r, row)
       ELSE IF pc[r] = "renaming" /\ local[r].retry + 1 < TitleAttempts
       THEN /\ local' = [local EXCEPT ![r].retry = @ + 1]
            /\ Goto(r, "titling")
            /\ UNCHANGED answers
       ELSE Raise(r)
    /\ UNCHANGED <<wanted, dbVars, seen>>

-----------------------------------------------------------------------------
(* The other writers of titles *)

\* update_puzzle_stats, unless it found the stats row: a title from the motif ...
PickReviewTitle(v) ==
    /\ pc[v] = "arriving"
    /\ IF Legacy \in DOMAIN title
       THEN End(v, "found")
       ELSE /\ local' = [local EXCEPT ![v].free =
                   Disambiguate(NameOf[v], Taken, MoveNumber(local[v].ply))]
            /\ Goto(v, "inserting")
    /\ UNCHANGED <<wanted, dbVars, seen, answers>>

\* ... and one INSERT, without a second try.
InsertReviewStats(v) ==
    /\ pc[v] = "inserting"
    /\ IF Legacy \in DOMAIN title \/ local[v].free \in Taken
       THEN End(v, "failed") /\ UNCHANGED title
       ELSE /\ End(v, "done")
            /\ WriteTitles({Legacy}, [i \in {Legacy} |-> local[v].free], "motif")
    /\ UNCHANGED <<wanted, puzzles, seen, answers>>

\* Mutant of Nameable: --force renames whatever is there.
NameableByForce(row) == TRUE

\* Rows the pass names: not those with a typed or an AI name.
Nameable(row) ==
    row.id \in DOMAIN title => title[row.id].source \notin {"user", "ai"}

\* name_puzzles reads its rows with their stats ...
ReadRows(n) ==
    /\ pc[n] = "arriving"
    /\ seen' = [seen EXCEPT ![n].rows = {row \in Rows : Nameable(row)},
                            ![n].title = title]
    /\ Goto(n, "titling")
    /\ UNCHANGED <<wanted, dbVars, local, answers>>

\* ... and later, once, all titles of the library.
ReadTitles(n) ==
    /\ pc[n] = "titling"
    /\ seen' = [seen EXCEPT ![n].used = Taken]
    /\ Goto(n, "inserting")
    /\ UNCHANGED <<wanted, dbVars, local, answers>>

\* The titles that naming a row of pass n may come to.
TitlesToGive(n) ==
    LET most == Cardinality(seen[n].used) + Cardinality(seen[n].rows) + 1
        moves == {MoveNumber(row.ply) : row \in seen[n].rows}
    IN  [name : Names, suffix : {""}, n : {0} \union 2..most]
        \union [name : Names, suffix : {"move"}, n : moves]

\* given has the titles of the rows of pass n, which it names one after the
\* other, each by a name of the model's choice: a row may keep its own title,
\* and a title given up in the pass is not given to another row.
GivesInOrder(n, given) ==
    LET old == seen[n].title
        places == {k \in DOMAIN puzzles : puzzles[k] \in seen[n].rows}
    IN  \A k \in places :
            LET id == puzzles[k].id
                own == {old[i].title : i \in {id} \intersect DOMAIN old}
                used == seen[n].used \union
                            {given[puzzles[j].id] : j \in {j \in places : j < k}}
            IN  given[id] = Disambiguate(given[id].name, used \ own,
                                         MoveNumber(puzzles[k].ply))

\* The pass commits all its titles and missing stats rows, or nothing when
\* one of them is there already.  (Rows that got the fallback name stay
\* "position" in the code, for the next pass; here a pass runs once.)
CommitNames(n) ==
    /\ pc[n] = "inserting"
    /\ LET ids == {row.id : row \in seen[n].rows}
           missing == ids \ DOMAIN seen[n].title
           others == {title[i].title : i \in DOMAIN title \ ids}
       IN  \E given \in [ids -> TitlesToGive(n)] :
            /\ GivesInOrder(n, given)
            /\ IF \/ \E i \in ids : given[i] \in others
                  \/ ~IsInjective(given)
                  \/ missing \intersect DOMAIN title # {}
               THEN End(n, "failed") /\ UNCHANGED title
               ELSE End(n, "done") /\ WriteTitles(ids, given, "ai")
    /\ seen' = [seen EXCEPT ![n] = Nothing]
    /\ UNCHANGED <<wanted, puzzles, answers>>

-----------------------------------------------------------------------------
(* The specification *)

SaveStep(r) ==
    \/ LookUpPosition(r) \/ AllocatePly(r) \/ AbsorbConflict(r)
    \/ LookUpPly(r) \/ PickTitle(r) \/ Insert(r) \/ InsertFails(r) \/ Recover(r)

Next ==
    \/ \E r \in Savers \union Generators : SaveStep(r)
    \/ \E v \in Reviewers : PickReviewTitle(v) \/ InsertReviewStats(v)
    \/ \E n \in Namers : ReadRows(n) \/ ReadTitles(n) \/ CommitNames(n)

Spec == Init /\ [][Next]_vars

-----------------------------------------------------------------------------
(* Correctness *)

\* Manual plies are 0, 1, 2, ... without gaps, although they are computed
\* before the transaction that inserts them (_next_manual_ply: "a synthetic
\* per-user sequence number").
PliesAreASequence ==
    {row.ply : row \in ManualRows} = 0..(Cardinality(ManualRows) - 1)

\* A puzzle saved by hand shows the name its user typed, up to the suffix that
\* keeps it apart, whatever it collided with and whoever names puzzles since
\* (save_puzzle: "recorded as theirs and nothing may overwrite it later").
TypedNamesAreShown ==
    \A r \in Savers : r \in DOMAIN title =>
        title[r].source = "user" /\ title[r].title.name = NameOf[r]

\* What must happen before the code gives a request up.
Patience(r) ==
    CASE r \in Savers -> MaxAttempts
      [] r \in Generators -> TitleAttempts
      [] OTHER -> 1

\* Requests other than r that committed a row or titles.
Rivals(r) ==
    {q \in (Savers \union Generators) \ {r} : \E row \in Rows : row.id = q}
    \union {q \in (Reviewers \union Namers) \ {r} : pc[q] = "done"}

\* A save is refused, a generated puzzle dropped, a review or a naming pass
\* rolled back only after losing as many races as the loop has rounds: retries
\* of one request never defeat themselves.
FailuresNeedRivals ==
    \A r \in Requests :
        pc[r] = "failed" => Cardinality(Rivals(r)) >= Patience(r)

Book == INSTANCE PuzzleBook WITH
    book <- {[position |-> row.position, puzzle |-> row.id] : row \in ManualRows}

\* Manual saving implements the book of positions: a position gets one puzzle,
\* is_new is said once, and no save is answered with the puzzle of another
\* position, whichever index it collided with.
KeepsTheBook == Book!Spec

=============================================================================
