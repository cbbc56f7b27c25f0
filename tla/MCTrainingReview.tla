-------------------------- MODULE MCTrainingReview --------------------------
(* TrainingReview with interchangeable requests. *)
EXTENDS TrainingReview, TLC

Symmetric ==
    Permutations(Reviewers) \union Permutations(Completers)
        \union Permutations(Hinters)

=============================================================================
