--------------------------- MODULE MCTaskDispatch ---------------------------
(* The symmetry of the safety runs of TaskDispatch. The constants get      *)
(* their values in the .cfg files.                                         *)
EXTENDS TaskDispatch, TLC

(* No constant of a safety run names a task, an agent that differs from    *)
(* the others, or an activation, so all of them may be permuted.           *)
Symmetry == Permutations(Tasks) \cup Permutations(Dispatchers) \cup Permutations(Reviewers)

=============================================================================
