----------------------------- MODULE MCGithubSync -----------------------------
EXTENDS GithubSync, TLC

MCMaxWrites == [k \in {"tasks", "issues"} |-> IF k = "tasks" THEN 2 ELSE 1]

(* Once pushes or pulls overlapped, Agreement says nothing, and what is    *)
(* left to see of OneTaskPerIssue happens before time 2.                   *)
ShortOnceDisorderly == (orderly /\ ~pullsMet) \/ time <= 1

Symmetry == Permutations(TaskIds) \cup Permutations(Pullers)

=============================================================================
