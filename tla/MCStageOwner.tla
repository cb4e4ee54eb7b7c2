---------------------------- MODULE MCStageOwner ----------------------------
(* An encoder of an arena, a kernel and a plan that binds and records them, *)
(* on a device shared with a client that has a kernel, a buffer and, in the *)
(* safety run, a plan of its own still to build.                            *)
EXTENDS StageOwner, TLC

PlanStages == [p \in Plans |-> IF p = "plan" THEN {"enc"} ELSE {"kernel"}]
PlanBindings == [p \in Plans |-> IF p = "plan" THEN {"arena"} ELSE {}]
OwnedSeq == <<"arena", "enc", "plan">>
ThreadSymmetry == Permutations(Runners) \cup Permutations(Closers)
=============================================================================
