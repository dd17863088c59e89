--------------------------- MODULE MCPhaseWorkflow --------------------------
(* PhaseWorkflow on a small project.                                       *)
EXTENDS PhaseWorkflow, TLC

CONSTANTS p1, p2, k1, k2

MCPhaseOf == k1 :> p1 @@ k2 :> p1
(* PhaseOf sends both reports to one phase, so they are interchangeable.   *)
Symmetry == Permutations(Requests) \union Permutations(Reports)
=============================================================================
