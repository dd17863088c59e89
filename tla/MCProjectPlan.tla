--------------------------- MODULE MCProjectPlan ----------------------------
(* ProjectPlan with three phases named in order and two clients.           *)
EXTENDS ProjectPlan, TLC

CONSTANTS p1, p2, p3

MCNameRank == [p \in Phases |-> IF p = p1 THEN 1 ELSE IF p = p2 THEN 2 ELSE 3]

(* Every set of phases, in one order.                                      *)
MCCreated == {Only(<<p1, p2, p3>>, S) : S \in SUBSET Phases}

Symmetry == Permutations(Clients) \union Permutations(Requests)
=============================================================================
