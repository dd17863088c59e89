----------------------------- MODULE PhaseList ------------------------------
(***************************************************************************)
(* What the order of a project's phases promises a foreman: it is a list.  *)
(* New phases go to the end, a removed one leaves the others as they were, *)
(* and rearranging loses nothing.                                          *)
(***************************************************************************)
EXTENDS Ordering

CONSTANT Phases

VARIABLE list

Lists == SetToAllKPermutations(Phases)

Init == list \in Lists

AddLast(p) == p \notin ToSet(list) /\ list' = Append(list, p)

TakeOut(p) == list' = Only(list, Phases \ {p})

Rearrange == list' \in SetToSeqs(ToSet(list))

(* The project is created with phases, or removed with them.               *)
Fill == list = <<>> /\ list' \in Lists

Clear == list' = <<>>

Next ==
  \/ \E p \in Phases : AddLast(p) \/ TakeOut(p)
  \/ Rearrange \/ Fill \/ Clear

Spec == Init /\ [][Next]_list
=============================================================================
