---------------------------- MODULE MCSessions -----------------------------
(* Sessions with one foreman, one worker and one ticket.                   *)
EXTENDS Sessions, TLC

CONSTANTS f1, w1, k1

MCWorkerOf == k1 :> w1
(* Ids are handed out in no particular order.                              *)
Symmetry ==
  Permutations(Sessions) \union Permutations(Tokens) \union Permutations(Requests)
=============================================================================
