---------------------------- MODULE MCWorkerFeed ----------------------------
EXTENDS WorkerFeed, TLC

(* Overlapping batches, and one with the same fix twice.                   *)
MCBatches == {<<0, 1>>, <<1, 1>>}

(* The two ends of a shift meet in the middle; names move both ways.       *)
MCPatches == [field : {"start", "end"}, to : {2}] \union [field : {"name"}, to : Names]

Symmetry == Permutations(Requests) \union Permutations(Foremen)
=============================================================================
