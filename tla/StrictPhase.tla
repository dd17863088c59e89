----------------------------- MODULE StrictPhase ----------------------------
(***************************************************************************)
(* What the phases of a project promise a foreman and the workers, with no *)
(* server in sight: a submission always puts its phase up for review, a    *)
(* review always decides a phase that is up for review, and nothing else   *)
(* moves a phase except starting it.                                       *)
(***************************************************************************)
EXTENDS Naturals

CONSTANT Phases

VARIABLES
  st,     \* st[p]: the status of a phase
  subs,   \* subs[p]: submissions on record
  revs    \* revs[p]: reviews on record

vars == <<st, subs, revs>>

Init ==
  /\ st = [p \in Phases |-> "notStarted"]
  /\ subs = [p \in Phases |-> 0]
  /\ revs = [p \in Phases |-> 0]

Start(p) ==
  /\ st[p] = "notStarted"
  /\ st' = [st EXCEPT ![p] = "inProgress"]
  /\ UNCHANGED <<subs, revs>>

Submit(p) ==
  /\ st[p] # "done"
  /\ st' = [st EXCEPT ![p] = "pendingReview"]
  /\ subs' = [subs EXCEPT ![p] = @ + 1]
  /\ UNCHANGED revs

Review(p, verdict) ==
  /\ st[p] = "pendingReview"
  /\ st' = [st EXCEPT ![p] = verdict]
  /\ revs' = [revs EXCEPT ![p] = @ + 1]
  /\ UNCHANGED subs

Next ==
  \E p \in Phases :
    \/ Start(p)
    \/ Submit(p)
    \/ \E verdict \in {"done", "inProgress"} : Review(p, verdict)

Spec == Init /\ [][Next]_vars
=============================================================================
