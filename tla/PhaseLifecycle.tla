--------------------------- MODULE PhaseLifecycle ---------------------------
(***************************************************************************)
(* The phase state machine and the project status derived from it: the     *)
(* pure part of server/src/phases and server/src/projects.  No state here; *)
(* PhaseWorkflow and StrictPhase are built on these definitions.           *)
(***************************************************************************)

Status == {"notStarted", "inProgress", "pendingReview", "done"}

Action == {"start", "submit", "approve", "reject", "reopen"}

(* Names ending in Slip are deliberately wrong variants of the definition  *)
(* that follows them: each is a plausible slip in the code, and shows that *)
(* a property would notice it.                                             *)

(* A worker may submit a phase that is done.                               *)
SourcesDoneSlip ==
  [start   |-> {"notStarted"},
   submit  |-> Status,
   approve |-> {"pendingReview"},
   reject  |-> {"pendingReview"},
   reopen  |-> {"done"}]

(* A foreman may approve a phase nobody submitted.                         *)
SourcesApproveSlip ==
  [start   |-> {"notStarted"},
   submit  |-> {"notStarted", "inProgress", "pendingReview"},
   approve |-> {"inProgress", "pendingReview"},
   reject  |-> {"pendingReview"},
   reopen  |-> {"done"}]

(* The statuses TRANSITIONS accepts each action from.                      *)
Sources ==
  [start   |-> {"notStarted"},
   submit  |-> {"notStarted", "inProgress", "pendingReview"},
   approve |-> {"pendingReview"},
   reject  |-> {"pendingReview"},
   reopen  |-> {"done"}]

(* The review answers with a status the column does not have.              *)
TargetSlip ==
  [start |-> "inProgress", submit |-> "pendingReview", approve |-> "done",
   reject |-> "rejected", reopen |-> "inProgress"]

(* Where each action leads.  Every row of TRANSITIONS agrees with FALLBACK *)
(* on the target, so one function serves strict and lenient mode.          *)
Target ==
  [start |-> "inProgress", submit |-> "pendingReview", approve |-> "done",
   reject |-> "inProgress", reopen |-> "inProgress"]

(* The strict table is consulted and its answer ignored.                   *)
CanMoveSlip(lenient, s, a) == TRUE

(* lifecycle.next(s, a) answers Target[a] when this holds and throws       *)
(* PHASE_INVALID_TRANSITION when it does not.                              *)
CanMove(lenient, s, a) == lenient \/ s \in Sources[a]

(* A move the strict table contains.                                       *)
StrictMove(s, t) == \E a \in Action : s \in Sources[a] /\ t = Target[a]

(* deriveFromPhases over the set of statuses of a project's live phases,   *)
(* and derive with the closedAt override.                                  *)
DeriveFromPhases(statuses) ==
  IF statuses # {} /\ statuses \subseteq {"done"} THEN "done"
  ELSE IF statuses \subseteq {"notStarted"} THEN "planned"
  ELSE "inProgress"

Derive(closed, statuses) == IF closed THEN "done" ELSE DeriveFromPhases(statuses)
=============================================================================
