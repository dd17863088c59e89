---------------------------- MODULE PhaseWorkflow ---------------------------
(***************************************************************************)
(* One project's phases under concurrent requests: start, submit, review,  *)
(* the worker's report upload and its out-of-band notice, adding and       *)
(* removing phases, closing, reopening and removing the project.           *)
(*                                                                         *)
(* A handler is a sequence of awaits: it reads the phase, decides, and     *)
(* writes in one transaction.  Each await is one action here, so the steps *)
(* of different requests interleave as they do on the event loop and in    *)
(* PostgreSQL.  A transaction takes effect at its commit.                  *)
(*                                                                         *)
(* sortIndex, day orders, assignments, names, dates and media are not part *)
(* of this module's view of the rows.                                      *)
(***************************************************************************)
EXTENDS PhaseLifecycle, Naturals

CONSTANTS
  Phases,       \* phase ids
  Reports,      \* what workers file: a report is one (employee, submittedAt) of a phase
  PhaseOf,      \* PhaseOf[k]: the phase a report is about
  Project,      \* the project id, target of the requests on the project itself
  Requests,     \* slots for requests in flight
  Lenient,      \* PHASE_TRANSITIONS_LENIENT
  MaxRequests   \* bound: requests that ever arrive

ASSUME PhaseOfAssumption == PhaseOf \in [Reports -> Phases]
ASSUME LenientAssumption == Lenient \in BOOLEAN
ASSUME MaxRequestsAssumption == MaxRequests \in Nat

VARIABLES
  row,          \* row[p]: no row yet, live, or soft-deleted
  status,       \* status[p]: the status column
  submissions,  \* submissions[p]: PhaseSubmission rows of the phase
  approvals,    \* approvals[p]: PhaseReview rows with approved = true
  rejections,   \* rejections[p]: PhaseReview rows with approved = false
  reports,      \* WorkerReport rows, by idempotency key (a unique column)
  linked,       \* linked[k]: PhaseSubmission rows with reportId = k
  told,         \* told[k]: notification batches the upload of k created
  noticed,      \* noticed[k]: batches carrying k as their noticeKey
  project,      \* closedAt and deletedAt of the project
  pc,           \* pc[r]: the next await of the request in slot r
  job,          \* job[r]: what that request asks for
  seen,         \* seen[r]: the phase status its handler read
  acked,        \* history: reports a device got a 200 for
  arrived       \* history: requests that arrived

stored == <<submissions, approvals, rejections, reports, linked, told, noticed>>
tables == <<row, status, project, stored>>
vars == <<tables, pc, job, seen, acked, arrived>>

MoveOps    == {"start", "submit", "approve", "reject"}
PhaseOps   == MoveOps \union {"create", "remove"}
ReportOps  == {"report", "notice"}
ProjectOps == {"markDone", "reopenProject", "removeProject"}

Jobs ==
  [op : PhaseOps, target : Phases] \union
  [op : ReportOps, target : Reports] \union
  [op : ProjectOps, target : {Project}]

NoJob == [op |-> "none", target |-> Project]

TypeOK ==
  /\ row \in [Phases -> {"absent", "live", "deleted"}]
  /\ status \in [Phases -> Status]
  /\ submissions \in [Phases -> Nat]
  /\ approvals \in [Phases -> Nat]
  /\ rejections \in [Phases -> Nat]
  /\ reports \in SUBSET Reports
  /\ linked \in [Reports -> Nat]
  /\ told \in [Reports -> Nat]
  /\ noticed \in [Reports -> Nat]
  /\ project \in [closed : BOOLEAN, deleted : BOOLEAN]
  /\ pc \in [Requests -> {"idle", "read", "lookup", "recall", "write", "reply"}]
  /\ job \in [Requests -> Jobs \union {NoJob}]
  /\ seen \in [Requests -> Status]
  /\ acked \in SUBSET Reports
  /\ arrived \in Nat

(* A project is created with any number of inline phases, all notStarted.  *)
Init ==
  /\ row \in [Phases -> {"absent", "live"}]
  /\ status = [p \in Phases |-> "notStarted"]
  /\ submissions = [p \in Phases |-> 0]
  /\ approvals = [p \in Phases |-> 0]
  /\ rejections = [p \in Phases |-> 0]
  /\ reports = {}
  /\ linked = [k \in Reports |-> 0]
  /\ told = [k \in Reports |-> 0]
  /\ noticed = [k \in Reports |-> 0]
  /\ project = [closed |-> FALSE, deleted |-> FALSE]
  /\ pc = [r \in Requests |-> "idle"]
  /\ job = [r \in Requests |-> NoJob]
  /\ seen = [r \in Requests |-> "notStarted"]
  /\ acked = {}
  /\ arrived = 0

-----------------------------------------------------------------------------
(* The phase a request is about, and the lifecycle action it performs.     *)
PhaseFor(j) == IF j.op \in ReportOps THEN PhaseOf[j.target] ELSE j.target
MoveFor(j)  == IF j.op = "report" THEN "submit" ELSE j.op

At(r, step, ops) == pc[r] = step /\ job[r].op \in ops

Go(r, step) == pc' = [pc EXCEPT ![r] = step] /\ UNCHANGED <<job, seen, arrived>>

(* The request is answered and its slot is free.                           *)
End(r) ==
  /\ pc' = [pc EXCEPT ![r] = "idle"]
  /\ job' = [job EXCEPT ![r] = NoJob]
  /\ seen' = [seen EXCEPT ![r] = "notStarted"]
  /\ UNCHANGED arrived

Arrive(r, j) ==
  /\ pc[r] = "idle"
  /\ arrived < MaxRequests
  /\ arrived' = arrived + 1
  /\ pc' = [pc EXCEPT ![r] = IF j.op = "notice" THEN "lookup" ELSE "read"]
  /\ job' = [job EXCEPT ![r] = j]
  /\ UNCHANGED <<tables, seen, acked>>

(* The request ends without a further write: a check on data outside this  *)
(* module refused it, its transaction was rolled back, or the process died.*)
Abort(r) ==
  /\ pc[r] # "idle"
  /\ End(r)
  /\ UNCHANGED <<tables, acked>>

-----------------------------------------------------------------------------
(* Reading the phase.  Only the report upload also asks that the project   *)
(* is live.                                                                *)
Visible(j) ==
  /\ row[PhaseFor(j)] = "live"
  /\ j.op = "report" => ~project.deleted

PhaseNotFound(r) ==
  /\ At(r, "read", (PhaseOps \ {"create"}) \union ReportOps)
  /\ ~Visible(job[r])
  /\ End(r)
  /\ UNCHANGED <<tables, acked>>

(* start, submit and review consult the lifecycle on the status just read. *)
MoveRefused(r) ==
  /\ At(r, "read", MoveOps)
  /\ Visible(job[r])
  /\ ~CanMove(Lenient, status[PhaseFor(job[r])], job[r].op)
  /\ End(r)
  /\ UNCHANGED <<tables, acked>>

ReadPhase(r) ==
  /\ At(r, "read", (PhaseOps \ {"create"}) \union ReportOps)
  /\ Visible(job[r])
  /\ job[r].op \in MoveOps =>
       CanMove(Lenient, status[PhaseFor(job[r])], job[r].op)
  /\ seen' = [seen EXCEPT ![r] = status[PhaseFor(job[r])]]
  /\ pc' = [pc EXCEPT ![r] =
       IF job[r].op = "report" THEN "lookup"
       ELSE IF job[r].op = "notice" THEN "recall" ELSE "write"]
  /\ UNCHANGED <<tables, job, acked, arrived>>

-----------------------------------------------------------------------------
(* The writes of the lifecycle handlers.  The status written was computed  *)
(* from the status read, and the update names the row by id alone.         *)
Move(r, p) == status' = [status EXCEPT ![p] = Target[MoveFor(job[r])]]

WriteStart(r) ==
  /\ At(r, "write", {"start"})
  /\ Move(r, PhaseFor(job[r]))
  /\ End(r)
  /\ UNCHANGED <<row, project, stored, acked>>

WriteSubmission(r) ==
  LET p == PhaseFor(job[r]) IN
  /\ At(r, "write", {"submit"})
  /\ submissions' = [submissions EXCEPT ![p] = @ + 1]
  /\ Move(r, p)
  /\ End(r)
  /\ UNCHANGED <<row, project, approvals, rejections, reports, linked, told,
                 noticed, acked>>

WriteReview(r) ==
  LET p == PhaseFor(job[r]) IN
  /\ At(r, "write", {"approve", "reject"})
  /\ approvals' = [approvals EXCEPT
       ![p] = IF job[r].op = "approve" THEN @ + 1 ELSE @]
  /\ rejections' = [rejections EXCEPT
       ![p] = IF job[r].op = "reject" THEN @ + 1 ELSE @]
  /\ Move(r, p)
  /\ End(r)
  /\ UNCHANGED <<row, project, submissions, reports, linked, told, noticed,
                 acked>>

-----------------------------------------------------------------------------
(* The report upload: look the key up, and when it is new store            *)
(* everything in one transaction.                                          *)
DuplicateReport(r) ==
  /\ At(r, "lookup", {"report"})
  /\ job[r].target \in reports
  /\ Go(r, "reply")
  /\ UNCHANGED <<tables, acked>>

ReportRefused(r) ==
  /\ At(r, "lookup", {"report"})
  /\ job[r].target \notin reports
  /\ ~CanMove(Lenient, seen[r], "submit")
  /\ End(r)
  /\ UNCHANGED <<tables, acked>>

AcceptReport(r) ==
  /\ At(r, "lookup", {"report"})
  /\ job[r].target \notin reports
  /\ CanMove(Lenient, seen[r], "submit")
  /\ Go(r, "write")
  /\ UNCHANGED <<tables, acked>>

(* The idempotency key is not a unique column.                             *)
StoreReportSlip(r) ==
  LET k == job[r].target
      p == PhaseFor(job[r]) IN
  /\ At(r, "write", {"report"})
  /\ reports' = reports \union {k}
  /\ submissions' = [submissions EXCEPT ![p] = @ + 1]
  /\ linked' = [linked EXCEPT ![k] = @ + 1]
  /\ told' = [told EXCEPT ![k] = @ + 1]
  /\ Move(r, p)
  /\ Go(r, "reply")
  /\ UNCHANGED <<row, project, approvals, rejections, noticed, acked>>

StoreReport(r) ==
  LET k == job[r].target
      p == PhaseFor(job[r]) IN
  /\ At(r, "write", {"report"})
  /\ k \notin reports
  /\ reports' = reports \union {k}
  /\ submissions' = [submissions EXCEPT ![p] = @ + 1]
  /\ linked' = [linked EXCEPT ![k] = @ + 1]
  /\ told' = [told EXCEPT ![k] = @ + 1]
  /\ Move(r, p)
  /\ Go(r, "reply")
  /\ UNCHANGED <<row, project, approvals, rejections, noticed, acked>>

(* The unique key refuses a second insert: 409 to the retry that raced.    *)
ReportConflict(r) ==
  /\ At(r, "write", {"report"})
  /\ job[r].target \in reports
  /\ End(r)
  /\ UNCHANGED <<tables, acked>>

(* The answer reaches the device; a lost one is Abort.                     *)
Reply(r) ==
  /\ At(r, "reply", {"report"})
  /\ acked' = acked \union {job[r].target}
  /\ End(r)
  /\ UNCHANGED tables

(* The out-of-band notice: report row, phase, earlier notice, then one     *)
(* createMany outside any transaction.                                     *)
NoticeOfReport(r) ==
  /\ At(r, "lookup", {"notice"})
  /\ job[r].target \in reports
  /\ End(r)
  /\ UNCHANGED <<tables, acked>>

NoticeUnknown(r) ==
  /\ At(r, "lookup", {"notice"})
  /\ job[r].target \notin reports
  /\ Go(r, "read")
  /\ UNCHANGED <<tables, acked>>

NoticeRepeated(r) ==
  /\ At(r, "recall", {"notice"})
  /\ noticed[job[r].target] > 0
  /\ End(r)
  /\ UNCHANGED <<tables, acked>>

NoticeIsNew(r) ==
  /\ At(r, "recall", {"notice"})
  /\ noticed[job[r].target] = 0
  /\ Go(r, "write")
  /\ UNCHANGED <<tables, acked>>

WriteNotice(r) ==
  /\ At(r, "write", {"notice"})
  /\ noticed' = [noticed EXCEPT ![job[r].target] = @ + 1]
  /\ End(r)
  /\ UNCHANGED <<row, status, project, submissions, approvals, rejections,
                 reports, linked, told, acked>>

-----------------------------------------------------------------------------
(* Adding and removing phases, and the requests on the project.            *)
ReadProject(r) ==
  /\ At(r, "read", ProjectOps \union {"create"})
  /\ IF project.deleted THEN End(r) ELSE Go(r, "write")
  /\ UNCHANGED <<tables, acked>>

InsertPhase(r) ==
  LET p == job[r].target IN
  /\ At(r, "write", {"create"})
  /\ row[p] = "absent"
  /\ row' = [row EXCEPT ![p] = "live"]
  /\ status' = [status EXCEPT ![p] = "notStarted"]
  /\ End(r)
  /\ UNCHANGED <<project, stored, acked>>

(* A client-chosen id that is taken violates the primary key: 409.         *)
PhaseIdTaken(r) ==
  /\ At(r, "write", {"create"})
  /\ row[job[r].target] # "absent"
  /\ End(r)
  /\ UNCHANGED <<tables, acked>>

DeletePhase(r) ==
  /\ At(r, "write", {"remove"})
  /\ row' = [row EXCEPT ![job[r].target] = "deleted"]
  /\ End(r)
  /\ UNCHANGED <<status, project, stored, acked>>

MarkDone(r) ==
  /\ At(r, "write", {"markDone"})
  /\ project' = [project EXCEPT !.closed = TRUE]
  /\ End(r)
  /\ UNCHANGED <<row, status, stored, acked>>

ReopenProject(r) ==
  /\ At(r, "write", {"reopenProject"})
  /\ project' = [project EXCEPT !.closed = FALSE]
  /\ End(r)
  /\ UNCHANGED <<row, status, stored, acked>>

(* The phases of a removed project keep their rows live.                   *)
RemoveProjectSlip(r) ==
  /\ At(r, "write", {"removeProject"})
  /\ project' = [project EXCEPT !.deleted = TRUE]
  /\ End(r)
  /\ UNCHANGED <<row, status, stored, acked>>

RemoveProject(r) ==
  /\ At(r, "write", {"removeProject"})
  /\ project' = [project EXCEPT !.deleted = TRUE]
  /\ row' = [p \in Phases |-> IF row[p] = "live" THEN "deleted" ELSE row[p]]
  /\ End(r)
  /\ UNCHANGED <<status, stored, acked>>

-----------------------------------------------------------------------------
Step(r) ==
  \/ Abort(r)
  \/ PhaseNotFound(r) \/ MoveRefused(r) \/ ReadPhase(r)
  \/ WriteStart(r) \/ WriteSubmission(r) \/ WriteReview(r)
  \/ DuplicateReport(r) \/ ReportRefused(r) \/ AcceptReport(r)
  \/ StoreReport(r) \/ ReportConflict(r) \/ Reply(r)
  \/ NoticeOfReport(r) \/ NoticeUnknown(r) \/ NoticeRepeated(r)
  \/ NoticeIsNew(r) \/ WriteNotice(r)
  \/ ReadProject(r) \/ InsertPhase(r) \/ PhaseIdTaken(r) \/ DeletePhase(r)
  \/ MarkDone(r) \/ ReopenProject(r) \/ RemoveProject(r)

Next ==
  \E r \in Requests :
    \/ \E j \in Jobs : Arrive(r, j)
    \/ Step(r)

Spec == Init /\ [][Next]_vars
-----------------------------------------------------------------------------
(* Every status is explained by rows that exist, whatever the interleaving:*)
(* a phase up for review has a submission, a done phase an approval, and   *)
(* in strict mode nobody reviews a phase nobody submitted                  *)
(* (phases.service.ts submit and review, worker-reports.service.ts submit).*)
AuditTrail ==
  \A p \in Phases :
    /\ status[p] = "pendingReview" => submissions[p] > 0
    /\ status[p] = "done" => approvals[p] > 0
    /\ ~Lenient /\ approvals[p] + rejections[p] > 0 => submissions[p] > 0

(* A report is stored whole or not at all, once: retries that race the     *)
(* original, in any order, leave one row with one submission and one batch *)
(* of notifications, and no device hears 200 before that                   *)
(* (worker-reports.service.ts submit).                                     *)
ReportIsWhole ==
  /\ \A k \in Reports :
       /\ told[k] = IF k \in reports THEN 1 ELSE 0
       /\ linked[k] = told[k]
       /\ k \in reports => submissions[PhaseOf[k]] > 0
  /\ acked \subseteq reports

(* In strict mode a phase leaves done only under a request that read it    *)
(* before it became done: no request that starts afterwards can undo an    *)
(* approval (phase-lifecycle.service.ts next).                             *)
DoneLeftByStaleReadOnly ==
  [][\A p \in Phases :
       ~Lenient /\ status[p] = "done" /\ status'[p] # "done" =>
         \E r \in Requests :
           pc[r] = "write" /\ PhaseFor(job[r]) = p /\ seen[r] # "done"]_vars

(* README: "Phase transitions are strict."  Every change of a status is a  *)
(* row of the transition table.                                            *)
StrictTransitions ==
  [][\A p \in Phases :
       status'[p] # status[p] => StrictMove(status[p], status'[p])]_vars

(* What a request in flight already knows: a review about to be written    *)
(* read a submitted phase, a move about to be written was legal when read, *)
(* and a report about to be acknowledged is stored.                        *)
InFlight(r) ==
  /\ At(r, "write", {"approve", "reject"}) /\ ~Lenient =>
       submissions[PhaseFor(job[r])] > 0
  /\ At(r, "write", MoveOps \union {"report"}) =>
       CanMove(Lenient, seen[r], MoveFor(job[r]))
  /\ At(r, "reply", {"report"}) => job[r].target \in reports

(* The inductive invariant behind AuditTrail and ReportIsWhole.            *)
IInv ==
  /\ TypeOK
  /\ AuditTrail
  /\ ReportIsWhole
  /\ \A r \in Requests : InFlight(r)

(* A status other than notStarted belongs to a row that exists, and a      *)
(* request that decided on a phase read an existing row.                   *)
RowInv ==
  /\ \A p \in Phases : row[p] = "absent" => status[p] = "notStarted"
  /\ \A r \in Requests :
       /\ pc[r] \in {"lookup", "write"}
       /\ job[r].op \in MoveOps \union {"report"}
       => row[PhaseFor(job[r])] # "absent"

-----------------------------------------------------------------------------
(* One request at a time.                                                  *)
Strict == INSTANCE StrictPhase WITH
  st <- status, subs <- submissions,
  revs <- [p \in Phases |-> approvals[p] + rejections[p]]

(* When requests do not overlap every phase is the strict machine: each    *)
(* review decides a phase that is up for review, once (README: "Phase      *)
(* transitions are strict", phases.service.ts start, submit, review).      *)
ImplementsStrictPhase == Strict!Spec

(* Then a handler writes against the status it read.                       *)
SerialInv ==
  \A r \in Requests :
    pc[r] \in {"lookup", "write"} /\ job[r].op \in MoveOps \union {"report"} =>
      seen[r] = status[PhaseFor(job[r])]

(* When requests do not overlap a removed project has no live phase left   *)
(* (projects.service.ts remove), and a repeated notice is recognised by    *)
(* its noticeKey and a notice of a stored report by the report             *)
(* (worker-reports.service.ts ingestOutOfBandNotice).                      *)
SerialTidy ==
  /\ project.deleted => \A p \in Phases : row[p] # "live"
  /\ \A k \in Reports : noticed[k] <= 1

ProjectStatus ==
  Derive(project.closed, {status[p] : p \in {q \in Phases : row[q] = "live"}})

(* When requests do not overlap, a project whose derived status is done    *)
(* stays done until somebody reopens it, adds a phase, or takes its last   *)
(* phase away (project-status.service.ts derive over what phases.service.ts*)
(* and projects.service.ts write).                                         *)
ProjectStaysDone ==
  [][ProjectStatus = "done" /\ ProjectStatus' # "done" =>
       \/ project.closed /\ ~project'.closed
       \/ \E p \in Phases : row[p] = "absent" /\ row'[p] = "live"
       \/ \A p \in Phases : row'[p] # "live"]_vars
=============================================================================
