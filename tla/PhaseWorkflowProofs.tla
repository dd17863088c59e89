------------------------ MODULE PhaseWorkflowProofs -------------------------
(***************************************************************************)
(* Theorems about PhaseWorkflow, for every set of phases, reports and      *)
(* request slots: it is type correct, and however requests interleave      *)
(* every status is explained by rows that exist, a report is stored whole  *)
(* and once, and only a stale read moves a phase out of done.              *)
(***************************************************************************)
EXTENDS PhaseWorkflow, TLAPS

(* What a request asks for determines the type of its target.              *)
LEMMA JobTypes ==
  ASSUME TypeOK, NEW r \in Requests
  PROVE  /\ job[r].op \in PhaseOps =>
              job[r].target \in Phases /\ PhaseFor(job[r]) \in Phases
         /\ job[r].op \in ReportOps =>
              job[r].target \in Reports /\ PhaseFor(job[r]) \in Phases
<1>1. job[r] \in Jobs \union {NoJob}
  BY DEF TypeOK
<1>2. job[r].op \in PhaseOps => job[r].target \in Phases
  BY <1>1 DEF Jobs, NoJob, PhaseOps, MoveOps, ReportOps, ProjectOps
<1>3. job[r].op \in ReportOps => job[r].target \in Reports
  BY <1>1 DEF Jobs, NoJob, PhaseOps, MoveOps, ReportOps, ProjectOps
<1>4. PhaseOps \cap ReportOps = {}
  BY DEF PhaseOps, MoveOps, ReportOps
<1> QED
  BY <1>2, <1>3, <1>4, PhaseOfAssumption DEF PhaseFor

(* Every status a handler writes is a status.                              *)
LEMMA MoveTypes ==
  ASSUME TypeOK, NEW r \in Requests, NEW p, Move(r, p),
         job[r].op \in MoveOps \union {"report"}
  PROVE  status' \in [Phases -> Status]
<1>1. Target[MoveFor(job[r])] \in Status
  BY DEF MoveFor, Target, MoveOps, Status
<1> QED
  BY <1>1 DEF TypeOK, Move

(* Answering a request keeps the request table well typed.                 *)
LEMMA EndTypes ==
  ASSUME TypeOK, NEW r \in Requests, End(r)
  PROVE  /\ pc' \in [Requests -> {"idle", "read", "lookup", "recall", "write", "reply"}]
         /\ job' \in [Requests -> Jobs \union {NoJob}]
         /\ seen' \in [Requests -> Status]
         /\ arrived' \in Nat
BY DEF End, TypeOK, Status

LEMMA GoTypes ==
  ASSUME TypeOK, NEW r \in Requests,
         NEW s \in {"read", "lookup", "recall", "write", "reply"}, Go(r, s)
  PROVE  /\ pc' \in [Requests -> {"idle", "read", "lookup", "recall", "write", "reply"}]
         /\ job' \in [Requests -> Jobs \union {NoJob}]
         /\ seen' \in [Requests -> Status]
         /\ arrived' \in Nat
BY DEF Go, TypeOK

LEMMA TypeStep == TypeOK /\ [Next]_vars => TypeOK'
<1> SUFFICES ASSUME TypeOK, [Next]_vars PROVE TypeOK'
  OBVIOUS
<1> USE DEF At, tables, stored
<1>0. CASE UNCHANGED vars
  BY <1>0 DEF TypeOK, vars
<1>1. ASSUME NEW r \in Requests, NEW j \in Jobs, Arrive(r, j) PROVE TypeOK'
  BY <1>1 DEF TypeOK, Arrive
<1>2. ASSUME NEW r \in Requests,
             \/ Abort(r) \/ PhaseNotFound(r) \/ MoveRefused(r) \/ ReportRefused(r)
             \/ ReportConflict(r) \/ NoticeOfReport(r) \/ NoticeRepeated(r)
             \/ PhaseIdTaken(r)
      PROVE TypeOK'
  <2>1. End(r) /\ UNCHANGED <<tables, acked>>
    BY <1>2 DEF Abort, PhaseNotFound, MoveRefused, ReportRefused, ReportConflict,
                NoticeOfReport, NoticeRepeated, PhaseIdTaken
  <2> QED
    BY <2>1, EndTypes DEF TypeOK
<1>3. ASSUME NEW r \in Requests,
             \/ DuplicateReport(r) \/ AcceptReport(r) \/ NoticeUnknown(r)
             \/ NoticeIsNew(r)
      PROVE TypeOK'
  <2>1. /\ \E s \in {"read", "lookup", "recall", "write", "reply"} : Go(r, s)
        /\ UNCHANGED <<tables, acked>>
    BY <1>3 DEF DuplicateReport, AcceptReport, NoticeUnknown, NoticeIsNew
  <2> QED
    BY <2>1, GoTypes DEF TypeOK
<1>4. ASSUME NEW r \in Requests, ReadPhase(r) PROVE TypeOK'
  <2>1. PhaseFor(job[r]) \in Phases
    BY <1>4, JobTypes DEF ReadPhase
  <2> QED
    BY <1>4, <2>1 DEF ReadPhase, TypeOK
<1>5. ASSUME NEW r \in Requests, WriteStart(r) PROVE TypeOK'
  BY <1>5, MoveTypes, EndTypes DEF WriteStart, TypeOK, MoveOps
<1>6. ASSUME NEW r \in Requests, WriteSubmission(r) PROVE TypeOK'
  <2>0. PhaseFor(job[r]) \in Phases
    BY <1>6, JobTypes DEF WriteSubmission, ReportOps, PhaseOps, MoveOps
  <2>1. status' \in [Phases -> Status]
    BY <1>6, MoveTypes DEF WriteSubmission, MoveOps
  <2>2. submissions' \in [Phases -> Nat]
    BY <1>6, <2>0 DEF WriteSubmission, TypeOK
  <2> QED
    BY <1>6, <2>1, <2>2, EndTypes DEF WriteSubmission, TypeOK
<1>7. ASSUME NEW r \in Requests, WriteReview(r) PROVE TypeOK'
  <2>0. PhaseFor(job[r]) \in Phases
    BY <1>7, JobTypes DEF WriteReview, ReportOps, PhaseOps, MoveOps
  <2>1. status' \in [Phases -> Status]
    BY <1>7, MoveTypes DEF WriteReview, MoveOps
  <2>2. approvals' \in [Phases -> Nat] /\ rejections' \in [Phases -> Nat]
    BY <1>7, <2>0 DEF WriteReview, TypeOK
  <2> QED
    BY <1>7, <2>1, <2>2, EndTypes DEF WriteReview, TypeOK
<1>8. ASSUME NEW r \in Requests, StoreReport(r) PROVE TypeOK'
  <2>0. PhaseFor(job[r]) \in Phases /\ job[r].target \in Reports
    BY <1>8, JobTypes DEF StoreReport, ReportOps, PhaseOps, MoveOps
  <2>2. status' \in [Phases -> Status]
    BY <1>8, MoveTypes DEF StoreReport
  <2>3. /\ submissions' \in [Phases -> Nat]
        /\ linked' \in [Reports -> Nat]
        /\ told' \in [Reports -> Nat]
    BY <1>8, <2>0 DEF StoreReport, TypeOK
  <2> QED
    BY <1>8, <2>2, <2>3, GoTypes DEF StoreReport, TypeOK
<1>9. ASSUME NEW r \in Requests, Reply(r) PROVE TypeOK'
  <2>1. acked \union {job[r].target} \in SUBSET Reports
    BY <1>9, JobTypes DEF Reply, ReportOps, TypeOK
  <2> QED
    BY <1>9, <2>1, EndTypes DEF Reply, TypeOK
<1>10. ASSUME NEW r \in Requests, WriteNotice(r) PROVE TypeOK'
  <2>0. job[r].target \in Reports
    BY <1>10, JobTypes DEF WriteNotice, ReportOps, PhaseOps, MoveOps
  <2>1. noticed' \in [Reports -> Nat]
    BY <1>10, <2>0 DEF WriteNotice, TypeOK
  <2> QED
    BY <1>10, <2>1, EndTypes DEF WriteNotice, TypeOK
<1>11. ASSUME NEW r \in Requests, ReadProject(r) PROVE TypeOK'
  <2>1. CASE project.deleted
    BY <1>11, <2>1, EndTypes DEF ReadProject, TypeOK
  <2>2. CASE ~project.deleted
    BY <1>11, <2>2, GoTypes DEF ReadProject, TypeOK
  <2> QED
    BY <2>1, <2>2
<1>12. ASSUME NEW r \in Requests,
              InsertPhase(r) \/ DeletePhase(r)
       PROVE TypeOK'
  <2>1. row' \in [Phases -> {"absent", "live", "deleted"}]
    BY <1>12 DEF InsertPhase, DeletePhase, TypeOK
  <2>2. status' \in [Phases -> Status]
    BY <1>12 DEF InsertPhase, DeletePhase, TypeOK, Status
  <2> QED
    BY <1>12, <2>1, <2>2, EndTypes DEF InsertPhase, DeletePhase, TypeOK
<1>13. ASSUME NEW r \in Requests,
              MarkDone(r) \/ ReopenProject(r) \/ RemoveProject(r)
       PROVE TypeOK'
  <2>1. project' \in [closed : BOOLEAN, deleted : BOOLEAN]
    BY <1>13 DEF MarkDone, ReopenProject, RemoveProject, TypeOK
  <2>2. row' \in [Phases -> {"absent", "live", "deleted"}]
    BY <1>13 DEF MarkDone, ReopenProject, RemoveProject, TypeOK
  <2> QED
    BY <1>13, <2>1, <2>2, EndTypes DEF MarkDone, ReopenProject, RemoveProject, TypeOK
<1> QED
  BY <1>0, <1>1, <1>2, <1>3, <1>4, <1>5, <1>6, <1>7, <1>8, <1>9, <1>10, <1>11,
     <1>12, <1>13 DEF Next, Step
(* Whatever a step of request r does, it leaves what the other requests     *)
(* know true as long as submissions and reports only grow.                 *)
LEMMA InFlightKept ==
  ASSUME TypeOK, \A q \in Requests : InFlight(q), NEW r \in Requests,
         \A q \in Requests \ {r} :
           pc'[q] = pc[q] /\ job'[q] = job[q] /\ seen'[q] = seen[q],
         \A p \in Phases : submissions[p] > 0 => submissions'[p] > 0,
         reports \subseteq reports',
         InFlight(r)'
  PROVE  \A q \in Requests : InFlight(q)'
<1> SUFFICES ASSUME NEW q \in Requests, q # r PROVE InFlight(q)'
  OBVIOUS
<1>1. pc'[q] = pc[q] /\ job'[q] = job[q] /\ seen'[q] = seen[q] /\ InFlight(q)
  OBVIOUS
<1>2. job[q].op \in {"approve", "reject"} => PhaseFor(job[q]) \in Phases
  BY JobTypes DEF PhaseOps, MoveOps
<1> QED
  BY <1>1, <1>2 DEF InFlight, At, PhaseFor, MoveFor

(* Answering a request forgets what it knew.                               *)
LEMMA EndFrame ==
  ASSUME TypeOK, NEW r \in Requests, End(r)
  PROVE  /\ \A q \in Requests \ {r} :
               pc'[q] = pc[q] /\ job'[q] = job[q] /\ seen'[q] = seen[q]
         /\ InFlight(r)'
<1>1. pc'[r] = "idle"
  BY DEF End, TypeOK
<1> QED
  BY <1>1 DEF End, TypeOK, InFlight, At

LEMMA GoFrame ==
  ASSUME TypeOK, NEW r \in Requests, NEW s, Go(r, s)
  PROVE  /\ \A q \in Requests \ {r} :
               pc'[q] = pc[q] /\ job'[q] = job[q] /\ seen'[q] = seen[q]
         /\ pc'[r] = s /\ job'[r] = job[r] /\ seen'[r] = seen[r]
BY DEF Go, TypeOK

(* Steps that only read, or write columns AuditTrail and ReportIsWhole do  *)
(* not look at.                                                            *)
LEMMA RowsKept ==
  ASSUME IInv, UNCHANGED <<status, submissions, approvals, rejections, reports,
                           linked, told, acked>>
  PROVE  AuditTrail' /\ ReportIsWhole'
BY DEF IInv, AuditTrail, ReportIsWhole

LEMMA IInvInit == Init => IInv
<1> SUFFICES ASSUME Init PROVE IInv
  OBVIOUS
<1>1. TypeOK
  BY DEF Init, TypeOK, Status
<1>2. AuditTrail /\ ReportIsWhole
  BY DEF Init, AuditTrail, ReportIsWhole
<1>3. \A r \in Requests : InFlight(r)
  BY DEF Init, InFlight, At
<1> QED
  BY <1>1, <1>2, <1>3 DEF IInv

LEMMA IInvStep == IInv /\ [Next]_vars => IInv'
<1> SUFFICES ASSUME IInv, [Next]_vars PROVE IInv'
  OBVIOUS
<1>t. TypeOK /\ TypeOK'
  BY TypeStep DEF IInv
<1> USE <1>t
<1>0. CASE UNCHANGED vars
  BY <1>0 DEF vars, tables, stored, IInv, AuditTrail, ReportIsWhole, InFlight, At,
              PhaseFor, MoveFor
<1>1. ASSUME NEW r \in Requests, NEW j \in Jobs, Arrive(r, j) PROVE IInv'
  <2>1. AuditTrail' /\ ReportIsWhole'
    BY <1>1, RowsKept DEF Arrive, tables, stored
  <2>2. pc'[r] \in {"lookup", "read"}
    BY <1>1 DEF Arrive, TypeOK
  <2>3. InFlight(r)'
    BY <2>2 DEF InFlight, At
  <2>4. \A q \in Requests \ {r} :
          pc'[q] = pc[q] /\ job'[q] = job[q] /\ seen'[q] = seen[q]
    BY <1>1 DEF Arrive, TypeOK
  <2>5. \A q \in Requests : InFlight(q)'
    BY <1>1, <2>3, <2>4, InFlightKept DEF Arrive, tables, stored, IInv
  <2> QED
    BY <2>1, <2>5 DEF IInv
<1>2. ASSUME NEW r \in Requests, End(r),
             UNCHANGED <<status, submissions, approvals, rejections, reports,
                         linked, told, acked>>
      PROVE IInv'
  <2>1. AuditTrail' /\ ReportIsWhole'
    BY <1>2, RowsKept
  <2>2. \A q \in Requests : InFlight(q)'
    BY <1>2, EndFrame, InFlightKept DEF IInv
  <2> QED
    BY <2>1, <2>2 DEF IInv
<1>3. ASSUME NEW r \in Requests, NEW s, Go(r, s), UNCHANGED <<tables, acked>>,
             InFlight(r)'
      PROVE IInv'
  <2>1. AuditTrail' /\ ReportIsWhole'
    BY <1>3, RowsKept DEF tables, stored
  <2>2. \A q \in Requests : InFlight(q)'
    BY <1>3, GoFrame, InFlightKept DEF IInv, tables, stored
  <2> QED
    BY <2>1, <2>2 DEF IInv
<1>4. ASSUME NEW r \in Requests,
             \/ Abort(r) \/ PhaseNotFound(r) \/ MoveRefused(r) \/ ReportRefused(r)
             \/ ReportConflict(r) \/ NoticeOfReport(r) \/ NoticeRepeated(r)
             \/ PhaseIdTaken(r) \/ WriteNotice(r) \/ DeletePhase(r)
             \/ MarkDone(r) \/ ReopenProject(r) \/ RemoveProject(r)
      PROVE IInv'
  BY <1>2, <1>4 DEF Abort, PhaseNotFound, MoveRefused, ReportRefused, ReportConflict,
       NoticeOfReport, NoticeRepeated, PhaseIdTaken, WriteNotice, DeletePhase,
       MarkDone, ReopenProject, RemoveProject, tables, stored
<1>5. ASSUME NEW r \in Requests, ReadProject(r) PROVE IInv'
  <2>1. CASE End(r)
    BY <1>2, <1>5, <2>1 DEF ReadProject, tables, stored
  <2>2. CASE Go(r, "write")
    <3>1. pc'[r] = "write" /\ job'[r] = job[r]
      BY <2>2, GoFrame
    <3>2. job[r].op \in ProjectOps \union {"create"}
      BY <1>5 DEF ReadProject, At
    <3>3. InFlight(r)'
      BY <3>1, <3>2 DEF InFlight, At, ProjectOps, MoveOps
    <3> QED
      BY <1>3, <1>5, <2>2, <3>3 DEF ReadProject
  <2> QED
    BY <1>5, <2>1, <2>2 DEF ReadProject
<1>6. ASSUME NEW r \in Requests, NoticeUnknown(r) \/ NoticeIsNew(r) PROVE IInv'
  <2>1. PICK s : s \in {"read", "write"} /\ Go(r, s)
    BY <1>6 DEF NoticeUnknown, NoticeIsNew
  <2>2. job'[r].op = "notice" /\ pc'[r] = s
    BY <1>6, <2>1, GoFrame DEF NoticeUnknown, NoticeIsNew, At
  <2>3. InFlight(r)'
    BY <2>1, <2>2 DEF InFlight, At, MoveOps
  <2> QED
    BY <1>3, <1>6, <2>1, <2>3 DEF NoticeUnknown, NoticeIsNew
<1>7. ASSUME NEW r \in Requests, DuplicateReport(r) PROVE IInv'
  <2>1. pc'[r] = "reply" /\ job'[r] = job[r] /\ job[r].target \in reports'
    BY <1>7, GoFrame DEF DuplicateReport, tables, stored
  <2>2. InFlight(r)'
    BY <2>1 DEF InFlight, At
  <2> QED
    BY <1>3, <1>7, <2>2 DEF DuplicateReport
<1>8. ASSUME NEW r \in Requests, AcceptReport(r) PROVE IInv'
  <2>1. /\ pc'[r] = "write" /\ job'[r] = job[r] /\ seen'[r] = seen[r]
        /\ job[r].op = "report" /\ CanMove(Lenient, seen[r], "submit")
    BY <1>8, GoFrame DEF AcceptReport, At
  <2>2. InFlight(r)'
    BY <2>1 DEF InFlight, At, MoveFor
  <2> QED
    BY <1>3, <1>8, <2>2 DEF AcceptReport
<1>9. ASSUME NEW r \in Requests, ReadPhase(r) PROVE IInv'
  <2> DEFINE p == PhaseFor(job[r])
  <2>1. /\ p \in Phases
        /\ pc'[r] # "reply" /\ job' = job /\ seen'[r] = status[p]
        /\ submissions' = submissions /\ reports' = reports
        /\ pc'[r] = "write" => job[r].op \in PhaseOps
    BY <1>9, JobTypes DEF ReadPhase, At, TypeOK, tables, stored, ReportOps
  <2>2. job[r].op \in MoveOps => CanMove(Lenient, status[p], job[r].op)
    BY <1>9 DEF ReadPhase
  <2>3. job[r].op \in {"approve", "reject"} /\ ~Lenient => submissions[p] > 0
    <3>1. job[r].op \in {"approve", "reject"} /\ ~Lenient => status[p] = "pendingReview"
      BY <2>2 DEF CanMove, Sources, MoveOps
    <3> QED
      BY <2>1, <3>1 DEF IInv, AuditTrail
  <2>4. InFlight(r)'
    BY <2>1, <2>2, <2>3 DEF InFlight, At, PhaseFor, MoveFor, PhaseOps, MoveOps
  <2>5. AuditTrail' /\ ReportIsWhole'
    BY <1>9, RowsKept DEF ReadPhase, tables, stored
  <2>6. \A q \in Requests \ {r} :
          pc'[q] = pc[q] /\ job'[q] = job[q] /\ seen'[q] = seen[q]
    BY <1>9 DEF ReadPhase, TypeOK
  <2>7. \A q \in Requests : InFlight(q)'
    BY <2>1, <2>4, <2>6, InFlightKept DEF IInv
  <2> QED
    BY <2>5, <2>7 DEF IInv
<1>10. ASSUME NEW r \in Requests, WriteStart(r) PROVE IInv'
  <2> DEFINE p == PhaseFor(job[r])
  <2>1. p \in Phases /\ status' = [status EXCEPT ![p] = "inProgress"]
    <3>1. job[r].op \in {"start"} /\ Move(r, p)
      BY <1>10 DEF WriteStart, At
    <3>2. p \in Phases
      BY <3>1, JobTypes DEF PhaseOps, MoveOps
    <3>3. Target[MoveFor(job[r])] =
            "inProgress"
      BY <3>1 DEF MoveFor, Target
    <3> QED
      BY <3>1, <3>2, <3>3 DEF Move
  <2>2. AuditTrail' /\ ReportIsWhole'
    BY <1>10, <2>1 DEF WriteStart, stored, IInv, AuditTrail, ReportIsWhole, TypeOK
  <2>3. \A q \in Requests : InFlight(q)'
    BY <1>10, EndFrame, InFlightKept DEF WriteStart, stored, IInv
  <2> QED
    BY <2>2, <2>3 DEF IInv
<1>11. ASSUME NEW r \in Requests, WriteSubmission(r) PROVE IInv'
  <2> DEFINE p == PhaseFor(job[r])
  <2>1. p \in Phases /\ status' = [status EXCEPT ![p] = "pendingReview"]
    <3>1. job[r].op \in {"submit"} /\ Move(r, p)
      BY <1>11 DEF WriteSubmission, At
    <3>2. p \in Phases
      BY <3>1, JobTypes DEF PhaseOps, MoveOps
    <3>3. Target[MoveFor(job[r])] =
            "pendingReview"
      BY <3>1 DEF MoveFor, Target
    <3> QED
      BY <3>1, <3>2, <3>3 DEF Move
  <2>2. /\ submissions'[p] > 0
        /\ \A o \in Phases : submissions[o] > 0 => submissions'[o] > 0
    BY <1>11, <2>1 DEF WriteSubmission, TypeOK
  <2>3. AuditTrail'
    BY <1>11, <2>1, <2>2 DEF WriteSubmission, IInv, AuditTrail, TypeOK
  <2>4. ReportIsWhole'
    BY <1>11, <2>2, PhaseOfAssumption DEF WriteSubmission, IInv, ReportIsWhole, TypeOK
  <2>5. \A q \in Requests : InFlight(q)'
    BY <1>11, <2>2, EndFrame, InFlightKept DEF WriteSubmission, IInv
  <2> QED
    BY <2>3, <2>4, <2>5 DEF IInv
<1>12. ASSUME NEW r \in Requests, WriteReview(r) PROVE IInv'
  <2> DEFINE p == PhaseFor(job[r])
  <2>1. /\ p \in Phases
        /\ status' = [status EXCEPT ![p] =
             IF job[r].op = "approve" THEN "done" ELSE "inProgress"]
    <3>1. job[r].op \in {"approve", "reject"} /\ Move(r, p)
      BY <1>12 DEF WriteReview, At
    <3>2. p \in Phases
      BY <3>1, JobTypes DEF PhaseOps, MoveOps
    <3>3. Target[MoveFor(job[r])] =
            IF job[r].op = "approve" THEN "done" ELSE "inProgress"
      BY <3>1 DEF MoveFor, Target
    <3> QED
      BY <3>1, <3>2, <3>3 DEF Move
  <2>2. ~Lenient => submissions[p] > 0
    BY <1>12 DEF WriteReview, IInv, InFlight
  <2>3. /\ job[r].op = "approve" => approvals'[p] > 0
        /\ \A o \in Phases \ {p} :
             approvals'[o] = approvals[o] /\ rejections'[o] = rejections[o]
        /\ approvals'[p] >= approvals[p]
    BY <1>12, <2>1 DEF WriteReview, TypeOK
  <2>4. AuditTrail'
    <3> SUFFICES ASSUME NEW o \in Phases
                 PROVE /\ status'[o] = "pendingReview" => submissions'[o] > 0
                       /\ status'[o] = "done" => approvals'[o] > 0
                       /\ ~Lenient /\ approvals'[o] + rejections'[o] > 0 =>
                            submissions'[o] > 0
      BY DEF AuditTrail
    <3>1. submissions' = submissions
      BY <1>12 DEF WriteReview
    <3>2. CASE o = p
      BY <2>1, <2>2, <2>3, <3>1, <3>2 DEF TypeOK
    <3>3. CASE o # p
      BY <2>1, <2>3, <3>1, <3>3 DEF TypeOK, IInv, AuditTrail
    <3> QED
      BY <3>2, <3>3
  <2>5. ReportIsWhole'
    BY <1>12 DEF WriteReview, IInv, ReportIsWhole
  <2>6. \A q \in Requests : InFlight(q)'
    BY <1>12, EndFrame, InFlightKept DEF WriteReview, IInv
  <2> QED
    BY <2>4, <2>5, <2>6 DEF IInv
<1>13. ASSUME NEW r \in Requests, StoreReport(r) PROVE IInv'
  <2> DEFINE k == job[r].target
             p == PhaseFor(job[r])
  <2>1. /\ k \in Reports /\ p = PhaseOf[k] /\ p \in Phases
        /\ status' = [status EXCEPT ![p] = "pendingReview"]
    BY <1>13, JobTypes, PhaseOfAssumption
       DEF StoreReport, Move, MoveFor, At, Target, ReportOps, PhaseFor
  <2>2. /\ submissions'[p] > 0
        /\ \A o \in Phases : submissions[o] > 0 => submissions'[o] > 0
    BY <1>13, <2>1 DEF StoreReport, TypeOK
  <2>3. AuditTrail'
    BY <1>13, <2>1, <2>2 DEF StoreReport, IInv, AuditTrail, TypeOK
  <2>4. ReportIsWhole'
    <3>1. told[k] = 0 /\ linked[k] = 0
      BY <1>13, <2>1 DEF StoreReport, IInv, ReportIsWhole
    <3>2. told'[k] = 1 /\ linked'[k] = 1 /\ reports' = reports \union {k}
      BY <1>13, <2>1, <3>1 DEF StoreReport, TypeOK
    <3>3. \A i \in Reports \ {k} : told'[i] = told[i] /\ linked'[i] = linked[i]
      BY <1>13, <2>1 DEF StoreReport, TypeOK
    <3>4. acked' = acked
      BY <1>13 DEF StoreReport
    <3> QED
      BY <2>1, <2>2, <3>2, <3>3, <3>4, PhaseOfAssumption DEF IInv, ReportIsWhole
  <2>5. InFlight(r)'
    <3>1. pc'[r] = "reply" /\ job'[r] = job[r] /\ k \in reports'
      BY <1>13, GoFrame DEF StoreReport
    <3> QED
      BY <3>1 DEF InFlight, At
  <2>6. \A q \in Requests : InFlight(q)'
    BY <1>13, <2>2, <2>5, GoFrame, InFlightKept DEF StoreReport, IInv
  <2> QED
    BY <2>3, <2>4, <2>6 DEF IInv
<1>14. ASSUME NEW r \in Requests, Reply(r) PROVE IInv'
  <2>1. acked' = acked \union {job[r].target} /\ job[r].target \in reports
    BY <1>14 DEF Reply, IInv, InFlight
  <2>2. ReportIsWhole'
    BY <1>14, <2>1 DEF Reply, tables, stored, IInv, ReportIsWhole
  <2>3. AuditTrail'
    BY <1>14 DEF Reply, tables, stored, IInv, AuditTrail
  <2>4. \A q \in Requests : InFlight(q)'
    BY <1>14, EndFrame, InFlightKept DEF Reply, tables, stored, IInv
  <2> QED
    BY <2>2, <2>3, <2>4 DEF IInv
<1>15. ASSUME NEW r \in Requests, InsertPhase(r) PROVE IInv'
  <2>1. AuditTrail' /\ ReportIsWhole'
    BY <1>15 DEF InsertPhase, stored, IInv, AuditTrail, ReportIsWhole, TypeOK
  <2>2. \A q \in Requests : InFlight(q)'
    BY <1>15, EndFrame, InFlightKept DEF InsertPhase, stored, IInv
  <2> QED
    BY <2>1, <2>2 DEF IInv
<1> QED
  BY <1>0, <1>1, <1>4, <1>5, <1>6, <1>7, <1>8, <1>9, <1>10, <1>11, <1>12, <1>13,
     <1>14, <1>15 DEF Next, Step

-----------------------------------------------------------------------------
THEOREM TypeCorrect == Spec => []TypeOK
<1>1. Init => TypeOK
  BY DEF Init, TypeOK, Status
<1> QED
  BY <1>1, TypeStep, PTL DEF Spec

THEOREM IInvHolds == Spec => []IInv
BY IInvInit, IInvStep, PTL DEF Spec

(* AuditTrail: a phase up for review was submitted, a done phase approved. *)
THEOREM AuditTrailHolds == Spec => []AuditTrail
<1>1. IInv => AuditTrail
  BY DEF IInv
<1> QED
  BY <1>1, IInvHolds, PTL

(* ReportIsWhole: a report is stored once and whole before its device is   *)
(* told so, whatever retries race it.                                      *)
THEOREM ReportIsWholeHolds == Spec => []ReportIsWhole
<1>1. IInv => ReportIsWhole
  BY DEF IInv
<1> QED
  BY <1>1, IInvHolds, PTL

-----------------------------------------------------------------------------
(* What a step may do to a status: a move of its own request, or the       *)
(* insertion of a new row.                                                 *)
LEMMA StatusStep ==
  ASSUME TypeOK, NEW r \in Requests, Step(r)
  PROVE  \/ status' = status
         \/ /\ pc[r] = "write" /\ job[r].op \in MoveOps \union {"report"}
            /\ PhaseFor(job[r]) \in Phases
            /\ Move(r, PhaseFor(job[r]))
            /\ row' = row
         \/ InsertPhase(r)
<1>1. CASE WriteStart(r) \/ WriteSubmission(r) \/ WriteReview(r) \/ StoreReport(r)
  <2>1. /\ pc[r] = "write" /\ job[r].op \in MoveOps \union {"report"}
        /\ Move(r, PhaseFor(job[r])) /\ row' = row
    BY <1>1 DEF WriteStart, WriteSubmission, WriteReview, StoreReport, At, MoveOps
  <2>2. PhaseFor(job[r]) \in Phases
    BY <2>1, JobTypes DEF PhaseOps, ReportOps
  <2> QED
    BY <2>1, <2>2
<1>2. CASE Abort(r) \/ PhaseNotFound(r) \/ MoveRefused(r) \/ ReadPhase(r)
           \/ DuplicateReport(r) \/ ReportRefused(r) \/ AcceptReport(r)
           \/ ReportConflict(r) \/ Reply(r) \/ NoticeOfReport(r)
           \/ NoticeUnknown(r) \/ NoticeRepeated(r) \/ NoticeIsNew(r)
           \/ WriteNotice(r) \/ ReadProject(r) \/ PhaseIdTaken(r)
           \/ DeletePhase(r) \/ MarkDone(r) \/ ReopenProject(r)
           \/ RemoveProject(r)
  BY <1>2 DEF Abort, PhaseNotFound, MoveRefused, ReadPhase, DuplicateReport,
       ReportRefused, AcceptReport, ReportConflict, Reply, NoticeOfReport,
       NoticeUnknown, NoticeRepeated, NoticeIsNew, WriteNotice, ReadProject,
       PhaseIdTaken, DeletePhase, MarkDone, ReopenProject, RemoveProject, tables
<1> QED
  BY <1>1, <1>2 DEF Step

(* Rows never become absent again.                                         *)
LEMMA RowStep ==
  ASSUME TypeOK, NEW r \in Requests, Step(r), NEW p \in Phases,
         row[p] # "absent"
  PROVE  row'[p] # "absent"
<1>1. CASE InsertPhase(r) \/ DeletePhase(r) \/ RemoveProject(r)
  BY <1>1 DEF InsertPhase, DeletePhase, RemoveProject, TypeOK
<1>2. CASE row' = row
  BY <1>2
<1>3. CASE WriteStart(r) \/ WriteSubmission(r) \/ WriteReview(r) \/ StoreReport(r)
           \/ Abort(r) \/ PhaseNotFound(r) \/ MoveRefused(r) \/ ReadPhase(r)
           \/ DuplicateReport(r) \/ ReportRefused(r) \/ AcceptReport(r)
           \/ ReportConflict(r) \/ Reply(r) \/ NoticeOfReport(r)
           \/ NoticeUnknown(r) \/ NoticeRepeated(r) \/ NoticeIsNew(r)
           \/ WriteNotice(r) \/ ReadProject(r) \/ PhaseIdTaken(r)
           \/ MarkDone(r) \/ ReopenProject(r)
  <2>1. row' = row
    BY <1>3 DEF WriteStart, WriteSubmission, WriteReview, StoreReport, Abort,
       PhaseNotFound, MoveRefused, ReadPhase, DuplicateReport, ReportRefused,
       AcceptReport, ReportConflict, Reply, NoticeOfReport, NoticeUnknown,
       NoticeRepeated, NoticeIsNew, WriteNotice, ReadProject, PhaseIdTaken,
       MarkDone, ReopenProject, tables
  <2> QED
    BY <2>1
<1> QED
  BY <1>1, <1>3 DEF Step

(* A request reaches its lookup or its write only from the read of a row   *)
(* that is live.                                                           *)
LEMMA DecidedStep ==
  ASSUME TypeOK, NEW r \in Requests, Step(r),
         pc'[r] \in {"lookup", "write"}, job'[r].op \in MoveOps \union {"report"}
  PROVE  /\ job'[r] = job[r]
         /\ \/ row[PhaseFor(job[r])] = "live"
            \/ pc[r] \in {"lookup", "write"}
<1>1. CASE ReadPhase(r)
  BY <1>1 DEF ReadPhase, Visible
<1>2. CASE AcceptReport(r)
  BY <1>2, GoFrame DEF AcceptReport, At
<1>3. CASE End(r)
  BY <1>3, EndFrame DEF End, TypeOK
<1>4. CASE DuplicateReport(r) \/ StoreReport(r) \/ NoticeUnknown(r) \/ NoticeIsNew(r)
           \/ ReadProject(r)
  BY <1>3, <1>4, GoFrame DEF DuplicateReport, StoreReport, NoticeUnknown,
     NoticeIsNew, ReadProject, At, MoveOps, ProjectOps
<1> QED
  BY <1>1, <1>2, <1>3, <1>4 DEF Step, WriteStart, WriteSubmission, WriteReview,
     Abort, PhaseNotFound, MoveRefused, ReportRefused, ReportConflict, Reply,
     NoticeOfReport, NoticeRepeated, WriteNotice, PhaseIdTaken, InsertPhase,
     DeletePhase, MarkDone, ReopenProject, RemoveProject

LEMMA OthersKept ==
  ASSUME TypeOK, NEW r \in Requests, Step(r), NEW q \in Requests, q # r
  PROVE  pc'[q] = pc[q] /\ job'[q] = job[q]
<1>1. CASE End(r)
  BY <1>1, EndFrame
<1>2. CASE ReadPhase(r)
  BY <1>2 DEF ReadPhase, TypeOK
<1>3. CASE AcceptReport(r) \/ DuplicateReport(r) \/ StoreReport(r)
           \/ NoticeUnknown(r) \/ NoticeIsNew(r) \/ ReadProject(r)
  BY <1>1, <1>3, GoFrame DEF AcceptReport, DuplicateReport, StoreReport,
     NoticeUnknown, NoticeIsNew, ReadProject
<1> QED
  BY <1>1, <1>2, <1>3 DEF Step, WriteStart, WriteSubmission, WriteReview,
     Abort, PhaseNotFound, MoveRefused, ReportRefused, ReportConflict, Reply,
     NoticeOfReport, NoticeRepeated, WriteNotice, PhaseIdTaken, InsertPhase,
     DeletePhase, MarkDone, ReopenProject, RemoveProject

LEMMA RowInvStep == TypeOK /\ RowInv /\ [Next]_vars => RowInv'
<1> SUFFICES ASSUME TypeOK, RowInv, [Next]_vars PROVE RowInv'
  OBVIOUS
<1>0. CASE UNCHANGED vars
  BY <1>0 DEF vars, tables, RowInv, PhaseFor
<1>1. ASSUME NEW r \in Requests, NEW j \in Jobs, Arrive(r, j) PROVE RowInv'
  <2>1. pc'[r] \in {"lookup", "read"} /\ (pc'[r] = "lookup" => job'[r].op = "notice")
    BY <1>1 DEF Arrive, TypeOK
  <2>2. \A q \in Requests \ {r} : pc'[q] = pc[q] /\ job'[q] = job[q]
    BY <1>1 DEF Arrive, TypeOK
  <2>3. row' = row /\ status' = status
    BY <1>1 DEF Arrive, tables
  <2> QED
    BY <2>1, <2>2, <2>3 DEF RowInv, PhaseFor, MoveOps
<1>2. ASSUME NEW r \in Requests, Step(r) PROVE RowInv'
  <2>1. ASSUME NEW p \in Phases, row'[p] = "absent" PROVE status'[p] = "notStarted"
    <3>1. row[p] = "absent" /\ status[p] = "notStarted"
      BY <1>2, <2>1, RowStep DEF RowInv
    <3>2. CASE InsertPhase(r)
      BY <3>1, <3>2 DEF InsertPhase, TypeOK
    <3>3. CASE /\ pc[r] = "write" /\ job[r].op \in MoveOps \union {"report"}
               /\ PhaseFor(job[r]) \in Phases
               /\ Move(r, PhaseFor(job[r]))
      <4>1. p # PhaseFor(job[r])
        BY <3>1, <3>3 DEF RowInv
      <4> QED
        BY <3>1, <3>3, <4>1 DEF Move, TypeOK
    <3> QED
      BY <1>2, <3>1, <3>2, <3>3, StatusStep
  <2>2. ASSUME NEW q \in Requests,
               pc'[q] \in {"lookup", "write"},
               job'[q].op \in MoveOps \union {"report"}
        PROVE  row'[PhaseFor(job'[q])] # "absent"
    <3>1. job'[q] = job[q] /\ row[PhaseFor(job[q])] # "absent"
      <4>1. CASE q = r
        BY <1>2, <2>2, <4>1, DecidedStep DEF RowInv
      <4>2. CASE q # r
        <5>1. pc'[q] = pc[q] /\ job'[q] = job[q]
          BY <1>2, <4>2, OthersKept
        <5> QED
          BY <2>2, <5>1 DEF RowInv
      <4> QED
        BY <4>1, <4>2
    <3>2. PhaseFor(job[q]) \in Phases
      BY <2>2, <3>1, JobTypes DEF PhaseOps, ReportOps
    <3> QED
      BY <1>2, <3>1, <3>2, RowStep
  <2> QED
    BY <2>1, <2>2 DEF RowInv, PhaseFor
<1> QED
  BY <1>0, <1>1, <1>2 DEF Next

THEOREM RowInvHolds == Spec => []RowInv
<1>1. Init => RowInv
  BY DEF Init, RowInv
<1> QED
  BY <1>1, RowInvStep, TypeCorrect, PTL DEF Spec

(* DoneLeftByStaleReadOnly: without a request that read the phase before   *)
(* its approval, done is final in strict mode.                             *)
THEOREM DoneIsFinalForFreshReads == Spec => DoneLeftByStaleReadOnly
<1> DEFINE Escape ==
      \A p \in Phases :
        ~Lenient /\ status[p] = "done" /\ status'[p] # "done" =>
          \E r \in Requests :
            pc[r] = "write" /\ PhaseFor(job[r]) = p /\ seen[r] # "done"
<1>1. IInv /\ RowInv /\ [Next]_vars => [Escape]_vars
  <2> SUFFICES ASSUME IInv, RowInv, Next, NEW p \in Phases, ~Lenient,
                      status[p] = "done", status'[p] # "done"
               PROVE  \E r \in Requests :
                        pc[r] = "write" /\ PhaseFor(job[r]) = p /\ seen[r] # "done"
    OBVIOUS
  <2>t. TypeOK
    BY DEF IInv
  <2>1. PICK r \in Requests : (\E j \in Jobs : Arrive(r, j)) \/ Step(r)
    BY DEF Next
  <2>2. Step(r)
    BY <2>1 DEF Arrive, tables
  <2>3. ~InsertPhase(r)
    BY <2>t DEF InsertPhase, RowInv, TypeOK
  <2>4. /\ pc[r] = "write" /\ job[r].op \in MoveOps \union {"report"}
        /\ Move(r, PhaseFor(job[r]))
    BY <2>2, <2>3, <2>t, StatusStep
  <2>5. PhaseFor(job[r]) = p
    BY <2>4, <2>t DEF Move, TypeOK
  <2>6. CanMove(Lenient, seen[r], MoveFor(job[r]))
    BY <2>4 DEF IInv, InFlight, At
  <2>7. seen[r] # "done"
    BY <2>4, <2>6 DEF CanMove, Sources, MoveFor, MoveOps
  <2> QED
    BY <2>4, <2>5, <2>7
<1> QED
  BY <1>1, IInvHolds, RowInvHolds, PTL DEF Spec, DoneLeftByStaleReadOnly

-----------------------------------------------------------------------------
(* A request that comes to know a status does so in a step that leaves the *)
(* status alone.                                                           *)
LEMMA DecidedBy ==
  ASSUME TypeOK, NEW r \in Requests, Step(r),
         pc'[r] \in {"lookup", "write"}, job'[r].op \in MoveOps \union {"report"}
  PROVE  ReadPhase(r) \/ AcceptReport(r)
<1>1. CASE End(r)
  BY <1>1, EndFrame DEF End, TypeOK
<1>2. CASE DuplicateReport(r) \/ StoreReport(r) \/ NoticeUnknown(r) \/ NoticeIsNew(r)
           \/ ReadProject(r)
  BY <1>1, <1>2, GoFrame DEF DuplicateReport, StoreReport, NoticeUnknown,
     NoticeIsNew, ReadProject, At, MoveOps, ProjectOps
<1> QED
  BY <1>1, <1>2 DEF Step, WriteStart, WriteSubmission, WriteReview,
     Abort, PhaseNotFound, MoveRefused, ReportRefused, ReportConflict, Reply,
     NoticeOfReport, NoticeRepeated, WriteNotice, PhaseIdTaken, InsertPhase,
     DeletePhase, MarkDone, ReopenProject, RemoveProject

LEMMA SerialInvStep ==
  ASSUME \A q, r \in Requests : q = r
  PROVE  TypeOK /\ SerialInv /\ [Next]_vars => SerialInv'
<1> SUFFICES ASSUME TypeOK, SerialInv, [Next]_vars, NEW r \in Requests,
                    pc'[r] \in {"lookup", "write"},
                    job'[r].op \in MoveOps \union {"report"}
             PROVE  seen'[r] = status'[PhaseFor(job'[r])]
  BY DEF SerialInv, PhaseFor
<1>0. CASE UNCHANGED vars
  BY <1>0 DEF vars, tables, SerialInv, PhaseFor
<1>1. CASE \E j \in Jobs : Arrive(r, j)
  BY <1>1 DEF Arrive, TypeOK, MoveOps
<1>2. CASE Step(r)
  <2>1. CASE ReadPhase(r)
    <3>1. seen'[r] = status[PhaseFor(job[r])] /\ job' = job /\ status' = status
      BY <2>1 DEF ReadPhase, tables, TypeOK
    <3> QED
      BY <3>1
  <2>2. CASE AcceptReport(r)
    <3>1. /\ pc[r] = "lookup" /\ job[r].op = "report"
          /\ seen' = seen /\ job' = job /\ status' = status
      BY <2>2 DEF AcceptReport, At, Go, tables
    <3> QED
      BY <3>1 DEF SerialInv
  <2> QED
    BY <1>2, <2>1, <2>2, DecidedBy
<1> QED
  BY <1>0, <1>1, <1>2 DEF Next

(* ImplementsStrictPhase: without overlap the handlers implement the       *)
(* strict machine.                                                         *)
THEOREM SerialImplementsStrictPhase ==
  ASSUME \A q, r \in Requests : q = r, ~Lenient
  PROVE  Spec => ImplementsStrictPhase
<1> DEFINE revs == [p \in Phases |-> approvals[p] + rejections[p]]
<1>1. Init => Strict!Init /\ SerialInv
  BY DEF Init, Strict!Init, SerialInv
<1>2. IInv /\ RowInv /\ SerialInv /\ [Next]_vars => [Strict!Next]_(Strict!vars)
  <2> SUFFICES ASSUME IInv, RowInv, SerialInv, [Next]_vars
               PROVE  Strict!Next \/ UNCHANGED <<status, submissions, revs>>
    BY DEF Strict!vars
  <2>t. TypeOK
    BY DEF IInv
  <2>0. CASE UNCHANGED vars
    BY <2>0 DEF vars, tables, stored
  <2>1. ASSUME NEW r \in Requests, NEW j \in Jobs, Arrive(r, j)
        PROVE  UNCHANGED <<status, submissions, revs>>
    BY <2>1 DEF Arrive, tables, stored
  <2>2. ASSUME NEW r \in Requests, pc[r] = "write",
               job[r].op \in MoveOps \union {"report"}
        PROVE  /\ PhaseFor(job[r]) \in Phases
               /\ status[PhaseFor(job[r])] \in Sources[MoveFor(job[r])]
    <3>1. PhaseFor(job[r]) \in Phases
      BY <2>2, <2>t, JobTypes DEF PhaseOps, ReportOps
    <3>2. seen[r] \in Sources[MoveFor(job[r])]
      BY <2>2 DEF IInv, InFlight, At, CanMove
    <3>3. seen[r] = status[PhaseFor(job[r])]
      BY <2>2 DEF SerialInv
    <3> QED
      BY <3>1, <3>2, <3>3
  <2>3. ASSUME NEW r \in Requests, WriteStart(r) PROVE Strict!Next
    <3> DEFINE p == PhaseFor(job[r])
    <3>1. pc[r] = "write" /\ job[r].op = "start" /\ MoveFor(job[r]) = "start"
      BY <2>3 DEF WriteStart, At, MoveFor
    <3>2. p \in Phases /\ status[p] = "notStarted"
      BY <2>2, <3>1 DEF Sources, MoveOps
    <3>3. status' = [status EXCEPT ![p] = "inProgress"]
      BY <2>3, <3>1 DEF WriteStart, Move, Target
    <3>4. UNCHANGED <<submissions, revs>>
      BY <2>3 DEF WriteStart, stored
    <3>5. Strict!Start(p)
      BY <3>2, <3>3, <3>4 DEF Strict!Start
    <3> QED
      BY <3>2, <3>5 DEF Strict!Next
  <2>4. ASSUME NEW r \in Requests, WriteSubmission(r) \/ StoreReport(r)
        PROVE  Strict!Next
    <3> DEFINE p == PhaseFor(job[r])
    <3>1. /\ pc[r] = "write" /\ job[r].op \in {"submit", "report"}
          /\ MoveFor(job[r]) = "submit"
      BY <2>4 DEF WriteSubmission, StoreReport, At, MoveFor
    <3>2. p \in Phases /\ status[p] # "done"
      BY <2>2, <3>1 DEF Sources, MoveOps
    <3>3. status' = [status EXCEPT ![p] = "pendingReview"]
      BY <2>4, <3>1 DEF WriteSubmission, StoreReport, Move, Target
    <3>4. submissions' = [submissions EXCEPT ![p] = @ + 1] /\ UNCHANGED revs
      BY <2>4 DEF WriteSubmission, StoreReport
    <3>5. Strict!Submit(p)
      BY <3>2, <3>3, <3>4 DEF Strict!Submit
    <3> QED
      BY <3>2, <3>5 DEF Strict!Next
  <2>5. ASSUME NEW r \in Requests, WriteReview(r) PROVE Strict!Next
    <3> DEFINE p == PhaseFor(job[r])
               verdict == IF job[r].op = "approve" THEN "done" ELSE "inProgress"
    <3>1. /\ pc[r] = "write" /\ job[r].op \in {"approve", "reject"}
          /\ MoveFor(job[r]) = job[r].op
      BY <2>5 DEF WriteReview, At, MoveFor
    <3>2. p \in Phases /\ status[p] = "pendingReview"
      BY <2>2, <3>1 DEF Sources, MoveOps
    <3>3. status' = [status EXCEPT ![p] = verdict]
      <4>1. Target[MoveFor(job[r])] = verdict
        BY <3>1 DEF Target
      <4> QED
        BY <2>5, <4>1 DEF WriteReview, Move
    <3>4. revs' = [revs EXCEPT ![p] = @ + 1] /\ UNCHANGED submissions
      <4>1. ASSUME NEW o \in Phases
            PROVE  approvals'[o] + rejections'[o] =
                     IF o = p THEN approvals[o] + rejections[o] + 1
                     ELSE approvals[o] + rejections[o]
        BY <2>5, <3>1, <3>2, <2>t DEF WriteReview, TypeOK
      <4>2. UNCHANGED submissions
        BY <2>5 DEF WriteReview
      <4>3. /\ DOMAIN revs = Phases
            /\ revs' = [o \in Phases |-> approvals'[o] + rejections'[o]]
            /\ revs = [o \in Phases |-> approvals[o] + rejections[o]]
        OBVIOUS
      <4> QED
        BY <3>2, <4>1, <4>2, <4>3
    <3>5. \E q \in Phases : q = p
      BY <3>2
    <3>6. \E v \in {"done", "inProgress"} : v = verdict
      OBVIOUS
    <3>7. PICK q \in Phases : q = p
      BY <3>5
    <3>8. PICK v \in {"done", "inProgress"} : v = verdict
      BY <3>6
    <3>9. Strict!Review(q, v)
      BY <3>2, <3>3, <3>4, <3>7, <3>8 DEF Strict!Review
    <3> QED
      BY <3>9 DEF Strict!Next
  <2>6. ASSUME NEW r \in Requests, InsertPhase(r)
        PROVE  UNCHANGED <<status, submissions, revs>>
    <3>1. status' = status
      BY <2>6, <2>t DEF InsertPhase, RowInv, TypeOK
    <3> QED
      BY <2>6, <3>1 DEF InsertPhase, stored
  <2>7. ASSUME NEW r \in Requests, Step(r),
               ~(WriteStart(r) \/ WriteSubmission(r) \/ StoreReport(r)
                 \/ WriteReview(r) \/ InsertPhase(r))
        PROVE  UNCHANGED <<status, submissions, revs>>
    BY <2>7 DEF Step, Abort, PhaseNotFound, MoveRefused, ReadPhase,
       DuplicateReport, ReportRefused, AcceptReport, ReportConflict, Reply,
       NoticeOfReport, NoticeUnknown, NoticeRepeated, NoticeIsNew, WriteNotice,
       ReadProject, PhaseIdTaken, DeletePhase, MarkDone, ReopenProject,
       RemoveProject, tables, stored
  <2> QED
    BY <2>0, <2>1, <2>3, <2>4, <2>5, <2>6, <2>7 DEF Next
<1> QED
  BY <1>1, <1>2, SerialInvStep, IInvHolds, RowInvHolds, TypeCorrect, PTL
     DEF Spec, ImplementsStrictPhase, Strict!Spec
-----------------------------------------------------------------------------
(* What the one request in flight still knows when it writes.              *)
Knows(r) ==
  /\ At(r, "write", {"create"}) => ~project.deleted
  /\ At(r, "write", {"notice"}) => noticed[job[r].target] = 0
  /\ pc[r] \in {"lookup", "write"} /\ job[r].op \in MoveOps \union {"report"} =>
       row[PhaseFor(job[r])] = "live"

TidyInv == SerialTidy /\ \A r \in Requests : Knows(r)

(* Who writes rows, the project, and the notices.                          *)
LEMMA TidyFrame ==
  ASSUME NEW r \in Requests, Step(r)
  PROVE  /\ row' = row \/ InsertPhase(r) \/ DeletePhase(r) \/ RemoveProject(r)
         /\ project' = project \/ MarkDone(r) \/ ReopenProject(r) \/ RemoveProject(r)
         /\ noticed' = noticed \/ WriteNotice(r)
BY DEF Step, Abort, PhaseNotFound, MoveRefused, ReadPhase, WriteStart, WriteSubmission,
   WriteReview, DuplicateReport, ReportRefused, AcceptReport, StoreReport, ReportConflict,
   Reply, NoticeOfReport, NoticeUnknown, NoticeRepeated, NoticeIsNew, WriteNotice,
   ReadProject, InsertPhase, PhaseIdTaken, DeletePhase, MarkDone, ReopenProject,
   RemoveProject, tables, stored

(* A write is reached only from a read.                                    *)
LEMMA WriteReached ==
  ASSUME TypeOK, NEW r \in Requests, Step(r), pc'[r] = "write"
  PROVE  /\ ReadPhase(r) \/ AcceptReport(r) \/ NoticeIsNew(r) \/ ReadProject(r)
         /\ job'[r] = job[r] /\ UNCHANGED tables
<1>1. ~End(r)
  BY DEF End, TypeOK
<1>2. ASSUME DuplicateReport(r) \/ StoreReport(r) \/ NoticeUnknown(r) PROVE FALSE
  BY <1>2, GoFrame DEF DuplicateReport, StoreReport, NoticeUnknown
<1>3. ReadPhase(r) \/ AcceptReport(r) \/ NoticeIsNew(r) \/ ReadProject(r)
  BY <1>1, <1>2 DEF Step, WriteStart, WriteSubmission, WriteReview,
     Abort, PhaseNotFound, MoveRefused, ReportRefused, ReportConflict, Reply,
     NoticeOfReport, NoticeRepeated, WriteNotice, PhaseIdTaken, InsertPhase,
     DeletePhase, MarkDone, ReopenProject, RemoveProject
<1> QED
  BY <1>1, <1>3 DEF ReadPhase, AcceptReport, NoticeIsNew, ReadProject, Go

LEMMA KnowsStep ==
  ASSUME TypeOK, TidyInv, NEW r \in Requests, Step(r)
  PROVE  Knows(r)'
<1>1. ASSUME pc'[r] = "write", job'[r].op = "create" PROVE ~project'.deleted
  <2>1. ReadProject(r) /\ project' = project
    BY <1>1, WriteReached DEF ReadPhase, AcceptReport, NoticeIsNew, At, PhaseOps, ReportOps,
                              MoveOps, tables
  <2> QED
    BY <1>1, <2>1 DEF ReadProject, End, TypeOK
<1>2. ASSUME pc'[r] = "write", job'[r].op = "notice" PROVE noticed'[job'[r].target] = 0
  <2>1. job'[r] = job[r] /\ noticed' = noticed
    BY <1>2, WriteReached DEF tables, stored
  <2>2. ~ReadPhase(r)
    BY <1>2, <2>1 DEF ReadPhase, TypeOK
  <2>3. NoticeIsNew(r)
    BY <1>2, <2>1, <2>2, WriteReached DEF AcceptReport, ReadProject, At, ProjectOps
  <2> QED
    BY <2>1, <2>3 DEF NoticeIsNew
<1>3. ASSUME pc'[r] \in {"lookup", "write"}, job'[r].op \in MoveOps \union {"report"}
      PROVE  row'[PhaseFor(job'[r])] = "live"
  <2>1. job'[r] = job[r] /\ (row[PhaseFor(job[r])] = "live" \/ pc[r] \in {"lookup", "write"})
    BY <1>3, DecidedStep
  <2>2. row' = row
    BY <1>3, DecidedBy DEF ReadPhase, AcceptReport, tables
  <2> QED
    BY <1>3, <2>1, <2>2 DEF TidyInv, Knows
<1> QED
  BY <1>1, <1>2, <1>3 DEF Knows, At, PhaseFor

LEMMA TidyStep ==
  ASSUME \A q, r \in Requests : q = r
  PROVE  TypeOK /\ TidyInv /\ [Next]_vars => TidyInv'
<1> SUFFICES ASSUME TypeOK, TidyInv, [Next]_vars PROVE TidyInv'
  OBVIOUS
<1>0. CASE UNCHANGED vars
  BY <1>0 DEF vars, tables, stored, TidyInv, SerialTidy, Knows, At, PhaseFor
<1>1. ASSUME NEW r \in Requests, NEW j \in Jobs, Arrive(r, j) PROVE TidyInv'
  <2>1. /\ pc'[r] \in {"lookup", "read"} /\ (pc'[r] = "lookup" => job'[r].op = "notice")
        /\ UNCHANGED tables
    BY <1>1 DEF Arrive, TypeOK
  <2>2. Knows(r)'
    BY <2>1 DEF Knows, At, MoveOps
  <2>3. SerialTidy'
    BY <2>1 DEF TidyInv, SerialTidy, tables, stored
  <2> QED
    BY <2>2, <2>3 DEF TidyInv
<1>2. ASSUME NEW r \in Requests, Step(r) PROVE TidyInv'
  <2>1. ASSUME project'.deleted, NEW p \in Phases PROVE row'[p] # "live"
    <3>1. CASE InsertPhase(r)
      BY <2>1, <3>1 DEF InsertPhase, TidyInv, Knows
    <3>2. CASE DeletePhase(r)
      BY <2>1, <3>2 DEF DeletePhase, TidyInv, SerialTidy, TypeOK
    <3>3. CASE RemoveProject(r)
      BY <2>1, <3>3 DEF RemoveProject
    <3>4. CASE row' = row /\ ~RemoveProject(r)
      <4>1. project'.deleted = project.deleted
        BY <1>2, <3>4, TidyFrame DEF MarkDone, ReopenProject, TypeOK
      <4> QED
        BY <2>1, <3>4, <4>1 DEF TidyInv, SerialTidy
    <3> QED
      BY <1>2, <3>1, <3>2, <3>3, <3>4, TidyFrame
  <2>2. ASSUME NEW k \in Reports PROVE noticed'[k] <= 1
    <3>1. CASE WriteNotice(r)
      BY <3>1 DEF WriteNotice, TidyInv, SerialTidy, Knows, At, TypeOK
    <3> QED
      BY <1>2, <3>1, TidyFrame DEF TidyInv, SerialTidy
  <2> QED
    BY <1>2, <2>1, <2>2, KnowsStep DEF TidyInv, SerialTidy
<1> QED
  BY <1>0, <1>1, <1>2 DEF Next

LEMMA TidyStart == Init => TidyInv
BY DEF Init, TidyInv, SerialTidy, Knows, At

(* SerialTidy: without overlap a removed project leaves no live phase and  *)
(* a repeated notice is recognised (projects.service.ts remove,            *)
(* worker-reports.service.ts ingestOutOfBandNotice).                       *)
THEOREM SerialTidyHolds ==
  ASSUME \A q, r \in Requests : q = r
  PROVE  Spec => []SerialTidy
<1>1. TidyInv => SerialTidy
  BY DEF TidyInv
<1> QED
  BY TidyStart, TidyStep, TypeCorrect, <1>1, PTL DEF Spec

(* ProjectStaysDone: without overlap a finished project stays finished     *)
(* until it is reopened, gets a phase, or loses its last one.              *)
THEOREM SerialProjectStaysDone ==
  ASSUME \A q, r \in Requests : q = r, ~Lenient
  PROVE  Spec => ProjectStaysDone
<1> DEFINE Escape ==
      ProjectStatus = "done" /\ ProjectStatus' # "done" =>
        \/ project.closed /\ ~project'.closed
        \/ \E p \in Phases : row[p] = "absent" /\ row'[p] = "live"
        \/ \A p \in Phases : row'[p] # "live"
<1>1. IInv /\ TidyInv /\ SerialInv /\ [Next]_vars => [Escape]_vars
  <2> SUFFICES ASSUME IInv, TidyInv, SerialInv, Next,
                      ProjectStatus = "done", ProjectStatus' # "done",
                      ~(project.closed /\ ~project'.closed),
                      NEW q \in Phases, row'[q] = "live"
               PROVE  \E p \in Phases : row[p] = "absent" /\ row'[p] = "live"
    OBVIOUS
  <2>t. TypeOK
    BY DEF IInv
  <2>1. PICK r \in Requests : (\E j \in Jobs : Arrive(r, j)) \/ Step(r)
    BY DEF Next
  <2>2. ~project'.closed
    BY DEF ProjectStatus, Derive
  <2>3. ~project.closed
    BY <2>2
  <2>4. PICK p \in Phases : row'[p] = "live" /\ status'[p] # "done"
    BY <2>2 DEF ProjectStatus, Derive, DeriveFromPhases
  <2>5. \A u \in Phases : row[u] = "live" => status[u] = "done"
    BY <2>3 DEF ProjectStatus, Derive, DeriveFromPhases
  <2>6. CASE InsertPhase(r)
    <3>1. job[r].target \in Phases
      BY <2>6, <2>t, JobTypes DEF InsertPhase, At, PhaseOps
    <3> QED
      BY <2>6, <2>t, <3>1 DEF InsertPhase, TypeOK
  <2>7. CASE ~InsertPhase(r)
    <3>1. Step(r) \/ (row' = row /\ status' = status)
      BY <2>1 DEF Arrive, tables
    <3>2. row[p] = "live"
      BY <2>4, <2>7, <2>t, <3>1, TidyFrame DEF DeletePhase, RemoveProject, TypeOK
    <3>3. Step(r) /\ status'[p] # status[p]
      BY <2>4, <2>5, <3>1, <3>2
    <3>4. /\ pc[r] = "write" /\ job[r].op \in MoveOps \union {"report"}
          /\ Move(r, PhaseFor(job[r])) /\ PhaseFor(job[r]) \in Phases
      BY <2>7, <2>t, <3>3, StatusStep
    <3>5. PhaseFor(job[r]) = p
      BY <2>t, <3>3, <3>4 DEF Move, TypeOK
    <3>6. CanMove(Lenient, status[p], MoveFor(job[r]))
      BY <3>4, <3>5 DEF IInv, InFlight, At, SerialInv
    <3>7. status[p] # "done"
      BY <3>4, <3>6 DEF CanMove, Sources, MoveFor, MoveOps
    <3> QED
      BY <2>5, <3>2, <3>7
  <2> QED
    BY <2>6, <2>7
<1>2. Init => SerialInv
  BY DEF Init, SerialInv
<1> QED
  BY <1>1, <1>2, TidyStart, TidyStep, SerialInvStep, IInvHolds, TypeCorrect, PTL
     DEF Spec, ProjectStaysDone
=============================================================================
