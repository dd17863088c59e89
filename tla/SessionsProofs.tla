--------------------------- MODULE SessionsProofs ---------------------------
(***************************************************************************)
(* Theorems about Sessions, for every set of users, employees, sessions,   *)
(* tokens, tickets and request slots: it is type correct, a ticket opens   *)
(* one session, and an ended session stays ended.                          *)
(***************************************************************************)
EXTENDS Sessions, TLAPS

(* What a request asks for determines the type of its target.              *)
LEMMA JobTypes ==
  ASSUME TypeOK, NEW r \in Requests
  PROVE  /\ job[r].op \in GuardedOps => job[r].of \in Sessions
         /\ job[r].op = "refresh" => job[r].of \in Tokens
         /\ job[r].op = "login" => job[r].of \in Foremen
         /\ job[r].op \in {"issue", "redeem"} => job[r].of \in Tickets
         /\ job[r].op \in EmployeeOps => job[r].of \in Workers
<1>1. job[r] \in Jobs \union {NoJob}
  BY DEF TypeOK
<1> QED
  BY <1>1 DEF Jobs, NoJob, GuardedOps, EmployeeOps

(* Answering a request, or passing to its next await, keeps the request    *)
(* table well typed and leaves the other requests alone.                   *)
LEMMA EndFrame ==
  ASSUME TypeOK, NEW r \in Requests, End(r)
  PROVE  /\ pc' \in [Requests -> Awaits \union {"idle"}]
         /\ job' \in [Requests -> Jobs \union {NoJob}]
         /\ minted' \in [Requests -> Tokens \union {Nobody}]
         /\ wasActive' \in [Requests -> BOOLEAN]
         /\ arrived' \in Nat
         /\ pc'[r] = "idle" /\ job'[r] = NoJob
         /\ \A q \in Requests : q # r =>
              pc'[q] = pc[q] /\ job'[q] = job[q] /\ minted'[q] = minted[q]
BY DEF End, TypeOK

LEMMA GoFrame ==
  ASSUME TypeOK, NEW r \in Requests, NEW step \in Awaits, Go(r, step)
  PROVE  /\ pc' \in [Requests -> Awaits \union {"idle"}]
         /\ job' \in [Requests -> Jobs \union {NoJob}]
         /\ minted' \in [Requests -> Tokens \union {Nobody}]
         /\ wasActive' \in [Requests -> BOOLEAN]
         /\ arrived' \in Nat
         /\ pc'[r] = step /\ job' = job /\ minted' = minted
         /\ \A q \in Requests : q # r => pc'[q] = pc[q]
BY DEF Go, TypeOK

LEMMA MintFrame ==
  ASSUME TypeOK, NEW r \in Requests, NEW t \in Tokens, NEW s \in Sessions,
         NEW step \in Awaits, Mint(r, t, s, step)
  PROVE  /\ token' \in [Tokens -> {"none", "live", "revoked", "pruned"}]
         /\ family' \in [Tokens -> Sessions \union {Nobody}]
         /\ pc' \in [Requests -> Awaits \union {"idle"}]
         /\ minted' \in [Requests -> Tokens \union {Nobody}]
         /\ pc'[r] = step /\ minted'[r] = t /\ job' = job
         /\ \A q \in Requests : q # r => pc'[q] = pc[q] /\ minted'[q] = minted[q]
         /\ token[t] = "none" /\ token'[t] = "live" /\ family'[t] = s
         /\ \A x \in Tokens : x # t => token'[x] = token[x] /\ family'[x] = family[x]
         /\ UNCHANGED <<standing, ticket, expired, cached, known, wasActive, past, arrived>>
BY DEF Mint, TypeOK

LEMMA RevokeFrame ==
  ASSUME TypeOK, NEW ss \in SUBSET Sessions, Revoke(ss)
  PROVE  /\ token' \in [Tokens -> {"none", "live", "revoked", "pruned"}]
         /\ \A t \in Tokens : token'[t] = "live" => token[t] = "live" /\ family[t] \notin ss
         /\ \A t \in Tokens : token'[t] = "none" <=> token[t] = "none"
BY DEF Revoke, TypeOK

LEMMA QuietTypes ==
  ASSUME NEW ss \in SUBSET Sessions, NEW r
  PROVE  Quiet(r, ss) \in SUBSET Sessions /\ Quiet(r, ss) \subseteq ss
BY DEF Quiet

LEMMA LogoutSessionsTypes ==
  ASSUME TypeOK, NEW r \in Requests, job[r].op \in GuardedOps
  PROVE  LogoutSessions(r) \in SUBSET Sessions
BY JobTypes DEF LogoutSessions, SessionsOf

LEMMA TypeStep == TypeOK /\ (\A r \in Requests : PcInv(r)) /\ RowsInv /\ [Next]_vars => TypeOK'
<1> SUFFICES ASSUME TypeOK, \A r \in Requests : PcInv(r), RowsInv, [Next]_vars
             PROVE  TypeOK'
  OBVIOUS
<1> USE DEF people, rows, slots, past
<1>0. CASE UNCHANGED vars
  BY <1>0 DEF TypeOK, vars
<1>1. ASSUME NEW r \in Requests, NEW j \in Jobs, Arrive(r, j) PROVE TypeOK'
  BY <1>1 DEF TypeOK, Arrive, Awaits
<1>2. ASSUME NEW r \in Requests, Abort(r) \/ Serve(r) PROVE TypeOK'
  BY <1>2, EndFrame DEF Abort, Serve, TypeOK
<1>3. ASSUME NEW r \in Requests,
             \/ CheckSession(r) \/ CheckSubject(r) \/ ReadToken(r) \/ ReadUser(r)
             \/ ReadTicket(r) \/ ReadTicketEmployee(r)
      PROVE  TypeOK'
  <2>1. /\ End(r) \/ \E step \in Awaits : Go(r, step)
        /\ UNCHANGED <<people, rows, cached, known, past>>
    BY <1>3 DEF CheckSession, CheckSubject, ReadToken, ReadUser, ReadTicket,
       ReadTicketEmployee, Awaits
  <2> QED
    BY <2>1, EndFrame, GoFrame DEF TypeOK
<1>4. ASSUME NEW r \in Requests, Remember(r) PROVE TypeOK'
  BY <1>4, GoFrame DEF Remember, TypeOK, Awaits
<1>5. ASSUME NEW r \in Requests, RevokeOwn(r) PROVE TypeOK'
  <2>1. LogoutSessions(r) \in SUBSET Sessions
    BY <1>5, LogoutSessionsTypes DEF RevokeOwn, At, GuardedOps
  <2>2. token' \in [Tokens -> {"none", "live", "revoked", "pruned"}]
    BY <1>5, <2>1, RevokeFrame DEF RevokeOwn
  <2>3. cut' \in SUBSET Sessions
    BY <1>5, <2>1, QuietTypes DEF RevokeOwn, TypeOK
  <2> QED
    BY <1>5, <2>2, <2>3, GoFrame DEF RevokeOwn, TypeOK, Awaits
<1>6. ASSUME NEW r \in Requests, Forget(r) PROVE TypeOK'
  <2>1. cached' \in [Sessions -> BOOLEAN]
    <3>1. \A s \in Sessions : cached[s] \in BOOLEAN
      BY DEF TypeOK
    <3> QED
      BY <1>6, <3>1 DEF Forget
  <2>2. ended' \in SUBSET Sessions
    BY <1>6 DEF Forget, TypeOK
  <2> QED
    BY <1>6, <2>1, <2>2, EndFrame DEF Forget, TypeOK
<1>7. ASSUME NEW r \in Requests, BurnFamily(r) PROVE TypeOK'
  <2>1. family[job[r].of] \in Sessions
    BY <1>7, JobTypes DEF BurnFamily, PcInv, RowsInv, TypeOK
  <2>2. token' \in [Tokens -> {"none", "live", "revoked", "pruned"}]
    BY <1>7, <2>1, RevokeFrame DEF BurnFamily
  <2>3. cut' \in SUBSET Sessions
    BY <1>7, <2>1, QuietTypes DEF BurnFamily, TypeOK
  <2> QED
    BY <1>7, <2>2, <2>3, EndFrame DEF BurnFamily, TypeOK
<1>8. ASSUME NEW r \in Requests, NEW t \in Tokens, IssueSuccessor(r, t) PROVE TypeOK'
  <2>1. family[job[r].of] \in Sessions
    BY <1>8, JobTypes DEF IssueSuccessor, At, RowsInv, TypeOK
  <2>2. "spend" \in Awaits
    BY DEF Awaits
  <2>3. Mint(r, t, family[job[r].of], "spend") /\ UNCHANGED <<owner, opened>>
    BY <1>8 DEF IssueSuccessor
  <2> QED
    BY <2>1, <2>2, <2>3, MintFrame DEF TypeOK
<1>9. ASSUME NEW r \in Requests, SpendToken(r) PROVE TypeOK'
  BY <1>9, GoFrame DEF SpendToken, TypeOK, Awaits
<1>10. ASSUME NEW r \in Requests, Reply(r) PROVE TypeOK'
  <2>1. known' \in SUBSET Tokens
    BY <1>10 DEF Reply, RowsInv, TypeOK
  <2> QED
    BY <1>10, <2>1, EndFrame DEF Reply, TypeOK
<1>11. ASSUME NEW r \in Requests, ClaimTicket(r) PROVE TypeOK'
  <2>1. ticket' \in [Tickets -> {"none", "open", "redeemed", "expired"}]
    BY <1>11 DEF ClaimTicket, TypeOK
  <2>2. End(r) \/ Go(r, "create")
    BY <1>11 DEF ClaimTicket
  <2> QED
    BY <1>11, <2>1, <2>2, EndFrame, GoFrame DEF ClaimTicket, TypeOK, Awaits
<1>12. ASSUME NEW r \in Requests, NEW s \in Sessions, NEW t \in Tokens,
              OpenSession(r, s, t)
       PROVE TypeOK'
  <2>1. "reply" \in Awaits
    BY DEF Awaits
  <2>2. Mint(r, t, s, "reply")
    BY <1>12 DEF OpenSession
  <2>3. job[r].op = "redeem" => job[r].of \in Tickets /\ WorkerOf[job[r].of] \in Subjects
    BY JobTypes, WorkerOfAssumption DEF Subjects
  <2>4. job[r].op # "redeem" => job[r].of \in Subjects
    BY <1>12, JobTypes DEF OpenSession, At, Subjects
  <2>5. owner' \in [Sessions -> Subjects \union {Nobody}]
    BY <1>12, <2>3, <2>4 DEF OpenSession, TypeOK
  <2>6. opened' \in [Tickets -> Nat]
    BY <1>12, <2>3 DEF OpenSession, TypeOK
  <2> QED
    BY <2>1, <2>2, <2>5, <2>6, MintFrame DEF TypeOK
<1>13. ASSUME NEW r \in Requests, IssueTicket(r) PROVE TypeOK'
  BY <1>13, EndFrame DEF IssueTicket, TypeOK
<1>14. ASSUME NEW r \in Requests, ReadEmployee(r) PROVE TypeOK'
  <2>1. CASE standing[job[r].of] = "deleted"
    BY <1>14, <2>1, EndFrame DEF ReadEmployee, TypeOK
  <2>2. CASE standing[job[r].of] # "deleted"
    BY <1>14, <2>2 DEF ReadEmployee, TypeOK, Awaits
  <2> QED
    BY <2>1, <2>2
<1>15. ASSUME NEW r \in Requests, WriteEmployee(r) PROVE TypeOK'
  <2>1. standing' \in [Subjects -> {"active", "inactive", "deleted"}]
    BY <1>15 DEF WriteEmployee, TypeOK
  <2>2. End(r) \/ Go(r, "revoke")
    BY <1>15 DEF WriteEmployee
  <2> QED
    BY <1>15, <2>1, <2>2, EndFrame, GoFrame DEF WriteEmployee, TypeOK, Awaits
<1>16. ASSUME NEW r \in Requests, RevokeEmployee(r) PROVE TypeOK'
  <2>1. SessionsOf(job[r].of) \in SUBSET Sessions
    BY DEF SessionsOf
  <2>2. token' \in [Tokens -> {"none", "live", "revoked", "pruned"}]
    BY <1>16, <2>1, RevokeFrame DEF RevokeEmployee
  <2>3. cut' \in SUBSET Sessions
    BY <1>16, <2>1, QuietTypes DEF RevokeEmployee, TypeOK
  <2> QED
    BY <1>16, <2>2, <2>3, EndFrame DEF RevokeEmployee, TypeOK
<1>17. ASSUME Time PROVE TypeOK'
  <2>1. ASSUME NEW s \in Sessions, CacheLapse(s) PROVE TypeOK'
    BY <2>1 DEF CacheLapse, TypeOK
  <2>2. ASSUME NEW t \in Tokens, TokenExpires(t) PROVE TypeOK'
    BY <2>2 DEF TokenExpires, TypeOK
  <2>3. ASSUME NEW t \in Tokens, PruneToken(t) PROVE TypeOK'
    BY <2>3 DEF PruneToken, TypeOK
  <2>4. ASSUME NEW k \in Tickets, TicketExpires(k) PROVE TypeOK'
    BY <2>4 DEF TicketExpires, TypeOK
  <2> QED
    BY <1>17, <2>1, <2>2, <2>3, <2>4 DEF Time
<1>18. ASSUME NEW r \in Requests, Step(r) PROVE TypeOK'
  BY <1>18, <1>2, <1>3, <1>4, <1>5, <1>6, <1>7, <1>8, <1>9, <1>10, <1>11,
     <1>12, <1>13, <1>14, <1>15, <1>16 DEF Step
<1> QED
  BY <1>0, <1>1, <1>17, <1>18 DEF Next
-----------------------------------------------------------------------------
(* A step of one request leaves the others where they are, and its own job *)
(* as it is or answered.                                                   *)
LEMMA SlotStep ==
  ASSUME TypeOK, NEW r \in Requests, Step(r)
  PROVE  /\ \A q \in Requests \ {r} :
              pc'[q] = pc[q] /\ job'[q] = job[q] /\ minted'[q] = minted[q]
         /\ \/ pc'[r] = "idle" /\ job'[r] = NoJob
            \/ pc'[r] # "idle" /\ job'[r] = job[r]
<1>1. CASE End(r)
  BY <1>1, EndFrame
<1>2. CASE \E step \in Awaits : Go(r, step)
  BY <1>2, GoFrame DEF Awaits
<1>3. ASSUME NEW t \in Tokens, IssueSuccessor(r, t)
      PROVE  /\ \A q \in Requests \ {r} :
                  pc'[q] = pc[q] /\ job'[q] = job[q] /\ minted'[q] = minted[q]
             /\ pc'[r] # "idle" /\ job'[r] = job[r]
  BY <1>3 DEF IssueSuccessor, Mint, TypeOK
<1>4. ASSUME NEW s \in Sessions, NEW t \in Tokens, OpenSession(r, s, t)
      PROVE  /\ \A q \in Requests \ {r} :
                  pc'[q] = pc[q] /\ job'[q] = job[q] /\ minted'[q] = minted[q]
             /\ pc'[r] # "idle" /\ job'[r] = job[r]
  BY <1>4 DEF OpenSession, Mint, TypeOK
<1>5. CASE ReadEmployee(r)
  <2>1. CASE standing[job[r].of] # "deleted"
    BY <1>5, <2>1 DEF ReadEmployee, TypeOK
  <2> QED
    BY <1>1, <1>5, <2>1 DEF ReadEmployee
<1>6. \/ End(r) \/ (\E step \in Awaits : Go(r, step)) \/ ReadEmployee(r)
      \/ \E t \in Tokens : IssueSuccessor(r, t)
      \/ \E s \in Sessions, t \in Tokens : OpenSession(r, s, t)
  BY DEF Step, Abort, CheckSession, CheckSubject, Remember, Serve, RevokeOwn,
     Forget, ReadToken, BurnFamily, SpendToken, Reply, ReadUser, ReadTicket,
     ClaimTicket, ReadTicketEmployee, IssueTicket, WriteEmployee,
     RevokeEmployee, Awaits
<1> QED
  BY <1>1, <1>2, <1>3, <1>4, <1>5, <1>6

(* Token rows, their sessions and the owners of sessions are never taken   *)
(* back.                                                                   *)
LEMMA Monotone ==
  ASSUME TypeOK, \A r \in Requests : PcInv(r), RowsInv, Next
  PROVE  /\ \A t \in Tokens : token[t] # "none" =>
              token'[t] # "none" /\ family'[t] = family[t]
         /\ \A s \in Sessions : owner[s] # Nobody => owner'[s] = owner[s]
<1> DEFINE Kept ==
      /\ \A t \in Tokens : token[t] # "none" =>
           token'[t] # "none" /\ family'[t] = family[t]
      /\ \A s \in Sessions : owner[s] # Nobody => owner'[s] = owner[s]
<1> USE DEF people, rows, slots, past
<1>1. CASE UNCHANGED rows
  BY <1>1
<1>2. ASSUME NEW ss \in SUBSET Sessions, Revoke(ss), UNCHANGED <<owner, family>>
      PROVE  Kept
  BY <1>2, RevokeFrame
<1>3. ASSUME NEW r \in Requests, NEW t \in Tokens, IssueSuccessor(r, t) PROVE Kept
  BY <1>3 DEF IssueSuccessor, Mint, TypeOK
<1>4. ASSUME NEW r \in Requests, NEW s \in Sessions, NEW t \in Tokens,
             OpenSession(r, s, t)
      PROVE  Kept
  BY <1>4 DEF OpenSession, Mint, TypeOK
<1>5. ASSUME NEW r \in Requests, SpendToken(r) PROVE Kept
  BY <1>5 DEF SpendToken, TypeOK
<1>6. ASSUME NEW t \in Tokens, PruneToken(t) \/ TokenExpires(t) PROVE Kept
  BY <1>6 DEF PruneToken, TokenExpires, TypeOK
<1>7. ASSUME NEW r \in Requests, RevokeOwn(r) PROVE Kept
  <2>1. LogoutSessions(r) \in SUBSET Sessions
    BY <1>7, LogoutSessionsTypes DEF RevokeOwn, At, GuardedOps
  <2> QED
    BY <1>2, <1>7, <2>1 DEF RevokeOwn
<1>8. ASSUME NEW r \in Requests, BurnFamily(r) PROVE Kept
  <2>1. family[job[r].of] \in Sessions
    BY <1>8, JobTypes DEF BurnFamily, PcInv, RowsInv, TypeOK
  <2> QED
    BY <1>2, <1>8, <2>1 DEF BurnFamily
<1>9. ASSUME NEW r \in Requests, RevokeEmployee(r) PROVE Kept
  <2>1. SessionsOf(job[r].of) \in SUBSET Sessions
    BY DEF SessionsOf
  <2> QED
    BY <1>2, <1>9, <2>1 DEF RevokeEmployee
<1>10. ASSUME NEW r \in Requests, NEW j \in Jobs, Arrive(r, j) PROVE Kept
  BY <1>10 DEF Arrive
<1>11. ASSUME NEW r \in Requests, Step(r) PROVE Kept
  BY <1>1, <1>3, <1>4, <1>5, <1>7, <1>8, <1>9, <1>11 DEF Step, Abort,
     CheckSession, CheckSubject, Remember, Serve, Forget, ReadToken, Reply,
     ReadUser, ReadTicket, ClaimTicket, ReadTicketEmployee, IssueTicket,
     ReadEmployee, WriteEmployee
<1>12. CASE Time
  BY <1>1, <1>6, <1>12 DEF Time, CacheLapse, TicketExpires
<1> QED
  BY <1>10, <1>11, <1>12 DEF Next

LEMMA PcStep ==
  TypeOK /\ (\A r \in Requests : PcInv(r)) /\ [Next]_vars => \A r \in Requests : PcInv(r)'
<1> SUFFICES ASSUME TypeOK, \A r \in Requests : PcInv(r), [Next]_vars, NEW q \in Requests
             PROVE  PcInv(q)'
  OBVIOUS
<1>0. CASE UNCHANGED <<pc, job>>
  BY <1>0 DEF PcInv
<1>1. ASSUME NEW j \in Jobs, Arrive(q, j) PROVE PcInv(q)'
  <2>1. pc'[q] \in {"read", "serve", "session"} /\ job'[q] = j
        /\ (pc'[q] # "read" => j.op \in GuardedOps)
    BY <1>1 DEF Arrive, TypeOK
  <2> QED
    BY <2>1 DEF PcInv
<1>2. ASSUME NEW r \in Requests, NEW j \in Jobs, Arrive(r, j), r # q PROVE PcInv(q)'
  BY <1>2 DEF Arrive, PcInv, TypeOK
<1>3. ASSUME NEW r \in Requests, Step(r), r # q PROVE PcInv(q)'
  BY <1>3, SlotStep DEF PcInv
<1>4. ASSUME Step(q) PROVE PcInv(q)'
  <2>1. CASE End(q)
    BY <2>1, EndFrame DEF PcInv
  <2>2. ASSUME NEW step \in Awaits, Go(q, step)
        PROVE  pc'[q] = step /\ job'[q] = job[q]
    BY <2>2, GoFrame
  <2>3. CASE Go(q, "subject") /\ CheckSession(q)
    BY <2>2, <2>3 DEF Awaits, CheckSession, PcInv
  <2>4. CASE Go(q, "remember") /\ CheckSubject(q)
    BY <2>2, <2>4 DEF Awaits, CheckSubject, PcInv
  <2>5. CASE Remember(q)
    BY <2>2, <2>5 DEF Awaits, Remember, PcInv
  <2>6. CASE RevokeOwn(q)
    BY <2>2, <2>6 DEF Awaits, RevokeOwn, At, PcInv
  <2>7. CASE (Go(q, "burn") \/ Go(q, "create")) /\ ReadToken(q)
    BY <2>2, <2>7 DEF Awaits, ReadToken, At, PcInv
  <2>8. CASE SpendToken(q)
    BY <2>2, <2>8 DEF Awaits, SpendToken, At, PcInv
  <2>9. CASE Go(q, "create") /\ ReadUser(q)
    BY <2>2, <2>9 DEF Awaits, ReadUser, At, PcInv
  <2>10. CASE Go(q, "claim") /\ ReadTicket(q)
    BY <2>2, <2>10 DEF Awaits, ReadTicket, At, PcInv
  <2>11. CASE Go(q, "create") /\ ClaimTicket(q)
    BY <2>2, <2>11 DEF Awaits, ClaimTicket, At, PcInv
  <2>12. CASE Go(q, "write") /\ ReadTicketEmployee(q)
    BY <2>2, <2>12 DEF Awaits, ReadTicketEmployee, At, PcInv
  <2>13. CASE Go(q, "revoke") /\ WriteEmployee(q)
    <3>1. job[q].op \in EmployeeOps
      BY <2>13 DEF WriteEmployee, At, EmployeeOps
    <3> QED
      BY <2>2, <2>13, <3>1 DEF Awaits, PcInv
  <2>14. CASE ReadEmployee(q) /\ standing[job[q].of] # "deleted"
    BY <2>14 DEF ReadEmployee, At, PcInv, TypeOK
  <2>15. ASSUME NEW t \in Tokens, IssueSuccessor(q, t) PROVE PcInv(q)'
    BY <2>15 DEF IssueSuccessor, Mint, At, PcInv, TypeOK
  <2>16. ASSUME NEW s \in Sessions, NEW t \in Tokens, OpenSession(q, s, t) PROVE PcInv(q)'
    BY <2>16 DEF OpenSession, Mint, At, PcInv, TypeOK
  <2>17. \/ End(q) \/ Remember(q) \/ RevokeOwn(q) \/ SpendToken(q)
         \/ Go(q, "subject") /\ CheckSession(q)
         \/ Go(q, "remember") /\ CheckSubject(q)
         \/ (Go(q, "burn") \/ Go(q, "create")) /\ ReadToken(q)
         \/ Go(q, "create") /\ ReadUser(q)
         \/ Go(q, "claim") /\ ReadTicket(q)
         \/ Go(q, "create") /\ ClaimTicket(q)
         \/ Go(q, "write") /\ ReadTicketEmployee(q)
         \/ Go(q, "revoke") /\ WriteEmployee(q)
         \/ ReadEmployee(q) /\ standing[job[q].of] # "deleted"
         \/ \E t \in Tokens : IssueSuccessor(q, t)
         \/ \E s \in Sessions, t \in Tokens : OpenSession(q, s, t)
    BY <1>4 DEF Step, Abort, CheckSession, CheckSubject, Serve, Forget, ReadToken,
       BurnFamily, Reply, ReadUser, ReadTicket, ClaimTicket, ReadTicketEmployee,
       IssueTicket, ReadEmployee, WriteEmployee, RevokeEmployee
  <2> QED
    BY <2>1, <2>3, <2>4, <2>5, <2>6, <2>7, <2>8, <2>9, <2>10, <2>11, <2>12,
       <2>13, <2>14, <2>15, <2>16, <2>17
<1>5. CASE Time
  BY <1>0, <1>5 DEF Time, CacheLapse, TokenExpires, PruneToken, TicketExpires, slots
<1> QED
  BY <1>0, <1>1, <1>2, <1>3, <1>4, <1>5 DEF Next, vars, slots

(* Rows that are named exist, before and after every step.                 *)
LEMMA RowsStep ==
  TypeOK /\ (\A r \in Requests : PcInv(r)) /\ RowsInv /\ [Next]_vars => RowsInv'
<1> SUFFICES ASSUME TypeOK, \A r \in Requests : PcInv(r), RowsInv, [Next]_vars
             PROVE  RowsInv'
  OBVIOUS
<1> USE DEF people, rows, slots, past
<1>0. CASE UNCHANGED vars
  BY <1>0 DEF vars, RowsInv
<1>m. ASSUME Next
      PROVE  /\ \A t \in Tokens : token[t] # "none" =>
                  token'[t] # "none" /\ family'[t] = family[t]
             /\ \A s \in Sessions : owner[s] # Nobody => owner'[s] = owner[s]
  BY <1>m, Monotone
<1> DEFINE Rows ==
      \A t \in Tokens :
        /\ token[t] = "none" <=> family[t] = Nobody
        /\ family[t] # Nobody => owner[family[t]] # Nobody
        /\ t \in known => token[t] # "none"
           Slot(r) ==
      /\ job[r].op = "refresh" => token[job[r].of] # "none"
      /\ job[r].op \in GuardedOps => owner[job[r].of] # Nobody
      /\ pc[r] \in {"spend", "reply"} =>
           minted[r] \in Tokens /\ token[minted[r]] # "none"
<1>1. ASSUME Next PROVE Rows'
  <2>1. ASSUME UNCHANGED <<family, owner, known>>,
               \A t \in Tokens : token'[t] = "none" <=> token[t] = "none"
        PROVE  Rows'
    BY <2>1 DEF RowsInv
  <2>2. ASSUME NEW ss \in SUBSET Sessions, Revoke(ss), UNCHANGED <<family, owner, known>>
        PROVE  Rows'
    BY <2>1, <2>2, RevokeFrame
  <2>3. CASE UNCHANGED <<family, owner, known, token>>
    BY <2>1, <2>3
  <2>4. ASSUME NEW r \in Requests, RevokeOwn(r) PROVE Rows'
    <3>1. LogoutSessions(r) \in SUBSET Sessions
      BY <2>4, LogoutSessionsTypes DEF RevokeOwn, At, GuardedOps
    <3> QED
      BY <2>2, <2>4, <3>1 DEF RevokeOwn
  <2>5. ASSUME NEW r \in Requests, BurnFamily(r) PROVE Rows'
    <3>1. family[job[r].of] \in Sessions
      BY <2>5, JobTypes DEF BurnFamily, PcInv, RowsInv, TypeOK
    <3> QED
      BY <2>2, <2>5, <3>1 DEF BurnFamily
  <2>6. ASSUME NEW r \in Requests, RevokeEmployee(r) PROVE Rows'
    <3>1. SessionsOf(job[r].of) \in SUBSET Sessions
      BY DEF SessionsOf
    <3> QED
      BY <2>2, <2>6, <3>1 DEF RevokeEmployee
  <2>7. ASSUME NEW r \in Requests, SpendToken(r) PROVE Rows'
    <3>1. job[r].of \in Tokens /\ token[job[r].of] # "none"
      BY <2>7, JobTypes DEF SpendToken, At, RowsInv
    <3> QED
      BY <2>1, <2>7, <3>1 DEF SpendToken, TypeOK
  <2>8. ASSUME NEW r \in Requests, Reply(r) PROVE Rows'
    BY <2>8 DEF Reply, RowsInv
  <2>9. ASSUME NEW r \in Requests, NEW t \in Tokens, IssueSuccessor(r, t) PROVE Rows'
    <3>1. /\ family[job[r].of] \in Sessions
          /\ owner[family[job[r].of]] # Nobody
      BY <2>9, JobTypes DEF IssueSuccessor, At, RowsInv, TypeOK
    <3>2. /\ token' = [token EXCEPT ![t] = "live"]
          /\ family' = [family EXCEPT ![t] = family[job[r].of]]
          /\ UNCHANGED <<owner, known>>
      BY <2>9 DEF IssueSuccessor, Mint
    <3> QED
      BY <3>1, <3>2, NobodyAssumption DEF RowsInv, TypeOK
  <2>10. ASSUME NEW r \in Requests, NEW s \in Sessions, NEW t \in Tokens,
                OpenSession(r, s, t)
         PROVE  Rows'
    <3>1. job[r].op = "redeem" => WorkerOf[job[r].of] \in Workers
      BY JobTypes, WorkerOfAssumption
    <3>2. job[r].op # "redeem" => job[r].of \in Foremen
      BY <2>10, JobTypes DEF OpenSession, At
    <3>3. owner'[s] # Nobody /\ \A x \in Sessions : x # s => owner'[x] = owner[x]
      BY <2>10, <3>1, <3>2, NobodyAssumption DEF OpenSession, TypeOK
    <3>4. /\ token' = [token EXCEPT ![t] = "live"]
          /\ family' = [family EXCEPT ![t] = s]
          /\ known' = known
      BY <2>10 DEF OpenSession, Mint
    <3> QED
      BY <3>3, <3>4, NobodyAssumption DEF RowsInv, TypeOK
  <2>11. ASSUME NEW t \in Tokens, PruneToken(t) PROVE Rows'
    BY <2>1, <2>11 DEF PruneToken, TypeOK
  <2>12. CASE Time
    BY <2>3, <2>11, <2>12 DEF Time, CacheLapse, TokenExpires, TicketExpires
  <2>13. ASSUME NEW r \in Requests, NEW j \in Jobs, Arrive(r, j) PROVE Rows'
    BY <2>3, <2>13 DEF Arrive
  <2>14. ASSUME NEW r \in Requests, Step(r) PROVE Rows'
    BY <2>3, <2>4, <2>5, <2>6, <2>7, <2>8, <2>9, <2>10, <2>14 DEF Step, Abort,
       CheckSession, CheckSubject, Remember, Serve, Forget, ReadToken, ReadUser,
       ReadTicket, ClaimTicket, ReadTicketEmployee, IssueTicket, ReadEmployee,
       WriteEmployee
  <2> QED
    BY <1>1, <2>12, <2>13, <2>14 DEF Next
<1>2. ASSUME Next, NEW q \in Requests PROVE Slot(q)'
  <2>1. ASSUME pc'[q] = pc[q], job'[q] = job[q], minted'[q] = minted[q] PROVE Slot(q)'
    BY <1>2, <2>1, <1>m, JobTypes DEF RowsInv
  <2>2. ASSUME NEW j \in Jobs, Arrive(q, j) PROVE Slot(q)'
    <3>1. job'[q] = j /\ pc'[q] \in {"read", "serve", "session"}
      BY <2>2 DEF Arrive, TypeOK
    <3>2. j.op = "refresh" => j.of \in Tokens /\ token[j.of] # "none"
      BY <2>2 DEF Arrive, CanAsk, RowsInv, Jobs, GuardedOps, EmployeeOps
    <3>3. j.op \in GuardedOps => j.of \in Sessions /\ owner[j.of] # Nobody
      <4>1. j.op \in GuardedOps => j.of \in Sessions
        BY DEF Jobs, GuardedOps, EmployeeOps
      <4>2. j.op \in GuardedOps => \E t \in known \ expired : family[t] = j.of
        BY <2>2 DEF Arrive, CanAsk, GuardedOps
      <4> QED
        BY <4>1, <4>2, NobodyAssumption DEF RowsInv, TypeOK
    <3> QED
      BY <1>2, <3>1, <3>2, <3>3, <1>m
  <2>3. ASSUME NEW r \in Requests, NEW j \in Jobs, Arrive(r, j), r # q PROVE Slot(q)'
    BY <2>1, <2>3 DEF Arrive, TypeOK
  <2>4. ASSUME NEW r \in Requests, Step(r), r # q PROVE Slot(q)'
    BY <2>1, <2>4, SlotStep
  <2>5. ASSUME Step(q) PROVE Slot(q)'
    <3>1. CASE job'[q] = NoJob /\ pc'[q] = "idle"
      BY <3>1 DEF NoJob, GuardedOps
    <3>2. CASE job'[q] = job[q]
      <4>1. /\ job'[q].op = "refresh" => token'[job'[q].of] # "none"
            /\ job'[q].op \in GuardedOps => owner'[job'[q].of] # Nobody
        BY <1>2, <1>m, <3>2, JobTypes DEF RowsInv
      <4>2. ASSUME NEW t \in Tokens, IssueSuccessor(q, t)
            PROVE  minted'[q] = t /\ token'[t] # "none"
        BY <4>2 DEF IssueSuccessor, Mint, TypeOK
      <4>3. ASSUME NEW s \in Sessions, NEW t \in Tokens, OpenSession(q, s, t)
            PROVE  minted'[q] = t /\ token'[t] # "none"
        BY <4>3 DEF OpenSession, Mint, TypeOK
      <4>4. CASE SpendToken(q)
        <5>1. minted'[q] = minted[q] /\ minted[q] \in Tokens /\ token[minted[q]] # "none"
          BY <4>4 DEF SpendToken, Go, At, RowsInv
        <5> QED
          BY <1>2, <1>m, <4>1, <5>1
      <4>5. ASSUME ~SpendToken(q), ~(\E t \in Tokens : IssueSuccessor(q, t)),
                   ~(\E s \in Sessions, t \in Tokens : OpenSession(q, s, t))
            PROVE  pc'[q] \notin {"spend", "reply"}
        <5>1. CASE End(q)
          BY <5>1, EndFrame
        <5>2. CASE \E step \in Awaits \ {"spend", "reply"} : Go(q, step)
          BY <5>2, GoFrame
        <5>3. CASE ReadEmployee(q) /\ ~End(q)
          BY <5>3 DEF ReadEmployee, TypeOK
        <5> QED
          BY <2>5, <4>5, <5>1, <5>2, <5>3 DEF Step, Abort, CheckSession,
             CheckSubject, Remember, Serve, RevokeOwn, Forget, ReadToken,
             BurnFamily, Reply, ReadUser, ReadTicket, ClaimTicket,
             ReadTicketEmployee, IssueTicket, WriteEmployee, RevokeEmployee, Awaits
      <4> QED
        BY <4>1, <4>2, <4>3, <4>4, <4>5
    <3> QED
      BY <2>5, <3>1, <3>2, SlotStep
  <2>6. CASE Time
    BY <2>1, <2>6 DEF Time, CacheLapse, TokenExpires, PruneToken, TicketExpires
  <2> QED
    BY <1>2, <2>2, <2>3, <2>4, <2>5, <2>6 DEF Next
<1> QED
  BY <1>0, <1>1, <1>2 DEF RowsInv
-----------------------------------------------------------------------------
(* No step puts a request that is in flight on another session.            *)
LEMMA OnStep ==
  ASSUME TypeOK, \A r \in Requests : PcInv(r), RowsInv, Next,
         NEW q \in Requests, NEW s \in Sessions, job'[q] = job[q]
  PROVE  On(q, s)' <=> On(q, s)
<1>1. job[q].op = "refresh" =>
        job[q].of \in Tokens /\ family'[job[q].of] = family[job[q].of]
  BY JobTypes, Monotone DEF RowsInv
<1> QED
  BY <1>1 DEF On

(* Only a refresh that already passed its checks gives an open session a   *)
(* live token.                                                             *)
LEMMA RevivedBy ==
  ASSUME TypeOK, \A r \in Requests : PcInv(r), RowsInv, Next,
         NEW s \in Sessions, owner[s] # Nobody, ~Live(s), Live(s)'
  PROVE  \E r \in Requests : On(r, s) /\ pc[r] = "create"
<1> USE DEF people, rows, slots, past
<1>0. PICK t \in Tokens : family'[t] = s /\ token'[t] = "live"
  BY DEF Live
<1>1. ~(family[t] = s /\ token[t] = "live")
  BY DEF Live
<1>2. ASSUME NEW ss \in SUBSET Sessions, Revoke(ss), family' = family PROVE FALSE
  BY <1>0, <1>1, <1>2, RevokeFrame
<1>3. ASSUME UNCHANGED <<family, token>> PROVE FALSE
  BY <1>0, <1>1, <1>3
<1>4. ASSUME NEW r \in Requests, RevokeOwn(r) PROVE FALSE
  <2>1. LogoutSessions(r) \in SUBSET Sessions
    BY <1>4, LogoutSessionsTypes DEF RevokeOwn, At, GuardedOps
  <2> QED
    BY <1>2, <1>4, <2>1 DEF RevokeOwn
<1>5. ASSUME NEW r \in Requests, BurnFamily(r) PROVE FALSE
  <2>1. family[job[r].of] \in Sessions
    BY <1>5, JobTypes DEF BurnFamily, PcInv, RowsInv, TypeOK
  <2> QED
    BY <1>2, <1>5, <2>1 DEF BurnFamily
<1>6. ASSUME NEW r \in Requests, RevokeEmployee(r) PROVE FALSE
  <2>1. SessionsOf(job[r].of) \in SUBSET Sessions
    BY DEF SessionsOf
  <2> QED
    BY <1>2, <1>6, <2>1 DEF RevokeEmployee
<1>7. ASSUME NEW r \in Requests, SpendToken(r) PROVE FALSE
  BY <1>0, <1>1, <1>7 DEF SpendToken, TypeOK
<1>8. ASSUME NEW x \in Tokens, PruneToken(x) PROVE FALSE
  BY <1>0, <1>1, <1>8 DEF PruneToken, TypeOK
<1>9. ASSUME NEW r \in Requests, NEW x \in Tokens, IssueSuccessor(r, x)
      PROVE  On(r, s) /\ pc[r] = "create"
  BY <1>0, <1>1, <1>9 DEF IssueSuccessor, Mint, At, On, TypeOK
<1>10. ASSUME NEW r \in Requests, NEW z \in Sessions, NEW x \in Tokens,
              OpenSession(r, z, x)
       PROVE  FALSE
  BY <1>0, <1>1, <1>10 DEF OpenSession, Mint, TypeOK
<1>11. ASSUME NEW r \in Requests, NEW j \in Jobs, Arrive(r, j) PROVE FALSE
  BY <1>3, <1>11 DEF Arrive
<1>12. CASE Time
  BY <1>3, <1>8, <1>12 DEF Time, CacheLapse, TokenExpires, TicketExpires
<1>13. ASSUME NEW r \in Requests, Step(r) PROVE On(r, s) /\ pc[r] = "create"
  BY <1>3, <1>4, <1>5, <1>6, <1>7, <1>9, <1>10, <1>13 DEF Step, Abort,
     CheckSession, CheckSubject, Remember, Serve, Forget, ReadToken, Reply,
     ReadUser, ReadTicket, ClaimTicket, ReadTicketEmployee, IssueTicket,
     ReadEmployee, WriteEmployee
<1> QED
  BY <1>11, <1>12, <1>13 DEF Next

(* A request early in its handler gets no further on a dead session than   *)
(* to its own logout, or to burning the family.                            *)
LEMMA DeadEnd ==
  ASSUME TypeOK, \A r \in Requests : PcInv(r), RowsInv, Next,
         NEW s \in Sessions, ~Live(s), NEW q \in Requests, Step(q), On(q, s)',
         On(q, s) => pc[q] \in {"session", "serve", "forget", "read", "burn"}
  PROVE  pc'[q] = "burn" \/ (pc'[q] = "forget" /\ pc[q] = "serve")
<1>1. job'[q] = job[q] /\ On(q, s)
  BY SlotStep, OnStep DEF On, NoJob, GuardedOps
<1>2. ~End(q)
  BY <1>1, EndFrame DEF NoJob, On, GuardedOps
<1>3. ~CheckSession(q)
  BY <1>1, <1>2 DEF CheckSession, PcInv, On, GuardedOps
<1>4. CASE RevokeOwn(q)
  <2>1. pc'[q] = "forget" /\ pc[q] = "serve"
    BY <1>4, GoFrame DEF RevokeOwn, At, Awaits
  <2> QED
    BY <2>1
<1>5. CASE ReadToken(q)
  <2>1. job[q].of \in Tokens /\ family[job[q].of] = s
    BY <1>1, <1>5, JobTypes DEF ReadToken, At, On, GuardedOps
  <2>2. token[job[q].of] # "live"
    BY <2>1 DEF Live
  <2>3. Go(q, "burn")
    BY <1>2, <1>5, <2>2 DEF ReadToken
  <2> QED
    BY <2>3, GoFrame DEF Awaits
<1>6. pc[q] \in {"session", "serve", "forget", "read", "burn"}
  BY <1>1
<1>7. job[q].op \in GuardedOps \union {"refresh"}
  BY <1>1 DEF On
<1> QED
  BY <1>2, <1>3, <1>4, <1>5, <1>6, <1>7 DEF Step, Abort, CheckSubject, Remember,
     Serve, Forget, BurnFamily, SpendToken, Reply, IssueSuccessor, ReadUser,
     ReadTicket, ClaimTicket, OpenSession, ReadTicketEmployee, IssueTicket,
     ReadEmployee, WriteEmployee, RevokeEmployee, At, GuardedOps, EmployeeOps

(* A session that is cut stays without a live token, and what is still in  *)
(* flight on it cannot change that.                                        *)
LEMMA CutKept ==
  ASSUME TypeOK, \A r \in Requests : PcInv(r), RowsInv, Next,
         NEW s \in Sessions, owner[s] # Nobody, ~Live(s),
         \A r \in Requests : On(r, s) => pc[r] \in {"session", "serve", "forget", "read", "burn"}
  PROVE  /\ owner'[s] # Nobody
         /\ ~Live(s)'
         /\ \A r \in Requests :
              On(r, s)' => pc'[r] \in {"session", "serve", "forget", "read", "burn"}
<1>1. owner'[s] # Nobody
  BY Monotone
<1>2. ~Live(s)'
  BY RevivedBy
<1>3. ASSUME NEW q \in Requests, On(q, s)'
      PROVE  pc'[q] \in {"session", "serve", "forget", "read", "burn"}
  <2>1. ASSUME NEW j \in Jobs, Arrive(q, j)
        PROVE  pc'[q] \in {"session", "serve", "forget", "read", "burn"}
    BY <2>1 DEF Arrive, TypeOK
  <2>2. CASE Step(q)
    BY <1>3, <2>2, DeadEnd
  <2>3. ASSUME pc'[q] = pc[q], job'[q] = job[q]
        PROVE  pc'[q] \in {"session", "serve", "forget", "read", "burn"}
    BY <1>3, <2>3, OnStep
  <2>4. ASSUME NEW r \in Requests, NEW j \in Jobs, Arrive(r, j), r # q
        PROVE  pc'[q] = pc[q] /\ job'[q] = job[q]
    BY <2>4 DEF Arrive, TypeOK
  <2>5. ASSUME NEW r \in Requests, Step(r), r # q
        PROVE  pc'[q] = pc[q] /\ job'[q] = job[q]
    BY <2>5, SlotStep
  <2>6. Time => pc'[q] = pc[q] /\ job'[q] = job[q]
    BY DEF Time, CacheLapse, TokenExpires, PruneToken, TicketExpires, slots
  <2> QED
    BY <2>1, <2>2, <2>3, <2>4, <2>5, <2>6 DEF Next
<1> QED
  BY <1>1, <1>2, <1>3

(* Revoking sessions on which nothing else is in flight cuts them.         *)
LEMMA CutMade ==
  ASSUME TypeOK, \A r \in Requests : PcInv(r), RowsInv, Next,
         NEW r \in Requests, NEW ss \in SUBSET Sessions,
         \A z \in ss : owner[z] # Nobody,
         Revoke(ss), UNCHANGED family,
         Step(r), pc'[r] = "forget" \/ job'[r] = NoJob,
         NEW s \in Quiet(r, ss)
  PROVE  /\ owner'[s] # Nobody
         /\ ~Live(s)'
         /\ \A q \in Requests :
              On(q, s)' => pc'[q] \in {"session", "serve", "forget", "read", "burn"}
<1>1. s \in ss /\ s \in Sessions
  BY DEF Quiet
<1>2. owner'[s] # Nobody
  BY <1>1, Monotone
<1>3. ~Live(s)'
  BY <1>1, RevokeFrame DEF Live
<1>4. ASSUME NEW q \in Requests, On(q, s)', q # r PROVE FALSE
  <2>1. job'[q] = job[q]
    BY <1>4, SlotStep
  <2>2. On(q, s)
    BY <1>1, <1>4, <2>1, OnStep
  <2> QED
    BY <1>4, <2>2 DEF Quiet
<1>5. On(r, s)' => pc'[r] = "forget"
  BY DEF On, NoJob, GuardedOps
<1> QED
  BY <1>2, <1>3, <1>4, <1>5

LEMMA CutStep ==
  ASSUME TypeOK, \A r \in Requests : PcInv(r), RowsInv, CutInv, Next,
         NEW s \in cut'
  PROVE  /\ owner'[s] # Nobody
         /\ ~Live(s)'
         /\ \A q \in Requests :
              On(q, s)' => pc'[q] \in {"session", "serve", "forget", "read", "burn"}
<1> USE DEF people, rows, slots, past
<1> DEFINE Goal ==
      /\ owner'[s] # Nobody
      /\ ~Live(s)'
      /\ \A q \in Requests :
           On(q, s)' => pc'[q] \in {"session", "serve", "forget", "read", "burn"}
<1>1. CASE s \in cut
  <2>1. /\ s \in Sessions /\ owner[s] # Nobody /\ ~Live(s)
        /\ \A r \in Requests :
             On(r, s) => pc[r] \in {"session", "serve", "forget", "read", "burn"}
    BY <1>1 DEF CutInv, TypeOK
  <2> QED
    BY <2>1, CutKept
<1>2. ASSUME NEW r \in Requests, RevokeOwn(r), s \notin cut PROVE Goal
  <2>1. /\ LogoutSessions(r) \in SUBSET Sessions
        /\ job[r].op \in GuardedOps /\ job[r].of \in Sessions
    BY <1>2, JobTypes, LogoutSessionsTypes DEF RevokeOwn, At, GuardedOps
  <2>2. \A z \in LogoutSessions(r) : owner[z] # Nobody
    BY <2>1 DEF LogoutSessions, SessionsOf, RowsInv
  <2>3. pc'[r] = "forget"
    BY <1>2, GoFrame DEF RevokeOwn, Awaits
  <2>4. s \in Quiet(r, LogoutSessions(r))
    BY <1>2 DEF RevokeOwn
  <2>5. Revoke(LogoutSessions(r)) /\ UNCHANGED family /\ Step(r)
    BY <1>2 DEF RevokeOwn, Step
  <2> QED
    BY <2>1, <2>2, <2>3, <2>4, <2>5, CutMade
<1>3. ASSUME NEW r \in Requests, BurnFamily(r), s \notin cut PROVE Goal
  <2>1. family[job[r].of] \in Sessions /\ owner[family[job[r].of]] # Nobody
    BY <1>3, JobTypes DEF BurnFamily, PcInv, RowsInv, TypeOK
  <2>2. job'[r] = NoJob
    BY <1>3, EndFrame DEF BurnFamily
  <2>3. /\ s \in Quiet(r, {family[job[r].of]})
        /\ Revoke({family[job[r].of]}) /\ UNCHANGED family /\ Step(r)
    BY <1>3 DEF BurnFamily, Step
  <2> QED
    BY <2>1, <2>2, <2>3, CutMade
<1>4. ASSUME NEW r \in Requests, RevokeEmployee(r), s \notin cut PROVE Goal
  <2>1. SessionsOf(job[r].of) \in SUBSET Sessions
    BY DEF SessionsOf
  <2>2. \A z \in SessionsOf(job[r].of) : owner[z] # Nobody
    BY <1>4, JobTypes, NobodyAssumption DEF RevokeEmployee, PcInv, SessionsOf
  <2>3. job'[r] = NoJob
    BY <1>4, EndFrame DEF RevokeEmployee
  <2>4. /\ s \in Quiet(r, SessionsOf(job[r].of))
        /\ Revoke(SessionsOf(job[r].of)) /\ UNCHANGED family /\ Step(r)
    BY <1>4 DEF RevokeEmployee, Step
  <2> QED
    BY <2>1, <2>2, <2>3, <2>4, CutMade
<1>5. ASSUME NEW r \in Requests, NEW j \in Jobs, Arrive(r, j) PROVE cut' = cut
  BY <1>5 DEF Arrive
<1>6. Time => cut' = cut
  BY DEF Time, CacheLapse, TokenExpires, PruneToken, TicketExpires
<1>7. ASSUME NEW r \in Requests, Step(r), ~RevokeOwn(r), ~BurnFamily(r), ~RevokeEmployee(r)
      PROVE  cut' = cut
  BY <1>7 DEF Step, Abort, CheckSession, CheckSubject, Remember, Serve, Forget,
     ReadToken, SpendToken, Reply, IssueSuccessor, OpenSession, Mint, ReadUser,
     ReadTicket, ClaimTicket, ReadTicketEmployee, IssueTicket, ReadEmployee,
     WriteEmployee
<1> QED
  BY <1>1, <1>2, <1>3, <1>4, <1>5, <1>6, <1>7 DEF Next

LEMMA EndedStep ==
  ASSUME TypeOK, \A r \in Requests : PcInv(r), RowsInv, CutInv, Next,
         NEW s \in ended'
  PROVE  /\ s \in cut'
         /\ ~cached'[s]
         /\ \A q \in Requests : On(q, s)' => pc'[q] \in {"session", "read", "burn"}
<1> USE DEF people, rows, slots, past
<1>1. CASE s \in ended
  <2>1. /\ s \in cut /\ s \in Sessions /\ ~Live(s) /\ ~cached[s]
        /\ \A q \in Requests : On(q, s) => pc[q] \in {"session", "read", "burn"}
    BY <1>1 DEF CutInv, TypeOK
  <2>2. cut \subseteq cut'
    <3>1. ASSUME NEW r \in Requests, Step(r) PROVE cut \subseteq cut'
      BY <3>1 DEF Step, Abort, CheckSession, CheckSubject, Remember, Serve,
         RevokeOwn, Forget, ReadToken, BurnFamily, SpendToken, Reply,
         IssueSuccessor, OpenSession, Mint, ReadUser, ReadTicket, ClaimTicket,
         ReadTicketEmployee, IssueTicket, ReadEmployee, WriteEmployee,
         RevokeEmployee
    <3>2. Time => cut' = cut
      BY DEF Time, CacheLapse, TokenExpires, PruneToken, TicketExpires
    <3>3. ASSUME NEW r \in Requests, NEW j \in Jobs, Arrive(r, j) PROVE cut' = cut
      BY <3>3 DEF Arrive
    <3> QED
      BY <3>1, <3>2, <3>3 DEF Next
  <2>3. ~cached'[s]
    <3>1. ASSUME NEW r \in Requests, Remember(r) PROVE ~cached'[s]
      <4>1. job[r].op \in GuardedOps /\ pc[r] = "remember"
        BY <3>1 DEF Remember, PcInv
      <4>2. job[r].of # s
        BY <2>1, <4>1 DEF On
      <4> QED
        BY <2>1, <3>1, <4>2 DEF Remember, TypeOK
    <3>2. ASSUME NEW r \in Requests, Step(r), ~Remember(r) PROVE ~cached'[s]
      BY <2>1, <3>2 DEF Step, Abort, CheckSession, CheckSubject, Serve,
         RevokeOwn, Forget, ReadToken, BurnFamily, SpendToken, Reply,
         IssueSuccessor, OpenSession, Mint, ReadUser, ReadTicket, ClaimTicket,
         ReadTicketEmployee, IssueTicket, ReadEmployee, WriteEmployee,
         RevokeEmployee
    <3>3. Time => ~cached'[s]
      BY <2>1 DEF Time, CacheLapse, TokenExpires, PruneToken, TicketExpires, TypeOK
    <3>4. ASSUME NEW r \in Requests, NEW j \in Jobs, Arrive(r, j) PROVE ~cached'[s]
      BY <2>1, <3>4 DEF Arrive
    <3> QED
      BY <3>1, <3>2, <3>3, <3>4 DEF Next
  <2>4. ASSUME NEW q \in Requests, On(q, s)'
        PROVE  pc'[q] \in {"session", "read", "burn"}
    <3>1. ASSUME NEW j \in Jobs, Arrive(q, j)
          PROVE  pc'[q] \in {"session", "read", "burn"}
      <4>1. job'[q] = j /\ pc'[q] = IF j.op \notin GuardedOps THEN "read"
                                    ELSE IF cached[j.of] THEN "serve" ELSE "session"
        BY <3>1 DEF Arrive, TypeOK
      <4> QED
        BY <2>1, <2>4, <4>1 DEF On, GuardedOps
    <3>2. CASE Step(q)
      <4>1. On(q, s) /\ pc[q] # "serve"
        BY <2>1, <2>4, <3>2, SlotStep, OnStep DEF On, NoJob, GuardedOps
      <4> QED
        BY <2>1, <2>4, <3>2, <4>1, DeadEnd
    <3>3. ASSUME pc'[q] = pc[q], job'[q] = job[q]
          PROVE  pc'[q] \in {"session", "read", "burn"}
      BY <2>1, <2>4, <3>3, OnStep
    <3>4. ASSUME NEW r \in Requests, NEW j \in Jobs, Arrive(r, j), r # q
          PROVE  pc'[q] = pc[q] /\ job'[q] = job[q]
      BY <3>4 DEF Arrive, TypeOK
    <3>5. ASSUME NEW r \in Requests, Step(r), r # q
          PROVE  pc'[q] = pc[q] /\ job'[q] = job[q]
      BY <3>5, SlotStep
    <3>6. Time => pc'[q] = pc[q] /\ job'[q] = job[q]
      BY DEF Time, CacheLapse, TokenExpires, PruneToken, TicketExpires
    <3> QED
      BY <3>1, <3>2, <3>3, <3>4, <3>5, <3>6 DEF Next
  <2> QED
    BY <2>1, <2>2, <2>3, <2>4
<1>2. ASSUME NEW r \in Requests, Forget(r), s \notin ended
      PROVE  /\ s \in cut'
             /\ ~cached'[s]
             /\ \A q \in Requests : On(q, s)' => pc'[q] \in {"session", "read", "burn"}
  <2>1. s \in cut /\ s \in Quiet(r, LogoutSessions(r)) /\ cut' = cut
    BY <1>2 DEF Forget
  <2>2. s \in Sessions /\ s \in LogoutSessions(r)
    BY <2>1 DEF Quiet, TypeOK
  <2>3. ~cached'[s]
    BY <1>2, <2>2 DEF Forget
  <2>4. Step(r) /\ job'[r] = NoJob
    BY <1>2, EndFrame DEF Forget, Step
  <2>5. ASSUME NEW q \in Requests, On(q, s)' PROVE FALSE
    <3>1. q # r
      BY <2>4, <2>5 DEF On, NoJob, GuardedOps
    <3>2. On(q, s)
      BY <2>2, <2>4, <2>5, <3>1, SlotStep, OnStep
    <3> QED
      BY <2>1, <3>1, <3>2 DEF Quiet
  <2> QED
    BY <2>1, <2>3, <2>5
<1>3. ASSUME NEW r \in Requests, NEW j \in Jobs, Arrive(r, j) PROVE ended' = ended
  BY <1>3 DEF Arrive
<1>4. Time => ended' = ended
  BY DEF Time, CacheLapse, TokenExpires, PruneToken, TicketExpires
<1>5. ASSUME NEW r \in Requests, Step(r), ~Forget(r) PROVE ended' = ended
  BY <1>5 DEF Step, Abort, CheckSession, CheckSubject, Remember, Serve,
     RevokeOwn, ReadToken, BurnFamily, SpendToken, Reply, IssueSuccessor,
     OpenSession, Mint, ReadUser, ReadTicket, ClaimTicket, ReadTicketEmployee,
     IssueTicket, ReadEmployee, WriteEmployee, RevokeEmployee
<1> QED
  BY <1>1, <1>2, <1>3, <1>4, <1>5 DEF Next
-----------------------------------------------------------------------------
(* Only the claim brings a scan to the point where it opens a session.     *)
LEMMA CreateEntry ==
  ASSUME TypeOK, NEW r \in Requests, Step(r), At(r, "create", {"redeem"})'
  PROVE  ClaimTicket(r) /\ ~End(r) /\ job'[r] = job[r]
<1>1. job'[r] = job[r] /\ pc'[r] = "create" /\ job[r].op = "redeem"
  BY SlotStep DEF At
<1>2. ~End(r)
  BY <1>1, EndFrame
<1>3. ASSUME NEW step \in Awaits, step # "create" PROVE ~Go(r, step)
  BY <1>1, <1>3, GoFrame
<1>4. ~ReadEmployee(r)
  BY <1>1 DEF ReadEmployee, At, EmployeeOps
<1>5. ASSUME NEW t \in Tokens PROVE ~IssueSuccessor(r, t)
  BY <1>1 DEF IssueSuccessor, At
<1>6. ASSUME NEW s \in Sessions, NEW t \in Tokens PROVE ~OpenSession(r, s, t)
  BY <1>1 DEF OpenSession, Mint, TypeOK
<1> QED
  BY <1>1, <1>2, <1>3, <1>4, <1>5, <1>6 DEF Step, Abort, CheckSession,
     CheckSubject, Remember, Serve, RevokeOwn, Forget, ReadToken, BurnFamily,
     SpendToken, Reply, ReadUser, ReadTicket, ReadTicketEmployee, IssueTicket,
     WriteEmployee, RevokeEmployee, At, Awaits

LEMMA TicketStep ==
  TypeOK /\ (\A r \in Requests : PcInv(r)) /\ TicketInv /\ [Next]_vars => TicketInv'
<1> SUFFICES ASSUME TypeOK, \A r \in Requests : PcInv(r), TicketInv, [Next]_vars
             PROVE  TicketInv'
  OBVIOUS
<1> USE DEF people, rows, slots, past
<1>0. CASE UNCHANGED vars
  BY <1>0 DEF vars, TicketInv, At
<1> DEFINE Claims(q) == At(q, "create", {"redeem"})
<1>c. ASSUME NEW q \in Requests, Claims(q) PROVE job[q].of \in Tickets
  BY <1>c, JobTypes DEF At
<1>1. ASSUME \A k \in Tickets : opened'[k] = opened[k] /\ (ticket[k] = "redeemed" => ticket'[k] = "redeemed"),
             \A q \in Requests : Claims(q)' => Claims(q) /\ job'[q] = job[q]
      PROVE  TicketInv'
  <2>1. \A k \in Tickets : opened'[k] <= 1 /\ (opened'[k] > 0 => ticket'[k] = "redeemed")
    BY <1>1 DEF TicketInv
  <2>2. \A q \in Requests : Claims(q)' =>
          ticket'[job'[q].of] = "redeemed" /\ opened'[job'[q].of] = 0
    BY <1>1, <1>c DEF TicketInv
  <2>3. \A p, q \in Requests : Claims(p)' /\ Claims(q)' /\ job'[p].of = job'[q].of => p = q
    BY <1>1 DEF TicketInv
  <2> QED
    BY <2>1, <2>2, <2>3 DEF TicketInv
<1>2. ASSUME NEW r \in Requests, Step(r), ~ClaimTicket(r)
      PROVE  \A q \in Requests : Claims(q)' => Claims(q) /\ job'[q] = job[q]
  BY <1>2, SlotStep, CreateEntry DEF At
<1>3. ASSUME NEW r \in Requests, ClaimTicket(r) PROVE TicketInv'
  <2> DEFINE k == job[r].of
  <2>1. k \in Tickets /\ Step(r) /\ opened' = opened
    BY <1>3, JobTypes DEF ClaimTicket, At, Step
  <2>2. CASE End(r) /\ UNCHANGED ticket
    <3>1. ~Claims(r)'
      BY <2>2, EndFrame DEF At
    <3>2. \A q \in Requests : Claims(q)' => Claims(q) /\ job'[q] = job[q]
      BY <2>1, <3>1, SlotStep DEF At
    <3> QED
      BY <1>1, <2>1, <2>2, <3>2
  <2>3. CASE /\ ticket[k] # "redeemed" /\ Go(r, "create")
             /\ ticket' = [ticket EXCEPT ![k] = "redeemed"]
    <3>1. job' = job /\ \A q \in Requests : q # r => (Claims(q)' => Claims(q))
      BY <2>3, GoFrame DEF Awaits, At
    <3>2. /\ ticket'[k] = "redeemed"
          /\ \A x \in Tickets : x # k => ticket'[x] = ticket[x]
      BY <2>1, <2>3 DEF TypeOK
    <3>3. opened[k] = 0
      BY <2>1, <2>3 DEF TicketInv, TypeOK
    <3>4. \A q \in Requests : q # r /\ Claims(q)' => job[q].of # k
      BY <2>3, <3>1 DEF TicketInv
    <3>5. \A x \in Tickets : opened'[x] <= 1 /\ (opened'[x] > 0 => ticket'[x] = "redeemed")
      BY <2>1, <3>2 DEF TicketInv
    <3>6. \A q \in Requests : Claims(q)' =>
            ticket'[job'[q].of] = "redeemed" /\ opened'[job'[q].of] = 0
      BY <1>c, <2>1, <3>1, <3>2, <3>3, <3>4 DEF TicketInv
    <3>7. \A p, q \in Requests : Claims(p)' /\ Claims(q)' /\ job'[p].of = job'[q].of => p = q
      BY <3>1, <3>4 DEF TicketInv
    <3> QED
      BY <3>5, <3>6, <3>7 DEF TicketInv
  <2> QED
    BY <1>3, <2>2, <2>3 DEF ClaimTicket
<1>4. ASSUME NEW r \in Requests, NEW s \in Sessions, NEW t \in Tokens,
             OpenSession(r, s, t)
      PROVE  TicketInv'
  <2> DEFINE k == job[r].of
  <2>1. Step(r) /\ ~ClaimTicket(r) /\ pc[r] = "create" /\ ticket' = ticket
    BY <1>4 DEF OpenSession, Mint, At, ClaimTicket, Step
  <2>2. \A q \in Requests : Claims(q)' => Claims(q) /\ job'[q] = job[q] /\ q # r
    BY <1>2, <1>4, <2>1 DEF OpenSession, Mint, At, TypeOK
  <2>3. CASE job[r].op # "redeem"
    BY <1>1, <1>4, <2>1, <2>2, <2>3 DEF OpenSession
  <2>4. CASE job[r].op = "redeem"
    <3>1. k \in Tickets /\ Claims(r) /\ opened[k] = 0 /\ ticket[k] = "redeemed"
      BY <2>1, <2>4, JobTypes DEF At, TicketInv
    <3>2. opened' = [opened EXCEPT ![k] = opened[k] + 1]
      BY <1>4, <2>4 DEF OpenSession
    <3>3. opened'[k] = 1 /\ \A x \in Tickets : x # k => opened'[x] = opened[x]
      BY <3>1, <3>2 DEF TypeOK
    <3>4. \A x \in Tickets : opened'[x] <= 1 /\ (opened'[x] > 0 => ticket'[x] = "redeemed")
      BY <2>1, <3>1, <3>3 DEF TicketInv
    <3>5. \A q \in Requests : Claims(q)' => job[q].of # k
      BY <2>2, <3>1 DEF TicketInv
    <3>6. \A q \in Requests : Claims(q)' =>
            ticket'[job'[q].of] = "redeemed" /\ opened'[job'[q].of] = 0
      BY <1>c, <2>1, <2>2, <3>3, <3>5 DEF TicketInv
    <3>7. \A p, q \in Requests : Claims(p)' /\ Claims(q)' /\ job'[p].of = job'[q].of => p = q
      BY <2>2 DEF TicketInv
    <3> QED
      BY <3>4, <3>6, <3>7 DEF TicketInv
  <2> QED
    BY <2>3, <2>4
<1>5. ASSUME NEW r \in Requests, IssueTicket(r) PROVE TicketInv'
  <2>1. Step(r) /\ ~ClaimTicket(r)
    BY <1>5 DEF IssueTicket, ClaimTicket, At, Step
  <2>2. \A k \in Tickets : opened'[k] = opened[k] /\ (ticket[k] = "redeemed" => ticket'[k] = "redeemed")
    BY <1>5 DEF IssueTicket, TypeOK
  <2> QED
    BY <1>1, <1>2, <2>1, <2>2
<1>6. ASSUME NEW r \in Requests, Step(r), ~ClaimTicket(r), ~IssueTicket(r),
             ~(\E s \in Sessions, t \in Tokens : OpenSession(r, s, t))
      PROVE  TicketInv'
  <2>1. UNCHANGED <<ticket, opened>>
    BY <1>6 DEF Step, Abort, CheckSession, CheckSubject, Remember, Serve,
       RevokeOwn, Forget, ReadToken, BurnFamily, SpendToken, Reply,
       IssueSuccessor, Mint, ReadUser, ReadTicket, ReadTicketEmployee,
       ReadEmployee, WriteEmployee, RevokeEmployee
  <2> QED
    BY <1>1, <1>2, <1>6, <2>1
<1>7. ASSUME NEW r \in Requests, NEW j \in Jobs, Arrive(r, j) PROVE TicketInv'
  <2>1. \A q \in Requests : Claims(q)' => Claims(q) /\ job'[q] = job[q]
    BY <1>7 DEF Arrive, At, TypeOK
  <2> QED
    BY <1>1, <1>7, <2>1 DEF Arrive
<1>8. CASE Time
  <2>1. \A q \in Requests : Claims(q)' => Claims(q) /\ job'[q] = job[q]
    BY <1>8 DEF Time, CacheLapse, TokenExpires, PruneToken, TicketExpires, At
  <2>2. \A k \in Tickets : opened'[k] = opened[k] /\ (ticket[k] = "redeemed" => ticket'[k] = "redeemed")
    BY <1>8 DEF Time, CacheLapse, TokenExpires, PruneToken, TicketExpires, TypeOK
  <2> QED
    BY <1>1, <2>1, <2>2
<1> QED
  BY <1>0, <1>3, <1>4, <1>5, <1>6, <1>7, <1>8 DEF Next
-----------------------------------------------------------------------------
LEMMA IInvInit == Init => IInv
<1> SUFFICES ASSUME Init PROVE IInv
  OBVIOUS
<1>1. TypeOK
  BY DEF Init, TypeOK
<1>2. \A r \in Requests : PcInv(r)
  BY DEF Init, PcInv, NoJob, GuardedOps, EmployeeOps
<1>3. RowsInv
  BY NobodyAssumption DEF Init, RowsInv, NoJob, GuardedOps
<1>4. CutInv
  BY DEF Init, CutInv
<1>5. TicketInv
  BY DEF Init, TicketInv, At
<1> QED
  BY <1>1, <1>2, <1>3, <1>4, <1>5 DEF IInv

LEMMA IInvStep == IInv /\ [Next]_vars => IInv'
<1> SUFFICES ASSUME IInv, [Next]_vars PROVE IInv'
  OBVIOUS
<1>1. TypeOK /\ (\A r \in Requests : PcInv(r)) /\ RowsInv /\ CutInv /\ TicketInv
  BY DEF IInv
<1>2. TypeOK' /\ (\A r \in Requests : PcInv(r)') /\ RowsInv' /\ TicketInv'
  BY <1>1, TypeStep, PcStep, RowsStep, TicketStep
<1>3. CutInv'
  <2>1. CASE UNCHANGED vars
    BY <1>1, <2>1 DEF vars, people, rows, slots, past, CutInv, Live, On
  <2>2. CASE Next
    BY <1>1, <2>2, CutStep, EndedStep DEF CutInv
  <2> QED
    BY <2>1, <2>2
<1> QED
  BY <1>2, <1>3 DEF IInv

(* IInv: the strengthening is an invariant of the sign-in service.         *)
THEOREM IInvHolds == Spec => []IInv
BY IInvInit, IInvStep, PTL DEF Spec

(* TypeOK: every row, cache entry and request slot keeps its type; a reply *)
(* always has a token row to hand out.                                     *)
THEOREM TypeCorrect == Spec => []TypeOK
<1>1. IInv => TypeOK
  BY DEF IInv
<1> QED
  BY <1>1, IInvHolds, PTL

(* EndedIsFinal: revoked with nothing else in flight on it, a session has  *)
(* no live token ever again, and forgotten too it serves nothing.          *)
THEOREM EndedIsFinalHolds == Spec => []EndedIsFinal
<1>1. IInv => EndedIsFinal
  BY DEF IInv, CutInv, EndedIsFinal, At, On
<1> QED
  BY <1>1, IInvHolds, PTL

(* TicketOpensOneSession: any number of scans that race, and retries after *)
(* lost answers, open one session at most with a ticket.                   *)
THEOREM TicketOpensOneSessionHolds == Spec => []TicketOpensOneSession
<1>1. IInv => TicketOpensOneSession
  BY DEF IInv, TicketInv, TicketOpensOneSession
<1> QED
  BY <1>1, IInvHolds, PTL

-----------------------------------------------------------------------------
(* With one request at a time, a request that passed the session check, or *)
(* the check of its refresh token, still finds its session open.           *)
SerialInv ==
  \A r \in Requests, s \in Sessions :
    On(r, s) /\ pc[r] \in {"subject", "remember", "create"} => Live(s)

LEMMA CheckedEntry ==
  ASSUME TypeOK, \A r \in Requests : PcInv(r), RowsInv, Next,
         NEW r \in Requests, Step(r), NEW s \in Sessions,
         On(r, s)', pc'[r] \in {"subject", "remember", "create"}
  PROVE  /\ UNCHANGED <<family, token>> /\ On(r, s)
         /\ (pc[r] = "subject" \/ Live(s))
<1> USE DEF people, rows, slots, past
<1>1. job'[r] = job[r] /\ On(r, s)
  BY SlotStep, OnStep DEF NoJob, On, GuardedOps
<1>2. ~End(r)
  BY <1>1, EndFrame DEF NoJob, On, GuardedOps
<1>3. ASSUME NEW step \in Awaits \ {"subject", "remember", "create"} PROVE ~Go(r, step)
  BY <1>3, GoFrame
<1>4. CASE CheckSession(r)
  <2>1. Live(job[r].of) /\ pc[r] = "session"
    BY <1>2, <1>4 DEF CheckSession
  <2>2. job[r].of = s
    BY <1>1, <2>1 DEF PcInv, On, GuardedOps
  <2> QED
    BY <1>1, <1>4, <2>1, <2>2 DEF CheckSession
<1>5. CASE CheckSubject(r)
  BY <1>1, <1>5 DEF CheckSubject
<1>6. CASE ReadToken(r)
  <2>1. job[r].of \in Tokens /\ family[job[r].of] = s
    BY <1>1, <1>6, JobTypes DEF ReadToken, At, On, GuardedOps
  <2>2. "burn" \in Awaits \ {"subject", "remember", "create"}
    BY DEF Awaits
  <2>3. token[job[r].of] = "live"
    BY <1>2, <1>3, <1>6, <2>2 DEF ReadToken
  <2> QED
    BY <1>1, <1>6, <2>1, <2>3 DEF ReadToken, Live
<1>7. job[r].op \in GuardedOps \union {"refresh"}
  BY <1>1 DEF On
<1>8. ASSUME NEW t \in Tokens PROVE ~IssueSuccessor(r, t)
  BY DEF IssueSuccessor, Mint, TypeOK
<1>9. ASSUME NEW z \in Sessions, NEW t \in Tokens PROVE ~OpenSession(r, z, t)
  BY DEF OpenSession, Mint, TypeOK
<1> QED
  BY <1>2, <1>3, <1>4, <1>5, <1>6, <1>7, <1>8, <1>9 DEF Step, Abort, Remember,
     Serve, RevokeOwn, Forget, BurnFamily, SpendToken, Reply, ReadUser,
     ReadTicket, ClaimTicket, ReadTicketEmployee, IssueTicket, ReadEmployee,
     WriteEmployee, RevokeEmployee, At, Awaits, GuardedOps, EmployeeOps

LEMMA SerialInvStep ==
  ASSUME \A q, r \in Requests : q = r
  PROVE  IInv /\ SerialInv /\ [Next]_vars => SerialInv'
<1> SUFFICES ASSUME IInv, SerialInv, [Next]_vars, NEW r \in Requests, NEW s \in Sessions,
                    On(r, s)', pc'[r] \in {"subject", "remember", "create"}
             PROVE  Live(s)'
  BY DEF SerialInv
<1> USE DEF people, rows, slots, past
<1>i. TypeOK /\ (\A q \in Requests : PcInv(q)) /\ RowsInv
  BY DEF IInv
<1>0. CASE UNCHANGED vars
  BY <1>0 DEF vars, SerialInv, Live, On
<1>1. CASE \E j \in Jobs : Arrive(r, j)
  BY <1>1, <1>i DEF Arrive, TypeOK
<1>2. CASE Step(r) /\ Next
  <2>1. UNCHANGED <<family, token>> /\ Live(s)
    BY <1>2, <1>i, CheckedEntry DEF SerialInv
  <2> QED
    BY <2>1 DEF Live
<1>3. CASE Time /\ Next
  <2>1. UNCHANGED slots
    BY <1>3 DEF Time, CacheLapse, TokenExpires, PruneToken, TicketExpires
  <2>2. On(r, s) /\ pc[r] \in {"subject", "remember", "create"}
    BY <1>3, <1>i, <2>1, OnStep
  <2>3. PICK t \in Tokens : family[t] = s /\ token[t] = "live"
    BY <2>2 DEF SerialInv, Live
  <2>4. family' = family
    BY <1>3 DEF Time, CacheLapse, TokenExpires, PruneToken, TicketExpires
  <2>5. token'[t] = token[t]
    BY <1>3, <1>i, <2>2, <2>3 DEF Time, CacheLapse, TokenExpires, PruneToken,
       TicketExpires, TypeOK
  <2> QED
    BY <2>3, <2>4, <2>5 DEF Live
<1> QED
  BY <1>0, <1>1, <1>2, <1>3 DEF Next

(* A session that was never opened is opened with a live token.            *)
LEMMA OpenedLive ==
  ASSUME TypeOK, \A r \in Requests : PcInv(r), RowsInv, Next,
         NEW s \in Sessions, owner[s] = Nobody, owner'[s] # Nobody
  PROVE  Live(s)'
<1> USE DEF people, rows, slots, past
<1>1. ASSUME NEW r \in Requests, NEW z \in Sessions, NEW t \in Tokens,
             OpenSession(r, z, t)
      PROVE  Live(s)'
  <2>1. z = s
    BY <1>1 DEF OpenSession, TypeOK
  <2>2. family'[t] = s /\ token'[t] = "live"
    BY <1>1, <2>1 DEF OpenSession, Mint, TypeOK
  <2> QED
    BY <2>2 DEF Live
<1>2. ASSUME NEW r \in Requests, Step(r),
             ~(\E z \in Sessions, t \in Tokens : OpenSession(r, z, t))
      PROVE  owner' = owner
  BY <1>2 DEF Step, Abort, CheckSession, CheckSubject, Remember, Serve,
     RevokeOwn, Forget, ReadToken, BurnFamily, SpendToken, Reply,
     IssueSuccessor, ReadUser, ReadTicket, ClaimTicket, ReadTicketEmployee,
     IssueTicket, ReadEmployee, WriteEmployee, RevokeEmployee
<1>3. Time => owner' = owner
  BY DEF Time, CacheLapse, TokenExpires, PruneToken, TicketExpires
<1>4. ASSUME NEW r \in Requests, NEW j \in Jobs, Arrive(r, j) PROVE owner' = owner
  BY <1>4 DEF Arrive
<1> QED
  BY <1>1, <1>2, <1>3, <1>4 DEF Next

(* Only a request that passed both checks puts a session in the cache.     *)
LEMMA CachedBy ==
  ASSUME TypeOK, \A r \in Requests : PcInv(r), Next,
         NEW s \in Sessions, ~cached[s], cached'[s]
  PROVE  \E r \in Requests : On(r, s) /\ pc[r] = "remember"
<1> USE DEF people, rows, slots, past
<1>1. ASSUME NEW r \in Requests, Remember(r) PROVE On(r, s) /\ pc[r] = "remember"
  BY <1>1 DEF Remember, PcInv, On, TypeOK
<1>2. ASSUME NEW r \in Requests, Step(r), ~Remember(r) PROVE FALSE
  BY <1>2 DEF Step, Abort, CheckSession, CheckSubject, Serve, RevokeOwn, Forget,
     ReadToken, BurnFamily, SpendToken, Reply, IssueSuccessor, OpenSession,
     Mint, ReadUser, ReadTicket, ClaimTicket, ReadTicketEmployee, IssueTicket,
     ReadEmployee, WriteEmployee, RevokeEmployee
<1>3. ~Time
  BY DEF Time, CacheLapse, TokenExpires, PruneToken, TicketExpires, TypeOK
<1>4. ASSUME NEW r \in Requests, NEW j \in Jobs PROVE ~Arrive(r, j)
  BY DEF Arrive
<1> QED
  BY <1>1, <1>2, <1>3, <1>4 DEF Next

(* ImplementsSessionLife: without overlap a closed session stays closed.   *)
THEOREM SerialImplementsSessionLife ==
  ASSUME \A q, r \in Requests : q = r
  PROVE  Spec => ImplementsSessionLife
<1>1. Init => Life!Init /\ SerialInv
  <2> SUFFICES ASSUME Init PROVE Life!Init /\ SerialInv
    OBVIOUS
  <2>1. SerialInv
    BY DEF Init, SerialInv
  <2>2. ASSUME NEW s \in Sessions, owner[s] # Nobody PROVE Live(s)
    <3>1. PICK t \in Tokens : family[t] = s
      BY <2>2 DEF Init
    <3> QED
      BY <3>1, <2>2, NobodyAssumption DEF Init, Live
  <2>3. life \in [Sessions -> {"none", "open"}]
    BY <2>2 DEF life
  <2> QED
    BY <2>1, <2>3 DEF Life!Init
<1>2. IInv /\ SerialInv /\ [Next]_vars => [Life!Next]_life
  <2> SUFFICES ASSUME IInv, SerialInv, [Next]_vars PROVE Life!Next \/ life' = life
    OBVIOUS
  <2>i. TypeOK /\ (\A q \in Requests : PcInv(q)) /\ RowsInv
    BY DEF IInv
  <2>0. CASE UNCHANGED vars
    BY <2>0 DEF vars, rows, life, Live
  <2>1. CASE Next
    <3>1. life' \in [Sessions -> {"none", "open", "closing", "closed"}]
      BY DEF life
    <3>2. ASSUME NEW s \in Sessions, life'[s] # life[s]
          PROVE  <<life[s], life'[s]>> \in Life!Steps
      <4>1. /\ life[s] = IF owner[s] = Nobody THEN "none"
                         ELSE IF Live(s) THEN "open"
                         ELSE IF cached[s] THEN "closing" ELSE "closed"
            /\ life'[s] = IF owner'[s] = Nobody THEN "none"
                          ELSE IF Live(s)' THEN "open"
                          ELSE IF cached'[s] THEN "closing" ELSE "closed"
        BY DEF life
      <4>2. CASE owner[s] = Nobody
        BY <2>1, <2>i, <3>2, <4>1, <4>2, OpenedLive DEF Life!Steps
      <4>3. CASE owner[s] # Nobody
        <5>1. owner'[s] # Nobody
          BY <2>1, <2>i, <4>3, Monotone
        <5>2. ~Live(s) => ~Live(s)'
          BY <2>1, <2>i, <4>3, RevivedBy DEF SerialInv
        <5>3. ~Live(s) /\ ~cached[s] => ~cached'[s]
          BY <2>1, <2>i, CachedBy DEF SerialInv
        <5> QED
          BY <3>2, <4>1, <4>3, <5>1, <5>2, <5>3 DEF Life!Steps
      <4> QED
        BY <4>2, <4>3
    <3> QED
      BY <3>1, <3>2 DEF Life!Next
  <2> QED
    BY <2>0, <2>1
<1>3. IInv /\ SerialInv /\ [Next]_vars => SerialInv'
  BY SerialInvStep
<1> QED
  BY <1>1, <1>2, <1>3, IInvHolds, PTL DEF Spec, ImplementsSessionLife, Life!Spec
=============================================================================
