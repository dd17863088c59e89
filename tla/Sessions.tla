------------------------------ MODULE Sessions ------------------------------
(***************************************************************************)
(* Sign-in sessions on one server instance: foreman login, worker login    *)
(* tickets, rotating refresh tokens, logout, password change, deactivating *)
(* and removing an employee, the guard every other request passes, and its *)
(* cache of resolved principals.                                           *)
(*                                                                         *)
(* A handler is a sequence of awaits; each database statement is one       *)
(* action, so the statements of different requests interleave.  A guard    *)
(* that hits the cache does so when its request arrives.                   *)
(*                                                                         *)
(* Left out: password and secret values (presenting one is knowing the     *)
(* token or ticket), access token expiry (it is shorter than the refresh   *)
(* token's), throttling, other instances.                                  *)
(***************************************************************************)
EXTENDS Naturals, FiniteSets

CONSTANTS
  Foremen,      \* rows of User
  Workers,      \* rows of Employee
  Sessions,     \* session ids, which are refresh token families
  Tokens,       \* refresh token secrets
  Tickets,      \* worker login tickets
  WorkerOf,     \* WorkerOf[k]: the employee a ticket is for
  Nobody,       \* no subject, no session, no token
  Requests,     \* slots for requests in flight
  MaxRequests,  \* bound: requests that ever arrive
  MaxExpired    \* bound: refresh tokens that ever expire

ASSUME WorkerOfAssumption == WorkerOf \in [Tickets -> Workers]
ASSUME NobodyAssumption == Nobody \notin Foremen \union Workers \union Sessions \union Tokens
ASSUME BoundsAssumption == MaxRequests \in Nat /\ MaxExpired \in Nat

VARIABLES
  standing,  \* standing[u]: isActive and deletedAt of a user or employee
  owner,     \* owner[s]: who a session was opened for
  family,    \* family[t]: the session of a refresh token
  token,     \* token[t]: no row yet, live, revoked, or its row pruned
  expired,   \* refresh tokens past expiresAt
  ticket,    \* ticket[k]: not issued, open, redeemed, or expired
  cached,    \* cached[s]: the principal cache holds the session
  known,     \* refresh tokens a client has received
  pc,        \* pc[r]: the next await of the request in slot r
  job,       \* job[r]: what that request asks for
  minted,    \* minted[r]: the token it has created
  wasActive, \* wasActive[r]: isActive of the employee as PATCH read it
  opened,    \* history: opened[k], sessions opened with ticket k
  cut,       \* history: sessions revoked while nothing else was in flight on them
  ended,     \* history: those of them that were forgotten by the cache as well
  arrived    \* history: requests that arrived

people == <<standing, ticket, opened>>
rows == <<owner, family, token, expired>>
slots == <<pc, job, minted, wasActive>>
past == <<cut, ended>>
vars == <<people, rows, cached, known, slots, past, arrived>>

Subjects == Foremen \union Workers

GuardedOps  == {"access", "logout", "password"}
EmployeeOps == {"activate", "deactivate", "remove"}

Jobs ==
  [op : GuardedOps, of : Sessions] \union
  [op : {"refresh"}, of : Tokens] \union
  [op : {"login"}, of : Foremen] \union
  [op : {"issue", "redeem"}, of : Tickets] \union
  [op : EmployeeOps, of : Workers]

NoJob == [op |-> "none", of |-> Nobody]

Awaits ==
  {"session", "subject", "remember", "serve", "forget", "read", "burn", "claim",
   "create", "spend", "write", "revoke", "reply"}

TypeOK ==
  /\ standing \in [Subjects -> {"active", "inactive", "deleted"}]
  /\ owner \in [Sessions -> Subjects \union {Nobody}]
  /\ family \in [Tokens -> Sessions \union {Nobody}]
  /\ token \in [Tokens -> {"none", "live", "revoked", "pruned"}]
  /\ expired \in SUBSET Tokens
  /\ ticket \in [Tickets -> {"none", "open", "redeemed", "expired"}]
  /\ cached \in [Sessions -> BOOLEAN]
  /\ known \in SUBSET Tokens
  /\ pc \in [Requests -> Awaits \union {"idle"}]
  /\ job \in [Requests -> Jobs \union {NoJob}]
  /\ minted \in [Requests -> Tokens \union {Nobody}]
  /\ wasActive \in [Requests -> BOOLEAN]
  /\ opened \in [Tickets -> Nat]
  /\ cut \in SUBSET Sessions
  /\ ended \in SUBSET Sessions
  /\ arrived \in Nat

(* The server starts on what its database holds: some sessions are open,   *)
(* each with one live token that its client has, and some tickets too.     *)
Init ==
  /\ standing = [u \in Subjects |-> "active"]
  /\ owner \in [Sessions -> Subjects \union {Nobody}]
  /\ family \in [Tokens -> {s \in Sessions : owner[s] # Nobody} \union {Nobody}]
  /\ \A s \in Sessions : owner[s] # Nobody => \E t \in Tokens : family[t] = s
  /\ \A t, x \in Tokens : family[t] = family[x] /\ family[t] # Nobody => t = x
  /\ token = [t \in Tokens |-> IF family[t] = Nobody THEN "none" ELSE "live"]
  /\ expired = {}
  /\ ticket \in [Tickets -> {"none", "open"}]
  /\ cached = [s \in Sessions |-> FALSE]
  /\ known = {t \in Tokens : token[t] = "live"}
  /\ pc = [r \in Requests |-> "idle"]
  /\ job = [r \in Requests |-> NoJob]
  /\ minted = [r \in Requests |-> Nobody]
  /\ wasActive = [r \in Requests |-> FALSE]
  /\ opened = [k \in Tickets |-> 0]
  /\ cut = {}
  /\ ended = {}
  /\ arrived = 0

-----------------------------------------------------------------------------
At(r, step, ops) == pc[r] = step /\ job[r].op \in ops

Live(s) == \E t \in Tokens : family[t] = s /\ token[t] = "live"

SessionsOf(u) == {s \in Sessions : owner[s] = u}

(* The session a request in flight is about, if it is about one.           *)
On(r, s) ==
  \/ job[r].op \in GuardedOps /\ job[r].of = s
  \/ job[r].op = "refresh" /\ family[job[r].of] = s

(* Sessions of a set on which no request but r is in flight.               *)
Quiet(r, ss) == {s \in ss : \A q \in Requests \ {r} : ~On(q, s)}

Go(r, step) == pc' = [pc EXCEPT ![r] = step] /\ UNCHANGED <<job, minted, wasActive, arrived>>

End(r) ==
  /\ pc' = [pc EXCEPT ![r] = "idle"]
  /\ job' = [job EXCEPT ![r] = NoJob]
  /\ minted' = [minted EXCEPT ![r] = Nobody]
  /\ wasActive' = [wasActive EXCEPT ![r] = FALSE]
  /\ UNCHANGED arrived

(* revokedAt is set on every live token of these sessions.                 *)
Revoke(ss) ==
  token' = [t \in Tokens |->
    IF family[t] \in ss /\ token[t] = "live" THEN "revoked" ELSE token[t]]

(* A request names only what its sender can know: a token some client      *)
(* received, a session whose access token came with one and which has not  *)
(* outlived all of its refresh tokens, a ticket that was issued.           *)
CanAsk(j) ==
  CASE j.op \in {"access", "logout"} ->
         \E t \in known \ expired : family[t] = j.of
    [] j.op = "password" ->
         owner[j.of] \in Foremen /\ \E t \in known \ expired : family[t] = j.of
    [] j.op = "refresh" -> j.of \in known
    [] j.op = "redeem" -> ticket[j.of] # "none"
    [] OTHER -> TRUE

(* A guarded request looks its session up in the cache on arrival.         *)
Arrive(r, j) ==
  /\ pc[r] = "idle"
  /\ arrived < MaxRequests
  /\ CanAsk(j)
  /\ arrived' = arrived + 1
  /\ pc' = [pc EXCEPT ![r] =
       IF j.op \notin GuardedOps THEN "read"
       ELSE IF cached[j.of] THEN "serve" ELSE "session"]
  /\ job' = [job EXCEPT ![r] = j]
  /\ UNCHANGED <<people, rows, cached, known, minted, wasActive, past>>

(* A later check refuses the request, or its process dies, between awaits. *)
Abort(r) ==
  /\ pc[r] # "idle"
  /\ End(r)
  /\ UNCHANGED <<people, rows, cached, known, past>>

-----------------------------------------------------------------------------
(* Names ending in Slip are deliberately wrong variants of the definition  *)
(* that follows them: plausible slips a property would notice.             *)

(* A session without a live token passes the guard.                        *)
CheckSessionSlip(r) ==
  /\ pc[r] = "session"
  /\ Go(r, "subject")
  /\ UNCHANGED <<people, rows, cached, known, past>>

(* The guard: is the session revoked, is its subject still active, and     *)
(* then remember the answer.                                               *)
CheckSession(r) ==
  /\ pc[r] = "session"
  /\ IF Live(job[r].of) THEN Go(r, "subject") ELSE End(r)
  /\ UNCHANGED <<people, rows, cached, known, past>>

CheckSubject(r) ==
  /\ pc[r] = "subject"
  /\ IF standing[owner[job[r].of]] = "active" THEN Go(r, "remember") ELSE End(r)
  /\ UNCHANGED <<people, rows, cached, known, past>>

Remember(r) ==
  /\ pc[r] = "remember"
  /\ cached' = [cached EXCEPT ![job[r].of] = TRUE]
  /\ Go(r, "serve")
  /\ UNCHANGED <<people, rows, known, past>>

(* An entry outlives its TTL, or makes room for others.                    *)
CacheLapse(s) ==
  /\ cached[s]
  /\ cached' = [cached EXCEPT ![s] = FALSE]
  /\ UNCHANGED <<people, rows, known, slots, past, arrived>>

-----------------------------------------------------------------------------
(* Guarded handlers: any ordinary request, logout, changePassword.         *)
Serve(r) ==
  /\ At(r, "serve", {"access"})
  /\ End(r)
  /\ UNCHANGED <<people, rows, cached, known, past>>

LogoutSessions(r) ==
  IF job[r].op = "logout" THEN {job[r].of} ELSE SessionsOf(owner[job[r].of])

RevokeOwn(r) ==
  /\ At(r, "serve", {"logout", "password"})
  /\ Revoke(LogoutSessions(r))
  /\ cut' = cut \union Quiet(r, LogoutSessions(r))
  /\ Go(r, "forget")
  /\ UNCHANGED <<people, owner, family, expired, cached, known, ended>>

(* The cache drops the sessions and the request is answered.               *)
Forget(r) ==
  /\ pc[r] = "forget"
  /\ cached' = [s \in Sessions |-> cached[s] /\ s \notin LogoutSessions(r)]
  /\ ended' = ended \union (cut \intersect Quiet(r, LogoutSessions(r)))
  /\ End(r)
  /\ UNCHANGED <<people, rows, known, cut>>

-----------------------------------------------------------------------------
(* rotate does not look at revokedAt.                                      *)
ReadTokenSlip(r) ==
  LET t == job[r].of IN
  /\ At(r, "read", {"refresh"})
  /\ IF token[t] # "pruned" /\ t \notin expired THEN Go(r, "create") ELSE End(r)
  /\ UNCHANGED <<people, rows, cached, known, past>>

(* rotate: read the presented token, issue its successor, revoke it.       *)
ReadToken(r) ==
  LET t == job[r].of IN
  /\ At(r, "read", {"refresh"})
  /\ CASE token[t] = "revoked" -> Go(r, "burn")
       [] /\ token[t] = "live"
          /\ t \notin expired
          /\ standing[owner[family[t]]] = "active" -> Go(r, "create")
       [] OTHER -> End(r)
  /\ UNCHANGED <<people, rows, cached, known, past>>

(* A spent token was presented: its whole family is revoked.               *)
BurnFamily(r) ==
  LET s == family[job[r].of] IN
  /\ pc[r] = "burn"
  /\ Revoke({s})
  /\ cut' = cut \union Quiet(r, {s})
  /\ End(r)
  /\ UNCHANGED <<people, owner, family, expired, cached, known, ended>>

(* issueForSession: a row for a fresh token of session s.                  *)
Mint(r, t, s, next) ==
  /\ token[t] = "none"
  /\ token' = [token EXCEPT ![t] = "live"]
  /\ family' = [family EXCEPT ![t] = s]
  /\ minted' = [minted EXCEPT ![r] = t]
  /\ pc' = [pc EXCEPT ![r] = next]
  /\ UNCHANGED <<standing, ticket, expired, cached, known, job, wasActive, past, arrived>>

IssueSuccessor(r, t) ==
  /\ At(r, "create", {"refresh"})
  /\ Mint(r, t, family[job[r].of], "spend")
  /\ UNCHANGED <<owner, opened>>

(* The update names the token by its hash alone.                           *)
SpendToken(r) ==
  /\ At(r, "spend", {"refresh"})
  /\ token' = [token EXCEPT ![job[r].of] = "revoked"]
  /\ Go(r, "reply")
  /\ UNCHANGED <<people, owner, family, expired, cached, known, past>>

(* The slot is cleared before the answer is taken from it.                 *)
ReplySlip(r) ==
  /\ pc[r] = "reply"
  /\ End(r)
  /\ known' = known \union {minted'[r]}
  /\ UNCHANGED <<people, rows, cached, past>>

(* The new pair reaches the client; a lost answer is Abort.                *)
Reply(r) ==
  /\ pc[r] = "reply"
  /\ known' = known \union {minted[r]}
  /\ End(r)
  /\ UNCHANGED <<people, rows, cached, past>>

-----------------------------------------------------------------------------
(* Opening a session: a foreman's password, or a worker's ticket.          *)
ReadUser(r) ==
  /\ At(r, "read", {"login"})
  /\ IF standing[job[r].of] = "active" THEN Go(r, "create") ELSE End(r)
  /\ UNCHANGED <<people, rows, cached, known, past>>

ReadTicket(r) ==
  LET k == job[r].of IN
  /\ At(r, "read", {"redeem"})
  /\ IF ticket[k] = "open" /\ standing[WorkerOf[k]] = "active"
       THEN Go(r, "claim") ELSE End(r)
  /\ UNCHANGED <<people, rows, cached, known, past>>

(* The claim names the ticket alone, not that it is unredeemed.            *)
ClaimTicketSlip(r) ==
  /\ At(r, "claim", {"redeem"})
  /\ ticket' = [ticket EXCEPT ![job[r].of] = "redeemed"]
  /\ Go(r, "create")
  /\ UNCHANGED <<standing, opened, rows, cached, known, past>>

(* One conditional update decides between concurrent scans.                *)
ClaimTicket(r) ==
  LET k == job[r].of IN
  /\ At(r, "claim", {"redeem"})
  /\ IF ticket[k] # "redeemed"
       THEN Go(r, "create") /\ ticket' = [ticket EXCEPT ![k] = "redeemed"]
       ELSE End(r) /\ UNCHANGED ticket
  /\ UNCHANGED <<standing, opened, rows, cached, known, past>>

OpenSession(r, s, t) ==
  LET k == job[r].of IN
  /\ At(r, "create", {"login", "redeem"})
  /\ owner[s] = Nobody
  /\ Mint(r, t, s, "reply")
  /\ owner' = [owner EXCEPT ![s] = IF job[r].op = "redeem" THEN WorkerOf[k] ELSE k]
  /\ opened' = IF job[r].op = "redeem" THEN [opened EXCEPT ![k] = @ + 1] ELSE opened

(* A foreman issues a ticket for an active employee.                       *)
ReadTicketEmployee(r) ==
  /\ At(r, "read", {"issue"})
  /\ IF standing[WorkerOf[job[r].of]] = "active" THEN Go(r, "write") ELSE End(r)
  /\ UNCHANGED <<people, rows, cached, known, past>>

IssueTicket(r) ==
  LET k == job[r].of IN
  /\ At(r, "write", {"issue"})
  /\ ticket[k] = "none"
  /\ ticket' = [ticket EXCEPT ![k] = "open"]
  /\ End(r)
  /\ UNCHANGED <<standing, opened, rows, cached, known, past>>

-----------------------------------------------------------------------------
(* Employees: PATCH isActive and DELETE.                                   *)
ReadEmployee(r) ==
  LET u == job[r].of IN
  /\ At(r, "read", EmployeeOps)
  /\ IF standing[u] = "deleted"
       THEN End(r)
       ELSE /\ pc' = [pc EXCEPT ![r] = "write"]
            /\ wasActive' = [wasActive EXCEPT ![r] = standing[u] = "active"]
            /\ UNCHANGED <<job, minted, arrived>>
  /\ UNCHANGED <<people, rows, cached, known, past>>

WriteEmployee(r) ==
  LET u == job[r].of
      op == job[r].op IN
  /\ At(r, "write", EmployeeOps)
  /\ standing' = [standing EXCEPT ![u] =
       IF op = "remove" THEN "deleted"
       ELSE IF @ = "deleted" THEN @
       ELSE IF op = "activate" THEN "active" ELSE "inactive"]
  /\ IF op = "remove" \/ (op = "deactivate" /\ wasActive[r])
       THEN Go(r, "revoke") ELSE End(r)
  /\ UNCHANGED <<ticket, opened, rows, cached, known, past>>

(* revokeAllForSubject; the principal cache is not told.                   *)
RevokeEmployee(r) ==
  LET ss == SessionsOf(job[r].of) IN
  /\ pc[r] = "revoke"
  /\ Revoke(ss)
  /\ cut' = cut \union Quiet(r, ss)
  /\ End(r)
  /\ UNCHANGED <<people, owner, family, expired, cached, known, ended>>

-----------------------------------------------------------------------------
(* Time passes: tokens and tickets expire, and the nightly job prunes      *)
(* tokens that expired a week ago.  No request lasts that week.            *)
TokenExpires(t) ==
  /\ token[t] \in {"live", "revoked"}
  /\ t \notin expired
  /\ Cardinality(expired) < MaxExpired
  /\ expired' = expired \union {t}
  /\ UNCHANGED <<people, owner, family, token, cached, known, slots, past, arrived>>

PruneToken(t) ==
  /\ t \in expired
  /\ token[t] \in {"live", "revoked"}
  /\ \A r \in Requests : ~On(r, family[t])
  /\ token' = [token EXCEPT ![t] = "pruned"]
  /\ UNCHANGED <<people, owner, family, expired, cached, known, slots, past, arrived>>

TicketExpires(k) ==
  /\ ticket[k] = "open"
  /\ ticket' = [ticket EXCEPT ![k] = "expired"]
  /\ UNCHANGED <<standing, opened, rows, cached, known, slots, past, arrived>>

Step(r) ==
  \/ Abort(r)
  \/ CheckSession(r) \/ CheckSubject(r) \/ Remember(r)
  \/ Serve(r) \/ RevokeOwn(r) \/ Forget(r)
  \/ ReadToken(r) \/ BurnFamily(r) \/ SpendToken(r) \/ Reply(r)
  \/ \E t \in Tokens : IssueSuccessor(r, t)
  \/ ReadUser(r) \/ ReadTicket(r) \/ ClaimTicket(r)
  \/ \E s \in Sessions, t \in Tokens : OpenSession(r, s, t)
  \/ ReadTicketEmployee(r) \/ IssueTicket(r)
  \/ ReadEmployee(r) \/ WriteEmployee(r) \/ RevokeEmployee(r)

Time ==
  \/ \E s \in Sessions : CacheLapse(s)
  \/ \E t \in Tokens : TokenExpires(t) \/ PruneToken(t)
  \/ \E k \in Tickets : TicketExpires(k)

Next ==
  \/ \E r \in Requests : (\E j \in Jobs : Arrive(r, j)) \/ Step(r)
  \/ Time

Spec == Init /\ [][Next]_vars
-----------------------------------------------------------------------------
(* Logout, password change, reuse detection and employee deactivation end  *)
(* a session for good: revoked while no other request on it is in flight,  *)
(* it never again holds a live token, whatever arrives later; and once it  *)
(* was forgotten too nothing is served on it (token.service.ts rotate and  *)
(* revokeFamily, auth.service.ts logout, principal-resolver.service.ts).   *)
EndedIsFinal ==
  /\ \A s \in cut : ~Live(s)
  /\ \A s \in ended :
       /\ ~cached[s]
       /\ \A r \in Requests : ~(At(r, "serve", GuardedOps) /\ job[r].of = s)

(* Two devices that scan one printed code open one session between them    *)
(* (worker-ticket.service.ts redeem).                                      *)
TicketOpensOneSession == \A k \in Tickets : opened[k] <= 1

(* auth.controller.ts: each refresh invalidates the presented token, so    *)
(* no token is exchanged for two new pairs.                                *)
ExchangedOnce ==
  \A q, r \in Requests :
    /\ At(q, "reply", {"refresh"}) /\ At(r, "reply", {"refresh"})
    /\ job[q].of = job[r].of
    => q = r

-----------------------------------------------------------------------------
(* Strengthening: which handler is at which await.                         *)
PcInv(r) ==
  /\ pc[r] \in {"session", "subject", "remember", "serve"} => job[r].op \in GuardedOps
  /\ pc[r] = "forget" => job[r].op \in {"logout", "password"}
  /\ pc[r] \in {"burn", "spend"} => job[r].op = "refresh"
  /\ pc[r] = "claim" => job[r].op = "redeem"
  /\ pc[r] \in {"create", "reply"} => job[r].op \in {"refresh", "login", "redeem"}
  /\ pc[r] = "write" => job[r].op \in {"issue"} \union EmployeeOps
  /\ pc[r] = "revoke" => job[r].op \in EmployeeOps
  /\ pc[r] = "idle" => job[r] = NoJob

(* A token row belongs to an opened session, and requests name rows that   *)
(* exist.                                                                  *)
RowsInv ==
  /\ \A t \in Tokens :
       /\ token[t] = "none" <=> family[t] = Nobody
       /\ family[t] # Nobody => owner[family[t]] # Nobody
       /\ t \in known => token[t] # "none"
  /\ \A r \in Requests :
       /\ job[r].op = "refresh" => token[job[r].of] # "none"
       /\ job[r].op \in GuardedOps => owner[job[r].of] # Nobody
       /\ pc[r] \in {"spend", "reply"} =>
            minted[r] \in Tokens /\ token[minted[r]] # "none"

(* What is still in flight on an ended session can no longer revive it.    *)
CutInv ==
  /\ \A s \in cut :
       /\ owner[s] # Nobody
       /\ ~Live(s)
       /\ \A r \in Requests :
            On(r, s) => pc[r] \in {"session", "serve", "forget", "read", "burn"}
  /\ ended \subseteq cut
  /\ \A s \in ended :
       /\ ~cached[s]
       /\ \A r \in Requests : On(r, s) => pc[r] \in {"session", "read", "burn"}

(* One request at most holds the claim on a ticket.                        *)
TicketInv ==
  /\ \A k \in Tickets :
       /\ opened[k] <= 1
       /\ opened[k] > 0 => ticket[k] = "redeemed"
  /\ \A r \in Requests :
       At(r, "create", {"redeem"}) =>
         ticket[job[r].of] = "redeemed" /\ opened[job[r].of] = 0
  /\ \A q, r \in Requests :
       /\ At(q, "create", {"redeem"}) /\ At(r, "create", {"redeem"})
       /\ job[q].of = job[r].of
       => q = r

IInv == TypeOK /\ (\A r \in Requests : PcInv(r)) /\ RowsInv /\ CutInv /\ TicketInv

-----------------------------------------------------------------------------
(* The life of a session: open while it has a live token row, closing      *)
(* while only the cache still knows it.                                    *)
life ==
  [s \in Sessions |->
    IF owner[s] = Nobody THEN "none"
    ELSE IF Live(s) THEN "open"
    ELSE IF cached[s] THEN "closing" ELSE "closed"]

Life == INSTANCE SessionLife

(* When requests do not overlap a closed session never opens again, not    *)
(* even for the cache's time to live (auth.service.ts, token.service.ts,   *)
(* employees.service.ts).                                                  *)
ImplementsSessionLife == Life!Spec
=============================================================================
