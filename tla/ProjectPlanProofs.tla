------------------------- MODULE ProjectPlanProofs --------------------------
(***************************************************************************)
(* Theorems about ProjectPlan, for any clients, any finite set of phases   *)
(* and any number of requests in flight.                                   *)
(*                                                                         *)
(* First that a live project has a live client, which needs only what      *)
(* requests know of the two.  Then that the phases are a list, densely     *)
(* numbered, that a saved order names live ones, and that a day is whole.  *)
(***************************************************************************)
EXTENDS ProjectPlan, SequenceFacts

(* Nobody who is about to write has been overtaken: what the handler found *)
(* out about the project and its client is still so.                       *)
Current(r) == pc[r] = "write" /\ "client" \notin missed[r]

(* The types of what the theorem is about.                                 *)
ClientType ==
  /\ client \in [Clients -> {"live", "deleted"}]
  /\ project \in {"absent", "live", "deleted"}
  /\ project = "live" => owner \in Clients
  /\ DOMAIN pc = Requests
  /\ DOMAIN job = Requests
  /\ DOMAIN missed = Requests
  /\ \A r \in Requests :
       job[r].op \in {"create", "move", "removeClient"} => job[r].of \in Clients

(* The client checked is there, and the client counted is in no use.       *)
CheckInv ==
  \A r \in Requests : Current(r) =>
    /\ job[r].op \in {"create", "move"} => client[job[r].of] = "live"
    /\ job[r].op = "removeClient" => ~(project = "live" /\ owner = job[r].of)

IInv == ClientType /\ CheckInv /\ ProjectHasClient

-----------------------------------------------------------------------------
LEMMA JobOf ==
  ASSUME NEW j \in Jobs, j.op \in {"create", "move", "removeClient"}
  PROVE  j.of \in Clients
BY DEF Jobs, Due

(* The other requests: where they are, and what they know less and less.   *)
Aside(r) ==
  /\ DOMAIN pc' = Requests
  /\ DOMAIN job' = Requests
  /\ DOMAIN missed' = Requests
  /\ raced \subseteq raced'
  /\ \A q \in Requests \ {r} :
       /\ pc'[q] = pc[q]
       /\ job'[q] = job[q]
       /\ pc[q] = "write" => missed[q] \subseteq missed'[q]

(* A request ends and has written.                                         *)
LEMMA Written ==
  ASSUME ClientType, NEW r \in Requests, NEW what, NEW spoiled, Writes(r, what, spoiled)
  PROVE  /\ Aside(r)
         /\ pc'[r] = "idle" /\ job'[r] = NoJob
         /\ "client" \in what => \A q \in Requests \ {r} : ~Current(q)'
         /\ raced' = raced \union spoiled
BY DEF ClientType, Writes, End, Aside, Current

(* A request ends and has written nothing.                                 *)
LEMMA Left ==
  ASSUME ClientType, NEW r \in Requests, Leave(r)
  PROVE  Aside(r) /\ pc'[r] = "idle" /\ job'[r] = NoJob /\ UNCHANGED ownership
                  /\ raced' = raced
BY DEF ClientType, Leave, End, Reads, Aside, tables, ownership

(* A request goes on.                                                      *)
LEMMA Gone ==
  ASSUME ClientType, NEW r \in Requests, NEW step, Go(r, step),
         UNCHANGED <<missed, raced>> \/ \E what : Reads(r, what)
  PROVE  Aside(r) /\ pc'[r] = step /\ job'[r] = job[r] /\ raced' = raced
BY DEF ClientType, Go, Reads, Aside

(* What becomes of r in a step that leaves project and client alone.       *)
LEMMA QuietSteps ==
  ASSUME ClientType, NEW r \in Requests,
         \/ \E j \in Jobs : Arrive(r, j)
         \/ Abort(r) \/ NotFound(r) \/ ReadFirst(r)
         \/ CountPhases(r) \/ InsertPhase(r) \/ PhaseIdTaken(r)
         \/ MarkRemoved(r) \/ ReadSaved(r) \/ ReadSurvivors(r)
         \/ RemovePhase(r) \/ SavedGone(r)
         \/ Reorder(r) \/ UpdatePhase(r) \/ SaveOrder(r) \/ ResetOrder(r)
         \/ ReadCandidates(r) \/ ReadDay(r) \/ ShowDay(r)
         \/ CheckClient(r) \/ ClientUnknown(r)
         \/ ClientInUse(r) \/ CountProjects(r)
  PROVE  /\ Aside(r)
         /\ UNCHANGED ownership
         /\ \/ job'[r] = NoJob
            \/ job'[r] \in Jobs /\ pc'[r] = "read"
            \/ /\ job'[r] = job[r]
               /\ pc'[r] = "write" =>
                    /\ job[r].op \in {"create", "move"} => client[job[r].of] = "live"
                    /\ job[r].op = "removeClient" =>
                         ~(project = "live" /\ owner = job[r].of)
<1> DEFINE Goal == /\ Aside(r)
                   /\ UNCHANGED ownership
                   /\ \/ job'[r] = NoJob
                      \/ job'[r] \in Jobs /\ pc'[r] = "read"
                      \/ /\ job'[r] = job[r]
                         /\ pc'[r] = "write" =>
                              /\ job[r].op \in {"create", "move"} =>
                                   client[job[r].of] = "live"
                              /\ job[r].op = "removeClient" =>
                                   ~(project = "live" /\ owner = job[r].of)
<1>1. ASSUME NEW j \in Jobs, Arrive(r, j) PROVE Goal
  BY <1>1 DEF Arrive, ClientType, Aside, tables, ownership
<1>2. ASSUME Leave(r) PROVE Goal
  BY <1>2, Left
<1>3. ASSUME ReadFirst(r) PROVE Goal
  <2>1. PICK step : Go(r, step)
    BY <1>3 DEF ReadFirst
  <2>2. Aside(r) /\ job'[r] = job[r] /\ UNCHANGED ownership
    BY <1>3, <2>1, Gone DEF ReadFirst, tables, ownership
  <2>3. ASSUME pc'[r] = "write" PROVE job[r].op \notin {"move", "removeClient"}
    BY <1>3, <2>3 DEF ReadFirst, Go, ClientType
  <2>4. ASSUME job[r].op = "create" PROVE client[job[r].of] = "live"
    BY <1>3, <2>4 DEF ReadFirst, Found
  <2> QED
    BY <2>2, <2>3, <2>4
<1>4. ASSUME CountPhases(r) \/ ReadSurvivors(r) PROVE Goal
  <2>1. Go(r, "write") /\ (\E what : Reads(r, what)) /\ UNCHANGED ownership
    BY <1>4 DEF CountPhases, ReadSurvivors, tables, ownership
  <2>2. job[r].op \in {"add", "remove"}
    BY <1>4 DEF CountPhases, ReadSurvivors, At
  <2> QED
    BY <2>1, <2>2, Gone
<1>5. ASSUME MarkRemoved(r) \/ ReadSaved(r) \/ ReadCandidates(r) \/ ReadDay(r) PROVE Goal
  <2>1. PICK step \in {"saved", "survivors", "order", "answer"} : Go(r, step)
    BY <1>5 DEF MarkRemoved, ReadSaved, ReadCandidates, ReadDay
  <2>2. UNCHANGED <<missed, raced>> \/ \E what : Reads(r, what)
    BY <1>5 DEF MarkRemoved, ReadSaved, ReadCandidates, ReadDay
  <2>3. UNCHANGED ownership
    BY <1>5 DEF MarkRemoved, ReadSaved, ReadCandidates, ReadDay, tables, ownership
  <2> QED
    BY <2>1, <2>2, <2>3, Gone
<1>6. ASSUME CheckClient(r) PROVE Goal
  <2>1. /\ Go(r, "write") /\ (\E what : Reads(r, what)) /\ UNCHANGED ownership
        /\ job[r].op = "move" /\ client[job[r].of] = "live"
    BY <1>6 DEF CheckClient, At, tables, ownership
  <2> QED
    BY <2>1, Gone
<1>7. ASSUME CountProjects(r) PROVE Goal
  <2>1. /\ Go(r, "write") /\ (\E what : Reads(r, what)) /\ UNCHANGED ownership
        /\ job[r].op = "removeClient" /\ ~(project = "live" /\ owner = job[r].of)
    BY <1>7 DEF CountProjects, At, tables, ownership
  <2> QED
    BY <2>1, Gone
<1>8. ASSUME InsertPhase(r) \/ RemovePhase(r) \/ Reorder(r) \/ UpdatePhase(r)
             \/ SaveOrder(r) \/ ResetOrder(r)
      PROVE  Goal
  <2>1. \E what, spoiled : Writes(r, what, spoiled)
    BY <1>8 DEF InsertPhase, RemovePhase, Reorder, UpdatePhase, SaveOrder, ResetOrder
  <2>2. UNCHANGED ownership
    BY <1>8 DEF InsertPhase, RemovePhase, Reorder, UpdatePhase, SaveOrder, ResetOrder,
                ownership
  <2> QED
    BY <2>1, <2>2, Written
<1>9. Goal
  BY <1>1, <1>2, <1>3, <1>4, <1>5, <1>6, <1>7, <1>8
  DEF Abort, NotFound, PhaseIdTaken, SavedGone, ShowDay, ClientUnknown, ClientInUse
<1> QED
  BY <1>9

-----------------------------------------------------------------------------
LEMMA Start == Init => IInv
BY DEF Init, IInv, ClientType, CheckInv, Current, ProjectHasClient, NoJob

(* The client and the project as they were, with one request gone on.      *)
LEMMA QuietStep ==
  ASSUME IInv, NEW r \in Requests, Aside(r), UNCHANGED ownership,
         \/ job'[r] = NoJob
         \/ job'[r] \in Jobs /\ pc'[r] = "read"
         \/ /\ job'[r] = job[r]
            /\ pc'[r] = "write" =>
                 /\ job[r].op \in {"create", "move"} => client[job[r].of] = "live"
                 /\ job[r].op = "removeClient" => ~(project = "live" /\ owner = job[r].of)
  PROVE  IInv'
<1>1. ClientType'
  BY JobOf DEF IInv, ClientType, Aside, ownership, NoJob
<1>2. \A q \in Requests \ {r} : Current(q)' => Current(q)
  BY DEF Aside, Current
<1>3. CheckInv'
  BY <1>2 DEF IInv, CheckInv, Current, Aside, ownership, NoJob
<1>4. ProjectHasClient'
  BY DEF IInv, ProjectHasClient, Aside, ownership
<1> QED
  BY <1>1, <1>3, <1>4 DEF IInv

(* After a write of the project or of a client, nobody else is current.    *)
LEMMA ClientWritten ==
  ASSUME IInv, NEW r \in Requests, NEW what, NEW spoiled, Writes(r, what, spoiled),
         "client" \in what
  PROVE  /\ CheckInv'
         /\ \A q \in Requests : job'[q].op \in {"create", "move", "removeClient"} =>
              job'[q].of \in Clients
<1>1. /\ pc'[r] = "idle" /\ job'[r] = NoJob
      /\ \A q \in Requests \ {r} : ~Current(q)' /\ job'[q] = job[q]
  BY Written DEF IInv, Aside
<1> QED
  BY <1>1 DEF IInv, CheckInv, Current, ClientType, NoJob

LEMMA Inductive == IInv /\ [Next]_vars => IInv'
<1> SUFFICES ASSUME IInv, [Next]_vars PROVE IInv'
  OBVIOUS
<1>1. CASE UNCHANGED vars
  BY <1>1 DEF vars, tables, ownership, IInv, ClientType, CheckInv, Current, ProjectHasClient
<1>2. ASSUME NEW r \in Requests, (\E j \in Jobs : Arrive(r, j)) \/ Step(r)
      PROVE  IInv'
  <2>1. CASE CreateProject(r)
    <3>1. Writes(r, {"list", "client"}, missed[r] \intersect {"client"})
      BY <2>1 DEF CreateProject
    <3>2. /\ project' = "live" /\ owner' = job[r].of /\ client' = client
          /\ pc[r] = "write" /\ job[r].op = "create"
      BY <2>1 DEF CreateProject, At
    <3>3. ClientType' /\ CheckInv'
      BY <3>1, <3>2, ClientWritten, Written DEF IInv, ClientType, Aside
    <3>4. ProjectHasClient'
      BY <3>1, <3>2, Written DEF IInv, CheckInv, Current, ProjectHasClient
    <3> QED
      BY <3>3, <3>4 DEF IInv
  <2>2. CASE MoveProject(r)
    <3>1. Writes(r, {"client"}, missed[r] \intersect {"client"})
      BY <2>2 DEF MoveProject
    <3>2. /\ project' = project /\ owner' = job[r].of /\ client' = client
          /\ pc[r] = "write" /\ job[r].op = "move"
      BY <2>2 DEF MoveProject, At
    <3>3. ClientType' /\ CheckInv'
      BY <3>1, <3>2, ClientWritten, Written DEF IInv, ClientType, Aside
    <3>4. ProjectHasClient'
      BY <3>1, <3>2, Written DEF IInv, CheckInv, Current, ProjectHasClient
    <3> QED
      BY <3>3, <3>4 DEF IInv
  <2>3. CASE RemoveClient(r)
    <3>1. Writes(r, {"client"}, missed[r] \intersect {"client"})
      BY <2>3 DEF RemoveClient
    <3>2. /\ project' = project /\ owner' = owner
          /\ client' = [client EXCEPT ![job[r].of] = "deleted"]
          /\ pc[r] = "write" /\ job[r].op = "removeClient"
      BY <2>3 DEF RemoveClient, At
    <3>3. ClientType' /\ CheckInv'
      BY <3>1, <3>2, ClientWritten, Written DEF IInv, ClientType, Aside
    <3>4. ProjectHasClient'
      BY <3>1, <3>2, Written DEF IInv, ClientType, CheckInv, Current, ProjectHasClient
    <3> QED
      BY <3>3, <3>4 DEF IInv
  <2>4. CASE RemoveProject(r)
    <3>1. Writes(r, {"list", "saved"}, {})
      BY <2>4 DEF RemoveProject
    <3>2. project' = "deleted" /\ owner' = owner /\ client' = client
          /\ pc[r] = "write" /\ job[r].op = "removeProject"
      BY <2>4 DEF RemoveProject, At
    <3> QED
      BY <3>1, <3>2, Written
      DEF IInv, ClientType, CheckInv, Current, ProjectHasClient, Aside, NoJob
  <2> QED
    BY <1>2, <2>1, <2>2, <2>3, <2>4, QuietSteps, QuietStep DEF Step, IInv
<1> QED
  BY <1>1, <1>2 DEF Next

(* A live project has a live client, but where a request wrote without     *)
(* having seen another's write (clients.service.ts remove,                 *)
(* projects.service.ts create and update).                                 *)
THEOREM ProjectsHaveClients == Spec => []ProjectHasClient
<1>1. IInv => ProjectHasClient
  BY DEF IInv
<1> QED
  BY Start, Inductive, <1>1, PTL DEF Spec
-----------------------------------------------------------------------------
(* Where a request can be.                                                 *)
Pcs == {"idle", "read", "count", "check", "delete", "saved",
        "survivors", "write", "list", "order", "answer"}

(* What a request may have read.                                           *)
Gots == [count : Nat, kept : Orders \union {None}, rest : Orders, known : SUBSET Phases]

(* What others may have written since a request read it.                   *)
News == {"list", "saved", "client", "due"}

(* The types of what is kept of the requests in flight.                    *)
BookType ==
  /\ pc \in [Requests -> Pcs]
  /\ job \in [Requests -> Jobs \union {NoJob}]
  /\ got \in [Requests -> Gots]
  /\ missed \in [Requests -> SUBSET News]
  /\ raced \in SUBSET {"list", "saved", "client"}
  /\ arrived \in Nat

(* The types of what is stored.                                            *)
TableType ==
  /\ client \in [Clients -> {"live", "deleted"}]
  /\ project \in {"absent", "live", "deleted"}
  /\ owner \in Clients \union {None}
  /\ project # "absent" => owner # None
  /\ row \in [Phases -> {"absent", "live", "deleted"}]
  /\ pos \in [Phases -> Nat]
  /\ due \in [Phases -> Due]
  /\ saved \in Orders \union {None}

(* How a request came to where it is: it has missed nothing as long as it  *)
(* has read nothing, what it names has existed, and only a view of a day   *)
(* waits for its second read or its answer.                                *)
PathOf(r) ==
  /\ pc[r] \in {"idle", "read"} => missed[r] = {}
  /\ At(r, {"count", "write"}, {"add"}) => project # "absent"
  /\ At(r, {"delete", "saved", "survivors", "write"}, {"remove"}) => row[job[r].of] # "absent"
  /\ At(r, {"write"}, {"removeProject"}) => project # "absent"
  /\ pc[r] \in {"order", "answer"} => job[r].op \in Views

(* No phase is there before its project.                                   *)
NoPhases == project = "absent" => \A p \in Phases : row[p] = "absent"

(* r is about to write and has seen every write of that kind.              *)
Fresh(r, what) == pc[r] = "write" /\ what \notin missed[r]

(* s is in the order of the numbers f.                                     *)
InPlace(s, f) == \A i, k \in DOMAIN s : i < k => f[s[i]] <= f[s[k]]

(* What a fresh request is about to write of the list of phases is what    *)
(* the list is.                                                            *)
ListOf(r) ==
  Fresh(r, "list") =>
    /\ job[r].op = "add" => got[r].count = Cardinality(Live)
    /\ job[r].op = "remove" => ToSet(got[r].rest) = Live \ {job[r].of} /\ InPlace(got[r].rest, pos)
    /\ job[r].op = "reorder" => ToSet(job[r].of) = Live
    /\ job[r].op = "save" => ToSet(job[r].of) \subseteq Live

(* The saved order without p, if p is in it.                               *)
Pruned(p) == IF saved # None /\ p \in ToSet(saved) THEN Only(saved, Phases \ {p}) ELSE None

(* What a removal is about to write of a saved order it knows.             *)
SavedOf(r) ==
  At(r, {"survivors", "write"}, {"remove"}) /\ "saved" \notin missed[r] =>
    got[r].kept = Pruned(job[r].of)

(* The phases the worker has on the day.                                   *)
Wanted == {p \in Candidates : due[p] > 0}

(* r has seen all that was written of phases and dates.                    *)
UpToDate(r) == {"list", "due"} \intersect missed[r] = {}

(* Between its two reads, a view has the phases that were due.             *)
DayOf(r) ==
  pc[r] = "order" =>
    /\ ToSet(got[r].rest) \subseteq got[r].known
    /\ UpToDate(r) => got[r].known = Candidates /\ ToSet(got[r].rest) = Wanted

(* A day with every phase once, none that is not known, and the saved      *)
(* order kept to.                                                          *)
Whole(day, stored, known) ==
  /\ Len(day) = Cardinality(ToSet(day))
  /\ ToSet(day) \subseteq known
  /\ stored # None => Only(day, ToSet(stored)) = Only(stored, known)

(* What a view answers is whole.                                           *)
AnswerOf(r) ==
  pc[r] = "answer" =>
    /\ Whole(got[r].rest, got[r].kept, got[r].known)
    /\ UpToDate(r) => got[r].known = Candidates /\ Wanted \subseteq ToSet(got[r].rest)

(* All of it, of one request.                                              *)
Request(r) == PathOf(r) /\ ListOf(r) /\ SavedOf(r) /\ DayOf(r) /\ AnswerOf(r)

(* r moves on, having written these things; the others stay where they     *)
(* are, and know that much less.                                           *)
Moved(r, what) ==
  /\ BookType'
  /\ raced \subseteq raced'
  /\ \A q \in Requests \ {r} :
       /\ pc'[q] = pc[q] /\ job'[q] = job[q] /\ got'[q] = got[q]
       /\ IF pc[q] \in {"idle", "read"} THEN missed'[q] = {}
          ELSE /\ missed[q] \subseteq missed'[q]
               /\ what \intersect {"list", "saved"} \subseteq missed'[q]
               /\ job[q].op \in Views => what \subseteq missed'[q]

(* The two are the type invariant.                                         *)
LEMMA TypeParts == TypeOK <=> BookType /\ TableType
BY DEF TypeOK, BookType, TableType, Pcs, Gots, News

-----------------------------------------------------------------------------
(* A list of phases is a sequence that names none twice.                   *)
LEMMA OrdersAre ==
  ASSUME NEW s
  PROVE  s \in Orders <=> s \in Seq(Phases) /\ Distinct(s)
BY PhasesAssumption, AllLists DEF Orders

LEMMA NothingIs == Nothing \in Gots
<1>1. <<>> \in Orders
  BY OrdersAre, ListEmpty, EmptySeq
<1> QED
  BY <1>1 DEF Nothing, Gots

(* A request that writes is done, and the others have missed what it       *)
(* wrote.                                                                  *)
LEMMA BookWrites ==
  ASSUME BookType, \A q \in Requests : PathOf(q), NEW r \in Requests,
         NEW what \in SUBSET News, NEW spoiled \in SUBSET {"list", "saved", "client"},
         Writes(r, what, spoiled)
  PROVE  Moved(r, what) /\ pc'[r] = "idle" /\ missed'[r] = {} /\ raced' = raced \union spoiled
<1>1. /\ pc' = [pc EXCEPT ![r] = "idle"] /\ job' = [job EXCEPT ![r] = NoJob]
      /\ got' = [got EXCEPT ![r] = Nothing] /\ arrived' = arrived
      /\ raced' = raced \union spoiled
  BY DEF Writes, End
<1>2. missed' = [q \in Requests |->
         IF q = r \/ pc[q] \in {"idle", "read"} THEN {}
         ELSE missed[q] \union (IF job[q].op \in Views THEN what ELSE what \ {"due"})]
  BY DEF Writes
<1>3. pc' \in [Requests -> Pcs] /\ job' \in [Requests -> Jobs \union {NoJob}]
  BY <1>1 DEF BookType, Pcs
<1>4. got' \in [Requests -> Gots]
  BY <1>1, NothingIs DEF BookType
<1>5. missed' \in [Requests -> SUBSET News] /\ missed'[r] = {}
  BY <1>2 DEF BookType, News
<1>6. raced' \in SUBSET {"list", "saved", "client"} /\ arrived' \in Nat
  BY <1>1 DEF BookType
<1>7. BookType'
  BY <1>3, <1>4, <1>5, <1>6 DEF BookType
<1>8. ASSUME NEW q \in Requests \ {r}
      PROVE  /\ pc'[q] = pc[q] /\ job'[q] = job[q] /\ got'[q] = got[q]
             /\ IF pc[q] \in {"idle", "read"} THEN missed'[q] = {}
                ELSE /\ missed[q] \subseteq missed'[q]
                     /\ what \intersect {"list", "saved"} \subseteq missed'[q]
                     /\ job[q].op \in Views => what \subseteq missed'[q]
  BY <1>1, <1>2 DEF BookType
<1> QED
  BY <1>1, <1>5, <1>7, <1>8 DEF Moved, BookType

(* A request that goes on, whatever it has read.                           *)
LEMMA BookGoes ==
  ASSUME BookType, \A q \in Requests : PathOf(q), NEW r \in Requests,
         NEW step \in Pcs, NEW j \in Jobs \union {NoJob}, NEW g \in Gots, NEW m \in SUBSET News,
         pc' = [pc EXCEPT ![r] = step], job' = [job EXCEPT ![r] = j],
         got' = [got EXCEPT ![r] = g], missed' = [missed EXCEPT ![r] = m],
         raced' = raced, arrived' \in Nat
  PROVE  /\ Moved(r, {})
         /\ pc'[r] = step /\ job'[r] = j /\ got'[r] = g /\ missed'[r] = m
<1>1. BookType'
  BY DEF BookType
<1> QED
  BY <1>1 DEF Moved, BookType, PathOf

LEMMA BookSame ==
  ASSUME BookType, NEW r \in Requests
  PROVE  /\ pc = [pc EXCEPT ![r] = pc[r]] /\ job = [job EXCEPT ![r] = job[r]]
         /\ got = [got EXCEPT ![r] = got[r]] /\ missed = [missed EXCEPT ![r] = missed[r]]
         /\ pc[r] \in Pcs /\ job[r] \in Jobs \union {NoJob} /\ got[r] \in Gots
         /\ missed[r] \in SUBSET News
BY DEF BookType

(* A request that is done without having written.                          *)
LEMMA BookLeaves ==
  ASSUME BookType, \A q \in Requests : PathOf(q), NEW r \in Requests, Leave(r)
  PROVE  /\ Moved(r, {}) /\ pc'[r] = "idle" /\ missed'[r] = {} /\ UNCHANGED <<tables, raced>>
<1>1. /\ pc' = [pc EXCEPT ![r] = "idle"] /\ job' = [job EXCEPT ![r] = NoJob]
      /\ got' = [got EXCEPT ![r] = Nothing] /\ arrived' = arrived
      /\ raced' = raced /\ UNCHANGED tables
      /\ missed' = [missed EXCEPT ![r] = @ \ {"list", "saved", "client", "due"}]
  BY DEF Leave, End, Reads
<1>2. missed' = [missed EXCEPT ![r] = {}]
  BY <1>1 DEF BookType, News
<1>3. "idle" \in Pcs /\ NoJob \in Jobs \union {NoJob} /\ {} \in SUBSET News /\ arrived' \in Nat
  BY <1>1 DEF Pcs, BookType
<1> QED
  BY <1>1, <1>2, <1>3, NothingIs, BookGoes

LEMMA BookReads ==
  ASSUME BookType, \A q \in Requests : PathOf(q), NEW r \in Requests,
         NEW step \in Pcs, Go(r, step), NEW g \in Gots, got' = [got EXCEPT ![r] = g],
         NEW m \in SUBSET News, missed' = [missed EXCEPT ![r] = m], raced' = raced
  PROVE  /\ Moved(r, {})
         /\ pc'[r] = step /\ job'[r] = job[r] /\ got'[r] = g /\ missed'[r] = m
<1>1. pc' = [pc EXCEPT ![r] = step] /\ job' = job /\ arrived' = arrived
  BY DEF Go
<1>2. job' = [job EXCEPT ![r] = job[r]] /\ job[r] \in Jobs \union {NoJob} /\ arrived' \in Nat
  BY <1>1, BookSame DEF BookType
<1> QED
  BY <1>1, <1>2, BookGoes

(* A step that writes these things leaves the rest of the plan alone, and  *)
(* makes nothing absent that was there.                                    *)
Kept(what) ==
  /\ "list" \notin what => UNCHANGED <<row, pos, project>>
  /\ "saved" \notin what => UNCHANGED saved
  /\ what \intersect {"list", "due"} = {} => UNCHANGED due
  /\ project # "absent" => project' # "absent"
  /\ \A p \in Phases : row[p] # "absent" => row'[p] # "absent"

(* What requests name.                                                     *)
LEMMA JobKinds ==
  ASSUME NEW j \in Jobs
  PROVE  /\ j.op \in {"add", "update", "remove"} => j.of \in Phases
         /\ j.op \in {"add", "update"} => j.due \in Due
         /\ j.op \in {"reorder", "save"} => j.of \in Orders
         /\ j.op \in {"create", "move", "removeClient"} => j.of \in Clients
BY DEF Jobs

(* What holds of the other requests still does: where a write could have   *)
(* changed it, they have missed that write.                                *)
LEMMA OthersKept ==
  ASSUME BookType, NEW r \in Requests, NEW what \in SUBSET News,
         Moved(r, what), Kept(what), NEW q \in Requests \ {r}, Request(q)
  PROVE  Request(q)'
<1>1. /\ pc'[q] = pc[q] /\ job'[q] = job[q] /\ got'[q] = got[q]
      /\ IF pc[q] \in {"idle", "read"} THEN missed'[q] = {}
         ELSE /\ missed[q] \subseteq missed'[q]
              /\ what \intersect {"list", "saved"} \subseteq missed'[q]
              /\ job[q].op \in Views => what \subseteq missed'[q]
  BY DEF Moved
<1>2. PathOf(q)'
  <2>1. job[q].op = "remove" => job[q].of \in Phases
    BY JobKinds DEF BookType, NoJob
  <2> QED
    BY <1>1, <2>1 DEF Request, PathOf, At, Kept
<1>3. ListOf(q)'
  <2>1. ASSUME Fresh(q, "list")' PROVE Fresh(q, "list") /\ "list" \notin what
    BY <1>1, <2>1 DEF Fresh
  <2>2. ASSUME "list" \notin what PROVE UNCHANGED <<Live, row, pos>>
    BY <2>2 DEF Kept, Live
  <2> QED
    BY <1>1, <2>1, <2>2 DEF Request, ListOf, InPlace
<1>4. SavedOf(q)'
  <2>1. ASSUME At(q, {"survivors", "write"}, {"remove"})', "saved" \notin missed'[q]
        PROVE  /\ At(q, {"survivors", "write"}, {"remove"})
               /\ "saved" \notin missed[q] /\ saved' = saved
    BY <1>1, <2>1 DEF At, Kept
  <2> QED
    BY <1>1, <2>1 DEF Request, SavedOf, Pruned
<1>5. ASSUME pc[q] \in {"order", "answer"}, UpToDate(q)'
      PROVE  UpToDate(q) /\ UNCHANGED <<Candidates, Wanted>>
  <2>1. job[q].op \in Views
    BY <1>5 DEF Request, PathOf
  <2>2. UpToDate(q) /\ what \intersect {"list", "due"} = {}
    BY <1>1, <1>5, <2>1 DEF UpToDate
  <2>3. UNCHANGED <<row, project, due>>
    BY <2>2 DEF Kept
  <2> QED
    BY <2>2, <2>3 DEF Candidates, Live, Wanted
<1>6. DayOf(q)'
  BY <1>1, <1>5 DEF Request, DayOf
<1>7. AnswerOf(q)'
  BY <1>1, <1>5 DEF Request, AnswerOf, Whole
<1> QED
  BY <1>2, <1>3, <1>4, <1>6, <1>7 DEF Request

LEMMA IdleIsFine ==
  ASSUME NEW r \in Requests, pc[r] \in {"idle", "read"}, missed[r] = {}
  PROVE  Request(r)
BY DEF Request, PathOf, ListOf, SavedOf, DayOf, AnswerOf, Fresh, At

(* A request that goes on after a read has missed nothing of what it read. *)
LEMMA BookRefreshes ==
  ASSUME BookType, \A q \in Requests : PathOf(q), NEW r \in Requests,
         NEW step \in Pcs, Go(r, step), NEW g \in Gots, got' = [got EXCEPT ![r] = g],
         NEW what, Reads(r, what)
  PROVE  /\ Moved(r, {}) /\ raced' = raced
         /\ pc'[r] = step /\ job'[r] = job[r] /\ got'[r] = g /\ missed'[r] = missed[r] \ what
<1>1. /\ missed[r] \ what \in SUBSET News /\ raced' = raced
      /\ missed' = [missed EXCEPT ![r] = missed[r] \ what]
  BY BookSame DEF Reads
<1> QED
  BY <1>1, BookReads

-----------------------------------------------------------------------------
LEMMA LiveIs == TableType => Live \in SUBSET Phases /\ IsFiniteSet(Live) /\ Cardinality(Live) \in Nat
BY PhasesAssumption, FS_Subset, FS_CardinalityType DEF Live

(* The suggested sequence has the phases of the day, each once: by day and *)
(* name any two of them can be put in an order (sequence-derivation.ts     *)
(* suggestSequence).                                                       *)
LEMMA SuggestIs ==
  ASSUME TableType
  PROVE  SuggestSequence \in Orders /\ ToSet(SuggestSequence) = Wanted
<1>1. Wanted \in SUBSET Phases /\ IsFiniteSet(Wanted)
  <2>1. Wanted \in SUBSET Phases
    BY DEF Wanted, Candidates, Live
  <2> QED
    BY <2>1, PhasesAssumption, FS_Subset
<1>2. Total(Wanted, Earlier) /\ Transitive(Wanted, Earlier)
  <2>1. \A p \in Phases : due[p] \in Int /\ NameRank[p] \in Int
    BY NameRankAssumption, PlanBoundsAssumption DEF TableType, Due
  <2>2. \A p, q \in Phases : <<p, q>> \in Earlier <=>
          due[p] < due[q] \/ (due[p] = due[q] /\ NameRank[p] <= NameRank[q])
    BY DEF Earlier
  <2>3. ASSUME NEW p \in Wanted, NEW q \in Wanted
        PROVE  <<p, q>> \in Earlier \/ <<q, p>> \in Earlier
    <3>1. /\ due[p] \in Int /\ due[q] \in Int
          /\ NameRank[p] \in Int /\ NameRank[q] \in Int
      BY <1>1, <2>1
    <3>2. \/ due[p] < due[q] \/ (due[p] = due[q] /\ NameRank[p] <= NameRank[q])
          \/ due[q] < due[p] \/ (due[q] = due[p] /\ NameRank[q] <= NameRank[p])
      BY <3>1
    <3> QED
      BY <1>1, <2>2, <3>2
  <2>4. ASSUME NEW p \in Wanted, NEW q \in Wanted, NEW s \in Wanted,
               <<p, q>> \in Earlier, <<q, s>> \in Earlier
        PROVE  <<p, s>> \in Earlier
    <3>1. /\ due[p] \in Int /\ due[q] \in Int /\ due[s] \in Int
          /\ NameRank[p] \in Int /\ NameRank[q] \in Int /\ NameRank[s] \in Int
      BY <1>1, <2>1
    <3>2. due[p] < due[q] \/ (due[p] = due[q] /\ NameRank[p] <= NameRank[q])
      BY <1>1, <2>2, <2>4
    <3>3. due[q] < due[s] \/ (due[q] = due[s] /\ NameRank[q] <= NameRank[s])
      BY <1>1, <2>2, <2>4
    <3>4. due[p] < due[s] \/ (due[p] = due[s] /\ NameRank[p] <= NameRank[s])
      BY <3>1, <3>2, <3>3
    <3> QED
      BY <1>1, <2>2, <3>4
  <2> QED
    BY <2>3, <2>4 DEF Total, Transitive
<1>3. SuggestSequence = Sorted(Wanted, Earlier)
  BY DEF SuggestSequence, Wanted
<1>4. /\ SuggestSequence \in Seq(Wanted) /\ Distinct(SuggestSequence)
      /\ ToSet(SuggestSequence) = Wanted
  BY <1>1, <1>2, <1>3, SortedIs
<1> QED
  BY <1>1, <1>4, SeqMonotonic, OrdersAre

(* Reconciling the saved order with the suggested one loses no phase,      *)
(* doubles none, and keeps to the saved order, whatever the two are        *)
(* (sequence-derivation.ts reconcileManualOrder).                          *)
LEMMA ReconcileIs ==
  ASSUME NEW stored \in Orders \union {None}, NEW suggested \in Orders,
         NEW known \in SUBSET Phases, ToSet(suggested) \subseteq known
  PROVE  /\ OrderedPhaseIds(stored, suggested, known) \in Orders
         /\ Whole(OrderedPhaseIds(stored, suggested, known), stored, known)
         /\ ToSet(suggested) \subseteq ToSet(OrderedPhaseIds(stored, suggested, known))
<1>1. CASE stored = None
  <2>1. OrderedPhaseIds(stored, suggested, known) = suggested
    BY <1>1 DEF OrderedPhaseIds
  <2>2. Len(suggested) = Cardinality(ToSet(suggested))
    BY OrdersAre, ListLength, PhasesAssumption
  <2> QED
    BY <1>1, <2>1, <2>2 DEF Whole
<1>2. CASE stored # None
  <2> DEFINE rest == Phases \ (ToSet(stored) \intersect known)
             front == Only(stored, known)
             back == Only(suggested, rest)
  <2>1. stored \in Seq(Phases) /\ Distinct(stored) /\ suggested \in Seq(Phases) /\ Distinct(suggested)
    BY <1>2, OrdersAre
  <2>2. front \in Seq(Phases) /\ ToSet(front) = ToSet(stored) \intersect known /\ Distinct(front)
    BY <2>1, OnlyIs
  <2>3. back \in Seq(Phases) /\ ToSet(back) = ToSet(suggested) \intersect rest /\ Distinct(back)
    BY <2>1, OnlyIs
  <2>4. OrderedPhaseIds(stored, suggested, known) = front \o back
    BY <1>2 DEF OrderedPhaseIds, ReconcileManualOrder
  <2> HIDE DEF front, back
  <2>5. Only(front \o back, ToSet(stored)) = front
    <3>1. Only(front \o back, ToSet(stored)) = Only(front, ToSet(stored)) \o Only(back, ToSet(stored))
      BY <2>2, <2>3, OnlyConcat
    <3>2. Only(front, ToSet(stored)) = front
      BY <2>2, OnlyIs
    <3>3. ToSet(back) \intersect ToSet(stored) = {}
      BY <2>3
    <3>4. Only(back, ToSet(stored)) = <<>>
      BY <2>3, <3>3, OnlyIs
    <3> QED
      BY <2>2, <3>1, <3>2, <3>4, ConcatEmptySeq
  <2>6. front \o back \in Seq(Phases)
    BY <2>2, <2>3, ConcatProperties
  <2>7. ToSet(front \o back) = ToSet(front) \union ToSet(back) /\ Distinct(front \o back)
    BY <2>2, <2>3, ListConcat
  <2>8. Len(front \o back) = Cardinality(ToSet(front \o back))
    BY <2>6, <2>7, ListLength, PhasesAssumption
  <2>9. ToSet(suggested) \subseteq Phases
    BY <2>1, LenProperties DEF ToSet
  <2>10. ToSet(suggested) \subseteq ToSet(front \o back) /\ ToSet(front \o back) \subseteq known
    BY <2>2, <2>3, <2>7, <2>9
  <2>11. front \o back \in Orders
    BY <2>6, <2>7, OrdersAre
  <2> QED
    BY <2>4, <2>5, <2>8, <2>10, <2>11 DEF Whole, front
<1> QED
  BY <1>1, <1>2

-----------------------------------------------------------------------------
LEMMA GotIs ==
  ASSUME NEW g \in Gots
  PROVE  /\ \A n \in Nat : [g EXCEPT !.count = n] \in Gots
         /\ \A k \in Orders \union {None} : [g EXCEPT !.kept = k] \in Gots
         /\ \A s \in Orders : [g EXCEPT !.rest = s] \in Gots
         /\ \A s \in Orders, K \in SUBSET Phases : [g EXCEPT !.rest = s, !.known = K] \in Gots
         /\ \A k \in Orders \union {None}, s \in Orders : [g EXCEPT !.kept = k, !.rest = s] \in Gots
BY DEF Gots

(* Every step that writes no table: the request is where its next step     *)
(* expects it to be, with what is stored in hand.                          *)
LEMMA ReadingSteps ==
  ASSUME BookType, TableType, \A q \in Requests : Request(q), NEW r \in Requests,
         \/ \E j \in Jobs : Arrive(r, j)
         \/ Abort(r) \/ NotFound(r) \/ ReadFirst(r)
         \/ CountPhases(r) \/ PhaseIdTaken(r)
         \/ MarkRemoved(r) \/ ReadSaved(r) \/ ReadSurvivors(r) \/ SavedGone(r)
         \/ ReadCandidates(r) \/ ReadDay(r) \/ ShowDay(r)
         \/ CheckClient(r) \/ ClientUnknown(r)
         \/ ClientInUse(r) \/ CountProjects(r)
  PROVE  Moved(r, {}) /\ UNCHANGED <<tables, raced>> /\ Request(r)'
<1> DEFINE Goal == Moved(r, {}) /\ UNCHANGED <<tables, raced>> /\ Request(r)'
<1>0. \A q \in Requests : PathOf(q)
  BY DEF Request
<1>a. /\ pc = [pc EXCEPT ![r] = pc[r]] /\ job = [job EXCEPT ![r] = job[r]]
      /\ got = [got EXCEPT ![r] = got[r]] /\ missed = [missed EXCEPT ![r] = missed[r]]
      /\ pc[r] \in Pcs /\ job[r] \in Jobs \union {NoJob} /\ got[r] \in Gots
      /\ missed[r] \in SUBSET News
  BY BookSame
<1>p. /\ "read" \in Pcs /\ "write" \in Pcs /\ "saved" \in Pcs
      /\ "survivors" \in Pcs /\ "order" \in Pcs /\ "answer" \in Pcs
  BY DEF Pcs
<1>b. ASSUME NEW what, Reads(r, what)
      PROVE  /\ missed[r] \ what \in SUBSET News /\ raced' = raced
             /\ missed' = [missed EXCEPT ![r] = missed[r] \ what]
  BY <1>b, <1>a DEF Reads
<1>1. ASSUME NEW j \in Jobs, Arrive(r, j) PROVE Goal
  <2>1. /\ pc' = [pc EXCEPT ![r] = "read"] /\ job' = [job EXCEPT ![r] = j]
        /\ got' = [got EXCEPT ![r] = got[r]] /\ missed' = [missed EXCEPT ![r] = missed[r]]
        /\ raced' = raced /\ arrived' \in Nat /\ pc[r] = "idle" /\ UNCHANGED tables
    BY <1>1, <1>a DEF Arrive, BookType
  <2>2. BookType'
    BY <1>p, <1>a, <2>1 DEF BookType
  <2>3. Moved(r, {}) /\ pc'[r] = "read" /\ missed'[r] = missed[r]
    BY <1>0, <2>1, <2>2 DEF Moved, BookType, PathOf
  <2>4. missed[r] = {}
    BY <1>0, <2>1 DEF PathOf
  <2>5. Request(r)'
    BY <2>3, <2>4 DEF Request, PathOf, ListOf, SavedOf, DayOf, AnswerOf, Fresh, At
  <2> QED
    BY <2>1, <2>3, <2>5
<1>2. ASSUME Leave(r) PROVE Goal
  <2>1. Moved(r, {}) /\ pc'[r] = "idle" /\ missed'[r] = {} /\ UNCHANGED <<tables, raced>>
    BY <1>0, <1>2, BookLeaves
  <2>2. Request(r)'
    BY <2>1 DEF Request, PathOf, ListOf, SavedOf, DayOf, AnswerOf, Fresh, At
  <2> QED
    BY <2>1, <2>2
<1>3. ASSUME ReadFirst(r) PROVE Goal
  <2>1. PICK step \in Pcs : Go(r, step)
    BY <1>3 DEF ReadFirst, Pcs
  <2>2. UNCHANGED <<tables, got, missed, raced>> /\ pc[r] = "read" /\ Found(job[r])
    BY <1>3 DEF ReadFirst
  <2>3. /\ Moved(r, {}) /\ pc'[r] = step /\ job'[r] = job[r] /\ got'[r] = got[r]
        /\ missed'[r] = missed[r]
    BY <1>0, <1>a, <2>1, <2>2, BookReads, SMTT(20)
  <2>4. missed[r] = {}
    BY <1>0, <2>2 DEF PathOf
  <2>5. step = CASE job[r].op \in {"add", "removeClient"} -> "count"
             [] job[r].op = "move" -> "check"
             [] job[r].op = "remove" -> "delete"
             [] job[r].op = "one" -> "list"
             [] OTHER -> "write"
    BY <1>3, <2>3 DEF ReadFirst, Go, BookType
  <2>6. UNCHANGED <<project, row, pos, Live>>
    BY <2>2 DEF tables, ownership, order, Live
  <2>7. PathOf(r)'
    BY <2>2, <2>3, <2>4, <2>5, <2>6 DEF PathOf, At, Found
  <2>8. ListOf(r)'
    BY <2>2, <2>3, <2>4, <2>5, <2>6 DEF ListOf, Fresh, Found, Candidates
  <2>9. SavedOf(r)' /\ DayOf(r)' /\ AnswerOf(r)'
    BY <2>3, <2>5 DEF SavedOf, DayOf, AnswerOf, At
  <2> QED
    BY <2>2, <2>3, <2>7, <2>8, <2>9 DEF Request
<1>4. ASSUME CountPhases(r) PROVE Goal
  <2>1. /\ Go(r, "write") /\ Reads(r, {"list"}) /\ UNCHANGED tables
        /\ got' = [got EXCEPT ![r] = [got[r] EXCEPT !.count = Cardinality(Live)]]
        /\ At(r, {"count"}, {"add"})
    BY <1>4 DEF CountPhases, BookType
  <2>2. [got[r] EXCEPT !.count = Cardinality(Live)] \in Gots
    BY <1>a, LiveIs, GotIs
  <2>3. /\ Moved(r, {}) /\ pc'[r] = "write" /\ job'[r] = job[r]
        /\ got'[r] = [got[r] EXCEPT !.count = Cardinality(Live)]
    BY <1>0, <1>p, <2>1, <2>2, BookRefreshes
  <2>4. UNCHANGED <<project, row, pos, Live>> /\ got'[r].count = Cardinality(Live)
    BY <1>a, <2>1, <2>3 DEF tables, ownership, order, Live, Gots
  <2>5. PathOf(r)' /\ ListOf(r)'
    BY <1>0, <2>1, <2>3, <2>4 DEF PathOf, At, ListOf
  <2>6. SavedOf(r)' /\ DayOf(r)' /\ AnswerOf(r)'
    BY <2>1, <2>3 DEF SavedOf, DayOf, AnswerOf, At
  <2> QED
    BY <1>b, <2>1, <2>3, <2>5, <2>6 DEF Request
<1>5. ASSUME MarkRemoved(r) PROVE Goal
  <2>1. /\ Go(r, "saved") /\ UNCHANGED <<tables, got, missed, raced>>
        /\ At(r, {"delete"}, {"remove"})
    BY <1>5 DEF MarkRemoved
  <2>2. Moved(r, {}) /\ pc'[r] = "saved" /\ job'[r] = job[r]
    BY <1>0, <1>a, <2>1, <1>p, BookReads
  <2>3. UNCHANGED row
    BY <2>1 DEF tables, order
  <2>4. Request(r)'
    BY <1>0, <2>1, <2>2, <2>3
    DEF Request, PathOf, ListOf, SavedOf, DayOf, AnswerOf, Fresh, At
  <2> QED
    BY <2>1, <2>2, <2>4
<1>6. ASSUME ReadSaved(r) PROVE Goal
  <2> DEFINE kept == Pruned(job[r].of)
  <2>1. /\ Go(r, "survivors") /\ Reads(r, {"saved"}) /\ UNCHANGED tables
        /\ got' = [got EXCEPT ![r] = [got[r] EXCEPT !.kept = kept]]
        /\ At(r, {"saved"}, {"remove"})
    BY <1>6 DEF ReadSaved, BookType, Pruned
  <2>2. kept \in Orders \union {None}
    <3>1. ASSUME saved # None PROVE Only(saved, Phases \ {job[r].of}) \in Orders
      BY <3>1, OrdersAre, OnlyIs DEF TableType
    <3> QED
      BY <3>1 DEF Pruned
  <2> HIDE DEF kept
  <2>3. [got[r] EXCEPT !.kept = kept] \in Gots
    BY <1>a, <2>2, GotIs
  <2>4. /\ Moved(r, {}) /\ pc'[r] = "survivors" /\ job'[r] = job[r]
        /\ got'[r] = [got[r] EXCEPT !.kept = kept]
    BY <1>0, <1>p, <2>1, <2>3, BookRefreshes
  <2>5. UNCHANGED <<row, saved>> /\ got'[r].kept = kept
    BY <1>a, <2>1, <2>4 DEF tables, order, Gots
  <2>6. SavedOf(r)'
    BY <2>4, <2>5 DEF SavedOf, kept, Pruned
  <2>7. PathOf(r)' /\ ListOf(r)' /\ DayOf(r)' /\ AnswerOf(r)'
    BY <1>0, <2>1, <2>4, <2>5 DEF PathOf, At, ListOf, DayOf, AnswerOf, Fresh
  <2> QED
    BY <1>b, <2>1, <2>4, <2>6, <2>7 DEF Request
<1>7. ASSUME ReadSurvivors(r) PROVE Goal
  <2>1. PICK s \in SetToSeqs(Live \ {job[r].of}) :
          /\ \A i, k \in DOMAIN s : i < k => pos[s[i]] <= pos[s[k]]
          /\ got' = [got EXCEPT ![r].rest = s]
    BY <1>7 DEF ReadSurvivors
  <2>2. /\ Go(r, "write") /\ Reads(r, {"list"}) /\ UNCHANGED tables
        /\ got' = [got EXCEPT ![r] = [got[r] EXCEPT !.rest = s]]
        /\ At(r, {"survivors"}, {"remove"})
    BY <1>7, <2>1 DEF ReadSurvivors, BookType
  <2>3. s \in Orders /\ ToSet(s) = Live \ {job[r].of}
    <3>1. Live \ {job[r].of} \in SUBSET Phases /\ IsFiniteSet(Live \ {job[r].of})
      BY LiveIs, FS_RemoveElement
    <3>2. s \in Seq(Live \ {job[r].of}) /\ Distinct(s) /\ ToSet(s) = Live \ {job[r].of}
      BY <3>1, ListsOf
    <3> QED
      BY <3>1, <3>2, SeqMonotonic, OrdersAre
  <2>4. [got[r] EXCEPT !.rest = s] \in Gots
    BY <1>a, <2>3, GotIs
  <2>5. /\ Moved(r, {}) /\ pc'[r] = "write" /\ job'[r] = job[r]
        /\ got'[r] = [got[r] EXCEPT !.rest = s] /\ missed'[r] = missed[r] \ {"list"}
    BY <1>0, <1>p, <2>2, <2>4, BookRefreshes
  <2>6. /\ UNCHANGED <<row, pos, Live, saved>>
        /\ got'[r].rest = s /\ got'[r].kept = got[r].kept
    BY <1>a, <2>2, <2>5 DEF tables, order, Gots, Live
  <2>7. ListOf(r)'
    BY <2>1, <2>2, <2>3, <2>5, <2>6 DEF ListOf, InPlace, At
  <2>8. SavedOf(r)'
    BY <2>2, <2>5, <2>6 DEF Request, SavedOf, At, Pruned
  <2>9. PathOf(r)' /\ DayOf(r)' /\ AnswerOf(r)'
    BY <1>0, <2>2, <2>5, <2>6 DEF PathOf, At, DayOf, AnswerOf
  <2> QED
    BY <1>b, <2>2, <2>5, <2>7, <2>8, <2>9 DEF Request
<1>8. ASSUME ReadCandidates(r) PROVE Goal
  <2> DEFINE g == [got[r] EXCEPT !.rest = SuggestSequence, !.known = Candidates]
  <2>1. /\ Go(r, "order") /\ Reads(r, {"list", "due"}) /\ UNCHANGED tables
        /\ got' = [got EXCEPT ![r] = g]
        /\ job[r].op \in Views
    BY <1>8 DEF ReadCandidates, BookType, At, Views
  <2>2. Candidates \in SUBSET Phases
    BY DEF Candidates, Live
  <2>3. g \in Gots /\ g.rest = SuggestSequence /\ g.known = Candidates
    BY <1>a, <2>2, SuggestIs, GotIs DEF Gots
  <2> HIDE DEF g
  <2>4. Moved(r, {}) /\ pc'[r] = "order" /\ job'[r] = job[r] /\ got'[r] = g
    BY <1>0, <1>p, <2>1, <2>3, BookRefreshes
  <2>5. UNCHANGED <<Candidates, Wanted>>
    BY <2>1 DEF tables, order, ownership, Candidates, Live, Wanted
  <2>6. ToSet(g.rest) = Wanted /\ Wanted \subseteq Candidates
    BY <2>3, SuggestIs DEF Wanted
  <2>7. DayOf(r)'
    BY <2>3, <2>4, <2>5, <2>6 DEF DayOf
  <2>8. PathOf(r)' /\ ListOf(r)' /\ SavedOf(r)' /\ AnswerOf(r)'
    BY <2>1, <2>4 DEF PathOf, At, ListOf, SavedOf, AnswerOf, Fresh
  <2> QED
    BY <1>b, <2>1, <2>4, <2>7, <2>8 DEF Request
<1>9. ASSUME ReadDay(r) PROVE Goal
  <2> DEFINE day == OrderedPhaseIds(saved, got[r].rest, got[r].known)
             g == [got[r] EXCEPT !.kept = saved, !.rest = day]
  <2>1. /\ Go(r, "answer") /\ Reads(r, {"saved"}) /\ UNCHANGED tables
        /\ got' = [got EXCEPT ![r] = g]
        /\ job[r].op \in Views /\ pc[r] = "order"
    BY <1>9 DEF ReadDay, BookType, At
  <2>2. ToSet(got[r].rest) \subseteq got[r].known
    BY <2>1 DEF Request, DayOf
  <2>3. /\ saved \in Orders \union {None} /\ got[r].rest \in Orders
        /\ got[r].known \in SUBSET Phases
    BY <1>a DEF TableType, Gots
  <2>4. /\ day \in Orders /\ Whole(day, saved, got[r].known)
        /\ ToSet(got[r].rest) \subseteq ToSet(day)
    BY <2>2, <2>3, ReconcileIs
  <2> HIDE DEF day
  <2>5. g \in Gots /\ g.rest = day /\ g.known = got[r].known /\ g.kept = saved
    BY <1>a, <2>3, <2>4, GotIs DEF Gots
  <2> HIDE DEF g
  <2>6. /\ Moved(r, {}) /\ pc'[r] = "answer" /\ job'[r] = job[r] /\ got'[r] = g
        /\ missed'[r] = missed[r] \ {"saved"}
    BY <1>0, <1>p, <2>1, <2>5, BookRefreshes
  <2>7. UNCHANGED <<Candidates, Wanted>>
    BY <2>1 DEF tables, order, ownership, Candidates, Live, Wanted
  <2>8. UpToDate(r)' => UpToDate(r)
    BY <2>6 DEF UpToDate
  <2>9. AnswerOf(r)'
    <3>1. UpToDate(r) => got[r].known = Candidates /\ ToSet(got[r].rest) = Wanted
      BY <2>1 DEF Request, DayOf
    <3>2. Whole(g.rest, g.kept, g.known)
      BY <2>4, <2>5
    <3> QED
      BY <2>4, <2>5, <2>6, <2>7, <2>8, <3>1, <3>2 DEF AnswerOf, Whole
  <2>10. PathOf(r)' /\ ListOf(r)' /\ SavedOf(r)' /\ DayOf(r)'
    BY <2>1, <2>6 DEF PathOf, At, ListOf, SavedOf, DayOf, Fresh
  <2> QED
    BY <1>b, <2>1, <2>6, <2>9, <2>10 DEF Request
<1>10. ASSUME CheckClient(r) \/ CountProjects(r) PROVE Goal
  <2>1. /\ Go(r, "write") /\ Reads(r, {"client"}) /\ UNCHANGED <<tables, got>>
        /\ job[r].op \in {"move", "removeClient"}
    BY <1>10 DEF CheckClient, CountProjects, At
  <2>2. Moved(r, {}) /\ pc'[r] = "write" /\ job'[r] = job[r]
    BY <1>0, <1>a, <1>p, <2>1, BookRefreshes
  <2>3. Request(r)'
    BY <2>1, <2>2
    DEF Request, PathOf, ListOf, SavedOf, DayOf, AnswerOf, Fresh, At
  <2> QED
    BY <1>b, <2>1, <2>2, <2>3
<1>11. Goal
  BY <1>1, <1>2, <1>3, <1>4, <1>5, <1>6, <1>7, <1>8, <1>9, <1>10
  DEF Abort, NotFound, PhaseIdTaken, SavedGone, ShowDay, ClientUnknown, ClientInUse
<1> QED
  BY <1>11

-----------------------------------------------------------------------------
(* S in the order of the numbers f.                                        *)
OrderBy(S, f) == Sorted(S, {v \in S \X S : f[v[1]] <= f[v[2]]})

LEMMA OrderByIs ==
  ASSUME NEW S \in SUBSET Phases, NEW f \in [Phases -> Nat]
  PROVE  /\ OrderBy(S, f) \in Orders /\ ToSet(OrderBy(S, f)) = S
         /\ InPlace(OrderBy(S, f), f)
<1> DEFINE R == {v \in S \X S : f[v[1]] <= f[v[2]]}
<1>1. IsFiniteSet(S)
  BY PhasesAssumption, FS_Subset
<1>2. \A p, q \in S : f[p] \in Int /\ (<<p, q>> \in R <=> f[p] <= f[q])
  OBVIOUS
<1> HIDE DEF R
<1>3. Total(S, R)
  <2> SUFFICES ASSUME NEW p \in S, NEW q \in S PROVE <<p, q>> \in R \/ <<q, p>> \in R
    BY DEF Total
  <2>1. f[p] \in Int /\ f[q] \in Int
    BY <1>2
  <2>2. f[p] <= f[q] \/ f[q] <= f[p]
    BY <2>1
  <2> QED
    BY <1>2, <2>2
<1>4. Transitive(S, R)
  BY <1>2 DEF Transitive
<1>5. /\ Sorted(S, R) \in Seq(S) /\ Distinct(Sorted(S, R)) /\ ToSet(Sorted(S, R)) = S
      /\ InOrderOf(Sorted(S, R), R)
  BY <1>1, <1>3, <1>4, SortedIs
<1>6. OrderBy(S, f) = Sorted(S, R)
  BY DEF OrderBy, R
<1>7. OrderBy(S, f) \in Orders
  BY <1>5, <1>6, SeqMonotonic, OrdersAre
<1>8. InPlace(OrderBy(S, f), f)
  <2> SUFFICES ASSUME NEW s, s = Sorted(S, R), NEW i \in DOMAIN s, NEW k \in DOMAIN s, i < k
               PROVE  f[s[i]] <= f[s[k]]
    BY <1>6 DEF InPlace
  <2>1. <<s[i], s[k]>> \in R
    BY <1>5 DEF InOrderOf
  <2>2. s[i] \in S /\ s[k] \in S
    BY <1>5 DEF ToSet
  <2> QED
    BY <1>2, <2>1, <2>2
<1> QED
  BY <1>5, <1>6, <1>7, <1>8

(* Where no two have the same number there is one such order.              *)
LEMMA OnlyOneOrder ==
  ASSUME NEW S \in SUBSET Phases, NEW f \in [Phases -> Nat],
         \A p, q \in S : f[p] = f[q] => p = q,
         NEW s \in Orders, ToSet(s) = S, InPlace(s, f),
         NEW t \in Orders, ToSet(t) = S, InPlace(t, f)
  PROVE  s = t
<1> DEFINE R == {v \in S \X S : f[v[1]] <= f[v[2]]}
<1>1. \A p, q \in S : f[p] \in Int /\ (<<p, q>> \in R <=> f[p] <= f[q])
  OBVIOUS
<1> HIDE DEF R
<1>2. ASSUME NEW o, ToSet(o) = S, InPlace(o, f) PROVE InOrderOf(o, R)
  <2> SUFFICES ASSUME NEW i \in DOMAIN o, NEW k \in DOMAIN o, i < k
               PROVE  <<o[i], o[k]>> \in R
    BY DEF InOrderOf
  <2>1. o[i] \in S /\ o[k] \in S
    BY <1>2 DEF ToSet
  <2> QED
    BY <1>1, <1>2, <2>1 DEF InPlace
<1>3. InOrderOf(s, R) /\ InOrderOf(t, R)
  BY <1>2
<1>4. \A x, y \in S : <<x, y>> \in R /\ <<y, x>> \in R => x = y
  <2> SUFFICES ASSUME NEW x \in S, NEW y \in S, <<x, y>> \in R, <<y, x>> \in R PROVE x = y
    OBVIOUS
  <2>1. f[x] <= f[y] /\ f[y] <= f[x] /\ f[x] \in Int /\ f[y] \in Int
    BY <1>1
  <2>2. f[x] = f[y]
    BY <2>1
  <2> QED
    BY <2>2
<1>5. s \in Seq(Phases) /\ Distinct(s) /\ t \in Seq(Phases) /\ Distinct(t)
  BY OrdersAre
<1> QED
  BY <1>3, <1>4, <1>5, SortedUnique, PhasesAssumption

LEMMA PlaceIs ==
  ASSUME NEW s \in Orders
  PROVE  /\ DOMAIN s = 1..Len(s) /\ Len(s) \in Nat /\ Len(s) = Cardinality(ToSet(s))
         /\ \A i \in 1..Len(s) : Place(s, s[i]) = i - 1
         /\ \A p \in ToSet(s) : Place(s, p) \in 0..Len(s) - 1
<1>1. s \in Seq(Phases) /\ Distinct(s)
  BY OrdersAre
<1>2. DOMAIN s = 1..Len(s) /\ Len(s) \in Nat
  BY <1>1, LenProperties
<1>3. Len(s) = Cardinality(ToSet(s))
  BY <1>1, ListLength, PhasesAssumption
<1>4. ASSUME NEW i \in 1..Len(s) PROVE Place(s, s[i]) = i - 1
  <2>1. \A k \in DOMAIN s : s[k] = s[i] => k = i
    BY <1>1, <1>2 DEF Distinct
  <2>2. (CHOOSE k \in DOMAIN s : s[k] = s[i]) = i
    BY <1>2, <2>1
  <2> QED
    BY <2>2 DEF Place
<1>5. ASSUME NEW p \in ToSet(s) PROVE Place(s, p) \in 0..Len(s) - 1
  <2>1. PICK i \in 1..Len(s) : s[i] = p
    BY <1>2 DEF ToSet
  <2> QED
    BY <1>2, <1>4, <2>1
<1> QED
  BY <1>2, <1>3, <1>4, <1>5

(* f numbers S from 0 with no gap.                                         *)
DenseOn(S, f) == {f[p] : p \in S} = 0..Cardinality(S) - 1

(* Then it gives no number twice.                                          *)
LEMMA DenseIs ==
  ASSUME NEW S \in SUBSET Phases, NEW f \in [Phases -> Nat], DenseOn(S, f)
  PROVE  \A p, q \in S : f[p] = f[q] => p = q
<1> DEFINE n == Cardinality(S)
           g == [p \in S |-> f[p]]
<1>1. IsFiniteSet(S) /\ n \in Nat
  BY PhasesAssumption, FS_Subset, FS_CardinalityType
<1>2. g \in Surjection(S, 0..n - 1)
  <2>1. \A p \in S : f[p] \in 0..n - 1
    BY DEF DenseOn
  <2>2. \A k \in 0..n - 1 : \E p \in S : f[p] = k
    BY DEF DenseOn
  <2> QED
    BY <2>1, <2>2 DEF Surjection
<1>3. Cardinality(0..n - 1) = n
  <2> HIDE DEF n
  <2>1. 0 \in Int /\ n - 1 \in Int
    BY <1>1
  <2>2. Cardinality(0..n - 1) = IF 0 > n - 1 THEN 0 ELSE (n - 1) - 0 + 1
    BY <2>1, FS_Interval
  <2> QED
    BY <1>1, <2>2
<1>4. g \in Injection(S, 0..n - 1)
  <2> HIDE DEF g
  <2> QED
    BY <1>1, <1>2, <1>3, FS_SurjSameCardinalityImpliesInj
<1> QED
  BY <1>4 DEF Injection, IsInjective

(* Numbering the phases of a list anew makes them dense and in its order,  *)
(* and leaves the others alone (phases.service.ts reorder, remove).        *)
LEMMA NumberIs ==
  ASSUME TableType, NEW s \in Orders, Number(s)
  PROVE  /\ pos' \in [Phases -> Nat]
         /\ DenseOn(ToSet(s), pos')
         /\ InPlace(s, pos')
         /\ \A p \in Phases \ ToSet(s) : pos'[p] = pos[p]
<1>1. /\ DOMAIN s = 1..Len(s) /\ Len(s) \in Nat /\ Len(s) = Cardinality(ToSet(s))
      /\ \A i \in 1..Len(s) : Place(s, s[i]) = i - 1
      /\ \A p \in ToSet(s) : Place(s, p) \in 0..Len(s) - 1
  BY PlaceIs
<1>2. pos' = [p \in Phases |-> IF p \in ToSet(s) THEN Place(s, p) ELSE pos[p]]
  BY DEF Number
<1>3. ToSet(s) \subseteq Phases
  BY OrdersAre, LenProperties DEF ToSet
<1>4. pos' \in [Phases -> Nat]
  BY <1>1, <1>2 DEF TableType
<1>5. \A i \in 1..Len(s) : s[i] \in ToSet(s) /\ pos'[s[i]] = i - 1
  BY <1>1, <1>2, <1>3 DEF ToSet
<1>6. DenseOn(ToSet(s), pos')
  <2>1. \A p \in ToSet(s) : pos'[p] \in 0..Len(s) - 1
    BY <1>1, <1>2, <1>3
  <2>2. \A k \in 0..Len(s) - 1 : k + 1 \in 1..Len(s) /\ pos'[s[k + 1]] = k
    BY <1>1, <1>5
  <2>3. {pos'[p] : p \in ToSet(s)} = 0..Len(s) - 1
    BY <1>5, <2>1, <2>2
  <2> QED
    BY <1>1, <2>3 DEF DenseOn
<1>7. InPlace(s, pos')
  <2> SUFFICES ASSUME NEW i \in 1..Len(s), NEW k \in 1..Len(s), i < k
               PROVE  pos'[s[i]] <= pos'[s[k]]
    BY <1>1 DEF InPlace
  <2> QED
    BY <1>5
<1> QED
  BY <1>2, <1>4, <1>6, <1>7

(* A write keeps what holds of every request.                              *)
LEMMA WriteKeeps ==
  ASSUME BookType, \A q \in Requests : Request(q), NEW r \in Requests,
         NEW what \in SUBSET News, NEW spoiled \in SUBSET {"list", "saved", "client"},
         Writes(r, what, spoiled), Kept(what)
  PROVE  BookType' /\ (\A q \in Requests : Request(q)') /\ raced' = raced \union spoiled
<1>1. Moved(r, what) /\ pc'[r] = "idle" /\ missed'[r] = {} /\ raced' = raced \union spoiled
  BY BookWrites DEF Request
<1>2. Request(r)'
  BY <1>1 DEF Request, PathOf, ListOf, SavedOf, DayOf, AnswerOf, Fresh, At
<1>3. \A q \in Requests \ {r} : Request(q)'
  BY <1>1, OthersKept
<1> QED
  BY <1>1, <1>2, <1>3 DEF Moved

-----------------------------------------------------------------------------
LEMMA NoneLeft == ASSUME NEW f \in [Phases -> Nat] PROVE OrderBy({}, f) = <<>>
<1>1. <<>> \in Orders /\ ToSet(<<>>) = {} /\ InPlace(<<>>, f)
  <2>1. <<>> \in Orders
    BY OrdersAre, ListEmpty, EmptySeq
  <2>2. InPlace(<<>>, f)
    BY DEF InPlace
  <2> QED
    BY <2>1, <2>2, ListEmpty
<1>2. /\ OrderBy({}, f) \in Orders /\ ToSet(OrderBy({}, f)) = {}
      /\ InPlace(OrderBy({}, f), f)
  BY OrderByIs
<1> QED
  BY <1>1, <1>2, OnlyOneOrder

(* A list that is numbered densely in its own order is the order of its    *)
(* phases.                                                                 *)
LEMMA Numbered ==
  ASSUME NEW s \in Orders, NEW f \in [Phases -> Nat], DenseOn(ToSet(s), f), InPlace(s, f)
  PROVE  OrderBy(ToSet(s), f) = s
<1>1. ToSet(s) \in SUBSET Phases
  BY OrdersAre, LenProperties DEF ToSet
<1> QED
  BY <1>1, OrderByIs, DenseIs, OnlyOneOrder

(* The rest of a list, read in order, is the list without what is left     *)
(* out.                                                                    *)
LEMMA WithoutOne ==
  ASSUME NEW S \in SUBSET Phases, NEW f \in [Phases -> Nat], DenseOn(S, f), NEW p,
         NEW s \in Orders, ToSet(s) = S \ {p}, InPlace(s, f)
  PROVE  Only(OrderBy(S, f), Phases \ {p}) = s
<1> DEFINE R == {v \in Phases \X Phases : f[v[1]] <= f[v[2]]}
           all == OrderBy(S, f)
           rest == Only(all, Phases \ {p})
<1>1. all \in Orders /\ ToSet(all) = S /\ InPlace(all, f)
  BY OrderByIs
<1>2. all \in Seq(Phases) /\ Distinct(all)
  BY <1>1, OrdersAre
<1>3. \A x, y \in Phases : <<x, y>> \in R <=> f[x] <= f[y]
  OBVIOUS
<1> HIDE DEF R, all
<1>4. InOrderOf(all, R)
  <2> SUFFICES ASSUME NEW i \in DOMAIN all, NEW k \in DOMAIN all, i < k
               PROVE  <<all[i], all[k]>> \in R
    BY DEF InOrderOf
  <2>1. all[i] \in Phases /\ all[k] \in Phases
    BY <1>1 DEF ToSet
  <2> QED
    BY <1>1, <1>3, <2>1 DEF InPlace
<1>5. /\ rest \in Seq(Phases) /\ ToSet(rest) = S \ {p} /\ Distinct(rest)
      /\ InOrderOf(rest, R)
  <2>1. /\ rest \in Seq(Phases) /\ ToSet(rest) = ToSet(all) \intersect (Phases \ {p})
        /\ Distinct(rest) /\ InOrderOf(rest, R)
    BY <1>2, <1>4, OnlyIs
  <2> QED
    BY <1>1, <2>1
<1> HIDE DEF rest
<1>6. InPlace(rest, f)
  <2> SUFFICES ASSUME NEW i \in DOMAIN rest, NEW k \in DOMAIN rest, i < k
               PROVE  f[rest[i]] <= f[rest[k]]
    BY DEF InPlace
  <2>1. rest[i] \in Phases /\ rest[k] \in Phases
    BY <1>5 DEF ToSet
  <2>2. <<rest[i], rest[k]>> \in R
    BY <1>5 DEF InOrderOf
  <2> QED
    BY <1>3, <2>1, <2>2
<1>7. \A x, y \in S \ {p} : f[x] = f[y] => x = y
  BY DenseIs
<1>8. S \ {p} \in SUBSET Phases /\ rest \in Orders
  BY <1>5, OrdersAre
<1>9. rest = s
  BY <1>5, <1>6, <1>7, <1>8, OnlyOneOrder
<1> QED
  BY <1>9 DEF rest, all

(* One numbered by the count of the others comes behind them, and they     *)
(* stay dense. This is what lets a count be the next position.             *)
LEMMA Appended ==
  ASSUME NEW S \in SUBSET Phases, NEW f \in [Phases -> Nat], DenseOn(S, f),
         NEW p \in Phases \ S, NEW g \in [Phases -> Nat], g[p] = Cardinality(S),
         \A q \in S : g[q] = f[q]
  PROVE  DenseOn(S \union {p}, g) /\ OrderBy(S \union {p}, g) = Append(OrderBy(S, f), p)
<1> DEFINE n == Cardinality(S)
           all == OrderBy(S, f)
           more == Append(all, p)
<1>1. n \in Nat /\ Cardinality(S \union {p}) = n + 1
  BY PhasesAssumption, FS_Subset, FS_CardinalityType, FS_AddElement
<1>2. \A q \in S : g[q] \in 0..n - 1
  BY DEF DenseOn
<1>3. DenseOn(S \union {p}, g)
  <2>1. {g[q] : q \in S} = 0..n - 1
    BY DEF DenseOn
  <2>2. {g[q] : q \in S \union {p}} = 0..n
    <3> HIDE DEF n
    <3>1. g[p] = n
      BY DEF n
    <3>2. 0..n = (0..n - 1) \union {n}
      BY <1>1
    <3> QED
      BY <2>1, <3>1, <3>2
  <2>3. 0..Cardinality(S \union {p}) - 1 = 0..n
    BY <1>1
  <2> QED
    BY <2>2, <2>3 DEF DenseOn
<1>4. all \in Orders /\ ToSet(all) = S /\ InPlace(all, f)
  BY OrderByIs
<1>5. all \in Seq(Phases) /\ Distinct(all)
  BY <1>4, OrdersAre
<1> HIDE DEF all
<1>6. more \in Seq(Phases) /\ ToSet(more) = S \union {p} /\ Distinct(more)
  BY <1>4, <1>5, ListAppend, AppendProperties
<1>7. InPlace(more, g)
  <2> SUFFICES ASSUME NEW i \in DOMAIN more, NEW k \in DOMAIN more, i < k
               PROVE  g[more[i]] <= g[more[k]]
    BY DEF InPlace
  <2>1. /\ DOMAIN more = 1..Len(all) + 1 /\ DOMAIN all = 1..Len(all) /\ Len(all) \in Nat
        /\ \A j \in 1..Len(all) : more[j] = all[j]
        /\ more[Len(all) + 1] = p
    BY <1>5, AppendProperties, LenProperties
  <2>2. i \in 1..Len(all) /\ more[i] = all[i] /\ all[i] \in S
    <3>1. i \in 1..Len(all)
      BY <2>1
    <3> QED
      BY <2>1, <3>1, <1>4 DEF ToSet
  <2>3. CASE k \in 1..Len(all)
    <3>1. more[k] = all[k] /\ all[k] \in S
      BY <2>1, <2>3, <1>4 DEF ToSet
    <3> QED
      BY <1>4, <2>1, <2>2, <2>3, <3>1 DEF InPlace
  <2>4. CASE k = Len(all) + 1
    <3>1. g[more[k]] = n /\ g[more[i]] \in 0..n - 1
      BY <1>2, <2>1, <2>2, <2>4
    <3> HIDE DEF n
    <3> QED
      BY <1>1, <3>1
  <2> QED
    BY <2>1, <2>3, <2>4
<1>8. more \in Orders
  BY <1>6, OrdersAre
<1> HIDE DEF more
<1>9. OrderBy(S \union {p}, g) = more
  BY <1>3, <1>6, <1>7, <1>8, Numbered
<1> QED
  BY <1>3, <1>9 DEF more, all

-----------------------------------------------------------------------------
(* PhaseList says lists with the same operators.                           *)
LEMMA SameTerms ==
  /\ \A s : List!ToSet(s) = ToSet(s)
  /\ \A s, S : List!Only(s, S) = Only(s, S)
  /\ \A S : List!SetToSeqs(S) = SetToSeqs(S)
  /\ List!Lists = Orders
<1>1. \A S : List!Cardinality(S) = Cardinality(S)
  BY DEF List!Cardinality, Cardinality
<1>2. \A S : List!SetToSeqs(S) = SetToSeqs(S)
  BY <1>1 DEF List!SetToSeqs, SetToSeqs
<1>3. List!Lists = Orders
  BY <1>2
  DEF List!Lists, Orders, List!SetToAllKPermutations, SetToAllKPermutations
<1>4. \A s : List!ToSet(s) = ToSet(s)
  BY DEF List!ToSet, ToSet
<1>5. \A s, S : List!Only(s, S) = Only(s, S)
  BY DEF List!Only, Only
<1> QED
  BY <1>2, <1>3, <1>4, <1>5

(* The inductive invariant. Dense and SavedIsLive say nothing of a request *)
(* that is about to write; Request does.                                   *)
PlanInv ==
  /\ BookType
  /\ TableType
  /\ NoPhases
  /\ \A q \in Requests : Request(q)
  /\ Dense
  /\ SavedIsLive

(* What a write does to the list of phases.                                *)
ListStep == "list" \in raced' \/ UNCHANGED PhaseOrder \/ List!Next

LEMMA Facts ==
  /\ PhaseOrder = OrderBy(Live, pos)
  /\ Dense <=> ("list" \notin raced => DenseOn(Live, pos))
BY DEF PhaseOrder, OrderBy, Dense, DenseOn

LEMMA FactsNext ==
  /\ PhaseOrder' = OrderBy(Live', pos')
  /\ Dense' <=> ("list" \notin raced' => DenseOn(Live', pos'))
BY DEF PhaseOrder, OrderBy, Dense, DenseOn

LEMMA JobNames ==
  ASSUME BookType, NEW r \in Requests
  PROVE  /\ job[r].op \in {"add", "update", "remove"} => job[r].of \in Phases
         /\ job[r].op \in {"add", "update"} => job[r].due \in Due
         /\ job[r].op \in {"reorder", "save"} => job[r].of \in Orders
         /\ job[r].op \in {"create", "move", "removeClient"} => job[r].of \in Clients
BY JobKinds DEF BookType, NoJob

(* A phase is added: the count it was given is the count there is, so it   *)
(* goes to the end.                                                        *)
LEMMA InsertStep ==
  ASSUME PlanInv, NEW r \in Requests, InsertPhase(r)
  PROVE  PlanInv' /\ ListStep
<1> DEFINE p == job[r].of
<1>1. /\ At(r, {"write"}, {"add"}) /\ row[p] = "absent"
      /\ row' = [row EXCEPT ![p] = "live"] /\ pos' = [pos EXCEPT ![p] = got[r].count]
      /\ due' = [due EXCEPT ![p] = job[r].due]
      /\ Writes(r, {"list"}, missed[r] \intersect {"list"})
      /\ UNCHANGED <<ownership, saved>>
  BY DEF InsertPhase
<1>2. p \in Phases /\ job[r].due \in Due /\ got[r].count \in Nat
  BY <1>1, JobNames, BookSame DEF PlanInv, At, Gots
<1>3. TableType'
  BY <1>1, <1>2 DEF PlanInv, TableType, ownership
<1>4. Live' = Live \union {p} /\ p \notin Live
  BY <1>1, <1>2 DEF PlanInv, TableType, Live
<1>5. BookType' /\ (\A q \in Requests : Request(q)')
      /\ raced' = raced \union (missed[r] \intersect {"list"})
  <2>1. Kept({"list"})
    BY <1>1, <1>2 DEF Kept, PlanInv, TableType, ownership
  <2> QED
    BY <1>1, <2>1, WriteKeeps DEF PlanInv, News
<1>6. NoPhases'
  BY <1>1 DEF PlanInv, Request, PathOf, At, NoPhases, ownership
<1>7. SavedIsLive'
  BY <1>1, <1>4, <1>5 DEF PlanInv, SavedIsLive
<1>8. ASSUME "list" \notin raced'
      PROVE  DenseOn(Live', pos') /\ PhaseOrder' = Append(PhaseOrder, p)
  <2>1. "list" \notin raced /\ "list" \notin missed[r]
    BY <1>5, <1>8
  <2>2. DenseOn(Live, pos)
    BY <2>1, Facts DEF PlanInv
  <2>3. got[r].count = Cardinality(Live)
    BY <1>1, <2>1 DEF PlanInv, Request, ListOf, Fresh, At
  <2>4. pos \in [Phases -> Nat] /\ pos' \in [Phases -> Nat]
        /\ pos'[p] = Cardinality(Live) /\ \A q \in Live : pos'[q] = pos[q]
    BY <1>1, <1>2, <1>3, <1>4, <2>3 DEF PlanInv, TableType, Live
  <2>5. Live \in SUBSET Phases /\ p \in Phases \ Live
    BY <1>2, <1>4, LiveIs DEF PlanInv
  <2> HIDE DEF p
  <2>6. /\ DenseOn(Live \union {p}, pos')
        /\ OrderBy(Live \union {p}, pos') = Append(OrderBy(Live, pos), p)
    BY <2>2, <2>4, <2>5, Appended, ZenonT(30)
  <2> QED
    BY <1>4, <2>6, Facts, FactsNext
<1>9. ListStep
  <2>1. ToSet(PhaseOrder) = Live
    BY Facts, OrderByIs, LiveIs DEF PlanInv, TableType
  <2>2. ASSUME "list" \notin raced' PROVE List!AddLast(p)
    BY <1>4, <1>8, <2>1, <2>2, SameTerms DEF List!AddLast
  <2> QED
    BY <1>2, <2>2 DEF ListStep, List!Next
<1>10. Dense'
  BY <1>8, FactsNext
<1> QED
  BY <1>3, <1>5, <1>6, <1>7, <1>9, <1>10 DEF PlanInv

(* A phase is removed: the rest is numbered in the order it had, and the   *)
(* saved order that is written back is the one stored, without it.         *)
LEMMA RemoveStep ==
  ASSUME PlanInv, NEW r \in Requests, RemovePhase(r)
  PROVE  PlanInv' /\ ListStep
<1> DEFINE p == job[r].of
           kept == got[r].kept
           rest == got[r].rest
<1>1. /\ At(r, {"write"}, {"remove"})
      /\ row' = [row EXCEPT ![p] = "deleted"]
      /\ Number(rest)
      /\ saved' = IF kept = None THEN saved ELSE IF kept = <<>> THEN None ELSE kept
      /\ Writes(r, {"list", "saved"}, missed[r] \intersect {"list", "saved"})
      /\ UNCHANGED <<ownership, due>>
  BY DEF RemovePhase
<1>2. p \in Phases /\ kept \in Orders \union {None} /\ rest \in Orders
  BY <1>1, JobNames, BookSame DEF PlanInv, At, Gots
<1>3. /\ pos' \in [Phases -> Nat] /\ DenseOn(ToSet(rest), pos') /\ InPlace(rest, pos')
  BY <1>1, <1>2, NumberIs DEF PlanInv
<1>4. TableType'
  BY <1>1, <1>2, <1>3 DEF PlanInv, TableType, ownership
<1>5. Live' = Live \ {p}
  BY <1>1, <1>2 DEF PlanInv, TableType, Live
<1>6. BookType' /\ (\A q \in Requests : Request(q)')
      /\ raced' = raced \union (missed[r] \intersect {"list", "saved"})
  <2>1. Kept({"list", "saved"})
    BY <1>1, <1>2 DEF Kept, PlanInv, TableType, ownership
  <2> QED
    BY <1>1, <2>1, WriteKeeps DEF PlanInv, News
<1>7. NoPhases'
  <2>1. row[p] # "absent"
    BY <1>1 DEF PlanInv, Request, PathOf, At
  <2> QED
    BY <1>1, <1>2, <2>1 DEF PlanInv, NoPhases, ownership
<1>8. SavedIsLive'
  <2> SUFFICES ASSUME "saved" \notin raced', saved' # None PROVE ToSet(saved') \subseteq Live'
    BY DEF SavedIsLive
  <2>1. "saved" \notin raced /\ "saved" \notin missed[r]
    BY <1>6
  <2>2. kept = Pruned(p)
    BY <1>1, <2>1 DEF PlanInv, Request, SavedOf, At
  <2>3. saved \in Orders \union {None} /\ (saved # None => ToSet(saved) \subseteq Live)
    BY <2>1 DEF PlanInv, TableType, SavedIsLive
  <2>4. CASE kept = None
    <3>1. saved' = saved /\ saved # None
      BY <1>1, <2>4
    <3>2. p \notin ToSet(saved)
      <4> SUFFICES ASSUME p \in ToSet(saved) PROVE FALSE
        OBVIOUS
      <4>1. kept = Only(saved, Phases \ {p}) /\ saved \in Seq(Phases)
        BY <2>2, <2>3, <3>1, OrdersAre DEF Pruned
      <4>2. kept \in Seq(Phases)
        BY <4>1, OnlyIs
      <4> QED
        BY <2>4, <4>2, NoneAssumption
    <3> QED
      BY <1>5, <2>3, <3>1, <3>2
  <2>5. CASE kept # None
    <3>1. saved # None /\ kept = Only(saved, Phases \ {p})
      BY <2>2, <2>5 DEF Pruned
    <3>2. ToSet(kept) = ToSet(saved) \intersect (Phases \ {p})
      BY <2>3, <3>1, OrdersAre, OnlyIs
    <3>3. saved' = kept
      BY <1>1, <2>5
    <3> QED
      BY <1>5, <2>3, <3>1, <3>2, <3>3
  <2> QED
    BY <2>4, <2>5
<1>9. ASSUME "list" \notin raced'
      PROVE  DenseOn(Live', pos') /\ PhaseOrder' = Only(PhaseOrder, Phases \ {p})
  <2>1. "list" \notin raced /\ "list" \notin missed[r]
    BY <1>6, <1>9
  <2>2. ToSet(rest) = Live \ {p} /\ InPlace(rest, pos)
    BY <1>1, <2>1 DEF PlanInv, Request, ListOf, Fresh, At, InPlace
  <2>3. DenseOn(Live, pos) /\ pos \in [Phases -> Nat] /\ Live \in SUBSET Phases
    BY <2>1, Facts, LiveIs DEF PlanInv, TableType
  <2> HIDE DEF p, rest
  <2>4. Only(OrderBy(Live, pos), Phases \ {p}) = rest
    BY <1>2, <2>2, <2>3, WithoutOne
  <2>5. OrderBy(Live', pos') = rest
    BY <1>2, <1>3, <1>5, <2>2, Numbered
  <2> QED
    BY <1>3, <1>5, <2>2, <2>4, <2>5, Facts, FactsNext
<1>10. ListStep
  BY <1>2, <1>9, SameTerms DEF ListStep, List!Next, List!TakeOut
<1>11. Dense'
  BY <1>9, FactsNext
<1> QED
  BY <1>4, <1>6, <1>7, <1>8, <1>10, <1>11 DEF PlanInv

(* The phases are numbered in the order asked for, which has all of them.  *)
LEMMA ReorderStep ==
  ASSUME PlanInv, NEW r \in Requests, Reorder(r)
  PROVE  PlanInv' /\ ListStep
<1> DEFINE s == job[r].of
<1>1. /\ At(r, {"write"}, {"reorder"}) /\ Number(s)
      /\ Writes(r, {"list"}, missed[r] \intersect {"list"})
      /\ UNCHANGED <<ownership, row, due, saved>>
  BY DEF Reorder
<1>2. s \in Orders
  BY <1>1, JobNames DEF PlanInv, At
<1>3. /\ pos' \in [Phases -> Nat] /\ DenseOn(ToSet(s), pos') /\ InPlace(s, pos')
  BY <1>1, <1>2, NumberIs DEF PlanInv
<1>4. TableType' /\ Live' = Live
  BY <1>1, <1>3 DEF PlanInv, TableType, ownership, Live
<1>5. BookType' /\ (\A q \in Requests : Request(q)')
      /\ raced' = raced \union (missed[r] \intersect {"list"})
  <2>1. Kept({"list"})
    BY <1>1 DEF Kept, ownership
  <2> QED
    BY <1>1, <2>1, WriteKeeps DEF PlanInv, News
<1>6. NoPhases' /\ SavedIsLive'
  BY <1>1, <1>4, <1>5 DEF PlanInv, NoPhases, SavedIsLive, ownership
<1>7. ASSUME "list" \notin raced' PROVE DenseOn(Live', pos') /\ PhaseOrder' = s /\ ToSet(s) = Live
  <2>1. ToSet(s) = Live
    BY <1>1, <1>5, <1>7 DEF PlanInv, Request, ListOf, Fresh, At
  <2> HIDE DEF s
  <2> QED
    BY <1>2, <1>3, <1>4, <2>1, Numbered, FactsNext
<1>8. ASSUME "list" \notin raced' PROVE List!Rearrange
  <2>1. ToSet(PhaseOrder) = Live /\ IsFiniteSet(Live) /\ Live \in SUBSET Phases
    BY Facts, OrderByIs, LiveIs DEF PlanInv, TableType
  <2>2. s \in Seq(Live) /\ Distinct(s)
    <3>1. s \in Seq(Phases) /\ Distinct(s)
      BY <1>2, OrdersAre
    <3>2. \A i \in 1..Len(s) : s[i] \in Live
      BY <1>7, <1>8, <3>1, LenProperties DEF ToSet
    <3> QED
      BY <3>1, <3>2, LenProperties, IsASeq
  <2>3. s \in SetToSeqs(Live)
    BY <1>7, <1>8, <2>1, <2>2, ListsOf
  <2> QED
    BY <1>7, <1>8, <2>1, <2>3, SameTerms DEF List!Rearrange
<1>9. ListStep /\ Dense'
  BY <1>7, <1>8, FactsNext DEF ListStep, List!Next
<1> QED
  BY <1>4, <1>5, <1>6, <1>9 DEF PlanInv

(* The project comes with its phases, where there were none.               *)
LEMMA CreateStep ==
  ASSUME PlanInv, NEW r \in Requests, CreateProject(r)
  PROVE  PlanInv' /\ ListStep
<1>1. /\ At(r, {"write"}, {"create"}) /\ project = "absent" /\ project' = "live"
      /\ owner' = job[r].of /\ UNCHANGED <<client, saved>>
      /\ Writes(r, {"list", "client"}, missed[r] \intersect {"client"})
  BY DEF CreateProject
<1>2. PICK s \in SetToAllKPermutations({p \in Phases : row[p] = "absent"}) :
        /\ row' = [p \in Phases |-> IF p \in ToSet(s) THEN "live" ELSE row[p]]
        /\ \E d \in [ToSet(s) -> Due] :
             due' = [p \in Phases |-> IF p \in ToSet(s) THEN d[p] ELSE due[p]]
        /\ Number(s)
  BY DEF CreateProject
<1>3. s \in Orders
  <2> DEFINE free == {p \in Phases : row[p] = "absent"}
  <2>1. IsFiniteSet(free) /\ free \in SUBSET Phases
    BY PhasesAssumption, FS_Subset
  <2>2. s \in Seq(free) /\ Distinct(s)
    BY <2>1, AllLists
  <2> QED
    BY <2>1, <2>2, SeqMonotonic, OrdersAre
<1>4. /\ pos' \in [Phases -> Nat] /\ DenseOn(ToSet(s), pos')
  BY <1>2, <1>3, NumberIs DEF PlanInv
<1>5. job[r].of \in Clients /\ job[r].of # None
  BY <1>1, JobNames, NoneAssumption DEF PlanInv, At
<1>6. TableType'
  <2>1. due' \in [Phases -> Due]
    <3>1. PICK d \in [ToSet(s) -> Due] :
            due' = [p \in Phases |-> IF p \in ToSet(s) THEN d[p] ELSE due[p]]
      BY <1>2
    <3> QED
      BY <3>1 DEF PlanInv, TableType
  <2>2. row' \in [Phases -> {"absent", "live", "deleted"}]
    BY <1>2 DEF PlanInv, TableType
  <2> QED
    BY <1>1, <1>4, <1>5, <2>1, <2>2 DEF PlanInv, TableType
<1>7. Live = {}
  BY <1>1 DEF PlanInv, NoPhases, Live
<1>8. Live' = ToSet(s)
  <2>1. ToSet(s) \subseteq Phases
    BY <1>3, OrdersAre, LenProperties DEF ToSet
  <2> QED
    BY <1>1, <1>2, <2>1 DEF PlanInv, NoPhases, Live
<1>9. BookType' /\ (\A q \in Requests : Request(q)')
      /\ raced' = raced \union (missed[r] \intersect {"client"})
  <2>1. Kept({"list", "client"})
    BY <1>1, <1>2 DEF Kept
  <2> QED
    BY <1>1, <2>1, WriteKeeps DEF PlanInv, News
<1>10. NoPhases' /\ SavedIsLive' /\ Dense'
  <2>1. SavedIsLive'
    BY <1>1, <1>7, <1>9 DEF PlanInv, SavedIsLive
  <2> QED
    BY <1>1, <1>4, <1>8, <2>1, FactsNext DEF NoPhases
<1>11. ListStep
  <2>1. PhaseOrder = <<>>
    BY <1>7, NoneLeft, Facts DEF PlanInv, TableType
  <2>2. PhaseOrder' \in Orders
    BY <1>6, <1>8, FactsNext, OrderByIs, OrdersAre, LenProperties DEF TableType, Live
  <2> QED
    BY <2>1, <2>2, SameTerms DEF ListStep, List!Next, List!Fill
<1> QED
  BY <1>6, <1>9, <1>10, <1>11 DEF PlanInv

(* The project goes with its phases and what was saved of them.            *)
LEMMA RemoveProjectStep ==
  ASSUME PlanInv, NEW r \in Requests, RemoveProject(r)
  PROVE  PlanInv' /\ ListStep
<1>1. /\ At(r, {"write"}, {"removeProject"}) /\ project' = "deleted" /\ saved' = None
      /\ row' = [p \in Phases |-> IF row[p] = "live" THEN "deleted" ELSE row[p]]
      /\ Writes(r, {"list", "saved"}, {})
      /\ UNCHANGED <<client, owner, pos, due>>
  BY DEF RemoveProject
<1>2. BookType' /\ (\A q \in Requests : Request(q)') /\ raced' = raced
  <2>1. Kept({"list", "saved"})
    BY <1>1 DEF Kept
  <2> QED
    BY <1>1, <2>1, WriteKeeps DEF PlanInv, News
<1>3. Live' = {} /\ row' \in [Phases -> {"absent", "live", "deleted"}]
  BY <1>1 DEF PlanInv, TableType, Live
<1>4. ASSUME project = "absent" PROVE Live = {} /\ row' = row
  BY <1>1, <1>4 DEF PlanInv, NoPhases, Live, TableType
<1>5. TableType'
  <2>1. owner # None
    BY <1>1 DEF PlanInv, TableType, Request, PathOf, At
  <2> QED
    BY <1>1, <1>3, <2>1 DEF PlanInv, TableType
<1>6. DenseOn(Live', pos') /\ PhaseOrder' = <<>>
  <2>1. pos' \in [Phases -> Nat]
    BY <1>5 DEF TableType
  <2>2. Cardinality({}) = 0
    BY FS_EmptySet
  <2>3. DenseOn({}, pos')
    BY <2>2 DEF DenseOn
  <2> QED
    BY <1>3, <2>1, <2>3, NoneLeft, FactsNext
<1>7. NoPhases' /\ SavedIsLive' /\ Dense'
  BY <1>1, <1>6, FactsNext DEF NoPhases, SavedIsLive
<1>8. ListStep
  BY <1>6 DEF ListStep, List!Next, List!Clear
<1> QED
  BY <1>2, <1>5, <1>7, <1>8 DEF PlanInv

(* Writes that leave the phases and their order alone.                     *)
LEMMA OtherSteps ==
  ASSUME PlanInv, NEW r \in Requests,
         UpdatePhase(r) \/ SaveOrder(r) \/ ResetOrder(r) \/ MoveProject(r) \/ RemoveClient(r)
  PROVE  PlanInv' /\ UNCHANGED order
<1> DEFINE Goal == PlanInv' /\ UNCHANGED order
<1>1. ASSUME UNCHANGED <<project, order>>, raced \subseteq raced', BookType',
             TableType', SavedIsLive', \A q \in Requests : Request(q)'
      PROVE  Goal
  <2>1. UNCHANGED <<Live, pos, row>>
    BY <1>1 DEF order, Live
  <2>2. NoPhases' /\ Dense'
    BY <1>1, <2>1, Facts, FactsNext DEF PlanInv, NoPhases
  <2> QED
    BY <1>1, <2>2 DEF PlanInv
<1>2. CASE UpdatePhase(r)
  <2>1. /\ due' = [due EXCEPT ![job[r].of] = job[r].due]
        /\ Writes(r, {"due"}, {}) /\ UNCHANGED <<ownership, order, saved>>
        /\ job[r].due \in Due
    BY <1>2, JobNames DEF PlanInv, UpdatePhase, At
  <2>2. Kept({"due"}) /\ TableType' /\ Live' = Live
    BY <2>1 DEF PlanInv, Kept, TableType, Live, ownership, order
  <2>3. BookType' /\ (\A q \in Requests : Request(q)') /\ raced' = raced \union {}
    BY <2>1, <2>2, WriteKeeps DEF PlanInv, News
  <2>4. SavedIsLive'
    BY <2>1, <2>2, <2>3 DEF PlanInv, SavedIsLive
  <2> QED
    BY <1>1, <2>1, <2>2, <2>3, <2>4 DEF ownership
<1>3. CASE SaveOrder(r)
  <2> DEFINE spoiled == IF "list" \in missed[r] THEN {"saved"} ELSE {}
  <2>1. /\ saved' = job[r].of /\ Writes(r, {"saved"}, spoiled)
        /\ UNCHANGED <<ownership, order, due>>
        /\ job[r].of \in Orders /\ At(r, {"write"}, {"save"})
    BY <1>3, JobNames DEF PlanInv, SaveOrder, At
  <2>2. Kept({"saved"}) /\ TableType' /\ Live' = Live
    BY <2>1 DEF PlanInv, Kept, TableType, Live, ownership, order
  <2>3. BookType' /\ (\A q \in Requests : Request(q)') /\ raced' = raced \union spoiled
    BY <2>1, <2>2, WriteKeeps DEF PlanInv, News
  <2>4. SavedIsLive'
    BY <2>1, <2>2, <2>3 DEF PlanInv, Request, ListOf, Fresh, At, SavedIsLive
  <2> QED
    BY <1>1, <2>1, <2>2, <2>3, <2>4 DEF ownership
<1>4. CASE ResetOrder(r)
  <2>1. saved' = None /\ Writes(r, {"saved"}, {}) /\ UNCHANGED <<ownership, order, due>>
    BY <1>4 DEF ResetOrder
  <2>2. Kept({"saved"}) /\ TableType'
    BY <2>1 DEF PlanInv, Kept, TableType, ownership, order
  <2>3. BookType' /\ (\A q \in Requests : Request(q)') /\ raced' = raced \union {}
    BY <2>1, <2>2, WriteKeeps DEF PlanInv, News
  <2> QED
    BY <1>1, <2>1, <2>2, <2>3 DEF ownership, SavedIsLive
<1>5. CASE MoveProject(r) \/ RemoveClient(r)
  <2>1. /\ Writes(r, {"client"}, missed[r] \intersect {"client"})
        /\ UNCHANGED <<project, order, due, saved>>
        /\ \/ owner' = job[r].of /\ job[r].of \in Clients /\ client' = client
           \/ owner' = owner /\ client' = [client EXCEPT ![job[r].of] = "deleted"]
    BY <1>5, JobNames DEF PlanInv, MoveProject, RemoveClient, At
  <2>2. Kept({"client"}) /\ TableType' /\ Live' = Live
    BY <2>1, NoneAssumption DEF PlanInv, Kept, TableType, Live, order
  <2>3. /\ BookType' /\ (\A q \in Requests : Request(q)')
        /\ raced' = raced \union (missed[r] \intersect {"client"})
    BY <2>1, <2>2, WriteKeeps DEF PlanInv, News
  <2>4. SavedIsLive'
    BY <2>1, <2>2, <2>3 DEF PlanInv, SavedIsLive
  <2> QED
    BY <1>1, <2>1, <2>2, <2>3, <2>4
<1>6. Goal
  BY <1>2, <1>3, <1>4, <1>5
<1> QED
  BY <1>6

-----------------------------------------------------------------------------
LEMMA ReadSteps ==
  ASSUME PlanInv, NEW r \in Requests, Moved(r, {}), UNCHANGED <<tables, raced>>, Request(r)'
  PROVE  PlanInv' /\ UNCHANGED order
<1>1. /\ UNCHANGED <<client, project, owner, row, pos, due, saved, raced, Live>>
      /\ UNCHANGED order
  BY DEF tables, ownership, order, Live
<1>2. BookType'
  BY DEF Moved
<1>3. TableType' /\ NoPhases' /\ SavedIsLive' /\ Dense'
  BY <1>1, Facts, FactsNext DEF PlanInv, TableType, NoPhases, SavedIsLive
<1>4. Kept({})
  BY <1>1 DEF Kept
<1>5. \A q \in Requests \ {r} : Request(q)'
  BY <1>4, OthersKept DEF PlanInv
<1> QED
  BY <1>1, <1>2, <1>3, <1>5 DEF PlanInv

LEMMA PlanStep ==
  ASSUME PlanInv, NEW r \in Requests, (\E j \in Jobs : Arrive(r, j)) \/ Step(r)
  PROVE  PlanInv' /\ (ListStep \/ UNCHANGED order)
<1>1. CASE InsertPhase(r) \/ RemovePhase(r) \/ Reorder(r) \/ CreateProject(r) \/ RemoveProject(r)
  BY <1>1, InsertStep, RemoveStep, ReorderStep, CreateStep, RemoveProjectStep
<1>2. CASE UpdatePhase(r) \/ SaveOrder(r) \/ ResetOrder(r) \/ MoveProject(r) \/ RemoveClient(r)
  BY <1>2, OtherSteps
<1>3. CASE \/ \E j \in Jobs : Arrive(r, j)
           \/ Abort(r) \/ NotFound(r) \/ ReadFirst(r)
           \/ CountPhases(r) \/ PhaseIdTaken(r)
           \/ MarkRemoved(r) \/ ReadSaved(r) \/ ReadSurvivors(r) \/ SavedGone(r)
           \/ ReadCandidates(r) \/ ReadDay(r) \/ ShowDay(r)
           \/ CheckClient(r) \/ ClientUnknown(r)
           \/ ClientInUse(r) \/ CountProjects(r)
  <2>1. Moved(r, {}) /\ UNCHANGED <<tables, raced>> /\ Request(r)'
    BY <1>3, ReadingSteps DEF PlanInv
  <2> QED
    BY <2>1, ReadSteps
<1> QED
  BY <1>1, <1>2, <1>3 DEF Step

(* The project starts with its phases numbered in the order it was created *)
(* with.                                                                   *)
LEMMA PlanStart == Init => PlanInv
<1> SUFFICES ASSUME Init PROVE PlanInv
  OBVIOUS
<1>1. PICK s \in Created :
        /\ \/ project = "absent" /\ owner = None /\ s = <<>>
           \/ project = "live" /\ owner \in Clients
        /\ row = [p \in Phases |-> IF p \in ToSet(s) THEN "live" ELSE "absent"]
        /\ pos = [p \in Phases |-> IF p \in ToSet(s) THEN Place(s, p) ELSE 0]
  BY DEF Init
<1>2. s \in Orders /\ ToSet(s) \subseteq Phases
  BY PlanBoundsAssumption, OrdersAre, LenProperties DEF Orders, ToSet
<1>3. Live = ToSet(s)
  BY <1>1, <1>2 DEF Live
<1>4. /\ DOMAIN s = 1..Len(s) /\ Len(s) \in Nat /\ Len(s) = Cardinality(ToSet(s))
      /\ \A i \in 1..Len(s) : Place(s, s[i]) = i - 1
      /\ \A p \in ToSet(s) : Place(s, p) \in 0..Len(s) - 1
  BY <1>2, PlaceIs
<1>5. saved \in Orders \union {None} /\ (saved # None => ToSet(saved) \subseteq Live)
  <2>1. saved \in SetToAllKPermutations(Live) \union {None}
    BY DEF Init, Live
  <2>2. ASSUME saved # None PROVE saved \in Orders /\ ToSet(saved) \subseteq Live
    <3>1. IsFiniteSet(Live) /\ Live \in SUBSET Phases
      BY <1>2, <1>3, PhasesAssumption, FS_Subset
    <3>2. saved \in Seq(Live) /\ Distinct(saved)
      BY <2>1, <2>2, <3>1, AllLists
    <3> QED
      BY <3>1, <3>2, SeqMonotonic, OrdersAre, LenProperties DEF ToSet
  <2> QED
    BY <2>2
<1>6. TableType
  <2>1. pos \in [Phases -> Nat]
    BY <1>1, <1>4
  <2>2. due \in [Phases -> Due]
    BY PlanBoundsAssumption DEF Init, Due
  <2>3. client \in [Clients -> {"live", "deleted"}]
    BY DEF Init
  <2> QED
    BY <1>1, <1>5, <2>1, <2>2, <2>3, NoneAssumption DEF TableType
<1>7. BookType
  BY NothingIs DEF Init, BookType, Pcs, News
<1>8. \A q \in Requests : Request(q)
  BY IdleIsFine DEF Init
<1>9. Dense
  <2>1. \A i \in 1..Len(s) : s[i] \in ToSet(s) /\ pos[s[i]] = i - 1
    BY <1>1, <1>2, <1>4 DEF ToSet
  <2>2. \A p \in ToSet(s) : pos[p] \in 0..Len(s) - 1
    BY <1>1, <1>2, <1>4
  <2>3. \A k \in 0..Len(s) - 1 : k + 1 \in 1..Len(s) /\ pos[s[k + 1]] = k
    BY <1>4, <2>1
  <2>4. {pos[p] : p \in ToSet(s)} = 0..Len(s) - 1
    BY <2>1, <2>2, <2>3
  <2> QED
    BY <1>3, <1>4, <2>4, Facts DEF DenseOn
<1>10. NoPhases /\ SavedIsLive
  BY <1>1, <1>5, ListEmpty DEF NoPhases, SavedIsLive
<1> QED
  BY <1>6, <1>7, <1>8, <1>9, <1>10 DEF PlanInv

LEMMA PlanStutter == PlanInv /\ UNCHANGED vars => PlanInv' /\ UNCHANGED order
<1> SUFFICES ASSUME PlanInv, UNCHANGED vars PROVE PlanInv' /\ UNCHANGED order
  OBVIOUS
<1>1. /\ UNCHANGED <<client, project, owner, row, pos, due, saved, raced, Live>>
      /\ UNCHANGED <<pc, job, got, missed, arrived, order, Candidates, Wanted>>
  BY DEF vars, tables, ownership, order, Live, Candidates, Wanted
<1>2. BookType' /\ TableType' /\ NoPhases' /\ SavedIsLive' /\ Dense'
  BY <1>1, Facts, FactsNext DEF PlanInv, BookType, TableType, NoPhases, SavedIsLive
<1>3. ASSUME NEW q \in Requests PROVE Request(q)'
  <2>1. Request(q)
    BY DEF PlanInv
  <2>2. PathOf(q)' /\ ListOf(q)' /\ SavedOf(q)'
    BY <1>1, <2>1 DEF Request, PathOf, ListOf, SavedOf, At, Fresh, InPlace, Pruned
  <2>3. DayOf(q)' /\ AnswerOf(q)'
    BY <1>1, <2>1 DEF Request, DayOf, AnswerOf, UpToDate, Whole
  <2> QED
    BY <2>2, <2>3 DEF Request
<1> QED
  BY <1>1, <1>2, <1>3 DEF PlanInv

LEMMA PlanInductive == PlanInv /\ [Next]_vars => PlanInv' /\ (ListStep \/ UNCHANGED order)
BY PlanStep, PlanStutter DEF Next

(* A day is whole now, whatever was saved and whatever was missed, and so  *)
(* is every answer.                                                        *)
LEMMA PlanDay == PlanInv => DayIsWhole
<1> SUFFICES ASSUME PlanInv PROVE DayIsWhole
  OBVIOUS
<1> DEFINE now == OrderedPhaseIds(saved, SuggestSequence, Candidates)
<1>1. Whole(now, saved, Candidates) /\ Wanted \subseteq ToSet(now)
  <2>1. SuggestSequence \in Orders /\ ToSet(SuggestSequence) = Wanted
    BY SuggestIs DEF PlanInv
  <2>2. Candidates \in SUBSET Phases /\ Wanted \subseteq Candidates
    BY DEF Candidates, Live, Wanted
  <2>3. saved \in Orders \union {None}
    BY DEF PlanInv, TableType
  <2> QED
    BY <2>1, <2>2, <2>3, ReconcileIs
<1>2. \A r \in Requests : AnswerOf(r)
  BY DEF PlanInv, Request
<1> HIDE DEF now
<1> QED
  BY <1>1, <1>2 DEF DayIsWhole, now, AnswerOf, Whole, Wanted, UpToDate

-----------------------------------------------------------------------------
(* Every variable keeps its type: lists of phases name none twice, through *)
(* every concatenation, filter and sort (projects, phases and sequences    *)
(* services).                                                              *)
THEOREM Typed == Spec => []TypeOK
<1>1. PlanInv => TypeOK
  BY TypeParts DEF PlanInv
<1>2. PlanInv /\ [Next]_vars => PlanInv'
  BY PlanInductive
<1> QED
  BY PlanStart, <1>1, <1>2, PTL DEF Spec

(* The positions of the live phases are 0, 1, 2, ... with no gap and no    *)
(* double, as long as no request numbered them without having seen         *)
(* another's change (phases.service.ts create, remove, reorder).           *)
THEOREM StaysDense == Spec => []Dense
<1>1. PlanInv => Dense
  BY DEF PlanInv
<1>2. PlanInv /\ [Next]_vars => PlanInv'
  BY PlanInductive
<1> QED
  BY PlanStart, <1>1, <1>2, PTL DEF Spec

(* A saved order names only live phases, unless it was saved or pruned     *)
(* without having seen the other (phases.service.ts remove,                *)
(* sequences.service.ts save).                                             *)
THEOREM SavedStaysLive == Spec => []SavedIsLive
<1>1. PlanInv => SavedIsLive
  BY DEF PlanInv
<1>2. PlanInv /\ [Next]_vars => PlanInv'
  BY PlanInductive
<1> QED
  BY PlanStart, <1>1, <1>2, PTL DEF Spec

(* The day a worker or the foreman is shown has every due phase once, no   *)
(* removed one, and what was ordered by hand in that order, whatever was   *)
(* saved and whatever overlapped (sequences.service.ts buildDto).          *)
THEOREM DaysAreWhole == Spec => []DayIsWhole
<1>1. PlanInv /\ [Next]_vars => PlanInv'
  BY PlanInductive
<1> QED
  BY PlanStart, PlanDay, <1>1, PTL DEF Spec

(* The phases of a project are the list PhaseList describes: they start as *)
(* one and every change is one of its steps, until a request numbers them  *)
(* without having seen another's change (phases.service.ts create, remove, *)
(* reorder, projects.service.ts create, remove).                           *)
THEOREM PhasesFollowTheList == Spec => List!Init /\ FollowsPhaseList
<1>1. PlanInv /\ [Next]_vars => PlanInv'
  BY PlanInductive
<1>2. PlanInv /\ [Next]_vars => ["list" \in raced' \/ UNCHANGED PhaseOrder \/ List!Next]_order
  BY PlanInductive DEF ListStep
<1>3. Spec => []PlanInv /\ [][Next]_vars
  BY PlanStart, <1>1, PTL DEF Spec
<1>4. Init => List!Init
  <2> SUFFICES ASSUME Init PROVE PhaseOrder \in Orders
    BY SameTerms DEF List!Init
  <2> QED
    BY PlanStart, Facts, LiveIs, OrderByIs DEF PlanInv, TableType
<1> QED
  BY <1>2, <1>3, <1>4, PTL DEF FollowsPhaseList, Spec
=============================================================================
