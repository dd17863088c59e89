----------------------------- MODULE WorkerFeed -----------------------------
(***************************************************************************)
(* A worker's day as it reaches the foremen: arrivals on site and location *)
(* samples, the notifications that report events to every foreman and      *)
(* their read state, the roster, the map of where everyone was last seen,  *)
(* and lists that are walked page by page while all of this changes.       *)
(*                                                                         *)
(* Each request is a handler between its awaits.  Several overlap, and one *)
(* may end between two statements; every statement commits on its own but  *)
(* for the transaction of an arrival.                                      *)
(*                                                                         *)
(* One company and one project, to which the workers OnSite are assigned.  *)
(* Left out: coordinates and texts, sessions (Sessions), pushing frames    *)
(* (Realtime), filters of lists other than unread.                         *)
(***************************************************************************)
EXTENDS Paging

CONSTANTS
  Workers,     \* ids of employees
  OnSite,      \* those assigned to the project
  Foremen,
  Requests,    \* slots for requests in flight
  Times,       \* times a phone may state, of its own clock
  Batches,     \* batches of samples it may send, as sequences of times
  Names,       \* sort keys of the roster
  Hours,       \* hours of the day
  Patches,     \* changes to an employee, [field, to]
  Window,      \* taps this close are one arrival
  Keep,        \* how long read notifications and samples are kept
  Limit,       \* rows on a page
  MaxTime,     \* bound: end of time
  MaxEvents,   \* bound: events ever notified
  MaxRequests  \* bound: requests ever made

Events == 1..MaxEvents

ASSUME WorkerFeedAssumption ==
  /\ Workers \subseteq Nat /\ IsFiniteSet(Workers) /\ OnSite \subseteq Workers
  /\ Times \subseteq Nat /\ Names \subseteq Nat /\ Hours \subseteq Nat
  /\ Patches \subseteq [field : {"start", "end"}, to : Hours] \union [field : {"name"}, to : Names]
  /\ {MaxTime, MaxEvents, MaxRequests, Window, Keep} \subseteq Nat
  /\ Limit \in Nat \ {0}
  /\ Batches \subseteq Seq(Times) \ {<<>>}

ASSUME ShiftAssumption ==
  {Min(Hours), Max(Hours)} \subseteq Hours /\ Min(Hours) # Max(Hours)

VARIABLES
  now,
  staff,     \* staff[w]: the employee's row
  arrivals,  \* arrivals stored
  samples,   \* samples[w][t]: when samples captured at t were received
  events,    \* events notified
  feed,      \* feed[u]: the notifications of a foreman
  pc,        \* pc[r]: the next statement of a request
  job,       \* job[r]: what it is to do, for whom
  fresh,     \* fresh[r]: the samples a batch is going to store
  page,      \* page[r]: the cursor of a walk and the rows it has seen
  opened,    \* history: opened[u]: events u has marked and not unmarked
  late,      \* history: requests whose read is out of date as they write
  crossed,   \* history: employees written by a late request
  steady,    \* history: rows of the list there all through r's walk
  served     \* history: requests made

stored == <<staff, arrivals, samples, events, feed>>
running == <<pc, job, fresh, page>>
vars == <<now, stored, running, opened, late, crossed, steady, served>>

Tables == [arrive |-> "arrivals", batch |-> "samples", stream |-> "samples",
           mark |-> "feed", unmark |-> "feed", all |-> "feed",
           create |-> "staff", patch |-> "staff", remove |-> "staff",
           walk |-> "none", latest |-> "none"]

NoJob == [op |-> "none", who |-> None, arg |-> None]

NoWalk == [cursor |-> None, seen |-> <<>>]

TypeOK ==
  /\ now \in 0..MaxTime
  /\ staff \in [Workers -> [name : Names, start : Hours, end : Hours,
                            is : {"none", "live", "removed"}]]
  /\ arrivals \in SUBSET [id : events, who : OnSite, at : Times]
  /\ \A w \in Workers, t \in Times : \A i \in DOMAIN samples[w][t] : samples[w][t][i] <= now
  /\ events \in SUBSET Events
  /\ feed \in [Foremen -> SUBSET [id : events, at : 0..now, read : 0..now \union {None}]]
  /\ \A u \in Foremen : \A n, m \in feed[u] : n.id = m.id => n = m
  /\ pc \in [Requests -> {"idle", "check", "look", "write", "page", "fetch", "end"}]
  /\ \A r \in Requests :
       /\ IF pc[r] = "idle" THEN job[r] = NoJob ELSE job[r].op \in DOMAIN Tables
       /\ fresh[r] # <<>> <=> pc[r] = "write" /\ job[r].op = "batch"
       /\ pc[r] \notin {"page", "fetch", "end"} => page[r] = NoWalk
       /\ r \in late => pc[r] = "write"
  /\ opened \in [Foremen -> SUBSET events]
  /\ crossed \in SUBSET Workers
  /\ served \in 0..MaxRequests

(* A roster, reports the foremen have been notified of, and a sample of a  *)
(* phone whose clock is ahead.                                             *)
Init ==
  /\ now = 0
  /\ staff \in [Workers -> [name : Names, start : {Min(Hours)}, end : {Max(Hours)},
                            is : {"none", "live"}]]
  /\ \A w \in OnSite : staff[w].is = "live"
  /\ arrivals = {}
  /\ \E skewed \in {{}, {Max(Times)}} :
       samples = [w \in Workers |-> [t \in Times |->
         IF w \in OnSite /\ t \in skewed THEN <<0>> ELSE <<>>]]
  /\ events \in SUBSET Events
  /\ feed = [u \in Foremen |-> [id : events, at : {0}, read : {None}]]
  /\ pc = [r \in Requests |-> "idle"]
  /\ job = [r \in Requests |-> NoJob]
  /\ fresh = [r \in Requests |-> <<>>]
  /\ page = [r \in Requests |-> NoWalk]
  /\ opened = [u \in Foremen |-> {}]
  /\ late = {}
  /\ crossed = {}
  /\ steady = [r \in Requests |-> {}]
  /\ served = 0

-----------------------------------------------------------------------------
(* Requests.                                                               *)
Op(r, op, step) == pc[r] = step /\ job[r].op = op

Goto(r, step) ==
  /\ pc' = [pc EXCEPT ![r] = step]
  /\ UNCHANGED <<job, fresh, page>>

Answer(r) ==
  /\ pc' = [pc EXCEPT ![r] = "idle"]
  /\ job' = [job EXCEPT ![r] = NoJob]
  /\ fresh' = [fresh EXCEPT ![r] = <<>>]
  /\ page' = [page EXCEPT ![r] = NoWalk]

(* Two requests touch the same rows.                                       *)
Meet(q, r) ==
  /\ Tables[job[q].op] = Tables[job[r].op]
  /\ job[q].who = job[r].who
  /\ Tables[job[q].op] = "feed" =>
       job[q].arg = job[r].arg \/ "all" \in {job[q].op, job[r].op}

(* The last statement of r: what others have read of these rows is stale.  *)
Write(r) ==
  /\ late' = (late \ {r}) \union {q \in Requests \ {r} : pc[q] = "write" /\ Meet(q, r)}
  /\ Answer(r)

Jobs ==
  [op : {"arrive"}, who : Workers, arg : Times]
  \union [op : {"batch"}, who : OnSite, arg : Batches]
  \union [op : {"stream"}, who : OnSite, arg : Times]
  \union [op : {"mark", "unmark"}, who : Foremen, arg : events]
  \union [op : {"all"}, who : Foremen, arg : {None}]
  \union [op : {"create"}, who : Workers, arg : Names]
  \union [op : {"patch"}, who : Workers, arg : Patches]
  \union [op : {"remove"}, who : Workers, arg : {None}]
  \union [op : {"walk"}, who : Foremen, arg : {"unread", "staff"}]
  \union [op : {"latest"}, who : Foremen, arg : {None}]

FirstStep == [arrive |-> "check", batch |-> "check", stream |-> "check",
              mark |-> "look", unmark |-> "look", all |-> "write",
              create |-> "write", patch |-> "look", remove |-> "look",
              walk |-> "page", latest |-> "page"]

Request(r) ==
  /\ pc[r] = "idle"
  /\ served < MaxRequests
  /\ served' = served + 1
  /\ \E j \in Jobs :
       /\ job' = [job EXCEPT ![r] = j]
       /\ pc' = [pc EXCEPT ![r] = FirstStep[j.op]]
  /\ UNCHANGED <<now, stored, fresh, page, opened, late, crossed>>

(* A statement fails, or the process ends: what has been committed stays.  *)
Abort(r) ==
  /\ pc[r] \notin {"idle", "end"}
  /\ Answer(r)
  /\ late' = late \ {r}
  /\ UNCHANGED <<now, stored, opened, crossed, served>>

-----------------------------------------------------------------------------
Assigned(w) == w \in OnSite

(* The worker is employed, and for an arrival assigned to the project.     *)
Check(r) ==
  LET w == job[r].who IN
  /\ pc[r] = "check"
  /\ IF staff[w].is # "live" \/ (job[r].op = "arrive" /\ ~Assigned(w)) THEN Answer(r)
     ELSE Goto(r, IF job[r].op = "stream" THEN "write" ELSE "look")
  /\ UNCHANGED <<now, stored, opened, late, crossed, served>>

Near(s, t) == s - t \in -Window..Window

(* An arrival announced by an earlier tap is answered, not stored again.   *)
ArrivalLook(r) ==
  LET w == job[r].who IN
  /\ Op(r, "arrive", "look")
  /\ IF \E a \in arrivals : a.who = w /\ Near(a.at, job[r].arg)
     THEN Answer(r) ELSE Goto(r, "write")
  /\ UNCHANGED <<now, stored, opened, late, crossed, served>>

(* An event and a notification of it for each foreman.                     *)
Notify(e) ==
  /\ events' = events \union {e}
  /\ feed' = [u \in Foremen |-> feed[u] \union {[id |-> e, at |-> now, read |-> None]}]

(* The arrival is stored before its notifications, and on its own.         *)
ArrivalWriteSlip(r) ==
  /\ Op(r, "arrive", "write")
  /\ \E e \in Events \ events :
       arrivals' = arrivals \union {[id |-> e, who |-> job[r].who, at |-> job[r].arg]}
  /\ Write(r)
  /\ UNCHANGED <<now, events, feed, staff, samples, opened, crossed, served>>

ArrivalWrite(r) ==
  /\ Op(r, "arrive", "write")
  /\ \E e \in Events \ events :
       /\ arrivals' = arrivals \union {[id |-> e, who |-> job[r].who, at |-> job[r].arg]}
       /\ Notify(e)
  /\ Write(r)
  /\ UNCHANGED <<now, staff, samples, opened, crossed, served>>

(* A report is stored, by the handlers of PhaseWorkflow.                   *)
Report ==
  /\ \E e \in Events \ events : Notify(e)
  /\ UNCHANGED <<now, staff, arrivals, samples, running, opened, late, crossed, served>>

-----------------------------------------------------------------------------
(* The samples of a batch that are neither stored nor in it before.        *)
SelectFresh(batch, known) ==
  LET upTo[n \in 0..Len(batch)] ==
        IF n = 0 THEN <<>>
        ELSE IF batch[n] \in known \union ToSet(upTo[n - 1]) THEN upTo[n - 1]
        ELSE Append(upTo[n - 1], batch[n])
  IN  upTo[Len(batch)]

(* The end of the batch's range is not asked for.                          *)
KnownInSlip(w, batch) ==
  {t \in Min(ToSet(batch))..Max(ToSet(batch)) - 1 : samples[w][t] # <<>>}

(* The times in the range of the batch that samples are stored of.         *)
KnownIn(w, batch) ==
  {t \in Min(ToSet(batch))..Max(ToSet(batch)) : samples[w][t] # <<>>}

BatchLook(r) ==
  LET new == SelectFresh(job[r].arg, KnownIn(job[r].who, job[r].arg)) IN
  /\ Op(r, "batch", "look")
  /\ IF new = <<>> THEN Answer(r)
     ELSE /\ fresh' = [fresh EXCEPT ![r] = new]
          /\ pc' = [pc EXCEPT ![r] = "write"]
          /\ UNCHANGED <<job, page>>
  /\ UNCHANGED <<now, stored, opened, late, crossed, served>>

StoreSamples(w, times) ==
  samples' = [samples EXCEPT ![w] = [t \in Times |->
    @[t] \o [i \in 1..Cardinality({k \in DOMAIN times : times[k] = t}) |-> now]]]

BatchWrite(r) ==
  /\ Op(r, "batch", "write")
  /\ StoreSamples(job[r].who, fresh[r])
  /\ Write(r)
  /\ UNCHANGED <<now, staff, arrivals, events, feed, opened, crossed, served>>

(* A sample that comes in on the socket is stored without a look.          *)
StreamWrite(r) ==
  /\ Op(r, "stream", "write")
  /\ StoreSamples(job[r].who, <<job[r].arg>>)
  /\ Write(r)
  /\ UNCHANGED <<now, staff, arrivals, events, feed, opened, crossed, served>>

-----------------------------------------------------------------------------
(* The read state of a notification.                                       *)
Stamp(u, which, time) ==
  feed' = [feed EXCEPT ![u] =
    {IF n.id \in which THEN [n EXCEPT !.read = time] ELSE n : n \in @}]

(* Whether it has been read already is not asked.                          *)
MarkLookSlip(r) ==
  /\ Op(r, "mark", "look")
  /\ IF \E n \in feed[job[r].who] : n.id = job[r].arg
     THEN Goto(r, "write") ELSE Answer(r)
  /\ UNCHANGED <<now, stored, opened, late, crossed, served>>

MarkLook(r) ==
  /\ Op(r, "mark", "look")
  /\ IF \E n \in feed[job[r].who] : n.id = job[r].arg /\ n.read = None
     THEN Goto(r, "write") ELSE Answer(r)
  /\ UNCHANGED <<now, stored, opened, late, crossed, served>>

UnmarkLook(r) ==
  /\ Op(r, "unmark", "look")
  /\ IF \E n \in feed[job[r].who] : n.id = job[r].arg
     THEN Goto(r, "write") ELSE Answer(r)
  /\ UNCHANGED <<now, stored, opened, late, crossed, served>>

(* Written by id: what was read is not asked again.  The row may be gone.  *)
MarkWrite(r) ==
  LET u == job[r].who  e == job[r].arg IN
  /\ Op(r, "mark", "write")
  /\ Stamp(u, {e}, now)
  /\ opened' = [opened EXCEPT ![u] = @ \union {n.id : n \in {m \in feed[u] : m.id = e}}]
  /\ Write(r)
  /\ UNCHANGED <<now, staff, arrivals, samples, events, crossed, served>>

UnmarkWrite(r) ==
  LET u == job[r].who  e == job[r].arg IN
  /\ Op(r, "unmark", "write")
  /\ Stamp(u, {e}, None)
  /\ opened' = [opened EXCEPT ![u] = @ \ {n.id : n \in {m \in feed[u] : m.id = e}}]
  /\ Write(r)
  /\ UNCHANGED <<now, staff, arrivals, samples, events, crossed, served>>

Unread(u) == {n \in feed[u] : n.read = None}

MarkAllRead(r) ==
  LET u == job[r].who  which == {n.id : n \in Unread(u)} IN
  /\ Op(r, "all", "write")
  /\ Stamp(u, which, now)
  /\ opened' = [opened EXCEPT ![u] = @ \union which]
  /\ Write(r)
  /\ UNCHANGED <<now, staff, arrivals, samples, events, crossed, served>>

-----------------------------------------------------------------------------
(* The roster.                                                             *)
CreateEmployee(r) ==
  LET w == job[r].who IN
  /\ Op(r, "create", "write")
  /\ staff' = IF staff[w].is = "none"
              THEN [staff EXCEPT ![w].is = "live", ![w].name = job[r].arg] ELSE staff
  /\ Write(r)
  /\ UNCHANGED <<now, arrivals, samples, events, feed, opened, crossed, served>>

Merged(w, change) == [staff[w] EXCEPT ![change.field] = change.to]

(* The shift is checked in the body of the request only.                   *)
PatchLookSlip(r) ==
  /\ Op(r, "patch", "look")
  /\ IF staff[job[r].who].is = "live" THEN Goto(r, "write") ELSE Answer(r)
  /\ UNCHANGED <<now, stored, opened, late, crossed, served>>

(* The shift must have a length in the row as it is going to be.           *)
PatchLook(r) ==
  LET w == job[r].who  next == Merged(w, job[r].arg) IN
  /\ Op(r, "patch", "look")
  /\ IF staff[w].is = "live" /\ next.start # next.end THEN Goto(r, "write") ELSE Answer(r)
  /\ UNCHANGED <<now, stored, opened, late, crossed, served>>

(* Only what the request names is written.                                 *)
PatchWrite(r) ==
  LET w == job[r].who IN
  /\ Op(r, "patch", "write")
  /\ staff' = [staff EXCEPT ![w] = Merged(w, job[r].arg)]
  /\ crossed' = IF r \in late THEN crossed \union {w} ELSE crossed
  /\ Write(r)
  /\ UNCHANGED <<now, arrivals, samples, events, feed, opened, served>>

RemoveLook(r) ==
  /\ Op(r, "remove", "look")
  /\ IF staff[job[r].who].is = "live" THEN Goto(r, "write") ELSE Answer(r)
  /\ UNCHANGED <<now, stored, opened, late, crossed, served>>

RemoveWrite(r) ==
  /\ Op(r, "remove", "write")
  /\ staff' = [staff EXCEPT ![job[r].who].is = "removed"]
  /\ Write(r)
  /\ UNCHANGED <<now, arrivals, samples, events, feed, opened, crossed, served>>

-----------------------------------------------------------------------------
(* Lists: what orders their rows, and how.                                 *)
Rows(j) ==
  IF j.op = "latest" THEN
    {[key |-> s[2], id |-> s[1]] : s \in {v \in Workers \X (0..now) :
       \E t \in Times : v[2] \in ToSet(samples[v[1]][t])}}
  ELSE IF j.arg = "unread" THEN {[key |-> n.at, id |-> n.id] : n \in Unread(j.who)}
  ELSE {[key |-> staff[w].name, id |-> w] : w \in {v \in Workers : staff[v].is = "live"}}

(* The next page of a walk, with the cursor that came with the last one.   *)
NextPage(r) ==
  LET p == PageAfter(Rows(job[r]), page[r].cursor, Limit, job[r].arg = "unread") IN
  /\ Op(r, "walk", "page")
  /\ page' = [page EXCEPT ![r] = [cursor |-> p.next, seen |-> @.seen \o p.items]]
  /\ pc' = [pc EXCEPT ![r] = IF p.next = None THEN "end" ELSE "page"]
  /\ UNCHANGED <<now, stored, job, fresh, opened, late, crossed, served>>

(* The map: when each worker's last sample was received, and then that     *)
(* sample; one stands for all that were received at once.                  *)
NewestIn(rows) == {n \in rows : \A m \in rows : m.id = n.id => m.key <= n.key}

GroupLatest(r) ==
  LET newest == SetToSeq(NewestIn(Rows(job[r]))) IN
  /\ Op(r, "latest", "page")
  /\ page' = [page EXCEPT ![r].seen = newest]
  /\ pc' = [pc EXCEPT ![r] = IF newest = <<>> THEN "end" ELSE "fetch"]
  /\ UNCHANGED <<now, stored, job, fresh, opened, late, crossed, served>>

FetchLatest(r) ==
  /\ Op(r, "latest", "fetch")
  /\ page' = [page EXCEPT ![r].seen = Only(@, Rows(job[r]))]
  /\ pc' = [pc EXCEPT ![r] = "end"]
  /\ UNCHANGED <<now, stored, job, fresh, opened, late, crossed, served>>

LeaveList(r) ==
  /\ pc[r] = "end"
  /\ Answer(r)
  /\ UNCHANGED <<now, stored, opened, late, crossed, served>>

-----------------------------------------------------------------------------
(* Old notifications go, read or not.                                      *)
PruneReadSlip ==
  /\ feed' = [u \in Foremen |-> {n \in feed[u] : n.at + Keep >= now}]
  /\ feed' # feed
  /\ UNCHANGED <<now, staff, arrivals, samples, events, running, opened, late, crossed, served>>

(* The nightly job: notifications read long ago.                           *)
PruneRead ==
  /\ feed' = [u \in Foremen |-> {n \in feed[u] : n.read = None \/ n.read + Keep >= now}]
  /\ feed' # feed
  /\ UNCHANGED <<now, staff, arrivals, samples, events, running, opened, late, crossed, served>>

(* And samples received long ago.                                          *)
PruneSamples ==
  /\ samples' = [w \in Workers |-> [t \in Times |->
       Only(samples[w][t], {received \in 0..now : received + Keep >= now})]]
  /\ samples' # samples
  /\ UNCHANGED <<now, staff, arrivals, events, feed, running, opened, late, crossed, served>>

Tick ==
  /\ now < MaxTime
  /\ now' = now + 1
  /\ UNCHANGED <<stored, running, opened, late, crossed, served>>

-----------------------------------------------------------------------------
Step(r) ==
  \/ Request(r) \/ Abort(r) \/ Check(r)
  \/ ArrivalLook(r) \/ ArrivalWrite(r)
  \/ BatchLook(r) \/ BatchWrite(r) \/ StreamWrite(r)
  \/ MarkLook(r) \/ MarkWrite(r) \/ UnmarkLook(r) \/ UnmarkWrite(r) \/ MarkAllRead(r)
  \/ CreateEmployee(r) \/ PatchLook(r) \/ PatchWrite(r) \/ RemoveLook(r) \/ RemoveWrite(r)
  \/ NextPage(r) \/ GroupLatest(r) \/ FetchLatest(r) \/ LeaveList(r)

(* What stays in a list from the start of a walk to its end.               *)
Follow ==
  steady' = [r \in Requests |->
    IF job'[r].op \notin {"walk", "latest"} THEN {}
    ELSE IF pc[r] = "idle" THEN Rows(job'[r]) ELSE steady[r] \intersect Rows(job[r])']

Next ==
  /\ (\E r \in Requests : Step(r)) \/ Report \/ PruneRead \/ PruneSamples \/ Tick
  /\ Follow

Spec == Init /\ [][Next]_vars

-----------------------------------------------------------------------------
(* worker.service.ts:215, :324: a tap or a batch that is sent again adds   *)
(* nothing to what is stored, unless another request stored the same       *)
(* between its look and its write; a batch never stores a time twice.      *)
RetriesAddNothing ==
  [][LET Stale == \E r \in late : pc[r] = "write" /\ pc'[r] = "idle"
         Streamed == \E r \in Requests : Op(r, "stream", "write") /\ pc'[r] = "idle"
     IN /\ \A w \in Workers, t \in Times :
             Len(samples'[w][t]) > Len(samples[w][t]) =>
               \/ samples[w][t] = <<>> /\ Len(samples'[w][t]) = 1
               \/ Stale
               \/ Streamed
        /\ \A a \in arrivals' \ arrivals, b \in arrivals :
             a.who = b.who /\ Near(a.at, b.at) => Stale]_vars

(* worker.service.ts:240, notifications.service.ts:29: every event is in   *)
(* the unread list of every foreman who has not marked it himself, however *)
(* old it is and whatever colleagues do.                                   *)
StaysUntilRead ==
  \A u \in Foremen, e \in events :
    e \notin opened[u] => \E n \in Unread(u) : n.id = e

(* notifications.service.ts:95: a notification keeps the time it was first *)
(* read, unless it was read by a request that found it unread before.      *)
FirstReadKept ==
  [][\A u \in Foremen : \A n \in feed[u], m \in feed'[u] :
       n.id = m.id /\ None \notin {n.read, m.read} =>
         \/ m.read = n.read
         \/ \E r \in late : Op(r, "mark", "write") /\ pc'[r] = "idle"]_vars

(* employees.service.ts:109: no shift has zero length, unless two requests *)
(* changed the two ends of it at once.                                     *)
ShiftHasLength ==
  \A w \in Workers : staff[w].start # staff[w].end \/ w \in crossed

(* page.dto.ts:72: a walk over the pages of a list shows each row that was *)
(* there all along exactly once, whatever comes, goes or moves meanwhile.  *)
(* telemetry.service.ts:66: the map shows each worker of whom it could     *)
(* know a sample all along once, as received last, not by his clock.       *)
WalkIsWhole ==
  \A r \in Requests : pc[r] = "end" =>
    \A row \in steady[r] :
      LET shown == Only(page[r].seen, {n \in ToSet(page[r].seen) : n.id = row.id}) IN
      /\ Len(shown) = 1
      /\ job[r].op = "latest" => shown[1].key >= row.key
=============================================================================
