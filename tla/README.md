# EchipaMea in TLA+

EchipaMea lets a foreman plan construction projects and lets the workers of a
team see their day, report progress and share their location.  It is a Flutter
app (`lib/`) talking to a NestJS server (`server/`) that keeps everything in
PostgreSQL through Prisma, stores media files in an object store, and pushes
live events over two WebSocket channels.  This directory models the parts of
that system whose behaviour depends on order: requests that overlap, retries,
crashes between two writes, messages that arrive late or never.

Paths below are relative to the repository.

## The system and its hard behaviours

Every component is also an entry of `PROJECT.json`, with its sources and what
of it is modelled; every hazard named here is there with its line.

| Component | State | Operations | What is hard about it | Correct when |
|---|---|---|---|---|
| Phases and projects (`server/src/phases`, `server/src/projects`) | project and phase rows, `status`, `closedAt`, `deletedAt`, submission and review rows | create, update, remove, reorder, start, submit, review; project create, update, done, reopen, remove | each handler reads, decides and writes in separate statements; the status written is computed from an earlier read | a status is explained by rows; strict transitions; a finished project stays finished |
| Worker reports (`server/src/reports`) | report rows under an idempotency key, linked media, submissions, notifications | upload, out-of-band notice | retries race the original, the notice frame can overtake the upload | a report is stored whole, once, before it is acknowledged |
| Sign-in sessions (`server/src/auth`) | refresh token families, worker login tickets, a cache of principals | login, refresh, logout, password change, issue and redeem a ticket, the guard of every other request | rotation is three statements; a cached principal outlives its session | an ended session stays ended; a ticket opens one session |
| Employees (`server/src/employees`) | employee rows | create, update, remove | deactivation writes a row and revokes sessions in two statements | a removed worker loses access |
| Clients (`server/src/clients`) | client rows | create, update, remove | removal counts live projects, then deletes | a live project has a live client |
| Work order (`server/src/sequences`) | saved orders per worker and day | suggest, save, reset | the saved order names phases that come and go | what is shown is a permutation of the day's phases |
| Media (`server/src/media`) | asset rows, bytes in the object store | upload, ranged read, remove, prune | two stores, written one after the other; deduplication and the count of links by a read | a row has its bytes; a linked asset is not removed; orphans go |
| Realtime (`server/src/realtime`) | one-time tickets, sockets, the registry, the foremen's room | issue, handshake, join, broadcast, notice, disconnect, heartbeat, prune | a handshake awaits while its socket closes; a frame waits for the handshake | a ticket opens one socket; nothing is sent to a socket nobody watches; dead links go |
| Notifications (`server/src/notifications`) | notification rows | list, mark, unmark, mark all, prune | lists are walked while rows come and go; marking reads before it writes | each event stays unread until marked |
| Worker day, arrival, telemetry (`server/src/worker`, `server/src/telemetry`) | arrivals, location samples | announce arrival, batch, stream, last positions, prune | the phone repeats what it is not sure of | repeats add nothing; the map shows everyone once |
| Retention (`server/src/maintenance`) | none of its own | prune every table in turn | runs beside everything else, and may stop half way | takes nothing still needed |
| App: HTTP client and sign-in state (`lib/src/core/network`, `lib/src/core/auth`) | session in memory and in the keystore, the refresh in flight | call, refresh, sign in, sign out, expire, restart | refused calls share one refresh; messages are lost; keystore and memory change an await apart | no needless sign-out, no resurrected session, every call ends |
| App: live channels (`lib/src/features/*/application`) | socket, backoff, list of notifications | connect, reconnect, fetch, show | closures, failed tickets and announcements in any order with the fetches | the channel comes back and the list catches up |
| App: controllers, pages | lists, forms | load, edit | optimistic updates | presentation only, beyond the above |
| Guards, configuration, errors, health | none | per request | order plays no part | unit tests reach all of it |

How they interact: every request passes the guard (`jwt-auth.guard.ts`), which
asks the principal cache and then the session and subject rows.  Reports call
the phase lifecycle, the media service and the notifications inside one
transaction.  Removing or deactivating an employee, and changing a password,
call the token service; logout and password change also clear the cache.
Retention deletes rows the token, ticket and media services read.  The app's
API client asks the session controllers for a token, a refresh or an expiry,
and those write the keystore; the server's token rotation is what makes a lost
answer matter.

## Modules

| Module | Models | Lines of the source |
|---|---|---|
| `PhaseLifecycle` | the transition table and the derived project status, as operators | `phase-lifecycle.service.ts`, `project-status.service.ts` |
| `StrictPhase` | what a phase promises: the abstract specification | README and lifecycle comments |
| `PhaseWorkflow` | phases, reports, notices and the project under overlapping requests | `phases.service.ts`, `worker-reports.service.ts`, `projects.service.ts` |
| `PhaseWorkflowProofs` | its theorems | |
| `SessionLife` | what a session promises: the abstract specification | README and controller descriptions |
| `Sessions` | rotation, tickets, guard, cache, logout, password change, employees, retention of tokens | `auth/*.ts`, `employees.service.ts` |
| `SessionsProofs` | its theorems | |
| `PhaseList` | what the order of the phases promises: the abstract specification | controller descriptions, comments on `sortIndex` |
| `ProjectPlan` | order of the phases, saved work orders of a day, the project's client, under overlapping requests | `phases.service.ts`, `projects.service.ts`, `sequences/*.ts`, `clients.service.ts` |
| `ProjectPlanProofs` | its theorems | |
| `Ordering` | filtering and sorting of lists, as operators | the `filter`, `sort` and `ORDER BY` of the services |
| `SequenceFacts` | what those operators return, for every list | |
| `ClientSession` | the app's side of a session over a lossy network | `api_client.dart`, `single_flight.dart`, `*session_controller.dart`, `token_store.dart` |
| `ClientSessionProofs` | its theorems | |
| `MediaStore` | files as rows and bytes: upload, links, removal, ranged reads, the nightly job | `media.service.ts`, `media.controller.ts`, `local.storage.ts`, `maintenance.service.ts`, `phases.service.ts`, `worker-reports.service.ts` |
| `MediaStoreProofs` | its theorems | |
| `Realtime` | the server's side of the live channel | `realtime/*.ts` |
| `ForemanChannel` | the app on that channel, and a worker's device beside it | `foreman_notifications_coordinator.dart` |
| `ForemanChannelProofs` | theorems about both | |
| `Paging` | cursor pagination, as operators | `page.dto.ts` |
| `WorkerFeed` | arrivals, samples, notifications and their read state, the roster, lists walked meanwhile | `worker.service.ts`, `telemetry.service.ts`, `notifications.service.ts`, `employees.service.ts` |
| `WorkerFeedProofs` | its theorems | |
| `MC...` | constants and symmetry of the runs | |

`PhaseWorkflow` extends `PhaseLifecycle` and instantiates `StrictPhase`;
`Sessions` instantiates `SessionLife`; `ProjectPlan` instantiates `PhaseList`
and has the same rows as `PhaseWorkflow` with other columns; `ClientSession` has the server inside it
as the app sees it, one request at a time, with the outcomes `Sessions` has
when its requests do not overlap.  `ForemanChannel` extends `Realtime` and
composes the two ends: every action of it is a step of the server, of the app,
or of both where a message is taken in or a socket is made.  `WorkerFeed`
extends `Paging`.  `Paging`, `PhaseList` and `ProjectPlan` share the lists of
`Ordering`: a test is the set that passes it and an order a set of pairs, so
that the provers can reason about them, and the filter is a recursive function
over the positions of the list.  `MediaStore` has the links of reports and instructions as
sets of files, and no status: what a report does to its phase is in
`PhaseWorkflow`, and both model the transaction it happens in as one step.

### How a model corresponds to the code

**Server handlers.**  A request slot `r` has `pc[r]`, the await its handler is
at, and `job[r]`, what it asks.  One action is what happens between two awaits:
a database statement and the decisions up to the next one.  Transactions run
READ COMMITTED, the default of PostgreSQL that the code nowhere changes: what a
transaction reads is a step of its own where a later write depends on it, and
its writes are one step, since they appear at commit.  An action that ends a request
frees its slot.  `Abort` is every way a handler ends early: a check on data
outside the model, a rolled back transaction, a crash of the process.
Variables named like a table hold its rows with the columns the properties tell
apart.  Variables marked *history* are not program state.

* `PhaseWorkflow`: `ReadPhase` is `findPhase` with the lifecycle check;
  `WriteStart`, `WriteSubmission`, `WriteReview` are the transactions that
  follow; `DuplicateReport`, `AcceptReport`, `StoreReport`, `ReportConflict`,
  `Reply` are the upload's idempotency lookup, its transaction, the unique
  violation and the answer; `NoticeOfReport` to `WriteNotice` are the
  out-of-band notice, which has no transaction; the rest adds and removes
  phases and closes, reopens and removes the project.
* `Sessions`: a token row is none, live, revoked or pruned, and belongs to a
  family, which is the session.  `Arrive`, `CheckSession`, `CheckSubject`,
  `Remember`, `Serve` are the guard.  `ReadToken`, `IssueSuccessor`,
  `SpendToken`, `Reply` and `BurnFamily` are a rotation and its detection of
  reuse.  `ReadTicket`, `ClaimTicket`, `OpenSession` redeem a login ticket.
  `CacheLapse`, `TokenExpires`, `TicketExpires`, `PruneToken` are time and the
  nightly job, at any moment.
* `ProjectPlan`: `CountPhases` and `InsertPhase` are the two statements that
  append a phase.  `MarkRemoved`, `ReadSaved`, `ReadSurvivors`, `RemovePhase`
  are the transaction that removes one; its first write locks the row
  (`Locked`), and `Free` is what every other write of that row waits for.  Two
  that wait for each other end by `Abort`, as the database has it.  `SaveOrder`
  and `ResetOrder` write the saved order of one worker for one day, and
  `OrderedPhaseIds` is what that worker is shown.  `CountProjects` and
  `RemoveClient`, `CheckClient` and `MoveProject` are the two sides of a
  project's reference to its client.  `missed` and `raced` are history: which
  of the phases, the saved order and the client another request has written
  since this one read it, and which were then written nevertheless.  The
  properties say what holds as long as nobody wrote over a change he had not
  seen, and for the worker's day, what holds regardless.
* `ClientSession`: `held` is the controller's state, `stored` the keystore.
  A session is held with the number of refreshes behind it, which stands for
  its token pair.  The actors are API calls, the single refresh, a sign-in and
  a sign-out.  `Save`/`Publish` and `Delete`/`Clear` are the keystore operation
  and the assignment after its await.  The keystore may complete operations of
  different actors in any order: `token_store.dart` names five platforms and
  promises none.  `RefreshLost`, `CallLost` are a dropped connection or the
  client's timeout, before or after the server acted; a refresh request the app
  gave up on stays in `stray` and may still arrive.  `Restart` is the death of
  the process at any await.

* `ProjectPlan` has the reads of a worker's day too: the phases, then the saved
  order, in two statements; `got[r].rest` is the day they are answered with.
* `MediaStore`: an id stands for a row and its storage key, fresh for each
  upload.  `ReuseCopy`/`FindNoCopy`, `PutBytes`, `CreateRow` are an upload;
  `LinkReport` the transaction of a report; `AssertOwned`, `SaveInstructions`
  an edit of work instructions; `FindAsset`, `CountLinks`, `DeleteRow`,
  `DeleteBytes` a removal; `ParseRange` and `ReadPart` the bytes a ranged read
  answers with.  `ListOrphans`, `PruneRow`, `PruneStops`, `PruneBytes` are one
  night on one server, `PruneDies` its end half way.  A file does not age a day
  while the request that brought it runs (`Age`).  `twins` and `late` are
  history: copies made by overlap, and links added after a removal counted.
* `Realtime`: `FindTicket`, `ClaimTicket`, `Admit` are the awaits of a
  handshake, `HandleDisconnect` runs when the socket layer reports a closure,
  at whatever await the handshake is.  `Retry` is a second socket with a ticket
  already presented.  `Sweep` is the heartbeat: it ends what did not answer
  and pings the rest.  `Cut` is a link that dies without either end being
  told.  `NoticeArrives` to `IngestNotice` are the frame a device sends before
  its handshake is over.  A row is stored and `owed`; `Publish` announces it
  to `Receivers`; `Restart` forgets every socket and what was owed.
* `ForemanChannel`: `dial`, `channel`, `up`, `missed` are the coordinator's
  fields; an app opens a fresh socket for each attempt.  A fetch reads the list
  at the server (`FetchReads`) and reaches the screen later (`FetchLands`), in
  any order with other fetches.  `settling` and `gap` are history and name what
  the app cannot make up for.
* `WorkerFeed`: `samples[w][t]` is when each sample of time `t` was received,
  since the table has no unique key.  `late` is history: the requests whose
  look another's write has outdated.  `steady` is history: the rows that have
  been in a list since its walk began.  A cursor carries key and id exactly.

**Slips.**  A definition whose name ends in `Slip` is a deliberately wrong
variant of the definition that follows it, the way a plausible bug would have
it.  No specification uses one.  `PROJECT.json` pairs each property of each
passing run with a slip that breaks it.

## Runs

Bounds are constants, named in the modules and guarded there.  Every cfg sets
`CHECK_DEADLOCK FALSE`, since the bounds on requests, expiries, events and
failures stop the models where the system goes on.

| Run | Bounds | Shows |
|---|---|---|
| `phases_concurrent` | 1 phase, 2 reports of it, 3 request slots, 5 requests, strict | `TypeOK`, `AuditTrail`, `ReportIsWhole`, `DoneLeftByStaleReadOnly` under every interleaving |
| `phases_serial` | 2 phases, 2 reports, 1 slot, 5 requests, strict | `ImplementsStrictPhase`, `SerialTidy`, `ProjectStaysDone` without overlap |
| `phases_strict` | 1 phase, 2 slots | finding: `StrictTransitions` is violated by overlapping requests |
| `sessions_concurrent` | 1 foreman, 1 worker, 2 sessions, 3 tokens, 1 ticket, 2 slots, 3 requests, 1 expiry | `TypeOK`, `EndedIsFinal`, `TicketOpensOneSession` |
| `sessions_serial` | the same rows, 1 slot | `ImplementsSessionLife` |
| `sessions_refresh` | as concurrent | finding: `ExchangedOnce` is violated by two refreshes of one token |
| `plan` | 3 phases, 2 clients, any live phases and any saved order at first, 2 slots, 2 requests | `TypeOK`, `Dense`, `FollowsPhaseList`, `SavedIsLive`, `ProjectHasClient`, `DayIsWhole` |
| `media` | 2 ids, 2 contents of 2 bytes, 1 phase, any day-old files and links at first, 2 slots, 2 requests, 1 server with batches of 1, 1 failure of its night, fairness | `TypeOK`, `RowHasBytes`, `LosesOnlyUnseenLinks`, `ReportFindsItsFile`, `StoredOnce`, `SendsWhatWasAsked`, `OrphansGo` |
| `live` | 3 sockets of the app, 1 of a worker, 2 notifications, 2 fetches in flight, 1 failure, fairness | `TypeOK`, `OneSocketPerTicket`, `RoomIsWatched`, `NoticeIsHeard`, `DeadAreSwept`, `CatchesUp` |
| `feed` | 2 workers, one assigned, 2 foremen, 2 slots, 2 requests, 2 events, 2 instants of the server's clock and 3 of the phone's, pages of 1 row | `TypeOK`, `StaysUntilRead`, `ShiftHasLength`, `WalkIsWhole`, `RetriesAddNothing`, `FirstReadKept` |
| `client` | 1 session, 2 calls beside a refresh, a sign-in and a sign-out, 1 expiry, fairness | `TypeOK`, `SpentOnlyAfterLoss`, `RestartKeepsSession`, `CallsEnd` |
| `client_resurrect` | 1 session, 1 call | finding: `NotBroughtBack` is violated when a sign-out and a refresh cross |

Why the bounds are enough.  The hazards of the server are races of a read with
a write of another handler: two overlapping requests show them, the third slot
of `phases_concurrent` adds a second retry.  Five requests are a submission, a
review, and three that race or follow.  `plan`, `media` and `feed` start from
every state an earlier history can have left within their rows, so that two
requests are two after a history, or two that overlap; three phases are the
fewest in which a removal leaves an order to keep and a creation follows it.
Three tokens are a rotation and the successor's rotation, two sessions tell
revoking one from revoking both.  In `media` two ids are a file and its copy,
or an orphan and the upload that overlaps its night; two bytes are the fewest
in which a range can be a proper part.  In `live` three sockets are a
connection and two attempts after it, or a socket that dies and is replaced
twice, and the second fetch is what an answer can be overtaken by.  In `feed`
one row a page makes every step of a walk a boundary, and a second instant is
what tells an old notification from a new one.  Two calls are what a shared
refresh is about.  `Created` bounds the orders in which `plan` creates a project
with phases to that of their names; a rearrangement leads to the others.  No
invariant rests on the bounds: all of them are proved below for every value of the constants, among them any number of
sessions of the app, of servers that run the nightly job, of sockets, of phases
and of workers.

**Fairness** is assumed only where a run checks liveness, and only of what runs
by itself:

* `client` (`FairSpec` of `ClientSession`), weak and per actor: a call, a
  refresh, a sign-in or a sign-out that was sent is answered or lost
  (`ApiClient._attempt` puts a timeout on every request), what waits for the
  keystore goes on (`token_store.dart` awaits it without a timeout; the platform
  is trusted to answer), and Dart runs what is ready.  Nothing is assumed about
  new calls, restarts, expiry or what happens elsewhere.
* `media` (`FairSpec` of `MediaStore`): `WF` of a server's night.  The scheduler
  of `maintenance.service.ts` starts it every night and its statements return;
  that it dies half way happens `MaxFaults` times at most.  No request is fair:
  a foreman's removal may stop at any await for ever.
* `live` (`FairSpec` of `ForemanChannel`): `WF` of the server's turn, of the
  heartbeat and of the app's turn.  Statements return, the event loops deliver,
  the interval of the registry and the timer of the backoff fire.  Each side's
  steps end by themselves unless an event or a failure, both bounded, starts
  them again, so fairness of a side as a whole is enough and no step is
  promised separately.

## Findings

Each is a run that TLC finds violated, against a sentence of the repository.

1. *Strict transitions are strict only one request at a time* (`phases_strict`).
   Each handler checks the table against a status it read earlier and writes
   the row by id.  Two overlapping requests can take a phase from `done` back
   to `pendingReview`.  `DoneLeftByStaleReadOnly` says how far this goes: only
   a request that read the phase before its approval can do it.
2. *A refresh token can be exchanged twice* (`sessions_refresh`).  `rotate`
   revokes the presented token last, without requiring that it is still live.
3. *A sign-out can be undone by a refresh* (`client_resurrect`).  The check
   against it precedes an await, and the sign-out drops the session held only
   after its own await.

### Behaviours the models contain that no property forbids

Met while modelling and left as the code has them; the properties name them as
exceptions or stop short of them.

* A removed worker is served from the principal cache for up to five seconds:
  `remove` (`employees.service.ts:165`) revokes the sessions and does not
  forget the subject, though the comment at line 151 has access end at once.
* When only the answer to a refresh is lost, the app's next refresh presents a
  spent token, the server takes it for a stolen one, and the user is signed out
  (`README.md:198` of the repository: being offline never does that).
  `SpentOnlyAfterLoss` says it takes a lost answer, and no less.
* Two overlapping changes of one shift can leave it with zero length
  (`crossed` in `ShiftHasLength`): each is checked against the end the other
  replaces.
* Overlapping repeats of an arrival or a batch are stored twice, since neither
  table has a unique key (`Stale` in `RetriesAddNothing`); two overlapping
  uploads of one content make a copy (`twins` in `StoredOnce`).
* Two overlapping markings of a notification overwrite the time it was read
  (`late` in `FirstReadKept`).
* A removal of a file that counted its links before an edit or a report added
  one takes the link with it, if it is an instruction's, or is refused by the
  foreign key, if it is a report's (`LosesOnlyUnseenLinks`).  A report handed
  an old orphan as a copy of its attachment can lose it to the night.
* A night gives up at the first orphan that has been linked or removed since
  its list was made; the rest waits a night (`PruneStops`).
* The app fetches its list when the upgrade is answered, which is before the
  server has joined the socket to the room: what is stored and announced in
  between is neither fetched nor heard until the next announcement
  (`gap` in `CatchesUp`).
  The comment at the head of the coordinator has nothing lost on reconnect.
* The map of last positions is read in two statements: a worker whose newest
  sample is pruned between them is missing from the map (`steady` in
  `WalkIsWhole`).
* A creation of a phase that overlaps the removal of its project leaves a live
  phase under a deleted project (`SerialTidy` is about one request at a time).
* Comments of the server that the app does not reconnect
  (`connection-registry.service.ts:189`, `foreman-notifications.gateway.ts:30`,
  `frames.ts:107`) are out of date: it does, and `CatchesUp` is about that.

## What is proved

All theorems hold for every value of the constants that meets the named
assumptions; the bounds on requests, events, expiries and failures are
constants like the others.  In each proof module `IInv` is the inductive
invariant, a conjunction of named parts, with one step of the proof for each
action that writes what the part is about.

`PhaseWorkflowProofs` (from `PhaseOfAssumption`):

* `TypeCorrect`, and `IInvHolds` for the inductive `IInv`.  `AuditTrail` is not
  inductive: a request about to write `done` must already have, in the rows,
  the submission its read saw.  `IInv` adds what each request in flight knows
  from its read (`seen`) and that this knowledge only grows: submission and
  review rows are never deleted.
* `AuditTrailHolds`, `ReportIsWholeHolds`: consequences of `IInv`.
* `DoneIsFinalForFreshReads`: a step argument.  Only three kinds of write take
  a phase from `done`, and in strict mode the lifecycle refused each of them to
  a request that read `done`.
* `SerialImplementsStrictPhase`: with one request slot the handlers refine
  `StrictPhase`.  `SerialInv` (what was read is what is stored) carries it.
* `SerialTidyHolds`: from `TidyInv`, which adds what the one request in flight
  `Knows` when it writes: the project it creates a phase in is not removed, the
  notice it records is new, the phase it moves is live.
* `SerialProjectStaysDone`: a step argument over `IInv`, `TidyInv` and
  `SerialInv`.  The phase a handler moves is live, so in a project that is done
  it is done, and strict mode refuses to move it.

`SessionsProofs` (from `WorkerOfAssumption`, `NobodyAssumption`):

* `IInvHolds`, with `TypeCorrect`.  `IInv` joins `PcInv` (which handler is at
  which await), `RowsInv` (rows that are named exist), `CutInv` and `TicketInv`.
* `EndedIsFinalHolds` from `CutInv`: a request on a revoked session is at an
  await from which no live token of that family can be made, and after the
  cache forgot it, at none from which it can be cached or served.  A request
  that arrives later enters at such an await, because the rows stay revoked.
* `TicketOpensOneSessionHolds` from `TicketInv`: at most one request holds the
  claim, and a claim is made only on a ticket that is open.
* `SerialImplementsSessionLife`: with one request slot the handlers refine
  `SessionLife`.

`SequenceFacts` (lemmas, for every list and finite set): what a filter returns
(`OnlyIs`, `OnlyConcat`), that a finite set can be sorted by any total order
and that the result has each member once, in order, and is the only such list
(`SortExists`, `SortedIs`, `SortedUnique`), how long a list without repetitions
is (`ListLength`), what concatenation keeps (`ListConcat`, `InOrderConcat`).
The provers have no induction over data.  Where one would go up the positions
of a list, these proofs take the least position, the shortest list or the
smallest set that is a counterexample, which is there because numbers are well
founded (`LeastNumber`, `ShortestList`, `SmallestPart`), and refute it.

`ProjectPlanProofs` (from `PhasesAssumption`, which has the phases finite,
`NameRankAssumption`, `NoneAssumption`, `PlanBoundsAssumption`), for any number
of phases, clients and overlapping requests:

* `ProjectsHaveClients` (from no assumption).  What a request about to write
  found out about the project and its client (`CheckInv`) is still so as long
  as no other has written either: a checked client is live, a counted one is in
  no use.  Whoever writes either makes everyone else's knowledge stale on
  record, which is what the property excepts.
* `Typed`, `StaysDense`, `SavedStaysLive`: parts of the inductive `PlanInv`.
  `Dense` alone is not inductive: that a creation appends at the end takes that
  its count is the number of live phases, that a removal renumbers all of them
  takes that the survivors it read are the live ones but its own, in order.
  `PlanInv` has this of each request (`Request`, joined from `PathOf`, `ListOf`,
  `SavedOf`, `DayOf`, `AnswerOf`), as long as it has missed no write of what it
  read, and that no phase is there before its project (`NoPhases`).
* `DaysAreWhole`, from `DayOf` and `AnswerOf`: between its two reads a view has
  phases of its first read, and what it answers names each at most once, all
  that were due, in the saved order where there is one.
* `PhasesFollowTheList`: the live phases in the order of their numbers start as
  a list of `PhaseList`, and every step that writes them appends, removes,
  rearranges, fills or clears it, unless it wrote over a change it had not
  seen.  An append is `Numbered` and `Appended`, a removal `WithoutOne`.

`MediaStoreProofs` (from `SizeAssumption`, `NoneNotMedia`), for any number of
servers that run the night at once:

* `TypeCorrect`.
* `RowsHaveBytes` from `BytesInv`: bytes are put under an id that has no row
  yet, and whoever takes bytes away, a removal or a night, has the row behind
  it; ids are not used again.
* `CopiesOverlapped` from `CopyInv`: an upload about to store content that has
  a row by now was overlapped, and is on record as a twin.
* `NightSparesReports` from `NightInv`: what a night holds is more than a day
  old or gone, and what a report has just brought is neither.
* `LinksAreKept`: a step argument from `CountInv`: a removal that counted no
  link and was not overtaken (`late`) has none to take.
* `ReadsAreExact`: the bytes of `ReadPart(ParseRange(h))` are those the header
  names, for every size, header and unsatisfiable or unaccepted form.

`ForemanChannelProofs` (from `SocketsAssumption`, `RealtimeBoundsAssumption`,
`VisitsAssumption`), about `Realtime` and the app together:

* `TypeCorrect`, with `HeardInv` (what is on its way was stored) and `AppInv`.
* `TicketsOpenOneSocket` from `TicketInv`: who is past the claim has used the
  ticket, and nobody else past the claim presents the same.
* `RoomWatched` from `WatchInv`: an open socket is in the registry; a socket
  joined to the room late is closed.
* `NoticesHeard`: the notice waits for the handshake, and a disconnect takes
  away the socket and not the handshake.

`ClientSessionProofs` (from `NamesAssumption`), for any number of sessions,
calls and expiries:

* `TypeCorrect`.
* `SpentNeedsLoss` from `VersionInv`: every pair of tokens the app holds,
  stores, has been granted or has sent is the server's current one, or its
  session is one with an unanswered refresh, or keystore operations crossed.
  `UnopenedInv`, `StrayInv`, `LoginInv` say where the pairs of new sessions and
  abandoned requests can be.
* `RestartRestores` from `HeldInv` and `StoredInv`: memory and keystore differ
  only between the keystore operation of one actor and its assignment.

`WorkerFeedProofs` (from `WorkerFeedAssumption`: workers, times, names and hours
are numbers, the workers are finitely many, a batch is a list of times and not
empty, as its schema has it; `ShiftAssumption`; and `NoneAssumption` of
`Paging`: a row is not the absence of a cursor), for any number of workers,
foremen, requests and rows, any batches and any size of a page.  `IInv` is
`ReadInv`, on notifications and shifts, and `DayInv`, on samples, arrivals and
walks.

* `PageIs`, of the operators of `Paging` alone and for any rows: a page has
  rows past the cursor, in order, and no more than the limit; there is a next
  cursor exactly if rows are left; it is the last row shown, and whatever is
  not shown is past it.  It rests on the order being total (`PastIs`): without
  the tie-breaker on the id, neither of two rows with equal keys is past the
  other.
* `Typed`: with `BookInv`, the course of each request through its statements
  and what it carries, `SampleType`, `SoFar` (nothing is from the future) and
  `Bounds`.
* `EventsStayUntilRead`: the step that reports an event gives every foreman an
  unread row of it, which only his own marking changes and no night removes.
* `ShiftsHaveLength` from `PatchInv`: the change about to be written leaves a
  shift of some length next to what is stored, unless another change was
  written since it was checked.
* `FirstReadingKept` from `MarkInv`: the notification about to be marked is
  unread or gone, unless another marking was written since it was looked at.
* `RetriesHarmless` from `BatchInv` and `ArriveInv`: what a batch or a tap found
  missing is missing still, or the request is on record as late.  A batch has
  each time once when it stores it (`SelectFreshIs`), though the phone may have
  sent it twice.
* `WalksWhole` from `ListInv`.  Of a walk (`WalkOf`): what has been shown is in
  order and no further than the cursor, and each row that has been in the list
  since the walk began is shown or past the cursor; with nothing past the
  cursor, that is all of them, each once.  Of the map (`MapOf`): for each worker
  with a sample that stayed there is, between the two statements, a newest time
  at least as new whose sample is still stored, since a night that spares an
  older sample spares it too (`MapKept`).

The refinement theorems and those of the serial properties assume that requests
do not overlap (`\A q, r \in Requests : q = r`); the findings show that the
promise of the first fails without that assumption.

## What is only model-checked

* Liveness: `CallsEnd`, `OrphansGo`, `DeadAreSwept`, `CatchesUp`.
* Every violation.

Every invariant and action property of the passing runs is a theorem, for every
value of the constants; TLC checks them too, on the instances of the runs,
where a slip shows that each can fail.  Liveness is beyond the provers, as
is everything that speaks of ENABLED.

## What is not modelled

* Roles and tenant guards, validation, formatting of errors: stateless
  functions of one request.
* Configuration, bootstrap, health, company profile, the demo seed: read or
  written once, or one row at a time.
* Lists, forms, text, layout and navigation of the app: presentation over the
  client of `ClientSession`, replaced by every answer of the server.
* Inside the modelled parts: password and secret values, the rehash of an
  outdated password hash at login, report fields, the type and name of a file,
  signed URLs, coordinates, the app's demo mode, and in `ClientSession` the
  server's principal cache, which `Sessions` has.  A file is opened lazily by
  the local driver; `OpenBytes` takes the opening and the check that the file
  is there as one step.
* Several server instances matter only to the nightly job and are proved about
  there; the registry of sockets and the caches are per process, and the
  models have one process.
* In `ProjectPlan`: several workers and days, whose saved orders are separate
  rows that one removal prunes in turn; the order of one worker's day across
  projects (`worker-ordering.ts`).
* In `Realtime`: the bearer credential of other tools, and the location
  frames, which are a source of samples in `WorkerFeed`.  The app ignores
  `worker_arrived` frames, so an arrival reaches it with the notification.
* The worker's side of the live channel in the app, its timer and its queue of
  unsent samples, beyond what `WorkerFeed` lets a phone send.
* Reads of one statement: the profile, the worker's projects, the trail, the
  list of arrivals, and the create and update of a client.

## Plan left

1. An abstract specification of the list on the foreman's screen, which
   `ForemanChannel` and the notifications of `WorkerFeed` both implement, and a
   composition of the two with marking as read.
2. The worker's telemetry coordinator with its queue, over the channel of
   `Realtime` and the batches of `WorkerFeed`.
3. Proofs: that the app's list in `ForemanChannel` and the notifications of
   `WorkerFeed` implement the specification of step 1; the step half of the
   liveness properties, what each fair step decreases, as action theorems beside
   the runs that check `OrphansGo` and `CatchesUp`; and that one request at a
   time implements `PhaseList` without exception.
