---------------------------- MODULE ProjectPlan -----------------------------
(***************************************************************************)
(* A project's plan: the client it is for, the order of its phases, and    *)
(* the order one worker is given for one day, under requests that overlap. *)
(*                                                                         *)
(* As in PhaseWorkflow an action is what a handler does between two        *)
(* awaits.  A transaction's reads see what others have committed so far    *)
(* (READ COMMITTED), its writes appear when it commits, and the rows it    *)
(* has written are locked until then.                                      *)
(*                                                                         *)
(* Left out: phase status (PhaseWorkflow), names, addresses, instructions. *)
(***************************************************************************)
EXTENDS Ordering

CONSTANTS
  Clients,
  Phases,
  NameRank,    \* NameRank[p]: where the phase's name sorts
  Created,     \* bound: lists of phases the project may have been created with
  LastDay,     \* bound: phases start on one of the days 1..LastDay
  None,
  Project,     \* the project id, target of requests on the project itself
  Requests,    \* slots for requests in flight
  MaxRequests  \* bound: requests that ever arrive

ASSUME NameRankAssumption == NameRank \in [Phases -> Nat]
ASSUME PhasesAssumption == IsFiniteSet(Phases)
ASSUME NoneAssumption == None \notin Clients \union Seq(Phases)
ASSUME PlanBoundsAssumption ==
  MaxRequests \in Nat /\ LastDay \in Nat /\ Created \subseteq SetToAllKPermutations(Phases)

VARIABLES
  client,   \* client[c]: live or soft-deleted
  project,  \* the project: not created yet, live, or soft-deleted
  owner,    \* the client it references
  row,      \* row[p]: no row yet, live, or soft-deleted
  pos,      \* pos[p]: the sortIndex column
  due,      \* due[p]: when it starts, if it is assigned to the worker and
            \* covers the day; 0 if not
  saved,    \* the manual order of the day, a row of DailySequenceOverride
  pc,       \* pc[r]: the next await of the request in slot r
  job,      \* job[r]: what that request asks for
  got,      \* got[r]: what its reads returned
  missed,   \* history: missed[r], what others have written since r read it
  raced,    \* history: what was written by a request that missed a write
  arrived   \* history: requests that arrived

ownership == <<client, project, owner>>
order == <<row, pos>>
tables == <<ownership, order, due, saved>>
vars == <<tables, pc, job, got, missed, raced, arrived>>

Due == 0..LastDay

Orders == SetToAllKPermutations(Phases)

Jobs ==
  [op : {"add", "update"}, of : Phases, due : Due] \union
  [op : {"remove"}, of : Phases] \union
  [op : {"reorder", "save"}, of : Orders] \union
  [op : {"create", "move", "removeClient"}, of : Clients] \union
  [op : {"reset", "removeProject", "one", "day"}, of : {Project}]

NoJob == [op |-> "none", of |-> Project]

(* Requests that read the day's order, one project's or the company's.     *)
Views == {"one", "day"}

Nothing == [count |-> 0, kept |-> None, rest |-> <<>>, known |-> {}]

TypeOK ==
  /\ client \in [Clients -> {"live", "deleted"}]
  /\ project \in {"absent", "live", "deleted"}
  /\ owner \in Clients \union {None}
  /\ project # "absent" => owner # None
  /\ row \in [Phases -> {"absent", "live", "deleted"}]
  /\ pos \in [Phases -> Nat]
  /\ due \in [Phases -> Due]
  /\ saved \in Orders \union {None}
  /\ pc \in [Requests -> {"idle", "read", "count", "check", "delete", "saved",
                          "survivors", "write", "list", "order", "answer"}]
  /\ job \in [Requests -> Jobs \union {NoJob}]
  /\ got \in [Requests -> [count : Nat, kept : Orders \union {None}, rest : Orders,
                           known : SUBSET Phases]]
  /\ missed \in [Requests -> SUBSET {"list", "saved", "client", "due"}]
  /\ raced \in SUBSET {"list", "saved", "client"}
  /\ arrived \in Nat

(* The position of p in s, from 0.                                         *)
Place(s, p) == (CHOOSE i \in DOMAIN s : s[i] = p) - 1

(* No project yet, or one with phases that were created with it, for some  *)
(* of which an order was saved.                                            *)
Init ==
  /\ client = [c \in Clients |-> "live"]
  /\ \E s \in Created :
       /\ \/ project = "absent" /\ owner = None /\ s = <<>>
          \/ project = "live" /\ owner \in Clients
       /\ row = [p \in Phases |-> IF p \in ToSet(s) THEN "live" ELSE "absent"]
       /\ pos = [p \in Phases |-> IF p \in ToSet(s) THEN Place(s, p) ELSE 0]
  /\ due = [p \in Phases |-> 0]
  /\ saved \in SetToAllKPermutations({p \in Phases : row[p] = "live"}) \union {None}
  /\ project = "absent" => saved = None
  /\ pc = [r \in Requests |-> "idle"]
  /\ job = [r \in Requests |-> NoJob]
  /\ got = [r \in Requests |-> Nothing]
  /\ missed = [r \in Requests |-> {}]
  /\ raced = {}
  /\ arrived = 0

-----------------------------------------------------------------------------
Live == {p \in Phases : row[p] = "live"}

(* What a day may be made of.                                              *)
Candidates == IF project = "live" THEN Live ELSE {}

(* What a list of phases orders by sortIndex.                              *)
PhaseOrder == Sorted(Live, {v \in Live \X Live : pos[v[1]] <= pos[v[2]]})

At(r, steps, ops) == pc[r] \in steps /\ job[r].op \in ops

(* The rows a transaction that removes a phase has written so far.         *)
Locked(q) ==
  IF At(q, {"saved", "survivors", "write"}, {"remove"}) THEN {job[q].of} ELSE {}

Free(r, ps) == \A q \in Requests \ {r} : Locked(q) \intersect ps = {}

Go(r, step) == pc' = [pc EXCEPT ![r] = step] /\ UNCHANGED <<job, arrived>>

End(r) ==
  /\ pc' = [pc EXCEPT ![r] = "idle"]
  /\ job' = [job EXCEPT ![r] = NoJob]
  /\ got' = [got EXCEPT ![r] = Nothing]
  /\ UNCHANGED arrived

(* What r reads is fresh again.                                            *)
Reads(r, what) ==
  /\ missed' = [missed EXCEPT ![r] = @ \ what]
  /\ UNCHANGED raced

(* r writes and ends; what it did not know when it decided is on record.   *)
Writes(r, what, spoiled) ==
  /\ End(r)
  /\ missed' = [q \in Requests |->
       IF q = r \/ pc[q] \in {"idle", "read"} THEN {}
       ELSE missed[q] \union (IF job[q].op \in Views THEN what ELSE what \ {"due"})]
  /\ raced' = raced \union spoiled

Leave(r) == End(r) /\ Reads(r, {"list", "saved", "client", "due"}) /\ UNCHANGED tables

Arrive(r, j) ==
  /\ pc[r] = "idle"
  /\ arrived < MaxRequests
  /\ arrived' = arrived + 1
  /\ pc' = [pc EXCEPT ![r] = "read"]
  /\ job' = [job EXCEPT ![r] = j]
  /\ UNCHANGED <<tables, got, missed, raced>>

(* A check on data outside this module refuses the request, the database   *)
(* breaks a deadlock or times out a lock, or the process dies.             *)
Abort(r) == pc[r] # "idle" /\ Leave(r)

-----------------------------------------------------------------------------
(* The first read: does what the request names exist, and for an order, is *)
(* it one of the project's phases?                                         *)
Found(j) ==
  /\ j.op \in {"add", "reorder", "save", "reset", "move", "removeProject", "one"} =>
       project = "live"
  /\ j.op = "reorder" => j.of # <<>> /\ ToSet(j.of) = Live
  /\ j.op = "save" => ToSet(j.of) \subseteq Candidates
  /\ j.op \in {"update", "remove"} => row[j.of] = "live"
  /\ j.op \in {"create", "removeClient"} => client[j.of] = "live"
  /\ j.op = "create" => project = "absent"

NotFound(r) == pc[r] = "read" /\ ~Found(job[r]) /\ Leave(r)

ReadFirst(r) ==
  /\ pc[r] = "read"
  /\ job[r].op # "day"
  /\ Found(job[r])
  /\ Go(r, CASE job[r].op \in {"add", "removeClient"} -> "count"
             [] job[r].op = "move" -> "check"
             [] job[r].op = "remove" -> "delete"
             [] job[r].op = "one" -> "list"
             [] OTHER -> "write")
  /\ UNCHANGED <<tables, got, missed, raced>>

-----------------------------------------------------------------------------
(* Adding a phase: count, then insert at that position.                    *)

(* Removed phases are counted too.                                         *)
CountPhasesSlip(r) ==
  /\ At(r, {"count"}, {"add"})
  /\ got' = [got EXCEPT ![r].count = Cardinality({p \in Phases : row[p] # "absent"})]
  /\ Go(r, "write")
  /\ Reads(r, {"list"})
  /\ UNCHANGED tables

CountPhases(r) ==
  /\ At(r, {"count"}, {"add"})
  /\ got' = [got EXCEPT ![r].count = Cardinality(Live)]
  /\ Go(r, "write")
  /\ Reads(r, {"list"})
  /\ UNCHANGED tables

InsertPhase(r) ==
  LET p == job[r].of IN
  /\ At(r, {"write"}, {"add"})
  /\ row[p] = "absent"
  /\ row' = [row EXCEPT ![p] = "live"]
  /\ pos' = [pos EXCEPT ![p] = got[r].count]
  /\ due' = [due EXCEPT ![p] = job[r].due]
  /\ Writes(r, {"list"}, missed[r] \intersect {"list"})
  /\ UNCHANGED <<ownership, saved>>

PhaseIdTaken(r) == At(r, {"write"}, {"add"}) /\ row[job[r].of] # "absent" /\ Leave(r)

(* Removing one, in one transaction: mark it, prune it from saved orders,  *)
(* number the others anew.                                                 *)
MarkRemoved(r) ==
  /\ At(r, {"delete"}, {"remove"})
  /\ Free(r, {job[r].of})
  /\ Go(r, "saved")
  /\ UNCHANGED <<tables, got, missed, raced>>

(* Saved orders that name the phase are not looked for.                    *)
ReadSavedSlip(r) ==
  /\ At(r, {"saved"}, {"remove"})
  /\ Go(r, "survivors")
  /\ Reads(r, {"saved"})
  /\ UNCHANGED <<tables, got>>

ReadSaved(r) ==
  LET p == job[r].of
      names == saved # None /\ p \in ToSet(saved) IN
  /\ At(r, {"saved"}, {"remove"})
  /\ got' = [got EXCEPT ![r].kept = IF names THEN Only(saved, Phases \ {p}) ELSE None]
  /\ Go(r, "survivors")
  /\ Reads(r, {"saved"})
  /\ UNCHANGED tables

(* The survivors are read in no particular order.                          *)
ReadSurvivorsSlip(r) ==
  /\ At(r, {"survivors"}, {"remove"})
  /\ \E s \in SetToSeqs(Live \ {job[r].of}) : got' = [got EXCEPT ![r].rest = s]
  /\ Go(r, "write")
  /\ Reads(r, {"list"})
  /\ UNCHANGED tables

ReadSurvivors(r) ==
  /\ At(r, {"survivors"}, {"remove"})
  /\ \E s \in SetToSeqs(Live \ {job[r].of}) :
       /\ \A i, k \in DOMAIN s : i < k => pos[s[i]] <= pos[s[k]]
       /\ got' = [got EXCEPT ![r].rest = s]
  /\ Go(r, "write")
  /\ Reads(r, {"list"})
  /\ UNCHANGED tables

Number(s) ==
  pos' = [p \in Phases |->
    IF p \in ToSet(s) THEN Place(s, p) ELSE pos[p]]

RemovePhase(r) ==
  LET kept == got[r].kept IN
  /\ At(r, {"write"}, {"remove"})
  /\ Free(r, ToSet(got[r].rest))
  /\ kept # None => saved # None
  /\ row' = [row EXCEPT ![job[r].of] = "deleted"]
  /\ Number(got[r].rest)
  /\ saved' = IF kept = None THEN saved ELSE IF kept = <<>> THEN None ELSE kept
  /\ Writes(r, {"list", "saved"}, missed[r] \intersect {"list", "saved"})
  /\ UNCHANGED <<ownership, due>>

(* The saved order it was going to prune was reset meanwhile: no such row. *)
SavedGone(r) ==
  /\ At(r, {"write"}, {"remove"})
  /\ got[r].kept # None /\ saved = None
  /\ Leave(r)

Reorder(r) ==
  /\ At(r, {"write"}, {"reorder"})
  /\ Free(r, ToSet(job[r].of))
  /\ Number(job[r].of)
  /\ Writes(r, {"list"}, missed[r] \intersect {"list"})
  /\ UNCHANGED <<ownership, row, due, saved>>

(* Dates and assignments, as far as the day can tell.                      *)
UpdatePhase(r) ==
  /\ At(r, {"write"}, {"update"})
  /\ Free(r, {job[r].of})
  /\ due' = [due EXCEPT ![job[r].of] = job[r].due]
  /\ Writes(r, {"due"}, {})
  /\ UNCHANGED <<ownership, order, saved>>

-----------------------------------------------------------------------------
(* The day's order.                                                        *)
SaveOrder(r) ==
  /\ At(r, {"write"}, {"save"})
  /\ saved' = job[r].of
  /\ Writes(r, {"saved"}, IF "list" \in missed[r] THEN {"saved"} ELSE {})
  /\ UNCHANGED <<ownership, order, due>>

ResetOrder(r) ==
  /\ At(r, {"write"}, {"reset"})
  /\ saved' = None
  /\ Writes(r, {"saved"}, {})
  /\ UNCHANGED <<ownership, order, due>>

(* By day, then by name; of equal names either may be first.               *)
Earlier ==
  {v \in Phases \X Phases :
    \/ due[v[1]] < due[v[2]]
    \/ due[v[1]] = due[v[2]] /\ NameRank[v[1]] <= NameRank[v[2]]}

SuggestSequence == Sorted({p \in Candidates : due[p] > 0}, Earlier)

(* Phases the saved order does not mention are left out.                   *)
ReconcileManualOrderSlip(stored, suggested, known) ==
  Only(stored, known)

(* What is saved never names a phase twice.                                *)
ReconcileManualOrder(stored, suggested, known) ==
  Only(stored, known) \o Only(suggested, Phases \ (ToSet(stored) \intersect known))

OrderedPhaseIds(stored, suggested, known) ==
  IF stored = None THEN suggested ELSE ReconcileManualOrder(stored, suggested, known)

(* The order of a day is read in two statements, first the phases, and     *)
(* then what was saved.  The company's day asks for no project first.      *)
ReadCandidates(r) ==
  /\ At(r, {"list"}, {"one"}) \/ At(r, {"read"}, {"day"})
  /\ got' = [got EXCEPT ![r].rest = SuggestSequence, ![r].known = Candidates]
  /\ Go(r, "order")
  /\ Reads(r, {"list", "due"})
  /\ UNCHANGED tables

ReadDay(r) ==
  /\ At(r, {"order"}, Views)
  /\ got' = [got EXCEPT ![r].kept = saved,
                        ![r].rest = OrderedPhaseIds(saved, @, got[r].known)]
  /\ Go(r, "answer")
  /\ Reads(r, {"saved"})
  /\ UNCHANGED tables

ShowDay(r) == At(r, {"answer"}, Views) /\ Leave(r)

-----------------------------------------------------------------------------
(* The project and its client.                                             *)
CreateProject(r) ==
  /\ At(r, {"write"}, {"create"})
  /\ project = "absent"
  /\ project' = "live"
  /\ owner' = job[r].of
  /\ \E s \in SetToAllKPermutations({p \in Phases : row[p] = "absent"}) :
       /\ row' = [p \in Phases |-> IF p \in ToSet(s) THEN "live" ELSE row[p]]
       /\ \E d \in [ToSet(s) -> Due] :
            due' = [p \in Phases |-> IF p \in ToSet(s) THEN d[p] ELSE due[p]]
       /\ Number(s)
  /\ Writes(r, {"list", "client"}, missed[r] \intersect {"client"})
  /\ UNCHANGED <<client, saved>>

CheckClient(r) ==
  /\ At(r, {"check"}, {"move"})
  /\ client[job[r].of] = "live"
  /\ Go(r, "write")
  /\ Reads(r, {"client"})
  /\ UNCHANGED <<tables, got>>

ClientUnknown(r) ==
  At(r, {"check"}, {"move"}) /\ client[job[r].of] # "live" /\ Leave(r)

(* The reference to the client is cleared.                                 *)
MoveProjectSlip(r) ==
  /\ At(r, {"write"}, {"move"})
  /\ owner' = None
  /\ Writes(r, {"client"}, missed[r] \intersect {"client"})
  /\ UNCHANGED <<client, project, order, due, saved>>

MoveProject(r) ==
  /\ At(r, {"write"}, {"move"})
  /\ owner' = job[r].of
  /\ Writes(r, {"client"}, missed[r] \intersect {"client"})
  /\ UNCHANGED <<client, project, order, due, saved>>

RemoveProject(r) ==
  /\ At(r, {"write"}, {"removeProject"})
  /\ Free(r, Live)
  /\ project' = "deleted"
  /\ row' = [p \in Phases |-> IF row[p] = "live" THEN "deleted" ELSE row[p]]
  /\ saved' = None
  /\ Writes(r, {"list", "saved"}, {})
  /\ UNCHANGED <<client, owner, pos, due>>

ClientInUse(r) ==
  /\ At(r, {"count"}, {"removeClient"})
  /\ project = "live" /\ owner = job[r].of
  /\ Leave(r)

(* The projects of a client are not counted before it goes.                *)
CountProjectsSlip(r) ==
  /\ At(r, {"count"}, {"removeClient"})
  /\ Go(r, "write")
  /\ Reads(r, {"client"})
  /\ UNCHANGED <<tables, got>>

CountProjects(r) ==
  /\ At(r, {"count"}, {"removeClient"})
  /\ ~(project = "live" /\ owner = job[r].of)
  /\ Go(r, "write")
  /\ Reads(r, {"client"})
  /\ UNCHANGED <<tables, got>>

RemoveClient(r) ==
  /\ At(r, {"write"}, {"removeClient"})
  /\ client' = [client EXCEPT ![job[r].of] = "deleted"]
  /\ Writes(r, {"client"}, missed[r] \intersect {"client"})
  /\ UNCHANGED <<project, owner, order, due, saved>>

-----------------------------------------------------------------------------
Step(r) ==
  \/ Abort(r) \/ NotFound(r) \/ ReadFirst(r)
  \/ CountPhases(r) \/ InsertPhase(r) \/ PhaseIdTaken(r)
  \/ MarkRemoved(r) \/ ReadSaved(r) \/ ReadSurvivors(r)
  \/ RemovePhase(r) \/ SavedGone(r)
  \/ Reorder(r) \/ UpdatePhase(r) \/ SaveOrder(r) \/ ResetOrder(r)
  \/ ReadCandidates(r) \/ ReadDay(r) \/ ShowDay(r)
  \/ CreateProject(r) \/ CheckClient(r) \/ ClientUnknown(r) \/ MoveProject(r)
  \/ RemoveProject(r) \/ ClientInUse(r) \/ CountProjects(r) \/ RemoveClient(r)

Next == \E r \in Requests : (\E j \in Jobs : Arrive(r, j)) \/ Step(r)

Spec == Init /\ [][Next]_vars
-----------------------------------------------------------------------------
List == INSTANCE PhaseList WITH list <- PhaseOrder

(* The phases are a list, new ones last, until a request numbers them      *)
(* without having seen another's change (phases.service.ts create, remove, *)
(* reorder: "Keep sortIndex dense so append at the end stays correct").    *)
FollowsPhaseList ==
  [][\/ "list" \in raced'
     \/ UNCHANGED PhaseOrder
     \/ List!Next]_order

(* sortIndex is dense, which is what makes the count of phases the next    *)
(* position (phases.service.ts create, schema.prisma ProjectPhase).        *)
Dense ==
  "list" \notin raced => {pos[p] : p \in Live} = 0..(Cardinality(Live) - 1)

(* A saved order names no removed phase, unless it was saved or pruned     *)
(* without having seen the other (phases.service.ts remove, sequences      *)
(* .service.ts save).                                                      *)
SavedIsLive ==
  "saved" \notin raced /\ saved # None => ToSet(saved) \subseteq Live

(* Whatever was saved, and whatever raced: the worker's day has every      *)
(* phase that is due, once, no removed one, and what the foreman ordered   *)
(* in his order (sequences.service.ts buildDto).  A day that is being      *)
(* answered may be behind what was written since its first statement.      *)
DayIsWhole ==
  LET Wanted == {p \in Candidates : due[p] > 0}
      Whole(day, stored, known) ==
        /\ Len(day) = Cardinality(ToSet(day))
        /\ ToSet(day) \subseteq known
        /\ stored # None =>
             Only(day, ToSet(stored)) = Only(stored, known)
      now == OrderedPhaseIds(saved, SuggestSequence, Candidates)
  IN /\ Whole(now, saved, Candidates) /\ Wanted \subseteq ToSet(now)
     /\ \A r \in Requests : pc[r] = "answer" =>
          /\ Whole(got[r].rest, got[r].kept, got[r].known)
          /\ {"list", "due"} \intersect missed[r] = {} =>
               /\ got[r].known = Candidates
               /\ Wanted \subseteq ToSet(got[r].rest)

(* A live project has a live client, unless one of them was written        *)
(* without having seen the other (clients.service.ts remove,               *)
(* projects.service.ts create and update).                                 *)
ProjectHasClient ==
  "client" \notin raced /\ project = "live" => client[owner] = "live"
=============================================================================
