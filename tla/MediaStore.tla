----------------------------- MODULE MediaStore -----------------------------
(***************************************************************************)
(* Files: a row in the database and an object in the storage, written one  *)
(* after the other, shared by content, linked from work instructions and   *)
(* from reports, removed by a foreman and pruned at night.                 *)
(*                                                                         *)
(* An action is what a handler does between two awaits; a transaction      *)
(* takes effect when it commits, and a foreign key from a link restricts   *)
(* the deletion of the row it names.                                       *)
(*                                                                         *)
(* One company; a file's type and name are data.  An id of Media stands    *)
(* for a row and for its storage key: both are fresh for every upload.     *)
(***************************************************************************)
EXTENDS Integers, FiniteSets

CONSTANTS
  Media,       \* ids: bound on the uploads that get as far as the storage
  Files,       \* what is in a file (its hash)
  Size,        \* bytes in a file
  Phases,
  None,
  Requests,    \* slots for requests in flight
  MaxRequests, \* bound: requests that ever arrive
  Servers,     \* instances that run the nightly job
  Batch,       \* orphans one night takes
  MaxFaults    \* bound: nightly jobs that die half way

ASSUME SizeAssumption == Size \in Nat \ {0}
ASSUME NoneNotMedia == None \notin Media \union Files \union Nat
ASSUME BatchAssumption == Batch \in Nat \ {0}
ASSUME MediaBoundsAssumption == MaxRequests \in Nat /\ MaxFaults \in Nat

VARIABLES
  row,       \* row[m]: the MediaAsset row: not yet, live, or deleted
  bytes,     \* the ids whose object is in the storage
  file,      \* file[m]: the content it was created for
  old,       \* the rows created more than a day ago
  shows,     \* shows[p]: media linked from the phase's instructions
  phase,     \* phase[p]: live or soft-deleted
  reported,  \* media linked from a report
  pc,        \* pc[r]: the next await of the request in slot r
  job,       \* job[r]: what it asks for
  got,       \* got[r]: what its reads returned
  night,     \* night[s]: orphans left to prune, and the one half pruned
  twins,     \* history: rows whose upload overlapped another of the content
  arrived,   \* history: requests that arrived
  faults     \* history: nightly jobs that died

links == <<shows, phase, reported>>
tables == <<row, bytes, file, old, links>>
vars == <<tables, pc, job, got, night, twins, arrived, faults>>

Position == 0..(Size - 1)

(* A Range header, bytes=from-to, either end of which may be missing.      *)
Headers == [from : 0..Size \union {None}, to : 0..Size \union {None}]

NoHeader == [from |-> None, to |-> None]

Jobs ==
  [op : {"upload", "report"}, of : Files] \union
  [op : {"edit"}, of : Phases, with : SUBSET Media] \union
  [op : {"removePhase"}, of : Phases] \union
  [op : {"remove", "read"}, of : Media]

NoJob == [op |-> "none", of |-> None]

(* asset: the row or key in hand; own: this request created its row; late: *)
(* what it has looked up has changed since; header, sent: what part of the *)
(* file the last read asked for, and the positions it was answered with.   *)
Nothing ==
  [asset |-> None, own |-> FALSE, late |-> FALSE, header |-> NoHeader, sent |-> {}]

Hands == [asset : Media \union {None}, own : BOOLEAN, late : BOOLEAN,
          header : Headers, sent : SUBSET Int]

Asleep == [todo |-> {}, half |-> None]

TypeOK ==
  /\ row \in [Media -> {"absent", "live", "gone"}]
  /\ bytes \in SUBSET Media
  /\ file \in [Media -> Files \union {None}]
  /\ \A m \in Media : row[m] = "absent" <=> file[m] = None
  /\ old \in SUBSET Media
  /\ shows \in [Phases -> SUBSET Media]
  /\ phase \in [Phases -> {"live", "deleted"}]
  /\ reported \in SUBSET Media
  /\ pc \in [Requests -> {"idle", "find", "put", "create", "link", "check",
                          "write", "count", "delete", "bytes", "open"}]
  /\ job \in [Requests -> Jobs \union {NoJob}]
  /\ got \in [Requests -> Hands]
  /\ night \in [Servers -> [todo : SUBSET Media, half : Media \union {None}]]
  /\ twins \in SUBSET Media
  /\ arrived \in Nat
  /\ faults \in Nat

(* Some files from earlier days, of different contents, linked or not.     *)
Init ==
  /\ row \in [Media -> {"absent", "live"}]
  /\ old = {m \in Media : row[m] = "live"}
  /\ bytes = old
  /\ file \in [Media -> Files \union {None}]
  /\ \A m, n \in Media :
       /\ m \in old <=> file[m] # None
       /\ m # n /\ m \in old => file[m] # file[n]
  /\ phase = [p \in Phases |-> "live"]
  /\ shows \in [Phases -> SUBSET old]
  /\ reported \in SUBSET old
  /\ pc = [r \in Requests |-> "idle"]
  /\ job = [r \in Requests |-> NoJob]
  /\ got = [r \in Requests |-> Nothing]
  /\ night = [s \in Servers |-> Asleep]
  /\ twins = {}
  /\ arrived = 0
  /\ faults = 0

-----------------------------------------------------------------------------
Live == {m \in Media : row[m] = "live"}

(* Media a phase on show links to.                                         *)
Shown == UNION {shows[p] : p \in {q \in Phases : phase[q] = "live"}}

(* Media any link names, also one of a removed phase.                      *)
Linked == reported \union UNION {shows[p] : p \in Phases}

At(r, step, ops) == pc[r] = step /\ job[r].op \in ops

Go(r, step) == pc' = [pc EXCEPT ![r] = step] /\ UNCHANGED <<job, arrived>>

Done(r) ==
  /\ pc' = [pc EXCEPT ![r] = "idle"]
  /\ job' = [job EXCEPT ![r] = NoJob]
  /\ UNCHANGED arrived

End(r) == Done(r) /\ got' = [got EXCEPT ![r] = Nothing]

Leave(r) == End(r) /\ UNCHANGED <<tables, night, twins, faults>>

Arrive(r, j) ==
  /\ pc[r] = "idle"
  /\ arrived < MaxRequests
  /\ arrived' = arrived + 1
  /\ pc' = [pc EXCEPT ![r] = "find"]
  /\ job' = [job EXCEPT ![r] = j]
  /\ got' = [got EXCEPT ![r] = Nothing]
  /\ UNCHANGED <<tables, night, twins, faults>>

(* An error is answered, a statement fails, or the process dies.              *)
Abort(r) == pc[r] # "idle" /\ Leave(r)

-----------------------------------------------------------------------------
(* Uploading: one of equal content, or bytes first and then the row.       *)

(* Only recent copies are looked for.                                      *)
CopiesSlip(f) == {m \in Live \ old : file[m] = f}

Copies(f) ==
  {m \in Live : file[m] = f}

Uploaded(r) == IF job[r].op = "report" THEN Go(r, "link") ELSE Done(r)

ReuseCopy(r) ==
  /\ At(r, "find", {"upload", "report"})
  /\ \E m \in Copies(job[r].of) :
       got' = [got EXCEPT ![r] =
         IF job[r].op = "report" THEN [Nothing EXCEPT !.asset = m] ELSE Nothing]
  /\ Uploaded(r)
  /\ UNCHANGED <<tables, night, twins, faults>>

FindNoCopy(r) ==
  /\ At(r, "find", {"upload", "report"})
  /\ Copies(job[r].of) = {}
  /\ Go(r, "put")
  /\ UNCHANGED <<tables, got, night, twins, faults>>

PutBytes(r) ==
  /\ pc[r] = "put"
  /\ \E m \in Media \ bytes :
       /\ row[m] = "absent"
       /\ bytes' = bytes \union {m}
       /\ got' = [got EXCEPT ![r].asset = m]
  /\ Go(r, "create")
  /\ UNCHANGED <<row, file, old, links, night, twins, faults>>

(* The row is created without the hash of its content.                     *)
CreateRowSlip(r) ==
  LET m == got[r].asset IN
  /\ pc[r] = "create"
  /\ row' = [row EXCEPT ![m] = "live"]
  /\ got' = [got EXCEPT ![r].own = TRUE]
  /\ Uploaded(r)
  /\ UNCHANGED <<bytes, file, old, links, night, twins, faults>>

CreateRow(r) ==
  LET m == got[r].asset
      Twin(q) == q # r /\ pc[q] \in {"put", "create"} /\ job[q].of = job[r].of
  IN
  /\ pc[r] = "create"
  /\ row' = [row EXCEPT ![m] = "live"]
  /\ file' = [file EXCEPT ![m] = job[r].of]
  /\ twins' = IF got[r].late THEN twins \union {m} ELSE twins
  /\ got' = [q \in Requests |->
       IF Twin(q) THEN [got[q] EXCEPT !.late = TRUE]
       ELSE IF q # r THEN got[q]
       ELSE IF job[r].op = "report" THEN [got[r] EXCEPT !.own = TRUE] ELSE Nothing]
  /\ Uploaded(r)
  /\ UNCHANGED <<bytes, old, links, night, faults>>

LinkReport(r) ==
  /\ pc[r] = "link"
  /\ got[r].asset \in Live
  /\ reported' = reported \union {got[r].asset}
  /\ End(r)
  /\ UNCHANGED <<row, bytes, file, old, shows, phase, night, twins, faults>>

-----------------------------------------------------------------------------
(* Work instructions: their media are checked, then written wholesale.     *)
AssertOwned(r) ==
  /\ At(r, "find", {"edit"})
  /\ phase[job[r].of] = "live"
  /\ job[r].with \subseteq Live
  /\ Go(r, "write")
  /\ UNCHANGED <<tables, got, night, twins, faults>>

SaveInstructions(r) ==
  LET p == job[r].of
      Unseen(q) == At(q, "delete", {"remove"}) /\ got[q].asset \in job[r].with
  IN
  /\ At(r, "write", {"edit"})
  /\ job[r].with \subseteq Live
  /\ shows' = [shows EXCEPT ![p] = job[r].with]
  /\ got' = [q \in Requests |->
       IF q # r /\ Unseen(q) THEN [got[q] EXCEPT !.late = TRUE] ELSE got[q]]
  /\ Done(r)
  /\ UNCHANGED <<row, bytes, file, old, phase, reported, night, twins, faults>>

RemovePhase(r) ==
  /\ At(r, "find", {"removePhase"})
  /\ phase' = [phase EXCEPT ![job[r].of] = "deleted"]
  /\ End(r)
  /\ UNCHANGED <<row, bytes, file, old, shows, reported, night, twins, faults>>

-----------------------------------------------------------------------------
(* Removing a file: count what shows it, delete links and row, then bytes. *)
FindAsset(r) ==
  /\ At(r, "find", {"remove", "read"})
  /\ job[r].of \in Live
  /\ got' = [got EXCEPT ![r].asset = job[r].of]
  /\ Go(r, IF job[r].op = "remove" THEN "count" ELSE "open")
  /\ UNCHANGED <<tables, night, twins, faults>>

(* Only the links of reports count.                                        *)
CountLinksSlip(r) ==
  /\ pc[r] = "count"
  /\ got[r].asset \notin reported
  /\ Go(r, "delete")
  /\ UNCHANGED <<tables, got, night, twins, faults>>

(* The two counts are two statements; as links of reports are never taken  *)
(* back, what they allow is what one count at the first of them allows.    *)
CountLinks(r) ==
  /\ pc[r] = "count"
  /\ got[r].asset \notin Shown \union reported
  /\ Go(r, "delete")
  /\ UNCHANGED <<tables, got, night, twins, faults>>

DeleteRow(r) ==
  LET m == got[r].asset IN
  /\ pc[r] = "delete"
  /\ m \in Live \ reported
  /\ shows' = [p \in Phases |-> shows[p] \ {m}]
  /\ row' = [row EXCEPT ![m] = "gone"]
  /\ Go(r, "bytes")
  /\ UNCHANGED <<bytes, file, old, phase, reported, got, night, twins, faults>>

DeleteBytes(r) ==
  /\ pc[r] = "bytes"
  /\ bytes' = bytes \ {got[r].asset}
  /\ End(r)
  /\ UNCHANGED <<row, file, old, links, night, twins, faults>>

-----------------------------------------------------------------------------
(* Reading a file, or a part of it.                                        *)

(* Without a start, or with the end before it, the header is ignored.      *)
ParseRange(h) ==
  IF h.from = None \/ (h.to # None /\ h.to < h.from) THEN NoHeader ELSE h

(* The end is cut to the size, one past the last position.                 *)
ReadPartSlip(h) ==
  LET last == IF h.to = None \/ h.to > Size THEN Size ELSE h.to
  IN IF h = NoHeader THEN Position ELSE h.from..last

ReadPart(h) ==
  LET last == IF h.to = None \/ h.to > Size - 1 THEN Size - 1 ELSE h.to
  IN IF h = NoHeader THEN Position ELSE h.from..last

OpenBytes(r) ==
  /\ pc[r] = "open"
  /\ got[r].asset \in bytes
  /\ \E h \in Headers :
       LET part == ReadPart(ParseRange(h)) IN
       /\ part # {}
       /\ got' = [got EXCEPT ![r] = [Nothing EXCEPT !.header = h, !.sent = part]]
  /\ Done(r)
  /\ UNCHANGED <<tables, night, twins, faults>>

-----------------------------------------------------------------------------
(* The nightly job: list, then row and bytes of each.                      *)

(* A file does not age a day while the request that created it runs.       *)
Age(m) ==
  /\ m \in Live \ old
  /\ \A r \in Requests : got[r].own => got[r].asset # m
  /\ old' = old \union {m}
  /\ UNCHANGED <<row, bytes, file, links, pc, job, got, night, twins, arrived, faults>>

(* The age is not asked for.                                               *)
OrphansSlip == Live \ Linked

Orphans ==
  (Live \intersect old) \ Linked

ListOrphans(s) ==
  /\ night[s] = Asleep
  /\ \E batch \in SUBSET Orphans :
       /\ batch # {}
       /\ Cardinality(batch) = Batch \/ batch = Orphans
       /\ Cardinality(batch) <= Batch
       /\ night' = [night EXCEPT ![s].todo = batch]
  /\ UNCHANGED <<tables, pc, job, got, twins, arrived, faults>>

(* The object goes before the row.                                         *)
PruneRowSlip(s, m) ==
  /\ night[s].half = None
  /\ m \in night[s].todo
  /\ bytes' = bytes \ {m}
  /\ UNCHANGED <<row, file, old, links, pc, job, got, night, twins, arrived, faults>>

PruneRow(s, m) ==
  /\ night[s].half = None
  /\ m \in night[s].todo
  /\ m \in Live \ Linked
  /\ row' = [row EXCEPT ![m] = "gone"]
  /\ night' = [night EXCEPT ![s] = [todo |-> @.todo \ {m}, half |-> m]]
  /\ UNCHANGED <<bytes, file, old, links, pc, job, got, twins, arrived, faults>>

(* The row is tried again and again.                                       *)
PruneStopsSlip(s, m) ==
  /\ night[s].half = None
  /\ m \in night[s].todo
  /\ m \notin Live \ Linked
  /\ UNCHANGED vars

(* A row that is linked or gone by now refuses to be deleted: the rest     *)
(* has to wait for another night.                                          *)
PruneStops(s, m) ==
  /\ night[s].half = None
  /\ m \in night[s].todo
  /\ m \notin Live \ Linked
  /\ night' = [night EXCEPT ![s] = Asleep]
  /\ UNCHANGED <<tables, pc, job, got, twins, arrived, faults>>

(* A storage that fails is logged and passed over.                         *)
PruneBytes(s) ==
  /\ night[s].half # None
  /\ \/ bytes' = bytes \ {night[s].half}
     \/ bytes' = bytes
  /\ night' = [night EXCEPT ![s].half = None]
  /\ UNCHANGED <<row, file, old, links, pc, job, got, twins, arrived, faults>>

PruneDies(s) ==
  /\ night[s] # Asleep
  /\ faults < MaxFaults
  /\ faults' = faults + 1
  /\ night' = [night EXCEPT ![s] = Asleep]
  /\ UNCHANGED <<tables, pc, job, got, twins, arrived>>

Prune(s) ==
  \/ ListOrphans(s)
  \/ \E m \in Media : PruneRow(s, m) \/ PruneStops(s, m)
  \/ PruneBytes(s)

-----------------------------------------------------------------------------
Request(r) ==
  \/ \E j \in Jobs : Arrive(r, j)
  \/ Abort(r)
  \/ ReuseCopy(r)
  \/ FindNoCopy(r)
  \/ PutBytes(r)
  \/ CreateRow(r)
  \/ LinkReport(r)
  \/ AssertOwned(r)
  \/ SaveInstructions(r)
  \/ RemovePhase(r)
  \/ FindAsset(r)
  \/ CountLinks(r)
  \/ DeleteRow(r)
  \/ DeleteBytes(r)
  \/ OpenBytes(r)

Next ==
  \/ \E r \in Requests : Request(r)
  \/ \E m \in Media : Age(m)
  \/ \E s \in Servers : Prune(s) \/ PruneDies(s)

Spec == Init /\ [][Next]_vars

(* The scheduler starts the job every night and the job goes on.           *)
FairSpec == Spec /\ \A s \in Servers : WF_vars(Prune(s))

-----------------------------------------------------------------------------
(* media.service.ts:175: whatever is interrupted, a row never points at    *)
(* missing bytes, so no image on show is broken.                           *)
RowHasBytes == Live \subseteq bytes

(* media.service.ts:142, :168: removal refuses while something live shows  *)
(* the file.  A phase on show loses a link only to an edit of its own, or  *)
(* to a removal that had counted before an edit put the link there.        *)
LosesOnlyUnseenLinks ==
  [][\A p \in Phases : \A m \in shows[p] \ shows'[p] :
       \/ phase[p] = "deleted"
       \/ \E r \in Requests : At(r, "write", {"edit"}) /\ job[r].of = p
       \/ \E r \in Requests : At(r, "delete", {"remove"}) /\ got[r].asset = m
                              /\ got[r].late]_vars

(* media.service.ts:207, retention.e2e-spec.ts:111: no night has its eye   *)
(* on a file that a report has just uploaded and is about to link.  (A     *)
(* report that was handed an older copy may lose it to the nightly job.)   *)
ReportFindsItsFile ==
  \A r \in Requests : pc[r] = "link" /\ got[r].own =>
    \A s \in Servers : got[r].asset \notin night[s].todo \union {night[s].half}

(* media.service.ts:46: identical content is stored once, except by        *)
(* uploads that overlapped.                                                *)
StoredOnce ==
  \A m, n \in Live : m # n /\ file[m] = file[n] => m \in twins \/ n \in twins

(* media.controller.ts:119, local.storage.ts:58: a ranged read answers     *)
(* with exactly the bytes the header names, and a header that names none   *)
(* of the accepted forms with the whole file.                              *)
SendsWhatWasAsked ==
  \A r \in Requests : got[r].sent # {} =>
    LET h == got[r].header
        named == h.from # None /\ (h.to = None \/ h.from <= h.to)
    IN got[r].sent = {i \in Position :
         named => h.from <= i /\ (h.to = None \/ i <= h.to)}

(* media.service.ts:207: a file nothing links to is pruned in the end,     *)
(* though a night takes only a batch and gives up at the first row that    *)
(* has been linked or removed since the list was made.                     *)
OrphansGo == \A m \in Media : m \in Orphans ~> m \notin Orphans
=============================================================================
