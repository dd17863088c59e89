-------------------------- MODULE MediaStoreProofs --------------------------
(***************************************************************************)
(* Theorems about MediaStore, for any number of files, phases, requests    *)
(* and servers: no row without its bytes, no copy but by overlap, no link  *)
(* lost but to a removal that could not know of it, no night that takes a  *)
(* file a report has just brought, and reads that send what was asked.     *)
(***************************************************************************)
EXTENDS MediaStore, TLAPS

(* What the step a request has reached says of what it has in hand.        *)
PcInv(r) ==
  /\ pc[r] \in {"put", "create", "link"} => job[r].op \in {"upload", "report"}
  /\ pc[r] \in {"count", "delete", "bytes"} => job[r].op = "remove"
  /\ pc[r] \in {"create", "link", "count", "delete", "bytes", "open"} =>
       got[r].asset \in Media
  /\ got[r].own => pc[r] = "link"

(* An object is there before its row is, and goes after it.                *)
BytesInv ==
  /\ Live \subseteq bytes
  /\ \A r \in Requests : pc[r] = "create" =>
       got[r].asset \in bytes /\ row[got[r].asset] = "absent"
  /\ \A q, r \in Requests : pc[q] = "create" /\ pc[r] = "create" /\ q # r =>
       got[q].asset # got[r].asset
  /\ \A r \in Requests : pc[r] = "bytes" => row[got[r].asset] = "gone"
  /\ \A s \in Servers : night[s].half # None => row[night[s].half] = "gone"

(* The nightly job has to do with old files, an upload with a new one.     *)
NightInv ==
  /\ \A m \in old : row[m] # "absent"
  /\ \A s \in Servers :
       night[s].todo \subseteq old /\ night[s].half \in old \union {None}
  /\ \A r \in Requests : got[r].own => got[r].asset \notin old

(* An upload that is not late has no copy yet.                             *)
CopyInv ==
  \A r \in Requests : pc[r] \in {"put", "create"} /\ ~got[r].late =>
    Copies(job[r].of) = {}

(* A removal that is not late takes no file on show.                       *)
CountInv ==
  \A r \in Requests : pc[r] = "delete" /\ ~got[r].late => got[r].asset \notin Shown

IInv ==
  /\ TypeOK
  /\ \A r \in Requests : PcInv(r)
  /\ BytesInv
  /\ NightInv
  /\ CopyInv
  /\ StoredOnce
  /\ CountInv
  /\ SendsWhatWasAsked

-----------------------------------------------------------------------------
(* What a request asks for determines the type of its parts.               *)
LEMMA JobTypes ==
  ASSUME TypeOK, NEW r \in Requests
  PROVE  /\ job[r].op \in {"upload", "report"} => job[r].of \in Files
         /\ job[r].op = "edit" => job[r].of \in Phases /\ job[r].with \in SUBSET Media
         /\ job[r].op = "removePhase" => job[r].of \in Phases
         /\ job[r].op \in {"remove", "read"} => job[r].of \in Media
<1>1. job[r] \in Jobs \union {NoJob}
  BY DEF TypeOK
<1> QED
  BY <1>1 DEF Jobs, NoJob

(* What a request has in hand, and what becomes of it.                     *)
LEMMA NothingType ==
  /\ Nothing \in Hands
  /\ ~Nothing.own /\ Nothing.sent = {}
BY DEF Nothing, NoHeader, Headers, Hands

LEMMA TakeAsset ==
  ASSUME NEW g \in Hands, NEW m \in Media \union {None}
  PROVE  LET h == [g EXCEPT !.asset = m] IN
         /\ h \in Hands
         /\ h.asset = m /\ h.own = g.own /\ h.late = g.late
         /\ h.header = g.header /\ h.sent = g.sent
BY DEF Hands

LEMMA TakeOwn ==
  ASSUME NEW g \in Hands
  PROVE  LET h == [g EXCEPT !.own = TRUE] IN
         /\ h \in Hands
         /\ h.asset = g.asset /\ h.own /\ h.late = g.late
         /\ h.header = g.header /\ h.sent = g.sent
BY DEF Hands

LEMMA TurnLate ==
  ASSUME NEW g \in Hands
  PROVE  LET h == [g EXCEPT !.late = TRUE] IN
         /\ h \in Hands
         /\ h.asset = g.asset /\ h.own = g.own /\ h.late
         /\ h.header = g.header /\ h.sent = g.sent
BY DEF Hands

LEMMA TakePart ==
  ASSUME NEW h \in Headers
  PROVE  LET g == [Nothing EXCEPT !.header = h, !.sent = ReadPart(ParseRange(h))] IN
         /\ ReadPart(ParseRange(h)) \in SUBSET Int => g \in Hands
         /\ g.header = h /\ g.sent = ReadPart(ParseRange(h)) /\ ~g.own
BY DEF Nothing, Hands

(* A range of a header is a set of positions.                              *)
LEMMA PartIsPositions ==
  ASSUME NEW h \in Headers
  PROVE  ReadPart(ParseRange(h)) \subseteq Position
<1>1. Size \in Nat
  BY SizeAssumption
<1>2. h.from \in Nat \union {None} /\ h.to \in Nat \union {None}
  BY <1>1 DEF Headers
<1>3. None \notin Nat
  BY NoneNotMedia
<1> QED
  BY <1>1, <1>2, <1>3 DEF ReadPart, ParseRange, Position, NoHeader

(* The part of the file that is read is what the header names.             *)
LEMMA PartIsNamed ==
  ASSUME NEW h \in Headers
  PROVE  ReadPart(ParseRange(h)) =
           {i \in Position :
             h.from # None /\ (h.to = None \/ h.from <= h.to) =>
               h.from <= i /\ (h.to = None \/ i <= h.to)}
<1>1. Size \in Nat \ {0}
  BY SizeAssumption
<1>2. h.from \in Nat \union {None} /\ h.to \in Nat \union {None}
  BY <1>1 DEF Headers
<1>3. None \notin Nat
  BY NoneNotMedia
<1>4. h = [from |-> h.from, to |-> h.to]
  BY DEF Headers
<1>5. CASE h.from = None
  BY <1>1, <1>5 DEF ReadPart, ParseRange, Position, NoHeader
<1>6. CASE h.from # None /\ h.to = None
  <2>1. ParseRange(h) = h /\ h # NoHeader
    BY <1>6 DEF ParseRange, NoHeader
  <2>2. ReadPart(h) = h.from..(Size - 1)
    BY <1>6, <2>1 DEF ReadPart
  <2> QED
    BY <1>1, <1>2, <1>6, <2>1, <2>2 DEF Position
<1>7. CASE h.from # None /\ h.to # None /\ h.to < h.from
  <2>1. ReadPart(ParseRange(h)) = Position
    BY <1>7 DEF ReadPart, ParseRange
  <2> QED
    BY <1>2, <1>3, <1>7, <2>1
<1>8. CASE h.from # None /\ h.to # None /\ ~(h.to < h.from)
  <2>1. ParseRange(h) = h /\ h # NoHeader
    BY <1>8 DEF ParseRange, NoHeader
  <2>2. ReadPart(h) = h.from..(IF h.to > Size - 1 THEN Size - 1 ELSE h.to)
    BY <1>8, <2>1 DEF ReadPart
  <2> QED
    BY <1>1, <1>2, <1>3, <1>8, <2>1, <2>2 DEF Position
<1> QED
  BY <1>5, <1>6, <1>7, <1>8

-----------------------------------------------------------------------------
(* Type correctness.                                                       *)
LEMMA EndTypes ==
  ASSUME TypeOK, NEW r \in Requests, End(r)
  PROVE  /\ pc' = [pc EXCEPT ![r] = "idle"]
         /\ job' = [job EXCEPT ![r] = NoJob]
         /\ got' = [got EXCEPT ![r] = Nothing]
         /\ arrived' \in Nat
         /\ job' \in [Requests -> Jobs \union {NoJob}]
         /\ got' \in [Requests -> Hands]
BY NothingType DEF End, Done, TypeOK

LEMMA UploadedTypes ==
  ASSUME TypeOK, NEW r \in Requests, Uploaded(r)
  PROVE  /\ pc' \in [Requests -> {"idle", "find", "put", "create", "link", "check",
                                  "write", "count", "delete", "bytes", "open"}]
         /\ job' \in [Requests -> Jobs \union {NoJob}]
         /\ arrived' \in Nat
         /\ pc'[r] = IF job[r].op = "report" THEN "link" ELSE "idle"
         /\ \A q \in Requests \ {r} : pc'[q] = pc[q] /\ job'[q] = job[q]
BY DEF Uploaded, Go, Done, TypeOK

LEMMA TypeStep == TypeOK /\ (\A r \in Requests : PcInv(r)) /\ NightInv /\ [Next]_vars => TypeOK'
<1> SUFFICES ASSUME TypeOK, \A r \in Requests : PcInv(r), NightInv, [Next]_vars
             PROVE  TypeOK'
  OBVIOUS
<1> USE DEF tables, links
<1>0. CASE UNCHANGED vars
  BY <1>0 DEF TypeOK, vars
<1>1. ASSUME NEW r \in Requests, NEW j \in Jobs, Arrive(r, j) PROVE TypeOK'
  BY <1>1, NothingType DEF Arrive, TypeOK
<1>2. ASSUME NEW r \in Requests, Abort(r) PROVE TypeOK'
  BY <1>2, EndTypes DEF Abort, Leave, TypeOK
<1>3. ASSUME NEW r \in Requests, ReuseCopy(r) PROVE TypeOK'
  <2>1. got' \in [Requests -> Hands]
    BY <1>3, NothingType, TakeAsset DEF ReuseCopy, Copies, Live, TypeOK
  <2> QED
    BY <1>3, <2>1, UploadedTypes DEF ReuseCopy, TypeOK
<1>4. ASSUME NEW r \in Requests,
             FindNoCopy(r) \/ AssertOwned(r) \/ CountLinks(r)
      PROVE  TypeOK'
  BY <1>4 DEF FindNoCopy, AssertOwned, CountLinks, Go, TypeOK
<1>5. ASSUME NEW r \in Requests, PutBytes(r) PROVE TypeOK'
  BY <1>5, TakeAsset DEF PutBytes, Go, TypeOK
<1>6. ASSUME NEW r \in Requests, CreateRow(r) PROVE TypeOK'
  <2>1. job[r].of \in Files /\ got[r].asset \in Media
    BY <1>6, JobTypes DEF CreateRow, PcInv
  <2>2. job[r].of # None
    BY <2>1, NoneNotMedia
  <2>3. row' \in [Media -> {"absent", "live", "gone"}] /\ file' \in [Media -> Files \union {None}]
    BY <1>6, <2>1 DEF CreateRow, TypeOK
  <2>4. \A m \in Media : row'[m] = "absent" <=> file'[m] = None
    BY <1>6, <2>1, <2>2 DEF CreateRow, TypeOK
  <2>5. got' \in [Requests -> Hands]
    BY <1>6, NothingType, TakeOwn, TurnLate DEF CreateRow, TypeOK
  <2>6. twins' \in SUBSET Media
    BY <1>6, <2>1 DEF CreateRow, TypeOK
  <2>7. Uploaded(r) /\ UNCHANGED <<bytes, old, links, night, faults>>
    BY <1>6 DEF CreateRow
  <2> QED
    BY <2>3, <2>4, <2>5, <2>6, <2>7, UploadedTypes DEF TypeOK
<1>7. ASSUME NEW r \in Requests, LinkReport(r) PROVE TypeOK'
  <2>1. reported' \in SUBSET Media
    BY <1>7 DEF LinkReport, Live, TypeOK
  <2> QED
    BY <1>7, <2>1, EndTypes DEF LinkReport, TypeOK
<1>8. ASSUME NEW r \in Requests, SaveInstructions(r) PROVE TypeOK'
  <2>1. shows' \in [Phases -> SUBSET Media]
    BY <1>8, JobTypes DEF SaveInstructions, At, TypeOK
  <2>2. got' \in [Requests -> Hands]
    BY <1>8, TurnLate DEF SaveInstructions, TypeOK
  <2> QED
    BY <1>8, <2>1, <2>2 DEF SaveInstructions, Done, TypeOK
<1>9. ASSUME NEW r \in Requests, RemovePhase(r) PROVE TypeOK'
  <2>1. phase' \in [Phases -> {"live", "deleted"}]
    BY <1>9 DEF RemovePhase, TypeOK
  <2> QED
    BY <1>9, <2>1, EndTypes DEF RemovePhase, TypeOK
<1>10. ASSUME NEW r \in Requests, FindAsset(r) PROVE TypeOK'
  BY <1>10, TakeAsset DEF FindAsset, Go, Live, TypeOK
<1>11. ASSUME NEW r \in Requests, DeleteRow(r) PROVE TypeOK'
  <2>1. got[r].asset \in Media /\ row[got[r].asset] = "live"
    BY <1>11 DEF DeleteRow, Live
  <2>2. /\ row' \in [Media -> {"absent", "live", "gone"}]
        /\ \A m \in Media : row'[m] = "absent" <=> row[m] = "absent"
    BY <1>11, <2>1 DEF DeleteRow, TypeOK
  <2>3. shows' \in [Phases -> SUBSET Media]
    BY <1>11 DEF DeleteRow, TypeOK
  <2> QED
    BY <1>11, <2>2, <2>3 DEF DeleteRow, Go, TypeOK
<1>12. ASSUME NEW r \in Requests, DeleteBytes(r) PROVE TypeOK'
  <2>1. bytes' \in SUBSET Media
    BY <1>12 DEF DeleteBytes, TypeOK
  <2> QED
    BY <1>12, <2>1, EndTypes DEF DeleteBytes, TypeOK
<1>13. ASSUME NEW r \in Requests, OpenBytes(r) PROVE TypeOK'
  <2>1. PICK h \in Headers :
          got' = [got EXCEPT ![r] =
                   [Nothing EXCEPT !.header = h, !.sent = ReadPart(ParseRange(h))]]
    BY <1>13 DEF OpenBytes
  <2>2. ReadPart(ParseRange(h)) \in SUBSET Int
    BY PartIsPositions, SizeAssumption DEF Position
  <2>3. got' \in [Requests -> Hands]
    BY <2>1, <2>2, TakePart DEF TypeOK
  <2> QED
    BY <1>13, <2>3 DEF OpenBytes, Done, TypeOK
<1>14. ASSUME NEW m \in Media, Age(m) PROVE TypeOK'
  BY <1>14 DEF Age, TypeOK
<1>15. ASSUME NEW s \in Servers, Prune(s) \/ PruneDies(s) PROVE TypeOK'
  <2>1. night' \in [Servers -> [todo : SUBSET Media, half : Media \union {None}]]
    BY <1>15 DEF Prune, PruneDies, ListOrphans, PruneRow, PruneStops, PruneBytes,
       Asleep, Orphans, Live, TypeOK
  <2>2. /\ row' \in [Media -> {"absent", "live", "gone"}]
        /\ \A m \in Media : row'[m] = "absent" <=> row[m] = "absent"
    BY <1>15 DEF Prune, PruneDies, ListOrphans, PruneRow, PruneStops, PruneBytes,
       Live, TypeOK
  <2>3. bytes' \in SUBSET Media /\ faults' \in Nat
    BY <1>15 DEF Prune, PruneDies, ListOrphans, PruneRow, PruneStops, PruneBytes, TypeOK
  <2>4. UNCHANGED <<file, old, links, pc, job, got, twins, arrived>>
    BY <1>15 DEF Prune, PruneDies, ListOrphans, PruneRow, PruneStops, PruneBytes
  <2> QED
    BY <2>1, <2>2, <2>3, <2>4 DEF TypeOK
<1>16. ASSUME NEW r \in Requests, Request(r) PROVE TypeOK'
  BY <1>1, <1>2, <1>3, <1>4, <1>5, <1>6, <1>7, <1>8, <1>9, <1>10, <1>11, <1>12,
     <1>13, <1>16 DEF Request
<1> QED
  BY <1>0, <1>14, <1>15, <1>16 DEF Next
-----------------------------------------------------------------------------
(* A request leaves what others have in hand alone, but may turn it late.  *)
LEMMA OthersKeep ==
  ASSUME TypeOK, NEW r \in Requests, Request(r), NEW q \in Requests \ {r}
  PROVE  /\ pc'[q] = pc[q] /\ job'[q] = job[q]
         /\ got'[q].asset = got[q].asset /\ got'[q].own = got[q].own
         /\ got'[q].header = got[q].header /\ got'[q].sent = got[q].sent
         /\ got[q].late => got'[q].late
<1>1. CASE CreateRow(r)
  <2>1. got'[q] \in {got[q], [got[q] EXCEPT !.late = TRUE]}
    BY <1>1 DEF CreateRow, TypeOK
  <2>2. pc'[q] = pc[q] /\ job'[q] = job[q]
    BY <1>1, UploadedTypes DEF CreateRow
  <2>3. got[q] \in Hands
    BY DEF TypeOK
  <2>4. CASE got'[q] = [got[q] EXCEPT !.late = TRUE]
    BY <2>2, <2>3, <2>4, TurnLate
  <2> QED
    BY <2>1, <2>2, <2>4
<1>2. CASE SaveInstructions(r)
  <2>1. got'[q] \in {got[q], [got[q] EXCEPT !.late = TRUE]}
    BY <1>2 DEF SaveInstructions, TypeOK
  <2>2. pc'[q] = pc[q] /\ job'[q] = job[q]
    BY <1>2 DEF SaveInstructions, Done, TypeOK
  <2>3. got[q] \in Hands
    BY DEF TypeOK
  <2>4. CASE got'[q] = [got[q] EXCEPT !.late = TRUE]
    BY <2>2, <2>3, <2>4, TurnLate
  <2> QED
    BY <2>1, <2>2, <2>4
<1>3. ASSUME ~CreateRow(r), ~SaveInstructions(r)
      PROVE  pc'[q] = pc[q] /\ job'[q] = job[q] /\ got'[q] = got[q]
  BY <1>3 DEF Request, Arrive, Abort, Leave, End, Done, Go, Uploaded, ReuseCopy,
     FindNoCopy, PutBytes, LinkReport, AssertOwned, RemovePhase, FindAsset,
     CountLinks, DeleteRow, DeleteBytes, OpenBytes, TypeOK
<1> QED
  BY <1>1, <1>2, <1>3

(* What one request does to its own place in the program.                  *)
LEMMA OwnStep ==
  ASSUME TypeOK, NEW r \in Requests, PcInv(r), Request(r)
  PROVE  PcInv(r)'
<1>1. CASE \E j \in Jobs : Arrive(r, j)
  BY <1>1, NothingType DEF Arrive, PcInv, TypeOK
<1>2. CASE End(r)
  BY <1>2, EndTypes, NothingType DEF PcInv, TypeOK
<1>3. CASE ReuseCopy(r)
  <2>1. pc[r] = "find" /\ job[r].op \in {"upload", "report"}
    BY <1>3 DEF ReuseCopy, At
  <2>2. PICK m \in Media :
          got'[r] = IF job[r].op = "report" THEN [Nothing EXCEPT !.asset = m] ELSE Nothing
    BY <1>3 DEF ReuseCopy, Copies, Live, TypeOK
  <2>3. ~got'[r].own /\ (job[r].op = "report" => got'[r].asset \in Media)
    BY <2>2, NothingType, TakeAsset
  <2>4. /\ pc'[r] = IF job[r].op = "report" THEN "link" ELSE "idle"
        /\ job[r].op = "report" => job'[r] = job[r]
    BY <1>3 DEF ReuseCopy, Uploaded, Go, Done, TypeOK
  <2> QED
    BY <2>1, <2>3, <2>4 DEF PcInv
<1>4. CASE CreateRow(r)
  <2>1. job[r].op \in {"upload", "report"} /\ got[r].asset \in Media
    BY <1>4 DEF CreateRow, PcInv
  <2>2. got'[r] = IF job[r].op = "report" THEN [got[r] EXCEPT !.own = TRUE] ELSE Nothing
    BY <1>4 DEF CreateRow, TypeOK
  <2>3. /\ job[r].op = "report" => got'[r].asset \in Media
        /\ job[r].op # "report" => ~got'[r].own
    BY <2>1, <2>2, NothingType, TakeOwn DEF TypeOK
  <2>4. /\ pc'[r] = IF job[r].op = "report" THEN "link" ELSE "idle"
        /\ job[r].op = "report" => job'[r] = job[r]
    BY <1>4 DEF CreateRow, Uploaded, Go, Done, TypeOK
  <2> QED
    BY <2>1, <2>3, <2>4 DEF PcInv
<1>5. CASE FindNoCopy(r) \/ AssertOwned(r) \/ CountLinks(r) \/ DeleteRow(r)
  BY <1>5 DEF FindNoCopy, AssertOwned, CountLinks, DeleteRow, Go, At, PcInv, TypeOK
<1>6. CASE PutBytes(r)
  <2>1. PICK m \in Media : got'[r] = [got[r] EXCEPT !.asset = m]
    BY <1>6 DEF PutBytes, TypeOK
  <2>2. got'[r].asset \in Media /\ got'[r].own = got[r].own
    BY <2>1, TakeAsset DEF TypeOK
  <2>3. pc[r] = "put" /\ pc'[r] = "create" /\ job'[r] = job[r]
    BY <1>6 DEF PutBytes, Go, TypeOK
  <2> QED
    BY <2>2, <2>3 DEF PcInv
<1>7. CASE SaveInstructions(r)
  <2>1. pc[r] = "write" /\ pc'[r] = "idle" /\ got'[r] = got[r]
    BY <1>7 DEF SaveInstructions, At, Done, TypeOK
  <2> QED
    BY <2>1 DEF PcInv
<1>8. CASE FindAsset(r)
  <2>1. /\ pc[r] = "find" /\ job[r].of \in Media /\ job'[r] = job[r]
        /\ pc'[r] = IF job[r].op = "remove" THEN "count" ELSE "open"
    BY <1>8 DEF FindAsset, At, Go, Live, TypeOK
  <2>2. got'[r] = [got[r] EXCEPT !.asset = job[r].of]
    BY <1>8 DEF FindAsset, TypeOK
  <2>3. got'[r].asset \in Media /\ got'[r].own = got[r].own
    BY <2>1, <2>2, TakeAsset DEF TypeOK
  <2> QED
    BY <2>1, <2>3 DEF PcInv
<1>9. CASE OpenBytes(r)
  <2>1. PICK h \in Headers :
          got'[r] = [Nothing EXCEPT !.header = h, !.sent = ReadPart(ParseRange(h))]
    BY <1>9 DEF OpenBytes, TypeOK
  <2>2. ~got'[r].own
    BY <2>1, TakePart
  <2>3. pc'[r] = "idle"
    BY <1>9 DEF OpenBytes, Done, TypeOK
  <2> QED
    BY <2>2, <2>3 DEF PcInv
<1> QED
  BY <1>1, <1>2, <1>3, <1>4, <1>5, <1>6, <1>7, <1>8, <1>9
     DEF Request, Abort, Leave, LinkReport, RemovePhase, DeleteBytes

LEMMA PcStep ==
  TypeOK /\ (\A r \in Requests : PcInv(r)) /\ [Next]_vars => \A r \in Requests : PcInv(r)'
<1> SUFFICES ASSUME TypeOK, \A r \in Requests : PcInv(r), [Next]_vars, NEW q \in Requests
             PROVE  PcInv(q)'
  OBVIOUS
<1>1. CASE UNCHANGED <<pc, job, got>>
  BY <1>1 DEF PcInv
<1>2. ASSUME NEW r \in Requests, Request(r) PROVE PcInv(q)'
  BY <1>2, OwnStep, OthersKeep DEF PcInv
<1>3. CASE \/ \E m \in Media : Age(m)
           \/ \E s \in Servers : Prune(s) \/ PruneDies(s)
  BY <1>1, <1>3 DEF Age, Prune, PruneDies, ListOrphans, PruneRow, PruneStops, PruneBytes
<1> QED
  BY <1>1, <1>2, <1>3 DEF Next, vars

-----------------------------------------------------------------------------
(* Rows come with an upload, go with a removal or a night, and do not come *)
(* back; their content is settled as they come.                            *)
LEMMA RowsChange ==
  ASSUME TypeOK, \A r \in Requests : PcInv(r), [Next]_vars, NEW m \in Media
  PROVE  \/ row'[m] = row[m] /\ file'[m] = file[m]
         \/ /\ row[m] = "live" /\ row'[m] = "gone" /\ file'[m] = file[m]
         \/ \E r \in Requests :
              /\ CreateRow(r) /\ got[r].asset = m
              /\ row'[m] = "live" /\ file'[m] = job[r].of
<1> USE DEF tables, links
<1>1. CASE UNCHANGED <<row, file>>
  BY <1>1
<1>2. ASSUME NEW r \in Requests, CreateRow(r)
      PROVE  \/ row'[m] = row[m] /\ file'[m] = file[m]
             \/ got[r].asset = m /\ row'[m] = "live" /\ file'[m] = job[r].of
  BY <1>2 DEF CreateRow, TypeOK
<1>3. ASSUME NEW r \in Requests, DeleteRow(r)
      PROVE  row'[m] = row[m] \/ (row[m] = "live" /\ row'[m] = "gone")
  BY <1>3 DEF DeleteRow, Live, TypeOK
<1>4. ASSUME NEW s \in Servers, NEW n \in Media, PruneRow(s, n)
      PROVE  row'[m] = row[m] \/ (row[m] = "live" /\ row'[m] = "gone")
  BY <1>4 DEF PruneRow, Live, TypeOK
<1>5. ASSUME NEW r \in Requests, Request(r), ~CreateRow(r), ~DeleteRow(r)
      PROVE  UNCHANGED <<row, file>>
  BY <1>5 DEF Request, Arrive, Abort, Leave, ReuseCopy, FindNoCopy, PutBytes,
     LinkReport, AssertOwned, SaveInstructions, RemovePhase, FindAsset, CountLinks,
     DeleteBytes, OpenBytes
<1>6. ASSUME NEW r \in Requests, DeleteRow(r) PROVE UNCHANGED file
  BY <1>6 DEF DeleteRow
<1>7. ASSUME NEW s \in Servers, Prune(s) \/ PruneDies(s)
      PROVE  UNCHANGED file /\ (UNCHANGED row \/ \E n \in Media : PruneRow(s, n))
  BY <1>7 DEF Prune, PruneDies, ListOrphans, PruneRow, PruneStops, PruneBytes
<1>8. ASSUME NEW n \in Media, Age(n) PROVE UNCHANGED <<row, file>>
  BY <1>8 DEF Age
<1> QED
  BY <1>1, <1>2, <1>3, <1>4, <1>5, <1>6, <1>7, <1>8 DEF Next, vars

(* How a request comes to where it is.                                     *)
LEMMA Reached ==
  ASSUME TypeOK, \A r \in Requests : PcInv(r), [Next]_vars, NEW r \in Requests
  PROVE  \/ /\ pc'[r] = pc[r] /\ job'[r] = job[r]
            /\ got'[r].asset = got[r].asset /\ got'[r].own = got[r].own
            /\ got'[r].header = got[r].header /\ got'[r].sent = got[r].sent
            /\ got[r].late => got'[r].late
         \/ Request(r) /\ pc[r] # pc'[r]
<1>1. ASSUME NEW q \in Requests, Request(q), q # r
      PROVE  /\ pc'[r] = pc[r] /\ job'[r] = job[r]
             /\ got'[r].asset = got[r].asset /\ got'[r].own = got[r].own
             /\ got'[r].header = got[r].header /\ got'[r].sent = got[r].sent
             /\ got[r].late => got'[r].late
  BY <1>1, OthersKeep
<1>2. ASSUME Request(r) PROVE pc[r] # pc'[r]
  <2>1. CASE CreateRow(r) \/ ReuseCopy(r)
    BY <2>1 DEF CreateRow, ReuseCopy, Uploaded, Go, Done, At, TypeOK
  <2> QED
    BY <1>2, <2>1 DEF Request, Arrive, Abort, Leave, End, Done, Go, FindNoCopy,
       PutBytes, LinkReport, AssertOwned, SaveInstructions, RemovePhase, FindAsset,
       CountLinks, DeleteRow, DeleteBytes, OpenBytes, At, TypeOK
<1>3. CASE UNCHANGED <<pc, job, got>>
  BY <1>3
<1>4. ASSUME NEW s \in Servers, Prune(s) \/ PruneDies(s) PROVE UNCHANGED <<pc, job, got>>
  BY <1>4 DEF Prune, PruneDies, ListOrphans, PruneRow, PruneStops, PruneBytes
<1>5. ASSUME NEW m \in Media, Age(m) PROVE UNCHANGED <<pc, job, got>>
  BY <1>5 DEF Age
<1> QED
  BY <1>1, <1>2, <1>3, <1>4, <1>5 DEF Next, vars

(* The one step that takes a request there.                                *)
LEMMA Entered ==
  ASSUME TypeOK, NEW r \in Requests, PcInv(r), Request(r)
  PROVE  /\ pc'[r] = "put" => FindNoCopy(r)
         /\ pc'[r] = "create" => PutBytes(r)
         /\ pc'[r] = "delete" => CountLinks(r)
         /\ pc'[r] = "bytes" => DeleteRow(r)
         /\ got'[r].own => CreateRow(r)
<1>1. PcInv(r)'
  BY OwnStep
<1>2. /\ pc'[r] = "put" => FindNoCopy(r)
      /\ pc'[r] = "create" => PutBytes(r)
      /\ pc'[r] = "delete" => CountLinks(r)
      /\ pc'[r] = "bytes" => DeleteRow(r)
      /\ pc'[r] = "link" => CreateRow(r) \/ ReuseCopy(r)
  <2>1. CASE CreateRow(r) \/ ReuseCopy(r)
    BY <2>1 DEF CreateRow, ReuseCopy, Uploaded, Go, Done, At, TypeOK
  <2> QED
    BY <2>1 DEF Request, Arrive, Abort, Leave, End, Done, Go, FindNoCopy,
       PutBytes, LinkReport, AssertOwned, SaveInstructions, RemovePhase, FindAsset,
       CountLinks, DeleteRow, DeleteBytes, OpenBytes, At, TypeOK
<1>3. ReuseCopy(r) => ~got'[r].own
  <2>1. ASSUME NEW m \in Media PROVE ~[Nothing EXCEPT !.asset = m].own
    BY NothingType, TakeAsset
  <2> QED
    BY <2>1, NothingType DEF ReuseCopy, Copies, Live, TypeOK
<1> QED
  BY <1>1, <1>2, <1>3 DEF PcInv

-----------------------------------------------------------------------------
(* Bytes and rows.                                                         *)
LEMMA BytesKept ==
  ASSUME TypeOK, \A r \in Requests : PcInv(r), BytesInv, [Next]_vars, NEW m \in bytes,
         row[m] # "gone"
  PROVE  m \in bytes'
<1> USE DEF tables, links
<1>1. ASSUME NEW r \in Requests, DeleteBytes(r) PROVE m \in bytes'
  BY <1>1 DEF DeleteBytes, BytesInv
<1>2. ASSUME NEW s \in Servers, PruneBytes(s) PROVE m \in bytes'
  BY <1>2 DEF PruneBytes, BytesInv
<1>3. ASSUME NEW r \in Requests, Request(r), ~DeleteBytes(r) PROVE m \in bytes'
  BY <1>3 DEF Request, Arrive, Abort, Leave, ReuseCopy, FindNoCopy, PutBytes,
     CreateRow, LinkReport, AssertOwned, SaveInstructions, RemovePhase, FindAsset,
     CountLinks, DeleteRow, OpenBytes
<1>4. ASSUME NEW s \in Servers, Prune(s) \/ PruneDies(s), ~PruneBytes(s) PROVE m \in bytes'
  BY <1>4 DEF Prune, PruneDies, ListOrphans, PruneRow, PruneStops
<1>5. ASSUME NEW n \in Media, Age(n) PROVE m \in bytes'
  BY <1>5 DEF Age
<1>6. CASE UNCHANGED vars
  BY <1>6 DEF vars
<1> QED
  BY <1>1, <1>2, <1>3, <1>4, <1>5, <1>6 DEF Next

(* What is gone stays gone.                                                *)
LEMMA GoneStays ==
  ASSUME TypeOK, \A r \in Requests : PcInv(r), BytesInv, [Next]_vars, NEW m \in Media,
         row[m] = "gone"
  PROVE  row'[m] = "gone"
<1>1. ASSUME NEW r \in Requests, CreateRow(r) PROVE got[r].asset # m
  BY <1>1 DEF CreateRow, BytesInv
<1> QED
  BY <1>1, RowsChange

LEMMA BytesStep ==
  TypeOK /\ (\A r \in Requests : PcInv(r)) /\ BytesInv /\ [Next]_vars => BytesInv'
<1> SUFFICES ASSUME TypeOK, \A r \in Requests : PcInv(r), BytesInv, [Next]_vars
             PROVE  BytesInv'
  OBVIOUS
<1> USE DEF tables, links
<1>1. Live' \subseteq bytes'
  <2> SUFFICES ASSUME NEW m \in Media, row'[m] = "live" PROVE m \in bytes'
    BY DEF Live
  <2>1. CASE row[m] = "live"
    BY <2>1, BytesKept DEF BytesInv, Live
  <2>2. ASSUME NEW r \in Requests, CreateRow(r), got[r].asset = m PROVE m \in bytes'
    BY <2>2 DEF CreateRow, BytesInv
  <2> QED
    BY <2>1, <2>2, RowsChange
<1>2. ASSUME NEW r \in Requests, pc'[r] = "create"
      PROVE  /\ got'[r].asset \in bytes' /\ row'[got'[r].asset] = "absent"
             /\ \A q \in Requests \ {r} : pc[q] = "create" => got[q].asset # got'[r].asset
  <2>1. CASE pc[r] = "create" /\ got'[r].asset = got[r].asset
    <3> DEFINE m == got[r].asset
    <3>1. m \in Media /\ m \in bytes /\ row[m] = "absent"
      BY <2>1 DEF PcInv, BytesInv
    <3>2. ASSUME NEW q \in Requests, CreateRow(q), got[q].asset = m PROVE FALSE
      <4>1. pc'[q] # "create" /\ pc[q] = "create"
        BY <3>2, UploadedTypes DEF CreateRow
      <4> QED
        BY <1>2, <2>1, <3>2, <4>1 DEF BytesInv
    <3>3. row'[m] = "absent"
      BY <3>1, <3>2, RowsChange
    <3>4. m \in bytes'
      BY <3>1, BytesKept
    <3> QED
      BY <2>1, <3>3, <3>4 DEF BytesInv
  <2>2. CASE PutBytes(r)
    <3>1. PICK m \in Media \ bytes :
            /\ row[m] = "absent" /\ bytes' = bytes \union {m}
            /\ got' = [got EXCEPT ![r].asset = m]
      BY <2>2 DEF PutBytes
    <3>2. got'[r].asset = m
      BY <3>1, TakeAsset DEF TypeOK
    <3>3. UNCHANGED row
      BY <2>2 DEF PutBytes
    <3> QED
      BY <3>1, <3>2, <3>3 DEF BytesInv
  <2> QED
    BY <1>2, <2>1, <2>2, Reached, Entered
<1>3. ASSUME NEW q \in Requests, NEW r \in Requests, q # r,
             pc'[q] = "create", pc'[r] = "create"
      PROVE  got'[q].asset # got'[r].asset
  <2>1. \/ pc[q] = "create" /\ got'[q].asset = got[q].asset
        \/ pc[r] = "create" /\ got'[r].asset = got[r].asset
    <3>1. CASE Request(q)
      BY <1>3, <3>1, Entered, OthersKeep, Reached DEF PutBytes
    <3> QED
      BY <1>3, <3>1, Reached
  <2> QED
    BY <1>2, <1>3, <2>1
<1>4. ASSUME NEW r \in Requests, pc'[r] = "bytes" PROVE row'[got'[r].asset] = "gone"
  <2>1. CASE pc[r] = "bytes" /\ got'[r].asset = got[r].asset
    BY <2>1, GoneStays DEF BytesInv, PcInv
  <2>2. CASE DeleteRow(r)
    BY <2>2 DEF DeleteRow, Live, TypeOK
  <2> QED
    BY <1>4, <2>1, <2>2, Reached, Entered
<1>5. ASSUME NEW s \in Servers, night'[s].half # None PROVE row'[night'[s].half] = "gone"
  <2>1. CASE night'[s].half = night[s].half
    <3>1. night[s].half \in Media /\ row[night[s].half] = "gone"
      BY <1>5, <2>1 DEF BytesInv, TypeOK
    <3> QED
      BY <2>1, <3>1, GoneStays
  <2>2. ASSUME NEW m \in Media, PruneRow(s, m) PROVE row'[night'[s].half] = "gone"
    BY <2>2 DEF PruneRow, TypeOK
  <2>3. ASSUME NEW t \in Servers, Prune(t) \/ PruneDies(t), ~\E m \in Media : PruneRow(s, m)
        PROVE  night'[s].half \in {night[s].half, None}
    BY <2>3 DEF Prune, PruneDies, ListOrphans, PruneRow, PruneStops, PruneBytes,
       Asleep, TypeOK
  <2>4. ASSUME NEW r \in Requests, Request(r) PROVE UNCHANGED night
    BY <2>4 DEF Request, Arrive, Abort, Leave, ReuseCopy, FindNoCopy, PutBytes,
       CreateRow, LinkReport, AssertOwned, SaveInstructions, RemovePhase, FindAsset,
       CountLinks, DeleteRow, DeleteBytes, OpenBytes
  <2>5. ASSUME NEW m \in Media, Age(m) PROVE UNCHANGED night
    BY <2>5 DEF Age
  <2>6. CASE UNCHANGED vars
    BY <2>1, <2>6 DEF vars
  <2> QED
    BY <1>5, <2>1, <2>2, <2>3, <2>4, <2>5, <2>6 DEF Next
<1> QED
  BY <1>1, <1>2, <1>3, <1>4, <1>5 DEF BytesInv

-----------------------------------------------------------------------------
(* The night and the files it is after.                                    *)
LEMMA NightStep ==
  /\ TypeOK /\ (\A r \in Requests : PcInv(r)) /\ BytesInv /\ NightInv
  /\ [Next]_vars
  => NightInv'
<1> SUFFICES ASSUME TypeOK, \A r \in Requests : PcInv(r), BytesInv, NightInv, [Next]_vars
             PROVE  NightInv'
  OBVIOUS
<1> USE DEF tables, links
<1>1. old' = old \/ \E m \in Media : Age(m)
  <2>1. ASSUME NEW r \in Requests, Request(r) PROVE UNCHANGED old
    BY <2>1 DEF Request, Arrive, Abort, Leave, ReuseCopy, FindNoCopy, PutBytes,
       CreateRow, LinkReport, AssertOwned, SaveInstructions, RemovePhase, FindAsset,
       CountLinks, DeleteRow, DeleteBytes, OpenBytes
  <2>2. ASSUME NEW s \in Servers, Prune(s) \/ PruneDies(s) PROVE UNCHANGED old
    BY <2>2 DEF Prune, PruneDies, ListOrphans, PruneRow, PruneStops, PruneBytes
  <2> QED
    BY <2>1, <2>2 DEF Next, vars
<1>2. old \subseteq old'
  BY <1>1 DEF Age
<1>3. \A m \in old' : row'[m] # "absent"
  <2> SUFFICES ASSUME NEW m \in old' PROVE row'[m] # "absent"
    OBVIOUS
  <2>1. m \in Media /\ row[m] # "absent"
    BY <1>1 DEF Age, Live, NightInv, TypeOK
  <2> QED
    BY <2>1, RowsChange
<1>4. ASSUME NEW s \in Servers
      PROVE  night'[s].todo \subseteq old' /\ night'[s].half \in old' \union {None}
  <2>1. ASSUME NEW t \in Servers, Prune(t) \/ PruneDies(t)
        PROVE  night'[s].todo \subseteq old /\ night'[s].half \in old \union {None}
    <3>1. ASSUME ListOrphans(t)
          PROVE  night'[s].todo \subseteq old /\ night'[s].half \in old \union {None}
      BY <3>1 DEF ListOrphans, Orphans, Asleep, NightInv, TypeOK
    <3>2. ASSUME NEW m \in Media, PruneRow(t, m)
          PROVE  night'[s].todo \subseteq old /\ night'[s].half \in old \union {None}
      BY <3>2 DEF PruneRow, NightInv, TypeOK
    <3>3. ASSUME (\E m \in Media : PruneStops(t, m)) \/ PruneBytes(t) \/ PruneDies(t)
          PROVE  night'[s].todo \subseteq old /\ night'[s].half \in old \union {None}
      BY <3>3 DEF PruneStops, PruneBytes, PruneDies, Asleep, NightInv, TypeOK
    <3> QED
      BY <2>1, <3>1, <3>2, <3>3 DEF Prune
  <2>2. ASSUME NEW r \in Requests, Request(r) PROVE UNCHANGED night
    BY <2>2 DEF Request, Arrive, Abort, Leave, ReuseCopy, FindNoCopy, PutBytes,
       CreateRow, LinkReport, AssertOwned, SaveInstructions, RemovePhase, FindAsset,
       CountLinks, DeleteRow, DeleteBytes, OpenBytes
  <2>3. ASSUME NEW m \in Media, Age(m) PROVE UNCHANGED night
    BY <2>3 DEF Age
  <2>4. CASE UNCHANGED night
    BY <1>2, <2>4 DEF NightInv
  <2> QED
    BY <1>2, <2>1, <2>2, <2>3, <2>4 DEF Next, vars
<1>5. ASSUME NEW r \in Requests, got'[r].own PROVE got'[r].asset \notin old'
  <2>1. CASE got[r].own /\ got'[r].asset = got[r].asset
    <3>1. ASSUME NEW m \in Media, Age(m) PROVE old' = old \union {m} /\ got[r].asset # m
      BY <2>1, <3>1 DEF Age
    <3> QED
      BY <1>1, <2>1, <3>1 DEF NightInv
  <2>2. CASE CreateRow(r)
    <3>1. got'[r] = IF job[r].op = "report" THEN [got[r] EXCEPT !.own = TRUE] ELSE Nothing
      BY <2>2 DEF CreateRow, TypeOK
    <3>2. got'[r].asset = got[r].asset
      BY <1>5, <3>1, NothingType, TakeOwn DEF TypeOK
    <3>3. row[got[r].asset] = "absent" /\ old' = old
      BY <2>2 DEF CreateRow, BytesInv
    <3> QED
      BY <3>2, <3>3 DEF NightInv
  <2> QED
    BY <1>5, <2>1, <2>2, Reached, Entered
<1> QED
  BY <1>3, <1>4, <1>5 DEF NightInv

-----------------------------------------------------------------------------
(* Copies.                                                                 *)
LEMMA CopyStep ==
  TypeOK /\ (\A r \in Requests : PcInv(r)) /\ CopyInv /\ [Next]_vars => CopyInv'
<1> SUFFICES ASSUME TypeOK, \A r \in Requests : PcInv(r), CopyInv, [Next]_vars,
                    NEW r \in Requests, pc'[r] \in {"put", "create"}, ~got'[r].late,
                    NEW m \in Media, row'[m] = "live", file'[m] = job'[r].of
             PROVE  FALSE
  BY DEF CopyInv, Copies, Live
<1>1. CASE /\ pc'[r] = pc[r] /\ job'[r] = job[r]
           /\ got[r].late => got'[r].late
  <2>1. ~(row[m] = "live" /\ file[m] = job[r].of)
    BY <1>1 DEF CopyInv, Copies, Live
  <2>2. PICK q \in Requests :
          CreateRow(q) /\ got[q].asset = m /\ file'[m] = job[q].of
    BY <1>1, <2>1, RowsChange
  <2>3. q # r
    BY <1>1, <2>2, UploadedTypes DEF CreateRow
  <2>4. got'[r] = [got[r] EXCEPT !.late = TRUE]
    BY <1>1, <2>2, <2>3 DEF CreateRow, TypeOK
  <2> QED
    BY <2>4, TurnLate DEF TypeOK
<1>2. CASE FindNoCopy(r)
  BY <1>2 DEF FindNoCopy, Go, Copies, Live, tables
<1>3. CASE PutBytes(r)
  <2>1. pc[r] = "put" /\ job' = job /\ row' = row /\ file' = file
    BY <1>3 DEF PutBytes, Go
  <2>2. \E n \in Media : got'[r] = [got[r] EXCEPT !.asset = n]
    BY <1>3 DEF PutBytes, TypeOK
  <2>3. ~got[r].late
    BY <2>2, TakeAsset DEF TypeOK
  <2> QED
    BY <2>1, <2>3 DEF CopyInv, Copies, Live
<1> QED
  BY <1>1, <1>2, <1>3, Reached, Entered

LEMMA StoredStep ==
  TypeOK /\ (\A r \in Requests : PcInv(r)) /\ CopyInv /\ StoredOnce /\ [Next]_vars
  => StoredOnce'
<1> SUFFICES ASSUME TypeOK, \A r \in Requests : PcInv(r), CopyInv, StoredOnce, [Next]_vars,
                    NEW m \in Media, NEW n \in Media, m # n,
                    row'[m] = "live", row'[n] = "live", file'[m] = file'[n]
             PROVE  m \in twins' \/ n \in twins'
  BY DEF StoredOnce, Live
<1> USE DEF tables, links
<1>1. twins \subseteq twins'
  BY DEF Next, Request, Arrive, Abort, Leave, ReuseCopy, FindNoCopy, PutBytes,
     CreateRow, LinkReport, AssertOwned, SaveInstructions, RemovePhase, FindAsset,
     CountLinks, DeleteRow, DeleteBytes, OpenBytes, Age, Prune, PruneDies,
     ListOrphans, PruneRow, PruneStops, PruneBytes, vars
<1>2. ASSUME NEW r \in Requests, CreateRow(r), NEW x \in Media, NEW y \in Media, x # y,
             got[r].asset = x, row'[y] = "live", file'[x] = file'[y]
      PROVE  x \in twins'
  <2>1. pc[r] = "create" /\ job[r].of = file'[x]
    BY <1>2 DEF CreateRow, TypeOK
  <2>2. row[y] = "live" /\ file[y] = file'[x]
    BY <1>2 DEF CreateRow, TypeOK
  <2>3. got[r].late
    BY <2>1, <2>2 DEF CopyInv, Copies, Live
  <2> QED
    BY <1>2, <2>3 DEF CreateRow
<1>3. CASE \E r \in Requests : CreateRow(r) /\ got[r].asset \in {m, n}
  BY <1>2, <1>3
<1>4. CASE ~\E r \in Requests : CreateRow(r) /\ got[r].asset \in {m, n}
  <2>1. row[m] = "live" /\ file[m] = file'[m] /\ row[n] = "live" /\ file[n] = file'[n]
    BY <1>4, RowsChange
  <2> QED
    BY <1>1, <2>1 DEF StoredOnce, Live
<1> QED
  BY <1>3, <1>4

-----------------------------------------------------------------------------
(* Links.                                                                  *)
LEMMA ShownChange ==
  ASSUME TypeOK, [Next]_vars, NEW m \in Shown', m \notin Shown
  PROVE  \E q \in Requests : SaveInstructions(q) /\ m \in job[q].with
<1> USE DEF tables, links
<1>1. PICK p \in Phases : phase'[p] = "live" /\ m \in shows'[p]
  BY DEF Shown
<1>2. ASSUME NEW q \in Requests, SaveInstructions(q) PROVE m \in job[q].with
  BY <1>1, <1>2 DEF SaveInstructions, Shown, TypeOK
<1>3. ASSUME NEW q \in Requests, RemovePhase(q) PROVE FALSE
  BY <1>1, <1>3 DEF RemovePhase, Shown, TypeOK
<1>4. ASSUME NEW q \in Requests, DeleteRow(q) PROVE FALSE
  BY <1>1, <1>4 DEF DeleteRow, Shown, TypeOK
<1>5. CASE UNCHANGED <<shows, phase>>
  BY <1>1, <1>5 DEF Shown
<1>6. ASSUME NEW q \in Requests, Request(q),
             ~SaveInstructions(q), ~RemovePhase(q), ~DeleteRow(q)
      PROVE  UNCHANGED <<shows, phase>>
  BY <1>6 DEF Request, Arrive, Abort, Leave, ReuseCopy, FindNoCopy, PutBytes,
     CreateRow, LinkReport, AssertOwned, FindAsset, CountLinks, DeleteBytes, OpenBytes
<1>7. ASSUME NEW s \in Servers, Prune(s) \/ PruneDies(s) PROVE UNCHANGED <<shows, phase>>
  BY <1>7 DEF Prune, PruneDies, ListOrphans, PruneRow, PruneStops, PruneBytes
<1>8. ASSUME NEW n \in Media, Age(n) PROVE UNCHANGED <<shows, phase>>
  BY <1>8 DEF Age
<1> QED
  BY <1>2, <1>3, <1>4, <1>5, <1>6, <1>7, <1>8 DEF Next, vars

LEMMA CountStep ==
  TypeOK /\ (\A r \in Requests : PcInv(r)) /\ CountInv /\ [Next]_vars => CountInv'
<1> SUFFICES ASSUME TypeOK, \A r \in Requests : PcInv(r), CountInv, [Next]_vars,
                    NEW r \in Requests, pc'[r] = "delete", ~got'[r].late
             PROVE  got'[r].asset \notin Shown'
  BY DEF CountInv
<1>1. CASE /\ pc'[r] = pc[r] /\ got'[r].asset = got[r].asset
           /\ got[r].late => got'[r].late
  <2> SUFFICES ASSUME got[r].asset \in Shown' PROVE FALSE
    BY <1>1
  <2>1. got[r].asset \notin Shown
    BY <1>1 DEF CountInv
  <2>2. PICK q \in Requests : SaveInstructions(q) /\ got[r].asset \in job[q].with
    BY <2>1, ShownChange
  <2>3. q # r /\ At(r, "delete", {"remove"})
    BY <1>1, <2>2 DEF SaveInstructions, At, PcInv
  <2>4. got'[r] = [got[r] EXCEPT !.late = TRUE]
    BY <2>2, <2>3 DEF SaveInstructions, TypeOK
  <2> QED
    BY <2>4, TurnLate DEF TypeOK
<1>2. CASE CountLinks(r)
  BY <1>2 DEF CountLinks, Shown, tables, links
<1> QED
  BY <1>1, <1>2, Reached, Entered

(* A link goes by an edit of its phase, or with the file.                  *)
LEMMA LinkStep ==
  ASSUME TypeOK, \A r \in Requests : PcInv(r), CountInv, [Next]_vars,
         NEW p \in Phases, NEW m \in shows[p], m \notin shows'[p]
  PROVE  \/ phase[p] = "deleted"
         \/ \E r \in Requests : At(r, "write", {"edit"}) /\ job[r].of = p
         \/ \E r \in Requests : At(r, "delete", {"remove"}) /\ got[r].asset = m
                                /\ got[r].late
<1> USE DEF tables, links
<1>1. ASSUME NEW r \in Requests, SaveInstructions(r)
      PROVE  At(r, "write", {"edit"}) /\ job[r].of = p
  BY <1>1 DEF SaveInstructions, TypeOK
<1>2. ASSUME NEW r \in Requests, DeleteRow(r), phase[p] # "deleted"
      PROVE  At(r, "delete", {"remove"}) /\ got[r].asset = m /\ got[r].late
  <2>1. got[r].asset = m
    BY <1>2 DEF DeleteRow, TypeOK
  <2>2. m \in Shown
    BY <1>2 DEF Shown, TypeOK
  <2> QED
    BY <1>2, <2>1, <2>2 DEF DeleteRow, PcInv, CountInv, At
<1>3. ASSUME NEW r \in Requests, Request(r), ~SaveInstructions(r), ~DeleteRow(r)
      PROVE  UNCHANGED shows
  BY <1>3 DEF Request, Arrive, Abort, Leave, ReuseCopy, FindNoCopy, PutBytes,
     CreateRow, LinkReport, AssertOwned, RemovePhase, FindAsset, CountLinks,
     DeleteBytes, OpenBytes
<1>4. ASSUME NEW s \in Servers, Prune(s) \/ PruneDies(s) PROVE UNCHANGED shows
  BY <1>4 DEF Prune, PruneDies, ListOrphans, PruneRow, PruneStops, PruneBytes
<1>5. ASSUME NEW n \in Media, Age(n) PROVE UNCHANGED shows
  BY <1>5 DEF Age
<1> QED
  BY <1>1, <1>2, <1>3, <1>4, <1>5 DEF Next, vars

-----------------------------------------------------------------------------
(* Reads.                                                                  *)
LEMMA SendsStep ==
  TypeOK /\ (\A r \in Requests : PcInv(r)) /\ SendsWhatWasAsked /\ [Next]_vars
  => SendsWhatWasAsked'
<1> SUFFICES ASSUME TypeOK, \A r \in Requests : PcInv(r), SendsWhatWasAsked, [Next]_vars,
                    NEW r \in Requests, got'[r].sent # {}
             PROVE  LET h == got'[r].header
                        named == h.from # None /\ (h.to = None \/ h.from <= h.to)
                    IN got'[r].sent = {i \in Position :
                         named => h.from <= i /\ (h.to = None \/ i <= h.to)}
  BY DEF SendsWhatWasAsked
<1>1. CASE got'[r].header = got[r].header /\ got'[r].sent = got[r].sent
  BY <1>1 DEF SendsWhatWasAsked
<1>2. CASE OpenBytes(r)
  <2>1. PICK h \in Headers :
          got'[r] = [Nothing EXCEPT !.header = h, !.sent = ReadPart(ParseRange(h))]
    BY <1>2 DEF OpenBytes, TypeOK
  <2>2. got'[r].header = h /\ got'[r].sent = ReadPart(ParseRange(h))
    BY <2>1, TakePart
  <2> QED
    BY <2>2, PartIsNamed
<1>3. ASSUME Request(r), ~OpenBytes(r)
      PROVE  \/ got'[r].sent = {}
             \/ got'[r].header = got[r].header /\ got'[r].sent = got[r].sent
  <2>1. got[r] \in Hands
    BY DEF TypeOK
  <2>2. CASE got'[r] = Nothing \/ got'[r] = got[r]
    BY <2>2, NothingType
  <2>3. ASSUME NEW m \in Media,
               \/ got'[r] = [got[r] EXCEPT !.asset = m]
               \/ got'[r] = [Nothing EXCEPT !.asset = m]
        PROVE  \/ got'[r].sent = {}
               \/ got'[r].header = got[r].header /\ got'[r].sent = got[r].sent
    <3>1. CASE got'[r] = [got[r] EXCEPT !.asset = m]
      BY <2>1, <3>1, TakeAsset
    <3>2. CASE got'[r] = [Nothing EXCEPT !.asset = m]
      BY <3>2, NothingType, TakeAsset
    <3> QED
      BY <2>3, <3>1, <3>2
  <2>4. CASE got'[r] = [got[r] EXCEPT !.own = TRUE]
    BY <2>1, <2>4, TakeOwn
  <2>5. \/ got'[r] = Nothing \/ got'[r] = got[r] \/ got'[r] = [got[r] EXCEPT !.own = TRUE]
        \/ \E m \in Media : \/ got'[r] = [got[r] EXCEPT !.asset = m]
                            \/ got'[r] = [Nothing EXCEPT !.asset = m]
    <3>1. CASE CreateRow(r)
      BY <3>1 DEF CreateRow, TypeOK
    <3>2. CASE ReuseCopy(r)
      BY <3>2 DEF ReuseCopy, Copies, Live, TypeOK
    <3>3. CASE PutBytes(r) \/ FindAsset(r)
      BY <3>3 DEF PutBytes, FindAsset, Live, TypeOK
    <3>4. CASE SaveInstructions(r)
      BY <3>4 DEF SaveInstructions, TypeOK
    <3>5. CASE FindNoCopy(r) \/ AssertOwned(r) \/ CountLinks(r) \/ DeleteRow(r)
      BY <3>5 DEF FindNoCopy, AssertOwned, CountLinks, DeleteRow
    <3>6. CASE End(r) \/ \E j \in Jobs : Arrive(r, j)
      BY <3>6 DEF End, Arrive, TypeOK
    <3> QED
      BY <1>3, <3>1, <3>2, <3>3, <3>4, <3>5, <3>6
         DEF Request, Abort, Leave, LinkReport, RemovePhase, DeleteBytes
  <2> QED
    BY <2>2, <2>3, <2>4, <2>5
<1> QED
  BY <1>1, <1>2, <1>3, Reached

-----------------------------------------------------------------------------
LEMMA Start == Init => IInv
<1> SUFFICES ASSUME Init PROVE IInv
  OBVIOUS
<1>1. TypeOK
  <2>1. \A m \in Media : row[m] = "absent" <=> file[m] = None
    BY DEF Init
  <2>2. got \in [Requests -> Hands]
    BY NothingType DEF Init
  <2>3. Asleep \in [todo : SUBSET Media, half : Media \union {None}]
    BY DEF Asleep
  <2> QED
    BY <2>1, <2>2, <2>3 DEF Init, TypeOK, NoJob
<1>2. ASSUME NEW r \in Requests PROVE PcInv(r)
  BY NothingType DEF Init, PcInv
<1>3. BytesInv
  BY DEF Init, BytesInv, Live, Asleep
<1>4. NightInv
  BY NothingType DEF Init, NightInv, Asleep
<1>5. CopyInv /\ CountInv
  BY DEF Init, CopyInv, CountInv
<1>6. StoredOnce
  BY DEF Init, StoredOnce, Live
<1>7. SendsWhatWasAsked
  BY NothingType DEF Init, SendsWhatWasAsked
<1> QED
  BY <1>1, <1>2, <1>3, <1>4, <1>5, <1>6, <1>7 DEF IInv

LEMMA Invariance == Spec => []IInv
<1>1. IInv /\ [Next]_vars => IInv'
  BY TypeStep, PcStep, BytesStep, NightStep, CopyStep, StoredStep, CountStep, SendsStep
     DEF IInv
<1> QED
  BY Start, <1>1, PTL DEF Spec

(* Every variable stays in its type.                                       *)
THEOREM TypeCorrect == Spec => []TypeOK
<1>1. IInv => TypeOK
  BY DEF IInv
<1> QED
  BY Invariance, <1>1, PTL

(* Uploads, removals and nights, interrupted anywhere, never leave a row   *)
(* whose bytes are missing (media.service.ts:175).                         *)
THEOREM RowsHaveBytes == Spec => []RowHasBytes
<1>1. IInv => RowHasBytes
  BY DEF IInv, BytesInv, RowHasBytes
<1> QED
  BY Invariance, <1>1, PTL

(* Equal files are stored once, but for uploads that overlapped            *)
(* (media.service.ts:46).                                                  *)
THEOREM CopiesOverlapped == Spec => []StoredOnce
<1>1. IInv => StoredOnce
  BY DEF IInv
<1> QED
  BY Invariance, <1>1, PTL

(* The nightly job never has its eye on a file that a report brought and   *)
(* is about to link (media.service.ts:207).                                *)
THEOREM NightSparesReports == Spec => []ReportFindsItsFile
<1>1. IInv => ReportFindsItsFile
  <2> SUFFICES ASSUME IInv, NEW r \in Requests, pc[r] = "link", got[r].own, NEW s \in Servers
               PROVE  got[r].asset \notin night[s].todo \union {night[s].half}
    BY DEF ReportFindsItsFile
  <2>1. got[r].asset \in Media \ old
    BY DEF IInv, NightInv, PcInv
  <2> QED
    BY <2>1, NoneNotMedia DEF IInv, NightInv
<1> QED
  BY Invariance, <1>1, PTL

(* A phase on show loses a link only to an edit of its own, or to a        *)
(* removal that counted before the link was made (media.service.ts:142).   *)
THEOREM LinksAreKept == Spec => LosesOnlyUnseenLinks
<1>1. IInv /\ [Next]_vars =>
        [\A p \in Phases : \A m \in shows[p] \ shows'[p] :
           \/ phase[p] = "deleted"
           \/ \E r \in Requests : At(r, "write", {"edit"}) /\ job[r].of = p
           \/ \E r \in Requests : At(r, "delete", {"remove"}) /\ got[r].asset = m
                                  /\ got[r].late]_vars
  BY LinkStep DEF IInv
<1> QED
  BY Invariance, <1>1, PTL DEF Spec, LosesOnlyUnseenLinks

(* A ranged read answers with exactly the bytes its header names, and the  *)
(* whole file for any other header (local.storage.ts:58).                  *)
THEOREM ReadsAreExact == Spec => []SendsWhatWasAsked
<1>1. IInv => SendsWhatWasAsked
  BY DEF IInv
<1> QED
  BY Invariance, <1>1, PTL
=============================================================================
