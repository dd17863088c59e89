-------------------------- MODULE WorkerFeedProofs --------------------------
(***************************************************************************)
(* Theorems about Paging, for any rows, and about WorkerFeed, for any      *)
(* workers, foremen, events and number of requests in flight: its type,    *)
(* what stays unread, what the time of reading is, what a shift may        *)
(* become, what a retry adds and what a walk over pages shows.             *)
(***************************************************************************)
EXTENDS WorkerFeed, SequenceFacts

(* The types of what the theorems are about.                               *)
Pcs == {"idle", "check", "look", "write", "page", "fetch", "end"}

Notices == [id : Events, at : Nat, read : Nat \union {None}]

FeedType ==
  /\ now \in Nat
  /\ staff \in [Workers -> [name : Names, start : Hours, end : Hours,
                            is : {"none", "live", "removed"}]]
  /\ events \in SUBSET Events
  /\ feed \in [Foremen -> SUBSET Notices]
  /\ opened \in [Foremen -> SUBSET Events]
  /\ pc \in [Requests -> Pcs]
  /\ DOMAIN job = Requests
  /\ \A u \in Foremen :
       /\ \A n \in feed[u] : n.id \in events
       /\ \A n, m \in feed[u] : n.id = m.id => n = m

(* A request is for someone of its kind.                                   *)
JobInv ==
  \A r \in Requests : pc[r] # "idle" =>
    /\ job[r].op \in {"create", "patch", "remove"} => job[r].who \in Workers
    /\ job[r].op \in {"mark", "unmark", "all"} => job[r].who \in Foremen
    /\ job[r].op = "create" => job[r].arg \in Names
    /\ job[r].op = "patch" => job[r].arg \in Patches

(* What a request that writes has found still holds, or it is late.        *)
MarkInv ==
  \A r \in Requests \ late : Op(r, "mark", "write") =>
    \A n \in feed[job[r].who] : n.id = job[r].arg => n.read = None

PatchInv ==
  \A r \in Requests \ late : Op(r, "patch", "write") =>
    Merged(job[r].who, job[r].arg).start # Merged(job[r].who, job[r].arg).end

ReadInv == FeedType /\ JobInv /\ MarkInv /\ PatchInv /\ StaysUntilRead /\ ShiftHasLength

(* What of a row orders it.                                                *)
Cell == [key : Nat, id : Nat]

(* The pairs of which the second row is past the first.                    *)
Behind(descending) == {v \in Cell \X Cell : Past(v[1], v[2], descending)}

(* The kinds of request, and the statements of those that walk a list.     *)
Ops == DOMAIN Tables

Listing == {"page", "fetch", "end"}

(* What is known of each request, and who may be late.                     *)
Books ==
  /\ pc \in [Requests -> Pcs]
  /\ DOMAIN job = Requests
  /\ DOMAIN fresh = Requests
  /\ page \in [Requests -> [cursor : Cell \union {None}, seen : Seq(Cell)]]
  /\ \A r \in Requests : r \in late => pc[r] = "write"

(* A request goes through the statements of its kind, for someone of its   *)
(* kind; an arrival goes on only for a worker of the project.              *)
Asked(j, s) ==
  /\ j.op \in Ops
  /\ j.op \in {"walk", "latest"} <=> s \in Listing
  /\ s = "fetch" => j.op = "latest"
  /\ s = "check" => j.op \in {"arrive", "batch", "stream"}
  /\ j.op = "arrive" =>
       j.who \in Workers /\ j.arg \in Times /\ (s \in {"look", "write"} => j.who \in OnSite)
  /\ j.op = "batch" => j.who \in OnSite /\ j.arg \in Batches
  /\ j.op = "stream" => j.who \in OnSite /\ j.arg \in Times
  /\ j.op = "walk" => j.who \in Foremen /\ j.arg \in {"unread", "staff"}
  /\ j.op = "latest" => j.who \in Foremen /\ j.arg = None

(* What a request carries from one statement to the next: fresh samples of *)
(* a batch that is about to store them, pages of a walk.                   *)
Course(r) ==
  /\ IF pc[r] = "idle" THEN job[r] = NoJob ELSE Asked(job[r], pc[r])
  /\ IF pc[r] = "write" /\ job[r].op = "batch"
     THEN fresh[r] \in Seq(Times) /\ fresh[r] # <<>> /\ Distinct(fresh[r])
     ELSE fresh[r] = <<>>
  /\ pc[r] \notin Listing => page[r] = NoWalk

BookInv == Books /\ \A r \in Requests : Course(r)

(* No sample is from the future, nor anything in a feed.                   *)
SampleType == samples \in [Workers -> [Times -> Seq(0..now)]]

SoFar ==
  \A u \in Foremen : \A n \in feed[u] :
    n.at \in 0..now /\ (n.read = None \/ n.read \in 0..now)

(* The bounds of the clock and of history, and what arrivals are of.       *)
Served == served \in 0..MaxRequests

Bounds ==
  /\ now <= MaxTime
  /\ arrivals \in SUBSET [id : events, who : OnSite, at : Times]
  /\ opened \in [Foremen -> SUBSET events]
  /\ crossed \in SUBSET Workers

(* What a request that stores has found missing is missing still, or it is *)
(* late.                                                                   *)
BatchInv ==
  \A r \in Requests \ late : Op(r, "batch", "write") =>
    \A t \in ToSet(fresh[r]) : t \in Times /\ samples[job[r].who][t] = <<>>

ArriveInv ==
  \A r \in Requests \ late : Op(r, "arrive", "write") =>
    \A a \in arrivals : a.who = job[r].who => ~Near(a.at, job[r].arg)

(* What a walk over pages has shown, and what it still has to show: all    *)
(* that is shown is in order and no further than the cursor, each steady   *)
(* row is shown or past the cursor, and nothing is shown that has been     *)
(* replaced.                                                               *)
WalkOf(r) ==
  LET d == job[r].arg = "unread"
      c == page[r].cursor
      seen == page[r].seen
  IN  /\ InOrderOf(seen, Behind(d))
      /\ pc[r] = "page" => IF c = None THEN seen = <<>>
                           ELSE \A n \in ToSet(seen) : n = c \/ Past(n, c, d)
      /\ \A row \in steady[r] :
           /\ \/ row \in ToSet(seen)
              \/ pc[r] = "page" /\ (c = None \/ Past(c, row, d))
           /\ \A n \in ToSet(seen) : n.id = row.id => n = row

(* Of each worker of whom a sample has been there all along, the map has   *)
(* one that is as new, and finds it again.                                 *)
MapOf(r) ==
  LET seen == page[r].seen IN
  pc[r] \in {"fetch", "end"} =>
    /\ Distinct(seen)
    /\ \A n, m \in ToSet(seen) : n.id = m.id => n = m
    /\ \A row \in steady[r] : \E n \in ToSet(seen) :
         n.id = row.id /\ n.key >= row.key /\ (pc[r] = "fetch" => n \in Rows(job[r]))

(* All this of the requests that walk lists.                               *)
ListInv ==
  \A r \in Requests : job[r].op \in {"walk", "latest"} =>
    /\ steady[r] \subseteq Rows(job[r])
    /\ IF job[r].op = "walk" THEN WalkOf(r) ELSE MapOf(r)

DayInv ==
  SoFar /\ SampleType /\ BookInv /\ Served /\ Bounds /\ BatchInv /\ ArriveInv /\ ListInv

IInv == ReadInv /\ DayInv

-----------------------------------------------------------------------------
(* Two different rows are past one another one way, never both, and being  *)
(* past goes on: the order is total and strict.                            *)
LEMMA PastIs ==
  ASSUME NEW a \in Cell, NEW b \in Cell, NEW d \in BOOLEAN
  PROVE  /\ <<a, b>> \in Behind(d) <=> Past(a, b, d)
         /\ a = b \/ Past(a, b, d) \/ Past(b, a, d)
         /\ ~Past(a, a, d)
<1>1. <<a, b>> \in Behind(d) <=> Past(a, b, d)
  BY DEF Behind
<1>2. /\ a.key \in Int /\ a.id \in Int /\ b.key \in Int /\ b.id \in Int
      /\ a = b <=> a.key = b.key /\ a.id = b.id
  BY DEF Cell
<1>3. /\ a = b \/ Past(a, b, d) \/ Past(b, a, d)
      /\ ~Past(a, a, d)
  BY <1>2 DEF Past
<1> QED
  BY <1>1, <1>3

(* No row is past another that is past it.                                 *)
LEMMA PastOnce ==
  ASSUME NEW a \in Cell, NEW b \in Cell, NEW d \in BOOLEAN, Past(a, b, d)
  PROVE  ~Past(b, a, d)
<1>1. {a.key, a.id, b.key, b.id} \subseteq Int
  BY DEF Cell
<1> QED
  BY <1>1 DEF Past

(* What is past a row is past every row that row is past.                  *)
LEMMA PastTransitive ==
  ASSUME NEW a \in Cell, NEW b \in Cell, NEW c \in Cell, NEW d \in BOOLEAN,
         Past(a, b, d), Past(b, c, d)
  PROVE  Past(a, c, d)
<1>1. {a.key, a.id, b.key, b.id, c.key, c.id} \subseteq Int
  BY DEF Cell
<1> QED
  BY <1>1 DEF Past

(* Rows in order are all the rows, each behind the one before.             *)
LEMMA InOrderIs ==
  ASSUME NEW rows \in SUBSET Cell, IsFiniteSet(rows), NEW d \in BOOLEAN
  PROVE  /\ InOrder(rows, d) \in Seq(Cell) /\ ToSet(InOrder(rows, d)) = rows
         /\ InOrderOf(InOrder(rows, d), Behind(d))
<1> DEFINE R == {v \in rows \X rows : ~Past(v[2], v[1], d)}
           s == Sorted(rows, R)
<1>1. \A a, b \in rows : <<a, b>> \in R <=> ~Past(b, a, d)
  OBVIOUS
<1> HIDE DEF R
<1>2. Total(rows, R)
  <2> SUFFICES ASSUME NEW a \in rows, NEW b \in rows PROVE <<a, b>> \in R \/ <<b, a>> \in R
    BY DEF Total
  <2>1. a \in Cell /\ b \in Cell
    OBVIOUS
  <2>2. ~Past(b, a, d) \/ ~Past(a, b, d)
    BY <2>1, PastOnce
  <2> QED
    BY <1>1, <2>2
<1>3. Transitive(rows, R)
  <2> SUFFICES ASSUME NEW a \in rows, NEW b \in rows, NEW c \in rows,
                      <<a, b>> \in R, <<b, c>> \in R
               PROVE  <<a, c>> \in R
    BY DEF Transitive
  <2>1. a \in Cell /\ b \in Cell /\ c \in Cell
    OBVIOUS
  <2>2. a = b \/ Past(a, b, d)
    BY <1>1, <2>1, PastIs
  <2>3. b = c \/ Past(b, c, d)
    BY <1>1, <2>1, PastIs
  <2>4. a = c \/ Past(a, c, d)
    BY <2>1, <2>2, <2>3, PastTransitive
  <2>5. ~Past(c, a, d)
    <3>1. CASE a = c
      BY <2>1, <3>1, PastIs
    <3>2. CASE Past(a, c, d)
      BY <2>1, <3>2, PastOnce
    <3> QED
      BY <2>4, <3>1, <3>2
  <2> QED
    BY <1>1, <2>5
<1>4. s \in Seq(rows) /\ Distinct(s) /\ ToSet(s) = rows /\ InOrderOf(s, R)
  BY <1>2, <1>3, SortedIs
<1>5. InOrder(rows, d) = s
  BY DEF InOrder, R
<1> HIDE DEF s
<1>6. InOrderOf(s, Behind(d))
  <2> SUFFICES ASSUME NEW i \in DOMAIN s, NEW k \in DOMAIN s, i < k
               PROVE  <<s[i], s[k]>> \in Behind(d)
    BY DEF InOrderOf
  <2>1. s[i] \in rows /\ s[k] \in rows
    BY <1>4 DEF ToSet
  <2>2. s[i] # s[k]
    <3>1. i # k
      BY <1>4, LenProperties
    <3> QED
      BY <1>4, <3>1 DEF Distinct
  <2>3. ~Past(s[k], s[i], d)
    BY <1>1, <1>4, <2>1 DEF InOrderOf
  <2> QED
    BY <2>1, <2>2, <2>3, PastIs
<1> QED
  BY <1>4, <1>5, <1>6, SeqMonotonic

(* A page, of any rows: rows past the cursor, in order, no more than the   *)
(* limit; all of them if and only if it has no cursor for the next;        *)
(* otherwise that cursor is a row of it, none of it is past that row, and  *)
(* all of the rest are (page.dto.ts:72, :109).                             *)
THEOREM PageIs ==
  ASSUME NEW rows \in SUBSET Cell, IsFiniteSet(rows), NEW cursor \in Cell \union {None},
         NEW limit \in Nat \ {0}, NEW d \in BOOLEAN, NEW p, p = PageAfter(rows, cursor, limit, d)
  PROVE  /\ p.items \in Seq(Cell) /\ p.next \in Cell \union {None}
         /\ ToSet(p.items) \subseteq Resume(rows, cursor, d)
         /\ InOrderOf(p.items, Behind(d)) /\ Len(p.items) <= limit
         /\ p.next = None <=> Resume(rows, cursor, d) \subseteq ToSet(p.items)
         /\ p.next # None =>
              /\ p.next \in ToSet(p.items)
              /\ \A n \in ToSet(p.items) : n = p.next \/ Past(n, p.next, d)
              /\ \A row \in Resume(rows, cursor, d) :
                   row \in ToSet(p.items) \/ Past(p.next, row, d)
<1> DEFINE all == Resume(rows, cursor, d)
           rest == InOrder(all, d)
           n == Len(rest)
           most == IF n > limit THEN limit + 1 ELSE n
           some == SubSeq(rest, 1, most)
           items == SubSeq(some, 1, limit)
<1>1. all \in SUBSET Cell /\ IsFiniteSet(all)
  BY FS_Subset DEF Resume
<1>2. rest \in Seq(Cell) /\ ToSet(rest) = all /\ InOrderOf(rest, Behind(d))
  BY <1>1, InOrderIs
<1>3. n \in Nat /\ DOMAIN rest = 1..n /\ \A i \in 1..n : rest[i] \in Cell
  BY <1>2, LenProperties
<1>4. p = BuildPage(some, limit)
  BY DEF PageAfter
<1> HIDE DEF rest, all
<1>7. limit \in Nat /\ limit >= 1
  OBVIOUS
<1>5. CASE n <= limit
  <2>1. most = n
    <3> HIDE DEF n
    <3> QED
      BY <1>3, <1>5, <1>7
  <2>2. /\ some \in Seq(Cell) /\ Len(some) = n
        /\ \A i \in 1..n : some[i] = rest[i]
    <3> HIDE DEF n, most
    <3>1. 1 \in Int /\ most \in Int /\ \A i \in 1..most : rest[i] \in Cell
      BY <1>3, <2>1
    <3>2. /\ some \in Seq(Cell) /\ Len(some) = IF 1 <= most THEN most - 1 + 1 ELSE 0
          /\ \A i \in 1..most - 1 + 1 : some[i] = rest[1 + i - 1]
      BY <3>1, SubSeqProperties
    <3> HIDE DEF some
    <3>3. Len(some) = n /\ 1..most - 1 + 1 = 1..n /\ \A i \in 1..n : 1 + i - 1 = i
      BY <1>3, <2>1, <3>2
    <3> QED
      BY <3>2, <3>3
  <2> HIDE DEF most, some
  <2>3. some = rest
    BY <1>2, <2>2, SeqEqual
  <2>4. p = [items |-> some, next |-> None]
    <3>1. ~(Len(some) > limit)
      <4> HIDE DEF n
      <4> QED
        BY <1>3, <1>5, <1>7, <2>2
    <3> QED
      BY <1>4, <3>1 DEF BuildPage
  <2> HIDE DEF n
  <2>5. p.items = rest /\ p.next = None /\ Len(p.items) <= limit
    BY <1>5, <2>2, <2>3, <2>4
  <2> QED
    BY <1>2, <2>5 DEF all
<1>6. CASE n > limit
  <2>1. most = limit + 1
    BY <1>3, <1>6
  <2>2. /\ some \in Seq(Cell) /\ Len(some) = limit + 1
        /\ \A i \in 1..limit + 1 : some[i] = rest[i]
    <3>1. 1 \in Int /\ most \in Int /\ \A i \in 1..most : rest[i] \in Cell
      BY <1>3, <1>6, <2>1
    <3>2. /\ some \in Seq(Cell) /\ Len(some) = IF 1 <= most THEN most - 1 + 1 ELSE 0
          /\ \A i \in 1..most - 1 + 1 : some[i] = rest[1 + i - 1]
      BY <3>1, SubSeqProperties
    <3> HIDE DEF some
    <3>3. /\ Len(some) = limit + 1 /\ 1..most - 1 + 1 = 1..limit + 1
          /\ \A i \in 1..limit + 1 : 1 + i - 1 = i
      BY <2>1, <3>2
    <3> QED
      BY <3>2, <3>3
  <2> HIDE DEF some
  <2>3. /\ items \in Seq(Cell) /\ Len(items) = limit
        /\ \A i \in 1..limit : items[i] = rest[i]
    <3>1. 1 \in Int /\ limit \in Int /\ \A i \in 1..limit : some[i] \in Cell
      BY <1>3, <1>6, <2>2
    <3>2. /\ items \in Seq(Cell) /\ Len(items) = IF 1 <= limit THEN limit - 1 + 1 ELSE 0
          /\ \A i \in 1..limit - 1 + 1 : items[i] = some[1 + i - 1]
      BY <3>1, SubSeqProperties
    <3> HIDE DEF items
    <3>3. /\ Len(items) = limit /\ 1..limit - 1 + 1 = 1..limit
          /\ \A i \in 1..limit : 1 + i - 1 = i /\ i \in 1..limit + 1
      BY <3>2
    <3> QED
      BY <2>2, <3>2, <3>3
  <2>4. p = [items |-> items, next |-> items[limit]]
    BY <1>4, <2>2 DEF BuildPage
  <2> HIDE DEF items
  <2>5. DOMAIN items = 1..limit /\ limit \in 1..limit
    BY <2>3, LenProperties
  <2>6. p.items = items /\ p.next = rest[limit] /\ limit \in 1..n
    BY <1>3, <1>6, <2>3, <2>4, <2>5
  <2>7. p.next \in Cell
    BY <1>3, <2>6
  <2>8. ToSet(items) \subseteq all
    BY <1>2, <1>3, <1>6, <2>3, <2>5 DEF ToSet
  <2>9. InOrderOf(items, Behind(d))
    BY <1>2, <1>3, <1>6, <2>3, <2>5 DEF InOrderOf
  <2>10. ASSUME NEW x \in ToSet(items) PROVE x = p.next \/ Past(x, p.next, d)
    <3>1. PICK i \in 1..limit : x = rest[i]
      BY <2>3, <2>5 DEF ToSet
    <3>2. CASE i = limit
      BY <2>6, <3>1, <3>2
    <3>3. CASE i < limit
      <4>1. i \in 1..n
        BY <1>3, <1>6
      <4>2. <<rest[i], rest[limit]>> \in Behind(d)
        BY <1>2, <1>3, <2>6, <3>3, <4>1 DEF InOrderOf
      <4> QED
        BY <2>6, <3>1, <4>2 DEF Behind
    <3> QED
      BY <3>2, <3>3
  <2>11. ASSUME NEW row \in all PROVE row \in ToSet(items) \/ Past(p.next, row, d)
    <3>1. PICK i \in 1..n : row = rest[i]
      BY <1>2, <1>3 DEF ToSet
    <3>2. CASE i <= limit
      <4>1. i \in 1..limit
        BY <3>2
      <4> QED
        BY <2>3, <2>5, <3>1, <4>1 DEF ToSet
    <3>3. CASE limit < i
      <4>2. <<rest[limit], rest[i]>> \in Behind(d)
        BY <1>2, <1>3, <2>6, <3>3 DEF InOrderOf
      <4> QED
        BY <2>6, <3>1, <4>2 DEF Behind
    <3> QED
      BY <3>2, <3>3
  <2>13. p.next \in ToSet(items) /\ Len(items) <= limit
    BY <1>7, <2>3, <2>4, <2>5 DEF ToSet
  <2>14. ~(all \subseteq ToSet(items))
    <3>1. limit + 1 \in 1..n /\ rest[limit + 1] \in all
      BY <1>2, <1>3, <1>6, <1>7 DEF ToSet
    <3>2. ASSUME NEW i \in 1..limit, items[i] = rest[limit + 1] PROVE FALSE
      <4>1. i \in 1..n /\ i < limit + 1
        BY <1>3, <1>6, <1>7
      <4>2. <<rest[i], rest[limit + 1]>> \in Behind(d)
        BY <1>2, <1>3, <3>1, <4>1 DEF InOrderOf
      <4>3. rest[i] = rest[limit + 1] /\ rest[i] \in Cell
        BY <1>3, <2>3, <3>2, <4>1
      <4>4. Past(rest[i], rest[i], d)
        BY <4>2, <4>3 DEF Behind
      <4> QED
        BY <4>3, <4>4, PastOnce
    <3> QED
      BY <2>5, <3>1, <3>2 DEF ToSet
  <2>12. None \notin Cell
    BY NoneAssumption DEF Cell
  <2> QED
    BY <2>3, <2>6, <2>7, <2>8, <2>9, <2>10, <2>11, <2>12, <2>13, <2>14 DEF all
<1> QED
  BY <1>3, <1>5, <1>6, <1>7

(* What is in order has no row twice.                                      *)
LEMMA WalkedOnce ==
  ASSUME NEW s \in Seq(Cell), NEW d \in BOOLEAN, InOrderOf(s, Behind(d))
  PROVE  Distinct(s)
<1> SUFFICES ASSUME NEW i \in DOMAIN s, NEW k \in DOMAIN s, s[i] = s[k], i # k PROVE FALSE
  BY DEF Distinct
<1>1. DOMAIN s = 1..Len(s) /\ Len(s) \in Nat /\ s[i] \in Cell /\ s[k] \in Cell
  BY LenProperties
<1>2. i < k \/ k < i
  BY <1>1
<1>3. <<s[i], s[k]>> \in Behind(d)
  BY <1>2 DEF InOrderOf
<1>4. Past(s[i], s[i], d)
  BY <1>3 DEF Behind
<1> QED
  BY <1>1, <1>4, PastOnce

-----------------------------------------------------------------------------
(* The table each kind of request writes.                                  *)
LEMMA TableOf ==
  /\ Tables["mark"] = "feed" /\ Tables["unmark"] = "feed" /\ Tables["all"] = "feed"
  /\ Tables["create"] = "staff" /\ Tables["patch"] = "staff" /\ Tables["remove"] = "staff"
BY DEF Tables

(* The statement each kind of request begins with.                         *)
LEMMA FirstSteps ==
  ASSUME NEW j \in Jobs
  PROVE  /\ FirstStep[j.op] \in {"check", "look", "write", "page"}
         /\ j.op \in {"mark", "patch"} => FirstStep[j.op] = "look"
BY DEF FirstStep, Jobs

(* A changed shift is a shift of that worker.                              *)
LEMMA MergedIs ==
  ASSUME FeedType, NEW w \in Workers, NEW c \in Patches
  PROVE  Merged(w, c) \in [name : Names, start : Hours, end : Hours,
                           is : {"none", "live", "removed"}]
<1>1. CASE c.field = "start"
  BY <1>1, WorkerFeedAssumption DEF Merged, FeedType
<1>2. CASE c.field = "end"
  BY <1>2, WorkerFeedAssumption DEF Merged, FeedType
<1>3. CASE c.field = "name"
  BY <1>3, WorkerFeedAssumption DEF Merged, FeedType
<1> QED
  BY <1>1, <1>2, <1>3, WorkerFeedAssumption

(* The kinds of step.                                                      *)
LEMMA Kinds ==
  ASSUME [Next]_vars
  PROVE  \/ \E r \in Requests : Step(r)
         \/ Report \/ PruneRead \/ PruneSamples \/ Tick \/ UNCHANGED vars
BY DEF Next

(* How a request goes on.                                                  *)
LEMMA JobMoves ==
  ASSUME FeedType, [Next]_vars
  PROVE  /\ pc' \in [Requests -> Pcs]
         /\ DOMAIN job' = Requests
         /\ \A q \in Requests : pc'[q] # "idle" =>
              \/ job'[q] = job[q] /\ pc[q] # "idle"
              \/ job'[q] \in Jobs /\ pc'[q] = FirstStep[job'[q].op]
<1> DEFINE Goal ==
      /\ pc' \in [Requests -> Pcs]
      /\ DOMAIN job' = Requests
      /\ \A q \in Requests : pc'[q] # "idle" =>
           \/ job'[q] = job[q] /\ pc[q] # "idle"
           \/ job'[q] \in Jobs /\ pc'[q] = FirstStep[job'[q].op]
<1> USE DEF FeedType, Pcs
<1>1. ASSUME NEW r \in Requests, Answer(r) PROVE Goal
  BY <1>1 DEF Answer
<1>2. ASSUME NEW r \in Requests, NEW step \in Pcs, Goto(r, step), pc[r] # "idle" PROVE Goal
  BY <1>2 DEF Goto
<1>3. ASSUME NEW r \in Requests, Request(r) PROVE Goal
  BY <1>3, FirstSteps DEF Request
<1>4. ASSUME NEW r \in Requests,
             \/ ArrivalWrite(r) \/ MarkWrite(r) \/ UnmarkWrite(r) \/ MarkAllRead(r)
             \/ CreateEmployee(r) \/ PatchWrite(r) \/ RemoveWrite(r) \/ Abort(r)
             \/ BatchWrite(r) \/ StreamWrite(r) \/ LeaveList(r)
      PROVE  Answer(r)
  BY <1>4 DEF ArrivalWrite, MarkWrite, UnmarkWrite, MarkAllRead, CreateEmployee,
     PatchWrite, RemoveWrite, Abort, BatchWrite, StreamWrite, LeaveList, Write
<1>5. ASSUME NEW r \in Requests,
             \/ MarkLook(r) \/ PatchLook(r) \/ Check(r) \/ ArrivalLook(r)
             \/ UnmarkLook(r) \/ RemoveLook(r)
      PROVE  pc[r] # "idle" /\ (Answer(r) \/ \E step \in Pcs : Goto(r, step))
  BY <1>5 DEF MarkLook, PatchLook, Check, ArrivalLook, UnmarkLook, RemoveLook, Op
<1>6. ASSUME NEW r \in Requests, BatchLook(r) PROVE Goal
  <2>1. CASE Answer(r)
    BY <1>1, <2>1
  <2>2. CASE ~Answer(r)
    BY <1>6, <2>2 DEF BatchLook, Op
  <2> QED
    BY <2>1, <2>2
<1>7. ASSUME NEW r \in Requests, NextPage(r) \/ GroupLatest(r) \/ FetchLatest(r) PROVE Goal
  <2>1. /\ pc[r] # "idle" /\ job' = job
        /\ \E step \in Pcs : pc' = [pc EXCEPT ![r] = step]
    BY <1>7 DEF NextPage, GroupLatest, FetchLatest, Op
  <2> QED
    BY <2>1
<1>8. ASSUME UNCHANGED <<pc, job>> PROVE Goal
  BY <1>8
<1> HIDE DEF Goal
<1>9. ASSUME NEW r \in Requests, Step(r) PROVE Goal
  BY <1>1, <1>2, <1>3, <1>4, <1>5, <1>6, <1>7, <1>9 DEF Step
<1>10. ASSUME Report \/ PruneRead \/ PruneSamples \/ Tick \/ UNCHANGED vars
       PROVE  Goal
  BY <1>8, <1>10 DEF Report, PruneRead, PruneSamples, Tick, running, vars
<1>11. Goal
  BY <1>9, <1>10, Kinds
<1> QED
  BY <1>11 DEF Goal

(* A request that has looked is about to write what it found, unless it is *)
(* late.                                                                   *)
LEMMA WriteMoves ==
  ASSUME FeedType, [Next]_vars, NEW q \in Requests,
         pc'[q] = "write", job'[q].op \in {"mark", "patch"}
  PROVE  \/ MarkLook(q) /\ job'[q] = job[q]
         \/ PatchLook(q) /\ job'[q] = job[q]
         \/ /\ pc[q] = "write" /\ job'[q] = job[q]
            /\ q \notin late' => q \notin late
<1> DEFINE Goal ==
      \/ MarkLook(q) /\ job'[q] = job[q]
      \/ PatchLook(q) /\ job'[q] = job[q]
      \/ /\ pc[q] = "write" /\ job'[q] = job[q]
         /\ q \notin late' => q \notin late
<1> USE DEF FeedType
<1>1. ASSUME NEW r \in Requests, Write(r) PROVE Goal
  BY <1>1 DEF Answer, Write
<1>2. ASSUME NEW r \in Requests, Answer(r), late' = late \/ late' = late \ {r} PROVE Goal
  BY <1>2 DEF Answer
<1>3. ASSUME NEW r \in Requests, Request(r) PROVE Goal
  <2>1. q # r
    BY <1>3, FirstSteps DEF Request
  <2> QED
    BY <1>3, <2>1 DEF Request
<1>4. ASSUME NEW r \in Requests,
             \/ ArrivalWrite(r) \/ MarkWrite(r) \/ UnmarkWrite(r) \/ MarkAllRead(r)
             \/ CreateEmployee(r) \/ PatchWrite(r) \/ RemoveWrite(r)
             \/ BatchWrite(r) \/ StreamWrite(r)
      PROVE  Write(r)
  BY <1>4 DEF ArrivalWrite, MarkWrite, UnmarkWrite, MarkAllRead, CreateEmployee,
     PatchWrite, RemoveWrite, BatchWrite, StreamWrite
<1>5. ASSUME NEW r \in Requests, Abort(r) \/ LeaveList(r) PROVE Goal
  BY <1>2, <1>5 DEF Abort, LeaveList
<1>6. ASSUME NEW r \in Requests,
             MarkLook(r) \/ PatchLook(r) \/ Check(r) \/ UnmarkLook(r)
             \/ ArrivalLook(r) \/ RemoveLook(r)
      PROVE  Goal
  <2>1. CASE Answer(r)
    BY <1>2, <1>6, <2>1 DEF MarkLook, PatchLook, Check, ArrivalLook, UnmarkLook, RemoveLook
  <2>2. CASE ~Answer(r)
    BY <1>6, <2>2 DEF MarkLook, PatchLook, Check, ArrivalLook, UnmarkLook, RemoveLook,
       Op, Goto
  <2> QED
    BY <2>1, <2>2
<1>7. ASSUME NEW r \in Requests, BatchLook(r) PROVE Goal
  <2>1. CASE Answer(r)
    BY <1>2, <1>7, <2>1 DEF BatchLook
  <2>2. CASE ~Answer(r)
    BY <1>7, <2>2 DEF BatchLook, Op
  <2> QED
    BY <2>1, <2>2
<1>8. ASSUME NEW r \in Requests, NextPage(r) \/ GroupLatest(r) \/ FetchLatest(r) PROVE Goal
  <2>1. /\ job' = job /\ late' = late
        /\ \E step \in {"page", "fetch", "end"} : pc' = [pc EXCEPT ![r] = step]
    BY <1>8 DEF NextPage, GroupLatest, FetchLatest, Op
  <2> QED
    BY <2>1
<1>9. ASSUME UNCHANGED <<pc, job, late>> PROVE Goal
  BY <1>9
<1> HIDE DEF Goal
<1>10. ASSUME NEW r \in Requests, Step(r) PROVE Goal
  BY <1>1, <1>3, <1>4, <1>5, <1>6, <1>7, <1>8, <1>10 DEF Step
<1>11. ASSUME Report \/ PruneRead \/ PruneSamples \/ Tick \/ UNCHANGED vars
       PROVE  Goal
  BY <1>9, <1>11 DEF Report, PruneRead, PruneSamples, Tick, running, vars
<1>12. Goal
  BY <1>10, <1>11, Kinds
<1> QED
  BY <1>12 DEF Goal

-----------------------------------------------------------------------------
(* Never is a time of reading.                                             *)
LEMMA NoneIsTime == None \in Nat \union {None}
OBVIOUS

(* Unmarking stamps one notification with None.                            *)
LEMMA Unstamps ==
  ASSUME NEW r \in Requests, UnmarkWrite(r)
  PROVE  \E time \in Nat \union {None} :
           time = None /\ Stamp(job[r].who, {job[r].arg}, time)
<1> DEFINE which == {job[r].arg}
           u == job[r].who
<1>1. Stamp(u, which, None)
  BY DEF UnmarkWrite
<1> HIDE DEF which, u
<1>2. \E time \in Nat \union {None} : time = None /\ Stamp(u, which, time)
  BY <1>1, NoneIsTime, Zenon
<1> QED
  BY <1>2 DEF which, u

(* Stamping changes when the chosen were read, and nothing else.           *)
LEMMA StampIs ==
  ASSUME FeedType, NEW u \in Foremen, NEW which, NEW time \in Nat \union {None},
         Stamp(u, which, time)
  PROVE  /\ feed' \in [Foremen -> SUBSET Notices]
         /\ \A v \in Foremen \ {u} : feed'[v] = feed[v]
         /\ \A m \in feed'[u] : \E n \in feed[u] :
              /\ m.id = n.id
              /\ IF n.id \in which THEN m.read = time ELSE m = n
         /\ \A n \in feed[u] : \E m \in feed'[u] :
              /\ m.id = n.id
              /\ IF n.id \in which THEN m.read = time ELSE m = n
         /\ \A m, k \in feed'[u] : m.id = k.id => m = k
<1> DEFINE New(n) == IF n.id \in which THEN [n EXCEPT !.read = time] ELSE n
<1>1. /\ feed'[u] = {New(n) : n \in feed[u]}
      /\ \A v \in Foremen \ {u} : feed'[v] = feed[v]
      /\ feed' = [feed EXCEPT ![u] = {New(n) : n \in feed[u]}]
  BY DEF Stamp, FeedType
<1>2. \A n \in feed[u] : /\ New(n) \in Notices
                         /\ New(n).id = n.id
                         /\ IF n.id \in which THEN New(n).read = time ELSE New(n) = n
  BY DEF FeedType, Notices
<1> HIDE DEF New
<1>3. feed' \in [Foremen -> SUBSET Notices]
  BY <1>1, <1>2 DEF FeedType
<1>4. \A m, k \in feed'[u] : m.id = k.id => m = k
  BY <1>1, <1>2 DEF FeedType
<1> QED
  BY <1>1, <1>2, <1>3, <1>4

(* A new event is unread with every foreman, and nothing else changes.     *)
LEMMA NotifyIs ==
  ASSUME FeedType, NEW e \in Events \ events, Notify(e)
  PROVE  /\ events' \in SUBSET Events
         /\ feed' \in [Foremen -> SUBSET Notices]
         /\ \A u \in Foremen :
              /\ feed[u] \subseteq feed'[u]
              /\ \A n \in feed'[u] : n \in feed[u] \/ (n.id = e /\ n.read = None)
              /\ \A n \in feed'[u] : n.id \in events'
              /\ \A n, m \in feed'[u] : n.id = m.id => n = m
              /\ \E n \in feed'[u] : n.id = e /\ n.read = None
<1> DEFINE new == [id |-> e, at |-> now, read |-> None]
<1>1. new \in Notices /\ new.id = e /\ new.read = None
  BY DEF FeedType, Notices
<1>2. /\ feed' = [u \in Foremen |-> feed[u] \union {new}]
      /\ events' = events \union {e}
  BY DEF Notify
<1> HIDE DEF new
<1> QED
  BY <1>1, <1>2 DEF FeedType

(* A night takes notifications that have been read, and changes none.      *)
LEMMA PruneIs ==
  ASSUME FeedType, PruneRead
  PROVE  /\ feed' \in [Foremen -> SUBSET Notices]
         /\ \A u \in Foremen :
              /\ feed'[u] \subseteq feed[u]
              /\ \A n \in feed[u] : n.read = None => n \in feed'[u]
BY DEF PruneRead, FeedType

(* What may happen to the notifications.                                   *)
LEMMA FeedSteps ==
  ASSUME [Next]_vars
  PROVE  \/ UNCHANGED <<feed, events, opened>>
         \/ \E e \in Events \ events : Notify(e) /\ UNCHANGED opened
         \/ PruneRead
         \/ \E r \in Requests : MarkWrite(r) \/ UnmarkWrite(r) \/ MarkAllRead(r)
<1>1. ASSUME NEW r \in Requests, Step(r)
      PROVE  \/ UNCHANGED <<feed, events, opened>>
             \/ \E e \in Events \ events : Notify(e) /\ UNCHANGED opened
             \/ MarkWrite(r) \/ UnmarkWrite(r) \/ MarkAllRead(r)
  BY <1>1 DEF Step, Request, Abort, Check, ArrivalLook, ArrivalWrite, BatchLook,
     BatchWrite, StreamWrite, MarkLook, UnmarkLook, CreateEmployee, PatchLook,
     PatchWrite, RemoveLook, RemoveWrite, NextPage, GroupLatest, FetchLatest,
     LeaveList, stored
<1> QED
  BY <1>1, Kinds DEF Report, PruneSamples, Tick, stored, vars

(* What may happen to the rows of the workers.                             *)
LEMMA StaffSteps ==
  ASSUME [Next]_vars
  PROVE  \/ UNCHANGED <<staff, crossed>>
         \/ \E r \in Requests : CreateEmployee(r) \/ PatchWrite(r) \/ RemoveWrite(r)
<1>1. ASSUME NEW r \in Requests, Step(r)
      PROVE  \/ UNCHANGED <<staff, crossed>>
             \/ CreateEmployee(r) \/ PatchWrite(r) \/ RemoveWrite(r)
  BY <1>1 DEF Step, Request, Abort, Check, ArrivalLook, ArrivalWrite, BatchLook,
     BatchWrite, StreamWrite, MarkLook, MarkWrite, UnmarkLook, UnmarkWrite, MarkAllRead,
     PatchLook, RemoveLook, NextPage, GroupLatest, FetchLatest, LeaveList, stored
<1> QED
  BY <1>1, Kinds DEF Report, PruneRead, PruneSamples, Tick, stored, vars

(* The clock keeps its type.                                               *)
LEMMA NowStep == now \in Nat /\ [Next]_vars => now' \in Nat
<1> SUFFICES ASSUME now \in Nat, [Next]_vars PROVE now' \in Nat
  OBVIOUS
<1>1. ASSUME NEW r \in Requests, Step(r) PROVE UNCHANGED now
  BY <1>1 DEF Step, Request, Abort, Check, ArrivalLook, ArrivalWrite, BatchLook,
     BatchWrite, StreamWrite, MarkLook, MarkWrite, UnmarkLook, UnmarkWrite, MarkAllRead,
     CreateEmployee, PatchWrite, RemoveWrite, PatchLook, RemoveLook, NextPage,
     GroupLatest, FetchLatest, LeaveList
<1>2. CASE Report \/ PruneRead \/ PruneSamples \/ UNCHANGED vars
  BY <1>2 DEF Report, PruneRead, PruneSamples, vars
<1>3. CASE Tick
  BY <1>3 DEF Tick
<1> QED
  BY <1>1, <1>2, <1>3, Kinds

-----------------------------------------------------------------------------
(* The tables keep their type.                                             *)
LEMMA TypeStep == FeedType /\ JobInv /\ [Next]_vars => FeedType'
<1> SUFFICES ASSUME FeedType, JobInv, [Next]_vars PROVE FeedType'
  OBVIOUS
<1>1. now' \in Nat /\ pc' \in [Requests -> Pcs] /\ DOMAIN job' = Requests
  BY NowStep, JobMoves DEF FeedType
<1>2. staff' \in [Workers -> [name : Names, start : Hours, end : Hours,
                            is : {"none", "live", "removed"}]]
  <2>1. ASSUME NEW r \in Requests, CreateEmployee(r)
        PROVE  staff' \in [Workers -> [name : Names, start : Hours, end : Hours,
                                  is : {"none", "live", "removed"}]]
    BY <2>1 DEF CreateEmployee, Op, JobInv, FeedType
  <2>2. ASSUME NEW r \in Requests, PatchWrite(r)
        PROVE  staff' \in [Workers -> [name : Names, start : Hours, end : Hours,
                                  is : {"none", "live", "removed"}]]
    <3>1. job[r].who \in Workers /\ job[r].arg \in Patches
      BY <2>2 DEF PatchWrite, Op, JobInv
    <3> QED
      BY <2>2, <3>1, MergedIs DEF PatchWrite, FeedType
  <2>3. ASSUME NEW r \in Requests, RemoveWrite(r)
        PROVE  staff' \in [Workers -> [name : Names, start : Hours, end : Hours,
                                  is : {"none", "live", "removed"}]]
    BY <2>3 DEF RemoveWrite, Op, JobInv, FeedType
  <2> QED
    BY <2>1, <2>2, <2>3, StaffSteps DEF FeedType
<1>3. /\ events' \in SUBSET Events
      /\ feed' \in [Foremen -> SUBSET Notices]
      /\ opened' \in [Foremen -> SUBSET Events]
      /\ \A u \in Foremen :
           /\ \A n \in feed'[u] : n.id \in events'
           /\ \A n, m \in feed'[u] : n.id = m.id => n = m
  <2> DEFINE Goal ==
        /\ events' \in SUBSET Events
        /\ feed' \in [Foremen -> SUBSET Notices]
        /\ opened' \in [Foremen -> SUBSET Events]
        /\ \A u \in Foremen :
             /\ \A n \in feed'[u] : n.id \in events'
             /\ \A n, m \in feed'[u] : n.id = m.id => n = m
  <2>1. ASSUME UNCHANGED <<feed, events, opened>> PROVE Goal
    BY <2>1 DEF FeedType
  <2>2. ASSUME NEW e \in Events \ events, Notify(e), UNCHANGED opened PROVE Goal
    BY <2>2, NotifyIs DEF FeedType
  <2>3. ASSUME PruneRead PROVE Goal
    <3>1. UNCHANGED <<events, opened>>
      BY <2>3 DEF PruneRead
    <3> QED
      BY <2>3, <3>1, PruneIs DEF FeedType
  <2>4. ASSUME NEW r \in Requests, NEW which, NEW time \in Nat \union {None},
               job[r].who \in Foremen, Stamp(job[r].who, which, time), UNCHANGED events,
               opened' \in [Foremen -> SUBSET Events]
        PROVE  Goal
    BY <2>4, StampIs DEF FeedType
  <2>5. ASSUME NEW u \in Foremen, NEW which \in SUBSET feed[u]
        PROVE  {n.id : n \in which} \subseteq Events
    BY DEF FeedType, Notices
  <2>6. ASSUME NEW r \in Requests, MarkWrite(r) \/ UnmarkWrite(r) \/ MarkAllRead(r)
        PROVE  Goal
    <3>1. job[r].who \in Foremen
      BY <2>6 DEF MarkWrite, UnmarkWrite, MarkAllRead, Op, JobInv
    <3>2. UNCHANGED events
      BY <2>6 DEF MarkWrite, UnmarkWrite, MarkAllRead
    <3>3. opened' \in [Foremen -> SUBSET Events]
      <4>1. \E ids \in SUBSET Events :
              \/ opened' = [opened EXCEPT ![job[r].who] = @ \union ids]
              \/ opened' = [opened EXCEPT ![job[r].who] = @ \ ids]
        BY <2>5, <2>6, <3>1 DEF MarkWrite, UnmarkWrite, MarkAllRead, Unread
      <4> QED
        BY <4>1 DEF FeedType
    <3>4. \E which : \E time \in Nat \union {None} : Stamp(job[r].who, which, time)
      BY <2>6 DEF MarkWrite, UnmarkWrite, MarkAllRead, FeedType
    <3> QED
      BY <2>4, <3>1, <3>2, <3>3, <3>4
  <2> HIDE DEF Goal
  <2>7. Goal
    BY <2>1, <2>2, <2>3, <2>6, FeedSteps
  <2> QED
    BY <2>7 DEF Goal
<1> QED
  BY <1>1, <1>2, <1>3 DEF FeedType, Pcs

(* A request stays for someone of its kind.                                *)
LEMMA JobStep == FeedType /\ JobInv /\ [Next]_vars => JobInv'
<1> SUFFICES ASSUME FeedType, JobInv, [Next]_vars, NEW q \in Requests, pc'[q] # "idle"
             PROVE  /\ job'[q].op \in {"create", "patch", "remove"} => job'[q].who \in Workers
                    /\ job'[q].op \in {"mark", "unmark", "all"} => job'[q].who \in Foremen
                    /\ job'[q].op = "create" => job'[q].arg \in Names
                    /\ job'[q].op = "patch" => job'[q].arg \in Patches
  BY DEF JobInv
<1>1. CASE job'[q] = job[q] /\ pc[q] # "idle"
  BY <1>1 DEF JobInv
<1>2. CASE job'[q] \in Jobs
  BY <1>2 DEF Jobs
<1> QED
  BY <1>1, <1>2, JobMoves

-----------------------------------------------------------------------------
(* Who writes another's rows makes him late.                               *)
LEMMA MadeLate ==
  ASSUME FeedType, NEW r \in Requests, Write(r), NEW q \in Requests \ {r},
         pc[q] = "write", Meet(q, r)
  PROVE  q \in late'
BY DEF Write

(* What a marking has found unread stays so, or the marking is late.       *)
LEMMA MarkStep == FeedType /\ FeedType' /\ JobInv /\ MarkInv /\ [Next]_vars => MarkInv'
<1> SUFFICES ASSUME FeedType, FeedType', JobInv, MarkInv, [Next]_vars,
                    NEW q \in Requests, q \notin late',
                    pc'[q] = "write", job'[q].op = "mark",
                    NEW m \in feed'[job'[q].who], m.id = job'[q].arg
             PROVE  m.read = None
  BY DEF MarkInv, Op
<1> DEFINE u == job[q].who
           e == job[q].arg
<1>1. job'[q] = job[q] /\ job[q].op = "mark" /\ pc[q] # "idle"
  BY WriteMoves DEF MarkLook, PatchLook, Op
<1>2. u \in Foremen
  BY <1>1 DEF JobInv
<1>3. CASE MarkLook(q)
  <2>1. ~Answer(q)
    BY DEF Answer, FeedType
  <2>2. \E n \in feed[u] : n.id = e /\ n.read = None
    BY <1>3, <2>1 DEF MarkLook
  <2>3. UNCHANGED feed
    BY <1>3 DEF MarkLook, stored
  <2> QED
    BY <1>1, <1>2, <2>2, <2>3 DEF FeedType
<1>4. CASE pc[q] = "write" /\ q \notin late
  <2>1. \A n \in feed[u] : n.id = e => n.read = None
    BY <1>1, <1>4 DEF MarkInv, Op
  <2>2. CASE UNCHANGED feed
    BY <1>1, <2>1, <2>2
  <2>3. ASSUME NEW n \in Events \ events, Notify(n) PROVE m.read = None
    BY <1>1, <1>2, <2>1, <2>3, NotifyIs
  <2>4. CASE PruneRead
    BY <1>1, <1>2, <2>1, <2>4, PruneIs
  <2>5. ASSUME NEW r \in Requests, MarkWrite(r) \/ UnmarkWrite(r) \/ MarkAllRead(r)
        PROVE  m.read = None
    <3>1. r # q /\ Write(r)
      <4>1. Write(r) /\ pc'[r] = "idle"
        BY <2>5 DEF MarkWrite, UnmarkWrite, MarkAllRead, Write, Answer, FeedType
      <4> QED
        BY <4>1
    <3>2. ~Meet(q, r)
      BY <1>4, <3>1, MadeLate
    <3>3. job[r].who = u => job[r].arg # e /\ job[r].op # "all"
      BY <1>1, <2>5, <3>2, TableOf DEF MarkWrite, UnmarkWrite, MarkAllRead, Op, Meet
    <3>5. \E which : \E time \in Nat \union {None} :
            /\ Stamp(job[r].who, which, time)
            /\ job[r].who = u => e \notin which
      <4>1. CASE MarkWrite(r)
        BY <3>3, <4>1 DEF MarkWrite, FeedType
      <4>2. CASE UnmarkWrite(r)
        <5>1. PICK time \in Nat \union {None} :
                time = None /\ Stamp(job[r].who, {job[r].arg}, time)
          BY <4>2, Unstamps
        <5>2. job[r].who = u => e \notin {job[r].arg}
          BY <3>3
        <5> QED
          BY <5>1, <5>2
      <4>3. CASE MarkAllRead(r)
        BY <3>3, <4>3 DEF MarkAllRead, Op, FeedType
      <4> QED
        BY <2>5, <4>1, <4>2, <4>3
    <3>4. job[r].who \in Foremen
      BY <2>5 DEF MarkWrite, UnmarkWrite, MarkAllRead, Op, JobInv
    <3> QED
      BY <1>1, <1>2, <2>1, <3>4, <3>5, StampIs
  <2> QED
    BY <2>2, <2>3, <2>4, <2>5, FeedSteps
<1> QED
  BY <1>1, <1>3, <1>4, WriteMoves DEF PatchLook, Op

(* The shift a change was checked against stays, or the change is late.    *)
LEMMA PatchStep ==
  FeedType /\ FeedType' /\ JobInv /\ PatchInv /\ [Next]_vars => PatchInv'
<1> SUFFICES ASSUME FeedType, FeedType', JobInv, PatchInv, [Next]_vars,
                    NEW q \in Requests, q \notin late',
                    pc'[q] = "write", job'[q].op = "patch"
             PROVE  (Merged(job[q].who, job[q].arg).start
                       # Merged(job[q].who, job[q].arg).end)'
  BY DEF PatchInv, Op
<1>1. job'[q] = job[q] /\ job[q].op = "patch" /\ pc[q] # "idle"
  BY WriteMoves DEF MarkLook, PatchLook, Op
<1>2. job[q].who \in Workers /\ job[q].arg \in Patches
  BY <1>1 DEF JobInv
<1>3. ASSUME staff'[job[q].who] = staff[job[q].who],
             Merged(job[q].who, job[q].arg).start # Merged(job[q].who, job[q].arg).end
      PROVE  (Merged(job[q].who, job[q].arg).start
                # Merged(job[q].who, job[q].arg).end)'
  BY <1>1, <1>3 DEF Merged
<1>4. CASE PatchLook(q)
  <2>1. ~Answer(q)
    BY DEF Answer, FeedType
  <2> QED
    BY <1>3, <1>4, <2>1 DEF PatchLook, stored
<1>5. CASE pc[q] = "write" /\ q \notin late
  <2>1. Merged(job[q].who, job[q].arg).start # Merged(job[q].who, job[q].arg).end
    BY <1>1, <1>5 DEF PatchInv, Op
  <2>2. CASE UNCHANGED staff
    BY <1>3, <2>1, <2>2
  <2>3. ASSUME NEW r \in Requests, CreateEmployee(r) \/ PatchWrite(r) \/ RemoveWrite(r)
        PROVE  staff'[job[q].who] = staff[job[q].who]
    <3>1. r # q /\ Write(r)
      <4>1. Write(r) /\ pc'[r] = "idle"
        BY <2>3 DEF CreateEmployee, PatchWrite, RemoveWrite, Write, Answer, FeedType
      <4> QED
        BY <4>1
    <3>2. ~Meet(q, r)
      BY <1>5, <3>1, MadeLate
    <3>3. job[r].who # job[q].who
      BY <1>1, <2>3, <3>2, TableOf DEF CreateEmployee, PatchWrite, RemoveWrite, Op, Meet
    <3> QED
      BY <1>2, <2>3, <3>3 DEF CreateEmployee, PatchWrite, RemoveWrite, FeedType
  <2> QED
    BY <1>3, <2>1, <2>2, <2>3, StaffSteps
<1> QED
  BY <1>1, <1>4, <1>5, WriteMoves DEF MarkLook, Op

-----------------------------------------------------------------------------
(* What is reported and not marked stays unread.                           *)
LEMMA StaysStep == FeedType /\ JobInv /\ StaysUntilRead /\ [Next]_vars => StaysUntilRead'
<1> SUFFICES ASSUME FeedType, JobInv, StaysUntilRead, [Next]_vars,
                    NEW u \in Foremen, NEW e \in events', e \notin opened'[u]
             PROVE  \E n \in feed'[u] : n.read = None /\ n.id = e
  BY DEF StaysUntilRead, Unread
<1>1. e \in events /\ e \notin opened[u] => \E n \in feed[u] : n.read = None /\ n.id = e
  BY DEF StaysUntilRead, Unread
<1>2. CASE UNCHANGED <<feed, events, opened>>
  BY <1>1, <1>2
<1>3. ASSUME NEW d \in Events \ events, Notify(d), UNCHANGED opened
      PROVE  \E n \in feed'[u] : n.read = None /\ n.id = e
  <2>1. e = d \/ e \in events
    BY <1>3 DEF Notify
  <2> QED
    BY <1>1, <1>3, <2>1, NotifyIs
<1>4. CASE PruneRead
  <2>1. UNCHANGED <<events, opened>>
    BY <1>4 DEF PruneRead
  <2> QED
    BY <1>1, <1>4, <2>1, PruneIs
<1>5. ASSUME NEW r \in Requests, MarkWrite(r) \/ MarkAllRead(r)
      PROVE  \E n \in feed'[u] : n.read = None /\ n.id = e
  <2>1. job[r].who \in Foremen /\ e \in events
    BY <1>5 DEF MarkWrite, MarkAllRead, Op, JobInv
  <2>2. e \notin opened[u]
    BY <1>5, <2>1 DEF MarkWrite, MarkAllRead, FeedType
  <2>3. PICK n \in feed[u] : n.read = None /\ n.id = e
    BY <1>1, <2>1, <2>2
  <2>4. \E which : \E time \in Nat \union {None} :
          /\ Stamp(job[r].who, which, time)
          /\ job[r].who = u => e \notin which
    <3>1. CASE MarkWrite(r)
      BY <2>1, <2>3, <3>1 DEF MarkWrite, FeedType
    <3>2. CASE MarkAllRead(r)
      <4>1. job[r].who = u => e \notin {k.id : k \in Unread(u)}
        BY <2>1, <3>2 DEF MarkAllRead, FeedType
      <4> QED
        BY <3>2, <4>1 DEF MarkAllRead, FeedType
    <3> QED
      BY <1>5, <3>1, <3>2
  <2> QED
    BY <2>1, <2>3, <2>4, StampIs
<1>6. ASSUME NEW r \in Requests, UnmarkWrite(r)
      PROVE  \E n \in feed'[u] : n.read = None /\ n.id = e
  <2>1. job[r].who \in Foremen /\ e \in events
    BY <1>6 DEF UnmarkWrite, Op, JobInv
  <2>2. PICK time \in Nat \union {None} :
          time = None /\ Stamp(job[r].who, {job[r].arg}, time)
    BY <1>6, Unstamps
  <2>3. ASSUME NEW n \in feed[u], n.id = e,
               n.read = None \/ (u = job[r].who /\ e = job[r].arg)
        PROVE  \E m \in feed'[u] : m.read = None /\ m.id = e
    <3>1. CASE u # job[r].who
      BY <2>1, <2>2, <2>3, <3>1, StampIs
    <3>2. CASE u = job[r].who
      <4>1. PICK m \in feed'[u] :
              /\ m.id = n.id
              /\ IF n.id \in {job[r].arg} THEN m.read = None ELSE m = n
        BY <2>1, <2>2, <3>2, StampIs
      <4> QED
        BY <2>3, <4>1
    <3> QED
      BY <3>1, <3>2
  <2>4. CASE e \in opened[u]
    <3>1. u = job[r].who /\ e = job[r].arg /\ \E n \in feed[u] : n.id = e
      BY <1>6, <2>1, <2>4 DEF UnmarkWrite, FeedType
    <3> QED
      BY <2>3, <3>1
  <2>5. CASE e \notin opened[u]
    BY <1>1, <2>1, <2>3, <2>5
  <2> QED
    BY <2>4, <2>5
<1> QED
  BY <1>2, <1>3, <1>4, <1>5, <1>6, FeedSteps

(* Shifts keep some length, but for those of crossed changes.              *)
LEMMA ShiftStep ==
  FeedType /\ JobInv /\ PatchInv /\ ShiftHasLength /\ [Next]_vars => ShiftHasLength'
<1> SUFFICES ASSUME FeedType, JobInv, PatchInv, ShiftHasLength, [Next]_vars,
                    NEW w \in Workers
             PROVE  staff'[w].start # staff'[w].end \/ w \in crossed'
  BY DEF ShiftHasLength
<1>1. staff[w].start # staff[w].end \/ w \in crossed
  BY DEF ShiftHasLength
<1>2. CASE UNCHANGED <<staff, crossed>>
  BY <1>1, <1>2
<1>3. ASSUME NEW r \in Requests, CreateEmployee(r) \/ RemoveWrite(r)
      PROVE  staff'[w].start # staff'[w].end \/ w \in crossed'
  BY <1>1, <1>3 DEF CreateEmployee, RemoveWrite, FeedType
<1>4. ASSUME NEW r \in Requests, PatchWrite(r)
      PROVE  staff'[w].start # staff'[w].end \/ w \in crossed'
  <2>1. job[r].who \in Workers /\ job[r].arg \in Patches
    BY <1>4 DEF PatchWrite, Op, JobInv
  <2>2. CASE w # job[r].who
    BY <1>1, <1>4, <2>2 DEF PatchWrite, FeedType
  <2>3. CASE w = job[r].who /\ r \notin late
    <3>1. staff'[w] = Merged(job[r].who, job[r].arg)
      BY <1>4, <2>3 DEF PatchWrite, FeedType
    <3> QED
      BY <1>4, <2>3, <3>1 DEF PatchWrite, PatchInv
  <2>4. CASE w = job[r].who /\ r \in late
    BY <1>4, <2>4 DEF PatchWrite
  <2> QED
    BY <2>2, <2>3, <2>4
<1> QED
  BY <1>2, <1>3, <1>4, StaffSteps

(* The time of reading.                                                    *)
LEMMA ReadStep ==
  ASSUME FeedType, JobInv, MarkInv, [Next]_vars,
         NEW u \in Foremen, NEW n \in feed[u], NEW m \in feed'[u],
         n.id = m.id, None \notin {n.read, m.read}
  PROVE  \/ m.read = n.read
         \/ \E r \in late : Op(r, "mark", "write") /\ pc'[r] = "idle"
<1>1. CASE UNCHANGED feed
  BY <1>1 DEF FeedType
<1>2. ASSUME NEW e \in Events \ events, Notify(e) PROVE m.read = n.read
  BY <1>2, NotifyIs DEF FeedType
<1>3. CASE PruneRead
  BY <1>3, PruneIs DEF FeedType
<1>4. ASSUME NEW r \in Requests, MarkWrite(r), r \in late
      PROVE  Op(r, "mark", "write") /\ pc'[r] = "idle"
  BY <1>4 DEF MarkWrite, Write, Answer, FeedType
<1>5. ASSUME NEW r \in Requests,
             (MarkWrite(r) /\ r \notin late) \/ UnmarkWrite(r) \/ MarkAllRead(r)
      PROVE  m.read = n.read
  <2>1. job[r].who \in Foremen
    BY <1>5 DEF MarkWrite, UnmarkWrite, MarkAllRead, Op, JobInv
  <2>3. CASE MarkWrite(r) /\ r \notin late
    <3>1. job[r].who = u => n.id \notin {job[r].arg}
      BY <2>3 DEF MarkWrite, MarkInv
    <3>2. Stamp(job[r].who, {job[r].arg}, now) /\ now \in Nat
      BY <2>3 DEF MarkWrite, FeedType
    <3>3. CASE u # job[r].who
      <4>1. feed'[u] = feed[u]
        BY <2>1, <3>2, <3>3, StampIs
      <4> QED
        BY <4>1 DEF FeedType
    <3>4. CASE u = job[r].who
      <4>1. PICK k \in feed[u] :
              /\ m.id = k.id
              /\ IF k.id \in {job[r].arg} THEN m.read = now ELSE m = k
        BY <2>1, <3>2, <3>4, StampIs
      <4>2. k = n
        BY <4>1 DEF FeedType
      <4> QED
        BY <3>1, <3>4, <4>1, <4>2
    <3> QED
      BY <3>3, <3>4
  <2>4. CASE UnmarkWrite(r)
    <3>1. PICK time \in Nat \union {None} :
            time = None /\ Stamp(job[r].who, {job[r].arg}, time)
      BY <2>4, Unstamps
    <3>2. CASE u # job[r].who
      <4>1. Stamp(job[r].who, {job[r].arg}, time)
        BY <3>1
      <4>2. feed'[u] = feed[u]
        BY <2>1, <3>2, <4>1, StampIs
      <4> QED
        BY <4>2 DEF FeedType
    <3>3. CASE u = job[r].who
      <4>1. PICK k \in feed[u] :
              /\ m.id = k.id
              /\ IF k.id \in {job[r].arg} THEN m.read = None ELSE m = k
        BY <2>1, <3>1, <3>3, StampIs
      <4>2. k = n
        BY <4>1 DEF FeedType
      <4> QED
        BY <4>1, <4>2
    <3> QED
      BY <3>2, <3>3
  <2>5. CASE MarkAllRead(r)
    <3>1. job[r].who = u => n.id \notin {k.id : k \in Unread(u)}
      BY DEF Unread, FeedType
    <3>2. Stamp(job[r].who, {k.id : k \in Unread(job[r].who)}, now) /\ now \in Nat
      BY <2>5 DEF MarkAllRead, FeedType
    <3> DEFINE unread == {k.id : k \in Unread(job[r].who)}
    <3> HIDE DEF unread
    <3>3. Stamp(job[r].who, unread, now)
      BY <3>2 DEF unread
    <3>4. CASE u # job[r].who
      <4>1. feed'[u] = feed[u]
        BY <2>1, <3>2, <3>3, <3>4, StampIs
      <4> QED
        BY <4>1 DEF FeedType
    <3>5. CASE u = job[r].who
      <4>1. PICK k \in feed[u] :
              /\ m.id = k.id
              /\ IF k.id \in unread THEN m.read = now ELSE m = k
        BY <2>1, <3>2, <3>3, <3>5, StampIs
      <4>2. k = n
        BY <4>1 DEF FeedType
      <4>3. n.id \notin unread
        BY <3>1, <3>5 DEF unread
      <4> QED
        BY <4>1, <4>2, <4>3
    <3> QED
      BY <3>4, <3>5
  <2> QED
    BY <1>5, <2>3, <2>4, <2>5
<1> QED
  BY <1>1, <1>2, <1>3, <1>4, <1>5, FeedSteps

-----------------------------------------------------------------------------
(* The newest rows have one of each id there is, as new as any of it.      *)
LEMMA NewestIs ==
  ASSUME NEW rows \in SUBSET Cell, IsFiniteSet(rows)
  PROVE  /\ NewestIn(rows) \subseteq rows
         /\ \A n, m \in NewestIn(rows) : n.id = m.id => n = m
         /\ \A row \in rows : \E n \in NewestIn(rows) : n.id = row.id /\ n.key >= row.key
<1>1. \A c \in rows : c \in Cell /\ c.key \in Int
  BY DEF Cell
<1>2. NewestIn(rows) \subseteq rows
  BY DEF NewestIn
<1>3. ASSUME NEW n \in NewestIn(rows), NEW m \in NewestIn(rows), n.id = m.id PROVE n = m
  <2>1. n.key <= m.key /\ m.key <= n.key
    BY <1>3 DEF NewestIn
  <2>2. n \in rows /\ m \in rows
    BY <1>2
  <2>3. n.key = m.key
    BY <1>1, <2>1, <2>2
  <2> QED
    BY <1>1, <1>3, <2>2, <2>3 DEF Cell
<1>4. ASSUME NEW row \in rows
      PROVE  \E n \in NewestIn(rows) : n.id = row.id /\ n.key >= row.key
  <2> DEFINE S == {m \in rows : m.id = row.id}
             R == {v \in S \X S : v[1].key <= v[2].key}
  <2>1. IsFiniteSet(S) /\ row \in S
    BY FS_Subset
  <2>2. \A a, b \in S : <<a, b>> \in R <=> a.key <= b.key
    OBVIOUS
  <2>3. \A a \in S : a.key \in Int /\ a \in rows /\ a.id = row.id
    BY <1>1
  <2>4. \A a \in rows : a.id = row.id => a \in S
    OBVIOUS
  <2> HIDE DEF R, S
  <2>5. Total(S, R) /\ Transitive(S, R)
    BY <2>2, <2>3 DEF Total, Transitive
  <2>6. PICK n \in S : \A x \in S : x = n \/ <<x, n>> \in R
    BY <2>1, <2>5, HasLast
  <2>7. ASSUME NEW x \in S PROVE x.key <= n.key
    <3>1. CASE x = n
      BY <2>3, <3>1
    <3>2. CASE <<x, n>> \in R
      BY <2>2, <3>2
    <3> QED
      BY <2>6, <3>1, <3>2
  <2>8. n \in NewestIn(rows)
    BY <2>3, <2>4, <2>7 DEF NewestIn
  <2>9. n.key >= row.key
    BY <2>1, <2>3, <2>7
  <2> QED
    BY <2>3, <2>8, <2>9
<1> QED
  BY <1>2, <1>3, <1>4

(* The values SelectFresh goes through exist, and each follows from the    *)
(* one before.                                                             *)
LEMMA SelectFreshTable ==
  ASSUME NEW X, NEW s \in Seq(X), NEW K
  PROVE  \E f : /\ f[0] = <<>>
                /\ \A n \in 1..Len(s) :
                     f[n] = IF s[n] \in K \union ToSet(f[n - 1]) THEN f[n - 1]
                            ELSE Append(f[n - 1], s[n])
                /\ SelectFresh(s, K) = f[Len(s)]
<1> DEFINE Entry(f, n) == IF n = 0 THEN <<>>
                          ELSE IF s[n] \in K \union ToSet(f[n - 1]) THEN f[n - 1]
                          ELSE Append(f[n - 1], s[n])
           Table(f, m) == f = [n \in 0..m |-> Entry(f, n)]
           T == {m \in Nat : ~ \E f : Table(f, m)}
<1>1. ASSUME T # {} PROVE FALSE
  <2>1. PICK m \in T : \A k \in T : m <= k
    BY <1>1, LeastNumber
  <2>2. CASE m = 0
    <3>1. Table([n \in 0..0 |-> <<>>], 0)
      OBVIOUS
    <3> QED
      BY <2>1, <2>2, <3>1
  <2>3. CASE m # 0
    <3>1. m \in Nat /\ m - 1 \in Nat /\ ~ (m <= m - 1)
      BY <2>3
    <3>2. PICK f : Table(f, m - 1)
      BY <2>1, <3>1
    <3> DEFINE g == [n \in 0..m |-> IF n = m THEN Entry(f, m) ELSE f[n]]
    <3>3. \A n \in 0..m : g[n] = Entry(g, n)
      <4> TAKE n \in 0..m
      <4>1. CASE n = m
        <5>1. n - 1 \in 0..m /\ n - 1 # m
          BY <2>3, <3>1, <4>1
        <5>2. g[n - 1] = f[n - 1]
          BY <5>1
        <5>3. g[n] = Entry(f, m)
          BY <4>1
        <5> HIDE DEF g
        <5> QED
          BY <4>1, <5>2, <5>3
      <4>2. CASE n # m
        <5>1. n \in 0..m - 1
          BY <3>1, <4>2
        <5>3. f[n] = Entry(f, n)
          BY <3>2, <5>1
        <5>2. n # 0 => g[n - 1] = f[n - 1]
          BY <4>2
        <5>4. g[n] = f[n]
          BY <4>2
        <5> HIDE DEF g
        <5> QED
          BY <5>2, <5>3, <5>4
      <4> QED
        BY <4>1, <4>2
    <3>4. Table(g, m)
      BY <3>3
    <3> QED
      BY <2>1, <3>4
  <2> QED
    BY <2>2, <2>3
<1>2. Len(s) \in Nat
  BY LenProperties
<1>3. \E f : Table(f, Len(s))
  BY <1>1, <1>2
<1> DEFINE upTo == CHOOSE f : Table(f, Len(s))
<1>4. Table(upTo, Len(s))
  BY <1>3
<1>5. SelectFresh(s, K) = upTo[Len(s)]
  BY DEF SelectFresh
<1> HIDE DEF upTo
<1>6. \A n \in 0..Len(s) : upTo[n] = Entry(upTo, n)
  BY <1>4
<1> WITNESS upTo
<1> QED
  BY <1>2, <1>5, <1>6

(* What is selected is of the batch, is not known, and is there once.      *)
LEMMA SelectFreshIs ==
  ASSUME NEW X, NEW s \in Seq(X), NEW K
  PROVE  /\ SelectFresh(s, K) \in Seq(X) /\ Distinct(SelectFresh(s, K))
         /\ ToSet(SelectFresh(s, K)) \subseteq ToSet(s) \ K
<1>1. Len(s) \in Nat /\ DOMAIN s = 1..Len(s) /\ \A i \in 1..Len(s) : s[i] \in X
  BY LenProperties
<1>2. PICK f : /\ f[0] = <<>>
               /\ \A n \in 1..Len(s) :
                    f[n] = IF s[n] \in K \union ToSet(f[n - 1]) THEN f[n - 1]
                           ELSE Append(f[n - 1], s[n])
               /\ SelectFresh(s, K) = f[Len(s)]
  BY SelectFreshTable
<1> DEFINE P(n) == f[n] \in Seq(X) /\ Distinct(f[n]) /\ ToSet(f[n]) \subseteq ToSet(s) \ K
           T == {n \in 0..Len(s) : ~P(n)}
<1>3. ASSUME T # {} PROVE FALSE
  <2>1. T \in SUBSET Nat
    OBVIOUS
  <2>2. PICK m \in T : \A k \in T : m <= k
    <3> HIDE DEF T
    <3> QED
      BY <1>3, <2>1, LeastNumber
  <2>3. m # 0
    <3>1. P(0)
      BY <1>2, ListEmpty
    <3> QED
      BY <2>2, <3>1
  <2>4. m \in 1..Len(s) /\ m - 1 \in 0..Len(s) /\ ~ (m <= m - 1) /\ ~P(m)
    BY <1>1, <2>2, <2>3
  <2>5. P(m - 1)
    BY <2>2, <2>4
  <2>6. f[m] = IF s[m] \in K \union ToSet(f[m - 1]) THEN f[m - 1]
               ELSE Append(f[m - 1], s[m])
    BY <1>2, <2>4
  <2>7. s[m] \in X /\ s[m] \in ToSet(s)
    BY <1>1, <2>4 DEF ToSet
  <2>8. CASE s[m] \in K \union ToSet(f[m - 1])
    BY <2>4, <2>5, <2>6, <2>8
  <2>9. CASE s[m] \notin K \union ToSet(f[m - 1])
    <3> DEFINE l == f[m - 1]
               e == s[m]
    <3>1. /\ l \in Seq(X) /\ e \in X /\ f[m] = Append(l, e) /\ Distinct(l)
          /\ ToSet(l) \subseteq ToSet(s) \ K /\ e \notin K \union ToSet(l) /\ e \in ToSet(s)
      BY <2>5, <2>6, <2>7, <2>9
    <3> HIDE DEF l, e, P
    <3>2. Append(l, e) \in Seq(X) /\ Distinct(Append(l, e)) /\ ToSet(Append(l, e)) \subseteq ToSet(s) \ K
      BY <3>1, ListAppend, AppendProperties
    <3> QED
      BY <2>4, <3>1, <3>2 DEF P
  <2> QED
    BY <2>8, <2>9
<1>4. P(Len(s))
  BY <1>1, <1>3
<1> QED
  BY <1>2, <1>4

(* The range that is asked for has every time of the batch in it.          *)
LEMMA KnownIs ==
  ASSUME NEW w, NEW b \in Batches, NEW t \in ToSet(b), samples[w][t] # <<>>
  PROVE  t \in KnownIn(w, b)
<1> DEFINE S == ToSet(b)
<1>1. b \in Seq(Times) /\ Times \subseteq Nat
  BY WorkerFeedAssumption
<1>2. DOMAIN b = 1..Len(b) /\ Len(b) \in Nat /\ \A i \in 1..Len(b) : b[i] \in Nat
  BY <1>1, LenProperties
<1>3. S \in SUBSET Nat /\ S # {} /\ t \in S
  BY <1>2 DEF ToSet
<1>4. IsFiniteSet(S)
  <2>1. IsFiniteSet(1..Len(b))
    BY <1>2, FS_Interval
  <2>2. S = {b[i] : i \in 1..Len(b)}
    BY <1>2 DEF ToSet
  <2> QED
    BY <2>1, <2>2, FiniteImage
<1> HIDE DEF S
<1>5. Min(S) \in Nat /\ Min(S) <= t
  <2>1. PICK m \in S : \A k \in S : m <= k
    BY <1>3, LeastNumber
  <2>2. Min(S) \in S /\ \A k \in S : Min(S) <= k
    BY <2>1 DEF Min
  <2> QED
    BY <1>3, <2>2
<1>6. Max(S) \in Nat /\ t <= Max(S)
  <2> DEFINE R == {v \in S \X S : v[1] <= v[2]}
  <2>1. Total(S, R) /\ Transitive(S, R)
    <3>1. \A x, y \in S : <<x, y>> \in R <=> x <= y
      OBVIOUS
    <3> HIDE DEF R
    <3> QED
      BY <1>3, <3>1 DEF Total, Transitive
  <2>2. \A x, y \in S : <<x, y>> \in R <=> x <= y
    OBVIOUS
  <2> HIDE DEF R
  <2>3. PICK m \in S : \A x \in S : x = m \/ <<x, m>> \in R
    BY <1>3, <1>4, <2>1, HasLast
  <2>4. ASSUME NEW x \in S PROVE m >= x
    <3>1. x \in Nat /\ m \in Nat
      BY <1>3
    <3>2. CASE x = m
      BY <3>1, <3>2
    <3>3. CASE <<x, m>> \in R
      <4>1. x <= m
        BY <2>2, <3>3
      <4> QED
        BY <3>1, <4>1
    <3> QED
      BY <2>3, <3>2, <3>3
  <2>5. Max(S) \in S /\ \A k \in S : Max(S) >= k
    BY <2>4 DEF Max
  <2> QED
    BY <1>3, <2>5
<1>7. t \in Nat
  BY <1>3
<1> QED
  BY <1>5, <1>6, <1>7 DEF KnownIn, S

(* What one step of the system is for one request: nothing, its end, the   *)
(* next of its statements, or a page.                                      *)
Untouched(q) ==
  /\ pc'[q] = pc[q] /\ job'[q] = job[q] /\ fresh'[q] = fresh[q] /\ page'[q] = page[q]
  /\ q \in late => q \in late'
  /\ q \in late' => pc[q] = "write"

Answered(q) ==
  /\ pc'[q] = "idle" /\ job'[q] = NoJob /\ fresh'[q] = <<>> /\ page'[q] = NoWalk
  /\ q \notin late'

Went(q, step) ==
  /\ pc'[q] = step /\ job'[q] = job[q] /\ fresh'[q] = fresh[q] /\ page'[q] = page[q]
  /\ q \notin late'

Listed(q) ==
  /\ job'[q] = job[q] /\ fresh'[q] = fresh[q]
  /\ q \notin late'
  /\ NextPage(q) \/ GroupLatest(q) \/ FetchLatest(q)

(* The kinds of request; a request that is idle has none.                  *)
LEMMA OpsAre ==
  /\ Ops = {"arrive", "batch", "stream", "mark", "unmark", "all", "create", "patch",
            "remove", "walk", "latest"}
  /\ NoJob.op \notin Ops
  /\ NoWalk \in [cursor : Cell \union {None}, seen : Seq(Cell)]
<1>1. Ops = {"arrive", "batch", "stream", "mark", "unmark", "all", "create", "patch",
             "remove", "walk", "latest"}
  BY DEF Ops, Tables
<1>2. NoJob.op = "none"
  BY DEF NoJob
<1>3. <<>> \in Seq(Cell)
  BY EmptySeq
<1>4. NoWalk \in [cursor : Cell \union {None}, seen : Seq(Cell)]
  BY <1>3 DEF NoWalk
<1> QED
  BY <1>1, <1>2, <1>4

(* A new request starts where its kind does.                               *)
LEMMA JobsAsked ==
  ASSUME events \in SUBSET Events, NEW j \in Jobs
  PROVE  Asked(j, FirstStep[j.op])
<1>1. /\ FirstStep["arrive"] = "check" /\ FirstStep["batch"] = "check" /\ FirstStep["stream"] = "check"
      /\ FirstStep["mark"] = "look" /\ FirstStep["unmark"] = "look" /\ FirstStep["all"] = "write"
      /\ FirstStep["create"] = "write" /\ FirstStep["patch"] = "look" /\ FirstStep["remove"] = "look"
      /\ FirstStep["walk"] = "page" /\ FirstStep["latest"] = "page"
  BY DEF FirstStep
<1>2. CASE j \in [op : {"arrive"}, who : Workers, arg : Times]
  BY <1>1, <1>2, OpsAre DEF Asked, Listing
<1>3. CASE j \in [op : {"batch"}, who : OnSite, arg : Batches]
  BY <1>1, <1>3, OpsAre DEF Asked, Listing
<1>4. CASE j \in [op : {"stream"}, who : OnSite, arg : Times]
  BY <1>1, <1>4, OpsAre DEF Asked, Listing
<1>5. CASE j.op \in {"mark", "unmark", "all", "create", "patch", "remove"}
  BY <1>1, <1>5, OpsAre DEF Asked, Listing
<1>6. CASE j \in [op : {"walk"}, who : Foremen, arg : {"unread", "staff"}]
  BY <1>1, <1>6, OpsAre DEF Asked, Listing
<1>7. CASE j \in [op : {"latest"}, who : Foremen, arg : {None}]
  BY <1>1, <1>7, OpsAre DEF Asked, Listing
<1> QED
  BY <1>2, <1>3, <1>4, <1>5, <1>6, <1>7 DEF Jobs

(* What one step of the system is for a request q.                         *)
LEMMA Moves ==
  ASSUME Books, [Next]_vars, NEW q \in Requests
  PROVE  \/ Untouched(q) \/ Answered(q) \/ Request(q)
         \/ \E step \in {"look", "write"} :
              /\ Went(q, step)
              /\ \/ Check(q) \/ ArrivalLook(q) \/ MarkLook(q) \/ UnmarkLook(q)
                 \/ PatchLook(q) \/ RemoveLook(q)
              /\ ~Answer(q)
         \/ BatchLook(q) /\ ~Answer(q)
         \/ Listed(q)
<1> DEFINE Goal ==
      \/ Untouched(q) \/ Answered(q) \/ Request(q)
      \/ \E step \in {"look", "write"} :
           /\ Went(q, step)
           /\ \/ Check(q) \/ ArrivalLook(q) \/ MarkLook(q) \/ UnmarkLook(q)
              \/ PatchLook(q) \/ RemoveLook(q)
           /\ ~Answer(q)
      \/ BatchLook(q) /\ ~Answer(q)
      \/ Listed(q)
<1> USE DEF Books
<1>1. ASSUME NEW r \in Requests, Answer(r), late' = late \/ late' = late \ {r},
             pc[r] # "write" \/ late' = late \ {r}
      PROVE  Goal
  BY <1>1 DEF Answer, Untouched, Answered
<1>2. ASSUME NEW r \in Requests, Write(r) PROVE Goal
  BY <1>2 DEF Write, Answer, Untouched, Answered
<1>3. ASSUME NEW r \in Requests, Request(r) PROVE Goal
  <2>1. CASE q = r
    BY <1>3, <2>1
  <2>2. CASE q # r
    BY <1>3, <2>2 DEF Request, Untouched
  <2> QED
    BY <2>1, <2>2
<1>4. ASSUME NEW r \in Requests,
             \/ ArrivalWrite(r) \/ MarkWrite(r) \/ UnmarkWrite(r) \/ MarkAllRead(r)
             \/ CreateEmployee(r) \/ PatchWrite(r) \/ RemoveWrite(r)
             \/ BatchWrite(r) \/ StreamWrite(r)
      PROVE  Write(r)
  BY <1>4 DEF ArrivalWrite, MarkWrite, UnmarkWrite, MarkAllRead, CreateEmployee,
     PatchWrite, RemoveWrite, BatchWrite, StreamWrite
<1>5. ASSUME NEW r \in Requests, Abort(r) \/ LeaveList(r) PROVE Goal
  BY <1>1, <1>5 DEF Abort, LeaveList
<1>6. ASSUME NEW r \in Requests,
             MarkLook(r) \/ PatchLook(r) \/ Check(r) \/ UnmarkLook(r)
             \/ ArrivalLook(r) \/ RemoveLook(r)
      PROVE  Goal
  <2>0. late' = late /\ pc[r] \in {"check", "look"}
    BY <1>6 DEF MarkLook, PatchLook, Check, ArrivalLook, UnmarkLook, RemoveLook, Op
  <2>1. CASE Answer(r)
    BY <1>1, <2>0, <2>1
  <2>2. CASE ~Answer(r)
    <3>1. PICK step \in {"look", "write"} : Goto(r, step)
      BY <1>6, <2>2 DEF MarkLook, PatchLook, Check, ArrivalLook, UnmarkLook, RemoveLook
    <3>2. CASE q = r
      <4>1. Went(q, step)
        BY <2>0, <3>1, <3>2 DEF Goto, Went
      <4> QED
        BY <1>6, <2>2, <3>2, <4>1
    <3>3. CASE q # r
      BY <2>0, <3>1, <3>3 DEF Goto, Untouched
    <3> QED
      BY <3>2, <3>3
  <2> QED
    BY <2>1, <2>2
<1>7. ASSUME NEW r \in Requests, BatchLook(r) PROVE Goal
  <2>0. late' = late /\ pc[r] = "look"
    BY <1>7 DEF BatchLook, Op
  <2>1. CASE Answer(r)
    BY <1>1, <2>0, <2>1
  <2>2. CASE ~Answer(r) /\ q = r
    BY <1>7, <2>2
  <2>3. CASE ~Answer(r) /\ q # r
    BY <1>7, <2>0, <2>3 DEF BatchLook, Untouched
  <2> QED
    BY <2>1, <2>2, <2>3
<1>8. ASSUME NEW r \in Requests, NextPage(r) \/ GroupLatest(r) \/ FetchLatest(r) PROVE Goal
  <2>1. /\ job' = job /\ late' = late /\ fresh' = fresh /\ pc[r] # "write"
        /\ \E step \in Listing : pc' = [pc EXCEPT ![r] = step]
        /\ \E p : page' = [page EXCEPT ![r] = p]
    <3>1. CASE NextPage(r)
      BY <3>1 DEF NextPage, Op, Listing
    <3>2. CASE GroupLatest(r)
      BY <3>2 DEF GroupLatest, Op, Listing
    <3>3. CASE FetchLatest(r)
      BY <3>3 DEF FetchLatest, Op, Listing
    <3> QED
      BY <1>8, <3>1, <3>2, <3>3
  <2>2. CASE q = r
    BY <1>8, <2>1, <2>2 DEF Listed
  <2>3. CASE q # r
    BY <2>1, <2>3 DEF Untouched
  <2> QED
    BY <2>2, <2>3
<1>9. ASSUME UNCHANGED <<pc, job, fresh, page, late>> PROVE Goal
  BY <1>9 DEF Untouched
<1> HIDE DEF Goal
<1>10. ASSUME NEW r \in Requests, Step(r) PROVE Goal
  BY <1>2, <1>3, <1>4, <1>5, <1>6, <1>7, <1>8, <1>10 DEF Step
<1>11. ASSUME Report \/ PruneRead \/ PruneSamples \/ Tick \/ UNCHANGED vars
       PROVE  Goal
  BY <1>9, <1>11 DEF Report, PruneRead, PruneSamples, Tick, running, vars
<1>12. Goal
  BY <1>10, <1>11, Kinds
<1> QED
  BY <1>12 DEF Goal

(* The rows of a list are finitely many, each with a key and an id.        *)
LEMMA RowsAre ==
  ASSUME FeedType, SoFar, NEW j,
         j.op \in {"walk", "latest"}, j.op = "walk" => j.who \in Foremen
  PROVE  Rows(j) \in SUBSET Cell /\ IsFiniteSet(Rows(j))
<1>0. now \in Nat /\ IsFiniteSet(0..now) /\ Workers \subseteq Nat /\ IsFiniteSet(Workers)
      /\ Names \subseteq Nat /\ MaxEvents \in Nat
  <2>1. now \in Nat
    BY DEF FeedType
  <2>2. IsFiniteSet(0..now)
    BY <2>1, FS_Interval
  <2> QED
    BY <2>1, <2>2, WorkerFeedAssumption
<1>1. CASE j.op = "latest"
  <2> DEFINE P == Workers \X (0..now)
             f == [v \in P |-> [key |-> v[2], id |-> v[1]]]
             known == {v \in P : \E t \in Times : v[2] \in ToSet(samples[v[1]][t])}
  <2>1. Rows(j) = {[key |-> s[2], id |-> s[1]] : s \in known}
    BY <1>1 DEF Rows
  <2>2. IsFiniteSet({f[x] : x \in P})
    <3>1. IsFiniteSet(P)
      BY <1>0, FS_Product
    <3> HIDE DEF P, f
    <3> QED
      BY <3>1, FiniteImage
  <2>3. Rows(j) \subseteq {f[x] : x \in P}
    BY <2>1
  <2>4. {f[x] : x \in P} \subseteq Cell
    <3>1. ASSUME NEW x \in P PROVE f[x] \in Cell
      <4>1. x[1] \in Workers /\ x[2] \in 0..now
        OBVIOUS
      <4>2. x[1] \in Nat /\ x[2] \in Nat
        <5> HIDE DEF f, P
        <5>1. x[2] \in Nat
          BY <1>0, <4>1
        <5>2. x[1] \in Nat
          BY <1>0, <4>1
        <5> QED
          BY <5>1, <5>2
      <4> QED
        BY <4>2 DEF Cell
    <3> QED
      BY <3>1
  <2> HIDE DEF f, P
  <2> QED
    BY <2>2, <2>3, <2>4, FS_Subset
<1>2. CASE j.op = "walk" /\ j.arg = "unread"
  <2> DEFINE P == Events \X (0..now)
             f == [v \in P |-> [key |-> v[2], id |-> v[1]]]
  <2>1. Rows(j) = {[key |-> n.at, id |-> n.id] : n \in Unread(j.who)}
    BY <1>2 DEF Rows
  <2>2. IsFiniteSet({f[x] : x \in P})
    <3>1. IsFiniteSet(Events)
      BY <1>0, FS_Interval DEF Events
    <3>2. IsFiniteSet(P)
      BY <1>0, <3>1, FS_Product
    <3> HIDE DEF P, f
    <3> QED
      BY <3>2, FiniteImage
  <2>3. Rows(j) \subseteq {f[x] : x \in P}
    <3>1. ASSUME NEW n \in Unread(j.who) PROVE [key |-> n.at, id |-> n.id] \in {f[x] : x \in P}
      <4>1. n \in feed[j.who] /\ j.who \in Foremen
        BY <1>2 DEF Unread
      <4>2. n.at \in 0..now /\ n.id \in Events
        BY <4>1 DEF SoFar, FeedType
      <4>3. <<n.id, n.at>> \in P /\ f[<<n.id, n.at>>] = [key |-> n.at, id |-> n.id]
        BY <4>2
      <4> QED
        BY <4>3
    <3> HIDE DEF f, P
    <3> QED
      BY <2>1, <3>1
  <2>4. {f[x] : x \in P} \subseteq Cell
    <3>1. \A x \in P : x[1] \in Nat /\ x[2] \in Nat
      BY <1>0 DEF Events
    <3> QED
      BY <3>1 DEF Cell
  <2> HIDE DEF f, P
  <2> QED
    BY <2>2, <2>3, <2>4, FS_Subset
<1>3. CASE j.op = "walk" /\ j.arg # "unread"
  <2> DEFINE f == [w \in Workers |-> [key |-> staff[w].name, id |-> w]]
             P == {v \in Workers : staff[v].is = "live"}
  <2>1. Rows(j) = {f[w] : w \in P}
    BY <1>3 DEF Rows
  <2>2. \A w \in P : f[w] \in Cell
    BY <1>0 DEF Cell, FeedType
  <2>3. IsFiniteSet(P)
    BY <1>0, FS_Subset
  <2> HIDE DEF f, P
  <2> QED
    BY <2>1, <2>2, <2>3, FiniteImage
<1> QED
  BY <1>1, <1>2, <1>3

(* A walk has no two rows of one id.                                       *)
LEMMA RowsDiffer ==
  ASSUME FeedType, NEW j, j.op = "walk", j.who \in Foremen,
         NEW a \in Rows(j), NEW b \in Rows(j), a.id = b.id
  PROVE  a = b
<1>1. CASE j.arg = "unread"
  <2>1. PICK n \in Unread(j.who) : a = [key |-> n.at, id |-> n.id]
    BY <1>1 DEF Rows
  <2>2. PICK m \in Unread(j.who) : b = [key |-> m.at, id |-> m.id]
    BY <1>1 DEF Rows
  <2>3. n.id = m.id
    BY <2>1, <2>2
  <2>4. n = m
    BY <2>3 DEF Unread, FeedType
  <2> QED
    BY <2>1, <2>2, <2>4
<1>2. CASE j.arg # "unread"
  <2>1. PICK w \in Workers : a = [key |-> staff[w].name, id |-> w]
    BY <1>2 DEF Rows
  <2>2. PICK v \in Workers : b = [key |-> staff[v].name, id |-> v]
    BY <1>2 DEF Rows
  <2> QED
    BY <2>1, <2>2
<1> QED
  BY <1>1, <1>2

-----------------------------------------------------------------------------
(* The statements of a walk keep its type.                                 *)
LEMMA PagesStep ==
  ASSUME FeedType, SoFar, BookInv, NEW q \in Requests, Listed(q)
  PROVE  /\ page'[q] \in [cursor : Cell \union {None}, seen : Seq(Cell)]
         /\ pc[q] \in {"page", "fetch"} /\ Asked(job[q], pc[q])
         /\ pc'[q] \in Listing /\ (pc'[q] = "fetch" => job[q].op = "latest")
<1>1. page[q] \in [cursor : Cell \union {None}, seen : Seq(Cell)] /\ q \in DOMAIN page
      /\ q \in DOMAIN pc
  BY DEF BookInv, Books
<1>2. pc[q] \in {"page", "fetch"} /\ job[q].op \in {"walk", "latest"}
  BY DEF Listed, NextPage, GroupLatest, FetchLatest, Op
<1>3. Asked(job[q], pc[q])
  BY <1>2 DEF BookInv, Course
<1>4. Rows(job[q]) \in SUBSET Cell /\ IsFiniteSet(Rows(job[q]))
  BY <1>2, <1>3, RowsAre DEF Asked
<1>5. CASE NextPage(q)
  <2> DEFINE d == job[q].arg = "unread"
             p == PageAfter(Rows(job[q]), page[q].cursor, Limit, d)
  <2>1. page'[q] = [cursor |-> p.next, seen |-> page[q].seen \o p.items]
        /\ pc'[q] = IF p.next = None THEN "end" ELSE "page"
    BY <1>1, <1>5 DEF NextPage
  <2>2. d \in BOOLEAN /\ Limit \in Nat \ {0} /\ page[q].cursor \in Cell \union {None}
        /\ page[q].seen \in Seq(Cell)
    BY <1>1, WorkerFeedAssumption
  <2> HIDE DEF d
  <2>3. p.items \in Seq(Cell) /\ p.next \in Cell \union {None}
    BY <1>4, <2>2, PageIs
  <2> HIDE DEF p
  <2>4. page[q].seen \o p.items \in Seq(Cell)
    BY <2>2, <2>3, ConcatProperties
  <2> QED
    BY <1>2, <1>3, <2>1, <2>3, <2>4 DEF Listing
<1>6. CASE GroupLatest(q)
  <2> DEFINE new == SetToSeq(NewestIn(Rows(job[q])))
  <2>1. page'[q] = [page[q] EXCEPT !.seen = new]
        /\ pc'[q] = IF new = <<>> THEN "end" ELSE "fetch"
    BY <1>1, <1>6 DEF GroupLatest
  <2>2. NewestIn(Rows(job[q])) \in SUBSET Cell /\ IsFiniteSet(NewestIn(Rows(job[q])))
    BY <1>4, NewestIs, FS_Subset
  <2>3. new \in Seq(Cell)
    BY <2>2, AsList, SeqMonotonic
  <2> HIDE DEF new
  <2> QED
    BY <1>1, <1>2, <1>3, <1>6, <2>1, <2>3 DEF Listing, GroupLatest, Op
<1>7. CASE FetchLatest(q)
  <2> DEFINE new == Only(page[q].seen, Rows(job[q]))
  <2>1. page'[q] = [page[q] EXCEPT !.seen = new] /\ pc'[q] = "end"
    BY <1>1, <1>7 DEF FetchLatest
  <2>2. page[q].seen \in Seq(Cell)
    BY <1>1
  <2>3. new \in Seq(Cell)
    BY <2>2, OnlyIs
  <2> HIDE DEF new
  <2> QED
    BY <1>1, <1>2, <1>3, <2>1, <2>3 DEF Listing
<1> QED
  BY <1>5, <1>6, <1>7 DEF Listed

(* A look that does not answer goes on to what its kind does next.         *)
LEMMA LooksAre ==
  ASSUME NEW q \in Requests, NEW step \in {"look", "write"}, Course(q), Went(q, step),
         \/ Check(q) \/ ArrivalLook(q) \/ MarkLook(q) \/ UnmarkLook(q)
         \/ PatchLook(q) \/ RemoveLook(q),
         ~Answer(q), q \in DOMAIN pc
  PROVE  Asked(job[q], step) /\ pc[q] \in {"check", "look"}
         /\ ~(step = "write" /\ job[q].op = "batch")
<1>1. pc[q] \in {"check", "look"}
  BY DEF Check, ArrivalLook, MarkLook, UnmarkLook, PatchLook, RemoveLook, Op
<1>2. Asked(job[q], pc[q])
  BY <1>1 DEF Course
<1>3. CASE Check(q)
  <2>1. pc[q] = "check" /\ (job[q].op = "arrive" => job[q].who \in OnSite)
        /\ Goto(q, IF job[q].op = "stream" THEN "write" ELSE "look")
    BY <1>3 DEF Check, Assigned
  <2>2. step = IF job[q].op = "stream" THEN "write" ELSE "look"
    BY <2>1 DEF Goto, Went
  <2>3. job[q].op \in {"arrive", "batch", "stream"}
    BY <1>2, <2>1 DEF Asked
  <2> QED
    BY <1>1, <1>2, <2>1, <2>2, <2>3 DEF Asked, Listing
<1>4. CASE ArrivalLook(q) \/ MarkLook(q) \/ UnmarkLook(q) \/ PatchLook(q) \/ RemoveLook(q)
  <2>1. pc[q] = "look" /\ job[q].op \in {"arrive", "mark", "unmark", "patch", "remove"}
    BY <1>4 DEF ArrivalLook, MarkLook, UnmarkLook, PatchLook, RemoveLook, Op
  <2> QED
    BY <1>1, <1>2, <2>1 DEF Asked, Listing
<1> QED
  BY <1>3, <1>4

(* A batch that goes on has samples that are not stored, each once.        *)
LEMMA BatchIs ==
  ASSUME Books, NEW q \in Requests, Course(q), BatchLook(q), ~Answer(q)
  PROVE  /\ pc'[q] = "write" /\ job'[q] = job[q] /\ page'[q] = page[q] /\ q \notin late'
         /\ job[q].op = "batch" /\ Asked(job[q], pc[q]) /\ pc[q] = "look"
         /\ fresh'[q] \in Seq(Times) /\ fresh'[q] # <<>> /\ Distinct(fresh'[q])
         /\ \A t \in ToSet(fresh'[q]) : t \in Times /\ samples[job[q].who][t] = <<>>
<1> DEFINE known == KnownIn(job[q].who, job[q].arg)
           new == SelectFresh(job[q].arg, known)
<1>1. /\ pc[q] = "look" /\ job[q].op = "batch" /\ new # <<>>
      /\ fresh' = [fresh EXCEPT ![q] = new]
      /\ pc' = [pc EXCEPT ![q] = "write"]
      /\ job' = job /\ page' = page /\ late' = late
  BY DEF BatchLook, Op
<1>2. Asked(job[q], pc[q])
  BY <1>1 DEF Course
<1>3. job[q].arg \in Batches /\ job[q].who \in OnSite
  BY <1>1, <1>2 DEF Asked
<1>4. job[q].arg \in Seq(Times)
  BY <1>3, WorkerFeedAssumption
<1> HIDE DEF known
<1>5. new \in Seq(Times) /\ Distinct(new) /\ ToSet(new) \subseteq ToSet(job[q].arg) \ known
  BY <1>4, SelectFreshIs
<1>6. fresh'[q] = new
  BY <1>1 DEF Books
<1> HIDE DEF new
<1>7. ASSUME NEW t \in ToSet(new) PROVE t \in Times /\ samples[job[q].who][t] = <<>>
  <2>1. t \in ToSet(job[q].arg) /\ t \notin known
    BY <1>5
  <2>2. t \in Times
    <3>1. DOMAIN new = 1..Len(new) /\ \A i \in 1..Len(new) : new[i] \in Times
      BY <1>5, LenProperties
    <3> QED
      BY <3>1 DEF ToSet
  <2> QED
    BY <1>3, <2>1, <2>2, KnownIs DEF known
<1> QED
  BY <1>1, <1>2, <1>5, <1>6, <1>7 DEF Books

(* Requests keep their course.                                             *)
LEMMA BookStep == FeedType /\ SoFar /\ BookInv /\ [Next]_vars => BookInv'
<1> SUFFICES ASSUME FeedType, SoFar, BookInv, [Next]_vars PROVE BookInv'
  OBVIOUS
<1>0. Books /\ \A r \in Requests : Course(r)
  BY DEF BookInv
<1>1. ASSUME NEW q \in Requests
      PROVE  /\ Course(q)' /\ page'[q] \in [cursor : Cell \union {None}, seen : Seq(Cell)]
             /\ q \in late' => pc'[q] = "write"
  <2> DEFINE Goal ==
        /\ Course(q)' /\ page'[q] \in [cursor : Cell \union {None}, seen : Seq(Cell)]
        /\ q \in late' => pc'[q] = "write"
  <2>0. page[q] \in [cursor : Cell \union {None}, seen : Seq(Cell)] /\ Course(q)
        /\ q \in DOMAIN pc
    BY <1>0 DEF Books
  <2>1. CASE Untouched(q)
    BY <2>0, <2>1 DEF Untouched, Course
  <2>2. CASE Answered(q)
    BY <2>2, OpsAre DEF Answered, Course
  <2>3. CASE Request(q)
    <3>1. /\ pc[q] = "idle" /\ fresh' = fresh /\ page' = page /\ late' = late
          /\ job'[q] \in Jobs /\ pc'[q] = FirstStep[job'[q].op]
      BY <1>0, <2>3 DEF Request, Books
    <3>2. fresh[q] = <<>> /\ page[q] = NoWalk
      BY <2>0, <3>1 DEF Course, Listing
    <3>3. Asked(job'[q], pc'[q])
      BY <3>1, JobsAsked DEF FeedType
    <3>4. pc'[q] # "idle" /\ ~(pc'[q] = "write" /\ job'[q].op = "batch")
      <4>1. pc'[q] \in {"check", "look", "write", "page"}
        BY <3>1, FirstSteps
      <4>2. job'[q].op = "batch" => pc'[q] = "check"
        BY <3>1 DEF FirstStep
      <4> QED
        BY <4>1, <4>2
    <3>5. q \notin late'
      BY <1>0, <3>1 DEF Books
    <3> QED
      BY <2>0, <3>1, <3>2, <3>3, <3>4, <3>5 DEF Course
  <2>4. ASSUME NEW step \in {"look", "write"}, Went(q, step),
               \/ Check(q) \/ ArrivalLook(q) \/ MarkLook(q) \/ UnmarkLook(q)
               \/ PatchLook(q) \/ RemoveLook(q),
               ~Answer(q)
        PROVE  Goal
    <3>1. Asked(job[q], step) /\ pc[q] \in {"check", "look"}
          /\ ~(step = "write" /\ job[q].op = "batch")
      BY <2>0, <2>4, LooksAre
    <3>2. fresh[q] = <<>> /\ page[q] = NoWalk
      BY <2>0, <3>1 DEF Course, Listing
    <3> QED
      BY <2>0, <2>4, <3>1, <3>2 DEF Course, Went, Listing
  <2>5. CASE BatchLook(q) /\ ~Answer(q)
    <3>1. /\ pc'[q] = "write" /\ job'[q] = job[q] /\ page'[q] = page[q] /\ q \notin late'
          /\ job[q].op = "batch" /\ Asked(job[q], pc[q]) /\ pc[q] = "look"
          /\ fresh'[q] \in Seq(Times) /\ fresh'[q] # <<>> /\ Distinct(fresh'[q])
      BY <1>0, <2>0, <2>5, BatchIs
    <3>2. Asked(job'[q], pc'[q])
      BY <3>1 DEF Asked, Listing
    <3>3. page[q] = NoWalk
      BY <2>0, <3>1 DEF Course, Listing
    <3> QED
      BY <2>0, <3>1, <3>2, <3>3 DEF Course
  <2>6. CASE Listed(q)
    <3>1. /\ page'[q] \in [cursor : Cell \union {None}, seen : Seq(Cell)]
          /\ pc[q] \in {"page", "fetch"} /\ Asked(job[q], pc[q])
          /\ pc'[q] \in Listing /\ (pc'[q] = "fetch" => job[q].op = "latest")
      BY <2>6, PagesStep
    <3>2. job'[q] = job[q] /\ fresh'[q] = fresh[q] /\ q \notin late'
      BY <2>6 DEF Listed
    <3>3. fresh[q] = <<>>
      BY <2>0, <3>1 DEF Course
    <3>4. Asked(job'[q], pc'[q])
      BY <3>1, <3>2 DEF Asked, Listing
    <3> QED
      BY <3>1, <3>2, <3>3, <3>4 DEF Course, Listing
  <2> HIDE DEF Goal
  <2>7. Goal
    <3> USE DEF Goal
    <3> QED
      BY <1>0, <2>1, <2>2, <2>3, <2>4, <2>5, <2>6, Moves
  <2> QED
    BY <2>7 DEF Goal
<1>2. DOMAIN fresh' = Requests /\ page' = [q \in Requests |-> page'[q]]
  <2> DEFINE Goal == DOMAIN fresh' = Requests /\ page' = [q \in Requests |-> page'[q]]
  <2> USE <1>0 DEF Books
  <2>1. ASSUME NEW r \in Requests, Answer(r) PROVE Goal
    BY <2>1 DEF Answer
  <2>2. ASSUME UNCHANGED <<fresh, page>> PROVE Goal
    BY <2>2
  <2>3. ASSUME NEW r \in Requests, Step(r) PROVE Goal
    <3>1. \/ Answer(r) \/ UNCHANGED <<fresh, page>>
          \/ BatchLook(r) /\ ~Answer(r)
          \/ NextPage(r) \/ GroupLatest(r) \/ FetchLatest(r)
      BY <2>3 DEF Step, Request, Abort, Check, ArrivalLook, ArrivalWrite, BatchLook,
         BatchWrite, StreamWrite, MarkLook, MarkWrite, UnmarkLook, UnmarkWrite,
         MarkAllRead, CreateEmployee, PatchLook, PatchWrite, RemoveLook, RemoveWrite,
         LeaveList, Write, Goto
    <3>2. CASE BatchLook(r) /\ ~Answer(r)
      BY <3>2 DEF BatchLook
    <3>3. CASE NextPage(r) \/ GroupLatest(r) \/ FetchLatest(r)
      <4>1. fresh' = fresh /\ \E p : page' = [page EXCEPT ![r] = p]
        <5>1. CASE NextPage(r)
          BY <5>1 DEF NextPage
        <5>2. CASE GroupLatest(r)
          BY <5>2 DEF GroupLatest
        <5>3. CASE FetchLatest(r)
          BY <5>3 DEF FetchLatest
        <5> QED
          BY <3>3, <5>1, <5>2, <5>3
      <4> QED
        BY <4>1
    <3> QED
      BY <2>1, <2>2, <3>1, <3>2, <3>3
  <2>4. ASSUME Report \/ PruneRead \/ PruneSamples \/ Tick \/ UNCHANGED vars PROVE Goal
    BY <2>2, <2>4 DEF Report, PruneRead, PruneSamples, Tick, running, vars
  <2> HIDE DEF Goal
  <2>5. Goal
    BY <2>3, <2>4, Kinds
  <2> QED
    BY <2>5 DEF Goal
<1>3. page' \in [Requests -> [cursor : Cell \union {None}, seen : Seq(Cell)]]
  BY <1>1, <1>2
<1>4. pc' \in [Requests -> Pcs] /\ DOMAIN job' = Requests
  BY JobMoves
<1> QED
  BY <1>1, <1>2, <1>3, <1>4 DEF BookInv, Books

(* Who moves the clock.                                                    *)
LEMMA NowMoves == [Next]_vars => UNCHANGED now \/ Tick
<1> SUFFICES ASSUME [Next]_vars PROVE UNCHANGED now \/ Tick
  OBVIOUS
<1>1. ASSUME NEW r \in Requests, Step(r) PROVE UNCHANGED now
  BY <1>1 DEF Step, Request, Abort, Check, ArrivalLook, ArrivalWrite, BatchLook,
     BatchWrite, StreamWrite, MarkLook, MarkWrite, UnmarkLook, UnmarkWrite, MarkAllRead,
     CreateEmployee, PatchWrite, RemoveWrite, PatchLook, RemoveLook, NextPage,
     GroupLatest, FetchLatest, LeaveList
<1> QED
  BY <1>1, Kinds DEF Report, PruneRead, PruneSamples, vars

(* Who writes samples.                                                     *)
LEMMA SampleMoves ==
  ASSUME [Next]_vars
  PROVE  UNCHANGED samples \/ PruneSamples
         \/ \E r \in Requests : BatchWrite(r) \/ StreamWrite(r)
<1>1. ASSUME NEW r \in Requests, Step(r)
      PROVE  UNCHANGED samples \/ BatchWrite(r) \/ StreamWrite(r)
  BY <1>1 DEF Step, Request, Abort, Check, ArrivalLook, ArrivalWrite, BatchLook,
     MarkLook, MarkWrite, UnmarkLook, UnmarkWrite, MarkAllRead,
     CreateEmployee, PatchWrite, RemoveWrite, PatchLook, RemoveLook, NextPage,
     GroupLatest, FetchLatest, LeaveList, stored
<1> QED
  BY <1>1, Kinds DEF Report, PruneRead, Tick, stored, vars

(* Who writes arrivals.                                                    *)
LEMMA ArrivalMoves ==
  ASSUME [Next]_vars
  PROVE  UNCHANGED arrivals \/ \E r \in Requests : ArrivalWrite(r)
<1>1. ASSUME NEW r \in Requests, Step(r)
      PROVE  UNCHANGED arrivals \/ ArrivalWrite(r)
  BY <1>1 DEF Step, Request, Abort, Check, ArrivalLook, BatchLook,
     BatchWrite, StreamWrite, MarkLook, MarkWrite, UnmarkLook, UnmarkWrite, MarkAllRead,
     CreateEmployee, PatchWrite, RemoveWrite, PatchLook, RemoveLook, NextPage,
     GroupLatest, FetchLatest, LeaveList, stored
<1> QED
  BY <1>1, Kinds DEF Report, PruneRead, PruneSamples, Tick, stored, vars

(* Only a new request is counted.                                          *)
LEMMA ServedStep == Served /\ [Next]_vars => Served'
<1> SUFFICES ASSUME Served, [Next]_vars PROVE Served'
  OBVIOUS
<1>0. MaxRequests \in Nat
  BY WorkerFeedAssumption
<1>1. ASSUME NEW r \in Requests, Step(r) PROVE UNCHANGED served \/ Request(r)
  BY <1>1 DEF Step, Abort, Check, ArrivalLook, ArrivalWrite, BatchLook,
     BatchWrite, StreamWrite, MarkLook, MarkWrite, UnmarkLook, UnmarkWrite, MarkAllRead,
     CreateEmployee, PatchWrite, RemoveWrite, PatchLook, RemoveLook, NextPage,
     GroupLatest, FetchLatest, LeaveList
<1>2. UNCHANGED served \/ \E r \in Requests : Request(r)
  BY <1>1, Kinds DEF Report, PruneRead, PruneSamples, Tick, vars
<1>3. ASSUME NEW r \in Requests, Request(r) PROVE Served'
  BY <1>0, <1>3 DEF Request, Served
<1> QED
  BY <1>2, <1>3 DEF Served

-----------------------------------------------------------------------------
(* Storing adds to the samples of one worker, as often as each is given.   *)
LEMMA StoreIs ==
  ASSUME SampleType, now \in Nat, NEW w \in Workers, NEW times \in Seq(Times),
         StoreSamples(w, times)
  PROVE  /\ samples' \in [Workers -> [Times -> Seq(0..now)]]
         /\ \A v \in Workers \ {w} : samples'[v] = samples[v]
         /\ \A t \in Times :
              /\ Cardinality({k \in DOMAIN times : times[k] = t}) \in Nat
              /\ Len(samples'[w][t]) =
                   Len(samples[w][t]) + Cardinality({k \in DOMAIN times : times[k] = t})
              /\ ToSet(samples[w][t]) \subseteq ToSet(samples'[w][t])
<1> DEFINE n(t) == Cardinality({k \in DOMAIN times : times[k] = t})
           more(t) == [i \in 1..n(t) |-> now]
<1>1. samples' = [samples EXCEPT ![w] = [t \in Times |-> samples[w][t] \o more(t)]]
  BY DEF StoreSamples, SampleType
<1>2. ASSUME NEW t \in Times PROVE n(t) \in Nat
  <2>1. DOMAIN times = 1..Len(times) /\ Len(times) \in Nat
    BY LenProperties
  <2>2. IsFiniteSet(1..Len(times))
    BY <2>1, FS_Interval
  <2>3. IsFiniteSet({k \in DOMAIN times : times[k] = t})
    BY <2>1, <2>2, FS_Subset
  <2> QED
    BY <2>3, FS_CardinalityType
<1> HIDE DEF n
<1>3. ASSUME NEW t \in Times
      PROVE  /\ samples[w][t] \in Seq(0..now)
             /\ more(t) \in Seq(0..now) /\ Len(more(t)) = n(t)
  <2>1. now \in 0..now
    OBVIOUS
  <2>2. samples[w][t] \in Seq(0..now)
    BY DEF SampleType
  <2> QED
    BY <1>2, <2>1, <2>2
<1> HIDE DEF more
<1>4. ASSUME NEW t \in Times
      PROVE  /\ samples[w][t] \o more(t) \in Seq(0..now)
             /\ Len(samples[w][t] \o more(t)) = Len(samples[w][t]) + n(t)
             /\ ToSet(samples[w][t]) \subseteq ToSet(samples[w][t] \o more(t))
  <2> DEFINE a == samples[w][t]
             b == more(t)
  <2>1. a \in Seq(0..now) /\ b \in Seq(0..now) /\ Len(b) = n(t)
    BY <1>3
  <2> HIDE DEF a, b
  <2>2. a \o b \in Seq(0..now) /\ Len(a \o b) = Len(a) + Len(b)
    BY <2>1, ConcatProperties
  <2>3. ToSet(a \o b) = ToSet(a) \union ToSet(b)
    BY <2>1, ListConcat
  <2> QED
    BY <2>1, <2>2, <2>3 DEF a, b
<1>5. samples' \in [Workers -> [Times -> Seq(0..now)]]
  BY <1>1, <1>4 DEF SampleType
<1>6. \A t \in Times : samples'[w][t] = samples[w][t] \o more(t)
  BY <1>1 DEF SampleType
<1>7. \A v \in Workers \ {w} : samples'[v] = samples[v]
  BY <1>1 DEF SampleType
<1> QED
  BY <1>2, <1>4, <1>5, <1>6, <1>7 DEF n

(* The samples that a request stores.                                      *)
LEMMA WriteStores ==
  ASSUME BookInv, NEW r \in Requests, BatchWrite(r) \/ StreamWrite(r)
  PROVE  \E times \in Seq(Times) :
           /\ StoreSamples(job[r].who, times) /\ job[r].who \in Workers /\ Write(r)
           /\ UNCHANGED now
           /\ \/ BatchWrite(r) /\ times = fresh[r] /\ Distinct(times)
              \/ StreamWrite(r)
<1>1. Course(r)
  BY DEF BookInv
<1>2. CASE BatchWrite(r)
  <2>1. pc[r] = "write" /\ job[r].op = "batch"
    BY <1>2 DEF BatchWrite, Op
  <2>2. job[r].who \in Workers
    BY <1>1, <2>1, WorkerFeedAssumption DEF Course, Asked
  <2>3. fresh[r] \in Seq(Times) /\ Distinct(fresh[r])
    BY <1>1, <2>1 DEF Course
  <2> QED
    BY <1>2, <2>2, <2>3 DEF BatchWrite
<1>3. CASE StreamWrite(r)
  <2>1. pc[r] = "write" /\ job[r].op = "stream"
    BY <1>3 DEF StreamWrite, Op
  <2>2. job[r].who \in Workers /\ job[r].arg \in Times
    BY <1>1, <2>1, WorkerFeedAssumption DEF Course, Asked
  <2>3. <<job[r].arg>> \in Seq(Times)
    BY <2>2
  <2>4. StoreSamples(job[r].who, <<job[r].arg>>) /\ Write(r) /\ UNCHANGED now
    BY <1>3 DEF StreamWrite
  <2> DEFINE times == <<job[r].arg>>
  <2> HIDE DEF times
  <2>5. times \in Seq(Times) /\ StoreSamples(job[r].who, times)
    BY <2>3, <2>4 DEF times
  <2> QED
    BY <1>3, <2>2, <2>4, <2>5
<1> QED
  BY <1>2, <1>3

(* Pruning keeps what was received lately.                                 *)
LEMMA PruneSamplesIs ==
  ASSUME SampleType, now \in Nat, PruneSamples, NEW w \in Workers, NEW t \in Times
  PROVE  LET kept == {received \in 0..now : received + Keep >= now} IN
         /\ samples'[w][t] \in Seq(0..now)
         /\ ToSet(samples'[w][t]) = ToSet(samples[w][t]) \intersect kept
         /\ Len(samples'[w][t]) <= Len(samples[w][t])
         /\ samples[w][t] = <<>> => samples'[w][t] = <<>>
<1> DEFINE kept == {received \in 0..now : received + Keep >= now}
<1>1. samples'[w][t] = Only(samples[w][t], kept) /\ samples[w][t] \in Seq(0..now)
  BY DEF PruneSamples, SampleType
<1> HIDE DEF kept
<1>2. /\ Only(samples[w][t], kept) \in Seq(0..now)
      /\ ToSet(Only(samples[w][t], kept)) = ToSet(samples[w][t]) \intersect kept
      /\ Len(Only(samples[w][t], kept)) <= Len(samples[w][t])
      /\ Only(<<>>, kept) = <<>>
  BY <1>1, OnlyIs, OnlyShorter, OnlyEmpty
<1> QED
  BY <1>1, <1>2 DEF kept

(* Samples keep their type.                                                *)
LEMMA SampleStep ==
  SampleType /\ BookInv /\ now \in Nat /\ [Next]_vars => SampleType'
<1> SUFFICES ASSUME SampleType, BookInv, now \in Nat, [Next]_vars PROVE SampleType'
  OBVIOUS
<1>1. CASE UNCHANGED samples
  <2>1. now' \in Nat /\ 0..now \subseteq 0..now'
    BY NowMoves DEF Tick
  <2>2. Seq(0..now) \subseteq Seq(0..now')
    BY <2>1, SeqMonotonic
  <2> QED
    BY <1>1, <2>2 DEF SampleType
<1>2. CASE PruneSamples
  <2>1. now' = now /\ samples' = [w \in Workers |-> [t \in Times |-> samples'[w][t]]]
    BY <1>2 DEF PruneSamples
  <2>2. \A w \in Workers, t \in Times : samples'[w][t] \in Seq(0..now)
    BY <1>2, PruneSamplesIs
  <2> QED
    BY <2>1, <2>2 DEF SampleType
<1>3. ASSUME NEW r \in Requests, BatchWrite(r) \/ StreamWrite(r) PROVE SampleType'
  BY <1>3, WriteStores, StoreIs DEF SampleType
<1> QED
  BY <1>1, <1>2, <1>3, SampleMoves

-----------------------------------------------------------------------------
(* A stamp leaves dates alone, but for the time of reading.                *)
LEMMA StampWhen ==
  ASSUME FeedType, NEW u \in Foremen, NEW which, NEW time \in Nat \union {None},
         Stamp(u, which, time), NEW v \in Foremen, NEW m \in feed'[v]
  PROVE  \E n \in feed[v] : m.at = n.at /\ (m.read = n.read \/ m.read = time)
<1> DEFINE New(n) == IF n.id \in which THEN [n EXCEPT !.read = time] ELSE n
<1>1. feed'[v] = IF v = u THEN {New(n) : n \in feed[u]} ELSE feed[v]
  BY DEF Stamp, FeedType
<1>2. \A n \in feed[u] : New(n).at = n.at /\ (New(n).read = n.read \/ New(n).read = time)
  BY DEF FeedType, Notices
<1> HIDE DEF New
<1> QED
  BY <1>1, <1>2

(* Nothing in a feed is from the future.                                   *)
LEMMA SoFarStep == FeedType /\ JobInv /\ SoFar /\ [Next]_vars => SoFar'
<1> SUFFICES ASSUME FeedType, JobInv, SoFar, [Next]_vars,
                    NEW u \in Foremen, NEW m \in feed'[u]
             PROVE  m.at \in 0..now' /\ (m.read = None \/ m.read \in 0..now')
  BY DEF SoFar
<1>1. now \in Nat /\ now' \in Nat /\ 0..now \subseteq 0..now' /\ now \in 0..now'
  BY NowMoves DEF Tick, FeedType
<1>2. ASSUME m \in feed[u] PROVE m.at \in 0..now' /\ (m.read = None \/ m.read \in 0..now')
  BY <1>1, <1>2 DEF SoFar
<1>3. ASSUME NEW e \in Events \ events, Notify(e)
      PROVE  m.at \in 0..now' /\ (m.read = None \/ m.read \in 0..now')
  <2>1. m \in feed[u] \/ m = [id |-> e, at |-> now, read |-> None]
    BY <1>3 DEF Notify
  <2> QED
    BY <1>1, <1>2, <2>1
<1>4. ASSUME NEW r \in Requests, MarkWrite(r) \/ UnmarkWrite(r) \/ MarkAllRead(r)
      PROVE  m.at \in 0..now' /\ (m.read = None \/ m.read \in 0..now')
  <2>1. job[r].who \in Foremen
    BY <1>4 DEF MarkWrite, UnmarkWrite, MarkAllRead, Op, JobInv
  <2>2. PICK time \in Nat \union {None} :
          time \in {now, None} /\ \E which : Stamp(job[r].who, which, time)
    <3>1. CASE MarkWrite(r)
      <4>1. Stamp(job[r].who, {job[r].arg}, now)
        BY <3>1 DEF MarkWrite
      <4> QED
        BY <1>1, <4>1
    <3>2. CASE UnmarkWrite(r)
      BY <3>2, Unstamps
    <3>3. CASE MarkAllRead(r)
      <4>1. \E which : Stamp(job[r].who, which, now)
        BY <3>3 DEF MarkAllRead
      <4> QED
        BY <1>1, <4>1
    <3> QED
      BY <1>4, <3>1, <3>2, <3>3
  <2>3. PICK which : Stamp(job[r].who, which, time)
    BY <2>2
  <2>4. PICK n \in feed[u] : m.at = n.at /\ (m.read = n.read \/ m.read = time)
    BY <2>1, <2>3, StampWhen
  <2>5. n.at \in 0..now /\ (n.read = None \/ n.read \in 0..now)
    BY DEF SoFar
  <2> QED
    BY <1>1, <2>2, <2>4, <2>5
<1>5. CASE PruneRead
  BY <1>2, <1>5, PruneIs
<1>6. CASE UNCHANGED feed
  BY <1>2, <1>6
<1> QED
  BY <1>3, <1>4, <1>5, <1>6, FeedSteps

-----------------------------------------------------------------------------
(* The bounds stay.                                                        *)
LEMMA BoundsStep ==
  FeedType /\ JobInv /\ BookInv /\ Bounds /\ [Next]_vars => Bounds'
<1> SUFFICES ASSUME FeedType, JobInv, BookInv, Bounds, [Next]_vars PROVE Bounds'
  OBVIOUS
<1>1. now' <= MaxTime
  BY NowMoves, WorkerFeedAssumption DEF Tick, Bounds, FeedType
<1>2. events \subseteq events'
  BY FeedSteps DEF Notify, MarkWrite, UnmarkWrite, MarkAllRead, PruneRead
<1>3. arrivals' \in SUBSET [id : events', who : OnSite, at : Times]
  <2>1. arrivals \in SUBSET [id : events', who : OnSite, at : Times]
    BY <1>2 DEF Bounds
  <2>2. ASSUME NEW r \in Requests, ArrivalWrite(r)
        PROVE  arrivals' \in SUBSET [id : events', who : OnSite, at : Times]
    <3>1. pc[r] = "write" /\ job[r].op = "arrive" /\ Course(r)
      BY <2>2 DEF ArrivalWrite, Op, BookInv
    <3>2. job[r].who \in OnSite /\ job[r].arg \in Times
      BY <3>1 DEF Course, Asked
    <3>3. PICK e \in Events \ events :
            /\ arrivals' = arrivals \union {[id |-> e, who |-> job[r].who, at |-> job[r].arg]}
            /\ events' = events \union {e}
      BY <2>2 DEF ArrivalWrite, Notify
    <3> QED
      BY <2>1, <3>2, <3>3
  <2> QED
    BY <2>1, <2>2, ArrivalMoves
<1>4. opened' \in [Foremen -> SUBSET events']
  <2>1. opened \in [Foremen -> SUBSET events']
    BY <1>2 DEF Bounds
  <2>2. ASSUME NEW u \in Foremen, NEW which \in SUBSET feed[u]
        PROVE  {n.id : n \in which} \subseteq events
    BY DEF FeedType
  <2>3. ASSUME NEW r \in Requests, MarkWrite(r) \/ UnmarkWrite(r) \/ MarkAllRead(r)
        PROVE  opened' \in [Foremen -> SUBSET events']
    <3>1. job[r].who \in Foremen
      BY <2>3 DEF MarkWrite, UnmarkWrite, MarkAllRead, Op, JobInv
    <3>2. \E ids \in SUBSET events :
            \/ opened' = [opened EXCEPT ![job[r].who] = @ \union ids]
            \/ opened' = [opened EXCEPT ![job[r].who] = @ \ ids]
      BY <2>2, <2>3, <3>1 DEF MarkWrite, UnmarkWrite, MarkAllRead, Unread
    <3> QED
      BY <1>2, <2>1, <3>2
  <2>4. CASE PruneRead
    BY <2>1, <2>4 DEF PruneRead
  <2> QED
    BY <2>1, <2>3, <2>4, FeedSteps
<1>5. crossed' \in SUBSET Workers
  <2>1. ASSUME NEW r \in Requests, PatchWrite(r) PROVE crossed' \in SUBSET Workers
    BY <2>1 DEF PatchWrite, Op, JobInv, Bounds
  <2> QED
    BY <2>1, StaffSteps DEF CreateEmployee, RemoveWrite, Bounds
<1> QED
  BY <1>1, <1>3, <1>4, <1>5 DEF Bounds

(* Who is about to store, and not late, was so before, or has looked just  *)
(* now.                                                                    *)
LEMMA AddsMoves ==
  ASSUME FeedType, SoFar, BookInv, [Next]_vars, NEW q \in Requests,
         pc'[q] = "write", job'[q].op \in {"batch", "arrive"}, q \notin late'
  PROVE  \/ Untouched(q) /\ q \notin late
         \/ BatchLook(q) /\ ~Answer(q)
         \/ ArrivalLook(q) /\ ~Answer(q) /\ job'[q] = job[q]
<1>1. Books /\ Course(q)
  BY DEF BookInv
<1>2. CASE Request(q)
  <2>1. job'[q] \in Jobs /\ pc'[q] = FirstStep[job'[q].op]
    BY <1>1, <1>2 DEF Request, Books
  <2>2. FirstStep["batch"] = "check" /\ FirstStep["arrive"] = "check"
    BY DEF FirstStep
  <2> QED
    BY <2>1, <2>2
<1>3. ASSUME NEW step \in {"look", "write"}, Went(q, step),
             \/ Check(q) \/ ArrivalLook(q) \/ MarkLook(q) \/ UnmarkLook(q)
             \/ PatchLook(q) \/ RemoveLook(q),
             ~Answer(q)
      PROVE  ArrivalLook(q) /\ job'[q] = job[q]
  <2>1. job'[q] = job[q] /\ step = "write"
    BY <1>3 DEF Went
  <2>2. job[q].op = "arrive"
    BY <1>1, <1>3, <2>1, LooksAre DEF Books
  <2>3. ~Check(q)
    <3>1. ASSUME Check(q) PROVE FALSE
      <4>1. Goto(q, "look")
        BY <1>3, <2>2, <3>1 DEF Check
      <4> QED
        BY <1>1, <4>1 DEF Goto, Books
    <3> QED
      BY <3>1
  <2> QED
    BY <1>3, <2>1, <2>2, <2>3 DEF MarkLook, UnmarkLook, PatchLook, RemoveLook, Op
<1>4. CASE Listed(q)
  <2>1. pc'[q] \in Listing
    BY <1>4, PagesStep
  <2> QED
    BY <2>1 DEF Listing
<1>5. CASE Answered(q)
  BY <1>5 DEF Answered
<1>6. CASE Untouched(q)
  BY <1>6 DEF Untouched
<1> QED
  BY <1>1, <1>2, <1>3, <1>4, <1>5, <1>6, Moves

(* A write is the last statement of a request.                             *)
LEMMA WriteEnds ==
  ASSUME Books, NEW r \in Requests, Write(r)
  PROVE  pc'[r] = "idle"
BY DEF Write, Answer, Books

(* What a batch has found missing stays so, or the batch is late.          *)
LEMMA BatchStep ==
  FeedType /\ SoFar /\ SampleType /\ BookInv /\ BatchInv /\ [Next]_vars => BatchInv'
<1> SUFFICES ASSUME FeedType, SoFar, SampleType, BookInv, BatchInv, [Next]_vars,
                    NEW q \in Requests, q \notin late',
                    pc'[q] = "write", job'[q].op = "batch",
                    NEW t \in ToSet(fresh'[q])
             PROVE  t \in Times /\ samples'[job'[q].who][t] = <<>>
  BY DEF BatchInv, Op
<1>1. Books /\ Course(q) /\ now \in Nat
  BY DEF BookInv, FeedType
<1>2. CASE BatchLook(q) /\ ~Answer(q)
  <2>1. samples' = samples
    BY <1>2 DEF BatchLook, stored
  <2> QED
    BY <1>1, <1>2, <2>1, BatchIs
<1>3. CASE Untouched(q) /\ q \notin late
  <2> DEFINE w == job[q].who
  <2>1. /\ pc[q] = "write" /\ job[q].op = "batch" /\ job'[q] = job[q] /\ fresh'[q] = fresh[q]
    BY <1>3 DEF Untouched
  <2>2. t \in Times /\ samples[w][t] = <<>>
    BY <1>3, <2>1 DEF BatchInv, Op
  <2>3. w \in Workers
    BY <1>1, <2>1, WorkerFeedAssumption DEF Course, Asked
  <2>4. CASE PruneSamples
    BY <1>1, <2>1, <2>2, <2>3, <2>4, PruneSamplesIs
  <2>5. ASSUME NEW r \in Requests, BatchWrite(r) \/ StreamWrite(r)
        PROVE  samples'[w] = samples[w]
    <3>1. PICK times \in Seq(Times) :
            StoreSamples(job[r].who, times) /\ job[r].who \in Workers /\ Write(r)
      BY <2>5, WriteStores
    <3>2. r # q
      BY <1>1, <2>1, <3>1, WriteEnds
    <3>3. ~Meet(q, r)
      BY <2>1, <3>1, <3>2, MadeLate
    <3>4. job[r].op \in {"batch", "stream"}
      BY <2>5 DEF BatchWrite, StreamWrite, Op
    <3>5. Tables["batch"] = "samples" /\ Tables["stream"] = "samples"
      BY DEF Tables
    <3>6. job[r].who # w
      BY <2>1, <3>3, <3>4, <3>5 DEF Meet
    <3> QED
      BY <1>1, <2>3, <3>1, <3>6, StoreIs
  <2>6. samples'[w][t] = <<>>
    BY <2>2, <2>4, <2>5, SampleMoves, <1>1, <2>3, PruneSamplesIs
  <2> QED
    BY <2>1, <2>2, <2>6
<1> QED
  BY <1>2, <1>3, AddsMoves DEF ArrivalLook, Op

(* Two taps are near each other both ways.                                 *)
LEMMA NearIs ==
  ASSUME NEW s \in Nat, NEW t \in Nat
  PROVE  Near(s, t) <=> Near(t, s)
<1>1. Window \in Nat
  BY WorkerFeedAssumption
<1> QED
  BY <1>1 DEF Near

(* And so for what an arrival has found missing.                           *)
LEMMA ArriveStep ==
  FeedType /\ SoFar /\ BookInv /\ Bounds /\ ArriveInv /\ [Next]_vars => ArriveInv'
<1> SUFFICES ASSUME FeedType, SoFar, BookInv, Bounds, ArriveInv, [Next]_vars,
                    NEW q \in Requests, q \notin late',
                    pc'[q] = "write", job'[q].op = "arrive",
                    NEW a \in arrivals', a.who = job'[q].who
             PROVE  ~Near(a.at, job'[q].arg)
  BY DEF ArriveInv, Op, Near
<1>1. Books /\ Course(q)
  BY DEF BookInv
<1>2. CASE ArrivalLook(q) /\ ~Answer(q) /\ job'[q] = job[q]
  BY <1>2 DEF ArrivalLook, stored
<1>3. CASE Untouched(q) /\ q \notin late
  <2>1. /\ pc[q] = "write" /\ job[q].op = "arrive" /\ job'[q] = job[q]
    BY <1>3 DEF Untouched
  <2>2. ASSUME a \in arrivals PROVE ~Near(a.at, job[q].arg)
    BY <1>3, <2>1, <2>2 DEF ArriveInv, Op
  <2>3. ASSUME NEW r \in Requests, ArrivalWrite(r) PROVE a \in arrivals
    <3>1. Write(r) /\ job[r].op = "arrive"
      BY <2>3 DEF ArrivalWrite, Op
    <3>2. r # q
      BY <1>1, <2>1, <3>1, WriteEnds
    <3>3. ~Meet(q, r)
      BY <2>1, <3>1, <3>2, MadeLate
    <3>4. Tables["arrive"] = "arrivals"
      BY DEF Tables
    <3>5. job[r].who # job[q].who
      BY <2>1, <3>1, <3>3, <3>4 DEF Meet
    <3>6. PICK e \in Events :
            arrivals' = arrivals \union {[id |-> e, who |-> job[r].who, at |-> job[r].arg]}
      BY <2>3 DEF ArrivalWrite
    <3> QED
      BY <2>1, <3>5, <3>6
  <2> QED
    BY <2>1, <2>2, <2>3, ArrivalMoves
<1> QED
  BY <1>2, <1>3, AddsMoves DEF BatchLook, Op

(* A store adds what the look found missing, unless it is late.            *)
LEMMA RetryStep ==
  ASSUME FeedType, SampleType, BookInv, Bounds, BatchInv, ArriveInv, [Next]_vars
  PROVE  LET Stale == \E r \in late : pc[r] = "write" /\ pc'[r] = "idle"
             Streamed == \E r \in Requests : Op(r, "stream", "write") /\ pc'[r] = "idle"
         IN /\ \A w \in Workers, t \in Times :
                 Len(samples'[w][t]) > Len(samples[w][t]) =>
                   \/ samples[w][t] = <<>> /\ Len(samples'[w][t]) = 1
                   \/ Stale
                   \/ Streamed
            /\ \A a \in arrivals' \ arrivals, b \in arrivals :
                 a.who = b.who /\ Near(a.at, b.at) => Stale
<1> DEFINE Stale == \E r \in late : pc[r] = "write" /\ pc'[r] = "idle"
           Streamed == \E r \in Requests : Op(r, "stream", "write") /\ pc'[r] = "idle"
<1>1. Books /\ now \in Nat
  BY DEF BookInv, FeedType
<1>2. ASSUME NEW w \in Workers, NEW t \in Times, Len(samples'[w][t]) > Len(samples[w][t])
      PROVE  (samples[w][t] = <<>> /\ Len(samples'[w][t]) = 1) \/ Stale \/ Streamed
  <2>1. samples[w][t] \in Seq(0..now) /\ Len(samples[w][t]) \in Nat
    <3>1. samples[w][t] \in Seq(0..now)
      BY DEF SampleType
    <3> QED
      BY <3>1, LenProperties
  <2>2. ~UNCHANGED samples
    BY <1>2, <2>1
  <2>3. ~PruneSamples
    <3>1. ASSUME PruneSamples PROVE FALSE
      <4>1. samples'[w][t] \in Seq(0..now) /\ Len(samples'[w][t]) <= Len(samples[w][t])
        BY <1>1, <3>1, PruneSamplesIs
      <4>2. Len(samples'[w][t]) \in Nat
        BY <4>1, LenProperties
      <4> QED
        BY <1>2, <2>1, <4>1, <4>2
    <3> QED
      BY <3>1
  <2>4. PICK r \in Requests : BatchWrite(r) \/ StreamWrite(r)
    BY <2>2, <2>3, SampleMoves
  <2>5. PICK times \in Seq(Times) :
          /\ StoreSamples(job[r].who, times) /\ job[r].who \in Workers /\ Write(r)
          /\ \/ BatchWrite(r) /\ times = fresh[r] /\ Distinct(times)
             \/ StreamWrite(r)
    BY <2>4, WriteStores
  <2>6. pc'[r] = "idle"
    BY <1>1, <2>5, WriteEnds
  <2>7. CASE StreamWrite(r)
    BY <2>6, <2>7 DEF StreamWrite
  <2>8. CASE BatchWrite(r) /\ r \in late
    BY <2>6, <2>8 DEF BatchWrite, Op
  <2>9. CASE BatchWrite(r) /\ r \notin late /\ times = fresh[r] /\ Distinct(times)
    <3>1. \A x \in ToSet(times) : samples[job[r].who][x] = <<>>
      BY <2>9 DEF BatchInv, BatchWrite
    <3>2. w = job[r].who
      BY <1>1, <2>2, <2>5, <1>2, <2>1, StoreIs
    <3>3. Len(samples'[w][t]) =
            Len(samples[w][t]) + Cardinality({k \in DOMAIN times : times[k] = t})
      BY <1>1, <2>5, <3>2, StoreIs
    <3>4. CASE t \in ToSet(times)
      <4>1. samples[w][t] = <<>>
        BY <3>1, <3>2, <3>4
      <4>2. Cardinality({k \in DOMAIN times : times[k] = t}) = 1
        BY <2>9, <3>4, OnceEach
      <4>3. Len(samples[w][t]) = 0
        BY <4>1
      <4> QED
        BY <3>3, <4>1, <4>2, <4>3
    <3>5. CASE t \notin ToSet(times)
      <4>1. Cardinality({k \in DOMAIN times : times[k] = t}) = 0
        BY <2>9, <3>5, OnceEach
      <4> QED
        BY <1>2, <2>1, <3>3, <4>1
    <3> QED
      BY <3>4, <3>5
  <2> QED
    BY <2>5, <2>7, <2>8, <2>9
<1>3. ASSUME NEW a \in arrivals' \ arrivals, NEW b \in arrivals,
             a.who = b.who, Near(a.at, b.at)
      PROVE  Stale
  <2>1. PICK r \in Requests : ArrivalWrite(r)
    BY ArrivalMoves
  <2>2. pc[r] = "write" /\ job[r].op = "arrive" /\ Write(r) /\ pc'[r] = "idle"
    BY <1>1, <2>1, WriteEnds DEF ArrivalWrite, Op
  <2>3. a.who = job[r].who /\ a.at = job[r].arg
    BY <2>1 DEF ArrivalWrite
  <2>4. job[r].arg \in Times
    BY <2>2 DEF BookInv, Course, Asked
  <2>5. b.at \in Times
    BY DEF Bounds
  <2>6. Near(b.at, job[r].arg)
    BY <1>3, <2>3, <2>4, <2>5, NearIs, WorkerFeedAssumption
  <2>7. r \in late
    BY <1>3, <2>2, <2>3, <2>6 DEF ArriveInv, Op
  <2> QED
    BY <2>2, <2>7
<1> QED
  BY <1>2, <1>3

(* A list changes with what is stored and the clock alone.                 *)
LEMMA SameRows ==
  ASSUME UNCHANGED <<now, stored>>, NEW q, job'[q] = job[q]
  PROVE  Rows(job[q])' = Rows(job[q])
BY DEF Rows, Unread, stored

(* What has been there all along is there now, and was before.             *)
LEMMA FollowIs ==
  ASSUME [Next]_vars, ListInv, NEW q \in Requests, pc[q] # "idle", job'[q] = job[q],
         job[q].op \in {"walk", "latest"}
  PROVE  steady'[q] \subseteq steady[q] /\ steady'[q] \subseteq Rows(job[q])'
<1>1. CASE Follow
  BY <1>1 DEF Follow
<1>2. CASE UNCHANGED vars
  <2>1. Rows(job[q])' = Rows(job[q]) /\ steady'[q] = steady[q]
    BY <1>2, SameRows DEF vars
  <2> QED
    BY <2>1 DEF ListInv
<1> QED
  BY <1>1, <1>2 DEF Next

(* A walk begins with the whole list ahead of it.                          *)
LEMMA StartsWith ==
  ASSUME FeedType, BookInv, [Next]_vars, NEW q \in Requests, Request(q),
         job'[q].op \in {"walk", "latest"}
  PROVE  /\ steady'[q] = Rows(job[q])'
         /\ pc'[q] = "page" /\ page'[q] = NoWalk
<1>1. pc[q] = "idle" /\ UNCHANGED <<now, stored, page>> /\ pc'[q] = FirstStep[job'[q].op]
  BY DEF Request, BookInv, Books
<1>2. pc'[q] = "page"
  BY <1>1 DEF FirstStep
<1>3. page'[q] = NoWalk
  BY <1>1 DEF BookInv, Course, Listing
<1>4. Follow
  BY <1>1, <1>2 DEF Next, vars, running
<1>5. steady'[q] = Rows(job'[q])
  BY <1>1, <1>4 DEF Follow
<1>6. Rows(job'[q]) = Rows(job[q])'
  BY <1>1 DEF Rows, Unread, stored
<1> QED
  BY <1>2, <1>3, <1>5, <1>6

-----------------------------------------------------------------------------
(* A sample of a worker on the map stays as long as an older one of his.   *)
LEMMA MapKept ==
  ASSUME FeedType, SampleType, BookInv, [Next]_vars, NEW q, job'[q] = job[q],
         job[q].op = "latest", NEW n \in Rows(job[q]), NEW row \in Rows(job[q])',
         n.id = row.id, n.key >= row.key
  PROVE  n \in Rows(job[q])'
<1>1. PICK w \in Workers, k \in 0..now :
        n = [key |-> k, id |-> w] /\ \E t \in Times : k \in ToSet(samples[w][t])
  BY DEF Rows
<1>2. PICK w2 \in Workers, k2 \in 0..now' :
        row = [key |-> k2, id |-> w2] /\ \E t \in Times : k2 \in ToSet(samples'[w2][t])
  BY DEF Rows
<1>3. w2 = w /\ k >= k2 /\ now \in Nat /\ now' \in Nat /\ k \in 0..now'
  <2>1. w2 = w /\ k >= k2 /\ now \in Nat
    BY <1>1, <1>2 DEF FeedType
  <2>2. now' \in Nat /\ 0..now \subseteq 0..now'
    BY <2>1, NowMoves DEF Tick
  <2> QED
    BY <2>1, <2>2
<1>4. PICK t \in Times : k \in ToSet(samples[w][t])
  BY <1>1
<1>5. k \in ToSet(samples'[w][t])
  <2>1. CASE UNCHANGED samples
    BY <1>4, <2>1
  <2>2. CASE PruneSamples
    <3> DEFINE kept == {received \in 0..now : received + Keep >= now}
    <3>1. \A t2 \in Times : ToSet(samples'[w][t2]) = ToSet(samples[w][t2]) \intersect kept
      BY <1>3, <2>2, PruneSamplesIs
    <3>2. k2 \in kept
      BY <1>2, <1>3, <3>1
    <3>3. k \in kept
      <4>1. Keep \in Nat /\ k \in Int /\ k2 \in Int
        BY <1>3, WorkerFeedAssumption
      <4>2. k2 + Keep >= now
        BY <3>2
      <4> QED
        BY <1>1, <1>3, <4>1, <4>2
    <3> QED
      BY <1>4, <3>1, <3>3
  <2>3. ASSUME NEW r \in Requests, BatchWrite(r) \/ StreamWrite(r)
        PROVE  k \in ToSet(samples'[w][t])
    <3>1. PICK times \in Seq(Times) :
            StoreSamples(job[r].who, times) /\ job[r].who \in Workers
      BY <2>3, WriteStores
    <3>2. CASE w = job[r].who
      BY <1>3, <1>4, <3>1, <3>2, StoreIs
    <3>3. CASE w # job[r].who
      BY <1>3, <1>4, <3>1, <3>3, StoreIs
    <3> QED
      BY <3>2, <3>3
  <2> QED
    BY <2>1, <2>2, <2>3, SampleMoves
<1>6. <<w, k>> \in Workers \X (0..now')
  BY <1>3
<1> QED
  BY <1>1, <1>5, <1>6 DEF Rows

-----------------------------------------------------------------------------
(* A page: what it shows follows what was shown, and what it leaves is     *)
(* past its cursor.                                                        *)
LEMMA PageStep ==
  ASSUME FeedType, SoFar, BookInv, ListInv, [Next]_vars, NEW q \in Requests, NextPage(q)
  PROVE  WalkOf(q)'
<1> DEFINE d == job[q].arg = "unread"
           c == page[q].cursor
           seen == page[q].seen
           rows == Rows(job[q])
           p == PageAfter(rows, c, Limit, d)
<1>1. /\ pc[q] = "page" /\ job[q].op = "walk" /\ job'[q] = job[q] /\ d \in BOOLEAN
      /\ c \in Cell \union {None} /\ seen \in Seq(Cell)
      /\ page'[q] = [cursor |-> p.next, seen |-> seen \o p.items]
      /\ pc'[q] = IF p.next = None THEN "end" ELSE "page"
      /\ Limit \in Nat \ {0} /\ UNCHANGED <<now, stored>>
  BY WorkerFeedAssumption DEF NextPage, Op, BookInv, Books
<1>2. rows \in SUBSET Cell /\ IsFiniteSet(rows) /\ job[q].who \in Foremen
  BY <1>1, RowsAre DEF BookInv, Course, Asked
<1>3. /\ InOrderOf(seen, Behind(d))
      /\ IF c = None THEN seen = <<>> ELSE \A n \in ToSet(seen) : n = c \/ Past(n, c, d)
      /\ steady[q] \subseteq rows
      /\ \A row \in steady[q] :
           /\ row \in ToSet(seen) \/ c = None \/ Past(c, row, d)
           /\ \A n \in ToSet(seen) : n.id = row.id => n = row
  BY <1>1 DEF ListInv, WalkOf
<1>4. steady'[q] \subseteq steady[q]
  BY <1>1, FollowIs
<1>5. \A a, b \in rows : a.id = b.id => a = b
  BY <1>1, <1>2, RowsDiffer
<1>6. job'[q].arg = "unread" <=> d
  BY <1>1
<1>13. \A row \in Resume(rows, c, d) : row \in rows /\ (c # None => Past(c, row, d))
  BY DEF Resume
<1>14. \A row \in rows : c = None \/ Past(c, row, d) => row \in Resume(rows, c, d)
  BY DEF Resume
<1> HIDE DEF d, rows, c, seen
<1>7. /\ p.items \in Seq(Cell) /\ p.next \in Cell \union {None}
      /\ ToSet(p.items) \subseteq Resume(rows, c, d)
      /\ InOrderOf(p.items, Behind(d))
      /\ p.next = None => Resume(rows, c, d) \subseteq ToSet(p.items)
      /\ p.next # None =>
           /\ p.next \in ToSet(p.items)
           /\ \A n \in ToSet(p.items) : n = p.next \/ Past(n, p.next, d)
           /\ \A row \in Resume(rows, c, d) : row \in ToSet(p.items) \/ Past(p.next, row, d)
  <2>1. rows \in SUBSET Cell /\ IsFiniteSet(rows) /\ c \in Cell \union {None}
        /\ Limit \in Nat \ {0} /\ d \in BOOLEAN
    BY <1>1, <1>2
  <2>2. p = PageAfter(rows, c, Limit, d)
    OBVIOUS
  <2> HIDE DEF p
  <2>3. p.items \in Seq(Cell) /\ p.next \in Cell \union {None}
    BY <2>1, <2>2, PageIs
  <2>4. ToSet(p.items) \subseteq Resume(rows, c, d)
    BY <2>1, <2>2, PageIs
  <2>5. InOrderOf(p.items, Behind(d))
    BY <2>1, <2>2, PageIs
  <2>6. p.next = None => Resume(rows, c, d) \subseteq ToSet(p.items)
    BY <2>1, <2>2, PageIs
  <2>7. ASSUME p.next # None
        PROVE  /\ p.next \in ToSet(p.items)
               /\ \A n \in ToSet(p.items) : n = p.next \/ Past(n, p.next, d)
               /\ \A row \in Resume(rows, c, d) :
                    row \in ToSet(p.items) \/ Past(p.next, row, d)
    <3>1. p.next \in ToSet(p.items)
      BY <2>1, <2>2, <2>7, PageIs
    <3>2. ASSUME NEW n \in ToSet(p.items) PROVE n = p.next \/ Past(n, p.next, d)
      BY <2>1, <2>2, <2>7, PageIs
    <3>3. ASSUME NEW row \in Resume(rows, c, d)
          PROVE  row \in ToSet(p.items) \/ Past(p.next, row, d)
      BY <2>1, <2>2, <2>7, PageIs
    <3> QED
      BY <3>1, <3>2, <3>3
  <2> QED
    BY <2>3, <2>4, <2>5, <2>6, <2>7
<1> DEFINE items == p.items
           next == p.next
           all == seen \o items
<1>8. /\ page'[q].cursor = next /\ page'[q].seen = all
      /\ pc'[q] = IF next = None THEN "end" ELSE "page"
  BY <1>1
<1> HIDE DEF p
<1> HIDE DEF items, next
<1>9. /\ items \in Seq(Cell) /\ next \in Cell \union {None}
      /\ \A n \in ToSet(items) : n \in Resume(rows, c, d)
      /\ InOrderOf(items, Behind(d))
      /\ next = None => \A n \in Resume(rows, c, d) : n \in ToSet(items)
      /\ next # None =>
           /\ next \in ToSet(items)
           /\ \A n \in ToSet(items) : n = next \/ Past(n, next, d)
           /\ \A row \in Resume(rows, c, d) : row \in ToSet(items) \/ Past(next, row, d)
  BY <1>7 DEF items, next
<1>10. ToSet(all) = ToSet(seen) \union ToSet(items)
  BY <1>1, <1>9, ListConcat
<1>11. /\ \A n \in ToSet(seen) : n \in Cell
       /\ \A n \in ToSet(items) : n \in Cell
       /\ c = None => ToSet(seen) = {}
  <2>1. DOMAIN seen = 1..Len(seen) /\ \A i \in 1..Len(seen) : seen[i] \in Cell
    BY <1>1, LenProperties
  <2>2. DOMAIN items = 1..Len(items) /\ \A i \in 1..Len(items) : items[i] \in Cell
    BY <1>9, LenProperties
  <2> QED
    BY <1>3, <2>1, <2>2, ListEmpty DEF ToSet
<1>12. ASSUME NEW n \in ToSet(seen), NEW m \in ToSet(items) PROVE Past(n, m, d)
  <2>1. c # None /\ c \in Cell /\ n \in Cell /\ m \in Cell
    BY <1>1, <1>11
  <2>2. Past(c, m, d) /\ (n = c \/ Past(n, c, d))
    BY <1>3, <1>9, <1>13, <2>1
  <2> QED
    BY <1>1, <2>1, <2>2, PastTransitive
<1>15. InOrderOf(all, Behind(d))
  <2>1. \A n \in ToSet(seen), m \in ToSet(items) : <<n, m>> \in Behind(d)
    BY <1>11, <1>12 DEF Behind
  <2> QED
    BY <1>1, <1>3, <1>9, <2>1, InOrderConcat
<1>16. pc'[q] = "page" => next # None /\ \A n \in ToSet(all) : n = next \/ Past(n, next, d)
  BY <1>8, <1>9, <1>10, <1>12
<1>17. ASSUME NEW row \in steady'[q]
       PROVE  /\ \/ row \in ToSet(all)
                 \/ pc'[q] = "page" /\ Past(next, row, d)
              /\ \A n \in ToSet(all) : n.id = row.id => n = row
  <2>1. row \in steady[q] /\ row \in rows
    BY <1>3, <1>4
  <2>2. row \in ToSet(seen) \/ row \in Resume(rows, c, d)
    BY <1>3, <1>14, <2>1
  <2>3. \/ row \in ToSet(all)
        \/ pc'[q] = "page" /\ Past(next, row, d)
    BY <1>8, <1>9, <1>10, <2>2
  <2>4. ASSUME NEW n \in ToSet(all), n.id = row.id PROVE n = row
    <3>1. CASE n \in ToSet(seen)
      BY <1>3, <2>1, <2>4, <3>1
    <3>2. CASE n \in ToSet(items)
      <4>1. n \in rows
        BY <1>9, <1>13, <3>2
      <4> QED
        BY <1>5, <2>1, <2>4, <4>1
    <3> QED
      BY <1>10, <3>1, <3>2
  <2> QED
    BY <2>3, <2>4
<1> HIDE DEF all
<1>18. (job[q].arg = "unread")' = d /\ (page[q].cursor)' = next /\ (page[q].seen)' = all
  BY <1>6, <1>8, <1>1
<1> QED
  BY <1>15, <1>16, <1>17, <1>18 DEF WalkOf

(* The newest rows of the map have one for each steady row.                *)
LEMMA GroupStep ==
  ASSUME FeedType, SoFar, BookInv, ListInv, [Next]_vars, NEW q \in Requests, GroupLatest(q)
  PROVE  MapOf(q)'
<1> DEFINE rows == Rows(job[q])
           newest == NewestIn(rows)
           new == SetToSeq(newest)
<1>1. /\ pc[q] = "page" /\ job[q].op = "latest" /\ job'[q] = job[q]
      /\ page'[q] = [page[q] EXCEPT !.seen = new]
      /\ page[q] \in [cursor : Cell \union {None}, seen : Seq(Cell)]
      /\ UNCHANGED <<now, stored>>
  BY DEF GroupLatest, Op, BookInv, Books
<1>2. rows \in SUBSET Cell /\ IsFiniteSet(rows)
  BY <1>1, RowsAre DEF BookInv, Course, Asked
<1>3. steady[q] \subseteq rows
  BY <1>1 DEF ListInv
<1>4. steady'[q] \subseteq steady[q]
  BY <1>1, FollowIs
<1>5. Rows(job[q])' = rows
  BY <1>1, SameRows
<1> HIDE DEF rows
<1>6. /\ newest \subseteq rows
      /\ \A n, m \in newest : n.id = m.id => n = m
      /\ \A row \in rows : \E n \in newest : n.id = row.id /\ n.key >= row.key
  BY <1>2, NewestIs
<1>7. IsFiniteSet(newest)
  BY <1>2, <1>6, FS_Subset
<1> HIDE DEF newest
<1>8. Distinct(new) /\ ToSet(new) = newest
  BY <1>7, AsList
<1>9. page'[q].seen = new
  BY <1>1
<1> HIDE DEF new
<1>10. ASSUME NEW row \in steady'[q]
       PROVE  \E n \in ToSet(new) : n.id = row.id /\ n.key >= row.key /\ n \in Rows(job[q])'
  <2>1. PICK n \in newest : n.id = row.id /\ n.key >= row.key
    BY <1>3, <1>4, <1>6
  <2>2. n \in Rows(job[q])'
    BY <1>5, <1>6
  <2> QED
    BY <1>8, <2>1, <2>2
<1> QED
  BY <1>6, <1>8, <1>9, <1>10 DEF MapOf

(* And they are found again.                                               *)
LEMMA FetchStep ==
  ASSUME FeedType, SoFar, BookInv, ListInv, [Next]_vars, NEW q \in Requests, FetchLatest(q)
  PROVE  MapOf(q)'
<1> DEFINE rows == Rows(job[q])
           seen == page[q].seen
           new == Only(seen, rows)
<1>1. /\ pc[q] = "fetch" /\ job[q].op = "latest" /\ job'[q] = job[q] /\ pc'[q] = "end"
      /\ page'[q] = [page[q] EXCEPT !.seen = new]
      /\ page[q] \in [cursor : Cell \union {None}, seen : Seq(Cell)]
  BY DEF FetchLatest, Op, BookInv, Books
<1>2. /\ Distinct(seen) /\ seen \in Seq(Cell)
      /\ \A n, m \in ToSet(seen) : n.id = m.id => n = m
      /\ \A row \in steady[q] : \E n \in ToSet(seen) :
           n.id = row.id /\ n.key >= row.key /\ n \in rows
  BY <1>1 DEF ListInv, MapOf
<1>3. steady'[q] \subseteq steady[q]
  BY <1>1, FollowIs
<1>4. page'[q].seen = new
  BY <1>1
<1> HIDE DEF rows, seen
<1>5. Distinct(new) /\ ToSet(new) = ToSet(seen) \intersect rows
  BY <1>2, OnlyIs
<1> HIDE DEF new
<1>6. \A row \in steady'[q] : \E n \in ToSet(new) : n.id = row.id /\ n.key >= row.key
  BY <1>2, <1>3, <1>5
<1>7. \A n, m \in ToSet(new) : n.id = m.id => n = m
  BY <1>2, <1>5
<1> QED
  BY <1>1, <1>4, <1>5, <1>6, <1>7 DEF MapOf

(* The walks stay whole on their way.                                      *)
LEMMA ListStep ==
  FeedType /\ SoFar /\ SampleType /\ BookInv /\ ListInv /\ [Next]_vars => ListInv'
<1> SUFFICES ASSUME FeedType, SoFar, SampleType, BookInv, ListInv, [Next]_vars,
                    NEW q \in Requests, job'[q].op \in {"walk", "latest"}
             PROVE  /\ steady'[q] \subseteq Rows(job[q])'
                    /\ IF job'[q].op = "walk" THEN WalkOf(q)' ELSE MapOf(q)'
  BY DEF ListInv
<1>1. Books /\ Course(q)
  BY DEF BookInv
<1>2. CASE Request(q)
  <2>1. /\ steady'[q] = Rows(job[q])'
        /\ pc'[q] = "page" /\ page'[q] = NoWalk
    BY <1>2, StartsWith
  <2>2. page'[q].seen = <<>> /\ page'[q].cursor = None
    BY <2>1 DEF NoWalk
  <2>3. WalkOf(q)'
    BY <2>1, <2>2, ListEmpty DEF WalkOf
  <2>4. MapOf(q)'
    BY <2>1 DEF MapOf
  <2> QED
    BY <2>1, <2>3, <2>4
<1>3. ASSUME job'[q] = job[q], pc[q] # "idle"
      PROVE  steady'[q] \subseteq steady[q] /\ steady'[q] \subseteq Rows(job[q])'
  BY <1>3, FollowIs
<1>4. CASE Untouched(q)
  <2>1. /\ job'[q] = job[q] /\ pc'[q] = pc[q] /\ page'[q] = page[q]
        /\ job[q].op \in {"walk", "latest"} /\ pc[q] # "idle"
    BY <1>1, <1>4, OpsAre DEF Untouched, Course, NoJob
  <2>2. steady'[q] \subseteq steady[q] /\ steady'[q] \subseteq Rows(job[q])'
    BY <1>3, <2>1
  <2>3. job[q].op = "walk" => WalkOf(q)'
    BY <2>1, <2>2 DEF ListInv, WalkOf
  <2>4. ASSUME job[q].op = "latest" PROVE MapOf(q)'
    <3>1. MapOf(q)
      BY <2>4 DEF ListInv
    <3>2. ASSUME pc[q] \in {"fetch", "end"}, NEW row \in steady'[q]
          PROVE  \E n \in ToSet(page[q].seen) :
                   n.id = row.id /\ n.key >= row.key /\ (pc[q] = "fetch" => n \in Rows(job[q])')
      <4>1. PICK n \in ToSet(page[q].seen) :
              n.id = row.id /\ n.key >= row.key /\ (pc[q] = "fetch" => n \in Rows(job[q]))
        BY <2>2, <3>1, <3>2 DEF MapOf
      <4>2. ASSUME pc[q] = "fetch" PROVE n \in Rows(job[q])'
        <5>1. n \in Rows(job[q]) /\ row \in Rows(job[q])' /\ n.id = row.id /\ n.key >= row.key
          BY <2>2, <4>1, <4>2
        <5> QED
          BY <2>1, <2>4, <5>1, MapKept
      <4> QED
        BY <4>1, <4>2
    <3> QED
      BY <2>1, <3>1, <3>2 DEF MapOf
  <2> QED
    BY <2>1, <2>2, <2>3, <2>4
<1>5. CASE Listed(q)
  <2>1. pc[q] \in {"page", "fetch"} /\ job'[q] = job[q]
    BY <1>5, PagesStep DEF Listed
  <2>2. steady'[q] \subseteq Rows(job[q])'
    BY <1>3, <2>1
  <2>3. CASE NextPage(q)
    <3>1. job[q].op = "walk"
      BY <2>3 DEF NextPage, Op
    <3> QED
      BY <2>1, <2>2, <2>3, <3>1, PageStep
  <2>4. CASE GroupLatest(q)
    <3>1. job[q].op = "latest"
      BY <2>4 DEF GroupLatest, Op
    <3> QED
      BY <2>1, <2>2, <2>4, <3>1, GroupStep
  <2>5. CASE FetchLatest(q)
    <3>1. job[q].op = "latest"
      BY <2>5 DEF FetchLatest, Op
    <3> QED
      BY <2>1, <2>2, <2>5, <3>1, FetchStep
  <2> QED
    BY <1>5, <2>3, <2>4, <2>5 DEF Listed
<1>6. ~Answered(q)
  BY DEF Answered, NoJob
<1>7. ASSUME NEW step \in {"look", "write"}, Went(q, step),
             \/ Check(q) \/ ArrivalLook(q) \/ MarkLook(q) \/ UnmarkLook(q)
             \/ PatchLook(q) \/ RemoveLook(q),
             ~Answer(q)
      PROVE  FALSE
  <2>1. Asked(job[q], step) /\ job'[q] = job[q]
    BY <1>1, <1>7, LooksAre DEF Went, Books
  <2> QED
    BY <1>7, <2>1 DEF Asked, Listing
<1>8. ~(BatchLook(q) /\ ~Answer(q))
  <2>1. ASSUME BatchLook(q), ~Answer(q) PROVE FALSE
    <3>1. job[q].op = "batch" /\ job'[q] = job[q]
      BY <2>1 DEF BatchLook, Op
    <3> QED
      BY <3>1
  <2> QED
    BY <2>1
<1> QED
  BY <1>1, <1>2, <1>4, <1>5, <1>6, <1>7, <1>8, Moves

(* At the end of a walk nothing is left ahead of it.                       *)
LEMMA WalksAreWhole ==
  ASSUME FeedType, BookInv, ListInv
  PROVE  WalkIsWhole
<1> SUFFICES ASSUME NEW r \in Requests, pc[r] = "end", NEW row \in steady[r]
             PROVE  LET shown == Only(page[r].seen, {n \in ToSet(page[r].seen) : n.id = row.id})
                    IN  Len(shown) = 1 /\ (job[r].op = "latest" => shown[1].key >= row.key)
  BY DEF WalkIsWhole
<1> DEFINE seen == page[r].seen
           same == {n \in ToSet(seen) : n.id = row.id}
<1>1. Asked(job[r], pc[r]) /\ page[r] \in [cursor : Cell \union {None}, seen : Seq(Cell)]
  BY DEF BookInv, Books, Course
<1>2. job[r].op \in {"walk", "latest"} /\ seen \in Seq(Cell)
  BY <1>1 DEF Asked, Listing
<1>3. \E n \in ToSet(seen) :
        /\ n.id = row.id
        /\ job[r].op = "latest" => n.key >= row.key
        /\ \A m \in ToSet(seen) : m.id = row.id => m = n
  <2>1. CASE job[r].op = "walk"
    <3>1. row \in ToSet(seen) /\ \A n \in ToSet(seen) : n.id = row.id => n = row
      BY <2>1 DEF ListInv, WalkOf
    <3> QED
      BY <2>1, <3>1
  <2>2. CASE job[r].op = "latest"
    <3>1. PICK n \in ToSet(seen) : n.id = row.id /\ n.key >= row.key
      BY <2>2 DEF ListInv, MapOf
    <3>2. \A m \in ToSet(seen) : m.id = n.id => m = n
      BY <2>2 DEF ListInv, MapOf
    <3> QED
      BY <3>1, <3>2
  <2> QED
    BY <1>2, <2>1, <2>2
<1>4. Distinct(seen)
  <2>1. CASE job[r].op = "walk"
    <3> DEFINE d == job[r].arg = "unread"
    <3>1. InOrderOf(seen, Behind(d)) /\ d \in BOOLEAN
      BY <2>1 DEF ListInv, WalkOf
    <3> HIDE DEF d, seen
    <3> QED
      BY <1>2, <3>1, WalkedOnce
  <2>2. CASE job[r].op = "latest"
    BY <2>2 DEF ListInv, MapOf
  <2> QED
    BY <1>2, <2>1, <2>2
<1> HIDE DEF seen
<1>5. PICK n \in ToSet(seen) :
        /\ n.id = row.id
        /\ job[r].op = "latest" => n.key >= row.key
        /\ \A m \in ToSet(seen) : m.id = row.id => m = n
  BY <1>3
<1>6. /\ n \in ToSet(seen) \intersect same
      /\ \A y \in ToSet(seen) \intersect same : y = n
  <2>1. n \in same
    BY <1>5
  <2>2. \A y \in same : y = n
    BY <1>5
  <2> QED
    BY <2>1, <2>2
<1> HIDE DEF same
<1>7. Len(Only(seen, same)) = 1 /\ Only(seen, same)[1] = n
  BY <1>2, <1>4, <1>6, OnlyOne
<1>8. Len(Only(seen, same)) = 1 /\ (job[r].op = "latest" => Only(seen, same)[1].key >= row.key)
  BY <1>5, <1>7
<1> QED
  BY <1>8 DEF same, seen

-----------------------------------------------------------------------------
(* The start of the invariant on what is read, and of shifts.              *)
LEMMA ReadStart == Init => ReadInv
<1> SUFFICES ASSUME Init PROVE ReadInv
  OBVIOUS
<1> USE DEF Init
<1>1. FeedType
  <2>1. \A w \in Workers : staff[w] \in [name : Names, start : Hours, end : Hours,
                                       is : {"none", "live", "removed"}]
    BY ShiftAssumption
  <2>2. [id : events, at : {0}, read : {None}] \subseteq Notices
    BY DEF Notices
  <2>3. feed \in [Foremen -> SUBSET Notices]
    BY <2>2
  <2>4. staff \in [Workers -> [name : Names, start : Hours, end : Hours,
                               is : {"none", "live", "removed"}]]
    BY <2>1
  <2>5. \A u \in Foremen :
          /\ \A n \in feed[u] : n.id \in events
          /\ \A n, m \in feed[u] : n.id = m.id => n = m
    OBVIOUS
  <2>6. now \in Nat /\ pc \in [Requests -> Pcs] /\ DOMAIN job = Requests
    BY DEF Pcs
  <2>7. events \in SUBSET Events /\ opened \in [Foremen -> SUBSET Events]
    OBVIOUS
  <2> QED
    BY <2>3, <2>4, <2>5, <2>6, <2>7 DEF FeedType
<1>2. JobInv /\ MarkInv /\ PatchInv
  BY DEF JobInv, MarkInv, PatchInv, Op
<1>3. StaysUntilRead
  <2>1. \A e \in events : [id |-> e, at |-> 0, read |-> None]
                          \in [id : events, at : {0}, read : {None}]
    OBVIOUS
  <2> QED
    BY <2>1 DEF StaysUntilRead, Unread
<1>4. ShiftHasLength
  BY ShiftAssumption DEF ShiftHasLength
<1> QED
  BY <1>1, <1>2, <1>3, <1>4 DEF ReadInv

(* The start of the invariant on the day of a worker.                      *)
LEMMA DayStart == Init => DayInv
<1> SUFFICES ASSUME Init PROVE DayInv
  OBVIOUS
<1> USE DEF Init
<1>1. SoFar
  BY DEF SoFar
<1>2. SampleType
  <2>1. <<>> \in Seq(0..now) /\ <<0>> \in Seq(0..now)
    OBVIOUS
  <2>2. PICK skewed : samples = [w \in Workers |-> [t \in Times |->
          IF w \in OnSite /\ t \in skewed THEN <<0>> ELSE <<>>]]
    OBVIOUS
  <2>3. \A w \in Workers, t \in Times :
          (IF w \in OnSite /\ t \in skewed THEN <<0>> ELSE <<>>) \in Seq(0..now)
    BY <2>1
  <2> QED
    BY <2>2, <2>3 DEF SampleType
<1>3. Books
  <2>1. page \in [Requests -> [cursor : Cell \union {None}, seen : Seq(Cell)]]
    BY OpsAre
  <2> QED
    BY <2>1 DEF Books, Pcs
<1>4. BookInv
  <2>1. \A r \in Requests : pc[r] = "idle" /\ job[r] = NoJob /\ fresh[r] = <<>> /\ page[r] = NoWalk
    OBVIOUS
  <2> QED
    BY <1>3, <2>1 DEF BookInv, Course
<1>5. Served /\ Bounds
  BY WorkerFeedAssumption DEF Served, Bounds
<1>6. BatchInv /\ ArriveInv
  BY DEF BatchInv, ArriveInv, Op
<1>7. ListInv
  BY DEF ListInv, NoJob
<1> QED
  BY <1>1, <1>2, <1>4, <1>5, <1>6, <1>7 DEF DayInv

(* A step of the invariant on the day of a worker.                         *)
LEMMA DayStep == ReadInv /\ DayInv /\ [Next]_vars => DayInv'
<1> SUFFICES ASSUME ReadInv, DayInv, [Next]_vars PROVE DayInv'
  OBVIOUS
<1>1. FeedType /\ JobInv /\ now \in Nat
  BY DEF ReadInv, FeedType
<1> QED
  BY <1>1, SoFarStep, SampleStep, BookStep, ServedStep, BoundsStep, BatchStep, ArriveStep,
     ListStep DEF DayInv

(* All of it holds of every state.                                         *)
LEMMA Invariance == Spec => []IInv
<1>1. ReadInv /\ [Next]_vars => ReadInv'
  BY TypeStep, JobStep, MarkStep, PatchStep, StaysStep, ShiftStep DEF ReadInv
<1>2. IInv /\ [Next]_vars => IInv'
  BY <1>1, DayStep DEF IInv
<1>3. Init => IInv
  BY ReadStart, DayStart DEF IInv
<1> QED
  BY <1>2, <1>3, PTL DEF Spec

(* The type of the specification is part of the invariant.                 *)
LEMMA AllTyped ==
  ASSUME IInv
  PROVE  TypeOK
<1>1. FeedType /\ SoFar /\ SampleType /\ BookInv /\ Served /\ Bounds
  BY DEF IInv, ReadInv, DayInv
<1>2. now \in 0..MaxTime
  BY <1>1, WorkerFeedAssumption DEF FeedType, Bounds
<1>3. \A w \in Workers, t \in Times : \A i \in DOMAIN samples[w][t] : samples[w][t][i] <= now
  <2> SUFFICES ASSUME NEW w \in Workers, NEW t \in Times, NEW i \in DOMAIN samples[w][t]
               PROVE  samples[w][t][i] <= now
    OBVIOUS
  <2>1. samples[w][t] \in Seq(0..now)
    BY <1>1 DEF SampleType
  <2>2. samples[w][t][i] \in 0..now
    BY <2>1, LenProperties
  <2> QED
    BY <1>2, <2>2
<1>4. feed \in [Foremen -> SUBSET [id : events, at : 0..now, read : 0..now \union {None}]]
  <2>1. ASSUME NEW u \in Foremen, NEW n \in feed[u]
        PROVE  n \in [id : events, at : 0..now, read : 0..now \union {None}]
    <3>1. n \in Notices /\ n.id \in events
      BY <1>1 DEF FeedType
    <3>2. n.at \in 0..now /\ n.read \in 0..now \union {None}
      BY <1>1 DEF SoFar
    <3> QED
      BY <3>1, <3>2 DEF Notices
  <2> QED
    BY <1>1, <2>1 DEF FeedType
<1>5. \A r \in Requests :
        /\ IF pc[r] = "idle" THEN job[r] = NoJob ELSE job[r].op \in DOMAIN Tables
        /\ fresh[r] # <<>> <=> pc[r] = "write" /\ job[r].op = "batch"
        /\ pc[r] \notin {"page", "fetch", "end"} => page[r] = NoWalk
        /\ r \in late => pc[r] = "write"
  BY <1>1 DEF BookInv, Books, Course, Asked, Ops, Listing
<1> QED
  <2>1. pc \in [Requests -> {"idle", "check", "look", "write", "page", "fetch", "end"}]
    BY <1>1 DEF FeedType, Pcs
  <2>2. /\ now \in 0..MaxTime
        /\ arrivals \in SUBSET [id : events, who : OnSite, at : Times]
        /\ opened \in [Foremen -> SUBSET events]
        /\ crossed \in SUBSET Workers
        /\ served \in 0..MaxRequests
    BY <1>1, <1>2 DEF Bounds, Served
  <2>3. /\ staff \in [Workers -> [name : Names, start : Hours, end : Hours,
                                  is : {"none", "live", "removed"}]]
        /\ events \in SUBSET Events
        /\ \A u \in Foremen : \A n, m \in feed[u] : n.id = m.id => n = m
    BY <1>1 DEF FeedType
  <2> QED
    BY <1>3, <1>4, <1>5, <2>1, <2>2, <2>3 DEF TypeOK

(* Every state has the type of the tables and requests: no notification    *)
(* without its event, no arrival of a worker who is not of the project,    *)
(* nothing from the future, no fresh samples but of a batch about to store *)
(* them (worker.service.ts:189, :240, :305).                               *)
THEOREM Typed == Spec => []TypeOK
<1>1. IInv => TypeOK
  BY AllTyped
<1> QED
  BY Invariance, <1>1, PTL

(* No night, no colleague and no overlap takes an event out of the unread  *)
(* list of a foreman who has not marked it (notifications.service.ts:29).  *)
THEOREM EventsStayUntilRead == Spec => []StaysUntilRead
<1>1. IInv => StaysUntilRead
  BY DEF IInv, ReadInv
<1> QED
  BY Invariance, <1>1, PTL

(* A shift gets zero length only where two changes of one worker overlap   *)
(* (employees.service.ts:109).                                             *)
THEOREM ShiftsHaveLength == Spec => []ShiftHasLength
<1>1. IInv => ShiftHasLength
  BY DEF IInv, ReadInv
<1> QED
  BY Invariance, <1>1, PTL

(* The time of the first reading is overwritten only by a request that     *)
(* found the notification unread before (notifications.service.ts:95).     *)
THEOREM FirstReadingKept == Spec => FirstReadKept
<1>1. IInv /\ [Next]_vars =>
        [\A u \in Foremen : \A n \in feed[u], m \in feed'[u] :
           n.id = m.id /\ None \notin {n.read, m.read} =>
             \/ m.read = n.read
             \/ \E r \in late : Op(r, "mark", "write") /\ pc'[r] = "idle"]_vars
  BY ReadStep DEF IInv, ReadInv
<1> QED
  BY Invariance, <1>1, PTL DEF Spec, FirstReadKept

(* A tap or a batch that is sent again adds nothing to what is stored,     *)
(* unless another request stored the same between its look and its write   *)
(* (worker.service.ts:215, :324).                                          *)
THEOREM RetriesHarmless == Spec => RetriesAddNothing
<1>1. IInv /\ [Next]_vars =>
        [LET Stale == \E r \in late : pc[r] = "write" /\ pc'[r] = "idle"
             Streamed == \E r \in Requests : Op(r, "stream", "write") /\ pc'[r] = "idle"
         IN /\ \A w \in Workers, t \in Times :
                 Len(samples'[w][t]) > Len(samples[w][t]) =>
                   \/ samples[w][t] = <<>> /\ Len(samples'[w][t]) = 1
                   \/ Stale
                   \/ Streamed
            /\ \A a \in arrivals' \ arrivals, b \in arrivals :
                 a.who = b.who /\ Near(a.at, b.at) => Stale]_vars
  BY RetryStep DEF IInv, ReadInv, DayInv
<1> QED
  BY Invariance, <1>1, PTL DEF Spec, RetriesAddNothing

(* A walk over the pages of a list shows each row that stayed exactly      *)
(* once, and the map shows each such worker once, by a sample at least as  *)
(* new (page.dto.ts:72, telemetry.service.ts:66).                          *)
THEOREM WalksWhole == Spec => []WalkIsWhole
<1>1. IInv => WalkIsWhole
  BY WalksAreWhole DEF IInv, ReadInv, DayInv
<1> QED
  BY Invariance, <1>1, PTL
=============================================================================
