------------------------------ MODULE Realtime ------------------------------
(***************************************************************************)
(* The server's side of the live channel: one-time tickets, the handshake  *)
(* of a socket, the registry and the foremen's room, the heartbeat, the    *)
(* announcement of stored notifications, and the notice a worker's device  *)
(* sends on a socket it closes at once.                                    *)
(*                                                                         *)
(* An action is what runs between two awaits; so a socket can close while  *)
(* its handshake waits for the database.  What opens and closes sockets at *)
(* the other end is left to ForemanChannel.                                *)
(*                                                                         *)
(* One company; a frame's fields, the other channel's location samples and *)
(* bearer tokens are left out.                                             *)
(***************************************************************************)
EXTENDS Integers, FiniteSets

CONSTANTS
  Foremen,   \* sockets a foreman's app may open
  Workers,   \* sockets a worker's device may open
  None,
  MaxEvents, \* bound: notifications ever stored
  MaxFaults  \* bound: failures that are not forced by the code itself

Sockets == Foremen \union Workers

ASSUME SocketsAssumption == Foremen \intersect Workers = {} /\ None \notin Sockets
ASSUME RealtimeBoundsAssumption == MaxEvents \in Nat /\ MaxFaults \in Nat

VARIABLES
  ticket,  \* ticket[s]: the one minted for s: none, fresh, expired, used, gone
  uses,    \* uses[s]: the socket whose ticket s presents
  end,     \* end[s]: the server's end: none, open or closed
  step,    \* step[s]: the next await of its handshake, or how that ended
  sockets, \* the registry: sockets with a state
  room,    \* the foremen's room
  alive,   \* sockets opened since the last ping, or that answer it
  cut,     \* sockets whose link is dead, unknown to either end
  notice,  \* notice[s]: where the frame that a worker sent on s is
  stored,  \* notifications stored so far
  owed,    \* notifications stored and not announced yet
  heard,   \* heard[s]: announcements on their way to the client
  faults   \* history: failures so far

handshake == <<ticket, uses, step>>
registry == <<end, sockets, room, alive>>
events == <<stored, owed>>
server == <<handshake, registry, cut, notice, events, heard, faults>>

RealtimeTypeOK ==
  /\ ticket \in [Sockets -> {"none", "fresh", "expired", "used", "gone"}]
  /\ uses \in [Sockets -> Sockets]
  /\ end \in [Sockets -> {"none", "open", "closed"}]
  /\ step \in [Sockets -> {"none", "find", "claim", "subject", "ok", "refused"}]
  /\ sockets \in SUBSET {s \in Sockets : end[s] # "none"}
  /\ room \in SUBSET Foremen
  /\ alive \in SUBSET Sockets
  /\ cut \in SUBSET Sockets
  /\ notice \in [Workers -> {"none", "waiting", "ingest", "done", "refused",
                            "lost"}]
  /\ stored \in 0..MaxEvents
  /\ owed \in 0..stored
  /\ heard \in [Sockets -> 0..MaxEvents]
  /\ faults \in 0..MaxFaults

RealtimeInit ==
  /\ ticket = [s \in Sockets |-> "none"]
  /\ uses = [s \in Sockets |-> s]
  /\ end = [s \in Sockets |-> "none"]
  /\ step = [s \in Sockets |-> "none"]
  /\ sockets = {}
  /\ room = {}
  /\ alive = {}
  /\ cut = {}
  /\ notice = [s \in Workers |-> "none"]
  /\ stored = 0
  /\ owed = 0
  /\ heard = [s \in Sockets |-> 0]
  /\ faults = 0

-----------------------------------------------------------------------------
Open == {s \in sockets : end[s] = "open"}

Fault == faults < MaxFaults /\ faults' = faults + 1

(* Tickets: one row per attempt.                                           *)
Issue(s) == ticket' = [ticket EXCEPT ![s] = "fresh"]

Expire(t) ==
  /\ ticket[t] = "fresh"
  /\ Fault
  /\ ticket' = [ticket EXCEPT ![t] = "expired"]
  /\ UNCHANGED <<uses, step, registry, cut, notice, events, heard>>

(* The nightly job.  A used ticket is refused, whether its row is there or *)
(* not, so of those only the expired ones matter.                          *)
Prune(t) ==
  /\ ticket[t] = "expired"
  /\ ticket' = [ticket EXCEPT ![t] = "gone"]
  /\ UNCHANGED <<uses, step, registry, cut, notice, events, heard, faults>>

-----------------------------------------------------------------------------
(* The upgrade registers the socket before anything is awaited.            *)
Attach(s, t) ==
  /\ end[s] = "none"
  /\ uses' = [uses EXCEPT ![s] = t]
  /\ end' = [end EXCEPT ![s] = "open"]
  /\ step' = [step EXCEPT ![s] = "find"]
  /\ sockets' = sockets \union {s}
  /\ alive' = alive \union {s}
  /\ UNCHANGED <<ticket, room>>

(* A client or a proxy may repeat a request it got no answer to: the link  *)
(* of the first is dead by then, or of the second soon after.              *)
Retry(s, t) ==
  /\ ticket[s] = "none"
  /\ s # t
  /\ s \in Foremen <=> t \in Foremen
  /\ uses[t] = t
  /\ step[t] # "none"
  /\ Fault
  /\ Attach(s, t)
  /\ cut' = cut \union {s}
  /\ UNCHANGED <<notice, events, heard>>

(* The error frame, and the socket closed from this side.                  *)
Refuse(s) ==
  /\ step' = [step EXCEPT ![s] = "refused"]
  /\ end' = [end EXCEPT ![s] = "closed"]
  /\ UNCHANGED <<uses, sockets, room, alive, cut, notice, events, heard, faults>>

FindTicket(s) ==
  /\ step[s] = "find"
  /\ UNCHANGED ticket
  /\ IF ticket[uses[s]] \in {"expired", "gone"} THEN Refuse(s)
     ELSE /\ step' = [step EXCEPT ![s] = "claim"]
          /\ UNCHANGED <<uses, registry, cut, notice, events, heard, faults>>

(* The claim does not ask whether the ticket is unused.                    *)
ClaimTicketSlip(s) ==
  /\ step[s] = "claim"
  /\ ticket' = [ticket EXCEPT ![uses[s]] = "used"]
  /\ step' = [step EXCEPT ![s] = "subject"]
  /\ UNCHANGED <<uses, registry, cut, notice, events, heard, faults>>

ClaimTicket(s) ==
  LET t == uses[s] IN
  /\ step[s] = "claim"
  /\ IF ticket[t] \in {"used", "gone"} THEN UNCHANGED ticket /\ Refuse(s)
     ELSE /\ ticket' = [ticket EXCEPT ![t] = "used"]
          /\ step' = [step EXCEPT ![s] = "subject"]
          /\ UNCHANGED <<uses, registry, cut, notice, events, heard, faults>>

(* The subject is found: the socket is admitted, and a foreman's joins the *)
(* room in the same turn, whether it is still registered or not.           *)
Admit(s) ==
  /\ step[s] = "subject"
  /\ step' = [step EXCEPT ![s] = "ok"]
  /\ room' = room \union ({s} \intersect Foremen)
  /\ UNCHANGED <<ticket, uses, end, sockets, alive, cut, notice, events, heard, faults>>

(* No credential, no subject behind it any more, or a statement failed.    *)
HandshakeFails(s) ==
  /\ step[s] \in {"find", "claim", "subject"}
  /\ Fault
  /\ step' = [step EXCEPT ![s] = "refused"]
  /\ end' = [end EXCEPT ![s] = "closed"]
  /\ UNCHANGED <<ticket, uses, sockets, room, alive, cut, notice, events, heard>>

Handshake(s) == FindTicket(s) \/ ClaimTicket(s) \/ Admit(s)

-----------------------------------------------------------------------------
(* The close event: the socket and the rooms its state names are dropped.  *)
HandleDisconnect(s) ==
  /\ s \in sockets
  /\ end[s] = "closed"
  /\ sockets' = sockets \ {s}
  /\ room' = room \ {s}
  /\ UNCHANGED <<handshake, end, alive, cut, notice, events, heard, faults>>

(* The mark is not taken back, so nobody is ever overdue.                  *)
SweepSlip ==
  LET overdue == sockets \ alive IN
  /\ sockets # {}
  /\ sockets' = sockets \ overdue
  /\ room' = room \ overdue
  /\ end' = [s \in Sockets |-> IF s \in overdue THEN "closed" ELSE end[s]]
  /\ UNCHANGED <<alive, handshake, cut, notice, events, heard, faults>>

(* The overdue are forgotten, and their links left open.                   *)
SweepForgetsSlip ==
  LET overdue == sockets \ alive IN
  /\ sockets # {}
  /\ sockets' = sockets \ overdue
  /\ room' = room \ overdue
  /\ alive' = Open \ cut
  /\ UNCHANGED <<end, handshake, cut, notice, events, heard, faults>>

(* The heartbeat drops who did not answer the last ping and pings the rest.*)
(* A live link answers long before the next beat, the only reader of the   *)
(* mark, so its pong is part of this step.                                 *)
Sweep ==
  LET overdue == sockets \ alive IN
  /\ sockets # {}
  /\ sockets' = sockets \ overdue
  /\ room' = room \ overdue
  /\ end' = [s \in Sockets |-> IF s \in overdue THEN "closed" ELSE end[s]]
  /\ alive' = Open \ cut
  /\ UNCHANGED <<handshake, cut, notice, events, heard, faults>>

-----------------------------------------------------------------------------
(* The frame of a worker's notice arrives: the handler takes the socket's  *)
(* state at once and then waits for the handshake.                         *)
NoticeArrives(s) ==
  /\ notice[s] = "none"
  /\ end[s] = "open"
  /\ s \notin cut
  /\ notice' = [notice EXCEPT ![s] = IF s \in sockets THEN "waiting" ELSE "refused"]
  /\ UNCHANGED <<handshake, registry, cut, events, heard, faults>>

(* The handler asks again, after the handshake, whether the socket is      *)
(* still there.                                                            *)
NoticeSettledSlip(s) ==
  /\ notice[s] = "waiting"
  /\ step[s] \in {"ok", "refused"}
  /\ notice' = [notice EXCEPT ![s] =
       IF step[s] = "ok" /\ s \in sockets THEN "ingest" ELSE "refused"]
  /\ UNCHANGED <<handshake, registry, cut, events, heard, faults>>

NoticeSettled(s) ==
  /\ notice[s] = "waiting"
  /\ step[s] \in {"ok", "refused"}
  /\ notice' = [notice EXCEPT ![s] = IF step[s] = "ok" THEN "ingest" ELSE "refused"]
  /\ UNCHANGED <<handshake, registry, cut, events, heard, faults>>

Store == stored < MaxEvents /\ stored' = stored + 1 /\ owed' = owed + 1

(* Stored and announced, unless the upload has been stored already or the  *)
(* phase is unknown.                                                       *)
IngestNotice(s) ==
  /\ notice[s] = "ingest"
  /\ notice' = [notice EXCEPT ![s] = "done"]
  /\ Store \/ UNCHANGED events
  /\ UNCHANGED <<handshake, registry, cut, heard, faults>>

Notice(s) == NoticeSettled(s) \/ IngestNotice(s)

(* A report comes in by upload.                                            *)
StoreReport ==
  /\ Store
  /\ UNCHANGED <<handshake, registry, cut, notice, heard, faults>>

(* After the commit: a frame to every open socket of the room.             *)
Receivers == {s \in room : end[s] = "open"}

Publish ==
  /\ owed > 0
  /\ owed' = owed - 1
  /\ heard' = [s \in Sockets |->
       IF s \in Receivers \ cut THEN heard[s] + 1 ELSE heard[s]]
  /\ UNCHANGED <<handshake, registry, cut, notice, stored, faults>>

(* The process ends, drained or not, and another takes its place.          *)
Restart ==
  /\ Fault
  /\ step' = [s \in Sockets |->
       IF step[s] \in {"find", "claim", "subject"} THEN "refused" ELSE step[s]]
  /\ end' = [s \in Sockets |-> IF end[s] = "open" THEN "closed" ELSE end[s]]
  /\ sockets' = {}
  /\ room' = {}
  /\ alive' = {}
  /\ notice' = [s \in Workers |->
       IF notice[s] \in {"waiting", "ingest"} THEN "lost" ELSE notice[s]]
  /\ owed' = 0
  /\ UNCHANGED <<ticket, uses, cut, stored, heard>>

(* The link goes, and neither end is told.                                 *)
Cut(s) ==
  /\ end[s] = "open"
  /\ s \notin cut
  /\ Fault
  /\ cut' = cut \union {s}
  /\ heard' = [heard EXCEPT ![s] = 0]
  /\ UNCHANGED <<handshake, registry, notice, events>>
=============================================================================
