--------------------------- MODULE ForemanChannel ---------------------------
(***************************************************************************)
(* The foreman's app on the live channel of Realtime, composed with it.    *)
(*                                                                         *)
(* The app opens a socket with a fresh ticket, reconnects after every      *)
(* closure it is told of, and fetches the list of notifications when one   *)
(* is announced and when it is back; the list on screen is what the last   *)
(* answer to arrive had in it.  A worker's device opens a socket of its    *)
(* own, sends one notice and closes.                                       *)
(*                                                                         *)
(* Left out: marking as read (WorkerFeed has it), the backoff's delays    *)
(* (they only space attempts out), mock mode.                              *)
(***************************************************************************)
EXTENDS Realtime

CONSTANTS
  Fetches,    \* slots for fetches of the list in flight
  MaxVisits   \* bound: times a foreman signs in or a worker's device connects

ASSUME VisitsAssumption == MaxVisits \in Nat

VARIABLES
  signedIn,  \* a foreman is signed in
  dial,      \* idle, waiting for a ticket, or for the timer of the backoff
  channel,   \* the socket the app holds
  up,        \* it has been accepted, as far as the app knows
  missed,    \* the next connection has to fetch what was missed
  fetch,     \* fetch[f]: idle, asked, or the list an answer carries
  shown,     \* how many notifications the list on screen has
  settling,  \* history: the first connection since sign-in is not up yet
  gap,       \* history: an announcement missed the app as it was connecting,
             \* or a fetch failed or was overtaken by an older answer
  visits     \* history: times signed in or connected

client == <<signedIn, dial, channel, up, missed, settling, visits>>
list == <<fetch, shown, gap>>
vars == <<server, client, list>>

Idle == -2
Asked == -1

TypeOK ==
  /\ RealtimeTypeOK
  /\ signedIn \in BOOLEAN
  /\ dial \in {"idle", "ticket", "timer"}
  /\ channel \in Foremen \union {None}
  /\ up \in BOOLEAN
  /\ missed \in BOOLEAN
  /\ fetch \in [Fetches -> {Idle, Asked} \union 0..MaxEvents]
  /\ shown \in 0..MaxEvents
  /\ settling \in BOOLEAN
  /\ gap \in BOOLEAN
  /\ visits \in 0..MaxVisits
  /\ channel # None => dial = "idle" /\ ticket[channel] # "none"

Init ==
  /\ RealtimeInit
  /\ signedIn = FALSE
  /\ dial = "idle"
  /\ channel = None
  /\ up = FALSE
  /\ missed = FALSE
  /\ fetch = [f \in Fetches |-> Idle]
  /\ shown = 0
  /\ settling = FALSE
  /\ gap = FALSE
  /\ visits = 0

-----------------------------------------------------------------------------
(* The provider is built: it connects, and fetches the list.               *)
SignIn ==
  /\ ~signedIn
  /\ visits < MaxVisits
  /\ visits' = visits + 1
  /\ signedIn' = TRUE
  /\ dial' = "ticket"
  /\ settling' = TRUE
  /\ \E f \in Fetches : fetch' = [fetch EXCEPT ![f] = Asked]
  /\ UNCHANGED <<server, channel, up, missed, shown, gap>>

(* The provider is disposed of: what is under way is ignored from now on,  *)
(* and the socket is closed.                                               *)
SignOut ==
  /\ signedIn
  /\ signedIn' = FALSE
  /\ dial' = "idle"
  /\ channel' = None
  /\ up' = FALSE
  /\ missed' = FALSE
  /\ settling' = FALSE
  /\ fetch' = [f \in Fetches |-> Idle]
  /\ shown' = 0
  /\ gap' = FALSE
  /\ UNCHANGED <<server, visits>>

(* The backoff's timer is set without a note that something may be missed. *)
ScheduleReconnectSlip ==
  /\ dial' = "timer"
  /\ settling' = FALSE
  /\ UNCHANGED missed

ScheduleReconnect ==
  /\ dial' = "timer"
  /\ missed' = TRUE
  /\ settling' = FALSE

(* The ticket arrives, and the socket is asked for with it.                *)
Connect ==
  LET s == CHOOSE n \in Foremen : ticket[n] = "none" /\ end[n] = "none" IN
  /\ dial = "ticket"
  /\ \E n \in Foremen : ticket[n] = "none" /\ end[n] = "none"
  /\ Issue(s)
  /\ dial' = "idle"
  /\ channel' = s
  /\ up' = FALSE
  /\ UNCHANGED <<uses, step, registry, cut, notice, events, heard, faults>>
  /\ UNCHANGED <<signedIn, missed, settling, visits, list>>

NoTicket ==
  /\ dial = "ticket"
  /\ Fault
  /\ ScheduleReconnect
  /\ UNCHANGED <<handshake, registry, cut, notice, events, heard>>
  /\ UNCHANGED <<signedIn, channel, up, visits, list>>

Upgrade ==
  /\ channel # None
  /\ Attach(channel, channel)
  /\ UNCHANGED <<cut, notice, events, heard, faults, client, list>>

(* The upgrade never got there: the app sees its socket fail.              *)
UpgradeFails ==
  /\ channel # None
  /\ end[channel] = "none"
  /\ Fault
  /\ end' = [end EXCEPT ![channel] = "closed"]
  /\ UNCHANGED <<handshake, sockets, room, alive, cut, notice, events, heard>>
  /\ UNCHANGED <<client, list>>

Refetch ==
  /\ \E f \in Fetches :
       /\ fetch[f] = Idle
       /\ fetch' = [fetch EXCEPT ![f] = Asked]
  /\ UNCHANGED <<shown, gap>>

(* The upgrade is answered, before the server knows who this is.           *)
Ready ==
  /\ channel # None
  /\ ~up
  /\ step[channel] # "none"
  /\ up' = TRUE
  /\ settling' = FALSE
  /\ missed' = FALSE
  /\ IF missed THEN Refetch ELSE UNCHANGED list
  /\ UNCHANGED <<server, signedIn, dial, channel, visits>>

(* The closed socket is kept while the backoff's timer runs.               *)
OnClosedSlip ==
  /\ channel # None
  /\ end[channel] = "closed"
  /\ up' = FALSE
  /\ ScheduleReconnect
  /\ UNCHANGED <<server, signedIn, channel, visits, list>>

(* The app is told that its socket is closed; what was on its way is lost  *)
(* or has been read.                                                       *)
OnClosed ==
  /\ channel # None
  /\ end[channel] = "closed"
  /\ channel' = None
  /\ up' = FALSE
  /\ ScheduleReconnect
  /\ UNCHANGED <<server, signedIn, visits, list>>

(* The timer fires.                                                        *)
Reconnect ==
  /\ dial = "timer"
  /\ dial' = "ticket"
  /\ UNCHANGED <<server, signedIn, channel, up, missed, settling, visits, list>>

(* The other end is closed, or the link breaks and both are told.          *)
Close(s) ==
  /\ s \in Open \ cut
  /\ \/ s \in Foremen \ {channel} /\ UNCHANGED faults
     \/ s \in Workers /\ notice[s] # "none" /\ UNCHANGED faults
     \/ Fault
  /\ end' = [end EXCEPT ![s] = "closed"]
  /\ UNCHANGED <<handshake, sockets, room, alive, cut, notice, events, heard>>
  /\ UNCHANGED <<client, list>>

OnMessage ==
  /\ channel # None
  /\ heard[channel] > 0
  /\ heard' = [heard EXCEPT ![channel] = @ - 1]
  /\ Refetch
  /\ UNCHANGED <<handshake, registry, cut, notice, events, faults, client>>

-----------------------------------------------------------------------------
(* The list of notifications.                                              *)
FetchReads(f) ==
  /\ fetch[f] = Asked
  /\ fetch' = [fetch EXCEPT ![f] = stored]
  /\ UNCHANGED <<server, client, shown, gap>>

FetchLands(f) ==
  /\ fetch[f] >= 0
  /\ fetch' = [fetch EXCEPT ![f] = Idle]
  /\ shown' = fetch[f]
  /\ gap' = (fetch[f] # stored /\ (gap \/ fetch[f] < shown))
  /\ UNCHANGED <<server, client>>

FetchFails(f) ==
  /\ fetch[f] # Idle
  /\ Fault
  /\ fetch' = [fetch EXCEPT ![f] = Idle]
  /\ gap' = (gap \/ shown # stored)
  /\ UNCHANGED <<handshake, registry, cut, notice, events, heard, client, shown>>

(* An announcement the app neither receives nor is going to make up for.   *)
Announce ==
  /\ Publish
  /\ gap' = (gap \/ (signedIn /\ (settling \/ up) /\ channel \notin Receivers))
  /\ UNCHANGED <<client, fetch, shown>>

(* What was not announced before the process ended never is.               *)
ServerRestarts ==
  /\ Restart
  /\ gap' = (gap \/ (signedIn /\ settling /\ owed > 0))
  /\ UNCHANGED <<client, fetch, shown>>

-----------------------------------------------------------------------------
(* The worker's device.                                                    *)
WorkerConnects(s) ==
  /\ ticket[s] = "none"
  /\ end[s] = "none"
  /\ visits < MaxVisits
  /\ visits' = visits + 1
  /\ Issue(s)
  /\ UNCHANGED <<uses, step, registry, cut, notice, events, heard, faults, list>>
  /\ UNCHANGED <<signedIn, dial, channel, up, missed, settling>>

WorkerUpgrades(s) ==
  /\ ticket[s] # "none"
  /\ Attach(s, s)
  /\ UNCHANGED <<cut, notice, events, heard, faults, client, list>>

-----------------------------------------------------------------------------
(* What the code does by itself, it does: statements return, the event     *)
(* loop delivers, timers fire.  Failures, events and people owe nothing.   *)
(* No step but the heartbeat can go on for ever, so fairness of each side  *)
(* as a whole is enough.                                                   *)
ServerTurn ==
  \/ Announce
  \/ /\ \/ \E s \in Sockets : Handshake(s) \/ HandleDisconnect(s)
        \/ \E s \in Workers : Notice(s)
     /\ UNCHANGED <<client, list>>

Heartbeat == Sweep /\ UNCHANGED <<client, list>>

AppTurn ==
  \/ Connect
  \/ Upgrade
  \/ Ready
  \/ OnClosed
  \/ Reconnect
  \/ OnMessage
  \/ \E f \in Fetches : FetchReads(f) \/ FetchLands(f)

ServerEvent ==
  /\ \/ \E s \in Sockets :
          \/ Expire(s) \/ Prune(s)
          \/ \E t \in Sockets : Retry(s, t)
          \/ HandshakeFails(s)
          \/ Cut(s)
     \/ \E s \in Workers : NoticeArrives(s)
     \/ StoreReport
  /\ UNCHANGED <<client, list>>

AppEvent ==
  \/ SignIn
  \/ SignOut
  \/ NoTicket
  \/ UpgradeFails
  \/ \E f \in Fetches : FetchFails(f)

Next ==
  \/ ServerTurn
  \/ Heartbeat
  \/ AppTurn
  \/ ServerEvent
  \/ ServerRestarts
  \/ AppEvent
  \/ \E s \in Sockets : Close(s)
  \/ \E s \in Workers : WorkerConnects(s) \/ WorkerUpgrades(s)

Spec == Init /\ [][Next]_vars

FairSpec ==
  Spec /\ WF_vars(ServerTurn) /\ WF_vars(Heartbeat) /\ WF_vars(AppTurn)

-----------------------------------------------------------------------------
(* realtime-ticket.service.ts:69, :105: a ticket opens one socket, however *)
(* many handshakes present it at once.                                     *)
OneSocketPerTicket ==
  \A s, t \in Sockets :
    s # t /\ {step[s], step[t]} \subseteq {"subject", "ok"} => uses[s] # uses[t]

(* foreman-notifications.gateway.ts:48: a socket that left during its      *)
(* handshake is joined to the room afterwards and stays there; it is       *)
(* closed, so no announcement is ever written to a socket nobody watches   *)
(* over.                                                                   *)
RoomIsWatched == Receivers \subseteq sockets

(* ws-session.service.ts:30: a notice that arrives before its handshake is *)
(* over is refused only if the handshake is, also when the device has hung *)
(* up meanwhile.                                                           *)
NoticeIsHeard ==
  \A s \in Workers : notice[s] = "refused" => step[s] = "refused"

(* connection-registry.service.ts:185: a dead link is found out, though    *)
(* neither end is told of it: none is left in the end.                     *)
DeadAreSwept == <>[](\A s \in cut : end[s] = "closed")

(* foreman_notifications_coordinator.dart:24: whatever closures the app is *)
(* told of and whatever tickets fail, in the end it is connected for as    *)
(* long as someone is signed in, and what was stored while it was not is   *)
(* on screen: the list is complete, unless the app holds a dead link, or   *)
(* an announcement fell between its fetch and its joining the room, or a   *)
(* fetch failed or was overtaken.                                          *)
CatchesUp ==
  <>[](~signedIn \/ (up /\ (shown = stored \/ channel \in cut \/ gap)))
=============================================================================
