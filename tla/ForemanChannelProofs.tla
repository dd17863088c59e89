------------------------ MODULE ForemanChannelProofs ------------------------
(***************************************************************************)
(* Theorems about ForemanChannel and the part of Realtime in it, for any   *)
(* number of sockets, fetches, events and failures: a ticket opens one     *)
(* socket, nothing is announced to a socket nobody watches over, and no    *)
(* notice is turned away while its handshake may still succeed.            *)
(***************************************************************************)
EXTENDS ForemanChannel, TLAPS

(* Who has been admitted has used the ticket up, and alone.                *)
TicketInv ==
  /\ \A s \in Sockets : step[s] \in {"subject", "ok"} => ticket[uses[s]] = "used"
  /\ OneSocketPerTicket

(* The registry has every open socket; a handshake has a socket.           *)
WatchInv ==
  \A s \in Sockets :
    /\ end[s] = "open" => s \in sockets
    /\ step[s] # "none" => end[s] # "none"

(* What is on its way to an app has been announced.                        *)
HeardInv == \A s \in Sockets : heard[s] + owed <= stored

(* Nobody dials for a foreman who has left.                                *)
AppInv == ~signedIn => channel = None /\ dial = "idle"

IInv == TypeOK /\ TicketInv /\ WatchInv /\ HeardInv /\ AppInv /\ NoticeIsHeard

-----------------------------------------------------------------------------
(* The steps, one disjunct for each action of either module.               *)
LEMMA Steps ==
  ASSUME [Next]_vars
  PROVE  \/ Announce \/ Heartbeat \/ ServerRestarts
         \/ \E s \in Sockets :
              /\ \/ FindTicket(s) \/ ClaimTicket(s) \/ Admit(s) \/ HandleDisconnect(s)
                 \/ Expire(s) \/ Prune(s) \/ HandshakeFails(s) \/ Cut(s)
                 \/ \E t \in Sockets : Retry(s, t)
              /\ UNCHANGED <<client, list>>
         \/ \E s \in Workers :
              /\ NoticeSettled(s) \/ IngestNotice(s) \/ NoticeArrives(s)
              /\ UNCHANGED <<client, list>>
         \/ StoreReport /\ UNCHANGED <<client, list>>
         \/ Connect \/ Upgrade \/ Ready \/ OnClosed \/ Reconnect \/ OnMessage
         \/ \E f \in Fetches : FetchReads(f) \/ FetchLands(f) \/ FetchFails(f)
         \/ SignIn \/ SignOut \/ NoTicket \/ UpgradeFails
         \/ \E s \in Sockets : Close(s)
         \/ \E s \in Workers : WorkerConnects(s) \/ WorkerUpgrades(s)
         \/ UNCHANGED vars
BY DEF Next, ServerTurn, AppTurn, ServerEvent, AppEvent, Handshake, Notice

(* The socket the app dials with is one nobody has used.                   *)
LEMMA FreshSocket ==
  ASSUME Connect
  PROVE  /\ channel' \in Foremen
         /\ ticket[channel'] = "none" /\ end[channel'] = "none"
         /\ ticket' = [ticket EXCEPT ![channel'] = "fresh"]
BY DEF Connect, Issue
-----------------------------------------------------------------------------
LEMMA TypeStep ==
  TypeOK /\ HeardInv /\ AppInv /\ [Next]_vars => TypeOK'
<1> SUFFICES ASSUME TypeOK, HeardInv, AppInv, [Next]_vars PROVE TypeOK'
  OBVIOUS
<1> USE SocketsAssumption, RealtimeBoundsAssumption, VisitsAssumption
    DEF handshake, registry, events, server, client, list, RealtimeTypeOK, Sockets
<1>1. CASE Announce
  <2>1. heard' \in [Sockets -> 0..MaxEvents]
    <3>1. \A s \in Sockets : heard[s] + 1 <= stored /\ stored <= MaxEvents
      BY <1>1 DEF Announce, Publish, HeardInv, TypeOK
    <3> QED
      BY <1>1, <3>1 DEF Announce, Publish, TypeOK
  <2>2. gap' \in BOOLEAN
    BY <1>1 DEF Announce, TypeOK
  <2> QED
    BY <1>1, <2>1, <2>2 DEF Announce, Publish, TypeOK
<1>2. CASE Heartbeat
  BY <1>2 DEF Heartbeat, Sweep, Open, TypeOK
<1>3. CASE ServerRestarts
  <2>1. gap' \in BOOLEAN
    BY <1>3 DEF ServerRestarts, TypeOK
  <2> QED
    BY <1>3, <2>1 DEF ServerRestarts, Restart, Fault, TypeOK
<1>4. ASSUME NEW s \in Sockets, UNCHANGED <<client, list>>,
             \/ FindTicket(s) \/ ClaimTicket(s) \/ Admit(s) \/ HandleDisconnect(s)
             \/ Expire(s) \/ Prune(s) \/ HandshakeFails(s) \/ Cut(s)
      PROVE  TypeOK'
  <2>1. CASE FindTicket(s)
    BY <1>4, <2>1 DEF FindTicket, Refuse, TypeOK
  <2>2. CASE ClaimTicket(s)
    BY <1>4, <2>2 DEF ClaimTicket, Refuse, TypeOK
  <2>3. CASE Admit(s) \/ HandleDisconnect(s)
    BY <1>4, <2>3 DEF Admit, HandleDisconnect, TypeOK
  <2>4. CASE Expire(s) \/ Prune(s)
    BY <1>4, <2>4 DEF Expire, Prune, Fault, TypeOK
  <2>5. CASE HandshakeFails(s) \/ Cut(s)
    BY <1>4, <2>5 DEF HandshakeFails, Cut, Fault, TypeOK
  <2> QED
    BY <1>4, <2>1, <2>2, <2>3, <2>4, <2>5
<1>5. ASSUME NEW s \in Sockets, NEW t \in Sockets, Retry(s, t), UNCHANGED <<client, list>>
      PROVE  TypeOK'
  BY <1>5 DEF Retry, Attach, Fault, TypeOK
<1>6. ASSUME NEW s \in Workers, UNCHANGED <<client, list>>,
             NoticeSettled(s) \/ IngestNotice(s) \/ NoticeArrives(s)
      PROVE  TypeOK'
  BY <1>6 DEF NoticeSettled, IngestNotice, NoticeArrives, Store, TypeOK
<1>7. CASE StoreReport /\ UNCHANGED <<client, list>>
  BY <1>7 DEF StoreReport, Store, TypeOK
<1>8. CASE Connect
  <2>1. dial' = "idle" /\ channel' \in Foremen /\ ticket'[channel'] = "fresh"
        /\ ticket' \in [Sockets -> {"none", "fresh", "expired", "used", "gone"}]
    BY <1>8, FreshSocket DEF Connect, TypeOK
  <2> QED
    BY <1>8, <2>1 DEF Connect, TypeOK
<1>9. CASE Upgrade
  BY <1>9 DEF Upgrade, Attach, TypeOK
<1>10. CASE Ready
  BY <1>10 DEF Ready, Refetch, Asked, TypeOK
<1>11. CASE OnClosed \/ Reconnect
  BY <1>11 DEF OnClosed, Reconnect, ScheduleReconnect, TypeOK
<1>12. CASE OnMessage
  BY <1>12 DEF OnMessage, Refetch, Asked, TypeOK
<1>13. ASSUME NEW f \in Fetches, FetchReads(f) \/ FetchLands(f) \/ FetchFails(f)
       PROVE  TypeOK'
  <2>1. CASE FetchReads(f)
    BY <2>1 DEF FetchReads, TypeOK
  <2>2. CASE FetchLands(f)
    <3>1. gap' \in BOOLEAN
      BY <2>2 DEF FetchLands
    <3>2. fetch[f] \in 0..MaxEvents
      BY <2>2 DEF FetchLands, Idle, Asked, TypeOK
    <3> QED
      BY <2>2, <3>1, <3>2 DEF FetchLands, TypeOK
  <2>3. CASE FetchFails(f)
    <3>1. gap' \in BOOLEAN
      BY <2>3 DEF FetchFails
    <3> QED
      BY <2>3, <3>1 DEF FetchFails, Fault, TypeOK
  <2> QED
    BY <1>13, <2>1, <2>2, <2>3
<1>14. CASE SignIn \/ SignOut
  <2>1. CASE SignIn
    <3>1. channel = None /\ visits + 1 \in 0..MaxVisits
      BY <2>1 DEF SignIn, AppInv, TypeOK
    <3>2. fetch' \in [Fetches -> {Idle, Asked} \union 0..MaxEvents]
      BY <2>1 DEF SignIn, TypeOK
    <3> QED
      BY <2>1, <3>1, <3>2 DEF SignIn, TypeOK
  <2>2. CASE SignOut
    <3>1. fetch' \in [Fetches -> {Idle, Asked} \union 0..MaxEvents]
      BY <2>2 DEF SignOut
    <3>2. RealtimeTypeOK' /\ 0 \in 0..MaxEvents
      BY <2>2 DEF SignOut, TypeOK
    <3>3. visits' \in 0..MaxVisits
      BY <2>2 DEF SignOut, TypeOK
    <3>4. /\ signedIn' = FALSE /\ up' = FALSE /\ missed' = FALSE /\ settling' = FALSE
          /\ gap' = FALSE /\ dial' = "idle" /\ channel' = None /\ shown' = 0
      BY <2>2 DEF SignOut
    <3> HIDE DEF RealtimeTypeOK
    <3> QED
      BY <3>1, <3>2, <3>3, <3>4 DEF TypeOK
  <2> QED
    BY <1>14, <2>1, <2>2
<1>15. CASE NoTicket \/ UpgradeFails
  <2>1. faults' \in 0..MaxFaults
    BY <1>15 DEF NoTicket, UpgradeFails, Fault, TypeOK
  <2>2. CASE NoTicket
    <3>1. channel = None
      BY <2>2 DEF NoTicket, TypeOK
    <3> QED
      BY <2>1, <2>2, <3>1 DEF NoTicket, ScheduleReconnect, TypeOK
  <2>3. CASE UpgradeFails
    BY <2>1, <2>3 DEF UpgradeFails, TypeOK
  <2> QED
    BY <1>15, <2>2, <2>3
<1>16. ASSUME NEW s \in Sockets, Close(s) PROVE TypeOK'
  BY <1>16 DEF Close, Fault, Open, TypeOK
<1>17. ASSUME NEW s \in Workers, WorkerConnects(s) PROVE TypeOK'
  BY <1>17 DEF WorkerConnects, Issue, TypeOK
<1>18. ASSUME NEW s \in Workers, WorkerUpgrades(s) PROVE TypeOK'
  BY <1>18 DEF WorkerUpgrades, Attach, TypeOK
<1>19. CASE UNCHANGED vars
  BY <1>19 DEF vars, TypeOK
<1> QED
  BY <1>1, <1>2, <1>3, <1>4, <1>5, <1>6, <1>7, <1>8, <1>9, <1>10, <1>11, <1>12,
     <1>13, <1>14, <1>15, <1>16, <1>17, <1>18, <1>19, Steps

-----------------------------------------------------------------------------
(* Tickets.                                                                *)
LEMMA UsedStays ==
  ASSUME TypeOK, [Next]_vars, NEW t \in Sockets, ticket[t] = "used"
  PROVE  ticket'[t] = "used"
<1> USE DEF handshake, registry, events, server, client, list, RealtimeTypeOK, Sockets
<1>1. CASE Connect
  BY <1>1, FreshSocket DEF TypeOK
<1>2. ASSUME NEW s \in Sockets, ClaimTicket(s) \/ Expire(s) \/ Prune(s)
      PROVE  ticket'[t] = "used"
  BY <1>2 DEF ClaimTicket, Refuse, Expire, Prune, TypeOK
<1>3. ASSUME NEW s \in Workers, WorkerConnects(s) PROVE ticket'[t] = "used"
  BY <1>3 DEF WorkerConnects, Issue, TypeOK
<1>4. CASE UNCHANGED ticket
  BY <1>4
<1> QED
  BY <1>1, <1>2, <1>3, <1>4, Steps DEF Announce, Publish, Heartbeat, Sweep,
     ServerRestarts, Restart, FindTicket, Admit, HandleDisconnect, HandshakeFails,
     Cut, Retry, Attach, NoticeSettled, IngestNotice, NoticeArrives, StoreReport,
     Upgrade, Ready, OnClosed, Reconnect, OnMessage, FetchReads, FetchLands,
     FetchFails, SignIn, SignOut, NoTicket, UpgradeFails, Close, WorkerUpgrades,
     Refuse, vars

(* A handshake goes on with the ticket it has, and is past the claim only  *)
(* by claiming it.                                                         *)
LEMMA HandshakeMoves ==
  ASSUME TypeOK, [Next]_vars, NEW s \in Sockets, step'[s] \in {"subject", "ok"}
  PROVE  /\ uses'[s] = uses[s]
         /\ \/ step[s] \in {"subject", "ok"}
            \/ /\ ClaimTicket(s) /\ ticket[uses[s]] # "used"
               /\ ticket'[uses[s]] = "used"
               /\ \A q \in Sockets \ {s} : step'[q] = step[q] /\ uses'[q] = uses[q]
<1> USE DEF handshake, registry, events, server, client, list, RealtimeTypeOK, Sockets
<1>1. ASSUME NEW q \in Sockets,
             \/ FindTicket(q) \/ HandshakeFails(q) \/ Upgrade \/ WorkerUpgrades(q)
             \/ \E t \in Sockets : Retry(q, t)
      PROVE  uses'[s] = uses[s] /\ step[s] \in {"subject", "ok"}
  BY <1>1 DEF FindTicket, Refuse, HandshakeFails, Retry, Attach, Upgrade,
     WorkerUpgrades, TypeOK
<1>2. ASSUME NEW q \in Sockets, Admit(q)
      PROVE  uses'[s] = uses[s] /\ step[s] \in {"subject", "ok"}
  BY <1>2 DEF Admit, TypeOK
<1>3. ASSUME NEW q \in Sockets, ClaimTicket(q), q # s
      PROVE  uses'[s] = uses[s] /\ step[s] \in {"subject", "ok"}
  BY <1>3 DEF ClaimTicket, Refuse, TypeOK
<1>4. ASSUME ClaimTicket(s)
      PROVE  /\ uses'[s] = uses[s]
             /\ ticket[uses[s]] # "used" /\ ticket'[uses[s]] = "used"
             /\ \A q \in Sockets \ {s} : step'[q] = step[q] /\ uses'[q] = uses[q]
  BY <1>4 DEF ClaimTicket, Refuse, TypeOK
<1>5. CASE ServerRestarts
  BY <1>5 DEF ServerRestarts, Restart, TypeOK
<1>6. CASE UNCHANGED <<step, uses>>
  BY <1>6
<1> QED
  BY <1>1, <1>2, <1>3, <1>4, <1>5, <1>6, Steps DEF Announce, Publish, Heartbeat, Sweep,
     HandleDisconnect, Expire, Prune, Cut, NoticeSettled, IngestNotice, NoticeArrives,
     StoreReport, Connect, Ready, OnClosed, Reconnect, OnMessage, FetchReads,
     FetchLands, FetchFails, SignIn, SignOut, NoTicket, UpgradeFails, Close,
     WorkerConnects, vars

LEMMA TicketStep == TypeOK /\ TicketInv /\ [Next]_vars => TicketInv'
<1> SUFFICES ASSUME TypeOK, TicketInv, [Next]_vars PROVE TicketInv'
  OBVIOUS
<1>1. ASSUME NEW s \in Sockets, step'[s] \in {"subject", "ok"}
      PROVE  ticket'[uses'[s]] = "used"
  <2>1. uses[s] \in Sockets
    BY DEF TypeOK, RealtimeTypeOK
  <2> QED
    BY <1>1, <2>1, UsedStays, HandshakeMoves DEF TicketInv
<1>2. ASSUME NEW s \in Sockets, NEW t \in Sockets, s # t,
             {step'[s], step'[t]} \subseteq {"subject", "ok"}
      PROVE  uses'[s] # uses'[t]
  <2>1. uses'[s] = uses[s] /\ uses'[t] = uses[t]
    BY <1>2, HandshakeMoves
  <2>2. CASE step[s] \in {"subject", "ok"} /\ step[t] \in {"subject", "ok"}
    BY <1>2, <2>1, <2>2 DEF TicketInv, OneSocketPerTicket
  <2>3. CASE step[s] \notin {"subject", "ok"}
    BY <1>2, <2>1, <2>3, HandshakeMoves DEF TicketInv
  <2>4. CASE step[t] \notin {"subject", "ok"}
    BY <1>2, <2>1, <2>4, HandshakeMoves DEF TicketInv
  <2> QED
    BY <2>2, <2>3, <2>4
<1> QED
  BY <1>1, <1>2 DEF TicketInv, OneSocketPerTicket

-----------------------------------------------------------------------------
(* The registry.                                                           *)
LEMMA WatchStep == TypeOK /\ WatchInv /\ [Next]_vars => WatchInv'
<1> SUFFICES ASSUME TypeOK, WatchInv, [Next]_vars, NEW q \in Sockets
             PROVE  /\ end'[q] = "open" => q \in sockets'
                    /\ step'[q] # "none" => end'[q] # "none"
  BY DEF WatchInv
<1> USE DEF handshake, registry, events, server, client, list, RealtimeTypeOK, Sockets
<1>1. ASSUME NEW s \in Sockets,
             FindTicket(s) \/ ClaimTicket(s) \/ Admit(s) \/ HandshakeFails(s)
      PROVE  /\ end'[q] = "open" => q \in sockets'
             /\ step'[q] # "none" => end'[q] # "none"
  BY <1>1 DEF FindTicket, ClaimTicket, Refuse, Admit, HandshakeFails, WatchInv, TypeOK
<1>2. ASSUME NEW s \in Sockets, HandleDisconnect(s) \/ Close(s) \/ UpgradeFails
      PROVE  /\ end'[q] = "open" => q \in sockets'
             /\ step'[q] # "none" => end'[q] # "none"
  BY <1>2 DEF HandleDisconnect, Close, UpgradeFails, WatchInv, TypeOK
<1>3. ASSUME NEW s \in Sockets, NEW t \in Sockets, Attach(s, t)
      PROVE  /\ end'[q] = "open" => q \in sockets'
             /\ step'[q] # "none" => end'[q] # "none"
  BY <1>3 DEF Attach, WatchInv, TypeOK
<1>4. CASE Heartbeat
  BY <1>4 DEF Heartbeat, Sweep, WatchInv, TypeOK
<1>5. CASE ServerRestarts
  BY <1>5 DEF ServerRestarts, Restart, WatchInv, TypeOK
<1>6. CASE UNCHANGED <<end, sockets, step>>
  BY <1>6 DEF WatchInv
<1>7. Upgrade => channel \in Sockets
  BY DEF Upgrade, TypeOK
<1>8. CASE \/ Upgrade \/ (\E s \in Workers : WorkerUpgrades(s))
           \/ \E s, t \in Sockets : Retry(s, t)
  BY <1>3, <1>7, <1>8 DEF Upgrade, WorkerUpgrades, Retry
<1> QED
  BY <1>1, <1>2, <1>4, <1>5, <1>6, <1>8, Steps DEF Announce, Publish,
     Expire, Prune, Cut, NoticeSettled, IngestNotice, NoticeArrives, StoreReport,
     Connect, Ready, OnClosed, Reconnect, OnMessage, FetchReads, FetchLands,
     FetchFails, SignIn, SignOut, NoTicket, UpgradeFails, WorkerConnects, vars

(* A refusal is final.                                                     *)
LEMMA RefusedStays ==
  ASSUME TypeOK, WatchInv, [Next]_vars, NEW s \in Sockets, step[s] = "refused"
  PROVE  step'[s] = "refused"
<1> USE DEF handshake, registry, events, server, client, list, RealtimeTypeOK, Sockets
<1>1. ASSUME NEW q \in Sockets,
             FindTicket(q) \/ ClaimTicket(q) \/ Admit(q) \/ HandshakeFails(q)
      PROVE  step'[s] = "refused"
  BY <1>1 DEF FindTicket, ClaimTicket, Refuse, Admit, HandshakeFails, TypeOK
<1>2. ASSUME NEW q \in Sockets, NEW t \in Sockets, Attach(q, t)
      PROVE  step'[s] = "refused"
  BY <1>2 DEF Attach, WatchInv, TypeOK
<1>3. CASE ServerRestarts
  BY <1>3 DEF ServerRestarts, Restart, TypeOK
<1>4. CASE UNCHANGED step
  BY <1>4
<1>5. Upgrade => channel \in Sockets
  BY DEF Upgrade, TypeOK
<1>6. CASE \/ Upgrade \/ (\E q \in Workers : WorkerUpgrades(q))
           \/ \E q, t \in Sockets : Retry(q, t)
  BY <1>2, <1>5, <1>6 DEF Upgrade, WorkerUpgrades, Retry
<1> QED
  BY <1>1, <1>3, <1>4, <1>6, Steps DEF Announce, Publish, Heartbeat, Sweep,
     HandleDisconnect, Expire, Prune, Cut, NoticeSettled, IngestNotice, NoticeArrives,
     StoreReport, Connect, Ready, OnClosed, Reconnect, OnMessage, FetchReads,
     FetchLands, FetchFails, SignIn, SignOut, NoTicket, UpgradeFails, Close,
     WorkerConnects, vars

LEMMA NoticeStep == TypeOK /\ WatchInv /\ NoticeIsHeard /\ [Next]_vars => NoticeIsHeard'
<1> SUFFICES ASSUME TypeOK, WatchInv, NoticeIsHeard, [Next]_vars,
                    NEW q \in Workers, notice'[q] = "refused"
             PROVE  step'[q] = "refused"
  BY DEF NoticeIsHeard
<1> USE DEF handshake, registry, events, server, client, list, RealtimeTypeOK, Sockets
<1>1. CASE notice[q] = "refused"
  BY <1>1, RefusedStays DEF NoticeIsHeard
<1>2. ASSUME NEW s \in Workers, NoticeSettled(s) \/ IngestNotice(s) \/ NoticeArrives(s)
      PROVE  step[q] = "refused"
  BY <1>2 DEF NoticeSettled, IngestNotice, NoticeArrives, WatchInv, NoticeIsHeard, TypeOK
<1>3. CASE ServerRestarts
  BY <1>1, <1>3 DEF ServerRestarts, Restart, TypeOK
<1>4. CASE UNCHANGED notice
  BY <1>1, <1>4
<1> QED
  BY <1>1, <1>2, <1>3, <1>4, RefusedStays, Steps DEF Announce, Publish, Heartbeat,
     Sweep, FindTicket, ClaimTicket, Refuse, Admit, HandleDisconnect, Expire, Prune,
     HandshakeFails, Cut, Retry, Attach, StoreReport, Connect, Upgrade, Ready,
     OnClosed, Reconnect, OnMessage, FetchReads, FetchLands, FetchFails, SignIn,
     SignOut, NoTicket, UpgradeFails, Close, WorkerConnects, WorkerUpgrades, vars

-----------------------------------------------------------------------------
(* What is announced.                                                      *)
LEMMA HeardStep == TypeOK /\ HeardInv /\ [Next]_vars => HeardInv'
<1> SUFFICES ASSUME TypeOK, HeardInv, [Next]_vars, NEW q \in Sockets
             PROVE  heard'[q] + owed' <= stored'
  BY DEF HeardInv
<1> USE RealtimeBoundsAssumption
    DEF handshake, registry, events, server, client, list, RealtimeTypeOK, Sockets
<1>1. heard[q] \in Nat /\ owed \in Nat /\ stored \in Nat /\ heard[q] + owed <= stored
  BY DEF TypeOK, HeardInv
<1>2. CASE Announce
  <2>1. heard'[q] \in {heard[q], heard[q] + 1} /\ owed' = owed - 1 /\ stored' = stored
    BY <1>2 DEF Announce, Publish, TypeOK
  <2> QED
    BY <1>1, <2>1
<1>3. ASSUME UNCHANGED heard, Store PROVE heard'[q] + owed' <= stored'
  BY <1>1, <1>3 DEF Store
<1>4. CASE ServerRestarts
  BY <1>1, <1>4 DEF ServerRestarts, Restart
<1>5. CASE OnMessage
  <2>1. heard'[q] \in {heard[q], heard[q] - 1} /\ UNCHANGED events
    BY <1>5 DEF OnMessage, TypeOK
  <2> QED
    BY <1>1, <2>1
<1>6. ASSUME NEW s \in Sockets, Cut(s) PROVE heard'[q] + owed' <= stored'
  <2>1. heard'[q] \in {heard[q], 0} /\ UNCHANGED events
    BY <1>6 DEF Cut, TypeOK
  <2> QED
    BY <1>1, <2>1
<1>7. CASE UNCHANGED <<heard, events>>
  BY <1>1, <1>7
<1> QED
  BY <1>2, <1>3, <1>4, <1>5, <1>6, <1>7, Steps DEF Heartbeat, Sweep, FindTicket,
     ClaimTicket, Refuse, Admit, HandleDisconnect, Expire, Prune, HandshakeFails,
     Retry, Attach, NoticeSettled, IngestNotice, NoticeArrives, StoreReport, Connect,
     Upgrade, Ready, OnClosed, Reconnect, FetchReads, FetchLands, FetchFails, SignIn,
     SignOut, NoTicket, UpgradeFails, Close, WorkerConnects, WorkerUpgrades, vars

LEMMA AppStep == TypeOK /\ AppInv /\ [Next]_vars => AppInv'
<1> SUFFICES ASSUME TypeOK, AppInv, [Next]_vars PROVE AppInv'
  OBVIOUS
<1> USE SocketsAssumption DEF server, client, AppInv
<1>1. CASE SignIn \/ SignOut
  BY <1>1 DEF SignIn, SignOut
<1>2. CASE Connect \/ NoTicket \/ OnClosed \/ Reconnect
  BY <1>2 DEF Connect, NoTicket, OnClosed, Reconnect
<1>3. CASE UNCHANGED <<signedIn, dial, channel>>
  BY <1>3
<1> QED
  BY <1>1, <1>2, <1>3, Steps DEF Announce, Heartbeat, ServerRestarts, StoreReport,
     Upgrade, Ready, OnMessage, FetchReads, FetchLands, FetchFails, UpgradeFails,
     Close, WorkerConnects, WorkerUpgrades, vars

-----------------------------------------------------------------------------
LEMMA Start == Init => IInv
<1> SUFFICES ASSUME Init PROVE IInv
  OBVIOUS
<1> USE SocketsAssumption, RealtimeBoundsAssumption, VisitsAssumption
    DEF Init, RealtimeInit, Sockets
<1>1. TypeOK
  <2>1. fetch \in [Fetches -> {Idle, Asked} \union 0..MaxEvents]
    OBVIOUS
  <2>2. RealtimeTypeOK
    <3>1. /\ 0 \in 0..MaxEvents /\ 0 \in 0..MaxFaults /\ owed \in 0..stored
          /\ stored \in 0..MaxEvents /\ faults \in 0..MaxFaults
      OBVIOUS
    <3>2. heard \in [Sockets -> 0..MaxEvents]
      BY <3>1
    <3> QED
      BY <3>1, <3>2 DEF RealtimeTypeOK
  <2>3. /\ signedIn \in BOOLEAN /\ up \in BOOLEAN /\ missed \in BOOLEAN
        /\ settling \in BOOLEAN /\ gap \in BOOLEAN
        /\ dial = "idle" /\ channel = None
    OBVIOUS
  <2>4. shown \in 0..MaxEvents /\ visits \in 0..MaxVisits
    OBVIOUS
  <2> QED
    BY <2>1, <2>2, <2>3, <2>4 DEF TypeOK
<1>2. TicketInv /\ WatchInv
  BY DEF TicketInv, OneSocketPerTicket, WatchInv
<1>3. HeardInv /\ AppInv /\ NoticeIsHeard
  BY DEF HeardInv, AppInv, NoticeIsHeard
<1> QED
  BY <1>1, <1>2, <1>3 DEF IInv

LEMMA Invariance == Spec => []IInv
<1>1. IInv /\ [Next]_vars => IInv'
  BY TypeStep, TicketStep, WatchStep, HeardStep, AppStep, NoticeStep DEF IInv
<1> QED
  BY Start, <1>1, PTL DEF Spec

(* Whatever sockets are opened, cut, closed or swept and however often the *)
(* server restarts, every part of the channel is in a state it may be in;  *)
(* the app dials only while it holds no socket.                            *)
THEOREM TypeCorrect == Spec => []TypeOK
<1>1. IInv => TypeOK
  BY DEF IInv
<1> QED
  BY Invariance, <1>1, PTL

(* realtime-ticket.service.ts:105: of any number of handshakes that        *)
(* present one ticket at once, one is admitted.                            *)
THEOREM TicketsOpenOneSocket == Spec => []OneSocketPerTicket
<1>1. IInv => OneSocketPerTicket
  BY DEF IInv, TicketInv
<1> QED
  BY Invariance, <1>1, PTL

(* foreman-notifications.gateway.ts:48: every socket an announcement is    *)
(* written to has a state in the registry, so the heartbeat finds out when *)
(* its link has died.                                                      *)
THEOREM RoomWatched == Spec => []RoomIsWatched
<1>1. IInv => RoomIsWatched
  BY DEF IInv, WatchInv, TypeOK, RealtimeTypeOK, RoomIsWatched, Receivers, Sockets
<1> QED
  BY Invariance, <1>1, PTL

(* ws-session.service.ts:30: a worker's notice is turned away only when    *)
(* its handshake is, whenever the device hangs up.                         *)
THEOREM NoticesHeard == Spec => []NoticeIsHeard
<1>1. IInv => NoticeIsHeard
  BY DEF IInv
<1> QED
  BY Invariance, <1>1, PTL
=============================================================================
