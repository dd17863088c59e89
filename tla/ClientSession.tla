--------------------------- MODULE ClientSession ----------------------------
(***************************************************************************)
(* The app's half of a sign-in session, for a foreman and a worker alike:  *)
(* API calls that are refused, the one refresh they share, saving and      *)
(* deleting the session in the keystore, sign-in, sign-out and restarts,   *)
(* over a network that loses requests and answers.                         *)
(*                                                                         *)
(* A session is held with a version: the number of refreshes behind its    *)
(* tokens.  Of the server there is what the app can tell: it serves one    *)
(* request at a time, as Sessions does when requests do not overlap.       *)
(*                                                                         *)
(* Left out: demo mode, the token of an older build, what a call is for.   *)
(***************************************************************************)
EXTENDS Naturals

CONSTANTS
  Sessions,    \* server sessions that may be opened
  Calls,       \* slots for API calls in flight
  None,        \* no session
  MaxExpiries  \* bound: access tokens of a session that ever expire

ASSUME NamesAssumption ==
  /\ Calls \intersect {"refresh", "login", "logout"} = {}
  /\ None \notin [s : Sessions, v : Nat]
  /\ MaxExpiries \in Nat

VARIABLES
  srv,        \* srv[s]: the session on the server, "burned" by reuse detection
  cur,        \* cur[s]: version of the live refresh token
  fresh,      \* fresh[s]: first version whose access token has not expired
  stray,      \* refresh requests the app gave up on that may still arrive
  held,       \* the session the app holds in memory
  stored,     \* the session in the keystore
  pc,         \* pc[a]: the next await of an actor of the app
  tok,        \* tok[a]: the session it works with
  unanswered, \* history: sessions of which the app lost a refresh answer
  crossed     \* history: a save ran into another save or deletion

server == <<srv, cur, fresh>>
app == <<held, stored, pc, tok>>
past == <<unanswered, crossed>>
vars == <<server, stray, app, past>>

Actors == Calls \union {"refresh", "login", "logout"}

TypeOK ==
  /\ srv \in [Sessions -> {"unopened", "open", "ended", "burned"}]
  /\ cur \in [Sessions -> Nat]
  /\ fresh \in [Sessions -> Nat]
  /\ stray \in SUBSET [s : Sessions, v : Nat]
  /\ held \in [s : Sessions, v : Nat] \union {None}
  /\ stored \in [s : Sessions, v : Nat] \union {None}
  /\ pc \in [Actors -> {"idle", "sent", "waiting", "resent", "granted", "refused",
                        "write", "publish", "delete", "clear"}]
  /\ tok \in [Actors -> [s : Sessions, v : Nat] \union {None}]
  /\ \A a \in Actors : tok[a] = None <=>
       pc[a] \in {"idle", "waiting", "delete", "clear"} \/ (a = "login" /\ pc[a] = "sent")
  /\ unanswered \in SUBSET Sessions
  /\ crossed \in BOOLEAN

(* A new installation: nothing in the keystore.                            *)
Init ==
  /\ srv = [s \in Sessions |-> "unopened"]
  /\ cur = [s \in Sessions |-> 0]
  /\ fresh = [s \in Sessions |-> 0]
  /\ stray = {}
  /\ held = None
  /\ stored = None
  /\ pc = [a \in Actors |-> "idle"]
  /\ tok = [a \in Actors |-> None]
  /\ unanswered = {}
  /\ crossed = FALSE

-----------------------------------------------------------------------------
Accepts(p) == srv[p.s] = "open" /\ p.v >= fresh[p.s]

(* An actor goes on to its next await, with the session it works with.     *)
Goto(a, step, p) ==
  /\ pc' = [pc EXCEPT ![a] = step]
  /\ tok' = [tok EXCEPT ![a] = p]

(* A call goes out although no session is held.                            *)
StartCallSlip(c) ==
  /\ pc[c] = "idle"
  /\ Goto(c, "sent", held)
  /\ UNCHANGED <<server, stray, held, stored, past>>

(* A call goes out with the access token of the session held.              *)
StartCall(c) ==
  /\ pc[c] = "idle"
  /\ held # None
  /\ Goto(c, "sent", held)
  /\ UNCHANGED <<server, stray, held, stored, past>>

Answered(c) ==
  /\ pc[c] \in {"sent", "resent"}
  /\ Accepts(tok[c])
  /\ Goto(c, "idle", None)
  /\ UNCHANGED <<server, stray, held, stored, past>>

(* Offline, or no answer within the timeout: the call fails, no more.      *)
CallLost(c) ==
  /\ pc[c] \in {"sent", "resent"}
  /\ Goto(c, "idle", None)
  /\ UNCHANGED <<server, stray, held, stored, past>>

(* Each refused call starts a refresh of its own.                          *)
DeniedSlip(c) ==
  /\ pc[c] = "sent"
  /\ ~Accepts(tok[c])
  /\ IF held = None
       THEN Goto(c, "delete", None) /\ UNCHANGED stray
       ELSE /\ pc' = [pc EXCEPT ![c] = "waiting", !["refresh"] = "sent"]
            /\ tok' = [tok EXCEPT ![c] = None, !["refresh"] = held]
            /\ stray' = IF pc["refresh"] = "sent" THEN stray \union {tok["refresh"]} ELSE stray
  /\ UNCHANGED <<server, held, stored, past>>

(* 401: join the refresh in flight, or start one for the session held now. *)
Denied(c) ==
  /\ pc[c] = "sent"
  /\ ~Accepts(tok[c])
  /\ IF pc["refresh"] # "idle"
       THEN Goto(c, "waiting", None)
       ELSE IF held = None
         THEN Goto(c, "delete", None)
         ELSE /\ pc' = [pc EXCEPT ![c] = "waiting", !["refresh"] = "sent"]
              /\ tok' = [tok EXCEPT ![c] = None, !["refresh"] = held]
  /\ UNCHANGED <<server, stray, held, stored, past>>

(* 401 again after the refresh: the session is expired.                    *)
DeniedAgain(c) ==
  /\ pc[c] = "resent"
  /\ ~Accepts(tok[c])
  /\ Goto(c, "delete", None)
  /\ UNCHANGED <<server, stray, held, stored, past>>

(* ACCOUNT_DISABLED: expired without a refresh.                            *)
Disabled(c) ==
  /\ pc[c] \in {"sent", "resent"}
  /\ srv[tok[c].s] = "ended"
  /\ Goto(c, "delete", None)
  /\ UNCHANGED <<server, stray, held, stored, past>>

-----------------------------------------------------------------------------
(* The server exchanges a live refresh token, and takes a spent one for a  *)
(* stolen one.                                                             *)
Rotate(p) ==
  /\ cur' = IF srv[p.s] = "open" /\ p.v = cur[p.s] THEN [cur EXCEPT ![p.s] = @ + 1] ELSE cur
  /\ srv' = IF srv[p.s] = "open" /\ p.v # cur[p.s] THEN [srv EXCEPT ![p.s] = "burned"] ELSE srv
  /\ UNCHANGED fresh

RefreshServed ==
  /\ pc["refresh"] = "sent"
  /\ Rotate(tok["refresh"])
  /\ Goto("refresh", IF cur' # cur THEN "granted" ELSE "refused", tok["refresh"])
  /\ UNCHANGED <<stray, held, stored, past>>

(* Throttled, or an error of the server: any answer that is no pair.       *)
RefreshRejected ==
  /\ pc["refresh"] = "sent"
  /\ Goto("refresh", "refused", tok["refresh"])
  /\ UNCHANGED <<server, stray, held, stored, past>>

StrayServed(p) ==
  /\ p \in stray
  /\ Rotate(p)
  /\ stray' = stray \ {p}
  /\ UNCHANGED <<app, past>>

(* The flight is over: every call that waits for it goes on, with p.       *)
Land(step, p) ==
  LET waiting == {c \in Calls : pc[c] = "waiting"} IN
  /\ pc' = [a \in Actors |->
       IF a = "refresh" THEN "idle" ELSE IF a \in waiting THEN step ELSE pc[a]]
  /\ tok' = [a \in Actors |->
       IF a = "refresh" THEN None ELSE IF a \in waiting THEN p ELSE tok[a]]

(* The waiting calls are left where they are.                              *)
RefreshRefusedSlip ==
  /\ pc["refresh"] = "refused"
  /\ Goto("refresh", "idle", None)
  /\ UNCHANGED <<server, stray, held, stored, past>>

RefreshRefused ==
  /\ pc["refresh"] = "refused"
  /\ Land("delete", None)
  /\ UNCHANGED <<server, stray, held, stored, past>>

(* A new pair, unless the session was replaced or signed out meanwhile.    *)
RefreshGranted ==
  LET old == tok["refresh"] IN
  /\ pc["refresh"] = "granted"
  /\ IF held = old
       THEN Goto("refresh", "write", [old EXCEPT !.v = @ + 1])
       ELSE Land("delete", None)
  /\ UNCHANGED <<server, stray, held, stored, past>>

(* No answer: the waiting calls fail too, and nothing is forgotten.        *)
RefreshLost ==
  /\ pc["refresh"] \in {"sent", "granted", "refused"}
  /\ Land("idle", None)
  /\ stray' = IF pc["refresh"] = "sent" THEN stray \union {tok["refresh"]} ELSE stray
  /\ unanswered' = IF pc["refresh"] = "refused" THEN unanswered
                     ELSE unanswered \union {tok["refresh"].s}
  /\ UNCHANGED <<server, held, stored, crossed>>

-----------------------------------------------------------------------------
(* Another actor is between its keystore operation and its change of held. *)
Overlaps(a, steps) == \E b \in Actors \ {a} : pc[b] \in steps

(* The new session is not saved.                                           *)
SaveSlip(a) ==
  /\ pc[a] = "write"
  /\ Goto(a, "publish", tok[a])
  /\ UNCHANGED <<server, stray, held, stored, past>>

(* refresh and sign-in save the new session and then hold it; expire       *)
(* deletes the saved one and then drops the one held, whichever they are.  *)
Save(a) ==
  /\ pc[a] = "write"
  /\ stored' = tok[a]
  /\ Goto(a, "publish", tok[a])
  /\ crossed' = (crossed \/ Overlaps(a, {"publish", "clear"}))
  /\ UNCHANGED <<server, stray, held, unanswered>>

Publish(a) ==
  /\ pc[a] = "publish"
  /\ held' = tok[a]
  /\ IF a = "refresh" THEN Land("resent", tok[a]) ELSE Goto(a, "idle", None)
  /\ crossed' = (crossed \/ Overlaps(a, {"publish", "clear"}))
  /\ UNCHANGED <<server, stray, stored, unanswered>>

Delete(a) ==
  /\ pc[a] = "delete"
  /\ stored' = None
  /\ Goto(a, "clear", None)
  /\ crossed' = (crossed \/ Overlaps(a, {"publish"}))
  /\ UNCHANGED <<server, stray, held, unanswered>>

Clear(a) ==
  /\ pc[a] = "clear"
  /\ held' = None
  /\ Goto(a, "idle", None)
  /\ crossed' = (crossed \/ Overlaps(a, {"publish"}))
  /\ UNCHANGED <<server, stray, stored, unanswered>>

-----------------------------------------------------------------------------
(* Sign-in is offered while no session is held.                            *)
StartLogin ==
  /\ pc["login"] = "idle"
  /\ held = None
  /\ Goto("login", "sent", None)
  /\ UNCHANGED <<server, stray, held, stored, past>>

(* The answer may be lost: then nobody holds the session that was opened.  *)
LoginServed(s) ==
  /\ pc["login"] = "sent"
  /\ srv[s] = "unopened"
  /\ srv' = [srv EXCEPT ![s] = "open"]
  /\ Goto("login", "write", [s |-> s, v |-> 0]) \/ Goto("login", "idle", None)
  /\ UNCHANGED <<cur, fresh, stray, held, stored, past>>

LoginFails ==
  /\ pc["login"] = "sent"
  /\ Goto("login", "idle", None)
  /\ UNCHANGED <<server, stray, held, stored, past>>

(* Sign-out tells the server first, and goes on whatever it answers.       *)
StartLogout ==
  /\ pc["logout"] = "idle"
  /\ held # None
  /\ Goto("logout", "sent", held)
  /\ UNCHANGED <<server, stray, held, stored, past>>

LogoutServed ==
  /\ pc["logout"] = "sent"
  /\ Accepts(tok["logout"])
  /\ srv' = [srv EXCEPT ![tok["logout"].s] = "ended"]
  /\ Goto("logout", "delete", None)
  /\ UNCHANGED <<cur, fresh, stray, held, stored, past>>

LogoutFails ==
  /\ pc["logout"] = "sent"
  /\ Goto("logout", "delete", None)
  /\ UNCHANGED <<server, stray, held, stored, past>>

(* The process dies and starts again from the keystore.                    *)
Restart ==
  /\ held' = stored
  /\ pc' = [a \in Actors |-> "idle"]
  /\ tok' = [a \in Actors |-> None]
  /\ stray' = IF pc["refresh"] = "sent" THEN stray \union {tok["refresh"]} ELSE stray
  /\ unanswered' = IF pc["refresh"] \in {"sent", "granted", "write"}
                     THEN unanswered \union {tok["refresh"].s} ELSE unanswered
  /\ UNCHANGED <<server, stored, crossed>>

-----------------------------------------------------------------------------
(* Elsewhere: the session is ended for another reason, and time passes.    *)
EndElsewhere(s) ==
  /\ srv[s] = "open"
  /\ srv' = [srv EXCEPT ![s] = "ended"]
  /\ UNCHANGED <<cur, fresh, stray, app, past>>

AccessExpires(s) ==
  /\ srv[s] = "open"
  /\ fresh[s] <= cur[s]
  /\ fresh[s] < MaxExpiries
  /\ fresh' = [fresh EXCEPT ![s] = @ + 1]
  /\ UNCHANGED <<srv, cur, stray, app, past>>

(* What goes on by itself once it was started.                             *)
CallStep(c) ==
  Answered(c) \/ CallLost(c) \/ Denied(c) \/ DeniedAgain(c) \/ Disabled(c)

RefreshStep ==
  \/ RefreshServed \/ RefreshRejected \/ RefreshLost
  \/ RefreshGranted \/ RefreshRefused

StoreStep(a) == Save(a) \/ Publish(a) \/ Delete(a) \/ Clear(a)

LoginStep == (\E s \in Sessions : LoginServed(s)) \/ LoginFails

LogoutStep == LogoutServed \/ LogoutFails

Next ==
  \/ \E c \in Calls : StartCall(c) \/ CallStep(c)
  \/ RefreshStep
  \/ \E a \in Actors : StoreStep(a)
  \/ StartLogin \/ LoginStep
  \/ StartLogout \/ LogoutStep
  \/ \E p \in stray : StrayServed(p)
  \/ Restart
  \/ \E s \in Sessions : EndElsewhere(s) \/ AccessExpires(s)

Spec == Init /\ [][Next]_vars

(* Every request is answered or times out, and the keystore answers.       *)
Fairness ==
  /\ \A c \in Calls : WF_vars(CallStep(c))
  /\ WF_vars(RefreshStep)
  /\ \A a \in Actors : WF_vars(StoreStep(a))
  /\ WF_vars(LoginStep) /\ WF_vars(LogoutStep)

FairSpec == Spec /\ Fairness

-----------------------------------------------------------------------------
(* Calls that are refused together share one refresh, so the app presents  *)
(* a spent token only when the answer to a refresh was lost, or keystore   *)
(* operations that overlapped left an old session behind                   *)
(* (single_flight.dart, auth_session_controller.dart, api_client.dart).    *)
SpentOnlyAfterLoss ==
  \A s \in Sessions : srv[s] = "burned" => s \in unanswered \/ crossed

(* A restart restores exactly the session that was held, as long as no     *)
(* save ran into another save or a deletion: each changes the keystore and *)
(* then, an await later, the session held (build, loginForeman, refresh    *)
(* and expire in auth_session_controller.dart, session_controller.dart).   *)
RestartKeepsSession ==
  ~crossed /\ (\A a \in Actors : pc[a] \notin {"publish", "clear"}) => stored = held

(* Every call ends, whether it waited for a refresh or not.                *)
CallsEnd == \A c \in Calls : pc[c] = "sent" ~> pc[c] = "idle"

(* auth_session_controller.dart: signed out while the refresh was in       *)
(* flight: do not bring it back.  Here: neither in memory nor on disk.     *)
NotBroughtBack ==
  [][pc["refresh"] = "publish" /\ held = None => held' = None \/ stored = None]_held
=============================================================================
