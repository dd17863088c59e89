------------------------ MODULE ClientSessionProofs -------------------------
(***************************************************************************)
(* Theorems about ClientSession, for any number of sessions, of calls in   *)
(* flight and of expired tokens: the app presents a spent refresh token    *)
(* only after a lost answer or overlapping writes of the keystore, and a   *)
(* restart restores what was held.                                         *)
(***************************************************************************)
EXTENDS ClientSession, TLAPS

Versions == [s : Sessions, v : Nat]

(* What each actor may be at.                                              *)
PcInv ==
  /\ \A c \in Calls : pc[c] \in {"idle", "sent", "waiting", "resent", "delete", "clear"}
  /\ pc["refresh"] \in {"idle", "sent", "granted", "refused", "write", "publish"}
  /\ pc["login"] \in {"idle", "sent", "write", "publish"}
  /\ pc["logout"] \in {"idle", "sent", "delete", "clear"}

(* A session nobody has opened is known to nobody.                         *)
UnopenedInv ==
  \A s \in Sessions : srv[s] = "unopened" =>
    /\ cur[s] = 0
    /\ held # None => held.s # s
    /\ stored # None => stored.s # s
    /\ \A p \in stray : p.s # s
    /\ \A a \in Actors : tok[a] # None => tok[a].s # s

(* A refresh the app gave up on was not answered.                          *)
StrayInv == \A p \in stray : p.s \in unanswered

(* The session a sign-in has just opened is nobody else's yet.             *)
LoginInv ==
  pc["login"] \in {"write", "publish"} =>
    /\ tok["login"].v = 0
    /\ held # None => held.s # tok["login"].s
    /\ tok["refresh"] # None => tok["refresh"].s # tok["login"].s

(* The session being refreshed is held as it is presented, or not at all.  *)
HeldInv ==
  /\ pc["refresh"] \in {"sent", "granted", "refused"}
  /\ held # None
  /\ held.s = tok["refresh"].s
  => held = tok["refresh"]

(* Between the keystore and the memory of one actor.                       *)
StoredInv ==
  \A a \in Actors :
    /\ pc[a] = "publish" => stored = tok[a]
    /\ pc[a] = "clear" => stored = None

(* Of a session all of whose refreshes were answered, the app knows the    *)
(* live version, unless that is just on its way to be held.                *)
Live(p) == p.s \in unanswered \/ p.v = cur[p.s]

VersionInv ==
  /\ held # None =>
       \/ Live(held)
       \/ pc["refresh"] \in {"granted", "write", "publish"} /\ tok["refresh"].s = held.s
  /\ pc["refresh"] \in {"sent", "write", "publish"} => Live(tok["refresh"])
  /\ pc["refresh"] = "granted" =>
       \/ tok["refresh"].s \in unanswered
       \/ tok["refresh"].v + 1 = cur[tok["refresh"].s]
  /\ pc["login"] \in {"write", "publish"} => Live(tok["login"])

IInv ==
  /\ TypeOK
  /\ PcInv
  /\ UnopenedInv
  /\ StrayInv
  /\ LoginInv
  /\ HeldInv
  /\ crossed \/ (StoredInv /\ RestartKeepsSession /\ VersionInv)
  /\ SpentOnlyAfterLoss

-----------------------------------------------------------------------------
LEMMA ActorNames ==
  /\ "refresh" \in Actors /\ "login" \in Actors /\ "logout" \in Actors
  /\ Calls \subseteq Actors
  /\ "refresh" \notin Calls /\ "login" \notin Calls /\ "logout" \notin Calls
  /\ \A a \in Actors : a \in Calls \/ a \in {"refresh", "login", "logout"}
BY NamesAssumption DEF Actors

LEMMA NoneIsNoVersion == None \notin Versions
BY NamesAssumption DEF Versions

(* The steps, and who takes them.                                          *)
LEMMA Steps ==
  ASSUME [Next]_vars, PcInv
  PROVE  \/ \E c \in Calls : StartCall(c) \/ Answered(c) \/ CallLost(c) \/ Denied(c)
                             \/ DeniedAgain(c) \/ Disabled(c)
         \/ RefreshServed \/ RefreshRejected \/ RefreshLost
         \/ RefreshGranted \/ RefreshRefused
         \/ \E a \in {"refresh", "login"} : Save(a) \/ Publish(a)
         \/ \E a \in Calls \union {"logout"} : Delete(a) \/ Clear(a)
         \/ StartLogin \/ LoginFails \/ \E s \in Sessions : LoginServed(s)
         \/ StartLogout \/ LogoutServed \/ LogoutFails
         \/ \E p \in stray : StrayServed(p)
         \/ Restart
         \/ \E s \in Sessions : EndElsewhere(s) \/ AccessExpires(s)
         \/ UNCHANGED vars
<1>1. ASSUME NEW a \in Actors, StoreStep(a)
      PROVE  \/ a \in {"refresh", "login"} /\ (Save(a) \/ Publish(a))
             \/ a \in Calls \union {"logout"} /\ (Delete(a) \/ Clear(a))
  BY <1>1, ActorNames DEF StoreStep, Save, Publish, Delete, Clear, PcInv
<1> QED
  BY <1>1 DEF Next, CallStep, RefreshStep, LoginStep, LogoutStep

-----------------------------------------------------------------------------
(* What a step of each kind does to pc and tok.                            *)
LEMMA GotoType ==
  ASSUME TypeOK, NEW a \in Actors, NEW p \in Versions \union {None},
         NEW step \in {"idle", "sent", "waiting", "resent", "granted", "refused",
                       "write", "publish", "delete", "clear"},
         Goto(a, step, p),
         p = None <=> step \in {"idle", "waiting", "delete", "clear"}
                      \/ (a = "login" /\ step = "sent")
  PROVE  /\ pc' \in [Actors -> {"idle", "sent", "waiting", "resent", "granted",
                       "refused", "write", "publish", "delete", "clear"}]
         /\ tok' \in [Actors -> Versions \union {None}]
         /\ \A b \in Actors : tok'[b] = None <=>
              pc'[b] \in {"idle", "waiting", "delete", "clear"}
              \/ (b = "login" /\ pc'[b] = "sent")
         /\ pc'[a] = step /\ tok'[a] = p
         /\ \A b \in Actors \ {a} : pc'[b] = pc[b] /\ tok'[b] = tok[b]
BY DEF Goto, TypeOK, Versions

LEMMA LandType ==
  ASSUME TypeOK, NEW p \in Versions \union {None},
         NEW step \in {"idle", "resent", "delete"},
         Land(step, p), p = None <=> step # "resent"
  PROVE  /\ pc' \in [Actors -> {"idle", "sent", "waiting", "resent", "granted",
                       "refused", "write", "publish", "delete", "clear"}]
         /\ tok' \in [Actors -> Versions \union {None}]
         /\ \A b \in Actors : tok'[b] = None <=>
              pc'[b] \in {"idle", "waiting", "delete", "clear"}
              \/ (b = "login" /\ pc'[b] = "sent")
         /\ pc'["refresh"] = "idle" /\ tok'["refresh"] = None
         /\ \A b \in Actors \ {"refresh"} :
              \/ pc'[b] = pc[b] /\ tok'[b] = tok[b]
              \/ b \in Calls /\ pc[b] = "waiting" /\ pc'[b] = step /\ tok'[b] = p
BY ActorNames DEF Land, TypeOK, Versions

-----------------------------------------------------------------------------
LEMMA TypeStep == TypeOK /\ PcInv /\ [Next]_vars => TypeOK'
<1> SUFFICES ASSUME TypeOK, PcInv, [Next]_vars PROVE TypeOK'
  OBVIOUS
<1> USE ActorNames, NoneIsNoVersion DEF server, app, past, Versions
<1>1. ASSUME NEW c \in Calls,
             StartCall(c) \/ Answered(c) \/ CallLost(c) \/ DeniedAgain(c) \/ Disabled(c)
      PROVE  TypeOK'
  <2>1. CASE StartCall(c)
    BY <2>1, GotoType DEF StartCall, TypeOK
  <2>2. CASE Answered(c) \/ CallLost(c)
    BY <2>2, GotoType DEF Answered, CallLost, TypeOK
  <2>3. CASE DeniedAgain(c) \/ Disabled(c)
    BY <2>3, GotoType DEF DeniedAgain, Disabled, TypeOK
  <2> QED
    BY <1>1, <2>1, <2>2, <2>3
<1>2. ASSUME NEW c \in Calls, Denied(c) PROVE TypeOK'
  <2>1. CASE Goto(c, "waiting", None) \/ Goto(c, "delete", None)
    BY <1>2, <2>1, GotoType DEF Denied, TypeOK
  <2>2. CASE /\ held # None
             /\ pc' = [pc EXCEPT ![c] = "waiting", !["refresh"] = "sent"]
             /\ tok' = [tok EXCEPT ![c] = None, !["refresh"] = held]
    BY <1>2, <2>2 DEF Denied, TypeOK
  <2> QED
    BY <1>2, <2>1, <2>2 DEF Denied
<1>3. CASE RefreshServed
  <2>1. tok["refresh"] \in Versions
    BY <1>3 DEF RefreshServed, TypeOK
  <2>2. /\ cur' \in [Sessions -> Nat]
        /\ srv' \in [Sessions -> {"unopened", "open", "ended", "burned"}]
    BY <1>3, <2>1 DEF RefreshServed, Rotate, TypeOK
  <2>3. \E step \in {"granted", "refused"} : Goto("refresh", step, tok["refresh"])
    BY <1>3 DEF RefreshServed
  <2> QED
    BY <1>3, <2>1, <2>2, <2>3, GotoType DEF RefreshServed, Rotate, TypeOK
<1>4. CASE RefreshRejected
  <2>1. tok["refresh"] \in Versions
    BY <1>4 DEF RefreshRejected, TypeOK
  <2> QED
    BY <1>4, <2>1, GotoType DEF RefreshRejected, TypeOK
<1>5. CASE RefreshLost
  <2>1. tok["refresh"] \in Versions
    BY <1>5 DEF RefreshLost, TypeOK
  <2>2. stray' \in SUBSET Versions /\ unanswered' \in SUBSET Sessions
    BY <1>5, <2>1 DEF RefreshLost, TypeOK
  <2> QED
    BY <1>5, <2>2, LandType DEF RefreshLost, TypeOK
<1>6. CASE RefreshGranted
  <2>1. tok["refresh"] \in Versions
    BY <1>6 DEF RefreshGranted, TypeOK
  <2>2. [tok["refresh"] EXCEPT !.v = @ + 1] \in Versions
    BY <2>1
  <2>3. CASE Goto("refresh", "write", [tok["refresh"] EXCEPT !.v = @ + 1])
    BY <1>6, <2>2, <2>3, GotoType DEF RefreshGranted, TypeOK
  <2>4. CASE Land("delete", None)
    BY <1>6, <2>4, LandType DEF RefreshGranted, TypeOK
  <2> QED
    BY <1>6, <2>3, <2>4 DEF RefreshGranted
<1>7. CASE RefreshRefused
  BY <1>7, LandType DEF RefreshRefused, TypeOK
<1>8. ASSUME NEW a \in {"refresh", "login"}, Save(a) PROVE TypeOK'
  <2>1. a \in Actors /\ tok[a] \in Versions /\ crossed' \in BOOLEAN
    BY <1>8 DEF Save, TypeOK
  <2> QED
    BY <1>8, <2>1, GotoType DEF Save, TypeOK
<1>9. ASSUME NEW a \in {"refresh", "login"}, Publish(a) PROVE TypeOK'
  <2>1. a \in Actors /\ tok[a] \in Versions /\ crossed' \in BOOLEAN
    BY <1>9 DEF Publish, TypeOK
  <2>2. CASE Land("resent", tok[a])
    BY <1>9, <2>1, <2>2, LandType DEF Publish, TypeOK
  <2>3. CASE Goto(a, "idle", None)
    BY <1>9, <2>1, <2>3, GotoType DEF Publish, TypeOK
  <2> QED
    BY <1>9, <2>2, <2>3 DEF Publish
<1>10. ASSUME NEW a \in Calls \union {"logout"}, Delete(a) \/ Clear(a) PROVE TypeOK'
  <2>1. a \in Actors
    OBVIOUS
  <2>2. crossed' \in BOOLEAN
    BY <1>10 DEF Delete, Clear, TypeOK
  <2> QED
    BY <1>10, <2>1, <2>2, GotoType DEF Delete, Clear, TypeOK
<1>11. CASE StartLogin \/ LoginFails
  BY <1>11, GotoType DEF StartLogin, LoginFails, TypeOK
<1>12. ASSUME NEW s \in Sessions, LoginServed(s) PROVE TypeOK'
  <2>1. [s |-> s, v |-> 0] \in Versions
    OBVIOUS
  <2>2. srv' \in [Sessions -> {"unopened", "open", "ended", "burned"}]
    BY <1>12 DEF LoginServed, TypeOK
  <2>3. CASE Goto("login", "write", [s |-> s, v |-> 0])
    BY <1>12, <2>1, <2>2, <2>3, GotoType DEF LoginServed, TypeOK
  <2>4. CASE Goto("login", "idle", None)
    BY <1>12, <2>2, <2>4, GotoType DEF LoginServed, TypeOK
  <2> QED
    BY <1>12, <2>3, <2>4 DEF LoginServed
<1>13. CASE StartLogout
  BY <1>13, GotoType DEF StartLogout, TypeOK
<1>14. CASE LogoutServed \/ LogoutFails
  <2>1. srv' \in [Sessions -> {"unopened", "open", "ended", "burned"}]
    BY <1>14 DEF LogoutServed, LogoutFails, TypeOK
  <2> QED
    BY <1>14, <2>1, GotoType DEF LogoutServed, LogoutFails, TypeOK
<1>15. ASSUME NEW p \in stray, StrayServed(p) PROVE TypeOK'
  <2>1. p \in Versions
    BY DEF TypeOK
  <2>2. /\ cur' \in [Sessions -> Nat]
        /\ srv' \in [Sessions -> {"unopened", "open", "ended", "burned"}]
    BY <1>15, <2>1 DEF StrayServed, Rotate, TypeOK
  <2> QED
    BY <1>15, <2>2 DEF StrayServed, Rotate, TypeOK
<1>16. CASE Restart
  <2>1. stray' \in SUBSET Versions /\ unanswered' \in SUBSET Sessions
    BY <1>16 DEF Restart, TypeOK
  <2> QED
    BY <1>16, <2>1 DEF Restart, TypeOK
<1>17. ASSUME NEW s \in Sessions, EndElsewhere(s) \/ AccessExpires(s) PROVE TypeOK'
  BY <1>17 DEF EndElsewhere, AccessExpires, TypeOK
<1>18. CASE UNCHANGED vars
  BY <1>18 DEF vars, TypeOK
<1> QED
  BY <1>1, <1>2, <1>3, <1>4, <1>5, <1>6, <1>7, <1>8, <1>9, <1>10, <1>11, <1>12,
     <1>13, <1>14, <1>15, <1>16, <1>17, <1>18, Steps

LEMMA PcStep == TypeOK /\ PcInv /\ [Next]_vars => PcInv'
<1> SUFFICES ASSUME TypeOK, PcInv, [Next]_vars PROVE PcInv'
  OBVIOUS
<1> USE ActorNames DEF app, PcInv
<1>1. ASSUME NEW c \in Calls,
             \/ StartCall(c) \/ Answered(c) \/ CallLost(c) \/ Denied(c)
             \/ DeniedAgain(c) \/ Disabled(c) \/ Delete(c) \/ Clear(c)
      PROVE  PcInv'
  BY <1>1 DEF StartCall, Answered, CallLost, Denied, DeniedAgain, Disabled, Delete,
     Clear, Goto, TypeOK
<1>2. CASE RefreshServed \/ RefreshRejected \/ (\E a \in {"refresh", "login"} : Save(a))
  BY <1>2 DEF RefreshServed, RefreshRejected, Save, Goto, TypeOK
<1>3. CASE RefreshLost \/ RefreshRefused \/ RefreshGranted
  BY <1>3 DEF RefreshLost, RefreshRefused, RefreshGranted, Land, Goto, TypeOK
<1>4. ASSUME NEW a \in {"refresh", "login"}, Publish(a) PROVE PcInv'
  BY <1>4 DEF Publish, Land, Goto, TypeOK
<1>5. CASE \/ StartLogin \/ LoginFails \/ (\E s \in Sessions : LoginServed(s))
           \/ StartLogout \/ LogoutServed \/ LogoutFails
           \/ Delete("logout") \/ Clear("logout")
  BY <1>5 DEF StartLogin, LoginFails, LoginServed, StartLogout, LogoutServed,
     LogoutFails, Delete, Clear, Goto, TypeOK
<1>6. CASE Restart
  BY <1>6 DEF Restart
<1>7. CASE UNCHANGED pc
  BY <1>7
<1> QED
  BY <1>1, <1>2, <1>3, <1>4, <1>5, <1>6, <1>7, Steps
     DEF StrayServed, EndElsewhere, AccessExpires, vars

-----------------------------------------------------------------------------
(* What the app knows of: every session in held', stored', stray' or tok'  *)
(* was known before, but for the one a sign-in opens.                      *)
LEMMA KnownStep ==
  ASSUME TypeOK, PcInv, [Next]_vars, NEW s \in Sessions,
         held # None => held.s # s,
         stored # None => stored.s # s,
         \A p \in stray : p.s # s,
         \A a \in Actors : tok[a] # None => tok[a].s # s,
         ~LoginServed(s)
  PROVE  /\ held' # None => held'.s # s
         /\ stored' # None => stored'.s # s
         /\ \A p \in stray' : p.s # s
         /\ \A a \in Actors : tok'[a] # None => tok'[a].s # s
<1> USE ActorNames, NoneIsNoVersion DEF app, Versions
<1>1. ASSUME NEW c \in Calls,
             \/ StartCall(c) \/ Answered(c) \/ CallLost(c) \/ Denied(c)
             \/ DeniedAgain(c) \/ Disabled(c) \/ Delete(c) \/ Clear(c)
      PROVE  /\ held' # None => held'.s # s
             /\ stored' # None => stored'.s # s
             /\ \A p \in stray' : p.s # s
             /\ \A a \in Actors : tok'[a] # None => tok'[a].s # s
  BY <1>1 DEF StartCall, Answered, CallLost, Denied, DeniedAgain, Disabled, Delete,
     Clear, Goto, TypeOK
<1>2. CASE RefreshServed \/ RefreshRejected \/ RefreshLost \/ RefreshRefused
  BY <1>2 DEF RefreshServed, RefreshRejected, RefreshLost, RefreshRefused, Land, Goto,
     TypeOK
<1>3. CASE RefreshGranted
  <2>1. tok["refresh"] \in Versions
    BY <1>3 DEF RefreshGranted, TypeOK
  <2>2. [tok["refresh"] EXCEPT !.v = @ + 1].s = tok["refresh"].s
    BY <2>1
  <2> QED
    BY <1>3, <2>1, <2>2 DEF RefreshGranted, Land, Goto, TypeOK
<1>4. ASSUME NEW a \in {"refresh", "login"}, Save(a) \/ Publish(a)
      PROVE  /\ held' # None => held'.s # s
             /\ stored' # None => stored'.s # s
             /\ \A p \in stray' : p.s # s
             /\ \A b \in Actors : tok'[b] # None => tok'[b].s # s
  BY <1>4 DEF Save, Publish, Land, Goto, TypeOK
<1>5. CASE \/ StartLogin \/ LoginFails
           \/ StartLogout \/ LogoutServed \/ LogoutFails
           \/ Delete("logout") \/ Clear("logout")
  BY <1>5 DEF StartLogin, LoginFails, StartLogout, LogoutServed, LogoutFails, Delete,
     Clear, Goto, TypeOK
<1>6. ASSUME NEW t \in Sessions \ {s}, LoginServed(t)
      PROVE  /\ held' # None => held'.s # s
             /\ stored' # None => stored'.s # s
             /\ \A p \in stray' : p.s # s
             /\ \A a \in Actors : tok'[a] # None => tok'[a].s # s
  BY <1>6 DEF LoginServed, Goto, TypeOK
<1>7. CASE Restart
  BY <1>7 DEF Restart, TypeOK
<1>8. CASE UNCHANGED app /\ stray' \subseteq stray
  BY <1>8
<1> QED
  BY <1>1, <1>2, <1>3, <1>4, <1>5, <1>6, <1>7, <1>8, Steps
     DEF StrayServed, EndElsewhere, AccessExpires, vars

(* A session once opened is never unopened again, and an unopened one is   *)
(* never rotated.                                                          *)
LEMMA UnopenedStays ==
  ASSUME TypeOK, PcInv, UnopenedInv, [Next]_vars,
         NEW s \in Sessions, srv'[s] = "unopened"
  PROVE  srv[s] = "unopened" /\ cur'[s] = 0 /\ ~LoginServed(s)
<1> USE ActorNames DEF server
<1>1. srv[s] = "unopened" => cur[s] = 0
  BY DEF UnopenedInv
<1>2. ~LoginServed(s)
  BY DEF LoginServed, TypeOK
<1>3. CASE RefreshServed
  BY <1>3, <1>1, <1>2 DEF RefreshServed, Rotate, TypeOK
<1>4. ASSUME NEW p \in stray, StrayServed(p)
      PROVE  srv[s] = "unopened" /\ cur'[s] = 0
  BY <1>4, <1>1 DEF StrayServed, Rotate, TypeOK
<1>5. ASSUME NEW t \in Sessions, LoginServed(t) \/ EndElsewhere(t) \/ AccessExpires(t)
      PROVE  srv[s] = "unopened" /\ cur'[s] = 0
  BY <1>5, <1>1 DEF LoginServed, EndElsewhere, AccessExpires, TypeOK
<1>6. CASE LogoutServed
  BY <1>6, <1>1, <1>2 DEF LogoutServed, TypeOK
<1>7. CASE UNCHANGED <<srv, cur>>
  BY <1>7, <1>1, <1>2
<1> QED
  BY <1>2, <1>3, <1>4, <1>5, <1>6, <1>7, Steps DEF StartCall, Answered, CallLost,
     Denied, DeniedAgain, Disabled, RefreshRejected, RefreshLost, RefreshGranted,
     RefreshRefused, Save, Publish, Delete, Clear, StartLogin, LoginFails,
     StartLogout, LogoutFails, Restart, vars

LEMMA UnopenedStep == TypeOK /\ PcInv /\ UnopenedInv /\ [Next]_vars => UnopenedInv'
<1> SUFFICES ASSUME TypeOK, PcInv, UnopenedInv, [Next]_vars,
                    NEW s \in Sessions, srv'[s] = "unopened"
             PROVE  /\ cur'[s] = 0
                    /\ held' # None => held'.s # s
                    /\ stored' # None => stored'.s # s
                    /\ \A p \in stray' : p.s # s
                    /\ \A a \in Actors : tok'[a] # None => tok'[a].s # s
  BY DEF UnopenedInv
<1>1. srv[s] = "unopened" /\ cur'[s] = 0 /\ ~LoginServed(s)
  BY UnopenedStays
<1> QED
  BY <1>1, KnownStep DEF UnopenedInv

LEMMA StrayStep == TypeOK /\ PcInv /\ StrayInv /\ [Next]_vars => StrayInv'
<1> SUFFICES ASSUME TypeOK, PcInv, StrayInv, [Next]_vars PROVE StrayInv'
  OBVIOUS
<1> USE ActorNames DEF StrayInv, past
<1>1. CASE RefreshLost \/ Restart
  BY <1>1 DEF RefreshLost, Restart
<1>2. CASE stray' \subseteq stray /\ UNCHANGED unanswered
  BY <1>2
<1> QED
  BY <1>1, <1>2, Steps DEF StartCall, Answered, CallLost, Denied, DeniedAgain, Disabled,
     RefreshServed, RefreshRejected, RefreshGranted, RefreshRefused, Save, Publish,
     Delete, Clear, StartLogin, LoginFails, LoginServed, StartLogout, LogoutServed,
     LogoutFails, StrayServed, EndElsewhere, AccessExpires, vars

-----------------------------------------------------------------------------
(* The moves of one actor leave the others where they are.                 *)
LEMMA LoginStays ==
  ASSUME TypeOK, PcInv, [Next]_vars, pc'["login"] \in {"write", "publish"}
  PROVE  \/ pc["login"] \in {"write", "publish"} /\ tok'["login"] = tok["login"]
         \/ \E s \in Sessions : LoginServed(s) /\ tok'["login"] = [s |-> s, v |-> 0]
                                               /\ pc'["login"] = "write"
<1> USE ActorNames DEF app
<1>1. ASSUME NEW c \in Calls,
             \/ StartCall(c) \/ Answered(c) \/ CallLost(c) \/ Denied(c)
             \/ DeniedAgain(c) \/ Disabled(c) \/ Delete(c) \/ Clear(c)
      PROVE  UNCHANGED <<pc["login"], tok["login"]>>
  BY <1>1 DEF StartCall, Answered, CallLost, Denied, DeniedAgain, Disabled, Delete,
     Clear, Goto, TypeOK
<1>2. CASE \/ RefreshServed \/ RefreshRejected \/ RefreshLost \/ RefreshRefused
           \/ RefreshGranted \/ Save("refresh") \/ Publish("refresh")
  BY <1>2 DEF RefreshServed, RefreshRejected, RefreshLost, RefreshRefused,
     RefreshGranted, Save, Publish, Land, Goto, TypeOK
<1>3. CASE \/ StartLogin \/ LoginFails \/ Publish("login") \/ Restart
  BY <1>3 DEF StartLogin, LoginFails, Publish, Restart, Goto, TypeOK
<1>4. CASE Save("login")
  BY <1>4 DEF Save, Goto, TypeOK
<1>5. ASSUME NEW s \in Sessions, LoginServed(s)
      PROVE  tok'["login"] = [s |-> s, v |-> 0] /\ pc'["login"] = "write"
  BY <1>5 DEF LoginServed, Goto, TypeOK
<1>6. CASE \/ StartLogout \/ LogoutServed \/ LogoutFails
           \/ Delete("logout") \/ Clear("logout")
  BY <1>6 DEF StartLogout, LogoutServed, LogoutFails, Delete, Clear, Goto, TypeOK
<1>7. CASE UNCHANGED app
  BY <1>7
<1> QED
  BY <1>1, <1>2, <1>3, <1>4, <1>5, <1>6, <1>7, Steps
     DEF StrayServed, EndElsewhere, AccessExpires, vars

(* What a refresh is about was held when it started.                       *)
LEMMA RefreshStays ==
  ASSUME TypeOK, PcInv, [Next]_vars, tok'["refresh"] # None
  PROVE  \/ /\ tok["refresh"] = None
            /\ held # None
            /\ tok'["refresh"] = held
            /\ pc'["refresh"] = "sent"
            /\ UNCHANGED <<server, held, past>>
         \/ /\ tok["refresh"] # None
            /\ tok'["refresh"].s = tok["refresh"].s
            /\ tok'["refresh"] = tok["refresh"] \/ RefreshGranted
<1> USE ActorNames, NoneIsNoVersion DEF app, Versions
<1>1. ASSUME NEW c \in Calls,
             \/ StartCall(c) \/ Answered(c) \/ CallLost(c)
             \/ DeniedAgain(c) \/ Disabled(c) \/ Delete(c) \/ Clear(c)
      PROVE  tok'["refresh"] = tok["refresh"]
  BY <1>1 DEF StartCall, Answered, CallLost, DeniedAgain, Disabled, Delete,
     Clear, Goto, TypeOK
<1>2. ASSUME NEW c \in Calls, Denied(c)
      PROVE  \/ tok'["refresh"] = tok["refresh"]
             \/ /\ tok["refresh"] = None
                /\ held # None
                /\ tok'["refresh"] = held
                /\ pc'["refresh"] = "sent"
                /\ UNCHANGED <<server, held, past>>
  BY <1>2 DEF Denied, Goto, TypeOK
<1>3. CASE RefreshServed \/ RefreshRejected \/ Save("refresh")
  BY <1>3 DEF RefreshServed, RefreshRejected, Save, Goto, TypeOK
<1>4. CASE RefreshLost \/ RefreshRefused \/ Publish("refresh") \/ Restart
  BY <1>4 DEF RefreshLost, RefreshRefused, Publish, Restart, Land, TypeOK
<1>5. CASE RefreshGranted
  <2>1. tok["refresh"] \in Versions
    BY <1>5 DEF RefreshGranted, TypeOK
  <2>2. [tok["refresh"] EXCEPT !.v = @ + 1].s = tok["refresh"].s
    BY <2>1
  <2> QED
    BY <1>5, <2>1, <2>2 DEF RefreshGranted, Land, Goto, TypeOK
<1>6. CASE \/ StartLogin \/ LoginFails \/ (\E s \in Sessions : LoginServed(s))
           \/ Save("login") \/ Publish("login")
           \/ StartLogout \/ LogoutServed \/ LogoutFails
           \/ Delete("logout") \/ Clear("logout")
  BY <1>6 DEF StartLogin, LoginFails, LoginServed, Save, Publish, StartLogout,
     LogoutServed, LogoutFails, Delete, Clear, Goto, TypeOK
<1>7. CASE UNCHANGED app
  BY <1>7
<1> QED
  BY <1>1, <1>2, <1>3, <1>4, <1>5, <1>6, <1>7, Steps
     DEF StrayServed, EndElsewhere, AccessExpires, vars

(* What is held was held, stored, or on its way.                           *)
LEMMA HeldStays ==
  ASSUME TypeOK, PcInv, [Next]_vars, held' # None
  PROVE  \/ held' = held
         \/ \E a \in {"refresh", "login"} :
              Publish(a) /\ held' = tok[a] /\ pc[a] = "publish"
         \/ Restart /\ held' = stored
BY Steps, ActorNames DEF StartCall, Answered, CallLost, Denied, DeniedAgain, Disabled,
   RefreshServed, RefreshRejected, RefreshLost, RefreshGranted, RefreshRefused, Save,
   Publish, Delete, Clear, StartLogin, LoginFails, LoginServed, StartLogout,
   LogoutServed, LogoutFails, StrayServed, Restart, EndElsewhere, AccessExpires, vars,
   app

(* How a refresh gets where it is.                                         *)
LEMMA RefreshMoves ==
  ASSUME TypeOK, PcInv, [Next]_vars
  PROVE  /\ pc'["refresh"] = "sent" => pc["refresh"] \in {"idle", "sent"}
         /\ pc'["refresh"] = "granted" =>
              pc["refresh"] = "granted" \/ (RefreshServed /\ cur' # cur)
         /\ pc'["refresh"] = "refused" => pc["refresh"] \in {"sent", "refused"}
         /\ pc'["refresh"] = "write" =>
              pc["refresh"] = "write"
              \/ (RefreshGranted /\ held = tok["refresh"]
                  /\ tok'["refresh"] = [tok["refresh"] EXCEPT !.v = @ + 1])
         /\ pc'["refresh"] = "publish" => pc["refresh"] \in {"write", "publish"}
<1> USE ActorNames DEF app
<1>1. ASSUME NEW c \in Calls,
             \/ StartCall(c) \/ Answered(c) \/ CallLost(c)
             \/ DeniedAgain(c) \/ Disabled(c) \/ Delete(c) \/ Clear(c)
      PROVE  pc'["refresh"] = pc["refresh"]
  BY <1>1 DEF StartCall, Answered, CallLost, DeniedAgain, Disabled, Delete,
     Clear, Goto, TypeOK
<1>2. ASSUME NEW c \in Calls, Denied(c)
      PROVE  \/ pc'["refresh"] = pc["refresh"]
             \/ pc["refresh"] = "idle" /\ pc'["refresh"] = "sent"
  BY <1>2 DEF Denied, Goto, TypeOK
<1>3. CASE RefreshServed
  BY <1>3 DEF RefreshServed, Goto, TypeOK
<1>4. CASE RefreshRejected \/ Save("refresh")
  BY <1>4 DEF RefreshRejected, Save, Goto, TypeOK
<1>5. CASE RefreshLost \/ RefreshRefused \/ Publish("refresh") \/ Restart
  BY <1>5 DEF RefreshLost, RefreshRefused, Publish, Restart, Land, TypeOK
<1>6. CASE RefreshGranted
  BY <1>6 DEF RefreshGranted, Land, Goto, TypeOK
<1>7. CASE \/ StartLogin \/ LoginFails \/ (\E s \in Sessions : LoginServed(s))
           \/ Save("login") \/ Publish("login")
           \/ StartLogout \/ LogoutServed \/ LogoutFails
           \/ Delete("logout") \/ Clear("logout")
  BY <1>7 DEF StartLogin, LoginFails, LoginServed, Save, Publish, StartLogout,
     LogoutServed, LogoutFails, Delete, Clear, Goto, TypeOK
<1>8. CASE UNCHANGED app
  BY <1>8
<1> QED
  BY <1>1, <1>2, <1>3, <1>4, <1>5, <1>6, <1>7, <1>8, Steps
     DEF StrayServed, EndElsewhere, AccessExpires, vars

-----------------------------------------------------------------------------
LEMMA LoginInvStep ==
  TypeOK /\ TypeOK' /\ PcInv /\ UnopenedInv /\ LoginInv /\ [Next]_vars => LoginInv'
<1> SUFFICES ASSUME TypeOK, TypeOK', PcInv, UnopenedInv, LoginInv, [Next]_vars,
                    pc'["login"] \in {"write", "publish"}
             PROVE  /\ tok'["login"].v = 0
                    /\ held' # None => held'.s # tok'["login"].s
                    /\ tok'["refresh"] # None => tok'["refresh"].s # tok'["login"].s
  BY DEF LoginInv
<1> USE ActorNames
<1>1. CASE /\ pc["login"] \in {"write", "publish"}
           /\ tok'["login"] = tok["login"]
  <2>1. /\ tok["login"].v = 0
        /\ held # None => held.s # tok["login"].s
        /\ tok["refresh"] # None => tok["refresh"].s # tok["login"].s
    BY <1>1 DEF LoginInv
  <2>2. held' # None => held' = held \/ (held' = tok["refresh"] /\ tok["refresh"] # None)
    <3>1. ~Publish("login") /\ ~Restart
      BY DEF Publish, Restart, Goto, TypeOK
    <3>2. pc["refresh"] = "publish" => tok["refresh"] # None
      BY DEF TypeOK
    <3> QED
      BY <3>1, <3>2, HeldStays
  <2>3. tok'["refresh"] # None => tok'["refresh"].s # tok["login"].s
    BY <2>1, RefreshStays
  <2> QED
    BY <1>1, <2>1, <2>2, <2>3
<1>2. ASSUME NEW s \in Sessions, LoginServed(s), tok'["login"] = [s |-> s, v |-> 0]
      PROVE  /\ tok'["login"].v = 0
             /\ held' # None => held'.s # tok'["login"].s
             /\ tok'["refresh"] # None => tok'["refresh"].s # tok'["login"].s
  <2>1. held' = held /\ tok'["refresh"] = tok["refresh"] /\ srv[s] = "unopened"
    BY <1>2 DEF LoginServed, Goto, TypeOK
  <2>2. /\ held # None => held.s # s
        /\ tok["refresh"] # None => tok["refresh"].s # s
    BY <2>1 DEF UnopenedInv
  <2> QED
    BY <1>2, <2>1, <2>2
<1> QED
  BY <1>1, <1>2, LoginStays

LEMMA HeldStep ==
  TypeOK /\ TypeOK' /\ PcInv /\ LoginInv /\ HeldInv /\ [Next]_vars => HeldInv'
<1> SUFFICES ASSUME TypeOK, TypeOK', PcInv, LoginInv, HeldInv, [Next]_vars,
                    pc'["refresh"] \in {"sent", "granted", "refused"},
                    held' # None, held'.s = tok'["refresh"].s
             PROVE  held' = tok'["refresh"]
  BY DEF HeldInv
<1> USE ActorNames
<1>1. tok'["refresh"] # None
  BY DEF TypeOK
<1>2. ~RefreshGranted /\ ~Publish("refresh") /\ ~Restart
  BY DEF RefreshGranted, Publish, Restart, Land, Goto, TypeOK
<1>3. CASE tok["refresh"] = None
  BY <1>1, <1>3, RefreshStays
<1>4. CASE tok["refresh"] # None /\ tok'["refresh"] = tok["refresh"]
  <2>1. pc["refresh"] \in {"sent", "granted", "refused"}
    BY <1>4, RefreshMoves, <1>2 DEF RefreshServed, TypeOK
  <2>2. CASE held' = held
    BY <1>4, <2>1, <2>2 DEF HeldInv
  <2>3. CASE held' = tok["login"] /\ pc["login"] = "publish"
    BY <1>4, <2>3 DEF LoginInv
  <2> QED
    BY <1>2, <2>2, <2>3, HeldStays
<1> QED
  BY <1>1, <1>2, <1>3, <1>4, RefreshStays

-----------------------------------------------------------------------------
(* The keystore and the memory.                                            *)
LEMMA CrossedStays ==
  ASSUME TypeOK, PcInv, [Next]_vars
  PROVE  /\ crossed => crossed'
         /\ unanswered \subseteq unanswered'
<1> USE ActorNames DEF past
<1>1. ASSUME NEW a \in Actors, Save(a) \/ Publish(a) \/ Delete(a) \/ Clear(a)
      PROVE  (crossed => crossed') /\ UNCHANGED unanswered
  <2>1. \E t \in BOOLEAN : crossed' = (crossed \/ t)
    BY <1>1 DEF Save, Publish, Delete, Clear, Overlaps
  <2>2. UNCHANGED unanswered
    BY <1>1 DEF Save, Publish, Delete, Clear
  <2> QED
    BY <2>1, <2>2 DEF TypeOK
<1>2. CASE RefreshLost \/ Restart
  BY <1>2 DEF RefreshLost, Restart
<1>3. CASE UNCHANGED past
  BY <1>3
<1> QED
  BY <1>1, <1>2, <1>3, Steps DEF StartCall, Answered, CallLost, Denied, DeniedAgain,
     Disabled, RefreshServed, RefreshRejected, RefreshGranted, RefreshRefused,
     StartLogin, LoginFails, LoginServed, StartLogout, LogoutServed, LogoutFails,
     StrayServed, EndElsewhere, AccessExpires, vars

(* Who is between the two, and how they got there and leave.               *)
LEMMA BetweenMoves ==
  ASSUME TypeOK, PcInv, [Next]_vars, NEW a \in Actors
  PROVE  /\ pc'[a] = "publish" =>
              (pc[a] = "publish" /\ tok'[a] = tok[a]) \/ (Save(a) /\ tok'[a] = tok[a])
         /\ pc'[a] = "clear" => pc[a] = "clear" \/ Delete(a)
         /\ pc[a] \in {"publish", "clear"} =>
              pc'[a] = pc[a] \/ Publish(a) \/ Clear(a) \/ Restart
<1> USE ActorNames DEF app
<1>1. ASSUME NEW c \in Calls \union {"refresh", "login", "logout"},
             \/ StartCall(c) \/ Answered(c) \/ CallLost(c)
             \/ DeniedAgain(c) \/ Disabled(c) \/ Save(c) \/ Delete(c) \/ Clear(c)
      PROVE  /\ pc'[a] = "publish" =>
                  (pc[a] = "publish" /\ tok'[a] = tok[a])
                  \/ (Save(a) /\ tok'[a] = tok[a])
             /\ pc'[a] = "clear" => pc[a] = "clear" \/ Delete(a)
             /\ pc[a] \in {"publish", "clear"} =>
                  pc'[a] = pc[a] \/ Publish(a) \/ Clear(a)
  BY <1>1 DEF StartCall, Answered, CallLost, DeniedAgain, Disabled, Save, Delete,
     Clear, Goto, TypeOK
<1>2. ASSUME NEW c \in Calls, Denied(c)
      PROVE  /\ pc'[a] = "publish" => pc[a] = "publish" /\ tok'[a] = tok[a]
             /\ pc'[a] = "clear" => pc[a] = "clear"
             /\ pc[a] \in {"publish", "clear"} => pc'[a] = pc[a]
  BY <1>2 DEF Denied, Goto, TypeOK
<1>3. CASE RefreshServed \/ RefreshRejected
  BY <1>3 DEF RefreshServed, RefreshRejected, Goto, TypeOK
<1>4. CASE RefreshLost \/ RefreshRefused \/ RefreshGranted
  BY <1>4 DEF RefreshLost, RefreshRefused, RefreshGranted, Land, Goto, TypeOK
<1>5. ASSUME NEW c \in {"refresh", "login"}, Publish(c)
      PROVE  /\ pc'[a] = "publish" => pc[a] = "publish" /\ tok'[a] = tok[a]
             /\ pc'[a] = "clear" => pc[a] = "clear"
             /\ pc[a] \in {"publish", "clear"} => pc'[a] = pc[a] \/ a = c
  BY <1>5 DEF Publish, Land, Goto, TypeOK
<1>6. CASE \/ StartLogin \/ LoginFails \/ (\E s \in Sessions : LoginServed(s))
           \/ StartLogout \/ LogoutServed \/ LogoutFails
  BY <1>6 DEF StartLogin, LoginFails, LoginServed, StartLogout,
     LogoutServed, LogoutFails, Goto, TypeOK
<1>7. CASE Restart
  BY <1>7 DEF Restart
<1>8. CASE UNCHANGED app
  BY <1>8
<1> QED
  BY <1>1, <1>2, <1>3, <1>4, <1>5, <1>6, <1>7, <1>8, Steps
     DEF StrayServed, EndElsewhere, AccessExpires, vars

(* Who writes the keystore, and who the memory.                            *)
LEMMA Writers ==
  ASSUME PcInv, [Next]_vars
  PROVE  /\ stored' # stored => \E a \in Actors : Save(a) \/ Delete(a)
         /\ held' # held => Restart \/ \E a \in Actors : Publish(a) \/ Clear(a)
BY Steps, ActorNames DEF StartCall, Answered, CallLost, Denied, DeniedAgain, Disabled,
   RefreshServed, RefreshRejected, RefreshLost, RefreshGranted, RefreshRefused, Save,
   Publish, Delete, Clear, StartLogin, LoginFails, LoginServed, StartLogout,
   LogoutServed, LogoutFails, StrayServed, Restart, EndElsewhere, AccessExpires, vars,
   app

LEMMA StoredStep ==
  TypeOK /\ PcInv /\ StoredInv /\ ~crossed' /\ [Next]_vars => StoredInv'
<1> SUFFICES ASSUME TypeOK, PcInv, StoredInv, ~crossed', [Next]_vars, NEW a \in Actors
             PROVE  /\ pc'[a] = "publish" => stored' = tok'[a]
                    /\ pc'[a] = "clear" => stored' = None
  BY DEF StoredInv
<1>1. ASSUME NEW b \in Actors, Save(b)
      PROVE  stored' = tok[b] /\ \A d \in Actors \ {b} : pc[d] \notin {"publish", "clear"}
  BY <1>1 DEF Save, Overlaps
<1>2. ASSUME NEW b \in Actors, Delete(b)
      PROVE  stored' = None /\ \A d \in Actors \ {b} : pc[d] # "publish"
  BY <1>2 DEF Delete, Overlaps
<1>3. ASSUME pc'[a] = "publish" PROVE stored' = tok'[a]
  <2>1. CASE Save(a)
    BY <1>1, <1>3, <2>1, BetweenMoves DEF Save
  <2>2. CASE ~Save(a)
    <3>1. pc[a] = "publish" /\ tok'[a] = tok[a]
      BY <1>3, <2>2, BetweenMoves
    <3>2. \A b \in Actors : ~Save(b) /\ ~Delete(b)
      BY <3>1, <1>1, <1>2 DEF Save, Delete
    <3> QED
      BY <3>1, <3>2, Writers DEF StoredInv
  <2> QED
    BY <2>1, <2>2
<1>4. ASSUME pc'[a] = "clear" PROVE stored' = None
  <2>1. CASE Delete(a)
    BY <1>2, <2>1
  <2>2. CASE ~Delete(a)
    <3>1. pc[a] = "clear"
      BY <1>4, <2>2, BetweenMoves
    <3>2. \A b \in Actors : ~Save(b)
      BY <3>1, <1>1 DEF Save
    <3> QED
      BY <3>1, <3>2, <1>2, Writers DEF StoredInv
  <2> QED
    BY <2>1, <2>2
<1> QED
  BY <1>3, <1>4

LEMMA KeepsStep ==
  TypeOK /\ PcInv /\ StoredInv /\ RestartKeepsSession /\ ~crossed /\ [Next]_vars
    => RestartKeepsSession'
<1> SUFFICES ASSUME TypeOK, PcInv, StoredInv, RestartKeepsSession, ~crossed, [Next]_vars,
                    ~crossed', \A a \in Actors : pc'[a] \notin {"publish", "clear"}
             PROVE  stored' = held'
  BY DEF RestartKeepsSession
<1>1. CASE Restart
  BY <1>1 DEF Restart
<1>2. ASSUME NEW a \in Actors, Publish(a) PROVE stored' = held'
  BY <1>2 DEF Publish, StoredInv
<1>3. ASSUME NEW a \in Actors, Clear(a) PROVE stored' = held'
  BY <1>3 DEF Clear, StoredInv
<1>4. CASE ~Restart /\ \A a \in Actors : ~Publish(a) /\ ~Clear(a)
  <2>1. \A a \in Actors : pc[a] \notin {"publish", "clear"}
    BY <1>4, BetweenMoves
  <2>2. \A a \in Actors : ~Save(a) /\ ~Delete(a)
    BY DEF Save, Delete, Goto, TypeOK
  <2>3. stored = held
    BY <2>1 DEF RestartKeepsSession
  <2> QED
    BY <1>4, <2>2, <2>3, Writers
<1> QED
  BY <1>1, <1>2, <1>3, <1>4

-----------------------------------------------------------------------------
(* A version that is live stays so, unless the refresh in flight presents  *)
(* it.                                                                     *)
LEMMA CurMoves ==
  ASSUME TypeOK, PcInv, StrayInv, [Next]_vars, NEW s \in Sessions,
         s \notin unanswered', cur'[s] # cur[s]
  PROVE  /\ RefreshServed
         /\ pc["refresh"] = "sent" /\ pc'["refresh"] = "granted"
         /\ UNCHANGED <<held, stored>> /\ tok'["refresh"] = tok["refresh"]
         /\ tok["refresh"].s = s
         /\ tok["refresh"].v = cur[s]
         /\ cur'[s] = cur[s] + 1
<1> USE ActorNames DEF server
<1>1. CASE RefreshServed
  <2>1. tok["refresh"] \in Versions /\ pc["refresh"] = "sent"
    BY <1>1 DEF RefreshServed, TypeOK, Versions
  <2>2. tok["refresh"].s = s /\ tok["refresh"].v = cur[s] /\ cur'[s] = cur[s] + 1
    BY <1>1, <2>1 DEF RefreshServed, Rotate, TypeOK, Versions
  <2>3. cur' # cur
    OBVIOUS
  <2> QED
    BY <1>1, <2>1, <2>2, <2>3 DEF RefreshServed, Goto, TypeOK
<1>2. ASSUME NEW p \in stray, StrayServed(p) PROVE FALSE
  <2>1. p.s \in unanswered'
    BY <1>2, CrossedStays DEF StrayInv
  <2> QED
    BY <1>2, <2>1 DEF StrayServed, Rotate, TypeOK
<1>3. CASE UNCHANGED cur
  BY <1>3
<1> QED
  BY <1>1, <1>2, <1>3, Steps DEF StartCall, Answered, CallLost, Denied, DeniedAgain,
     Disabled, RefreshRejected, RefreshLost, RefreshGranted, RefreshRefused, Save,
     Publish, Delete, Clear, StartLogin, LoginFails, LoginServed, StartLogout,
     LogoutServed, LogoutFails, Restart, EndElsewhere, AccessExpires, vars

LEMMA LiveStays ==
  ASSUME TypeOK, PcInv, StrayInv, [Next]_vars, NEW p \in Versions, Live(p)
  PROVE  \/ Live(p)'
         \/ /\ RefreshServed
            /\ pc["refresh"] = "sent" /\ pc'["refresh"] = "granted"
            /\ UNCHANGED <<held, stored>> /\ tok'["refresh"] = tok["refresh"]
            /\ tok["refresh"].s = p.s
<1>1. p.s \in Sessions
  BY DEF Versions
<1> QED
  BY <1>1, CurMoves, CrossedStays DEF Live

(* How a granted refresh goes on.                                          *)
LEMMA GrantedMoves ==
  ASSUME TypeOK, PcInv, [Next]_vars, pc["refresh"] \in {"granted", "write", "publish"}
  PROVE  \/ pc'["refresh"] = pc["refresh"] /\ tok'["refresh"] = tok["refresh"]
         \/ RefreshLost \/ RefreshGranted \/ Save("refresh") \/ Publish("refresh")
         \/ Restart
<1> USE ActorNames DEF app
<1>1. ASSUME NEW c \in Calls,
             \/ StartCall(c) \/ Answered(c) \/ CallLost(c) \/ Denied(c)
             \/ DeniedAgain(c) \/ Disabled(c) \/ Delete(c) \/ Clear(c)
      PROVE  pc'["refresh"] = pc["refresh"] /\ tok'["refresh"] = tok["refresh"]
  BY <1>1 DEF StartCall, Answered, CallLost, Denied, DeniedAgain, Disabled, Delete,
     Clear, Goto, TypeOK
<1>2. ~RefreshServed /\ ~RefreshRejected /\ ~RefreshRefused
  BY DEF RefreshServed, RefreshRejected, RefreshRefused
<1>3. CASE \/ StartLogin \/ LoginFails \/ (\E s \in Sessions : LoginServed(s))
           \/ Save("login") \/ Publish("login")
           \/ StartLogout \/ LogoutServed \/ LogoutFails
           \/ Delete("logout") \/ Clear("logout")
  BY <1>3 DEF StartLogin, LoginFails, LoginServed, Save, Publish, StartLogout,
     LogoutServed, LogoutFails, Delete, Clear, Goto, TypeOK
<1>4. CASE UNCHANGED app
  BY <1>4
<1> QED
  BY <1>1, <1>2, <1>3, <1>4, Steps DEF StrayServed, EndElsewhere, AccessExpires, vars

LEMMA VersionStep ==
  /\ TypeOK /\ TypeOK' /\ PcInv /\ UnopenedInv /\ StrayInv /\ LoginInv /\ HeldInv
  /\ StoredInv /\ RestartKeepsSession /\ VersionInv
  /\ ~crossed /\ [Next]_vars
  => VersionInv'
<1> SUFFICES ASSUME TypeOK, TypeOK', PcInv, UnopenedInv, StrayInv, LoginInv, HeldInv,
                    StoredInv, RestartKeepsSession, VersionInv, ~crossed, [Next]_vars
             PROVE  VersionInv'
  OBVIOUS
<1> USE ActorNames
<1>1. ASSUME held' # None
      PROVE  \/ Live(held)'
             \/ /\ pc'["refresh"] \in {"granted", "write", "publish"}
                /\ tok'["refresh"].s = held'.s
  <2>1. held' \in Versions
    BY <1>1 DEF TypeOK, Versions
  <2>2. ASSUME NEW a \in {"refresh", "login"}, Publish(a), held' = tok[a]
        PROVE  Live(held)'
    <3>1. tok[a] \in Versions /\ Live(tok[a]) /\ ~RefreshServed
      BY <2>1, <2>2 DEF VersionInv, Publish, RefreshServed, Goto, Land, TypeOK
    <3> QED
      BY <2>2, <3>1, LiveStays DEF Live
  <2>3. CASE held' = held /\ ~Restart
    <3>1. held \in Versions
      BY <2>1, <2>3
    <3>2. CASE Live(held)
      <4>1. CASE Live(held)'
        BY <4>1
      <4>2. CASE ~Live(held)'
        BY <2>3, <3>1, <3>2, <4>2, LiveStays DEF Live
      <4> QED
        BY <4>1, <4>2
    <3>3. CASE /\ pc["refresh"] \in {"granted", "write", "publish"}
               /\ tok["refresh"].s = held.s
      <4>1. tok["refresh"] \in Versions
        BY <3>3 DEF TypeOK, Versions
      <4>2. ~RefreshServed
        BY <3>3 DEF RefreshServed
      <4>3. CASE RefreshLost
        BY <2>3, <3>3, <4>3 DEF RefreshLost, Live
      <4>4. CASE RefreshGranted
        <5>1. held = tok["refresh"]
          BY <1>1, <2>3, <3>3, <4>4 DEF RefreshGranted, HeldInv
        <5>2. tok'["refresh"] = [tok["refresh"] EXCEPT !.v = @ + 1]
              /\ pc'["refresh"] = "write"
          BY <4>4, <5>1 DEF RefreshGranted, Goto, TypeOK
        <5> QED
          BY <2>3, <4>1, <5>1, <5>2 DEF Versions
      <4>5. CASE Save("refresh")
        BY <2>3, <3>3, <4>5 DEF Save, Goto, TypeOK
      <4>6. CASE Publish("refresh")
        BY <2>2, <4>6 DEF Publish
      <4> QED
        BY <2>3, <3>3, <4>3, <4>4, <4>5, <4>6, GrantedMoves
    <3> QED
      BY <1>1, <2>3, <3>2, <3>3 DEF VersionInv
  <2>4. CASE Restart /\ held' = stored
    <3>1. cur' = cur /\ unanswered \subseteq unanswered'
      BY <2>4, CrossedStays DEF Restart, server
    <3>2. ASSUME NEW a \in Actors, pc[a] = "publish" PROVE Live(held)'
      <4>1. a \in {"refresh", "login"} /\ held' = tok[a]
        BY <2>4, <3>2 DEF PcInv, StoredInv
      <4> QED
        BY <3>1, <3>2, <4>1 DEF VersionInv, Live
    <3>3. ASSUME NEW a \in Actors, pc[a] = "clear" PROVE FALSE
      BY <1>1, <2>4, <3>3 DEF StoredInv
    <3>4. CASE \A a \in Actors : pc[a] \notin {"publish", "clear"}
      <4>1. held' = held
        BY <2>4, <3>4 DEF RestartKeepsSession
      <4>2. CASE Live(held)
        BY <3>1, <4>1, <4>2 DEF Live
      <4>3. CASE pc["refresh"] \in {"granted", "write"} /\ tok["refresh"].s = held.s
        BY <2>4, <4>1, <4>3 DEF Restart, Live
      <4> QED
        BY <1>1, <3>4, <4>1, <4>2, <4>3 DEF VersionInv
    <3> QED
      BY <3>2, <3>3, <3>4
  <2>5. Restart => held' = stored
    BY DEF Restart
  <2> QED
    BY <1>1, <2>2, <2>3, <2>4, <2>5, HeldStays
<1>2. ASSUME pc'["refresh"] \in {"sent", "write", "publish"}
      PROVE  Live(tok["refresh"])'
  <2>1. tok'["refresh"] \in Versions /\ tok'["refresh"] # None /\ ~Restart
    BY <1>2 DEF Restart, TypeOK, Versions
  <2>2. CASE tok["refresh"] = None
    <3>1. tok'["refresh"] = held /\ held # None /\ pc["refresh"] = "idle"
          /\ UNCHANGED <<server, past>>
      BY <2>1, <2>2, RefreshStays DEF TypeOK, PcInv
    <3>2. Live(held)
      BY <3>1 DEF VersionInv
    <3> QED
      BY <3>1, <3>2 DEF Live, server, past
  <2>3. CASE tok["refresh"] # None /\ tok'["refresh"] = tok["refresh"] /\ ~RefreshGranted
    <3>1. Live(tok["refresh"])
      BY <1>2, <2>3, RefreshMoves DEF VersionInv, TypeOK
    <3> QED
      BY <1>2, <2>1, <2>3, <3>1, LiveStays DEF Live
  <2>4. CASE RefreshGranted
    <3>1. tok["refresh"] \in Versions /\ pc["refresh"] = "granted" /\ cur' = cur
      BY <2>4 DEF RefreshGranted, TypeOK, Versions, server
    <3>2. tok'["refresh"] = [tok["refresh"] EXCEPT !.v = @ + 1]
      BY <1>2, <3>1, RefreshMoves
    <3>3. /\ tok'["refresh"].s = tok["refresh"].s
          /\ tok'["refresh"].v = tok["refresh"].v + 1
      BY <3>1, <3>2 DEF Versions
    <3> QED
      BY <3>1, <3>3, CrossedStays DEF VersionInv, Live
  <2> QED
    BY <2>1, <2>2, <2>3, <2>4, RefreshStays
<1>3. ASSUME pc'["refresh"] = "granted"
      PROVE  \/ tok'["refresh"].s \in unanswered'
             \/ tok'["refresh"].v + 1 = cur'[tok'["refresh"].s]
  <2>1. CASE pc["refresh"] = "granted"
    <3>1. tok["refresh"].s \in Sessions /\ ~RefreshServed /\ ~RefreshGranted
      BY <1>3, <2>1 DEF RefreshServed, RefreshGranted, Goto, Land, TypeOK
    <3>2. tok'["refresh"] = tok["refresh"]
      BY <1>3, <2>1, <3>1, RefreshStays DEF TypeOK
    <3> QED
      BY <2>1, <3>1, <3>2, CurMoves, CrossedStays DEF VersionInv
  <2>2. CASE RefreshServed /\ cur' # cur
    BY <2>2 DEF RefreshServed, Rotate, Goto, TypeOK
  <2> QED
    BY <1>3, <2>1, <2>2, RefreshMoves
<1>4. ASSUME pc'["login"] \in {"write", "publish"} PROVE Live(tok["login"])'
  <2>1. CASE pc["login"] \in {"write", "publish"} /\ tok'["login"] = tok["login"]
    <3>1. tok["login"] \in Versions /\ Live(tok["login"])
      BY <2>1 DEF VersionInv, TypeOK, Versions
    <3>2. pc["refresh"] = "sent" => tok["refresh"].s # tok["login"].s
      BY <2>1 DEF LoginInv, TypeOK
    <3> QED
      BY <2>1, <3>1, <3>2, LiveStays DEF Live
  <2>2. ASSUME NEW s \in Sessions, LoginServed(s), tok'["login"] = [s |-> s, v |-> 0]
        PROVE  Live(tok["login"])'
    BY <2>2 DEF LoginServed, UnopenedInv, Live
  <2> QED
    BY <1>4, <2>1, <2>2, LoginStays
<1> QED
  BY <1>1, <1>2, <1>3, <1>4 DEF VersionInv

(* Reuse detection fires only on a version that is not live.               *)
LEMMA SpentStep ==
  /\ TypeOK /\ PcInv /\ StrayInv /\ SpentOnlyAfterLoss /\ (crossed \/ VersionInv)
  /\ [Next]_vars
  => SpentOnlyAfterLoss'
<1> SUFFICES ASSUME TypeOK, PcInv, StrayInv, SpentOnlyAfterLoss, crossed \/ VersionInv,
                    [Next]_vars, NEW s \in Sessions, srv'[s] = "burned",
                    s \notin unanswered', ~crossed'
             PROVE  FALSE
  BY DEF SpentOnlyAfterLoss
<1> USE ActorNames DEF server
<1>1. s \notin unanswered /\ ~crossed /\ VersionInv /\ srv[s] # "burned"
  BY CrossedStays DEF SpentOnlyAfterLoss
<1>2. CASE RefreshServed
  <2>1. tok["refresh"] \in Versions /\ Live(tok["refresh"])
    BY <1>1, <1>2 DEF RefreshServed, VersionInv, TypeOK, Versions
  <2> QED
    BY <1>1, <1>2, <2>1 DEF RefreshServed, Rotate, Live, TypeOK, Versions
<1>3. ASSUME NEW p \in stray, StrayServed(p) PROVE FALSE
  <2>1. p.s \in unanswered
    BY DEF StrayInv
  <2> QED
    BY <1>1, <1>3, <2>1 DEF StrayServed, Rotate, TypeOK
<1>4. ASSUME NEW t \in Sessions, LoginServed(t) \/ EndElsewhere(t) \/ AccessExpires(t)
      PROVE  FALSE
  BY <1>1, <1>4 DEF LoginServed, EndElsewhere, AccessExpires, TypeOK
<1>5. CASE LogoutServed
  BY <1>1, <1>5 DEF LogoutServed, TypeOK
<1>6. CASE UNCHANGED srv
  BY <1>1, <1>6
<1> QED
  BY <1>2, <1>3, <1>4, <1>5, <1>6, Steps DEF StartCall, Answered, CallLost, Denied,
     DeniedAgain, Disabled, RefreshRejected, RefreshLost, RefreshGranted,
     RefreshRefused, Save, Publish, Delete, Clear, StartLogin, LoginFails,
     StartLogout, LogoutFails, Restart, vars

-----------------------------------------------------------------------------
LEMMA Start == Init => IInv
<1> SUFFICES ASSUME Init PROVE IInv
  OBVIOUS
<1> USE ActorNames DEF Init
<1>1. TypeOK
  BY DEF TypeOK
<1>2. PcInv /\ UnopenedInv /\ StrayInv /\ LoginInv /\ HeldInv
  BY DEF PcInv, UnopenedInv, StrayInv, LoginInv, HeldInv
<1>3. StoredInv /\ RestartKeepsSession /\ VersionInv
  BY DEF StoredInv, RestartKeepsSession, VersionInv
<1>4. SpentOnlyAfterLoss
  BY DEF SpentOnlyAfterLoss
<1> QED
  BY <1>1, <1>2, <1>3, <1>4 DEF IInv

LEMMA Invariance == Spec => []IInv
<1>1. IInv /\ [Next]_vars => IInv'
  <2> SUFFICES ASSUME IInv, [Next]_vars PROVE IInv'
    OBVIOUS
  <2>1. TypeOK' /\ PcInv' /\ UnopenedInv' /\ StrayInv'
    BY TypeStep, PcStep, UnopenedStep, StrayStep DEF IInv
  <2>2. LoginInv' /\ HeldInv'
    BY <2>1, LoginInvStep, HeldStep DEF IInv
  <2>3. ~crossed' => StoredInv' /\ RestartKeepsSession' /\ VersionInv'
    BY <2>1, CrossedStays, StoredStep, KeepsStep, VersionStep DEF IInv
  <2>4. SpentOnlyAfterLoss'
    BY SpentStep DEF IInv
  <2> QED
    BY <2>1, <2>2, <2>3, <2>4 DEF IInv
<1> QED
  BY Start, <1>1, PTL DEF Spec

(* Memory, keystore, server and requests keep their types, whatever is     *)
(* lost, refused, or interrupted by a restart.                             *)
THEOREM TypeCorrect == Spec => []TypeOK
<1>1. IInv => TypeOK
  BY DEF IInv
<1> QED
  BY Invariance, <1>1, PTL

(* The one refresh that refused calls share presents a live token, unless  *)
(* an answer was lost or keystore operations crossed (single_flight.dart,  *)
(* api_client.dart:126).                                                   *)
THEOREM SpentNeedsLoss == Spec => []SpentOnlyAfterLoss
<1>1. IInv => SpentOnlyAfterLoss
  BY DEF IInv
<1> QED
  BY Invariance, <1>1, PTL

(* The app restarts with the session it held, unless keystore operations   *)
(* crossed (api_client.dart:137).                                          *)
THEOREM RestartRestores == Spec => []RestartKeepsSession
<1>1. IInv => RestartKeepsSession
  BY DEF IInv, RestartKeepsSession
<1> QED
  BY Invariance, <1>1, PTL
=============================================================================
