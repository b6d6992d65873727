---------------------------- MODULE OfficeProofs ----------------------------
(***************************************************************************)
(* The services run only in the program, and are proved in it, each from   *)
(* an invariant of its own variables: XInv is the invariant of service X,  *)
(* XInit and XNext that it starts and stays, XStill that it says nothing   *)
(* of other variables, XApart that the other services leave them alone.    *)
(* A service proved from its own specification is implemented by the       *)
(* program: a step of the program is one of the service or leaves its      *)
(* variables as they are.  The takings and the days, and the types of all  *)
(* services together, are in LedgerProofs, which extends this module.      *)
(***************************************************************************)
EXTENDS Office, TLAPS, FiniteSetTheorems, Sums

\* The program implements the devices at the router.
LEMMA RouterImplemented == Spec => Router!Spec
<1>1. Init => Router!Init
  BY DEF Init
<1>2. [Next]_vars => [Router!Next]_(Router!vars)
  <2> SUFFICES ASSUME [Next]_vars PROVE [Router!Next]_(Router!vars)
    OBVIOUS
  <2>1. CASE RouterStep
    BY <2>1 DEF RouterStep
  <2>2. CASE ~RouterStep
    <3>1. UNCHANGED routerVars
      BY <2>2 DEF Next, vars, services, RoomStep, BookStep, SchoolStep, PlanStep, DoorStep, TillStep, SiteStep, PeopleStep, EntryStep, LedgerStep, CallStep, DayStep
    <3> QED  BY <3>1 DEF routerVars, Router!vars
  <2> QED  BY <2>1, <2>2
<1> QED  BY <1>1, <1>2, PTL DEF Spec, Router!Spec

\* The program implements the contacts.
LEMMA BookImplemented == Spec => Book!Spec
<1>1. Init => Book!Init
  BY DEF Init
<1>2. [Next]_vars => [Book!Next]_(Book!vars)
  <2> SUFFICES ASSUME [Next]_vars PROVE [Book!Next]_(Book!vars)
    OBVIOUS
  <2>1. CASE BookStep
    BY <2>1 DEF BookStep
  <2>2. CASE ~BookStep
    <3>1. UNCHANGED bookVars
      BY <2>2 DEF Next, vars, services, RoomStep, SchoolStep, PlanStep, DoorStep, TillStep, SiteStep, RouterStep, PeopleStep, EntryStep, LedgerStep, CallStep, DayStep
    <3> QED  BY <3>1 DEF bookVars, Book!vars
  <2> QED  BY <2>1, <2>2
<1> QED  BY <1>1, <1>2, PTL DEF Spec, Book!Spec

-----------------------------------------------------------------------------
(* The devices at the router.                                              *)

\* The router's account of the guests and the absence of a user are no phones.
RouterNames == Guest \notin Phone /\ NoPhone \notin Phone

\* A cut whose entries have not gone by themselves still has to remove every device that
\* was online when it listed them; the others came in since.
CutsGoOn ==
    \A r \in Clerk : req[r].pc = "remove" /\ ~req[r].gone =>
       \A m \in Mac \ slipped : online[m] = req[r].phone => m \in req[r].devices

\* The part of Router!TypeOK the steps need.
RouterTypes ==
    /\ known \in [Mac -> Phone \cup {NoPhone}]
    /\ online \in [Mac -> Phone \cup {Guest, NoPhone}]
    /\ req \in [Clerk -> Router!Req]
    /\ near \subseteq Mac
    /\ \A r \in Clerk : req[r].pc = "remove" => req[r].phone \in Phone

RouterInv == RouterTypes /\ CutsGoOn /\ Router!CutIsComplete /\ Router!OnlineIsKnown

-----------------------------------------------------------------------------
(* The records of the requests.                                            *)

\* Losing an entry changes nothing else of a request.
LEMMA RouterGoneFacts ==
    ASSUME NEW q \in Router!Req
    PROVE  LET g == [q EXCEPT !.gone = TRUE]
           IN  /\ g \in Router!Req
               /\ g.pc = q.pc /\ g.phone = q.phone /\ g.mac = q.mac
               /\ g.devices = q.devices /\ g.gone
BY DEF Router!Req

\* Taking a device off the list of a request changes nothing else of it.
LEMMA RouterLessFacts ==
    ASSUME NEW q \in Router!Req, NEW m
    PROVE  LET l == [q EXCEPT !.devices = @ \ {m}]
           IN  /\ l \in Router!Req
               /\ l.pc = q.pc /\ l.phone = q.phone /\ l.mac = q.mac
               /\ l.devices = q.devices \ {m} /\ l.gone = q.gone
BY DEF Router!Req

\* Moving on within a login changes nothing else of it.
LEMMA RouterNextFacts ==
    ASSUME NEW q \in Router!Req, NEW pc \in {"save", "list"}
    PROVE  LET n == [q EXCEPT !.pc = pc]
           IN  /\ n \in Router!Req
               /\ n.pc = pc /\ n.phone = q.phone /\ n.mac = q.mac
BY DEF Router!Req

LEMMA RouterIdleFacts == Router!Idle \in Router!Req /\ Router!Idle.pc = "idle"
BY DEF Router!Idle, Router!Req

-----------------------------------------------------------------------------
(* The two shapes of a step.                                               *)

\* A request goes on without touching the router: the cuts are where they were.
LEMMA RouterQuietStep ==
    ASSUME RouterTypes, CutsGoOn, NEW r \in Clerk, NEW next \in Router!Req,
           req' = [req EXCEPT ![r] = next], online' = online, slipped' = slipped,
           next.pc = "remove" /\ ~next.gone =>
              \A m \in Mac \ slipped : online[m] = next.phone => m \in next.devices
    PROVE  /\ req' \in [Clerk -> Router!Req] /\ req'[r] = next
           /\ \A s \in Clerk \ {r} : req'[s] = req[s]
           /\ CutsGoOn'
<1>1. \A s \in Clerk : req'[s] = IF s = r THEN next ELSE req[s]
  BY DEF RouterTypes
<1>2. req' \in [Clerk -> Router!Req]
  BY DEF RouterTypes
<1> QED  BY <1>1, <1>2 DEF CutsGoOn

\* The entry of m becomes one of u: the types stay, and the cuts that had listed m are
\* spoilt, those of u find m among the slipped.
LEMMA RouterBecomesStep ==
    ASSUME RouterTypes, CutsGoOn, NEW r, NEW m \in Mac, NEW u \in Phone \cup {Guest, NoPhone},
           NEW next \in Router!Req, Router!Becomes(r, m, u, next),
           \A s \in Clerk : req[s].pc = "remove" /\ req[s].phone = NoPhone => FALSE,
           r \in Clerk /\ next.pc = "remove" =>
              /\ u = NoPhone /\ next.phone # NoPhone
              /\ req[r].pc = "remove" /\ req[r].phone = next.phone
              /\ next.gone = req[r].gone /\ next.devices = req[r].devices \ {m}
    PROVE  /\ online' \in [Mac -> Phone \cup {Guest, NoPhone}]
           /\ online'[m] = u
           /\ \A n \in Mac \ {m} : online'[n] = online[n]
           /\ \A n \in Mac \ {m} : n \in slipped' <=> n \in slipped
           /\ req' \in [Clerk -> Router!Req]
           /\ \A s \in Clerk : s = r => req'[s] = next
           /\ \A s \in Clerk : s # r => req'[s].pc = req[s].pc /\ req'[s].mac = req[s].mac
                                          /\ req'[s].phone = req[s].phone
           /\ CutsGoOn'
<1>1. /\ online' \in [Mac -> Phone \cup {Guest, NoPhone}]
      /\ online'[m] = u
      /\ \A n \in Mac \ {m} : online'[n] = online[n]
  BY DEF RouterTypes, Router!Becomes
<1>2. \A n \in Mac \ {m} : n \in slipped' <=> n \in slipped
  BY DEF Router!Becomes
<1>3. (\E s \in Clerk : req[s].pc = "remove" /\ req[s].phone = u) => m \in slipped'
  BY DEF Router!Becomes
<1>4. ASSUME NEW s \in Clerk
      PROVE  /\ req'[s] \in Router!Req
             /\ s = r => req'[s] = next
             /\ s # r => /\ req'[s].pc = req[s].pc /\ req'[s].phone = req[s].phone
                         /\ req'[s].mac = req[s].mac /\ req'[s].devices = req[s].devices
                         /\ ~req'[s].gone => ~req[s].gone
  <2>1. req[s] \in Router!Req
    BY DEF RouterTypes
  <2>2. req'[s] = IF s = r THEN next
                  ELSE IF req[s].pc = "remove" /\ m \in req[s].devices
                       THEN [req[s] EXCEPT !.gone = TRUE] ELSE req[s]
    BY DEF Router!Becomes
  <2> QED  BY <2>1, <2>2, RouterGoneFacts
<1>5. req' \in [Clerk -> Router!Req]
  <2>1. req' = [s \in Clerk |-> req'[s]]
    BY DEF Router!Becomes
  <2> QED  BY <2>1, <1>4
<1>6. CutsGoOn'
  <2>1. ASSUME NEW s \in Clerk, req'[s].pc = "remove", ~req'[s].gone,
               NEW n \in Mac, n \notin slipped', online'[n] = req'[s].phone
        PROVE  n \in req'[s].devices
    <3>1. CASE s = r
      <4>1. n # m
        BY <2>1, <3>1, <1>1, <1>4
      <4> QED  BY <2>1, <3>1, <4>1, <1>1, <1>2, <1>4 DEF CutsGoOn
    <3>2. CASE s # r
      <4>1. CASE n = m
        BY <2>1, <3>2, <4>1, <1>1, <1>3, <1>4
      <4>2. CASE n # m
        BY <2>1, <3>2, <4>2, <1>1, <1>2, <1>4 DEF CutsGoOn
      <4> QED  BY <4>1, <4>2
    <3> QED  BY <3>1, <3>2
  <2> QED  BY <2>1 DEF CutsGoOn
<1> QED  BY <1>1, <1>2, <1>4, <1>5, <1>6

-----------------------------------------------------------------------------
(* The logins.                                                             *)

LEMMA RouterEnsureStep ==
    ASSUME RouterInv, NEW r \in Clerk, NEW p \in Phone, NEW m \in Mac, Router!Ensure(r, p, m)
    PROVE  RouterInv'
<1> DEFINE next == [Router!Idle EXCEPT !.pc = "find", !.phone = p, !.mac = m]
<1>1. next \in Router!Req /\ next.pc = "find"
  BY RouterIdleFacts DEF Router!Req
<1>2. req' = [req EXCEPT ![r] = next] /\ UNCHANGED <<near, known, online, slipped, odd>>
  BY DEF Router!Ensure
<1> HIDE DEF next
<1>3. req'[r] = next /\ (\A s \in Clerk \ {r} : req'[s] = req[s]) /\ CutsGoOn'
      /\ req' \in [Clerk -> Router!Req]
  BY <1>1, <1>2, RouterQuietStep DEF RouterInv
<1>4. RouterTypes'
  BY <1>1, <1>2, <1>3 DEF RouterInv, RouterTypes
<1>5. Router!CutIsComplete'
  BY <1>2 DEF RouterInv, Router!CutIsComplete, Router!Ensure
<1>6. Router!OnlineIsKnown'
  BY <1>1, <1>2, <1>3 DEF RouterInv, Router!OnlineIsKnown, Router!Ensure, Router!Idle
<1> QED  BY <1>3, <1>4, <1>5, <1>6 DEF RouterInv

LEMMA RouterProvisionStep ==
    ASSUME RouterInv, NEW p \in Phone, Router!Provision(p)
    PROVE  RouterInv'
<1> USE DEF Router!Provision
<1>1. RouterTypes' /\ CutsGoOn' /\ Router!OnlineIsKnown'
  BY DEF RouterInv, RouterTypes, CutsGoOn, Router!OnlineIsKnown
<1>2. Router!CutIsComplete'
  BY DEF RouterInv, Router!CutIsComplete
<1> QED  BY <1>1, <1>2 DEF RouterInv

\* A login, whether or not its answer comes back.
LEMMA RouterLogInStep ==
    ASSUME RouterInv, RouterNames, NEW r \in Clerk, Router!LogIn(r)
    PROVE  RouterInv'
<1> DEFINE m == req[r].mac
           p == req[r].phone
           save == [req[r] EXCEPT !.pc = "save"]
<1>1. req[r].pc = "find" /\ m \in Mac /\ p \in Phone \cup {NoPhone} /\ p \in enabled
      /\ req[r] \in Router!Req
  BY DEF Router!LogIn, RouterInv, RouterTypes, Router!Req
<1>2. save \in Router!Req /\ save.pc = "save" /\ save.mac = m /\ save.phone = p
  BY <1>1, RouterNextFacts
<1>3. PICK next \in {save, Router!Idle} :
         /\ Router!Becomes(r, m, p, next)
         /\ next = Router!Idle => m \in odd'
         /\ odd \subseteq odd' /\ odd' \subseteq odd \cup {m}
         /\ UNCHANGED <<near, known, enabled>>
  <2>1. save # Router!Idle
    BY <1>2, RouterIdleFacts
  <2>2. CASE Router!Becomes(r, m, p, save) /\ UNCHANGED odd
    BY <2>1, <2>2 DEF Router!LogIn
  <2>3. CASE Router!Becomes(r, m, p, Router!Idle) /\ odd' = odd \cup {m}
    BY <2>3 DEF Router!LogIn
  <2> QED  BY <2>2, <2>3 DEF Router!LogIn
<1> HIDE DEF save
<1>4. next \in Router!Req /\ next.pc # "remove"
  BY <1>2, RouterIdleFacts
<1>5. \A s \in Clerk : req[s].pc = "remove" /\ req[s].phone = NoPhone => FALSE
  BY DEF RouterInv, RouterTypes, RouterNames
<1>6. /\ online' \in [Mac -> Phone \cup {Guest, NoPhone}]
      /\ online'[m] = p
      /\ \A n \in Mac \ {m} : online'[n] = online[n]
      /\ \A n \in Mac \ {m} : n \in slipped' <=> n \in slipped
      /\ req' \in [Clerk -> Router!Req]
      /\ \A s \in Clerk : s = r => req'[s] = next
      /\ \A s \in Clerk : s # r => req'[s].pc = req[s].pc /\ req'[s].mac = req[s].mac
                                     /\ req'[s].phone = req[s].phone
      /\ CutsGoOn'
  <2> HIDE DEF m, p
  <2> QED  BY <1>1, <1>3, <1>4, <1>5, RouterBecomesStep DEF RouterInv
<1>7. RouterTypes'
  BY <1>3, <1>4, <1>6 DEF RouterInv, RouterTypes
<1>8. Router!CutIsComplete'
  BY <1>1, <1>3, <1>6 DEF RouterInv, Router!CutIsComplete
<1>9. Router!OnlineIsKnown'
  <2>1. ASSUME NEW n \in Mac, n \notin odd', online'[n] \in Phone, known'[n] # online'[n]
        PROVE  \E s \in Clerk : req'[s].pc = "save" /\ req'[s].mac = n
    <3>1. CASE n = m
      BY <2>1, <3>1, <1>2, <1>3, <1>6
    <3>2. CASE n # m
      <4>1. PICK s \in Clerk : req[s].pc = "save" /\ req[s].mac = n
        BY <2>1, <3>2, <1>3, <1>6 DEF RouterInv, Router!OnlineIsKnown
      <4> QED  BY <4>1, <1>1, <1>6
    <3> QED  BY <3>1, <3>2
  <2> QED  BY <2>1 DEF Router!OnlineIsKnown
<1> QED  BY <1>6, <1>7, <1>8, <1>9 DEF RouterInv

LEMMA RouterSaveStep ==
    ASSUME RouterInv, NEW r \in Clerk, Router!Save(r)
    PROVE  RouterInv'
<1> DEFINE m == req[r].mac
           next == [req[r] EXCEPT !.pc = "list"]
<1>1. req[r] \in Router!Req /\ req[r].pc = "save" /\ req[r].phone \in Phone \cup {NoPhone}
  BY DEF Router!Save, RouterInv, RouterTypes, Router!Req
<1>2. next \in Router!Req /\ next.pc = "list"
  BY <1>1, RouterNextFacts
<1>3. req' = [req EXCEPT ![r] = next] /\ UNCHANGED <<near, enabled, online, slipped>>
      /\ known' = [known EXCEPT ![m] = req[r].phone]
      /\ odd' = IF online[m] = req[r].phone THEN odd \ {m} ELSE odd \cup {m}
  BY <1>1 DEF Router!Save, Router!Goto, RouterInv, RouterTypes
<1> HIDE DEF next
<1>4. req'[r] = next /\ (\A s \in Clerk \ {r} : req'[s] = req[s]) /\ CutsGoOn'
      /\ req' \in [Clerk -> Router!Req]
  BY <1>2, <1>3, RouterQuietStep DEF RouterInv
<1>5. /\ known' \in [Mac -> Phone \cup {NoPhone}]
      /\ m \in Mac => known'[m] = req[r].phone
      /\ \A n \in Mac : n # m => known'[n] = known[n]
  BY <1>1, <1>3 DEF RouterInv, RouterTypes
<1>6. RouterTypes'
  BY <1>2, <1>3, <1>4, <1>5 DEF RouterInv, RouterTypes
<1>7. Router!CutIsComplete'
  BY <1>3 DEF RouterInv, Router!CutIsComplete
<1>8. Router!OnlineIsKnown'
  <2>1. ASSUME NEW n \in Mac, n \notin odd', online'[n] \in Phone, known'[n] # online'[n]
        PROVE  \E s \in Clerk : req'[s].pc = "save" /\ req'[s].mac = n
    <3>1. n # m
      BY <2>1, <1>3, <1>5
    <3>2. PICK s \in Clerk : req[s].pc = "save" /\ req[s].mac = n
      BY <2>1, <3>1, <1>3, <1>5 DEF RouterInv, Router!OnlineIsKnown
    <3> QED  BY <3>1, <3>2, <1>4
  <2> QED  BY <2>1 DEF Router!OnlineIsKnown
<1> QED  BY <1>4, <1>6, <1>7, <1>8 DEF RouterInv

\* A request that neither saves nor cuts, before or after, and no change elsewhere.
LEMMA RouterIdleStep ==
    ASSUME RouterInv, NEW r \in Clerk, NEW next \in Router!Req,
           req' = [req EXCEPT ![r] = next], next.pc # "remove",
           req[r].pc = "save" => req[r].mac \in odd',
           odd \subseteq odd',
           UNCHANGED <<near, known, enabled, online, slipped>>
    PROVE  RouterInv'
<1>1. /\ req' \in [Clerk -> Router!Req] /\ req'[r] = next
      /\ \A s \in Clerk \ {r} : req'[s] = req[s]
      /\ CutsGoOn'
  BY RouterQuietStep DEF RouterInv
<1>2. RouterTypes'
  BY <1>1 DEF RouterInv, RouterTypes
<1>3. Router!CutIsComplete'
  BY DEF RouterInv, Router!CutIsComplete
<1>4. Router!OnlineIsKnown'
  <2>1. ASSUME NEW n \in Mac, n \notin odd', online'[n] \in Phone, known'[n] # online'[n]
        PROVE  \E s \in Clerk : req'[s].pc = "save" /\ req'[s].mac = n
    <3>1. PICK s \in Clerk : req[s].pc = "save" /\ req[s].mac = n
      BY <2>1 DEF RouterInv, Router!OnlineIsKnown
    <3>2. s # r
      BY <2>1, <3>1
    <3> QED  BY <3>1, <3>2, <1>1
  <2> QED  BY <2>1 DEF Router!OnlineIsKnown
<1> QED  BY <1>1, <1>2, <1>3, <1>4 DEF RouterInv

LEMMA RouterListStep ==
    ASSUME RouterInv, NEW r \in Clerk, Router!List(r)
    PROVE  RouterInv'
<1>1. PICK peers \in SUBSET Mac :
         req' = [req EXCEPT ![r] = [@ EXCEPT !.pc = "peers", !.devices = peers]]
  BY DEF Router!List
<1> DEFINE next == [req[r] EXCEPT !.pc = "peers", !.devices = peers]
<1>2. req[r] \in Router!Req /\ req[r].pc = "list"
  BY DEF Router!List, RouterInv, RouterTypes
<1>3. next \in Router!Req /\ next.pc = "peers"
  BY <1>2 DEF Router!Req
<1>4. req' = [req EXCEPT ![r] = next]
  BY <1>1 DEF RouterInv, RouterTypes
<1> HIDE DEF next
<1> QED  BY <1>2, <1>3, <1>4, RouterIdleStep DEF Router!List

LEMMA RouterPeerSkippedStep ==
    ASSUME RouterInv, NEW r \in Clerk, NEW m \in Mac, Router!PeerSkipped(r, m)
    PROVE  RouterInv'
<1> DEFINE next == [req[r] EXCEPT !.devices = @ \ {m}]
<1>1. req[r] \in Router!Req /\ req[r].pc = "peers"
  BY DEF Router!PeerSkipped, RouterInv, RouterTypes
<1>2. next \in Router!Req /\ next.pc = "peers"
  BY <1>1, RouterLessFacts
<1>3. req' = [req EXCEPT ![r] = next]
  BY DEF Router!PeerSkipped, RouterInv, RouterTypes
<1> HIDE DEF next
<1> QED  BY <1>1, <1>2, <1>3, RouterIdleStep DEF Router!PeerSkipped

LEMMA RouterDoneStep ==
    ASSUME RouterInv, NEW r \in Clerk, Router!Done(r)
    PROVE  RouterInv'
BY RouterIdleFacts, RouterIdleStep DEF Router!Done

LEMMA RouterAbortStep ==
    ASSUME RouterInv, NEW r \in Clerk, Router!Abort(r)
    PROVE  RouterInv'
BY RouterIdleFacts, RouterIdleStep DEF Router!Abort

\* The router's entries change at m only, to nobody, to the guests, or to a phone the
\* device is saved for or that the step notes as odd: by no saving request.
LEMMA RouterEntryStep ==
    ASSUME RouterInv, RouterNames, NEW r, NEW m \in Mac, NEW u \in Phone \cup {Guest, NoPhone},
           NEW next \in Router!Req, Router!Becomes(r, m, u, next),
           r \in Clerk => req[r].pc \notin {"find", "save"},
           r \in Clerk /\ next.pc = "remove" =>
              /\ u = NoPhone
              /\ req[r].pc = "remove" /\ req[r].phone = next.phone
              /\ next.gone = req[r].gone /\ next.devices = req[r].devices \ {m},
           u \in Phone => u \in enabled /\ (known[m] = u \/ m \in odd'),
           \A n \in Mac \ {m} : n \in odd => n \in odd',
           near' \subseteq Mac,
           UNCHANGED <<known, enabled>>
    PROVE  RouterInv'
<1>1. \A s \in Clerk : req[s].pc = "remove" /\ req[s].phone = NoPhone => FALSE
  BY DEF RouterInv, RouterTypes, RouterNames
<1>2. r \in Clerk /\ next.pc = "remove" => next.phone \in Phone /\ next.phone # NoPhone
  BY DEF RouterInv, RouterTypes, RouterNames
<1>3. /\ online' \in [Mac -> Phone \cup {Guest, NoPhone}]
      /\ online'[m] = u
      /\ \A n \in Mac \ {m} : online'[n] = online[n]
      /\ \A n \in Mac \ {m} : n \in slipped' <=> n \in slipped
      /\ req' \in [Clerk -> Router!Req]
      /\ \A s \in Clerk : s = r => req'[s] = next
      /\ \A s \in Clerk : s # r => req'[s].pc = req[s].pc /\ req'[s].mac = req[s].mac
                                     /\ req'[s].phone = req[s].phone
      /\ CutsGoOn'
  BY <1>1, <1>2, RouterBecomesStep DEF RouterInv
<1>4. RouterTypes'
  BY <1>2, <1>3 DEF RouterInv, RouterTypes
<1>5. Router!CutIsComplete'
  BY <1>3 DEF RouterInv, Router!CutIsComplete
<1>6. Router!OnlineIsKnown'
  <2>1. ASSUME NEW n \in Mac, n \notin odd', online'[n] \in Phone, known'[n] # online'[n]
        PROVE  \E s \in Clerk : req'[s].pc = "save" /\ req'[s].mac = n
    <3>1. n # m
      BY <2>1, <1>3
    <3>2. PICK s \in Clerk : req[s].pc = "save" /\ req[s].mac = n
      BY <2>1, <3>1, <1>3 DEF RouterInv, Router!OnlineIsKnown
    <3> QED  BY <3>2, <1>3
  <2> QED  BY <2>1 DEF Router!OnlineIsKnown
<1> QED  BY <1>3, <1>4, <1>5, <1>6 DEF RouterInv

LEMMA RouterPeerInStep ==
    ASSUME RouterInv, RouterNames, NEW r \in Clerk, NEW m \in Mac, Router!PeerIn(r, m)
    PROVE  RouterInv'
<1> DEFINE next == [req[r] EXCEPT !.devices = @ \ {m}]
<1>1. req[r] \in Router!Req /\ req[r].pc = "peers" /\ req[r].phone \in Phone \cup {NoPhone}
  BY DEF Router!PeerIn, RouterInv, RouterTypes, Router!Req
<1>2. next \in Router!Req /\ next.pc = "peers"
  BY <1>1, RouterLessFacts
<1>3. Router!Becomes(r, m, req[r].phone, next)
  BY DEF Router!PeerIn
<1> HIDE DEF next
<1>4. /\ req[r].phone \in Phone => req[r].phone \in enabled
      /\ odd' = IF known[m] = req[r].phone THEN odd \ {m} ELSE odd \cup {m}
      /\ UNCHANGED <<near, known, enabled>>
  BY DEF Router!PeerIn
<1>5. near' \subseteq Mac
  BY <1>4 DEF RouterInv, RouterTypes
<1> QED  BY <1>1, <1>2, <1>3, <1>4, <1>5, RouterEntryStep

-----------------------------------------------------------------------------
(* What others do to the entry of a device.                                *)

\* By nobody's request, an entry becomes one of the guests, or none.
LEMMA RouterOtherStep ==
    ASSUME RouterInv, RouterNames, NEW m \in Mac, NEW u \in {Guest, NoPhone},
           Router!Becomes(NoRequest, m, u, Router!Idle), NoRequest \notin Clerk,
           near' \subseteq Mac, UNCHANGED <<known, enabled, odd>>
    PROVE  RouterInv'
BY RouterIdleFacts, RouterEntryStep DEF RouterNames

LEMMA RouterGuestInStep ==
    ASSUME RouterInv, RouterNames, NoRequest \notin Clerk, NEW m \in Mac, Router!GuestIn(m)
    PROVE  RouterInv'
BY RouterOtherStep DEF Router!GuestIn, RouterInv, RouterTypes

LEMMA RouterLogoutMacStep ==
    ASSUME RouterInv, RouterNames, NoRequest \notin Clerk, NEW m \in Mac, Router!LogoutMac(m)
    PROVE  RouterInv'
BY RouterOtherStep DEF Router!LogoutMac, RouterInv, RouterTypes

LEMMA RouterLeaveStep ==
    ASSUME RouterInv, RouterNames, NoRequest \notin Clerk, NEW m \in Mac, Router!Leave(m)
    PROVE  RouterInv'
BY RouterOtherStep DEF Router!Leave, RouterInv, RouterTypes

LEMMA RouterArriveStep ==
    ASSUME RouterInv, NEW m \in Mac, Router!Arrive(m)
    PROVE  RouterInv'
BY DEF Router!Arrive, RouterInv, RouterTypes, CutsGoOn, Router!CutIsComplete, Router!OnlineIsKnown

-----------------------------------------------------------------------------
(* The cuts.                                                               *)

\* The list holds every device that is online under the phone.
LEMMA RouterCutListStep ==
    ASSUME RouterInv, NEW r \in Clerk, NEW p \in Phone, Router!CutList(r, p)
    PROVE  RouterInv'
<1> DEFINE entries == {m \in Mac : online[m] = p}
           next == [Router!Idle EXCEPT !.pc = "remove", !.phone = p, !.devices = entries]
<1>1. next \in Router!Req /\ next.pc = "remove" /\ next.phone = p /\ next.devices = entries
  BY DEF Router!Req, Router!Idle
<1>2. req' = [req EXCEPT ![r] = next]
      /\ UNCHANGED <<near, known, enabled, online, slipped, odd>>
  BY DEF Router!CutList
<1>3. req[r].pc = "idle"
  BY RouterIdleFacts DEF Router!CutList
<1>4. \A m \in Mac \ slipped : online[m] = next.phone => m \in next.devices
  BY <1>1
<1> HIDE DEF next
<1>5. /\ req' \in [Clerk -> Router!Req] /\ req'[r] = next
      /\ \A s \in Clerk \ {r} : req'[s] = req[s]
      /\ CutsGoOn'
  BY <1>1, <1>2, <1>4, RouterQuietStep DEF RouterInv
<1>6. RouterTypes'
  BY <1>1, <1>2, <1>5 DEF RouterInv, RouterTypes
<1>7. Router!CutIsComplete'
  BY <1>2 DEF RouterInv, Router!CutIsComplete
<1>8. Router!OnlineIsKnown'
  BY <1>2, <1>3, <1>5 DEF RouterInv, Router!OnlineIsKnown
<1> QED  BY <1>5, <1>6, <1>7, <1>8 DEF RouterInv

LEMMA RouterCutRemoveStep ==
    ASSUME RouterInv, RouterNames, NEW r \in Clerk, NEW m \in Mac, Router!CutRemove(r, m)
    PROVE  RouterInv'
<1> DEFINE less == [req[r] EXCEPT !.devices = @ \ {m}]
<1>1. req[r] \in Router!Req /\ req[r].pc = "remove"
  BY DEF Router!CutRemove, RouterInv, RouterTypes
<1>2. /\ less \in Router!Req /\ less.pc = "remove" /\ less.phone = req[r].phone
      /\ less.gone = req[r].gone /\ less.devices = req[r].devices \ {m}
  BY <1>1, RouterLessFacts
<1>3. PICK next \in {less, Router!Idle} : Router!Becomes(r, m, NoPhone, next)
  BY DEF Router!CutRemove
<1> HIDE DEF less
<1>4. near' \subseteq Mac /\ UNCHANGED <<known, enabled, odd>> /\ NoPhone \notin Phone
  BY DEF Router!CutRemove, RouterInv, RouterTypes, RouterNames
<1> QED  BY <1>1, <1>2, <1>3, <1>4, RouterIdleFacts, RouterEntryStep

\* Only here does a user stop being enabled: nothing is left to remove, so whoever is
\* online under it has slipped in.
LEMMA RouterCutDisableStep ==
    ASSUME RouterInv, NEW r \in Clerk, Router!CutDisable(r)
    PROVE  RouterInv'
<1>1. req[r].pc = "remove" /\ ~req[r].gone /\ req[r].devices = {}
  BY DEF Router!CutDisable
<1>2. req' = [req EXCEPT ![r] = Router!Idle] /\ enabled' = enabled \ {req[r].phone}
      /\ UNCHANGED <<near, known, online, slipped, odd>>
  BY DEF Router!CutDisable
<1>3. /\ req' \in [Clerk -> Router!Req] /\ req'[r] = Router!Idle
      /\ \A s \in Clerk \ {r} : req'[s] = req[s]
      /\ CutsGoOn'
  BY <1>2, RouterIdleFacts, RouterQuietStep DEF RouterInv
<1>4. RouterTypes'
  BY <1>2, <1>3, RouterIdleFacts DEF RouterInv, RouterTypes
<1>5. Router!CutIsComplete'
  <2>1. \A m \in Mac \ slipped : online[m] # req[r].phone
    BY <1>1 DEF RouterInv, CutsGoOn
  <2> QED  BY <1>2, <2>1 DEF RouterInv, Router!CutIsComplete
<1>6. Router!OnlineIsKnown'
  BY <1>1, <1>2, <1>3 DEF RouterInv, Router!OnlineIsKnown
<1> QED  BY <1>3, <1>4, <1>5, <1>6 DEF RouterInv

-----------------------------------------------------------------------------
LEMMA RouterInitInv ==
    ASSUME Router!Init, RouterNames
    PROVE  RouterInv
<1>1. RouterTypes
  BY RouterIdleFacts DEF Router!Init, RouterTypes
<1>2. CutsGoOn /\ Router!CutIsComplete /\ Router!OnlineIsKnown
  BY RouterIdleFacts DEF Router!Init, CutsGoOn, Router!CutIsComplete, Router!OnlineIsKnown, RouterNames
<1> QED  BY <1>1, <1>2 DEF RouterInv

LEMMA RouterNextInv ==
    ASSUME RouterInv, RouterNames, NoRequest \notin Clerk, [Router!Next]_(Router!vars)
    PROVE  RouterInv'
<1>1. CASE UNCHANGED Router!vars
  BY <1>1 DEF Router!vars, RouterInv, RouterTypes, CutsGoOn, Router!CutIsComplete, Router!OnlineIsKnown
<1>2. ASSUME NEW r \in Clerk,
             \/ Router!LogIn(r) \/ Router!Save(r) \/ Router!List(r) \/ Router!Done(r)
             \/ Router!CutDisable(r) \/ Router!Abort(r)
      PROVE  RouterInv'
  BY <1>2, RouterLogInStep, RouterSaveStep, RouterListStep, RouterDoneStep, RouterCutDisableStep,
     RouterAbortStep
<1>3. ASSUME NEW r \in Clerk, NEW p \in Phone,
             Router!CutList(r, p) \/ \E m \in Mac : Router!Ensure(r, p, m)
      PROVE  RouterInv'
  BY <1>3, RouterCutListStep, RouterEnsureStep
<1>4. ASSUME NEW r \in Clerk, NEW m \in Mac,
             Router!PeerSkipped(r, m) \/ Router!PeerIn(r, m) \/ Router!CutRemove(r, m)
      PROVE  RouterInv'
  BY <1>4, RouterPeerSkippedStep, RouterPeerInStep, RouterCutRemoveStep
<1>5. ASSUME NEW p \in Phone, Router!Provision(p)
      PROVE  RouterInv'
  BY <1>5, RouterProvisionStep
<1>6. ASSUME NEW m \in Mac, Router!GuestIn(m) \/ Router!LogoutMac(m) \/ Router!Arrive(m) \/ Router!Leave(m)
      PROVE  RouterInv'
  BY <1>6, RouterGuestInStep, RouterLogoutMacStep, RouterArriveStep, RouterLeaveStep
<1> QED  BY <1>1, <1>2, <1>3, <1>4, <1>5, <1>6 DEF Router!Next

LEMMA RouterInvariant ==
    ASSUME RouterNames, NoRequest \notin Clerk
    PROVE  Router!Spec => []RouterInv
<1>1. Router!Init => RouterInv
  BY RouterInitInv
<1>2. RouterInv /\ [Router!Next]_(Router!vars) => RouterInv'
  BY RouterNextInv
<1> QED  BY <1>1, <1>2, PTL DEF Router!Spec

\* A cut that went through leaves no device of the phone online, unless it came in while
\* the cut was under way: endByPhone, logoutUser and setUserDisabled against any number
\* of logins, guests, departures and other cuts.
THEOREM CutsComplete ==
    ASSUME Guest \notin Phone, NoPhone \notin Phone, NoRequest \notin Clerk
    PROVE  Spec => []CutIsComplete
<1>1. RouterNames
  BY DEF RouterNames
<1>2. RouterInv => CutIsComplete
  BY DEF RouterInv, CutIsComplete
<1> QED  BY <1>1, <1>2, RouterInvariant, RouterImplemented, PTL

\* A device is online under the phone it is saved for, up to the exceptions the property
\* names: activeLogin and upsertDevice are two calls, and a list of peers may be old.
THEOREM OnlineKnown ==
    ASSUME Guest \notin Phone, NoPhone \notin Phone, NoRequest \notin Clerk
    PROVE  Spec => []OnlineIsKnown
<1>1. RouterNames
  BY DEF RouterNames
<1>2. RouterInv => OnlineIsKnown
  BY DEF RouterInv, OnlineIsKnown
<1> QED  BY <1>1, <1>2, RouterInvariant, RouterImplemented, PTL

-----------------------------------------------------------------------------
(* The contacts.                                                           *)

\* What a request is about to write is a row, and where, if it knows.
CardReady(r) ==
    /\ r.op \in {"create", "insert"} => r.row \in Book!Row
    /\ r.op = "update" => r.id \in Id

CardsReady == \A c \in Clerk : CardReady(contactClerk[c])

\* The unique index.
OneCardPerPhone ==
    \A i, j \in Id : i # j /\ contact[i] # Book!NoRow /\ contact[j] # Book!NoRow =>
                        contact[i].phone # contact[j].phone

BookInv == Book!TypeOK /\ CardsReady /\ OneCardPerPhone

CardOf(i) == [id |-> i, name |-> contact[i].name, phone |-> contact[i].phone]

LEMMA BookIdle == Book!Idle \in Book!Request /\ Book!Idle.op = "idle" /\ Book!Idle.todo = {}
BY DEF Book!Idle, Book!Request, Book!Fields, Book!Row, Book!NoRow

LEMMA NoCard == ASSUME NoCardPhone \notin CardPhone PROVE Book!NoRow \notin Book!Row
BY DEF Book!NoRow, Book!Row

\* A request goes on: the contacts are as they were.
LEMMA BookGoes ==
    ASSUME BookInv, NEW c \in Clerk, NEW next \in Book!Request, contactClerk' = [contactClerk EXCEPT ![c] = next],
           CardReady(next),
           contact' \in [Id -> Book!Row \cup {Book!NoRow}], OneCardPerPhone'
    PROVE  BookInv'
<1>1. contactClerk' \in [Clerk -> Book!Request] /\ \A d \in Clerk : contactClerk'[d] = IF d = c THEN next ELSE contactClerk[d]
  BY DEF BookInv, Book!TypeOK
<1> QED  BY <1>1 DEF BookInv, Book!TypeOK, CardsReady, CardReady

\* The cards are what they were where no contact changes.
LEMMA SameCards ==
    ASSUME contact' = contact
    PROVE  Book!Cards' = Book!Cards
BY DEF Book!Cards

\* A contact put where there was none, or in the place of another, is a card added or
\* changed, and the phones stay unique.
LEMMA CardPut ==
    ASSUME BookInv, NoCardPhone \notin CardPhone, NEW i \in Id, NEW row \in Book!Row, Book!Put(i, row)
    PROVE  /\ contact' \in [Id -> Book!Row \cup {Book!NoRow}]
           /\ OneCardPerPhone'
           /\ Book!Book!Next
<1>1. /\ contact' \in [Id -> Book!Row \cup {Book!NoRow}]
      /\ contact'[i] = row
      /\ \A j \in Id \ {i} : contact'[j] = contact[j] /\ contact[j].phone # row.phone
  BY DEF Book!Put, Book!Holder, BookInv, Book!TypeOK
<1>2. OneCardPerPhone'
  BY <1>1 DEF BookInv, OneCardPerPhone
<1>3. row # Book!NoRow
  BY NoCard
<1> DEFINE new == [id |-> i, name |-> row.name, phone |-> row.phone]
           old == CardOf(i)
<1>4. new \in Book!Book!Card
  BY DEF Book!Book!Card, Book!Row
<1>5. \A x : x \in Book!Cards <=> \E j \in Id : contact[j] # Book!NoRow /\ x = CardOf(j)
  BY DEF Book!Cards, CardOf
<1>6. \A x : x \in Book!Cards' <=> \E j \in Id : contact'[j] # Book!NoRow
                                /\ x = [id |-> j, name |-> contact'[j].name, phone |-> contact'[j].phone]
  BY DEF Book!Cards
<1>10. \A j \in Id \ {i} :
         [id |-> j, name |-> contact'[j].name, phone |-> contact'[j].phone] = CardOf(j)
  BY <1>1 DEF CardOf
<1>11. \A x : x \in Book!Cards' <=> x = new \/ \E j \in Id \ {i} : contact[j] # Book!NoRow /\ x = CardOf(j)
  BY <1>1, <1>3, <1>6, <1>10
<1>7. Book!Book!Fits(new)
  BY <1>1, <1>5 DEF Book!Book!Fits, CardOf
<1>8. CASE contact[i] = Book!NoRow
  <2>1. \A x : x \in Book!Cards' <=> x \in Book!Cards \/ x = new
    BY <1>5, <1>8, <1>11
  <2>3. Book!Cards' = Book!Cards \cup {new}
    BY <2>1
  <2>2. \A other \in Book!Cards : other.id # new.id
    BY <1>5, <1>8 DEF CardOf
  <2> QED  BY <1>1, <1>2, <1>4, <1>7, <2>2, <2>3 DEF Book!Book!Next, Book!Book!Add
<1>9. CASE contact[i] # Book!NoRow
  <2>1. contact[i] \in Book!Row
    BY <1>9 DEF BookInv, Book!TypeOK
  <2>2. old \in Book!Book!Card /\ old \in Book!Cards /\ old.id = new.id
    BY <2>1, <1>5, <1>9 DEF Book!Book!Card, Book!Row, CardOf
  <2>3. \A j \in Id : CardOf(j) = old => j = i
    BY DEF CardOf
  <2>4. \A x : x \in Book!Cards' <=> (x \in Book!Cards /\ x # old) \/ x = new
    BY <1>5, <1>9, <1>11, <2>3
  <2>5. Book!Cards' = (Book!Cards \ {old}) \cup {new}
    BY <2>4
  <2> QED  BY <1>1, <1>2, <1>4, <1>7, <2>2, <2>5 DEF Book!Book!Next, Book!Book!Change
<1> QED  BY <1>1, <1>2, <1>8, <1>9

LEMMA CardDeleted ==
    ASSUME BookInv, NEW i \in Id, Book!Delete(i)
    PROVE  BookInv' /\ Book!Book!Next
<1>1. /\ contact' \in [Id -> Book!Row \cup {Book!NoRow}]
      /\ contact'[i] = Book!NoRow /\ \A j \in Id \ {i} : contact'[j] = contact[j]
      /\ contact[i] \in Book!Row /\ contactClerk' = contactClerk
  BY DEF Book!Delete, BookInv, Book!TypeOK
<1>2. BookInv'
  BY <1>1 DEF BookInv, Book!TypeOK, CardsReady, CardReady, OneCardPerPhone
<1>3. CardOf(i) \in Book!Book!Card /\ CardOf(i) \in Book!Cards
  BY <1>1 DEF Book!Cards, CardOf, Book!Book!Card, Book!Row, Book!Delete
<1>4. Book!Cards' = Book!Cards \ {CardOf(i)}
  <2>1. \A x : x \in Book!Cards <=> \E j \in Id : contact[j] # Book!NoRow /\ x = CardOf(j)
    BY DEF Book!Cards, CardOf
  <2>2. \A x : x \in Book!Cards' <=> \E j \in Id : contact'[j] # Book!NoRow
                                  /\ x = [id |-> j, name |-> contact'[j].name, phone |-> contact'[j].phone]
    BY DEF Book!Cards
  <2> QED  BY <1>1, <2>1, <2>2 DEF CardOf
<1> QED  BY <1>2, <1>3, <1>4 DEF Book!Book!Next, Book!Book!Remove

\* Looks, refusals and aborts: a request goes on and the cards stay.
LEMMA BookQuiet ==
    ASSUME BookInv, NEW c \in Clerk, NEW next \in Book!Request,
           CardReady(next),
           Book!Goto(c, next)
    PROVE  BookInv' /\ Book!Cards' = Book!Cards
<1>1. contact' \in [Id -> Book!Row \cup {Book!NoRow}] /\ OneCardPerPhone'
  BY DEF Book!Goto, BookInv, Book!TypeOK, OneCardPerPhone
<1> QED  BY <1>1, BookGoes, SameCards DEF Book!Goto

LEMMA BookAfterRow ==
    ASSUME NEW r \in Book!Request
    PROVE  Book!AfterRow(r) \in Book!Request /\ Book!AfterRow(r).op \in {"idle", "import"}
BY DEF Book!AfterRow, Book!Idle, Book!Request, Book!Fields, Book!Row, Book!NoRow

LEMMA BookLooks ==
    ASSUME BookInv, NEW c \in Clerk, NEW row \in Book!Row,
           Book!CreateLook(c, row) \/ Book!ImportLook(c, row)
    PROVE  BookInv' /\ Book!Cards' = Book!Cards
<1>1. CASE Book!CreateLook(c, row)
  <2>1. [Book!Idle EXCEPT !.op = "create", !.row = row] \in Book!Request
    BY DEF Book!Idle, Book!Request, Book!Fields, Book!Row, Book!NoRow
  <2>2. [Book!Idle EXCEPT !.op = "create", !.row = row].row = row
    BY DEF Book!Idle
  <2> QED  BY <1>1, <2>1, <2>2, BookQuiet DEF Book!CreateLook, CardReady, Book!Idle
<1>2. CASE Book!ImportLook(c, row)
  <2> DEFINE rest == contactClerk[c].todo \ {row}
             skip == [contactClerk[c] EXCEPT !.todo = rest]
             take == [Book!Idle EXCEPT !.op = "insert", !.row = row, !.todo = rest]
  <2>1. contactClerk[c] \in Book!Request /\ contactClerk[c].op = "import"
    BY <1>2 DEF Book!ImportLook, BookInv, Book!TypeOK
  <2>2. skip \in Book!Request /\ skip.op = "import"
    BY <2>1 DEF Book!Request, Book!Fields, Book!Row, Book!NoRow
  <2>3. take \in Book!Request /\ take.row = row /\ take.op = "insert"
    BY <2>1 DEF Book!Request, Book!Idle, Book!Fields, Book!Row, Book!NoRow
  <2>4. Book!Goto(c, Book!Idle) \/ Book!Goto(c, skip) \/ Book!Goto(c, take)
    BY <1>2 DEF Book!ImportLook
  <2> HIDE DEF skip, take
  <2> QED  BY <2>2, <2>3, <2>4, BookIdle, BookQuiet DEF CardReady
<1> QED  BY <1>1, <1>2

LEMMA UpdateLooks ==
    ASSUME BookInv, NEW c \in Clerk, NEW i \in Id, NEW given \in Book!Fields, Book!UpdateLook(c, i, given)
    PROVE  BookInv' /\ Book!Cards' = Book!Cards
<1> DEFINE next == [Book!Idle EXCEPT !.op = "update", !.id = i, !.row = given]
<1>1. next \in Book!Request /\ next.op = "update" /\ next.id = i
  BY DEF Book!Idle, Book!Request, Book!Fields, Book!Row, Book!NoRow
<1> HIDE DEF next
<1> QED  BY <1>1, BookQuiet DEF Book!UpdateLook, next, CardReady

LEMMA ImportStarts ==
    ASSUME BookInv, NEW c \in Clerk, NEW file \in SUBSET Book!Row, Book!ImportStart(c, file)
    PROVE  BookInv' /\ Book!Cards' = Book!Cards
<1> DEFINE next == [Book!Idle EXCEPT !.op = "import", !.todo = file]
<1>1. next \in Book!Request /\ next.op = "import"
  BY DEF Book!Idle, Book!Request, Book!Fields, Book!Row, Book!NoRow
<1> HIDE DEF next
<1> QED  BY <1>1, BookQuiet DEF Book!ImportStart, next, CardReady

\* The three writes.
\* What a row becomes is a row.
LEMMA MergedRow ==
    ASSUME NEW i \in Id, contact[i] \in Book!Row, NEW given \in Book!Fields
    PROVE  Book!Merged(i, given) \in Book!Row
BY DEF Book!Merged, Book!Row, Book!Fields

LEMMA BookWrites ==
    ASSUME BookInv, NoCardPhone \notin CardPhone, NEW c \in Clerk, Book!Create(c) \/ Book!Update(c) \/ Book!Insert(c)
    PROVE  BookInv' /\ Book!Book!Next
<1>1. contactClerk[c] \in Book!Request
  BY DEF BookInv, Book!TypeOK
<1>2. PICK next \in {Book!Idle, Book!AfterRow(contactClerk[c])} : Book!Then(c, next)
  BY DEF Book!Create, Book!Update, Book!Insert
<1>3. \E i \in Id, row \in Book!Row : Book!Put(i, row)
  <2>1. CASE Book!Update(c)
    <3>1. contactClerk[c].id \in Id /\ contactClerk[c].row \in Book!Fields
      BY <1>1, <2>1 DEF Book!Update, BookInv, CardsReady, CardReady, Book!Request, Book!Fields, Book!Row, Book!NoRow
    <3>2. contact[contactClerk[c].id] \in Book!Row
      BY <2>1, <3>1 DEF Book!Update, BookInv, Book!TypeOK
    <3> QED  BY <2>1, <3>1, <3>2, MergedRow DEF Book!Update
  <2>2. CASE Book!Create(c) \/ Book!Insert(c)
    BY <2>2 DEF Book!Create, Book!Insert, BookInv, CardsReady, CardReady
  <2> QED  BY <2>1, <2>2
<1>4. next \in Book!Request /\ next.op \in {"idle", "import"}
  BY <1>1, BookIdle, BookAfterRow
<1>5. contact' \in [Id -> Book!Row \cup {Book!NoRow}] /\ OneCardPerPhone' /\ Book!Book!Next
  BY <1>1, <1>3, CardPut
<1> QED  BY <1>2, <1>4, <1>5, BookGoes DEF Book!Then, CardReady

LEMMA BookNext ==
    ASSUME BookInv, NoCardPhone \notin CardPhone, [Book!Next]_(Book!vars)
    PROVE  BookInv' /\ [Book!Book!Next]_(Book!Cards)
<1>1. CASE UNCHANGED Book!vars
  BY <1>1, SameCards DEF Book!vars, BookInv, Book!TypeOK, CardsReady, CardReady, OneCardPerPhone
<1>2. ASSUME NEW c \in Clerk, NEW row \in Book!Row,
             Book!CreateLook(c, row) \/ Book!ImportLook(c, row)
      PROVE  BookInv' /\ [Book!Book!Next]_(Book!Cards)
  BY <1>2, BookLooks
<1>3. ASSUME NEW c \in Clerk, NEW i \in Id, NEW given \in Book!Fields, Book!UpdateLook(c, i, given)
      PROVE  BookInv' /\ [Book!Book!Next]_(Book!Cards)
  BY <1>3, UpdateLooks
<1>4. ASSUME NEW c \in Clerk, NEW file \in SUBSET Book!Row, Book!ImportStart(c, file)
      PROVE  BookInv' /\ [Book!Book!Next]_(Book!Cards)
  BY <1>4, ImportStarts
<1>5. ASSUME NEW c \in Clerk, Book!Create(c) \/ Book!Update(c) \/ Book!Insert(c)
      PROVE  BookInv' /\ [Book!Book!Next]_(Book!Cards)
  BY <1>5, BookWrites
<1>6. ASSUME NEW c \in Clerk, Book!InsertFails(c) \/ Book!Abort(c)
      PROVE  BookInv' /\ [Book!Book!Next]_(Book!Cards)
  <2>1. contactClerk[c] \in Book!Request
    BY DEF BookInv, Book!TypeOK
  <2> QED  BY <1>6, <2>1, BookIdle, BookAfterRow, BookQuiet DEF Book!InsertFails, Book!Abort, CardReady
<1>7. ASSUME NEW i \in Id, Book!Delete(i)
      PROVE  BookInv' /\ [Book!Book!Next]_(Book!Cards)
  BY <1>7, CardDeleted
<1> QED  BY <1>1, <1>2, <1>3, <1>4, <1>5, <1>6, <1>7 DEF Book!Next

LEMMA BookInit ==
    ASSUME Book!Init
    PROVE  BookInv /\ Book!Book!Init
BY BookIdle DEF Book!Init, BookInv, Book!TypeOK, CardsReady, CardReady, OneCardPerPhone, Book!Book!Init, Book!Cards

\* In the program, create, update, import and delete of the contacts implement an address book
\* with one card per phone, however the requests interleave and whichever of them die.
THEOREM DirectoryImplemented ==
    ASSUME NoCardPhone \notin CardPhone
    PROVE  Spec => IsADirectory
<1>1. Book!Init => BookInv /\ Book!Book!Init
  BY BookInit
<1>2. BookInv /\ [Book!Next]_(Book!vars) => BookInv' /\ [Book!Book!Next]_(Book!Cards)
  BY BookNext
<1> QED  BY <1>1, <1>2, BookImplemented, PTL
         DEF Book!Spec, IsADirectory, Book!IsADirectory, Book!Book!Spec

-----------------------------------------------------------------------------
(* Room bookings.                                                          *)

\* Instants are numbers, and the names of nothing are names of nothing.
RoomNames ==
    /\ From \cup To \subseteq Nat
    /\ Given \subseteq {"confirmed", "pending", "cancelled"}
    /\ NoBooking \notin Booking /\ NoRoom \notin Room

\* What a request may write without a look is still what nobody is in the way of.
Looked(q) ==
    /\ q.op = "create" =>
         /\ q.data \in Rooms!NewData
         /\ ~q.late /\ q.data.status = "confirmed" =>
              ~Rooms!Conflict(q.data.room, q.data.from, q.data.to, NoBooking)
    /\ q.op = "update" =>
         /\ q.data \in Rooms!Data /\ q.b \in Booking
         /\ LET row == Rooms!With(booking[q.b], q.data)
            IN  ~q.late /\ booking[q.b] # Rooms!NoRow /\ row.status = "confirmed" =>
                  ~Rooms!Conflict(booking[q.b].room, row.from, row.to, q.b)

RoomInv ==
    /\ Rooms!TypeOK
    /\ Rooms!NoDoubleBooking
    /\ \A b \in Booking : booking[b] # Rooms!NoRow => booking[b].status # "none"
    /\ \A c \in Clerk : Looked(bookingClerk[c])

LEMMA WithType ==
  ASSUME RoomNames, NEW row \in Rooms!Row, NEW data \in Rooms!Data
  PROVE  LET new == Rooms!With(row, data)
         IN  /\ new \in Rooms!Row
             /\ new.room = row.room \/ new.room \in Room
             /\ row.status # "none" => new.status # "none"
<1> DEFINE new == Rooms!With(row, data)
<1>1. DOMAIN row = {"status", "room", "from", "to"}
  BY DEF Rooms!Row
<1>2. new = [f \in {"status", "room", "from", "to"} |-> IF f \in DOMAIN data THEN data[f] ELSE row[f]]
  BY <1>1 DEF Rooms!With
<1>3. CASE data \in [status: Given]
  BY <1>2, <1>3 DEF Rooms!Row, Rooms!Status, RoomNames
<1>4. CASE data \in [room: Room]
  BY <1>2, <1>4 DEF Rooms!Row, Rooms!Status, RoomNames
<1>5. CASE data \in [from: From]
  BY <1>2, <1>5 DEF Rooms!Row, Rooms!Status, RoomNames, Rooms!Time
<1>6. CASE data \in [to: To]
  BY <1>2, <1>6 DEF Rooms!Row, Rooms!Status, RoomNames, Rooms!Time
<1> QED  BY <1>3, <1>4, <1>5, <1>6 DEF Rooms!Data

LEMMA RowType == /\ Rooms!NoRow \in Rooms!Row
                 /\ RoomNames => \A data \in Rooms!NewData :
                                    data \in Rooms!Row /\ data.room # NoRoom /\ data.status # "none"
BY DEF Rooms!NoRow, Rooms!Row, Rooms!Status, Rooms!Time, Rooms!NewData, RoomNames

LEMMA IdleClerk == Rooms!Idle \in Rooms!Request /\ Looked(Rooms!Idle)
BY DEF Rooms!Idle, Rooms!Request, Rooms!NoRow, Looked

\* A row is put where nobody is in the way of it, or where that is remembered.
LEMMA NoClash ==
  ASSUME RoomNames, RoomInv, NEW b \in Booking, NEW row \in Rooms!Row,
         booking' = [booking EXCEPT ![b] = row],
         Rooms!Clashes(row, b) => row.room \in raced' \cup moved',
         raced \subseteq raced', moved \subseteq moved'
  PROVE  Rooms!NoDoubleBooking'
<1>1. booking \in [Booking -> Rooms!Row] /\ booking' \in [Booking -> Rooms!Row]
      /\ booking'[b] = row /\ \A x \in Booking \ {b} : booking'[x] = booking[x]
  BY DEF RoomInv, Rooms!TypeOK
<1>2. ASSUME NEW x \in Booking, x # b, booking[x].room = row.room, row.status = "confirmed",
             booking[x].status = "confirmed",
             NEW t \in Rooms!Time, row.from <= t, t < row.to, booking[x].from <= t, t < booking[x].to
      PROVE  row.room \in raced' \cup moved'
  <2>1. /\ row.from \in Nat /\ row.to \in Nat /\ t \in Nat
        /\ booking[x].from \in Nat /\ booking[x].to \in Nat
    BY <1>1, <1>2 DEF Rooms!Row, Rooms!Time, RoomNames
  <2>2. booking[x].from < row.to /\ booking[x].to > row.from
    BY <1>2, <2>1
  <2>3. Rooms!Clashes(row, b)
    BY <1>2, <2>2 DEF Rooms!Clashes, Rooms!Conflict
  <2> QED  BY <2>3
<1>3. ASSUME NEW x \in Booking, NEW y \in Booking, Rooms!DoubleBooked(x, y)'
      PROVE  booking'[x].room \in raced' \cup moved'
  <2>1. /\ x # y /\ booking'[x].room = booking'[y].room
        /\ booking'[x].status = "confirmed" /\ booking'[y].status = "confirmed"
    BY <1>3 DEF Rooms!DoubleBooked
  <2>2. PICK t \in Rooms!Time : /\ booking'[x].from <= t /\ t < booking'[x].to
                                /\ booking'[y].from <= t /\ t < booking'[y].to
    BY <1>3 DEF Rooms!DoubleBooked, Rooms!Takes, Rooms!Time
  <2>3. CASE x = b
    BY <1>1, <1>2, <2>1, <2>2, <2>3
  <2>4. CASE y = b
    BY <1>1, <1>2, <2>1, <2>2, <2>4
  <2>5. CASE x # b /\ y # b
    <3>1. Rooms!DoubleBooked(x, y)
      BY <1>1, <2>1, <2>2, <2>5 DEF Rooms!DoubleBooked, Rooms!Takes
    <3>2. booking[x].room \in raced \cup moved
      BY <3>1 DEF RoomInv, Rooms!NoDoubleBooking
    <3> QED  BY <1>1, <2>5, <3>2
  <2> QED  BY <2>3, <2>4, <2>5
<1> QED  BY <1>3 DEF Rooms!NoDoubleBooking

\* Once somebody has written, the others are late.
LEMMA WrittenStep ==
  ASSUME RoomInv, NEW c \in Clerk, Rooms!Written(c)
  PROVE  /\ bookingClerk' \in [Clerk -> Rooms!Request]
         /\ \A e \in Clerk : Looked(bookingClerk[e]) => Looked(bookingClerk[e])'
<1>1. bookingClerk \in [Clerk -> Rooms!Request]
  BY DEF RoomInv, Rooms!TypeOK
<1>2. ASSUME NEW e \in Clerk
      PROVE  /\ bookingClerk'[e] \in Rooms!Request
             /\ bookingClerk'[e] = Rooms!Idle
                \/ /\ bookingClerk'[e].op = bookingClerk[e].op /\ bookingClerk'[e].late
                   /\ bookingClerk'[e].data = bookingClerk[e].data
                   /\ bookingClerk'[e].b = bookingClerk[e].b
  BY <1>1, IdleClerk DEF Rooms!Written, Rooms!Request
<1>3. bookingClerk' \in [Clerk -> Rooms!Request]
  BY <1>2 DEF Rooms!Written
<1>4. ASSUME NEW e \in Clerk, Looked(bookingClerk[e])
      PROVE  Looked(bookingClerk[e])'
  <2>1. CASE bookingClerk'[e] = Rooms!Idle
    BY <2>1 DEF Looked, Rooms!Idle
  <2>2. CASE bookingClerk'[e] # Rooms!Idle
    BY <1>2, <1>4, <2>2 DEF Looked, Rooms!Data, Rooms!NewData
  <2> QED  BY <2>1, <2>2
<1> QED  BY <1>3, <1>4

\* A look moves nothing.
LEMMA LookStep ==
  ASSUME RoomInv, NEW c \in Clerk, NEW q \in Rooms!Request, Looked(q), Rooms!Look(c, q)
  PROVE  RoomInv'
<1>1. bookingClerk' \in [Clerk -> Rooms!Request] /\ UNCHANGED <<booking, raced, moved>>
      /\ \A e \in Clerk : bookingClerk'[e] = IF e = c THEN q ELSE bookingClerk[e]
  BY DEF RoomInv, Rooms!TypeOK, Rooms!Look
<1>2. Rooms!TypeOK'
  BY <1>1 DEF RoomInv, Rooms!TypeOK
<1>3. Rooms!NoDoubleBooking'
  BY <1>1 DEF RoomInv, Rooms!NoDoubleBooking, Rooms!DoubleBooked, Rooms!Takes
<1>4. \A e \in Clerk : Looked(bookingClerk'[e])
  BY <1>1 DEF RoomInv
<1>5. \A e \in Clerk : Looked(bookingClerk[e])'
  BY <1>1, <1>4 DEF Looked, Rooms!Conflict
<1>6. \A b \in Booking : booking'[b] # Rooms!NoRow => booking'[b].status # "none"
  BY <1>1 DEF RoomInv
<1> QED  BY <1>2, <1>3, <1>5, <1>6 DEF RoomInv

LEMMA CreateLookStep ==
  ASSUME RoomNames, RoomInv, NEW c \in Clerk, NEW data \in Rooms!NewData, Rooms!CreateLook(c, data)
  PROVE  RoomInv'
<1> DEFINE q == [Rooms!Idle EXCEPT !.op = "create", !.data = data]
<1>1. q \in Rooms!Request /\ q.op = "create" /\ q.data = data
  BY DEF Rooms!Idle, Rooms!Request
<1>2. Rooms!Look(c, q)
  BY DEF Rooms!CreateLook
<1> HIDE DEF q
<1>3. Looked(q)
  BY <1>1 DEF Looked, Rooms!CreateLook
<1> QED  BY <1>1, <1>2, <1>3, LookStep

\* The row as it will be was looked for, in the room it is in now.
LEMMA UpdateLookStep ==
  ASSUME RoomNames, RoomInv, NEW c \in Clerk, NEW b \in Booking, NEW data \in Rooms!Data,
         Rooms!UpdateLook(c, b, data)
  PROVE  RoomInv'
<1> DEFINE q == [Rooms!Idle EXCEPT !.op = "update", !.b = b, !.data = data]
<1>1. q \in Rooms!Request /\ q.op = "update" /\ q.data = data /\ q.b = b
  BY DEF Rooms!Idle, Rooms!Request
<1>2. Rooms!Look(c, q)
  BY DEF Rooms!UpdateLook
<1> HIDE DEF q
<1>3. Looked(q)
  BY <1>1 DEF Looked, Rooms!UpdateLook
<1> QED  BY <1>1, <1>2, <1>3, LookStep

LEMMA CreateStep ==
  ASSUME RoomNames, RoomInv, NEW c \in Clerk, Rooms!Create(c)
  PROVE  RoomInv'
<1> DEFINE row == bookingClerk[c].data
<1>1. bookingClerk[c].op = "create" /\ Looked(bookingClerk[c])
  BY DEF Rooms!Create, RoomInv
<1>2. row \in Rooms!NewData /\ row \in Rooms!Row /\ row.room \in Room /\ row.status # "none"
  BY <1>1, RowType DEF Looked, Rooms!NewData
<1>3. PICK b \in Booking : booking[b] = Rooms!NoRow /\ booking' = [booking EXCEPT ![b] = row]
  BY DEF Rooms!Create
<1>4. Rooms!Written(c) /\ UNCHANGED moved /\ Rooms!Race(c, row, NoBooking)
  BY DEF Rooms!Create
<1>5. raced \subseteq raced' /\ raced' \subseteq Room
  BY <1>2, <1>4 DEF Rooms!Race, RoomInv, Rooms!TypeOK
<1>6. Rooms!Clashes(row, b) => row.room \in raced' \cup moved'
  <2>1. Rooms!Clashes(row, b) => Rooms!Clashes(row, NoBooking)
    BY DEF Rooms!Clashes, Rooms!Conflict, RoomNames
  <2>2. Rooms!Clashes(row, NoBooking) => bookingClerk[c].late
    BY <1>1 DEF Looked, Rooms!Clashes
  <2> QED  BY <1>4, <2>1, <2>2 DEF Rooms!Race
<1>7. Rooms!NoDoubleBooking'
  BY <1>2, <1>3, <1>4, <1>5, <1>6, NoClash
<1>8. Rooms!TypeOK'
  <2>1. booking' \in [Booking -> Rooms!Row] /\ bookingClerk' \in [Clerk -> Rooms!Request]
    BY <1>2, <1>3, <1>4, WrittenStep DEF RoomInv, Rooms!TypeOK
  <2>2. \A x \in Booking : booking'[x].status # "none" => booking'[x].room # NoRoom
    BY <1>2, <1>3 DEF RoomInv, Rooms!TypeOK, RoomNames
  <2> QED  BY <1>4, <1>5, <2>1, <2>2 DEF RoomInv, Rooms!TypeOK
<1>9. \A e \in Clerk : Looked(bookingClerk[e])'
  BY <1>4, WrittenStep DEF RoomInv
<1>10. \A x \in Booking : booking'[x] # Rooms!NoRow => booking'[x].status # "none"
  BY <1>2, <1>3 DEF RoomInv, Rooms!TypeOK
<1> QED  BY <1>7, <1>8, <1>9, <1>10 DEF RoomInv

LEMMA UpdateStep ==
  ASSUME RoomNames, RoomInv, NEW c \in Clerk, Rooms!Update(c)
  PROVE  RoomInv'
<1> DEFINE b == bookingClerk[c].b
           data == bookingClerk[c].data
           row == Rooms!With(booking[b], data)
<1>1. bookingClerk[c].op = "update" /\ Looked(bookingClerk[c]) /\ booking[b] # Rooms!NoRow
  BY DEF Rooms!Update, RoomInv
<1>2. b \in Booking /\ data \in Rooms!Data /\ booking[b] \in Rooms!Row
  BY <1>1 DEF Looked, RoomInv, Rooms!TypeOK
<1>3. row \in Rooms!Row /\ (row.room = booking[b].room \/ row.room \in Room)
      /\ row.status # "none"
  BY <1>1, <1>2, WithType DEF RoomInv
<1>4. /\ booking' = [booking EXCEPT ![b] = row] /\ Rooms!Written(c) /\ Rooms!Race(c, row, b)
      /\ moved' = IF row.room # booking[b].room /\ Rooms!Clashes(row, b)
                  THEN moved \cup {row.room} ELSE moved
  BY DEF Rooms!Update
<1>5. ~Rooms!Clashes(row, b) \/ row.room \in raced' \cup moved'
  <2>1. CASE row.room = booking[b].room /\ ~bookingClerk[c].late
    BY <1>1, <1>3, <2>1 DEF Looked, Rooms!Clashes
  <2>2. CASE row.room # booking[b].room
    BY <1>4, <2>2
  <2>3. CASE bookingClerk[c].late
    BY <1>4, <2>3 DEF Rooms!Race
  <2> QED  BY <2>1, <2>2, <2>3
<1>6. Rooms!Clashes(row, b) => row.room \in Room
  <2> SUFFICES ASSUME Rooms!Clashes(row, b) PROVE row.room \in Room
    OBVIOUS
  <2>1. PICK x \in Booking : booking[x].status = "confirmed" /\ booking[x].room = row.room
    BY DEF Rooms!Clashes, Rooms!Conflict
  <2> QED  BY <2>1 DEF RoomInv, Rooms!TypeOK, Rooms!Row
<1>7. /\ raced \subseteq raced' /\ raced' \subseteq Room
      /\ moved \subseteq moved' /\ moved' \subseteq Room
  BY <1>4, <1>6 DEF Rooms!Race, RoomInv, Rooms!TypeOK
<1> HIDE DEF row, data, b
<1>8. Rooms!NoDoubleBooking'
  BY <1>2, <1>3, <1>4, <1>5, <1>7, NoClash
<1>9. Rooms!TypeOK'
  <2>1. booking' \in [Booking -> Rooms!Row] /\ bookingClerk' \in [Clerk -> Rooms!Request]
    BY <1>2, <1>3, <1>4, WrittenStep DEF RoomInv, Rooms!TypeOK
  <2>2. row.room # NoRoom
    BY <1>1, <1>2, <1>3 DEF RoomInv, Rooms!TypeOK, RoomNames
  <2>3. \A x \in Booking : booking'[x].status # "none" => booking'[x].room # NoRoom
    BY <1>2, <1>4, <2>2 DEF RoomInv, Rooms!TypeOK
  <2> QED  BY <1>7, <2>1, <2>3 DEF RoomInv, Rooms!TypeOK
<1>10. \A e \in Clerk : Looked(bookingClerk[e])'
  BY <1>4, WrittenStep DEF RoomInv
<1>11. \A x \in Booking : booking'[x] # Rooms!NoRow => booking'[x].status # "none"
  BY <1>2, <1>3, <1>4 DEF RoomInv, Rooms!TypeOK
<1> QED  BY <1>8, <1>9, <1>10, <1>11 DEF RoomInv

\* Rows that go, one or those of a room, are in nobody's way.
LEMMA RowsGo ==
  ASSUME RoomInv, UNCHANGED <<bookingClerk, raced, moved>>, DOMAIN booking' = Booking,
         booking' = [x \in Booking |-> booking'[x]],
         \A x \in Booking : booking'[x] \in {booking[x], Rooms!NoRow}
  PROVE  RoomInv'
<1>1. booking \in [Booking -> Rooms!Row] /\ booking' \in [Booking -> Rooms!Row]
  BY RowType DEF RoomInv, Rooms!TypeOK
<1>2. \A x \in Booking : booking'[x].status # "none" => booking'[x] = booking[x]
  BY DEF Rooms!NoRow
<1>3. Rooms!TypeOK'
  BY <1>1, <1>2 DEF RoomInv, Rooms!TypeOK
<1>4. Rooms!NoDoubleBooking'
  BY <1>2 DEF RoomInv, Rooms!NoDoubleBooking, Rooms!DoubleBooked, Rooms!Takes
<1>5. \A room, from, to, exclude :
        Rooms!Conflict(room, from, to, exclude)' => Rooms!Conflict(room, from, to, exclude)
  BY <1>2 DEF Rooms!Conflict
<1>6. ASSUME NEW c \in Clerk
      PROVE  Looked(bookingClerk[c])'
  <2> DEFINE q == bookingClerk[c]
  <2>1. Looked(q) /\ q' = q
    BY DEF RoomInv
  <2> QED  BY <1>2, <1>5, <2>1 DEF Looked, Rooms!Data, Rooms!NewData
<1>7. \A x \in Booking : booking'[x] # Rooms!NoRow => booking'[x].status # "none"
  BY DEF RoomInv
<1> QED  BY <1>3, <1>4, <1>6, <1>7 DEF RoomInv

LEMMA AbortStep ==
  ASSUME RoomInv, NEW c \in Clerk, Rooms!Abort(c)
  PROVE  RoomInv'
<1>1. bookingClerk' \in [Clerk -> Rooms!Request] /\ UNCHANGED <<booking, raced, moved>>
      /\ \A e \in Clerk : bookingClerk'[e] = IF e = c THEN Rooms!Idle ELSE bookingClerk[e]
  BY IdleClerk DEF RoomInv, Rooms!TypeOK, Rooms!Abort
<1>2. Rooms!TypeOK'
  BY <1>1 DEF RoomInv, Rooms!TypeOK
<1>3. Rooms!NoDoubleBooking'
  BY <1>1 DEF RoomInv, Rooms!NoDoubleBooking, Rooms!DoubleBooked, Rooms!Takes
<1>4. \A e \in Clerk : Looked(bookingClerk'[e])
  BY <1>1, IdleClerk DEF RoomInv
<1>5. \A e \in Clerk : Looked(bookingClerk[e])'
  BY <1>1, <1>4 DEF Looked, Rooms!Conflict
<1>6. \A b \in Booking : booking'[b] # Rooms!NoRow => booking'[b].status # "none"
  BY <1>1 DEF RoomInv
<1> QED  BY <1>2, <1>3, <1>5, <1>6 DEF RoomInv

LEMMA RoomInit == Rooms!Init => RoomInv
<1> SUFFICES ASSUME Rooms!Init PROVE RoomInv
  OBVIOUS
<1>1. Rooms!TypeOK
  BY RowType, IdleClerk DEF Rooms!Init, Rooms!TypeOK, Rooms!NoRow
<1>2. Rooms!NoDoubleBooking
  BY DEF Rooms!Init, Rooms!NoDoubleBooking, Rooms!DoubleBooked, Rooms!NoRow
<1>3. \A c \in Clerk : Looked(bookingClerk[c])
  BY IdleClerk DEF Rooms!Init
<1> QED  BY <1>1, <1>2, <1>3 DEF RoomInv, Rooms!Init

LEMMA RoomNext ==
  ASSUME RoomNames, RoomInv, Rooms!Next
  PROVE  RoomInv'
<1>1. CASE \E b \in Booking : Rooms!Delete(b)
  BY <1>1, RowsGo DEF Rooms!Delete, RoomInv, Rooms!TypeOK
<1>2. CASE \E room \in Room : Rooms!DeleteRoom(room)
  BY <1>2, RowsGo DEF Rooms!DeleteRoom
<1>3. CASE \E c \in Clerk :
             \/ \E data \in Rooms!NewData : Rooms!CreateLook(c, data)
             \/ \E b \in Booking, data \in Rooms!Data : Rooms!UpdateLook(c, b, data)
             \/ Rooms!Create(c) \/ Rooms!Update(c) \/ Rooms!Abort(c)
  BY <1>3, CreateLookStep, UpdateLookStep, CreateStep, UpdateStep, AbortStep
<1> QED  BY <1>1, <1>2, <1>3 DEF Rooms!Next

LEMMA RoomStill == RoomInv /\ UNCHANGED roomVars => RoomInv'
BY DEF roomVars, RoomInv, Rooms!TypeOK, Rooms!NoDoubleBooking, Rooms!DoubleBooked, Rooms!Takes,
       Looked, Rooms!Conflict

LEMMA RoomInvariant == RoomNames => (Spec => []RoomInv)
<1> SUFFICES ASSUME RoomNames PROVE Spec => []RoomInv
  OBVIOUS
<1>1. Init => RoomInv
  BY RoomInit DEF Init
<1>2. RoomInv /\ [Next]_vars => RoomInv'
  <2> SUFFICES ASSUME RoomInv, [Next]_vars PROVE RoomInv'
    OBVIOUS
  <2>1. CASE RoomStep
    BY <2>1, RoomNext DEF RoomStep
  <2>2. CASE ~RoomStep
    <3>1. UNCHANGED roomVars
      BY <2>2 DEF Next, vars, services, BookStep, SchoolStep, PlanStep, DoorStep, TillStep,
                  SiteStep, RouterStep, PeopleStep, EntryStep, LedgerStep, CallStep, DayStep
    <3> QED  BY <3>1, RoomStill
  <2> QED  BY <2>1, <2>2
<1> QED  BY <1>1, <1>2, PTL DEF Spec

\* For every set of rooms, bookings, requests and instants: through edits of single fields
\* by several clerks, two confirmed bookings of a room overlap only if the conflict arose
\* between a check and its write, or an edit moved a booking to another room
\* (findConflict, rooms/bookings.service).
THEOREM RoomsPromisedOnce ==
    ASSUME RoomNames
    PROVE  Spec => []NoDoubleBooking
<1>1. RoomInv => NoDoubleBooking
  BY DEF RoomInv, NoDoubleBooking
<1> QED  BY <1>1, RoomInvariant, PTL

-----------------------------------------------------------------------------
(* Logins of the staff.                                                    *)

DoorNumbers ==
    /\ MaxFailed \in Nat \ {0} /\ LockTime \in Nat /\ Horizon \in Nat \ {0}

\* What a login knows of the row: it knows how it is, unless it is late.
Informed(q) ==
    /\ q.at = "compare" => q.failed < MaxFailed
    /\ q.at = "expired" /\ ~q.late => account.until <= now
    /\ q.at = "compare" /\ ~q.late => account.until = Door!Unlocked /\ account.failed = q.failed

DoorInv ==
    /\ Door!TypeOK
    /\ account.failed = MaxFailed <=> account.until # Door!Unlocked
    /\ ~overtaken => account.failed = streak
    /\ \A a \in Attempt : Informed(attempt[a])

LEMMA DoorTypes ==
  ASSUME DoorNumbers, DoorInv
  PROVE  /\ account.failed \in Int /\ account.until \in Int /\ now \in Int /\ now > 0
         /\ account.until \in 0 .. Horizon + LockTime /\ streak \in Int /\ account.failed =< MaxFailed
         /\ MaxFailed \in Int /\ MaxFailed > 0 /\ LockTime \in Int /\ LockTime >= 0
         /\ attempt \in [Attempt -> Door!Login]
         /\ \A a \in Attempt : attempt[a].failed \in Nat
BY DEF DoorNumbers, DoorInv, Door!TypeOK, Door!Login

LEMMA IdleLogin == DoorNumbers => Door!Idle \in Door!Login /\ Informed(Door!Idle)
BY DEF DoorNumbers, Door!Idle, Door!Login, Informed

\* After a write, every other login is late.
LEMMA WriteStep ==
  ASSUME DoorNumbers, DoorInv, NEW a \in Attempt, NEW row, NEW next \in Door!Login,
         row \in [failed: 0 .. MaxFailed, until: 0 .. Horizon + LockTime],
         row.failed = MaxFailed <=> row.until # Door!Unlocked,
         Door!Write(a, row, next), streak' \in 0 .. MaxFailed,
         ~overtaken' => row.failed = streak',
         next.at = "compare" => next.failed < MaxFailed,
         next.at # "expired",
         next.at = "compare" /\ ~next.late => row.until = Door!Unlocked /\ row.failed = next.failed
  PROVE  DoorInv'
<1>1. account' = row /\ UNCHANGED now /\ overtaken' \in BOOLEAN
  BY DEF Door!Write, DoorInv, Door!TypeOK, Door!Login
<1>2. attempt' \in [Attempt -> Door!Login]
  BY DoorTypes, IdleLogin DEF Door!Write, Door!Login
<1>3. ASSUME NEW b \in Attempt
      PROVE  Informed(attempt[b])'
  <2>1. CASE b = a
    <3>1. attempt'[b] = next
      BY <2>1 DEF Door!Write
    <3> QED  BY <1>1, <3>1 DEF Informed
  <2>2. CASE b # a /\ attempt[b] = Door!Idle
    <3>1. attempt'[b].at = "idle"
      BY <2>2 DEF Door!Write, Door!Idle
    <3> QED  BY <3>1 DEF Informed
  <2>3. CASE b # a /\ attempt[b] # Door!Idle
    <3>1. attempt'[b].late /\ attempt'[b].at = attempt[b].at /\ attempt'[b].failed = attempt[b].failed
      BY <2>3, DoorTypes DEF Door!Write, Door!Login
    <3>2. Informed(attempt[b])
      BY DEF DoorInv
    <3> QED  BY <3>1, <3>2 DEF Informed
  <2> QED  BY <2>1, <2>2, <2>3
<1> QED  BY <1>1, <1>2, <1>3 DEF DoorInv, Door!TypeOK

\* A login that goes on, or away, without a write.
LEMMA ReadStep ==
  ASSUME DoorNumbers, DoorInv, NEW a \in Attempt, NEW next \in Door!Login, Informed(next),
         attempt' = [attempt EXCEPT ![a] = next], UNCHANGED <<account, now, streak, overtaken>>
  PROVE  DoorInv'
<1>1. attempt' \in [Attempt -> Door!Login]
      /\ \A b \in Attempt : attempt'[b] = IF b = a THEN next ELSE attempt[b]
  BY DoorTypes
<1>2. \A b \in Attempt : Informed(attempt'[b])
  BY <1>1 DEF DoorInv
<1>3. \A b \in Attempt : Informed(attempt[b])'
  BY <1>1, <1>2 DEF Informed
<1> QED  BY <1>1, <1>3 DEF DoorInv, Door!TypeOK

LEMMA DoorInit == DoorNumbers /\ Door!Init => DoorInv
<1> SUFFICES ASSUME DoorNumbers, Door!Init PROVE DoorInv
  OBVIOUS
<1>1. Door!TypeOK /\ account.failed = 0 /\ account.until = 0 /\ MaxFailed # 0
  <2>1. 0 \in 0 .. MaxFailed /\ 0 \in 0 .. Horizon + LockTime /\ 1 \in 1 .. Horizon /\ MaxFailed # 0
    BY DEF DoorNumbers
  <2>2. attempt \in [Attempt -> Door!Login]
    BY IdleLogin DEF Door!Init
  <2>3. account = [failed |-> 0, until |-> 0] /\ now = 1 /\ streak = 0 /\ overtaken \in BOOLEAN
    BY DEF Door!Init, Door!Unlocked
  <2> QED  BY <2>1, <2>2, <2>3 DEF Door!TypeOK
<1>2. \A a \in Attempt : Informed(attempt[a])
  BY IdleLogin DEF Door!Init
<1> QED  BY <1>1, <1>2 DEF DoorInv, Door!Init, Door!Unlocked

LEMMA StartStep ==
  ASSUME DoorNumbers, DoorInv, NEW a \in Attempt, Door!Start(a)
  PROVE  DoorInv'
<1> DEFINE next == [at |-> IF account.until # Door!Unlocked THEN "expired" ELSE "compare",
                    failed |-> account.failed, locked |-> account.until # Door!Unlocked,
                    late |-> FALSE]
<1>1. next \in Door!Login
  BY DEF DoorInv, Door!TypeOK, Door!Login
<1>2. Informed(next)
  <2>1. account.until <= now
    BY DoorTypes DEF Door!Start, Door!Locked
  <2>2. account.until = Door!Unlocked => account.failed < MaxFailed
    BY DoorTypes DEF DoorInv
  <2> QED  BY <2>1, <2>2 DEF Informed
<1>3. attempt' = [attempt EXCEPT ![a] = next] /\ UNCHANGED <<account, now, streak, overtaken>>
  BY DEF Door!Start
<1> HIDE DEF next
<1> QED  BY <1>1, <1>2, <1>3, ReadStep

LEMMA ResetType ==
  DoorNumbers => /\ Door!Reset \in [failed: 0 .. MaxFailed, until: 0 .. Horizon + LockTime]
                 /\ Door!Reset.failed = 0 /\ Door!Reset.until = Door!Unlocked /\ MaxFailed # 0
BY DEF DoorNumbers, Door!Reset, Door!Unlocked

LEMMA ExpireStep ==
  ASSUME DoorNumbers, DoorInv, NEW a \in Attempt, Door!Expire(a)
  PROVE  DoorInv'
<1> DEFINE next == [attempt[a] EXCEPT !.at = "compare", !.failed = 0, !.locked = FALSE]
<1>1. next \in Door!Login /\ next.at = "compare" /\ next.failed = 0
  <2>1. 0 \in 0 .. MaxFailed /\ attempt[a] \in Door!Login
    BY DoorTypes
  <2> QED  BY <2>1 DEF Door!Login
<1>2. Door!Write(a, Door!Reset, next) /\ streak' = 0
  BY DEF Door!Expire
<1> HIDE DEF next
<1>3. streak' \in 0 .. MaxFailed /\ 0 < MaxFailed
  BY <1>2, DoorTypes
<1> QED  BY <1>1, <1>2, <1>3, ResetType, WriteStep

LEMMA SucceedStep ==
  ASSUME DoorNumbers, DoorInv, NEW a \in Attempt, Door!Succeed(a)
  PROVE  DoorInv'
<1>1. CASE attempt[a].failed > 0 \/ attempt[a].locked
  <2>1. Door!Write(a, Door!Reset, Door!Idle) /\ streak' = 0
    BY <1>1 DEF Door!Succeed
  <2>2. Door!Idle \in Door!Login /\ Door!Idle.at = "idle"
    BY IdleLogin DEF Door!Idle
  <2>3. streak' \in 0 .. MaxFailed
    BY <2>1, DoorTypes
  <2> QED  BY <2>1, <2>2, <2>3, ResetType, WriteStep
<1>2. CASE ~(attempt[a].failed > 0 \/ attempt[a].locked)
  BY <1>2, IdleLogin, ReadStep DEF Door!Succeed
<1> QED  BY <1>1, <1>2

LEMMA FailStep ==
  ASSUME DoorNumbers, DoorInv, NEW a \in Attempt, Door!Fail(a)
  PROVE  DoorInv'
<1> DEFINE failed == attempt[a].failed + 1
           row == [failed |-> failed,
                   until |-> IF failed >= MaxFailed THEN now + LockTime ELSE Door!Unlocked]
<1>1. /\ attempt[a].at = "compare" /\ Door!Write(a, row, Door!Idle)
      /\ streak' = IF streak < MaxFailed THEN streak + 1 ELSE streak
  BY DEF Door!Fail
<1>2. Informed(attempt[a]) /\ attempt[a].failed \in Nat /\ attempt[a].failed < MaxFailed
  BY <1>1, DoorTypes DEF DoorInv, Informed
<1>3. failed \in 0 .. MaxFailed /\ (failed >= MaxFailed <=> failed = MaxFailed)
  BY <1>2, DoorTypes
<1>4. now + LockTime \in 0 .. Horizon + LockTime /\ now + LockTime # 0
  BY DoorTypes DEF DoorInv, Door!TypeOK, DoorNumbers
<1>5. /\ row \in [failed: 0 .. MaxFailed, until: 0 .. Horizon + LockTime]
      /\ row.failed = MaxFailed <=> row.until # Door!Unlocked
  <2>1. 0 \in 0 .. Horizon + LockTime
    BY DEF DoorNumbers
  <2>2. row.until \in 0 .. Horizon + LockTime /\ row.failed \in 0 .. MaxFailed
    BY <1>3, <1>4, <2>1 DEF Door!Unlocked
  <2>3. row.failed = MaxFailed <=> row.until # 0
    BY <1>3, <1>4 DEF Door!Unlocked
  <2>4. row \in [failed: 0 .. MaxFailed, until: 0 .. Horizon + LockTime]
    BY <2>2
  <2> QED  BY <2>3, <2>4 DEF Door!Unlocked
<1>6. row.failed = failed
  OBVIOUS
<1> HIDE DEF row
<1>7. streak' \in 0 .. MaxFailed
  BY <1>1, DoorTypes DEF DoorInv, Door!TypeOK
<1>8. ~overtaken' => row.failed = streak'
  <2> SUFFICES ASSUME ~overtaken' PROVE failed = streak'
    BY <1>6
  <2>1. ~overtaken /\ ~attempt[a].late
    BY <1>1 DEF Door!Write
  <2>2. streak = attempt[a].failed
    BY <1>1, <1>2, <2>1 DEF DoorInv, Informed
  <2> QED  BY <1>1, <1>2, <2>2
<1>9. Door!Idle \in Door!Login /\ Door!Idle.at = "idle"
  BY IdleLogin DEF Door!Idle
<1> QED  BY <1>1, <1>5, <1>7, <1>8, <1>9, WriteStep

LEMMA TickStep ==
  ASSUME DoorNumbers, DoorInv, Door!Tick
  PROVE  DoorInv'
<1>1. now' \in 1 .. Horizon /\ now <= now' /\ UNCHANGED <<account, attempt, streak, overtaken>>
  BY DoorTypes DEF Door!Tick, DoorInv, Door!TypeOK, DoorNumbers
<1>2. ASSUME NEW a \in Attempt
      PROVE  Informed(attempt[a])'
  <2>1. Informed(attempt[a])
    BY DEF DoorInv
  <2>2. account.until <= now => account.until <= now'
    BY <1>1, DoorTypes
  <2> QED  BY <1>1, <2>1, <2>2 DEF Informed
<1> QED  BY <1>1, <1>2 DEF DoorInv, Door!TypeOK

LEMMA DoorNext ==
  ASSUME DoorNumbers, DoorInv, Door!Next
  PROVE  DoorInv'
<1>1. ASSUME NEW a \in Attempt, Door!Abort(a)
      PROVE  DoorInv'
  BY <1>1, IdleLogin, ReadStep DEF Door!Abort
<1> QED  BY <1>1, TickStep, StartStep, ExpireStep, FailStep, SucceedStep DEF Door!Next

LEMMA DoorStill == DoorInv /\ UNCHANGED doorVars => DoorInv'
BY DEF doorVars, DoorInv, Door!TypeOK, Informed

\* A step of the program that is none of the doors leaves them.
LEMMA DoorApart == [Next]_vars /\ ~DoorStep => UNCHANGED doorVars
BY DEF Next, vars, services, RoomStep, BookStep, SchoolStep, PlanStep, TillStep, SiteStep,
       RouterStep, PeopleStep, EntryStep, LedgerStep, CallStep, DayStep

LEMMA DoorInvariant == DoorNumbers => (Spec => []DoorInv)
<1> SUFFICES ASSUME DoorNumbers PROVE Spec => []DoorInv
  OBVIOUS
<1>1. Init => DoorInv
  BY DoorInit DEF Init
<1>2. DoorInv /\ [Next]_vars => DoorInv'
  BY DoorNext, DoorStill, DoorApart DEF DoorStep
<1> QED  BY <1>1, <1>2, PTL DEF Spec

\* For every number of logins under way, of tries and length of a lock: that many wrong
\* passwords in a row lock the account, unless a login that was overtaken has written what
\* it had read (login, auth/service).
THEOREM FailuresLockAccount ==
    ASSUME DoorNumbers
    PROVE  Spec => []FailuresLock
<1>1. DoorInv => FailuresLock
  <2> SUFFICES ASSUME DoorInv, streak >= MaxFailed, ~overtaken PROVE account.until # Door!Unlocked
    BY DEF FailuresLock, Door!FailuresLock
  <2>1. streak = MaxFailed
    BY DoorTypes DEF DoorInv, Door!TypeOK
  <2> QED  BY <2>1 DEF DoorInv
<1> QED  BY <1>1, DoorInvariant, PTL

\* A lock is lifted before its time only by a login that had read the row before.
LEMMA LockStep ==
  ASSUME DoorNumbers, DoorInv, Door!Next, Door!Locked, account' # account
  PROVE  \E a \in Attempt : attempt[a].late /\ attempt'[a] # attempt[a]
<1>1. PICK a \in Attempt : Door!Expire(a) \/ Door!Fail(a) \/ Door!Succeed(a)
  BY DEF Door!Next, Door!Tick, Door!Start, Door!Abort
<1>2. account.until > now /\ account.until # 0 /\ Informed(attempt[a]) /\ attempt[a] \in Door!Login
  BY DoorTypes DEF Door!Locked, DoorInv
<1>3. ~(account.until <= now)
  BY <1>2, DoorTypes
<1>4. attempt[a].late
  BY <1>1, <1>2, <1>3 DEF Informed, Door!Expire, Door!Fail, Door!Succeed, Door!Unlocked, Door!Login
<1>5. attempt'[a] # attempt[a]
  <2>1. CASE Door!Expire(a)
    BY <1>2, <2>1 DEF Door!Expire, Door!Write, Door!Login
  <2>2. CASE Door!Fail(a)
    BY <1>2, <2>2 DEF Door!Fail, Door!Write, Door!Idle
  <2>3. CASE Door!Succeed(a)
    BY <1>2, <2>3, DoorTypes DEF Door!Succeed, Door!Write, Door!Idle
  <2> QED  BY <1>1, <2>1, <2>2, <2>3
<1> QED  BY <1>4, <1>5

\* In the program, a lock holds until its time, but for such a login (auth/service).
THEOREM LocksHold ==
    ASSUME DoorNumbers
    PROVE  Spec => LockHolds
<1> DEFINE A == Door!Locked /\ account' # account
                  => \E a \in Attempt : attempt[a].late /\ attempt'[a] # attempt[a]
<1>1. DoorInv /\ [Next]_vars => [A]_(Door!vars)
  <2> SUFFICES ASSUME DoorInv, [Next]_vars PROVE [A]_(Door!vars)
    OBVIOUS
  <2>1. CASE DoorStep
    BY <2>1, LockStep DEF DoorStep
  <2>2. CASE ~DoorStep
    BY <2>2, DoorApart DEF doorVars, Door!vars
  <2> QED  BY <2>1, <2>2
<1> QED  BY <1>1, DoorInvariant, PTL DEF Spec, LockHolds, Door!LockHolds

-----------------------------------------------------------------------------
(* Courses and what their trainees have paid.                              *)

Coins == Price \cup Amount \subseteq Nat /\ NoCourse \notin Course

States == {"none", "enrolled", "gone"}
PaidHow == {"installment", "full"}
TraineeRow == [state: States, paid: Nat, course: Course \cup {NoCourse}, status: PaidHow]
PayRequest ==
    [op: {"idle", "pay", "delete"}, t: Trainee \cup {NoTrainee}, k: Course \cup {NoCourse},
     amount: Amount \cup {0}, paid: Nat, status: PaidHow, late: BOOLEAN]

\* As the row is, if nobody has set it by hand.
PaidUp(t) ==
    LET row == trainee[t]
        price == course[row.course].price
    IN  /\ row.state = "enrolled" => row.course \in Course
        /\ row.state = "enrolled" /\ t \notin byHand =>
              /\ row.status = "full" => row.paid >= price
              /\ t \notin paidAtOnce => row.paid = handed[t] /\ handed[t] <= price

\* As the row will be, when the request has written it.
WillPay(q) ==
    LET row == trainee[q.t]
        price == course[row.course].price
    IN  q.op = "pay" =>
          /\ q.t \in Trainee /\ row.state # "none"
          /\ row.state = "enrolled" /\ q.t \notin byHand =>
                /\ q.status = "full" => q.paid >= price
                /\ q.paid <= price
                /\ ~q.late => q.paid = row.paid + q.amount

SchoolTypes ==
    /\ course \in [Course -> [open: BOOLEAN, price: Price \cup {0}]]
    /\ trainee \in [Trainee -> TraineeRow]
    /\ courseClerk \in [Clerk -> PayRequest]
    /\ handed \in [Trainee -> Nat]

SchoolInv ==
    /\ SchoolTypes
    /\ \A t \in Trainee : PaidUp(t)
    /\ \A c \in Clerk : WillPay(courseClerk[c])

LEMMA IdlePays == School!Idle \in PayRequest /\ School!Idle.op = "idle"
BY DEF School!Idle, PayRequest, PaidHow

LEMMA SchoolInit == School!Init => SchoolInv
<1> SUFFICES ASSUME School!Init PROVE SchoolInv
  OBVIOUS
<1>1. SchoolTypes
  BY IdlePays DEF School!Init, School!Absent, SchoolTypes, TraineeRow, States, PaidHow
<1>2. \A t \in Trainee : trainee[t].state = "none"
  BY DEF School!Init, School!Absent
<1>3. \A c \in Clerk : courseClerk[c].op = "idle"
  BY IdlePays DEF School!Init
<1> QED  BY <1>1, <1>2, <1>3 DEF SchoolInv, PaidUp, WillPay

\* Only one clerk's request changes.
LEMMA PayLooks ==
  ASSUME SchoolInv, NEW c \in Clerk, NEW q \in PayRequest, WillPay(q),
         courseClerk' = [courseClerk EXCEPT ![c] = q],
         UNCHANGED <<course, trainee, handed, byHand, paidAtOnce>>
  PROVE  SchoolInv'
<1>1. courseClerk' \in [Clerk -> PayRequest]
      /\ \A d \in Clerk : courseClerk'[d] = IF d = c THEN q ELSE courseClerk[d]
  BY DEF SchoolInv, SchoolTypes
<1>2. \A d \in Clerk : WillPay(courseClerk'[d])
  BY <1>1 DEF SchoolInv
<1>3. \A d \in Clerk : WillPay(courseClerk[d])'
  BY <1>2 DEF WillPay
<1>4. \A t \in Trainee : PaidUp(t)'
  BY DEF SchoolInv, PaidUp
<1> QED  BY <1>1, <1>3, <1>4 DEF SchoolInv, SchoolTypes

LEMMA PayLookStep ==
  ASSUME Coins, SchoolInv, NEW c \in Clerk, NEW t \in Trainee, NEW amount \in Amount,
         School!PayLook(c, t, amount)
  PROVE  SchoolInv'
<1> DEFINE row == trainee[t]
           price == course[row.course].price
           paid == row.paid + amount
           status == IF paid >= price THEN "full" ELSE row.status
           q == [School!Idle EXCEPT !.op = "pay", !.t = t, !.amount = amount, !.paid = paid,
                 !.status = status]
<1>1. /\ row.state = "enrolled" /\ paid <= price
      /\ courseClerk' = [courseClerk EXCEPT ![c] = q]
      /\ UNCHANGED <<course, trainee, handed, byHand, paidAtOnce>>
  BY DEF School!PayLook, School!Look
<1>2. row \in TraineeRow /\ row.course \in Course /\ PaidUp(t)
  BY <1>1 DEF SchoolInv, SchoolTypes, PaidUp
<1>3. price \in Nat /\ amount \in Nat /\ row.paid \in Nat
  BY <1>2 DEF SchoolInv, SchoolTypes, Coins, TraineeRow
<1>4. paid \in Nat /\ status \in PaidHow
  BY <1>2, <1>3 DEF TraineeRow, PaidHow
<1>5. status = "full" /\ t \notin byHand => paid >= price
  <2>1. CASE paid >= price
    BY <2>1
  <2>2. CASE ~(paid >= price)
    BY <1>1, <1>2, <1>3, <2>2 DEF PaidUp
  <2> QED  BY <2>1, <2>2
<1> HIDE DEF status, paid
<1>6. q \in PayRequest /\ q.op = "pay" /\ q.t = t /\ q.amount = amount /\ q.paid = paid
      /\ q.status = status
  BY <1>4 DEF School!Idle, PayRequest, PaidHow
<1> HIDE DEF q
<1>7. WillPay(q)
  BY <1>1, <1>5, <1>6 DEF WillPay, paid
<1> QED  BY <1>1, <1>6, <1>7, PayLooks

LEMMA AwayStep ==
  ASSUME SchoolInv, NEW c \in Clerk,
         School!Abort(c) \/ \E k \in Course : School!DeleteLook(c, k)
  PROVE  SchoolInv'
<1>1. CASE School!Abort(c)
  BY <1>1, IdlePays, PayLooks DEF School!Abort, WillPay
<1>2. ASSUME NEW k \in Course, School!DeleteLook(c, k)
      PROVE  SchoolInv'
  <2> DEFINE q == [School!Idle EXCEPT !.op = "delete", !.k = k]
  <2>1. q \in PayRequest /\ q.op = "delete"
    BY DEF School!Idle, PayRequest, PaidHow
  <2>2. courseClerk' = [courseClerk EXCEPT ![c] = q]
        /\ UNCHANGED <<course, trainee, handed, byHand, paidAtOnce>>
    BY <1>2 DEF School!DeleteLook, School!Look
  <2> HIDE DEF q
  <2> QED  BY <2>1, <2>2, PayLooks DEF WillPay
<1> QED  BY <1>1, <1>2

LEMMA PayStep ==
  ASSUME Coins, SchoolInv, NEW c \in Clerk, School!Pay(c)
  PROVE  SchoolInv'
<1> DEFINE r == courseClerk[c]
           row == trainee[r.t]
           price == course[row.course].price
<1>1. /\ r.op = "pay" /\ row.state = "enrolled" /\ UNCHANGED <<course, byHand>>
      /\ trainee' = [trainee EXCEPT ![r.t].paid = r.paid, ![r.t].status = r.status]
      /\ handed' = [handed EXCEPT ![r.t] = @ + r.amount]
      /\ paidAtOnce' = IF r.late THEN paidAtOnce \cup {r.t} ELSE paidAtOnce
      /\ School!PaidFor(c, r.t)
  BY DEF School!Pay
<1>2. r \in PayRequest /\ WillPay(r) /\ r.t \in Trainee /\ PaidUp(r.t) /\ row \in TraineeRow
      /\ handed[r.t] \in Nat /\ r.paid \in Nat /\ r.amount \in Nat
  BY <1>1 DEF SchoolInv, SchoolTypes, WillPay, PayRequest, Coins
<1>3. trainee' \in [Trainee -> TraineeRow] /\ handed' \in [Trainee -> Nat]
  <2> DEFINE new == [row EXCEPT !.paid = r.paid, !.status = r.status]
  <2>1. new \in TraineeRow /\ handed[r.t] + r.amount \in Nat
    <3>1. r.status \in PaidHow
      BY <1>2 DEF PayRequest
    <3> HIDE DEF r
    <3>2. new \in TraineeRow
      BY <1>2, <3>1 DEF TraineeRow
    <3>3. handed[r.t] + r.amount \in Nat
      BY <1>2
    <3> QED  BY <3>2, <3>3
  <2>2. trainee \in [Trainee -> TraineeRow] /\ handed \in [Trainee -> Nat]
    BY DEF SchoolInv, SchoolTypes
  <2>3. trainee' = [trainee EXCEPT ![r.t] = new] /\ handed' = [handed EXCEPT ![r.t] = handed[r.t] + r.amount]
    BY <1>1, <1>2, <2>2
  <2> HIDE DEF new, r
  <2> QED  BY <1>2, <2>1, <2>2, <2>3
<1>4. /\ trainee'[r.t].paid = r.paid /\ trainee'[r.t].status = r.status
      /\ trainee'[r.t].state = "enrolled" /\ trainee'[r.t].course = row.course
      /\ handed'[r.t] = handed[r.t] + r.amount
      /\ \A t \in Trainee \ {r.t} : trainee'[t] = trainee[t] /\ handed'[t] = handed[t]
  BY <1>1, <1>2 DEF SchoolInv, SchoolTypes, TraineeRow
<1>5. courseClerk' \in [Clerk -> PayRequest]
  BY IdlePays, ZenonT(30) DEF School!Pay, School!PaidFor, SchoolInv, SchoolTypes, PayRequest
<1>6. ASSUME NEW t \in Trainee
      PROVE  PaidUp(t)'
  <2>1. CASE t = r.t
    <3>1. ASSUME t \notin byHand
          PROVE  /\ r.status = "full" => r.paid >= price
                 /\ t \notin paidAtOnce' => r.paid = handed[t] + r.amount /\ handed[t] + r.amount <= price
      BY <1>1, <1>2, <2>1, <3>1 DEF WillPay, PaidUp
    <3>2. row.course \in Course
      BY <1>1, <1>2 DEF PaidUp
    <3> QED  BY <1>1, <1>4, <2>1, <3>1, <3>2 DEF PaidUp
  <2>2. CASE t # r.t
    <3>1. PaidUp(t)
      BY DEF SchoolInv
    <3>2. t \notin paidAtOnce' => t \notin paidAtOnce
      BY <1>1
    <3> QED  BY <1>1, <1>4, <2>2, <3>1, <3>2 DEF PaidUp
  <2> QED  BY <2>1, <2>2
<1>7. ASSUME NEW d \in Clerk
      PROVE  WillPay(courseClerk[d])'
  <2>1. CASE d = c
    <3>1. courseClerk'[d].op = "idle"
      BY <1>1, <2>1, IdlePays DEF School!PaidFor
    <3> QED  BY <3>1 DEF WillPay
  <2>2. CASE d # c
    <3> DEFINE q == courseClerk[d]
               p == courseClerk'[d]
    <3>1. q \in PayRequest /\ WillPay(q)
      BY DEF SchoolInv, SchoolTypes
    <3>2. p = [q EXCEPT !.late = @ \/ q.t = r.t]
      BY <1>1, <2>2 DEF School!PaidFor
    <3>3. /\ p.op = q.op /\ p.t = q.t /\ p.status = q.status /\ p.paid = q.paid
          /\ p.amount = q.amount /\ (~p.late => ~q.late /\ q.t # r.t)
      BY <3>1, <3>2 DEF PayRequest
    <3> HIDE DEF p, q
    <3>4. ASSUME p.op = "pay"
          PROVE  /\ p.t \in Trainee /\ trainee'[p.t].state # "none"
                 /\ trainee'[p.t].state = "enrolled" /\ p.t \notin byHand' =>
                     /\ p.status = "full" => p.paid >= course'[trainee'[p.t].course].price
                     /\ p.paid <= course'[trainee'[p.t].course].price
                     /\ ~p.late => p.paid = trainee'[p.t].paid + p.amount
      <4>1. q.op = "pay" /\ q.t \in Trainee
        BY <3>1, <3>3, <3>4 DEF WillPay
      <4>2. trainee'[q.t].state = trainee[q.t].state /\ trainee'[q.t].course = trainee[q.t].course
            /\ (q.t # r.t => trainee'[q.t].paid = trainee[q.t].paid)
        BY <1>1, <1>4, <4>1
      <4> QED  BY <1>1, <3>1, <3>3, <4>1, <4>2 DEF WillPay
    <3> QED  BY <3>4 DEF WillPay, p
  <2> QED  BY <2>1, <2>2
<1> QED  BY <1>1, <1>3, <1>5, <1>6, <1>7 DEF SchoolInv, SchoolTypes

\* A change that is nobody's payment leaves what is about to be paid as it was, or is one
\* by hand, or of a trainee who is gone.
LEMMA RowsChange ==
  ASSUME SchoolInv, SchoolTypes', UNCHANGED paidAtOnce,
         \A c \in Clerk : courseClerk'[c] \in {courseClerk[c], School!Idle},
         \A t \in Trainee : PaidUp(t)',
         \A t \in Trainee :
           trainee[t].state # "none" =>
             /\ trainee'[t].state # "none"
             /\ trainee'[t].state = "enrolled" /\ t \notin byHand' =>
                  /\ trainee[t].state = "enrolled" /\ t \notin byHand
                  /\ trainee'[t].paid = trainee[t].paid
                  /\ course'[trainee'[t].course].price = course[trainee[t].course].price
  PROVE  SchoolInv'
<1>1. ASSUME NEW c \in Clerk
      PROVE  WillPay(courseClerk[c])'
  <2>1. CASE courseClerk'[c] = School!Idle
    BY <2>1, IdlePays DEF WillPay
  <2>2. CASE courseClerk'[c] = courseClerk[c]
    <3>1. WillPay(courseClerk[c])
      BY DEF SchoolInv
    <3> QED  BY <2>2, <3>1 DEF WillPay
  <2> QED  BY <2>1, <2>2
<1> QED  BY <1>1 DEF SchoolInv

LEMMA SetCourseStep ==
  ASSUME SchoolInv, NEW k \in Course, NEW price \in Price, School!SetCourse(k, price)
  PROVE  SchoolInv'
<1>1. /\ course' = [course EXCEPT ![k] = [open |-> TRUE, price |-> price]]
      /\ byHand' = byHand \cup School!Enrolled(k)
      /\ UNCHANGED <<trainee, courseClerk, handed, paidAtOnce>>
  BY DEF School!SetCourse
<1>2. SchoolTypes'
  BY <1>1 DEF SchoolInv, SchoolTypes
<1>3. ASSUME NEW t \in Trainee, trainee[t].state = "enrolled", t \notin byHand'
      PROVE  t \notin byHand /\ course'[trainee[t].course].price = course[trainee[t].course].price
  <2>1. trainee[t].course \in Course /\ trainee[t].course # k
    BY <1>1, <1>3 DEF SchoolInv, PaidUp, School!Enrolled
  <2> QED  BY <1>1, <1>3, <2>1 DEF SchoolInv, SchoolTypes
<1>4. \A t \in Trainee : PaidUp(t)'
  BY <1>1, <1>3 DEF SchoolInv, PaidUp
<1> QED  BY <1>1, <1>2, <1>3, <1>4, RowsChange

LEMMA AddTraineeStep ==
  ASSUME Coins, SchoolInv, NEW t \in Trainee, NEW k \in Course, NEW paid \in Amount \cup {0},
         NEW status \in PaidHow, School!AddTrainee(t, k, paid, status)
  PROVE  SchoolInv'
<1> DEFINE row == [state |-> "enrolled", course |-> k, paid |-> paid, status |-> status]
<1>1. /\ trainee[t].state = "none" /\ trainee' = [trainee EXCEPT ![t] = row]
      /\ handed' = [handed EXCEPT ![t] = paid]
      /\ byHand' = IF paid > course[k].price \/ (status = "full" /\ paid < course[k].price)
                   THEN byHand \cup {t} ELSE byHand
      /\ UNCHANGED <<course, courseClerk, paidAtOnce>>
  BY DEF School!AddTrainee
<1>2. paid \in Nat /\ course[k].price \in Nat
  BY DEF Coins, SchoolInv, SchoolTypes
<1>3. row \in TraineeRow /\ trainee \in [Trainee -> TraineeRow] /\ handed \in [Trainee -> Nat]
  BY <1>2 DEF TraineeRow, States, SchoolInv, SchoolTypes
<1>4. row.state = "enrolled" /\ row.course = k /\ row.paid = paid /\ row.status = status
  OBVIOUS
<1> HIDE DEF row
<1>5. SchoolTypes'
  BY <1>1, <1>2, <1>3 DEF SchoolInv, SchoolTypes
<1>6. ASSUME NEW u \in Trainee
      PROVE  PaidUp(u)'
  <2>1. CASE u = t
    <3>1. t \notin byHand' => paid <= course[k].price /\ (status = "full" => paid >= course[k].price)
      BY <1>1, <1>2
    <3>2. trainee'[u] = row /\ handed'[u] = paid /\ course' = course
      BY <1>1, <1>3, <2>1
    <3> QED  BY <1>4, <2>1, <3>1, <3>2 DEF PaidUp
  <2>2. CASE u # t
    <3>1. trainee'[u] = trainee[u] /\ handed'[u] = handed[u] /\ course' = course
          /\ paidAtOnce' = paidAtOnce /\ (u \notin byHand' => u \notin byHand)
      BY <1>1, <1>3, <2>2
    <3>2. PaidUp(u)
      BY DEF SchoolInv
    <3> QED  BY <3>1, <3>2 DEF PaidUp
  <2> QED  BY <2>1, <2>2
<1>7. \A u \in Trainee : trainee[u].state # "none" =>
         trainee'[u] = trainee[u] /\ (u \notin byHand' => u \notin byHand)
  BY <1>1, <1>3
<1> QED  BY <1>1, <1>5, <1>6, <1>7, RowsChange

LEMMA UpdateTraineeStep ==
  ASSUME Coins, SchoolInv, NEW t \in Trainee, NEW paid \in Amount \cup {0}, NEW status \in PaidHow,
         School!UpdateTrainee(t, paid, status)
  PROVE  SchoolInv'
<1> DEFINE row == [trainee[t] EXCEPT !.paid = paid, !.status = status]
<1>1. /\ byHand' = byHand \cup {t} /\ UNCHANGED <<course, courseClerk, handed, paidAtOnce>>
      /\ trainee \in [Trainee -> TraineeRow] /\ PaidUp(t) /\ trainee[t].state = "enrolled"
      /\ trainee' = [trainee EXCEPT ![t].paid = paid, ![t].status = status]
  BY DEF School!UpdateTrainee, SchoolInv, SchoolTypes
<1>2. trainee' = [trainee EXCEPT ![t] = row] /\ paid \in Nat
  <2>1. paid \in Nat
    BY DEF Coins
  <2>2. trainee' = [trainee EXCEPT ![t] = row]
    BY <1>1
  <2> QED  BY <2>1, <2>2
<1>3. row \in TraineeRow /\ row.course = trainee[t].course /\ row.state = "enrolled"
  BY <1>1, <1>2 DEF TraineeRow
<1> HIDE DEF row
<1>4. SchoolTypes'
  BY <1>1, <1>2, <1>3 DEF SchoolInv, SchoolTypes
<1>5. \A u \in Trainee \ {t} : trainee'[u] = trainee[u]
  BY <1>1, <1>2
<1>6. trainee'[t] = row
  BY <1>1, <1>2
<1>7. ASSUME NEW u \in Trainee
      PROVE  PaidUp(u)'
  <2>1. CASE u = t
    BY <1>1, <1>3, <1>6, <2>1 DEF PaidUp
  <2>2. CASE u # t
    <3>1. PaidUp(u)
      BY DEF SchoolInv
    <3> QED  BY <1>1, <1>5, <2>2, <3>1 DEF PaidUp
  <2> QED  BY <2>1, <2>2
<1> QED  BY <1>1, <1>3, <1>4, <1>5, <1>6, <1>7, RowsChange

\* Trainees who go are owed nothing, and pay nothing.
LEMMA TraineesGo ==
  ASSUME SchoolInv, UNCHANGED <<handed, byHand, paidAtOnce>>,
         courseClerk' \in [Clerk -> PayRequest],
         \A c \in Clerk : courseClerk'[c] \in {courseClerk[c], School!Idle},
         course' \in [Course -> [open: BOOLEAN, price: Price \cup {0}]],
         \A k \in Course : course'[k].price = course[k].price,
         trainee' \in [Trainee -> TraineeRow],
         \A t \in Trainee : trainee'[t] = trainee[t] \/ trainee'[t].state = "gone"
  PROVE  SchoolInv'
<1>1. SchoolTypes'
  BY DEF SchoolInv, SchoolTypes
<1>2. ASSUME NEW t \in Trainee, trainee'[t].state = "enrolled"
      PROVE  trainee'[t] = trainee[t] /\ course'[trainee'[t].course].price = course[trainee[t].course].price
  BY <1>2 DEF SchoolInv, PaidUp
<1>3. \A t \in Trainee : PaidUp(t)'
  BY <1>2 DEF SchoolInv, PaidUp
<1> QED  BY <1>1, <1>2, <1>3, RowsChange

LEMMA DeleteTraineeStep ==
  ASSUME SchoolInv, NEW t \in Trainee, School!DeleteTrainee(t)
  PROVE  SchoolInv'
<1>1. trainee' \in [Trainee -> TraineeRow] /\ trainee'[t].state = "gone"
      /\ \A u \in Trainee \ {t} : trainee'[u] = trainee[u]
  BY DEF School!DeleteTrainee, SchoolInv, SchoolTypes, TraineeRow, States
<1> QED  BY <1>1, TraineesGo DEF School!DeleteTrainee, SchoolInv, SchoolTypes

LEMMA ClosedStep ==
  ASSUME SchoolInv, NEW k, School!Closed(k)
  PROVE  /\ course' \in [Course -> [open: BOOLEAN, price: Price \cup {0}]]
         /\ \A j \in Course : course'[j].price = course[j].price
         /\ trainee' \in [Trainee -> TraineeRow]
         /\ \A t \in Trainee : trainee'[t] = trainee[t] \/ trainee'[t].state = "gone"
<1>1. course \in [Course -> [open: BOOLEAN, price: Price \cup {0}]] /\ trainee \in [Trainee -> TraineeRow]
  BY DEF SchoolInv, SchoolTypes
<1>2. /\ course' = [course EXCEPT ![k].open = FALSE]
      /\ trainee' = [t \in Trainee |-> IF t \in School!Enrolled(k) THEN [trainee[t] EXCEPT !.state = "gone"]
                                       ELSE trainee[t]]
  BY DEF School!Closed
<1>3. \A t \in Trainee : [trainee[t] EXCEPT !.state = "gone"] \in TraineeRow
                         /\ [trainee[t] EXCEPT !.state = "gone"].state = "gone"
  BY <1>1 DEF TraineeRow, States
<1> QED  BY <1>1, <1>2, <1>3

LEMMA SchoolNext ==
  ASSUME Coins, SchoolInv, School!Next
  PROVE  SchoolInv'
<1>1. ASSUME NEW k \in Course, NEW price \in Price, School!Create(k, price) \/ School!Update(k, price)
      PROVE  SchoolInv'
  BY <1>1, SetCourseStep DEF School!Create, School!Update
<1>2. ASSUME NEW k \in Course, School!DeleteRoom(k)
      PROVE  SchoolInv'
  BY <1>2, ClosedStep, TraineesGo DEF School!DeleteRoom, SchoolInv, SchoolTypes
<1>3. ASSUME NEW c \in Clerk, School!Delete(c)
      PROVE  SchoolInv'
  <2>1. courseClerk' = [courseClerk EXCEPT ![c] = School!Idle] /\ courseClerk \in [Clerk -> PayRequest]
    BY <1>3 DEF School!Delete, SchoolInv, SchoolTypes
  <2> QED  BY <1>3, <2>1, IdlePays, ClosedStep, TraineesGo DEF School!Delete
<1>4. ASSUME NEW k \in Course, NEW t \in Trainee, NEW paid \in Amount \cup {0}, NEW status \in PaidHow,
             School!AddTrainee(t, k, paid, status) \/ School!UpdateTrainee(t, paid, status)
      PROVE  SchoolInv'
  BY <1>4, AddTraineeStep, UpdateTraineeStep
<1>5. ASSUME NEW t \in Trainee, NEW paid \in Amount \cup {0}, NEW status \in PaidHow,
             School!UpdateTrainee(t, paid, status)
      PROVE  SchoolInv'
  BY <1>5, UpdateTraineeStep
<1>6. ASSUME NEW t \in Trainee, School!DeleteTrainee(t)
      PROVE  SchoolInv'
  BY <1>6, DeleteTraineeStep
<1>7. ASSUME NEW c \in Clerk, \/ \E t \in Trainee, amount \in Amount : School!PayLook(c, t, amount)
                              \/ \E k \in Course : School!DeleteLook(c, k)
                              \/ School!Pay(c) \/ School!Abort(c)
      PROVE  SchoolInv'
  BY <1>7, PayLookStep, PayStep, AwayStep
<1> QED  BY <1>1, <1>2, <1>3, <1>4, <1>5, <1>6, <1>7 DEF School!Next, PaidHow

LEMMA SchoolStill == SchoolInv /\ UNCHANGED schoolVars => SchoolInv'
BY DEF schoolVars, SchoolInv, SchoolTypes, PaidUp, WillPay

LEMMA SchoolApart == [Next]_vars /\ ~SchoolStep => UNCHANGED schoolVars
BY DEF Next, vars, services, RoomStep, BookStep, DoorStep, PlanStep, TillStep, SiteStep,
       RouterStep, PeopleStep, EntryStep, LedgerStep, CallStep, DayStep

LEMMA SchoolInvariant == Coins => (Spec => []SchoolInv)
<1> SUFFICES ASSUME Coins PROVE Spec => []SchoolInv
  OBVIOUS
<1>1. Init => SchoolInv
  BY SchoolInit DEF Init
<1>2. SchoolInv /\ [Next]_vars => SchoolInv'
  BY SchoolNext, SchoolStill, SchoolApart DEF SchoolStep
<1> QED  BY <1>1, <1>2, PTL DEF Spec

\* For every set of courses, trainees, prices and payments: who counts as paid in full has
\* paid the price, and payments that do not overlap add up to what was handed over and
\* never exceed the price, unless the row or the price was set by hand
\* (addPayment, courses/courses.service).
THEOREM CoursePaymentsAddUp ==
    ASSUME Coins
    PROVE  Spec => []PaymentsAddUp
<1>1. SchoolInv => PaymentsAddUp
  BY DEF SchoolInv, PaidUp, PaymentsAddUp, School!PaymentsAddUp
<1> QED  BY <1>1, SchoolInvariant, PTL

-----------------------------------------------------------------------------
(* The subscriptions of a person.                                          *)

PlanTouched(s) == s \in edited \cup overlapped

\* What a request has found still holds, if it is not late.
Found(q) ==
    /\ q.op \in {"pause", "edit"} => q.s \in Sub
    /\ q.op \in {"create", "renew"} /\ ~q.late => \A s \in Sub : ~Plans!Live(s)
    /\ q.op = "convert" /\ ~q.late => \A s \in Sub : Plans!Live(s) => s \in q.ended
    /\ q.op = "pause" /\ ~q.late =>
         \A t \in Sub \ {q.s} : Plans!Live(t) => PlanTouched(q.s) \/ PlanTouched(t)

PlanInv ==
    /\ Plans!TypeOK
    /\ Plans!PaidSubscriptionLives
    /\ newest # NoSub => newest \in Sub /\ sub[newest].status # "none"
    /\ \A c \in Clerk : Found(subClerk[c])

LEMMA IdlePlans == Plans!Idle \in Plans!Request /\ Plans!Idle.op = "idle" /\ Plans!Idle.late = FALSE
BY DEF Plans!Idle, Plans!Request

LEMMA PlanRows ==
  ASSUME PlanInv
  PROVE  /\ \A s \in Sub : sub[s].status \in Plans!Status \cup {"none"} /\ sub[s].over \in BOOLEAN
         /\ \A s \in Sub : sub[s] = Plans!NoRow <=> sub[s].status = "none"
         /\ sub \in [Sub -> Plans!Row \cup {Plans!NoRow}]
         /\ subClerk \in [Clerk -> Plans!Request]
<1>1. sub \in [Sub -> Plans!Row \cup {Plans!NoRow}] /\ subClerk \in [Clerk -> Plans!Request]
  BY DEF PlanInv, Plans!TypeOK
<1>2. ASSUME NEW row \in Plans!Row \cup {Plans!NoRow}
      PROVE  /\ row.status \in Plans!Status \cup {"none"} /\ row.over \in BOOLEAN
             /\ row = Plans!NoRow <=> row.status = "none"
  <2>1. CASE row \in Plans!Row
    <3>1. row.status \in Plans!Status /\ row.over \in BOOLEAN
      BY <2>1 DEF Plans!Row
    <3>2. row.status # "none" /\ Plans!NoRow.status = "none"
      BY <3>1 DEF Plans!Status, Plans!NoRow
    <3> QED  BY <3>1, <3>2
  <2>2. CASE row = Plans!NoRow
    BY <2>2 DEF Plans!NoRow
  <2> QED  BY <2>1, <2>2
<1> QED  BY <1>1, <1>2

LEMMA PlanInit == Plans!Init => PlanInv
<1> SUFFICES ASSUME Plans!Init PROVE PlanInv
  OBVIOUS
<1>1. Plans!TypeOK
  BY IdlePlans DEF Plans!Init, Plans!TypeOK
<1>2. \A s \in Sub : ~Plans!Live(s)
  BY DEF Plans!Init, Plans!NoRow, Plans!Live, Plans!IsActive
<1>3. Plans!PaidSubscriptionLives
  BY <1>2 DEF Plans!Init, Plans!PaidSubscriptionLives, Plans!OneLiveSubscription, Plans!LastPaidLives
<1>4. \A c \in Clerk : subClerk[c].op = "idle"
  BY IdlePlans DEF Plans!Init
<1> QED  BY <1>1, <1>3, <1>4 DEF PlanInv, Found, Plans!Init

\* One row is written; the others are as live as they were, or less.
LEMMA OneStaysLive ==
  ASSUME PlanInv, NEW s \in Sub, \A t \in Sub \ {s} : Plans!Live(t)' => Plans!Live(t),
         edited \subseteq edited', overlapped \subseteq overlapped',
         PlanTouched(s)' \/ \A t \in Sub \ {s} : Plans!Live(t)' => PlanTouched(s)' \/ PlanTouched(t)'
  PROVE  Plans!OneLiveSubscription'
<1>1. ASSUME NEW x \in Sub, NEW y \in Sub, x # y, Plans!Live(x)', Plans!Live(y)'
      PROVE  PlanTouched(x)' \/ PlanTouched(y)'
  <2>1. CASE x = s \/ y = s
    BY <1>1, <2>1
  <2>2. CASE x # s /\ y # s
    <3>1. {x, y} \cap (edited \cup overlapped) # {}
      BY <1>1, <2>2 DEF PlanInv, Plans!PaidSubscriptionLives, Plans!OneLiveSubscription
    <3> QED  BY <3>1 DEF PlanTouched
  <2> QED  BY <2>1, <2>2
<1> QED  BY <1>1 DEF Plans!OneLiveSubscription, PlanTouched

\* Whoever has found something before this write is late.
LEMMA WrittenPlans ==
  ASSUME PlanInv, NEW c \in Clerk, NEW next \in Plans!Request, Plans!Written(c, next),
         next.op = "idle" \/ (next.op = "renew" /\ \A s \in Sub : ~Plans!Live(s)')
  PROVE  /\ subClerk' \in [Clerk -> Plans!Request]
         /\ subClerk'[c] = next
         /\ \A d \in Clerk \ {c} : subClerk'[d].op = subClerk[d].op
         /\ \A d \in Clerk : Found(subClerk[d])'
<1>1. subClerk \in [Clerk -> Plans!Request]
  BY PlanRows
<1>2. ASSUME NEW d \in Clerk, d # c
      PROVE  /\ subClerk'[d] \in Plans!Request /\ subClerk'[d].op = subClerk[d].op
             /\ subClerk'[d].s = subClerk[d].s
             /\ subClerk'[d].op = "idle" \/ subClerk'[d].late
  BY <1>1, <1>2, IdlePlans DEF Plans!Written, Plans!Request
<1>3. subClerk' \in [Clerk -> Plans!Request] /\ subClerk'[c] = next
  BY <1>2 DEF Plans!Written
<1>4. ASSUME NEW d \in Clerk
      PROVE  Found(subClerk[d])'
  <2>1. CASE d = c
    BY <1>3, <2>1 DEF Found
  <2>2. CASE d # c
    <3>1. Found(subClerk[d])
      BY DEF PlanInv
    <3> QED  BY <1>2, <2>2, <3>1 DEF Found
  <2> QED  BY <2>1, <2>2
<1> QED  BY <1>2, <1>3, <1>4

\* A request that found something, or that goes away.
LEMMA PlanLook ==
  ASSUME PlanInv, NEW c \in Clerk, NEW q \in Plans!Request, Found(q),
         subClerk' = [subClerk EXCEPT ![c] = q],
         UNCHANGED <<sub, newest, edited, overlapped>>,
         dropped' \in BOOLEAN, dropped => dropped',
         subClerk[c].op = "renew" => dropped'
  PROVE  PlanInv'
<1>1. subClerk' \in [Clerk -> Plans!Request]
      /\ \A d \in Clerk : subClerk'[d] = IF d = c THEN q ELSE subClerk[d]
  BY PlanRows
<1>2. Plans!TypeOK'
  BY <1>1 DEF PlanInv, Plans!TypeOK
<1>3. \A d \in Clerk : Found(subClerk'[d])
  BY <1>1 DEF PlanInv
<1>4. \A d \in Clerk : Found(subClerk[d])'
  BY <1>3 DEF Found, Plans!Live, Plans!IsActive, PlanTouched
<1>5. Plans!OneLiveSubscription'
  BY DEF PlanInv, Plans!PaidSubscriptionLives, Plans!OneLiveSubscription, Plans!Live, Plans!IsActive
<1>6. Plans!LastPaidLives'
  <2> SUFFICES ASSUME newest # NoSub, newest \notin edited, sub[newest].status = "expired", ~dropped'
               PROVE  sub[newest].over \/ \E d \in Clerk : subClerk'[d].op = "renew"
    BY DEF Plans!LastPaidLives
  <2>1. sub[newest].over \/ \E d \in Clerk : subClerk[d].op = "renew"
    BY DEF PlanInv, Plans!PaidSubscriptionLives, Plans!LastPaidLives
  <2> QED  BY <1>1, <2>1
<1> QED  BY <1>2, <1>4, <1>5, <1>6 DEF PlanInv, Plans!PaidSubscriptionLives

LEMMA PlanLookStep ==
  ASSUME PlanInv, NEW c \in Clerk,
         \/ Plans!CreateLook(c) \/ Plans!ConvertExpire(c) \/ Plans!Abort(c)
         \/ \E s \in Sub : Plans!PauseLook(c, s) \/ Plans!EditLook(c, s)
  PROVE  PlanInv'
<1>0. dropped \in BOOLEAN
  BY DEF PlanInv, Plans!TypeOK
<1>1. CASE Plans!CreateLook(c)
  <2> DEFINE q == [Plans!Idle EXCEPT !.op = "create", !.s = NoSub]
  <2>1. q \in Plans!Request /\ q.op = "create"
    BY DEF Plans!Idle, Plans!Request
  <2>2. /\ subClerk' = [subClerk EXCEPT ![c] = q] /\ subClerk[c] = Plans!Idle
        /\ UNCHANGED <<sub, newest, edited, overlapped, dropped>> /\ \A s \in Sub : ~Plans!Live(s)
    BY <1>1 DEF Plans!CreateLook, Plans!Look
  <2> HIDE DEF q
  <2>3. Found(q)
    BY <2>1, <2>2 DEF Found
  <2> QED  BY <1>0, <2>1, <2>2, <2>3, IdlePlans, PlanLook
<1>2. ASSUME NEW s \in Sub, Plans!PauseLook(c, s)
      PROVE  PlanInv'
  <2> DEFINE q == [Plans!Idle EXCEPT !.op = "pause", !.s = s]
  <2>1. q \in Plans!Request /\ q.op = "pause" /\ q.s = s
    BY DEF Plans!Idle, Plans!Request
  <2>2. /\ subClerk' = [subClerk EXCEPT ![c] = q] /\ subClerk[c] = Plans!Idle
        /\ UNCHANGED <<sub, newest, edited, overlapped, dropped>> /\ Plans!Live(s)
    BY <1>2 DEF Plans!PauseLook, Plans!Look, Plans!Live
  <2> HIDE DEF q
  <2>3. ASSUME NEW t \in Sub \ {s}, Plans!Live(t)
        PROVE  PlanTouched(s) \/ PlanTouched(t)
    <3>1. {s, t} \cap (edited \cup overlapped) # {}
      BY <2>2, <2>3 DEF PlanInv, Plans!PaidSubscriptionLives, Plans!OneLiveSubscription
    <3> QED  BY <3>1 DEF PlanTouched
  <2>4. Found(q)
    BY <2>1, <2>3 DEF Found
  <2> QED  BY <1>0, <2>1, <2>2, <2>4, IdlePlans, PlanLook
<1>3. ASSUME NEW s \in Sub, Plans!EditLook(c, s)
      PROVE  PlanInv'
  <2> DEFINE q == [Plans!Idle EXCEPT !.op = "edit", !.s = s]
  <2>1. q \in Plans!Request /\ q.op = "edit" /\ q.s = s
    BY DEF Plans!Idle, Plans!Request
  <2>2. /\ subClerk' = [subClerk EXCEPT ![c] = q] /\ subClerk[c] = Plans!Idle
        /\ UNCHANGED <<sub, newest, edited, overlapped, dropped>>
    BY <1>3 DEF Plans!EditLook, Plans!Look
  <2> HIDE DEF q
  <2>3. Found(q)
    BY <2>1 DEF Found
  <2> QED  BY <1>0, <2>1, <2>2, <2>3, IdlePlans, PlanLook
<1>4. CASE Plans!Abort(c)
  <2>1. Found(Plans!Idle)
    BY IdlePlans DEF Found
  <2>2. dropped' \in BOOLEAN /\ (dropped => dropped') /\ (subClerk[c].op = "renew" => dropped')
    BY <1>4 DEF Plans!Abort
  <2> QED  BY <1>4, <2>1, <2>2, IdlePlans, PlanLook DEF Plans!Abort
<1>5. CASE Plans!ConvertExpire(c)
  <2> DEFINE q == [Plans!Idle EXCEPT !.op = "convert", !.ended = Plans!Counting]
  <2>1. q \in Plans!Request /\ q.op = "convert" /\ q.ended = Plans!Counting
    BY DEF Plans!Idle, Plans!Request, Plans!Counting
  <2>2. /\ subClerk' = [subClerk EXCEPT ![c] = q] /\ subClerk[c] = Plans!Idle
        /\ UNCHANGED <<sub, newest, edited, overlapped, dropped>>
    BY <1>5 DEF Plans!ConvertExpire
  <2> HIDE DEF q
  <2>3. Found(q)
    BY <2>1 DEF Found, Plans!Live, Plans!IsActive, Plans!Counting
  <2> QED  BY <1>0, <2>1, <2>2, <2>3, IdlePlans, PlanLook
<1> QED  BY <1>1, <1>2, <1>3, <1>4, <1>5

\* Two ways to the rest of the invariant: the subscription paid for last is a new one ...
LEMMA SoldLives ==
  ASSUME PlanInv, NEW s \in Sub, NEW over \in BOOLEAN, NEW others \in [Sub -> Plans!Row \cup {Plans!NoRow}],
         sub' = [others EXCEPT ![s] = [status |-> "active", over |-> over]], newest' = s
  PROVE  /\ sub' \in [Sub -> Plans!Row \cup {Plans!NoRow}]
         /\ newest' \in Sub /\ sub'[newest'].status = "active"
         /\ Plans!LastPaidLives'
         /\ \A t \in Sub \ {s} : sub'[t] = others[t]
<1> DEFINE row == [status |-> "active", over |-> over]
<1>1. row \in Plans!Row /\ row.status = "active"
  BY DEF Plans!Row, Plans!Status
<1>2. sub' = [others EXCEPT ![s] = row]
  OBVIOUS
<1> HIDE DEF row
<1>3. sub' \in [Sub -> Plans!Row \cup {Plans!NoRow}] /\ sub'[s] = row /\ \A t \in Sub \ {s} : sub'[t] = others[t]
  BY <1>1, <1>2
<1> QED  BY <1>1, <1>3 DEF Plans!LastPaidLives

\* ... or it is as it was, or better.
LEMMA LastStays ==
  ASSUME PlanInv, UNCHANGED newest, edited \subseteq edited', dropped' = dropped,
         newest # NoSub /\ newest \notin edited' =>
           /\ sub'[newest].status = "expired" =>
                sub'[newest].over \/ (sub[newest].status = "expired" /\ (sub[newest].over => sub'[newest].over)),
         \A d \in Clerk : subClerk[d].op = "renew" => subClerk'[d].op = "renew"
  PROVE  Plans!LastPaidLives'
<1> SUFFICES ASSUME newest' # NoSub, newest' \notin edited', sub'[newest'].status = "expired", ~dropped'
             PROVE  sub'[newest'].over \/ \E c \in Clerk : subClerk'[c].op = "renew"
  BY DEF Plans!LastPaidLives
<1>1. newest # NoSub /\ newest \notin edited /\ ~dropped
  OBVIOUS
<1>2. CASE sub'[newest].over
  BY <1>2
<1>3. CASE ~sub'[newest].over
  <2>1. sub[newest].status = "expired" /\ ~sub[newest].over
    BY <1>3
  <2>2. \E c \in Clerk : subClerk[c].op = "renew"
    BY <1>1, <2>1 DEF PlanInv, Plans!PaidSubscriptionLives, Plans!LastPaidLives
  <2> QED  BY <2>2
<1> QED  BY <1>2, <1>3

LEMMA EndedRows ==
  ASSUME PlanInv, NEW ended
  PROVE  /\ Plans!Ended(ended) \in [Sub -> Plans!Row \cup {Plans!NoRow}]
         /\ \A s \in Sub : /\ s \in ended => Plans!Ended(ended)[s].status = "expired"
                           /\ s \notin ended => Plans!Ended(ended)[s] = sub[s]
<1>1. ASSUME NEW s \in Sub
      PROVE  LET row == [sub[s] EXCEPT !.status = "expired"]
             IN  row \in Plans!Row /\ row.status = "expired"
  <2>1. CASE sub[s] \in Plans!Row
    BY <2>1 DEF Plans!Row, Plans!Status
  <2>2. CASE sub[s] = Plans!NoRow
    <3> DEFINE row == [sub[s] EXCEPT !.status = "expired"]
    <3>1. row = [Plans!NoRow EXCEPT !.status = "expired"]
      BY <2>2
    <3> HIDE DEF row
    <3>2. row = [status |-> "expired", over |-> FALSE]
      BY <3>1 DEF Plans!NoRow
    <3>3. row \in Plans!Row /\ row.status = "expired"
      BY <3>2 DEF Plans!Row, Plans!Status
    <3> QED  BY <3>3 DEF row
  <2> QED  BY <2>1, <2>2, PlanRows
<1> QED  BY <1>1, PlanRows DEF Plans!Ended

LEMMA ExpiredRows ==
  ASSUME PlanInv
  PROVE  /\ Plans!Ended(Plans!Counting) \in [Sub -> Plans!Row \cup {Plans!NoRow}]
         /\ \A s \in Sub : /\ Plans!Ended(Plans!Counting)[s].status \in {"expired", "none"}
                           /\ Plans!Ended(Plans!Counting)[s].status = "none" <=> sub[s].status = "none"
<1>1. ASSUME NEW s \in Sub
      PROVE  IF s \in Plans!Counting THEN sub[s].status # "none" ELSE sub[s].status \in {"expired", "none"}
  BY PlanRows DEF Plans!Counting, Plans!Status
<1> QED  BY <1>1, EndedRows

\* A sale by a request that was late is remembered; one that was not found nobody live.
LEMMA SellStep ==
  ASSUME PlanInv, NEW c \in Clerk, subClerk[c].op \in {"create", "renew"},
         Plans!Sell(sub), Plans!Late(c, newest'), Plans!Written(c, Plans!Idle),
         UNCHANGED <<edited, dropped>>
  PROVE  PlanInv'
<1>1. PICK s \in Sub, over \in BOOLEAN :
         sub' = [sub EXCEPT ![s] = [status |-> "active", over |-> over]] /\ newest' = s
  BY DEF Plans!Sell
<1>2. /\ sub' \in [Sub -> Plans!Row \cup {Plans!NoRow}]
      /\ newest' \in Sub /\ sub'[newest'].status = "active" /\ Plans!LastPaidLives'
      /\ \A t \in Sub \ {s} : sub'[t] = sub[t]
  BY <1>1, PlanRows, SoldLives
<1>3. \A t \in Sub \ {s} : Plans!Live(t)' => Plans!Live(t)
  BY <1>2 DEF Plans!Live, Plans!IsActive
<1>4. overlapped \subseteq overlapped' /\ overlapped' \subseteq Sub
      /\ (subClerk[c].late => s \in overlapped')
  BY <1>1 DEF Plans!Late, PlanInv, Plans!TypeOK
<1>5. PlanTouched(s)' \/ \A t \in Sub \ {s} : ~Plans!Live(t)'
  <2>1. CASE subClerk[c].late
    BY <1>4, <2>1 DEF PlanTouched
  <2>2. CASE ~subClerk[c].late
    <3>1. \A t \in Sub : ~Plans!Live(t)
      BY <2>2 DEF PlanInv, Found
    <3> QED  BY <1>3, <3>1
  <2> QED  BY <2>1, <2>2
<1>6. Plans!OneLiveSubscription'
  BY <1>3, <1>4, <1>5, OneStaysLive
<1>7. subClerk' \in [Clerk -> Plans!Request] /\ \A d \in Clerk : Found(subClerk[d])'
  BY IdlePlans, WrittenPlans
<1> QED  BY <1>2, <1>4, <1>6, <1>7 DEF PlanInv, Plans!TypeOK, Plans!PaidSubscriptionLives

\* So is a conversion; one that was not has ended all that were live.
LEMMA ConvertStep ==
  ASSUME PlanInv, NEW c \in Clerk, Plans!ConvertCreate(c)
  PROVE  PlanInv'
<1> DEFINE ended == subClerk[c].ended
           others == Plans!Ended(ended)
<1>1. PICK s \in Sub, over \in BOOLEAN :
         sub' = [others EXCEPT ![s] = [status |-> "active", over |-> over]] /\ newest' = s
  BY DEF Plans!Sell, Plans!ConvertCreate
<1>2. /\ others \in [Sub -> Plans!Row \cup {Plans!NoRow}]
      /\ \A t \in Sub : /\ t \in ended => others[t].status = "expired"
                        /\ t \notin ended => others[t] = sub[t]
  BY EndedRows
<1>3. /\ subClerk[c].op = "convert" /\ Plans!Late(c, newest') /\ Plans!Written(c, Plans!Idle)
      /\ UNCHANGED <<edited, dropped>>
  BY DEF Plans!ConvertCreate
<1>4. subClerk[c].late \/ \A t \in Sub : Plans!Live(t) => t \in ended
  BY <1>3 DEF PlanInv, Found
<1> HIDE DEF others, ended
<1>5. /\ sub' \in [Sub -> Plans!Row \cup {Plans!NoRow}]
      /\ newest' \in Sub /\ sub'[newest'].status = "active" /\ Plans!LastPaidLives'
      /\ \A t \in Sub \ {s} : sub'[t] = others[t]
  BY <1>1, <1>2, SoldLives
<1>6. \A t \in Sub \ {s} : Plans!Live(t)' => Plans!Live(t) /\ t \notin ended
  BY <1>2, <1>5 DEF Plans!Live, Plans!IsActive
<1>7. overlapped \subseteq overlapped' /\ overlapped' \subseteq Sub
      /\ (subClerk[c].late => s \in overlapped')
  BY <1>1, <1>3 DEF Plans!Late, PlanInv, Plans!TypeOK
<1>8. PlanTouched(s)' \/ \A t \in Sub \ {s} : ~Plans!Live(t)'
  BY <1>4, <1>6, <1>7 DEF PlanTouched
<1>9. Plans!OneLiveSubscription'
  BY <1>3, <1>6, <1>7, <1>8, OneStaysLive
<1>10. subClerk' \in [Clerk -> Plans!Request] /\ \A d \in Clerk : Found(subClerk[d])'
  BY <1>3, IdlePlans, WrittenPlans
<1> QED  BY <1>3, <1>5, <1>7, <1>9, <1>10 DEF PlanInv, Plans!TypeOK, Plans!PaidSubscriptionLives

LEMMA RenewExpireStep ==
  ASSUME PlanInv, NEW c \in Clerk, Plans!RenewExpire(c)
  PROVE  PlanInv'
<1> DEFINE q == [Plans!Idle EXCEPT !.op = "renew"]
<1>1. q \in Plans!Request /\ q.op = "renew"
  BY DEF Plans!Idle, Plans!Request
<1>2. sub' = Plans!Ended(Plans!Counting) /\ Plans!Written(c, q) /\ UNCHANGED <<newest, edited, overlapped, dropped>>
  BY DEF Plans!RenewExpire
<1> HIDE DEF q
<1>3. \A s \in Sub : ~Plans!Live(s)'
  BY <1>2, ExpiredRows DEF Plans!Live, Plans!IsActive
<1>4. /\ subClerk' \in [Clerk -> Plans!Request] /\ subClerk'[c].op = "renew"
      /\ \A d \in Clerk : Found(subClerk[d])'
  BY <1>1, <1>2, <1>3, WrittenPlans
<1>5. Plans!PaidSubscriptionLives'
  BY <1>3, <1>4 DEF Plans!PaidSubscriptionLives, Plans!OneLiveSubscription, Plans!LastPaidLives
<1>6. newest' # NoSub => newest' \in Sub /\ sub'[newest'].status # "none"
  BY <1>2, ExpiredRows DEF PlanInv
<1> QED  BY <1>2, <1>4, <1>5, <1>6, ExpiredRows DEF PlanInv, Plans!TypeOK

LEMMA PauseStep ==
  ASSUME PlanInv, NEW c \in Clerk, Plans!Pause(c)
  PROVE  PlanInv'
<1>0. PICK s : s = subClerk[c].s
  OBVIOUS
<1> DEFINE row == [sub[s] EXCEPT !.status = "paused"]
<1>1. /\ subClerk[c].op = "pause" /\ sub' = [sub EXCEPT ![s].status = "paused"] /\ Plans!Late(c, s)
      /\ Plans!Written(c, Plans!Idle) /\ UNCHANGED <<newest, edited, dropped>>
  BY <1>0 DEF Plans!Pause
<1>2. s \in Sub /\ Found(subClerk[c]) /\ sub[s] \in Plans!Row \cup {Plans!NoRow}
  BY <1>0, <1>1, PlanRows DEF PlanInv, Found
<1>3. sub' = [sub EXCEPT ![s] = row] /\ sub \in [Sub -> Plans!Row \cup {Plans!NoRow}]
  BY <1>1, PlanRows
<1>4. row \in Plans!Row /\ row.status = "paused"
  <2>1. CASE sub[s] \in Plans!Row
    BY <2>1 DEF Plans!Row, Plans!Status
  <2>2. CASE sub[s] = Plans!NoRow
    <3>1. row = [Plans!NoRow EXCEPT !.status = "paused"]
      BY <2>2
    <3> HIDE DEF row
    <3>2. row = [status |-> "paused", over |-> FALSE]
      BY <3>1 DEF Plans!NoRow
    <3> QED  BY <3>2 DEF Plans!Row, Plans!Status
  <2> QED  BY <1>2, <2>1, <2>2
<1> HIDE DEF row
<1>5. /\ sub' \in [Sub -> Plans!Row \cup {Plans!NoRow}] /\ sub'[s] = row
      /\ \A t \in Sub \ {s} : sub'[t] = sub[t]
  BY <1>2, <1>3, <1>4
<1>6. \A t \in Sub \ {s} : Plans!Live(t)' => Plans!Live(t)
  BY <1>5 DEF Plans!Live, Plans!IsActive
<1>7. overlapped \subseteq overlapped' /\ overlapped' \subseteq Sub
      /\ (subClerk[c].late => s \in overlapped')
  BY <1>1, <1>2 DEF Plans!Late, PlanInv, Plans!TypeOK
<1>8. PlanTouched(s)' \/ \A t \in Sub \ {s} : Plans!Live(t)' => PlanTouched(s)' \/ PlanTouched(t)'
  <2>1. CASE subClerk[c].late
    BY <1>7, <2>1 DEF PlanTouched
  <2>2. CASE ~subClerk[c].late
    BY <1>0, <1>1, <1>2, <1>6, <1>7, <2>2 DEF Found, PlanTouched
  <2> QED  BY <2>1, <2>2
<1>9. Plans!OneLiveSubscription'
  BY <1>1, <1>2, <1>6, <1>7, <1>8, OneStaysLive
<1>10. /\ subClerk' \in [Clerk -> Plans!Request] /\ \A d \in Clerk : Found(subClerk[d])'
       /\ \A d \in Clerk : subClerk[d].op = "renew" => subClerk'[d].op = "renew"
  BY <1>1, IdlePlans, WrittenPlans
<1>11. newest # NoSub => /\ sub'[newest].status # "none"
                         /\ sub'[newest].status = "expired" => sub'[newest] = sub[newest]
  BY <1>4, <1>5 DEF PlanInv
<1>12. Plans!LastPaidLives'
  BY <1>1, <1>10, <1>11, LastStays
<1> QED  BY <1>1, <1>5, <1>7, <1>9, <1>10, <1>11, <1>12 DEF PlanInv, Plans!TypeOK, Plans!PaidSubscriptionLives

\* A row set by hand, or one that a merge brings.
LEMMA HandStep ==
  ASSUME PlanInv, NEW c \in Clerk, NEW s \in Sub, NEW row \in Plans!Row,
         sub' = [sub EXCEPT ![s] = row], edited' = edited \cup {s}, Plans!Written(c, Plans!Idle),
         subClerk[c].op # "renew", UNCHANGED <<newest, overlapped, dropped>>
  PROVE  PlanInv'
<1>1. /\ sub' \in [Sub -> Plans!Row \cup {Plans!NoRow}] /\ sub'[s] = row
      /\ \A t \in Sub \ {s} : sub'[t] = sub[t] /\ row.status # "none"
  BY PlanRows DEF Plans!Row, Plans!Status
<1>2. \A t \in Sub \ {s} : Plans!Live(t)' => Plans!Live(t)
  BY <1>1 DEF Plans!Live, Plans!IsActive
<1>3. Plans!OneLiveSubscription'
  BY <1>2, OneStaysLive DEF PlanTouched
<1>4. /\ subClerk' \in [Clerk -> Plans!Request] /\ \A d \in Clerk : Found(subClerk[d])'
      /\ \A d \in Clerk : subClerk[d].op = "renew" => subClerk'[d].op = "renew"
  BY IdlePlans, WrittenPlans
<1>5. row.status # "none"
  BY DEF Plans!Row, Plans!Status
<1>6. newest # NoSub => sub'[newest].status # "none" /\ (newest \notin edited' => sub'[newest] = sub[newest])
  BY <1>1, <1>5 DEF PlanInv
<1>7. Plans!LastPaidLives'
  BY <1>4, <1>6, LastStays
<1> QED  BY <1>1, <1>3, <1>4, <1>6, <1>7 DEF PlanInv, Plans!TypeOK, Plans!PaidSubscriptionLives

\* Days go by: rows that were live may be so no more.
LEMMA DaysPass ==
  ASSUME PlanInv, UNCHANGED <<subClerk, newest, edited, overlapped, dropped>>,
         sub' \in [Sub -> Plans!Row \cup {Plans!NoRow}],
         \A s \in Sub : /\ sub'[s].status = "none" <=> sub[s].status = "none"
                        /\ Plans!Live(s)' => Plans!Live(s)
                        /\ sub'[s].status = "expired" =>
                             sub'[s].over \/ sub'[s] = sub[s]
  PROVE  PlanInv'
<1>1. Plans!TypeOK'
  BY DEF PlanInv, Plans!TypeOK
<1>2. Plans!OneLiveSubscription'
  BY DEF PlanInv, Plans!PaidSubscriptionLives, Plans!OneLiveSubscription
<1>3. newest # NoSub => newest \in Sub /\ sub'[newest].status # "none"
  BY DEF PlanInv
<1>4. Plans!LastPaidLives'
  BY <1>3, LastStays
<1>5. ASSUME NEW c \in Clerk
      PROVE  Found(subClerk[c])'
  <2>1. Found(subClerk[c])
    BY DEF PlanInv
  <2> QED  BY <2>1 DEF Found, PlanTouched
<1> QED  BY <1>1, <1>2, <1>3, <1>4, <1>5 DEF PlanInv, Plans!PaidSubscriptionLives

LEMMA PlanNext ==
  ASSUME PlanInv, Plans!Next
  PROVE  PlanInv'
<1>1. ASSUME NEW s \in Sub, Plans!Pass(s)
      PROVE  PlanInv'
  <2> DEFINE row == [sub[s] EXCEPT !.over = TRUE]
  <2>1. sub \in [Sub -> Plans!Row \cup {Plans!NoRow}] /\ sub' = [sub EXCEPT ![s] = row] /\ sub[s] \in Plans!Row
        /\ UNCHANGED <<subClerk, newest, edited, overlapped, dropped>>
    BY <1>1, PlanRows DEF Plans!Pass, Plans!Exists
  <2>2. row \in Plans!Row /\ row.status = sub[s].status /\ row.over
    BY <2>1 DEF Plans!Row
  <2> HIDE DEF row
  <2>3. sub' \in [Sub -> Plans!Row \cup {Plans!NoRow}] /\ sub'[s] = row /\ \A t \in Sub \ {s} : sub'[t] = sub[t]
    BY <2>1, <2>2
  <2>4. \A t \in Sub : /\ sub'[t].status = "none" <=> sub[t].status = "none"
                       /\ Plans!Live(t)' => Plans!Live(t)
                       /\ sub'[t].status = "expired" => sub'[t].over \/ sub'[t] = sub[t]
    BY <2>2, <2>3 DEF Plans!Live, Plans!IsActive
  <2> QED  BY <2>1, <2>3, <2>4, DaysPass
<1>2. CASE Plans!expireStaleSubscriptions
  <2> DEFINE row(s) == IF sub[s].status = "active" /\ sub[s].over
                       THEN [sub[s] EXCEPT !.status = "expired"] ELSE sub[s]
  <2>1. sub' = [s \in Sub |-> row(s)] /\ UNCHANGED <<subClerk, newest, edited, overlapped, dropped>>
    BY <1>2 DEF Plans!expireStaleSubscriptions
  <2>2. ASSUME NEW s \in Sub
        PROVE  /\ row(s) \in Plans!Row \cup {Plans!NoRow}
               /\ row(s) = sub[s] \/ (row(s).status = "expired" /\ row(s).over /\ sub[s].status = "active")
    <3>1. sub[s] \in Plans!Row \/ sub[s] = Plans!NoRow
      BY PlanRows
    <3> QED  BY <3>1 DEF Plans!Row, Plans!NoRow, Plans!Status
  <2> HIDE DEF row
  <2>3. \A t \in Sub : /\ sub'[t].status = "none" <=> sub[t].status = "none"
                       /\ Plans!Live(t)' => Plans!Live(t)
                       /\ sub'[t].status = "expired" => sub'[t].over \/ sub'[t] = sub[t]
    BY <2>1, <2>2 DEF Plans!Live, Plans!IsActive
  <2> QED  BY <2>1, <2>2, <2>3, DaysPass
<1>3. ASSUME NEW c \in Clerk, Plans!Create(c) \/ Plans!RenewCreate(c)
      PROVE  PlanInv'
  BY <1>3, SellStep DEF Plans!Create, Plans!RenewCreate
<1>4. ASSUME NEW c \in Clerk, Plans!Edit(c)
      PROVE  PlanInv'
  <2>1. subClerk[c].s \in Sub /\ subClerk[c].op = "edit"
    BY <1>4 DEF Plans!Edit, PlanInv, Found
  <2> QED  BY <1>4, <2>1, HandStep DEF Plans!Edit
<1>5. ASSUME NEW c \in Clerk, NEW s \in Sub, NEW row \in Plans!Row, Plans!MergeIn(c, s, row)
      PROVE  PlanInv'
  BY <1>5, IdlePlans, HandStep DEF Plans!MergeIn
<1>6. ASSUME NEW c \in Clerk, \/ Plans!CreateLook(c) \/ Plans!ConvertExpire(c) \/ Plans!Abort(c)
                              \/ \E s \in Sub : Plans!PauseLook(c, s) \/ Plans!EditLook(c, s)
      PROVE  PlanInv'
  BY <1>6, PlanLookStep
<1>7. ASSUME NEW c \in Clerk, Plans!RenewExpire(c) \/ Plans!Pause(c) \/ Plans!ConvertCreate(c)
      PROVE  PlanInv'
  BY <1>7, RenewExpireStep, PauseStep, ConvertStep
<1> QED  BY <1>1, <1>2, <1>3, <1>4, <1>5, <1>6, <1>7 DEF Plans!Next

LEMMA PlanStill == PlanInv /\ UNCHANGED planVars => PlanInv'
BY DEF planVars, PlanInv, Plans!TypeOK, Plans!PaidSubscriptionLives, Plans!OneLiveSubscription,
       Plans!LastPaidLives, Plans!Live, Plans!IsActive, Found, PlanTouched

LEMMA PlanApart == [Next]_vars /\ ~PlanStep => UNCHANGED planVars
BY DEF Next, vars, services, RoomStep, BookStep, DoorStep, SchoolStep, TillStep, SiteStep,
       RouterStep, PeopleStep, EntryStep, LedgerStep, CallStep, DayStep

LEMMA PlanInvariant == Spec => []PlanInv
<1>1. Init => PlanInv
  BY PlanInit DEF Init
<1>2. PlanInv /\ [Next]_vars => PlanInv'
  BY PlanNext, PlanStill, PlanApart DEF PlanStep
<1> QED  BY <1>1, <1>2, PTL DEF Spec

\* For every number of subscriptions and requests: a person has one live subscription and
\* keeps the one paid for last, unless two requests overlapped, a renewal died half way,
\* or a row was edited by hand or came with a merge (subscribers/service, convertType).
THEOREM SubscriptionsLive == Spec => []PaidSubscriptionLives
<1>1. PlanInv => PaidSubscriptionLives
  BY DEF PlanInv, PaidSubscriptionLives
<1> QED  BY <1>1, PlanInvariant, PTL

-----------------------------------------------------------------------------
(* The people.                                                             *)

\* Nobody is no person, and no phone is no phone.
PeopleNames == NoPhone \notin Phone /\ Nobody \notin Human /\ MaxAsked \in Nat

\* Whom a request is about, and at which phone.
AboutSomebody(r) ==
    /\ r.op \in {"reactivate", "checkin", "rename", "convert", "archive", "restore", "merge"} =>
         r.p \in Human /\ people[r.p].state # "none"
    /\ r.op \in {"create", "reactivate", "walkin", "rename", "import", "hire", "merge"} =>
         r.phone \in Phone
    /\ r.op = "rename" => r.old \in Phone
    /\ r.op = "import" => r.type \in {"trainee", "tamkeen"}
    /\ r.op = "merge" =>
         r.q \in Human /\ r.q # r.p /\ people[r.q].state # "none" /\ r.old \in Phone \cup {NoPhone}

\* What a request that nobody overtook has seen of the person is still so.
StillSo(r) ==
    /\ r.op = "archive" => r.p \notin seated
    /\ r.op = "checkin" => people[r.p].state # "archived"
    /\ r.op = "merge" =>
         /\ r.p \notin seated /\ r.q \notin seated
         /\ people[r.p].state = "active" /\ people[r.p].phone = r.phone
    /\ r.op = "reactivate" => people[r.p].phone = r.phone
    /\ r.op = "rename" => people[r.p].phone = r.old

\* And so is what it asked of the phone, but for a subscription sold to a holder of it.
StillFree(r) ==
    /\ r.phone \notin unguarded =>
         /\ r.op \in {"create", "hire"} => ~People!PhoneTaken(r.phone, "none")
         /\ r.op = "rename" /\ r.type # "visitor" => ~People!PhoneTaken(r.phone, "none")
         /\ r.op = "reactivate" => ~People!PhoneTaken(r.phone, "visitor")
         /\ r.op = "import" =>
              /\ ~People!ImportUpdates(r.phone, r.type)
              /\ ~People!ImportRejects(r.phone, r.type)
    /\ r.op = "walkin" => People!On(r.phone) = {}
    /\ r.op = "restore" => People!On(people[r.p].phone) = {}
    /\ r.op = "convert" /\ r.type # "visitor" /\ people[r.p].phone \notin unguarded =>
         ~People!ActivePhoneConflict(people[r.p].phone, r.p, people[r.p].type # "employee")

\* At most one holder, said without counting.
OneHolder(ph) ==
    /\ \A p, q \in People!Holders(ph) : p = q
    /\ ph \in hired => People!Holders(ph) = {}

PeopleInv ==
    /\ People!TypeOK
    /\ \A ph \in Phone : walletOf[ph] \in Human => people[walletOf[ph]].state # "none"
    /\ \A d \in Clerk : AboutSomebody(asking[d])
    /\ \A d \in Clerk : ~asking[d].late => StillSo(asking[d]) /\ StillFree(asking[d])
    /\ \A ph \in Phone \ unguarded : OneHolder(ph)
    /\ People!WalletStaysWithItsPerson
    /\ People!ArchivedAreAway

\* p holds the phone.
Holds(p, ph) ==
    /\ people[p].state = "active" /\ people[p].phone = ph
    /\ people[p].type \in {"subscriber", "trainee", "tamkeen"} \/ people[p].subscribed

LEMMA HoldersHold ==
  /\ \A ph : People!Holders(ph) = {p \in Human : Holds(p, ph)}
  /\ \A ph : (People!Holders(ph))' = {p \in Human : Holds(p, ph)'}
  /\ \A ph : People!PhoneTaken(ph, "none") <=> ph \in hired \/ People!Holders(ph) # {}
BY DEF Holds, People!Holders, People!On, People!InState, People!Subscriber, People!PhoneTaken

LEMMA IdleAsks ==
  /\ People!Idle \in People!Request /\ People!Idle.op = "idle"
  /\ \A q : q.op = "idle" => AboutSomebody(q) /\ StillSo(q) /\ StillFree(q)
  /\ \A q : q.op = "idle" => AboutSomebody(q)' /\ StillSo(q)' /\ StillFree(q)'
<1>1. People!Idle \in People!Request /\ People!Idle.op = "idle"
  BY DEF People!Idle, People!Request, People!Types
<1> QED  BY <1>1 DEF AboutSomebody, StillSo, StillFree

LEMMA PeopleInit ==
  ASSUME PeopleNames, People!Init
  PROVE  PeopleInv
<1>1. People!TypeOK
  BY IdleAsks DEF People!Init, People!TypeOK, People!Row, People!Types, PeopleNames
<1>2. \A ph : ~\E p \in Human : Holds(p, ph)
  BY DEF People!Init, Holds
<1>3. \A ph \in Phone : OneHolder(ph)
  BY <1>2, HoldersHold DEF OneHolder
<1>4. \A d \in Clerk : asking[d].op = "idle"
  BY IdleAsks DEF People!Init
<1>5. \A ph \in Phone : walletOf[ph] \notin Human
  BY DEF People!Init, PeopleNames
<1>6. People!WalletStaysWithItsPerson /\ People!ArchivedAreAway
  BY <1>5 DEF People!Init, People!WalletStaysWithItsPerson, People!ArchivedAreAway
<1> QED  BY <1>1, <1>3, <1>4, <1>5, <1>6, IdleAsks DEF PeopleInv

\* One request changes, nothing else does: it looked, or went away.
LEMMA AskPeople ==
  ASSUME PeopleInv, NEW d \in Clerk, NEW q \in People!Request, asking' = [asking EXCEPT ![d] = q],
         asked' \in 0 .. MaxAsked, AboutSomebody(q), StillSo(q), StillFree(q),
         UNCHANGED <<people, hired, walletOf, seated, unguarded, loose>>
  PROVE  PeopleInv'
<1>1. asking \in [Clerk -> People!Request] /\ People!TypeOK
  BY DEF PeopleInv, People!TypeOK
<1>2. People!TypeOK'
  BY <1>1 DEF People!TypeOK
<1>3. ASSUME NEW e \in Clerk
      PROVE  AboutSomebody(asking[e])' /\ (~asking'[e].late => StillSo(asking[e])' /\ StillFree(asking[e])')
  <2>1. PICK r : r = asking'[e]
    OBVIOUS
  <2>2. AboutSomebody(r) /\ (~r.late => StillSo(r) /\ StillFree(r))
    BY <1>1, <2>1 DEF PeopleInv
  <2>3. AboutSomebody(asking[e])'
    BY <2>1, <2>2 DEF AboutSomebody
  <2>4. ~r.late => StillSo(asking[e])'
    BY <2>1, <2>2 DEF StillSo
  <2>5. ~r.late => StillFree(asking[e])'
    BY <2>1, <2>2 DEF StillFree, People!PhoneTaken, People!On, People!InState, People!Subscriber,
       People!ImportUpdates, People!ImportRejects, People!ActivePhoneConflict
  <2> QED  BY <2>1, <2>3, <2>4, <2>5
<1>4. \A ph \in Phone \ unguarded' : OneHolder(ph)'
  BY HoldersHold DEF OneHolder, PeopleInv, Holds
<1>5. People!WalletStaysWithItsPerson' /\ People!ArchivedAreAway'
  BY DEF PeopleInv, People!WalletStaysWithItsPerson, People!ArchivedAreAway
<1> QED  BY <1>2, <1>3, <1>4, <1>5 DEF PeopleInv

LEMMA LookPeople ==
  ASSUME PeopleInv, PeopleNames, NEW d \in Clerk, NEW q \in People!Request, People!Look(d, q),
         AboutSomebody(q), StillSo(q), StillFree(q)
  PROVE  PeopleInv'
<1>1. /\ asking' = [asking EXCEPT ![d] = q] /\ asked' = asked + 1 /\ asked < MaxAsked
      /\ UNCHANGED <<people, hired, walletOf, seated, unguarded, loose>>
  BY DEF People!Look, People!Free
<1>2. asked \in 0 .. MaxAsked
  BY DEF PeopleInv, People!TypeOK
<1>3. asked' \in 0 .. MaxAsked
  BY <1>1, <1>2 DEF PeopleNames
<1> QED  BY <1>1, <1>3, AskPeople

LEMMA AbortPeople ==
  ASSUME PeopleInv, NEW d \in Clerk, People!Abort(d)
  PROVE  PeopleInv'
<1>1. /\ asking' = [asking EXCEPT ![d] = People!Idle]
      /\ UNCHANGED <<people, hired, walletOf, seated, unguarded, loose, asked>>
  BY DEF People!Abort
<1>2. asked' \in 0 .. MaxAsked
  BY <1>1 DEF PeopleInv, People!TypeOK
<1> QED  BY <1>1, <1>2, IdleAsks, AskPeople

\* After a write, whoever looked before is late, and is still about somebody.
LEMMA LateRequests ==
  ASSUME PeopleInv,
         asking' \in [Clerk -> People!Request],
         \A p \in Human : people[p].state # "none" => people'[p].state # "none",
         \A e \in Clerk :
            \/ asking'[e].op = "idle"
            \/ /\ AboutSomebody(asking[e])'
               /\ ~asking'[e].late => StillSo(asking[e])' /\ StillFree(asking[e])'
            \/ /\ asking'[e].late
               /\ asking'[e].op = asking[e].op /\ asking'[e].p = asking[e].p
               /\ asking'[e].q = asking[e].q /\ asking'[e].type = asking[e].type
               /\ asking'[e].phone = asking[e].phone
               /\ asking'[e].old = asking[e].old
                  \/ (asking[e].op = "merge" /\ asking'[e].old \in Phone \cup {NoPhone})
  PROVE  \A e \in Clerk : /\ AboutSomebody(asking[e])'
                          /\ ~asking'[e].late => StillSo(asking[e])' /\ StillFree(asking[e])'
<1> SUFFICES ASSUME NEW e \in Clerk
             PROVE  /\ AboutSomebody(asking[e])'
                    /\ ~asking'[e].late => StillSo(asking[e])' /\ StillFree(asking[e])'
  OBVIOUS
<1>1. CASE asking'[e].op = "idle"
  BY <1>1 DEF AboutSomebody, StillSo, StillFree
<1>2. AboutSomebody(asking[e])
  BY DEF PeopleInv
<1>3. ASSUME asking'[e].late,
             asking'[e].op = asking[e].op /\ asking'[e].p = asking[e].p,
             asking'[e].q = asking[e].q /\ asking'[e].type = asking[e].type, asking'[e].phone = asking[e].phone,
             asking'[e].old = asking[e].old \/ (asking[e].op = "merge" /\ asking'[e].old \in Phone \cup {NoPhone})
      PROVE  AboutSomebody(asking[e])'
  BY <1>2, <1>3 DEF AboutSomebody
<1> QED  BY <1>1, <1>3

\* d ends its write; what it goes on to must be so.
LEMMA WrittenPeople ==
  ASSUME PeopleInv, NEW d \in Clerk, NEW next \in People!Request, People!Written(d, next),
         asking[d].phone \in Phone \/ asking[d].op \notin {"rename", "merge"},
         \A p \in Human : people[p].state # "none" => people'[p].state # "none",
         AboutSomebody(next)', ~next.late => StillSo(next)' /\ StillFree(next)'
  PROVE  /\ asking' \in [Clerk -> People!Request]
         /\ \A e \in Clerk : /\ AboutSomebody(asking[e])'
                             /\ ~asking'[e].late => StillSo(asking[e])' /\ StillFree(asking[e])'
<1>1. asking \in [Clerk -> People!Request]
  BY DEF PeopleInv, People!TypeOK
<1>2. ASSUME NEW e \in Clerk, e # d, asking[e] # People!Idle
      PROVE  /\ asking'[e] \in People!Request /\ asking'[e].late
             /\ asking'[e].op = asking[e].op /\ asking'[e].p = asking[e].p
             /\ asking'[e].q = asking[e].q /\ asking'[e].type = asking[e].type
             /\ asking'[e].phone = asking[e].phone
             /\ asking'[e].old = asking[e].old
                \/ (asking[e].op = "merge" /\ asking'[e].old \in Phone \cup {NoPhone})
  <2>1. PICK r \in People!Request : r = asking[e]
    BY <1>1
  <2>2. PICK w : w = People!Whereabouts(e, d)
    OBVIOUS
  <2>3. w = r.old \/ (r.op = "merge" /\ w \in Phone)
    BY <2>1, <2>2 DEF People!Whereabouts, People!At
  <2>4. asking'[e] = [r EXCEPT !.late = TRUE, !.old = w]
    BY <1>2, <2>1, <2>2 DEF People!Written
  <2> QED  BY <2>1, <2>3, <2>4 DEF People!Request
<1>3. \A e \in Clerk : e # d /\ asking[e] = People!Idle => asking'[e] = People!Idle
  BY DEF People!Written
<1>4. asking'[d] = next
  BY DEF People!Written
<1>5. asking' \in [Clerk -> People!Request]
  <2>1. \A e \in Clerk : asking'[e] \in People!Request
    BY <1>2, <1>3, <1>4, IdleAsks
  <2>2. asking' = [e \in Clerk |-> asking'[e]]
    BY DEF People!Written
  <2> QED  BY <2>1, <2>2
<1>6. AboutSomebody(asking[d])' /\ (~asking'[d].late => StillSo(asking[d])' /\ StillFree(asking[d])')
  BY <1>4 DEF AboutSomebody, StillSo, StillFree
<1> QED  BY <1>2, <1>3, <1>5, <1>6, IdleAsks, LateRequests

\* One row changes: the others hold what they held.
LEMMA RowWritten ==
  ASSUME PeopleInv, PeopleNames, NEW p \in Human, NEW row \in People!Row,
         row.state # "none", row.phone \in Phone, people' = [people EXCEPT ![p] = row]
  PROVE  /\ people' \in [Human -> People!Row] /\ people'[p] = row
         /\ \A x \in Human \ {p} : people'[x] = people[x]
         /\ \A x \in Human : people'[x].state = "none" <=> people'[x].phone = NoPhone
         /\ \A x \in Human : people[x].state # "none" => people'[x].state # "none"
         /\ \A ph : \A x \in Human \ {p} : Holds(x, ph)' => Holds(x, ph)
<1>1. people \in [Human -> People!Row] /\ \A x \in Human : people[x].state = "none" <=> people[x].phone = NoPhone
  BY DEF PeopleInv, People!TypeOK
<1>2. people' \in [Human -> People!Row] /\ people'[p] = row /\ \A x \in Human \ {p} : people'[x] = people[x]
  BY <1>1
<1>3. \A x \in Human : people'[x].state = "none" <=> people'[x].phone = NoPhone
  BY <1>1, <1>2 DEF PeopleNames
<1>4. \A ph : \A x \in Human \ {p} : Holds(x, ph)' => Holds(x, ph)
  BY <1>2 DEF Holds
<1> QED  BY <1>1, <1>2, <1>3, <1>4

\* One person may come to hold one phone.
LEMMA OneMoreHolder ==
  ASSUME PeopleInv, NEW p \in Human, NEW ph0 \in Phone,
         unguarded \subseteq unguarded', hired' \subseteq hired,
         \A ph : \A x \in Human \ {p} : Holds(x, ph)' => Holds(x, ph),
         \A ph \in Phone \ {ph0} : Holds(p, ph)' => Holds(p, ph),
         \/ Holds(p, ph0)' => Holds(p, ph0)
         \/ ph0 \in unguarded'
         \/ ph0 \notin hired /\ \A x \in Human \ {p} : ~Holds(x, ph0)
  PROVE  \A ph \in Phone \ unguarded' : OneHolder(ph)'
<1> SUFFICES ASSUME NEW ph \in Phone \ unguarded'
             PROVE  /\ \A x, y \in Human : Holds(x, ph)' /\ Holds(y, ph)' => x = y
                    /\ ph \in hired' => \A x \in Human : ~Holds(x, ph)'
  BY HoldersHold DEF OneHolder
<1>1. /\ \A x, y \in Human : Holds(x, ph) /\ Holds(y, ph) => x = y
      /\ ph \in hired => \A x \in Human : ~Holds(x, ph)
  BY HoldersHold DEF OneHolder, PeopleInv
<1>2. CASE Holds(p, ph)' => Holds(p, ph)
  BY <1>1, <1>2
<1>3. CASE ph = ph0 /\ ph0 \notin hired /\ \A x \in Human \ {p} : ~Holds(x, ph0)
  BY <1>3
<1> QED  BY <1>2, <1>3

\* Wallets stay, and so do the phones of the people they are named after.
LEMMA WalletsStay ==
  ASSUME PeopleInv, UNCHANGED walletOf, loose \subseteq loose',
         \A x \in Human : people[x].state # "none" /\ x \notin loose' => people'[x].phone = people[x].phone,
         \A x \in Human : people[x].state # "none" => people'[x].state # "none"
  PROVE  /\ People!WalletStaysWithItsPerson'
         /\ \A ph \in Phone : walletOf'[ph] \in Human => people'[walletOf'[ph]].state # "none"
BY DEF PeopleInv, People!WalletStaysWithItsPerson

LEMMA AwayStays ==
  ASSUME PeopleInv, loose \subseteq loose',
         \A x \in Human \ loose' : people'[x].state = "archived" /\ x \in seated' =>
                                     people[x].state = "archived" /\ x \in seated
  PROVE  People!ArchivedAreAway'
BY DEF PeopleInv, People!ArchivedAreAway

\* A new row of a phone that is free for it, or flagged.
LEMMA NewPerson ==
  ASSUME PeopleInv, PeopleNames, NEW p \in Human, NEW ph0 \in Phone, NEW type \in People!Types,
         NEW subbed \in BOOLEAN, People!NewRow(p, ph0, type, subbed),
         unguarded \subseteq unguarded', UNCHANGED <<hired, walletOf, seated, loose>>,
         \/ type \in {"visitor", "employee"} /\ ~subbed
         \/ ph0 \in unguarded'
         \/ ph0 \notin hired /\ People!Holders(ph0) = {}
  PROVE  /\ people' \in [Human -> People!Row]
         /\ people[p].state = "none" /\ people'[p].state = "active" /\ people'[p].phone = ph0
         /\ \A x \in Human : people'[x].state = "none" <=> people'[x].phone = NoPhone
         /\ \A x \in Human : people[x].state # "none" => people'[x].state # "none"
         /\ \A ph \in Phone : walletOf'[ph] \in Human => people'[walletOf'[ph]].state # "none"
         /\ \A ph \in Phone \ unguarded' : OneHolder(ph)'
         /\ People!WalletStaysWithItsPerson' /\ People!ArchivedAreAway'
<1> DEFINE row == [state |-> "active", type |-> type, phone |-> ph0, subscribed |-> subbed]
<1>1. row \in People!Row /\ row.state = "active" /\ row.phone = ph0 /\ row.type = type /\ row.subscribed = subbed
  BY DEF People!Row
<1>2. people' = [people EXCEPT ![p] = row] /\ people[p].state = "none"
  BY DEF People!NewRow
<1> HIDE DEF row
<1>3. /\ people' \in [Human -> People!Row] /\ people'[p] = row
      /\ \A x \in Human \ {p} : people'[x] = people[x]
      /\ \A x \in Human : people'[x].state = "none" <=> people'[x].phone = NoPhone
      /\ \A x \in Human : people[x].state # "none" => people'[x].state # "none"
      /\ \A ph : \A x \in Human \ {p} : Holds(x, ph)' => Holds(x, ph)
  BY <1>1, <1>2, RowWritten
<1>4. \A ph \in Phone \ {ph0} : Holds(p, ph)' => Holds(p, ph)
  BY <1>1, <1>3 DEF Holds
<1>5. \/ Holds(p, ph0)' => Holds(p, ph0)
      \/ ph0 \in unguarded'
      \/ ph0 \notin hired /\ \A x \in Human \ {p} : ~Holds(x, ph0)
  BY <1>1, <1>3, HoldersHold DEF Holds
<1>6. \A ph \in Phone \ unguarded' : OneHolder(ph)'
  BY <1>3, <1>4, <1>5, OneMoreHolder
<1>7. \A x \in Human : people[x].state # "none" => people'[x].phone = people[x].phone
  BY <1>2, <1>3
<1>8. /\ People!WalletStaysWithItsPerson'
      /\ \A ph \in Phone : walletOf'[ph] \in Human => people'[walletOf'[ph]].state # "none"
  BY <1>3, <1>7, WalletsStay
<1>9. People!ArchivedAreAway'
  BY <1>1, <1>3, AwayStays
<1> QED  BY <1>1, <1>2, <1>3, <1>6, <1>8, <1>9

\* The facts about a request that its write uses.
LEMMA Asking ==
  ASSUME PeopleInv, NEW d \in Clerk
  PROVE  /\ asking[d] \in People!Request /\ AboutSomebody(asking[d])
         /\ ~asking[d].late => StillSo(asking[d]) /\ StillFree(asking[d])
BY DEF PeopleInv, People!TypeOK

LEMMA CreatePerson ==
  ASSUME PeopleInv, PeopleNames, NEW d \in Clerk, People!Create(d)
  PROVE  PeopleInv'
<1>1. PICK r : r = asking[d]
  OBVIOUS
<1>2. /\ r.op = "create" /\ r \in People!Request /\ r.phone \in Phone
      /\ People!Flag(r.phone, r.late /\ People!PhoneTaken(r.phone, "none"))
      /\ People!Written(d, People!Idle) /\ UNCHANGED <<hired, walletOf, seated, loose, asked>>
  BY <1>1, Asking DEF People!Create, People!At, People!Written, AboutSomebody
<1>3. PICK p \in Human, subbed \in BOOLEAN : People!NewRow(p, r.phone, r.type, subbed)
  BY <1>1 DEF People!Create
<1>4. /\ unguarded \subseteq unguarded' /\ unguarded' \subseteq Phone
      /\ r.late /\ People!PhoneTaken(r.phone, "none") => r.phone \in unguarded'
  BY <1>2 DEF People!Flag, PeopleInv, People!TypeOK
<1>5. r.phone \in unguarded' \/ (r.phone \notin hired /\ People!Holders(r.phone) = {})
  BY <1>1, <1>2, <1>4, Asking, HoldersHold DEF StillFree
<1>6. r.type \in People!Types
  BY <1>2 DEF People!Request
<1>7. /\ people' \in [Human -> People!Row]
      /\ \A x \in Human : people'[x].state = "none" <=> people'[x].phone = NoPhone
      /\ \A x \in Human : people[x].state # "none" => people'[x].state # "none"
      /\ \A ph \in Phone : walletOf'[ph] \in Human => people'[walletOf'[ph]].state # "none"
      /\ \A ph \in Phone \ unguarded' : OneHolder(ph)'
      /\ People!WalletStaysWithItsPerson' /\ People!ArchivedAreAway'
  BY <1>2, <1>3, <1>4, <1>5, <1>6, NewPerson
<1>8. /\ asking' \in [Clerk -> People!Request]
      /\ \A e \in Clerk : /\ AboutSomebody(asking[e])'
                          /\ ~asking'[e].late => StillSo(asking[e])' /\ StillFree(asking[e])'
  BY <1>1, <1>2, <1>7, IdleAsks, WrittenPeople
<1> QED  BY <1>2, <1>4, <1>7, <1>8 DEF PeopleInv, People!TypeOK

LEMMA ImportPerson ==
  ASSUME PeopleInv, PeopleNames, NEW d \in Clerk, People!Import(d)
  PROVE  PeopleInv'
<1>1. PICK r : r = asking[d]
  OBVIOUS
<1> DEFINE off == \/ r.type = "trainee" /\ \E p \in People!On(r.phone) : people[p].type = "tamkeen"
                  \/ r.late /\ (People!ImportUpdates(r.phone, r.type) \/ People!ImportRejects(r.phone, r.type))
<1>2. /\ r.op = "import" /\ r \in People!Request /\ r.phone \in Phone
      /\ People!Flag(r.phone, off)
      /\ People!Written(d, People!Idle) /\ UNCHANGED <<hired, walletOf, seated, loose, asked>>
  BY <1>1, Asking DEF People!Import, People!At, People!Written, AboutSomebody
<1>3. PICK p \in Human : People!NewRow(p, r.phone, r.type, FALSE)
  BY <1>1 DEF People!Import
<1>4. /\ unguarded \subseteq unguarded' /\ unguarded' \subseteq Phone /\ (off => r.phone \in unguarded')
  BY <1>2 DEF People!Flag, PeopleInv, People!TypeOK
<1>5. r.phone \in unguarded' \/ (r.phone \notin hired /\ People!Holders(r.phone) = {})
  <2> SUFFICES ASSUME r.phone \notin unguarded'
               PROVE  r.phone \notin hired /\ People!Holders(r.phone) = {}
    OBVIOUS
  <2>1. ~People!ImportUpdates(r.phone, r.type) /\ ~People!ImportRejects(r.phone, r.type)
    <3>1. CASE r.late
      BY <1>4, <3>1
    <3>2. CASE ~r.late
      BY <1>1, <1>2, <1>4, <3>2, Asking DEF StillFree
    <3> QED  BY <3>1, <3>2
  <2>2. r.type \in {"trainee", "tamkeen"}
    BY <1>1, <1>2, Asking DEF AboutSomebody
  <2>3. ~(r.type = "trainee" /\ \E x \in People!On(r.phone) : people[x].type = "tamkeen")
    BY <1>4
  <2> QED  BY <2>1, <2>2, <2>3 DEF People!ImportUpdates, People!ImportRejects, People!Holders
<1>6. r.type \in People!Types
  BY <1>2 DEF People!Request
<1> HIDE DEF off
<1>7. /\ people' \in [Human -> People!Row]
      /\ \A x \in Human : people'[x].state = "none" <=> people'[x].phone = NoPhone
      /\ \A x \in Human : people[x].state # "none" => people'[x].state # "none"
      /\ \A ph \in Phone : walletOf'[ph] \in Human => people'[walletOf'[ph]].state # "none"
      /\ \A ph \in Phone \ unguarded' : OneHolder(ph)'
      /\ People!WalletStaysWithItsPerson' /\ People!ArchivedAreAway'
  BY <1>2, <1>3, <1>4, <1>5, <1>6, NewPerson
<1>8. /\ asking' \in [Clerk -> People!Request]
      /\ \A e \in Clerk : /\ AboutSomebody(asking[e])'
                          /\ ~asking'[e].late => StillSo(asking[e])' /\ StillFree(asking[e])'
  BY <1>1, <1>2, <1>7, IdleAsks, WrittenPeople
<1> QED  BY <1>2, <1>4, <1>7, <1>8 DEF PeopleInv, People!TypeOK

LEMMA WalkInPerson ==
  ASSUME PeopleInv, PeopleNames, NEW d \in Clerk, People!WalkIn(d)
  PROVE  PeopleInv'
<1>1. PICK r : r = asking[d]
  OBVIOUS
<1> DEFINE off == \/ r.phone \in hired /\ r.type \notin {"visitor", "employee"}
                  \/ r.late /\ People!On(r.phone) # {}
<1>2. /\ r.op = "walkin" /\ r \in People!Request /\ r.phone \in Phone
      /\ People!Flag(r.phone, off) /\ UNCHANGED <<hired, walletOf, seated, loose>>
  BY <1>1, Asking DEF People!WalkIn, People!At, AboutSomebody
<1>3. PICK p \in Human : /\ People!NewRow(p, r.phone, r.type, FALSE)
                         /\ People!Written(d, [People!Idle EXCEPT !.op = "checkin", !.p = p])
  BY <1>1 DEF People!WalkIn
<1>4. /\ unguarded \subseteq unguarded' /\ unguarded' \subseteq Phone /\ (off => r.phone \in unguarded')
  BY <1>2 DEF People!Flag, PeopleInv, People!TypeOK
<1>5. \/ r.type \in {"visitor", "employee"}
      \/ r.phone \in unguarded'
      \/ r.phone \notin hired /\ People!Holders(r.phone) = {}
  <2> SUFFICES ASSUME r.phone \notin unguarded', r.type \notin {"visitor", "employee"}
               PROVE  r.phone \notin hired /\ People!Holders(r.phone) = {}
    OBVIOUS
  <2>1. r.phone \notin hired /\ People!On(r.phone) = {}
    BY <1>1, <1>2, <1>4, Asking DEF StillFree
  <2> QED  BY <2>1 DEF People!Holders
<1>6. r.type \in People!Types
  BY <1>2 DEF People!Request
<1> HIDE DEF off
<1>7. /\ people' \in [Human -> People!Row] /\ people'[p].state = "active"
      /\ \A x \in Human : people'[x].state = "none" <=> people'[x].phone = NoPhone
      /\ \A x \in Human : people[x].state # "none" => people'[x].state # "none"
      /\ \A ph \in Phone : walletOf'[ph] \in Human => people'[walletOf'[ph]].state # "none"
      /\ \A ph \in Phone \ unguarded' : OneHolder(ph)'
      /\ People!WalletStaysWithItsPerson' /\ People!ArchivedAreAway'
  BY <1>2, <1>3, <1>4, <1>5, <1>6, NewPerson
<1>8. PICK next : next = [People!Idle EXCEPT !.op = "checkin", !.p = p]
  OBVIOUS
<1>9. next \in People!Request /\ next.op = "checkin" /\ next.p = p
  BY <1>8, IdleAsks DEF People!Request
<1>10. AboutSomebody(next)' /\ StillSo(next)' /\ StillFree(next)'
  BY <1>7, <1>9 DEF AboutSomebody, StillSo, StillFree
<1>11. /\ asking' \in [Clerk -> People!Request]
       /\ \A e \in Clerk : /\ AboutSomebody(asking[e])'
                           /\ ~asking'[e].late => StillSo(asking[e])' /\ StillFree(asking[e])'
  BY <1>1, <1>2, <1>3, <1>7, <1>8, <1>9, <1>10, WrittenPeople
<1>12. asked' = asked
  BY <1>3 DEF People!Written
<1> QED  BY <1>2, <1>4, <1>7, <1>11, <1>12 DEF PeopleInv, People!TypeOK

LEMMA ReactivatePerson ==
  ASSUME PeopleInv, PeopleNames, NEW d \in Clerk, People!Reactivate(d)
  PROVE  PeopleInv'
<1>1. PICK r : r = asking[d]
  OBVIOUS
<1>2. PICK p : p = r.p
  OBVIOUS
<1> DEFINE off == \/ People!On(r.phone) \ {p} # {}
                  \/ r.late /\ People!PhoneTaken(r.phone, "visitor")
<1>3. /\ r.op = "reactivate" /\ r \in People!Request /\ r.phone \in Phone
      /\ p \in Human /\ people[p].state # "none" /\ People!Flag(r.phone, off)
      /\ People!Lose(p, r.late /\ people[p].phone # r.phone)
      /\ People!Written(d, People!Idle) /\ UNCHANGED <<hired, walletOf, seated, asked>>
  BY <1>1, <1>2, Asking, ZenonT(30) DEF People!Reactivate, People!At, People!Written, AboutSomebody
<1>4. PICK subbed \in {people[p].subscribed, TRUE} :
         people' = [people EXCEPT ![p].type = "subscriber", ![p].phone = r.phone, ![p].subscribed = subbed]
  BY <1>1, <1>2 DEF People!Reactivate
<1> DEFINE row == [people[p] EXCEPT !.type = "subscriber", !.phone = r.phone, !.subscribed = subbed]
<1>5. people \in [Human -> People!Row] /\ people[p].subscribed \in BOOLEAN
  BY <1>3 DEF PeopleInv, People!TypeOK, People!Row
<1>6. /\ row \in People!Row /\ row.state = people[p].state /\ row.phone = r.phone
      /\ people' = [people EXCEPT ![p] = row]
  BY <1>3, <1>4, <1>5 DEF People!Row, People!Types
<1> HIDE DEF row
<1>7. /\ people' \in [Human -> People!Row] /\ people'[p] = row
      /\ \A x \in Human \ {p} : people'[x] = people[x]
      /\ \A x \in Human : people'[x].state = "none" <=> people'[x].phone = NoPhone
      /\ \A x \in Human : people[x].state # "none" => people'[x].state # "none"
      /\ \A ph : \A x \in Human \ {p} : Holds(x, ph)' => Holds(x, ph)
  BY <1>3, <1>6, RowWritten
<1>8. /\ unguarded \subseteq unguarded' /\ unguarded' \subseteq Phone /\ (off => r.phone \in unguarded')
      /\ loose \subseteq loose' /\ loose' \subseteq Human
      /\ r.late /\ people[p].phone # r.phone => p \in loose'
  BY <1>3 DEF People!Flag, People!Lose, PeopleInv, People!TypeOK
<1>9. r.phone \in unguarded' \/ (r.phone \notin hired /\ \A x \in Human \ {p} : ~Holds(x, r.phone))
  <2> SUFFICES ASSUME r.phone \notin unguarded'
               PROVE  r.phone \notin hired /\ \A x \in Human \ {p} : ~Holds(x, r.phone)
    OBVIOUS
  <2>1. r.phone \notin hired
    <3>1. CASE r.late
      BY <1>8, <3>1 DEF People!PhoneTaken
    <3>2. CASE ~r.late
      BY <1>1, <1>3, <1>8, <3>2, Asking DEF StillFree, People!PhoneTaken
    <3> QED  BY <3>1, <3>2
  <2>2. People!On(r.phone) \ {p} = {}
    BY <1>8
  <2> QED  BY <2>1, <2>2 DEF Holds, People!On, People!InState
<1> HIDE DEF off
<1>10. \A ph \in Phone \ {r.phone} : Holds(p, ph)' => Holds(p, ph)
  BY <1>6, <1>7 DEF Holds
<1>11. \A ph \in Phone \ unguarded' : OneHolder(ph)'
  BY <1>3, <1>7, <1>8, <1>9, <1>10, OneMoreHolder
<1>12. p \notin loose' => people[p].phone = r.phone
  BY <1>1, <1>2, <1>3, <1>8, Asking DEF StillSo
<1>13. \A x \in Human : people[x].state # "none" /\ x \notin loose' => people'[x].phone = people[x].phone
  BY <1>6, <1>7, <1>12
<1>14. /\ People!WalletStaysWithItsPerson'
       /\ \A ph \in Phone : walletOf'[ph] \in Human => people'[walletOf'[ph]].state # "none"
  BY <1>3, <1>7, <1>8, <1>13, WalletsStay
<1>15. People!ArchivedAreAway'
  BY <1>3, <1>6, <1>7, <1>8, AwayStays
<1>16. /\ asking' \in [Clerk -> People!Request]
       /\ \A e \in Clerk : /\ AboutSomebody(asking[e])'
                           /\ ~asking'[e].late => StillSo(asking[e])' /\ StillFree(asking[e])'
  BY <1>1, <1>3, <1>7, IdleAsks, WrittenPeople
<1> QED  BY <1>3, <1>7, <1>8, <1>11, <1>14, <1>15, <1>16 DEF PeopleInv, People!TypeOK

LEMMA HirePerson ==
  ASSUME PeopleInv, NEW d \in Clerk, People!Hire(d)
  PROVE  PeopleInv'
<1>1. PICK r : r = asking[d]
  OBVIOUS
<1>2. /\ r.op = "hire" /\ r \in People!Request /\ r.phone \in Phone /\ hired' = hired \cup {r.phone}
      /\ People!Flag(r.phone, r.late /\ People!PhoneTaken(r.phone, "none"))
      /\ People!Written(d, People!Idle) /\ UNCHANGED <<people, walletOf, seated, loose, asked>>
  BY <1>1, Asking DEF People!Hire, People!At, People!Written, AboutSomebody
<1>3. /\ unguarded \subseteq unguarded' /\ unguarded' \subseteq Phone
      /\ r.late /\ People!PhoneTaken(r.phone, "none") => r.phone \in unguarded'
  BY <1>2 DEF People!Flag, PeopleInv, People!TypeOK
<1>4. r.phone \in unguarded' \/ People!Holders(r.phone) = {}
  BY <1>1, <1>2, <1>3, Asking, HoldersHold DEF StillFree
<1>5. \A ph : \A x \in Human : Holds(x, ph)' <=> Holds(x, ph)
  BY <1>2 DEF Holds
<1>6. \A ph \in Phone \ unguarded' : OneHolder(ph)'
  <2> SUFFICES ASSUME NEW ph \in Phone \ unguarded'
               PROVE  /\ \A x, y \in Human : Holds(x, ph) /\ Holds(y, ph) => x = y
                      /\ ph \in hired' => \A x \in Human : ~Holds(x, ph)
    BY <1>5, HoldersHold DEF OneHolder
  <2>1. /\ \A x, y \in Human : Holds(x, ph) /\ Holds(y, ph) => x = y
        /\ ph \in hired => \A x \in Human : ~Holds(x, ph)
    BY <1>3, HoldersHold DEF OneHolder, PeopleInv
  <2> QED  BY <1>2, <1>4, <2>1, HoldersHold
<1>7. /\ asking' \in [Clerk -> People!Request]
      /\ \A e \in Clerk : /\ AboutSomebody(asking[e])'
                          /\ ~asking'[e].late => StillSo(asking[e])' /\ StillFree(asking[e])'
  BY <1>1, <1>2, IdleAsks, WrittenPeople
<1>8. People!WalletStaysWithItsPerson' /\ People!ArchivedAreAway'
  BY <1>2 DEF PeopleInv, People!WalletStaysWithItsPerson, People!ArchivedAreAway
<1> QED  BY <1>2, <1>3, <1>6, <1>7, <1>8 DEF PeopleInv, People!TypeOK

\* The session is inserted of whoever was archived meanwhile, and that is remembered.
LEMMA CheckInPerson ==
  ASSUME PeopleInv, NEW d \in Clerk, People!CheckIn(d)
  PROVE  PeopleInv'
<1>1. PICK r : r = asking[d]
  OBVIOUS
<1>2. PICK p : p = r.p
  OBVIOUS
<1>3. /\ r.op = "checkin" /\ r \in People!Request /\ p \in Human /\ seated' = seated \cup {p}
      /\ People!Lose(p, r.late /\ people[p].state = "archived")
      /\ People!Written(d, People!Idle) /\ UNCHANGED <<people, hired, walletOf, unguarded, asked>>
  BY <1>1, <1>2, Asking DEF People!CheckIn, People!At, People!Written, AboutSomebody
<1>4. /\ loose \subseteq loose' /\ loose' \subseteq Human
      /\ r.late /\ people[p].state = "archived" => p \in loose'
  BY <1>3 DEF People!Lose, PeopleInv, People!TypeOK
<1>5. p \in loose' \/ people[p].state # "archived"
  BY <1>1, <1>2, <1>3, <1>4, Asking DEF StillSo
<1>6. People!ArchivedAreAway'
  BY <1>3, <1>4, <1>5, AwayStays
<1>7. /\ People!WalletStaysWithItsPerson'
      /\ \A ph \in Phone : walletOf'[ph] \in Human => people'[walletOf'[ph]].state # "none"
  BY <1>3, <1>4, WalletsStay
<1>8. \A ph \in Phone \ unguarded' : OneHolder(ph)'
  BY <1>3, HoldersHold DEF OneHolder, PeopleInv, Holds
<1>9. /\ asking' \in [Clerk -> People!Request]
      /\ \A e \in Clerk : /\ AboutSomebody(asking[e])'
                          /\ ~asking'[e].late => StillSo(asking[e])' /\ StillFree(asking[e])'
  BY <1>1, <1>3, IdleAsks, WrittenPeople
<1> QED  BY <1>3, <1>4, <1>6, <1>7, <1>8, <1>9 DEF PeopleInv, People!TypeOK

\* Where the wallets are after one has moved.
LEMMA WalletMoved ==
  ASSUME PeopleInv, NEW old \in Phone, NEW new \in Phone
  PROVE  LET w == People!MoveWallet(old, new)
             moves == old # new /\ walletOf[old] # Nobody
         IN  /\ w \in [Phone -> Human \cup {Nobody}]
             /\ moves => w[new] = walletOf[old] /\ w[old] = Nobody
             /\ \A ph \in Phone : (moves /\ ph \in {old, new}) \/ w[ph] = walletOf[ph]
BY DEF People!MoveWallet, PeopleInv, People!TypeOK

\* A phone moves with the wallet that was found on it; one that is named after somebody
\* else, or one whose person moved on meanwhile, is remembered.
LEMMA RenamePerson ==
  ASSUME PeopleInv, PeopleNames, NEW d \in Clerk, People!Rename(d)
  PROVE  PeopleInv'
<1>1. PICK r : r = asking[d]
  OBVIOUS
<1>2. PICK p : p = r.p
  OBVIOUS
<1> DEFINE managed == people[p].type # "visitor" \/ people[p].subscribed
           off == managed /\ (r.type = "visitor" \/ (r.late /\ People!PhoneTaken(r.phone, "none")))
           row == [people[p] EXCEPT !.phone = r.phone]
<1>3. /\ r.op = "rename" /\ r \in People!Request /\ r.phone \in Phone /\ r.old \in Phone
      /\ p \in Human /\ people[p].state # "none" /\ People!Flag(r.phone, off)
      /\ walletOf' = People!MoveWallet(r.old, r.phone)
      /\ people' = [people EXCEPT ![p].phone = r.phone]
      /\ loose' = loose \cup ({walletOf[r.old]} \ {p, Nobody})
                        \cup {x \in {p} : r.late /\ people[x].phone # r.old}
      /\ People!Written(d, People!Idle) /\ UNCHANGED <<hired, seated, asked>>
  BY <1>1, <1>2, Asking, ZenonT(30) DEF People!Rename, People!At, People!Written, AboutSomebody
<1>4. people \in [Human -> People!Row]
  BY DEF PeopleInv, People!TypeOK
<1>5. /\ row \in People!Row /\ row.state = people[p].state /\ row.phone = r.phone
      /\ row.type = people[p].type /\ row.subscribed = people[p].subscribed
      /\ people' = [people EXCEPT ![p] = row]
  BY <1>3, <1>4 DEF People!Row
<1>6. /\ unguarded \subseteq unguarded' /\ unguarded' \subseteq Phone /\ (off => r.phone \in unguarded')
      /\ loose \subseteq loose'
  BY <1>3 DEF People!Flag, PeopleInv, People!TypeOK
<1> HIDE DEF row
<1>7. /\ people' \in [Human -> People!Row] /\ people'[p] = row
      /\ \A x \in Human \ {p} : people'[x] = people[x]
      /\ \A x \in Human : people'[x].state = "none" <=> people'[x].phone = NoPhone
      /\ \A x \in Human : people[x].state # "none" => people'[x].state # "none"
      /\ \A ph : \A x \in Human \ {p} : Holds(x, ph)' => Holds(x, ph)
  BY <1>3, <1>5, RowWritten
<1>8. \/ Holds(p, r.phone)' => Holds(p, r.phone)
      \/ r.phone \in unguarded'
      \/ r.phone \notin hired /\ \A x \in Human \ {p} : ~Holds(x, r.phone)
  <2>1. CASE ~managed
    BY <1>5, <1>7, <2>1 DEF Holds
  <2>2. CASE managed /\ r.phone \notin unguarded'
    <3>1. ~People!PhoneTaken(r.phone, "none")
      <4>1. CASE r.late
        BY <1>6, <2>2, <4>1
      <4>2. CASE ~r.late
        BY <1>1, <1>3, <1>6, <2>2, <4>2, Asking DEF StillFree
      <4> QED  BY <4>1, <4>2
    <3> QED  BY <3>1, HoldersHold
  <2> QED  BY <2>1, <2>2
<1> HIDE DEF off
<1>9. \A ph \in Phone \ {r.phone} : Holds(p, ph)' => Holds(p, ph)
  BY <1>5, <1>7 DEF Holds
<1>10. \A ph \in Phone \ unguarded' : OneHolder(ph)'
  BY <1>3, <1>6, <1>7, <1>8, <1>9, OneMoreHolder
<1>11. /\ walletOf' \in [Phone -> Human \cup {Nobody}]
       /\ r.old # r.phone /\ walletOf[r.old] # Nobody =>
            walletOf'[r.phone] = walletOf[r.old] /\ walletOf'[r.old] = Nobody
       /\ \A ph \in Phone : \/ r.old # r.phone /\ walletOf[r.old] # Nobody /\ ph \in {r.old, r.phone}
                            \/ walletOf'[ph] = walletOf[ph]
  BY <1>3, WalletMoved
<1>12. walletOf[r.old] \in Human \cup {Nobody} /\ loose' \subseteq Human
  BY <1>3 DEF PeopleInv, People!TypeOK
<1>13. p \notin loose' => people[p].phone = r.old
  BY <1>1, <1>2, <1>3, Asking DEF StillSo
<1>14. \A ph \in Phone : walletOf'[ph] \in Human => people'[walletOf'[ph]].state # "none"
  BY <1>3, <1>7, <1>11, <1>12 DEF PeopleInv, PeopleNames
<1>15. People!WalletStaysWithItsPerson'
  <2> SUFFICES ASSUME NEW ph \in Phone, walletOf'[ph] \in Human, walletOf'[ph] \notin loose'
               PROVE  people'[walletOf'[ph]].phone = ph
    BY DEF People!WalletStaysWithItsPerson
  <2>1. PICK y \in Human : y = walletOf'[ph]
    OBVIOUS
  <2>2. y # Nobody /\ y \notin loose
    BY <1>6, <2>1 DEF PeopleNames
  <2>3. walletOf[ph] = y => people[y].phone = ph
    BY <2>2 DEF PeopleInv, People!WalletStaysWithItsPerson
  <2>4. CASE r.old # r.phone /\ walletOf[r.old] # Nobody /\ ph \in {r.old, r.phone}
    <3>1. ph = r.phone /\ y = walletOf[r.old]
      BY <1>11, <2>1, <2>2, <2>4
    <3>2. y = p
      BY <1>3, <2>1, <2>2, <3>1
    <3> QED  BY <1>5, <1>7, <2>1, <3>1, <3>2
  <2>5. CASE walletOf'[ph] = walletOf[ph]
    <3>1. CASE y = p
      <4>1. ph = r.old
        BY <1>13, <2>1, <2>3, <2>5, <3>1
      <4>2. r.old = r.phone
        BY <1>11, <2>1, <2>2, <2>5, <4>1
      <4> QED  BY <1>5, <1>7, <2>1, <3>1, <4>1, <4>2
    <3>2. CASE y # p
      BY <1>7, <2>1, <2>3, <2>5, <3>2
    <3> QED  BY <3>1, <3>2
  <2> QED  BY <1>11, <2>4, <2>5
<1>16. People!ArchivedAreAway'
  BY <1>3, <1>5, <1>6, <1>7, AwayStays
<1>17. /\ asking' \in [Clerk -> People!Request]
       /\ \A e \in Clerk : /\ AboutSomebody(asking[e])'
                           /\ ~asking'[e].late => StillSo(asking[e])' /\ StillFree(asking[e])'
  BY <1>1, <1>3, <1>7, IdleAsks, WrittenPeople
<1> QED  BY <1>3, <1>6, <1>7, <1>10, <1>11, <1>12, <1>14, <1>15, <1>16, <1>17 DEF PeopleInv, People!TypeOK

LEMMA ConvertPerson ==
  ASSUME PeopleInv, PeopleNames, NEW d \in Clerk, People!Convert(d)
  PROVE  PeopleInv'
<1>1. PICK r : r = asking[d]
  OBVIOUS
<1>2. PICK p, ph0 : p = r.p /\ ph0 = people[p].phone
  OBVIOUS
<1> DEFINE off == \/ people[p].type = "employee" /\ ph0 \in hired
                  \/ r.late /\ People!ActivePhoneConflict(ph0, p, TRUE)
           subbed == people[p].subscribed \/ r.type = "subscriber"
           row == [people[p] EXCEPT !.type = r.type, !.subscribed = subbed]
<1>3. /\ r.op = "convert" /\ r \in People!Request /\ p \in Human /\ people[p].state # "none"
      /\ People!Flag(ph0, off)
      /\ people' = [people EXCEPT ![p].type = r.type, ![p].subscribed = subbed]
      /\ People!Written(d, People!Idle) /\ UNCHANGED <<hired, walletOf, seated, loose, asked>>
  BY <1>1, <1>2, Asking, ZenonT(30) DEF People!Convert, People!At, People!Written, AboutSomebody
<1>4. people \in [Human -> People!Row] /\ ph0 \in Phone
  BY <1>2, <1>3 DEF PeopleInv, People!TypeOK, People!Row
<1>5. /\ row \in People!Row /\ row.state = people[p].state /\ row.phone = ph0
      /\ row.type = r.type /\ (row.subscribed => people[p].subscribed \/ r.type = "subscriber")
      /\ people' = [people EXCEPT ![p] = row]
  <2>1. subbed \in BOOLEAN /\ (subbed => people[p].subscribed \/ r.type = "subscriber")
    OBVIOUS
  <2> HIDE DEF subbed
  <2>2. people' = [people EXCEPT ![p] = row]
    BY <1>3, <1>4
  <2>3. r.type \in People!Types /\ people[p] \in People!Row
    BY <1>3, <1>4 DEF People!Request
  <2>4. /\ row \in People!Row /\ row.state = people[p].state /\ row.phone = ph0
        /\ row.type = r.type /\ row.subscribed = subbed
    BY <1>2, <2>1, <2>3 DEF People!Row
  <2> QED  BY <2>1, <2>2, <2>4
<1>6. unguarded \subseteq unguarded' /\ unguarded' \subseteq Phone /\ (off => ph0 \in unguarded')
  BY <1>3, <1>4 DEF People!Flag, PeopleInv, People!TypeOK
<1> HIDE DEF row
<1>7. /\ people' \in [Human -> People!Row] /\ people'[p] = row
      /\ \A x \in Human \ {p} : people'[x] = people[x]
      /\ \A x \in Human : people'[x].state = "none" <=> people'[x].phone = NoPhone
      /\ \A x \in Human : people[x].state # "none" => people'[x].state # "none"
      /\ \A ph : \A x \in Human \ {p} : Holds(x, ph)' => Holds(x, ph)
  BY <1>3, <1>4, <1>5, RowWritten
<1>8. \/ Holds(p, ph0)' => Holds(p, ph0)
      \/ ph0 \in unguarded'
      \/ ph0 \notin hired /\ \A x \in Human \ {p} : ~Holds(x, ph0)
  <2>1. CASE r.type = "visitor"
    BY <1>2, <1>5, <1>7, <2>1 DEF Holds
  <2>2. CASE r.type # "visitor" /\ ph0 \notin unguarded'
    <3>1. ~off
      BY <1>6, <2>2
    <3>2. ph0 \notin hired /\ ~People!ActivePhoneConflict(ph0, p, FALSE)
      <4>1. CASE r.late
        BY <3>1, <4>1 DEF People!ActivePhoneConflict
      <4>2. CASE ~r.late
        <5>1. ~People!ActivePhoneConflict(ph0, p, people[p].type # "employee")
          BY <1>1, <1>2, <1>3, <1>6, <2>2, <4>2, Asking DEF StillFree
        <5> QED  BY <3>1, <5>1 DEF People!ActivePhoneConflict
      <4> QED  BY <4>1, <4>2
    <3>3. ASSUME NEW x \in Human \ {p}, Holds(x, ph0) PROVE FALSE
      BY <3>2, <3>3 DEF Holds, People!ActivePhoneConflict, People!On, People!InState
    <3> QED  BY <3>2, <3>3
  <2> QED  BY <2>1, <2>2
<1> HIDE DEF off
<1>9. \A ph \in Phone \ {ph0} : Holds(p, ph)' => Holds(p, ph)
  BY <1>5, <1>7 DEF Holds
<1>10. \A ph \in Phone \ unguarded' : OneHolder(ph)'
  BY <1>3, <1>4, <1>6, <1>7, <1>8, <1>9, OneMoreHolder
<1>11. /\ People!WalletStaysWithItsPerson'
       /\ \A ph \in Phone : walletOf'[ph] \in Human => people'[walletOf'[ph]].state # "none"
  BY <1>2, <1>3, <1>5, <1>7, WalletsStay
<1>12. People!ArchivedAreAway'
  BY <1>3, <1>5, <1>7, AwayStays
<1>13. /\ asking' \in [Clerk -> People!Request]
       /\ \A e \in Clerk : /\ AboutSomebody(asking[e])'
                           /\ ~asking'[e].late => StillSo(asking[e])' /\ StillFree(asking[e])'
  BY <1>1, <1>3, <1>7, IdleAsks, WrittenPeople
<1> QED  BY <1>3, <1>6, <1>7, <1>10, <1>11, <1>12, <1>13 DEF PeopleInv, People!TypeOK

LEMMA ArchivePerson ==
  ASSUME PeopleInv, PeopleNames, NEW d \in Clerk, People!Archive(d)
  PROVE  PeopleInv'
<1>1. PICK r : r = asking[d]
  OBVIOUS
<1>2. PICK p, ph0 : p = r.p /\ ph0 = people[p].phone
  OBVIOUS
<1> DEFINE row == [people[p] EXCEPT !.state = "archived"]
<1>3. /\ r.op = "archive" /\ r \in People!Request /\ p \in Human /\ people[p].state # "none"
      /\ people' = [people EXCEPT ![p].state = "archived"] /\ People!Lose(p, r.late /\ p \in seated)
      /\ People!Written(d, People!Idle) /\ UNCHANGED <<hired, walletOf, seated, unguarded, asked>>
  BY <1>1, <1>2, Asking DEF People!Archive, People!At, People!Written, AboutSomebody
<1>4. people \in [Human -> People!Row] /\ ph0 \in Phone
  BY <1>2, <1>3 DEF PeopleInv, People!TypeOK, People!Row
<1>5. /\ row \in People!Row /\ row.state = "archived" /\ row.phone = ph0
      /\ people' = [people EXCEPT ![p] = row]
  BY <1>2, <1>3, <1>4 DEF People!Row
<1>6. /\ loose \subseteq loose' /\ loose' \subseteq Human /\ (r.late /\ p \in seated => p \in loose')
  BY <1>3 DEF People!Lose, PeopleInv, People!TypeOK
<1> HIDE DEF row
<1>7. /\ people' \in [Human -> People!Row] /\ people'[p] = row
      /\ \A x \in Human \ {p} : people'[x] = people[x]
      /\ \A x \in Human : people'[x].state = "none" <=> people'[x].phone = NoPhone
      /\ \A x \in Human : people[x].state # "none" => people'[x].state # "none"
      /\ \A ph : \A x \in Human \ {p} : Holds(x, ph)' => Holds(x, ph)
  BY <1>3, <1>4, <1>5, RowWritten
<1>8. \A ph : ~Holds(p, ph)'
  BY <1>5, <1>7 DEF Holds
<1>9. \A ph \in Phone \ unguarded' : OneHolder(ph)'
  BY <1>3, <1>4, <1>7, <1>8, OneMoreHolder
<1>10. /\ People!WalletStaysWithItsPerson'
       /\ \A ph \in Phone : walletOf'[ph] \in Human => people'[walletOf'[ph]].state # "none"
  BY <1>2, <1>3, <1>5, <1>6, <1>7, WalletsStay
<1>11. p \in loose' \/ p \notin seated
  BY <1>1, <1>2, <1>3, <1>6, Asking DEF StillSo
<1>12. People!ArchivedAreAway'
  BY <1>3, <1>6, <1>7, <1>11, AwayStays
<1>13. /\ asking' \in [Clerk -> People!Request]
       /\ \A e \in Clerk : /\ AboutSomebody(asking[e])'
                           /\ ~asking'[e].late => StillSo(asking[e])' /\ StillFree(asking[e])'
  BY <1>1, <1>3, <1>7, IdleAsks, WrittenPeople
<1> QED  BY <1>3, <1>6, <1>7, <1>9, <1>10, <1>12, <1>13 DEF PeopleInv, People!TypeOK

LEMMA RestorePerson ==
  ASSUME PeopleInv, PeopleNames, NEW d \in Clerk, People!Restore(d)
  PROVE  PeopleInv'
<1>1. PICK r : r = asking[d]
  OBVIOUS
<1>2. PICK p, ph0 : p = r.p /\ ph0 = people[p].phone
  OBVIOUS
<1> DEFINE row == [people[p] EXCEPT !.state = "active"]
           off == ph0 \in hired \/ (r.late /\ People!On(ph0) # {})
<1>3. /\ r.op = "restore" /\ r \in People!Request /\ p \in Human /\ people[p].state # "none"
      /\ people' = [people EXCEPT ![p].state = "active"] /\ People!Flag(ph0, off)
      /\ People!Written(d, People!Idle) /\ UNCHANGED <<hired, walletOf, seated, loose, asked>>
  BY <1>1, <1>2, Asking, ZenonT(30) DEF People!Restore, People!At, People!Written, AboutSomebody
<1>4. people \in [Human -> People!Row] /\ ph0 \in Phone
  BY <1>2, <1>3 DEF PeopleInv, People!TypeOK, People!Row
<1>5. /\ row \in People!Row /\ row.state = "active" /\ row.phone = ph0
      /\ people' = [people EXCEPT ![p] = row]
  BY <1>2, <1>3, <1>4 DEF People!Row
<1>6. unguarded \subseteq unguarded' /\ unguarded' \subseteq Phone /\ (off => ph0 \in unguarded')
  BY <1>3, <1>4 DEF People!Flag, PeopleInv, People!TypeOK
<1> HIDE DEF row
<1>7. /\ people' \in [Human -> People!Row] /\ people'[p] = row
      /\ \A x \in Human \ {p} : people'[x] = people[x]
      /\ \A x \in Human : people'[x].state = "none" <=> people'[x].phone = NoPhone
      /\ \A x \in Human : people[x].state # "none" => people'[x].state # "none"
      /\ \A ph : \A x \in Human \ {p} : Holds(x, ph)' => Holds(x, ph)
  BY <1>3, <1>4, <1>5, RowWritten
<1>8. ph0 \in unguarded' \/ (ph0 \notin hired /\ \A x \in Human \ {p} : ~Holds(x, ph0))
  <2> SUFFICES ASSUME ph0 \notin unguarded'
               PROVE  ph0 \notin hired /\ \A x \in Human \ {p} : ~Holds(x, ph0)
    OBVIOUS
  <2>1. ph0 \notin hired /\ People!On(ph0) = {}
    BY <1>1, <1>2, <1>3, <1>6, Asking DEF StillFree
  <2> QED  BY <2>1 DEF Holds, People!On, People!InState
<1> HIDE DEF off
<1>9. \A ph \in Phone \ {ph0} : Holds(p, ph)' => Holds(p, ph)
  BY <1>5, <1>7 DEF Holds
<1>10. \A ph \in Phone \ unguarded' : OneHolder(ph)'
  BY <1>3, <1>4, <1>6, <1>7, <1>8, <1>9, OneMoreHolder
<1>11. /\ People!WalletStaysWithItsPerson'
       /\ \A ph \in Phone : walletOf'[ph] \in Human => people'[walletOf'[ph]].state # "none"
  BY <1>2, <1>3, <1>5, <1>7, WalletsStay
<1>12. People!ArchivedAreAway'
  BY <1>3, <1>5, <1>7, AwayStays
<1>13. /\ asking' \in [Clerk -> People!Request]
       /\ \A e \in Clerk : /\ AboutSomebody(asking[e])'
                           /\ ~asking'[e].late => StillSo(asking[e])' /\ StillFree(asking[e])'
  BY <1>1, <1>3, <1>7, IdleAsks, WrittenPeople
<1> QED  BY <1>3, <1>6, <1>7, <1>10, <1>11, <1>12, <1>13 DEF PeopleInv, People!TypeOK

\* The rows that a merge writes.
LEMMA MergedRows ==
  ASSUME PeopleInv, PeopleNames, NEW p \in Human, NEW q \in Human, p # q,
         people[p].state # "none", people[q].state # "none",
         people' = [people EXCEPT ![p].subscribed = @ \/ people[q].subscribed,
                                  ![q].subscribed = FALSE, ![q].state = "archived"]
  PROVE  /\ people' \in [Human -> People!Row]
         /\ people'[q].state = "archived"
         /\ people'[p].state = people[p].state /\ people'[p].type = people[p].type
         /\ people'[p].subscribed => people[p].subscribed \/ people[q].subscribed
         /\ \A x \in Human \ {p, q} : people'[x] = people[x]
         /\ \A x \in Human : people'[x].phone = people[x].phone
         /\ \A x \in Human : people'[x].state = "none" <=> people'[x].phone = NoPhone
         /\ \A x \in Human : people[x].state # "none" => people'[x].state # "none"
<1> DEFINE subbed == people[p].subscribed \/ people[q].subscribed
           row == [people[p] EXCEPT !.subscribed = subbed]
           gone == [people[q] EXCEPT !.subscribed = FALSE, !.state = "archived"]
<1>1. people \in [Human -> People!Row] /\ \A x \in Human : people[x].state = "none" <=> people[x].phone = NoPhone
  BY DEF PeopleInv, People!TypeOK
<1>2. subbed \in BOOLEAN /\ (subbed => people[p].subscribed \/ people[q].subscribed)
  OBVIOUS
<1>3. people' = [people EXCEPT ![p].subscribed = subbed, ![q].subscribed = FALSE, ![q].state = "archived"]
  OBVIOUS
<1> HIDE DEF subbed
<1>4. /\ row \in People!Row /\ row.state = people[p].state /\ row.type = people[p].type
      /\ row.phone = people[p].phone /\ row.subscribed = subbed
  BY <1>1, <1>2 DEF People!Row
<1>5. /\ gone \in People!Row /\ gone.state = "archived" /\ gone.phone = people[q].phone
  BY <1>1 DEF People!Row
<1>6. people' = [people EXCEPT ![p] = row, ![q] = gone]
  BY <1>1, <1>3
<1> HIDE DEF row, gone
<1>7. people'[p] = row /\ people'[q] = gone /\ \A x \in Human \ {p, q} : people'[x] = people[x]
  BY <1>1, <1>6
<1>8. people' \in [Human -> People!Row]
  BY <1>1, <1>4, <1>5, <1>6
<1>9. \A x \in Human : people'[x].phone = people[x].phone
  BY <1>4, <1>5, <1>7
<1>10. \A x \in Human : people'[x].state = "none" <=> people'[x].phone = NoPhone
  BY <1>1, <1>4, <1>5, <1>7, <1>9
<1> QED  BY <1>1, <1>2, <1>4, <1>5, <1>7, <1>8, <1>9, <1>10

LEMMA MergePerson ==
  ASSUME PeopleInv, PeopleNames, NEW d \in Clerk, People!Merge(d)
  PROVE  PeopleInv'
<1>1. PICK r : r = asking[d]
  OBVIOUS
<1>2. PICK p, q, ph0 : p = r.p /\ q = r.q /\ ph0 = people[p].phone
  OBVIOUS
<1> DEFINE had == r.old # NoPhone /\ walletOf[r.old] # Nobody
           off == people[q].subscribed /\ ~People!Subscriber(p)
           left == r.late /\ (people[p].phone # r.phone \/ (q \in seated /\ people[p].state = "archived"))
<1>3. /\ r.op = "merge" /\ r \in People!Request /\ r.phone \in Phone /\ r.old \in Phone \cup {NoPhone}
      /\ p \in Human /\ q \in Human /\ p # q
      /\ people[p].state # "none" /\ people[q].state # "none"
  BY <1>1, <1>2, Asking, ZenonT(30) DEF People!Merge, People!At, AboutSomebody
<1>4. /\ People!Flag(ph0, off) /\ People!Lose(p, left)
      /\ walletOf' = IF had THEN [People!MoveWallet(r.old, r.phone) EXCEPT ![r.phone] = p] ELSE walletOf
      /\ seated' = IF q \in seated THEN (seated \ {q}) \cup {p} ELSE seated
      /\ people' = [people EXCEPT ![p].subscribed = @ \/ people[q].subscribed,
                                  ![q].subscribed = FALSE, ![q].state = "archived"]
      /\ People!Written(d, People!Idle) /\ UNCHANGED <<hired, asked>>
  BY <1>1, <1>2, ZenonT(30) DEF People!Merge, People!Written
<1>5. /\ people' \in [Human -> People!Row]
      /\ people'[q].state = "archived"
      /\ people'[p].state = people[p].state /\ people'[p].type = people[p].type
      /\ people'[p].subscribed => people[p].subscribed \/ people[q].subscribed
      /\ \A x \in Human \ {p, q} : people'[x] = people[x]
      /\ \A x \in Human : people'[x].phone = people[x].phone
      /\ \A x \in Human : people'[x].state = "none" <=> people'[x].phone = NoPhone
      /\ \A x \in Human : people[x].state # "none" => people'[x].state # "none"
  BY <1>3, <1>4, MergedRows, ZenonT(30)
<1>6. ph0 \in Phone
  BY <1>2, <1>3 DEF PeopleInv, People!TypeOK, People!Row
<1>7. /\ unguarded \subseteq unguarded' /\ unguarded' \subseteq Phone /\ (off => ph0 \in unguarded')
      /\ loose \subseteq loose' /\ loose' \subseteq Human /\ (left => p \in loose')
  BY <1>3, <1>4, <1>6 DEF People!Flag, People!Lose, PeopleInv, People!TypeOK
<1>8. \A ph \in Phone \ unguarded' : OneHolder(ph)'
  <2>1. \A ph : \A x \in Human \ {p} : Holds(x, ph)' => Holds(x, ph)
    BY <1>3, <1>5 DEF Holds
  <2>2. \A ph \in Phone \ {ph0} : Holds(p, ph)' => Holds(p, ph)
    BY <1>2, <1>3, <1>5 DEF Holds
  <2>3. ph0 \in unguarded' \/ (Holds(p, ph0)' => Holds(p, ph0))
    BY <1>3, <1>5, <1>7 DEF Holds, People!Subscriber
  <2> QED  BY <1>3, <1>4, <1>6, <1>7, <2>1, <2>2, <2>3, OneMoreHolder
<1>9. p \notin loose' => people[p].phone = r.phone
  BY <1>1, <1>2, <1>3, <1>7, Asking DEF StillSo
<1>10. /\ walletOf' \in [Phone -> Human \cup {Nobody}]
       /\ \A ph \in Phone : \/ walletOf'[ph] = walletOf[ph] \/ walletOf'[ph] = Nobody
                            \/ ph = r.phone /\ walletOf'[ph] = p
  <2>1. CASE ~had
    BY <1>4, <2>1 DEF PeopleInv, People!TypeOK
  <2>2. CASE had
    <3>1. r.old \in Phone
      BY <1>3, <2>2
    <3> DEFINE w == People!MoveWallet(r.old, r.phone)
    <3>2. /\ w \in [Phone -> Human \cup {Nobody}]
          /\ r.old # r.phone /\ walletOf[r.old] # Nobody => w[r.phone] = walletOf[r.old] /\ w[r.old] = Nobody
          /\ \A ph \in Phone : \/ r.old # r.phone /\ walletOf[r.old] # Nobody /\ ph \in {r.old, r.phone}
                               \/ w[ph] = walletOf[ph]
      BY <1>3, <3>1, WalletMoved
    <3>3. walletOf' = [w EXCEPT ![r.phone] = p]
      BY <1>4, <2>2
    <3> HIDE DEF w
    <3> QED  BY <1>3, <3>2, <3>3
  <2> QED  BY <2>1, <2>2
<1> HIDE DEF had, off
<1>11. \A ph \in Phone : walletOf'[ph] \in Human => people'[walletOf'[ph]].state # "none"
  BY <1>3, <1>5, <1>10 DEF PeopleInv, PeopleNames
<1>12. People!WalletStaysWithItsPerson'
  <2> SUFFICES ASSUME NEW ph \in Phone, walletOf'[ph] \in Human, walletOf'[ph] \notin loose'
               PROVE  people'[walletOf'[ph]].phone = ph
    BY DEF People!WalletStaysWithItsPerson
  <2>1. CASE ph = r.phone /\ walletOf'[ph] = p
    BY <1>3, <1>5, <1>9, <2>1
  <2>2. CASE walletOf'[ph] = walletOf[ph]
    BY <1>5, <1>7, <2>2 DEF PeopleInv, People!WalletStaysWithItsPerson
  <2> QED  BY <1>10, <2>1, <2>2 DEF PeopleNames
<1>13. People!ArchivedAreAway'
  <2>1. p \notin loose' /\ q \in seated => people[p].state # "archived"
    BY <1>1, <1>2, <1>3, <1>7, Asking DEF StillSo
  <2>2. \A x \in Human \ loose' : people'[x].state = "archived" /\ x \in seated' =>
                                    people[x].state = "archived" /\ x \in seated
    BY <1>3, <1>4, <1>5, <2>1
  <2> QED  BY <1>7, <2>2, AwayStays
<1>14. /\ asking' \in [Clerk -> People!Request]
       /\ \A e \in Clerk : /\ AboutSomebody(asking[e])'
                           /\ ~asking'[e].late => StillSo(asking[e])' /\ StillFree(asking[e])'
  BY <1>1, <1>3, <1>4, <1>5, IdleAsks, WrittenPeople
<1>15. seated' \subseteq Human
  BY <1>3, <1>4 DEF PeopleInv, People!TypeOK
<1> QED  BY <1>4, <1>5, <1>7, <1>8, <1>10, <1>11, <1>12, <1>13, <1>14, <1>15, ZenonT(30) DEF PeopleInv, People!TypeOK

\* The edit form of a session leaves the wallet behind, and that is remembered.
LEMMA SessionPhoneEdited ==
  ASSUME PeopleInv, PeopleNames, NEW p \in Human, NEW ph0 \in Phone, People!EditSessionPhone(p, ph0)
  PROVE  PeopleInv'
<1> DEFINE row == [people[p] EXCEPT !.phone = ph0]
           off == people[p].type # "visitor" \/ people[p].subscribed
<1>1. /\ people[p].state # "none" /\ people' = [people EXCEPT ![p].phone = ph0]
      /\ People!Flag(ph0, off) /\ loose' = loose \cup {p} /\ asked < MaxAsked /\ asked' = asked + 1
      /\ asking' = [e \in Clerk |-> IF asking[e] = People!Idle THEN People!Idle
                                    ELSE [asking[e] EXCEPT !.late = TRUE]]
      /\ UNCHANGED <<hired, walletOf, seated>>
  BY DEF People!EditSessionPhone
<1>2. people \in [Human -> People!Row] /\ asking \in [Clerk -> People!Request] /\ asked \in 0 .. MaxAsked
  BY DEF PeopleInv, People!TypeOK
<1>3. /\ row \in People!Row /\ row.state = people[p].state /\ row.phone = ph0
      /\ row.type = people[p].type /\ row.subscribed = people[p].subscribed
      /\ people' = [people EXCEPT ![p] = row]
  BY <1>1, <1>2 DEF People!Row
<1>4. unguarded \subseteq unguarded' /\ unguarded' \subseteq Phone /\ (off => ph0 \in unguarded')
  BY <1>1 DEF People!Flag, PeopleInv, People!TypeOK
<1> HIDE DEF row
<1>5. /\ people' \in [Human -> People!Row] /\ people'[p] = row
      /\ \A x \in Human \ {p} : people'[x] = people[x]
      /\ \A x \in Human : people'[x].state = "none" <=> people'[x].phone = NoPhone
      /\ \A x \in Human : people[x].state # "none" => people'[x].state # "none"
      /\ \A ph : \A x \in Human \ {p} : Holds(x, ph)' => Holds(x, ph)
  BY <1>1, <1>3, RowWritten
<1>6. ph0 \in unguarded' \/ (Holds(p, ph0)' => Holds(p, ph0))
  BY <1>3, <1>4, <1>5 DEF Holds
<1>7. \A ph \in Phone \ {ph0} : Holds(p, ph)' => Holds(p, ph)
  BY <1>3, <1>5 DEF Holds
<1>8. \A ph \in Phone \ unguarded' : OneHolder(ph)'
  BY <1>1, <1>4, <1>5, <1>6, <1>7, OneMoreHolder
<1>9. /\ People!WalletStaysWithItsPerson'
      /\ \A ph \in Phone : walletOf'[ph] \in Human => people'[walletOf'[ph]].state # "none"
  BY <1>1, <1>5, WalletsStay
<1>10. People!ArchivedAreAway'
  BY <1>1, <1>3, <1>5, AwayStays
<1>11. ASSUME NEW e \in Clerk
       PROVE  /\ asking'[e] \in People!Request
              /\ \/ asking'[e].op = "idle"
                 \/ /\ asking'[e].late
                    /\ asking'[e].op = asking[e].op /\ asking'[e].p = asking[e].p
                    /\ asking'[e].q = asking[e].q /\ asking'[e].type = asking[e].type
                    /\ asking'[e].phone = asking[e].phone /\ asking'[e].old = asking[e].old
  BY <1>1, <1>2, IdleAsks DEF People!Request
<1>12. asking' \in [Clerk -> People!Request]
  BY <1>1, <1>11
<1>13. \A e \in Clerk : /\ AboutSomebody(asking[e])'
                        /\ ~asking'[e].late => StillSo(asking[e])' /\ StillFree(asking[e])'
  BY <1>5, <1>11, <1>12, LateRequests
<1>14. asked' \in 0 .. MaxAsked
  BY <1>1, <1>2 DEF PeopleNames
<1>15. walletOf' \in [Phone -> Human \cup {Nobody}] /\ hired' \subseteq Phone /\ seated' \subseteq Human
       /\ loose' \subseteq Human
  BY <1>1 DEF PeopleInv, People!TypeOK
<1> QED  BY <1>4, <1>5, <1>8, <1>9, <1>10, <1>12, <1>13, <1>14, <1>15 DEF PeopleInv, People!TypeOK

\* A subscription changes nothing that a request asked for, but where it is flagged.
LEMMA RenewPerson ==
  ASSUME PeopleInv, PeopleNames, NEW p \in Human, People!Renew(p)
  PROVE  PeopleInv'
<1>1. PICK ph0 : ph0 = people[p].phone
  OBVIOUS
<1> DEFINE row == [people[p] EXCEPT !.subscribed = TRUE]
           off == people[p].type # "subscriber"
<1>2. /\ people[p].state # "none" /\ people' = [people EXCEPT ![p].subscribed = TRUE]
      /\ People!Flag(ph0, off) /\ asked < MaxAsked /\ asked' = asked + 1
      /\ UNCHANGED <<hired, walletOf, seated, asking, loose>>
  BY <1>1 DEF People!Renew
<1>3. people \in [Human -> People!Row] /\ asked \in 0 .. MaxAsked /\ ph0 \in Phone
  BY <1>1, <1>2 DEF PeopleInv, People!TypeOK, People!Row
<1>4. /\ row \in People!Row /\ row.state = people[p].state /\ row.phone = ph0
      /\ row.type = people[p].type /\ row.subscribed
      /\ people' = [people EXCEPT ![p] = row]
  BY <1>1, <1>2, <1>3 DEF People!Row
<1>5. unguarded \subseteq unguarded' /\ unguarded' \subseteq Phone /\ (off => ph0 \in unguarded')
  BY <1>2, <1>3 DEF People!Flag, PeopleInv, People!TypeOK
<1> HIDE DEF row
<1>6. /\ people' \in [Human -> People!Row] /\ people'[p] = row
      /\ \A x \in Human \ {p} : people'[x] = people[x]
      /\ \A x \in Human : people'[x].state = "none" <=> people'[x].phone = NoPhone
      /\ \A x \in Human : people[x].state # "none" => people'[x].state # "none"
      /\ \A ph : \A x \in Human \ {p} : Holds(x, ph)' => Holds(x, ph)
  BY <1>2, <1>3, <1>4, RowWritten
<1>7. ph0 \in unguarded' \/ (Holds(p, ph0)' => Holds(p, ph0))
  <2>1. people[p].type = "subscriber" => (Holds(p, ph0)' => Holds(p, ph0))
    BY <1>1, <1>4, <1>6 DEF Holds
  <2> QED  BY <1>5, <2>1
<1>8. \A ph \in Phone \ {ph0} : Holds(p, ph)' => Holds(p, ph)
  BY <1>4, <1>6 DEF Holds
<1>9. \A ph \in Phone \ unguarded' : OneHolder(ph)'
  BY <1>2, <1>3, <1>5, <1>6, <1>7, <1>8, OneMoreHolder
<1>10. /\ People!WalletStaysWithItsPerson'
       /\ \A ph \in Phone : walletOf'[ph] \in Human => people'[walletOf'[ph]].state # "none"
  BY <1>1, <1>2, <1>4, <1>6, WalletsStay
<1>11. People!ArchivedAreAway'
  BY <1>2, <1>4, <1>6, AwayStays
<1>12. \A x \in Human : /\ people'[x].state = people[x].state /\ people'[x].phone = people[x].phone
                        /\ people'[x].type = people[x].type
                        /\ people[x].phone \notin unguarded' =>
                             (People!Subscriber(x)' <=> People!Subscriber(x))
                        /\ people[x].phone \notin unguarded' /\ people[x].type # "subscriber" =>
                             (people'[x].subscribed <=> people[x].subscribed)
  BY <1>1, <1>4, <1>5, <1>6 DEF People!Subscriber
<1> HIDE DEF off
<1>13. ASSUME NEW e \in Clerk
       PROVE  /\ AboutSomebody(asking[e])'
              /\ ~asking'[e].late => StillSo(asking[e])' /\ StillFree(asking[e])'
  <2>1. PICK r : r = asking[e]
    OBVIOUS
  <2>2. r \in People!Request /\ AboutSomebody(r) /\ asking'[e] = r /\ (~r.late => StillSo(r) /\ StillFree(r))
    BY <1>2, <2>1, Asking
  <2>3. AboutSomebody(asking[e])'
    BY <1>12, <2>2 DEF AboutSomebody
  <2>4. ASSUME ~r.late PROVE StillSo(asking[e])'
    BY <1>2, <1>12, <2>2, <2>4 DEF StillSo, AboutSomebody
  <2>5. \A ph : People!On(ph)' = People!On(ph) /\ People!InState(ph, "archived")' = People!InState(ph, "archived")
    BY <1>12 DEF People!On, People!InState
  <2>6. \A ph : \A x \in People!On(ph) \cup People!InState(ph, "archived") : x \in Human /\ people[x].phone = ph
    BY DEF People!On, People!InState
  <2>7. \A ph : ph \notin unguarded' =>
          /\ People!PhoneTaken(ph, "none")' <=> People!PhoneTaken(ph, "none")
          /\ People!PhoneTaken(ph, "visitor")' <=> People!PhoneTaken(ph, "visitor")
    BY <1>2, <1>12, <2>5, <2>6 DEF People!PhoneTaken
  <2>8. \A ph, type : ph \notin unguarded' =>
          /\ People!ImportUpdates(ph, type)' <=> People!ImportUpdates(ph, type)
          /\ People!ImportRejects(ph, type)' <=> People!ImportRejects(ph, type)
    BY <1>2, <1>12, <2>5, <2>6 DEF People!ImportUpdates, People!ImportRejects
  <2>9. \A ph, self, too : ph \notin unguarded' =>
          (People!ActivePhoneConflict(ph, self, too)' <=> People!ActivePhoneConflict(ph, self, too))
    BY <1>2, <1>12, <2>5, <2>6 DEF People!ActivePhoneConflict
  <2>10. ASSUME ~r.late PROVE StillFree(asking[e])'
    <3>1. StillFree(r)
      BY <2>2, <2>10
    <3>2. r.op \in {"convert", "restore"} => r.p \in Human
      BY <2>2 DEF AboutSomebody
    <3> QED  BY <1>5, <1>12, <2>2, <2>5, <2>7, <2>8, <2>9, <3>1, <3>2 DEF StillFree
  <2> QED  BY <2>2, <2>3, <2>4, <2>10
<1>14. asked' \in 0 .. MaxAsked
  BY <1>2, <1>3 DEF PeopleNames
<1> QED  BY <1>2, <1>5, <1>6, <1>9, <1>10, <1>11, <1>13, <1>14 DEF PeopleInv, People!TypeOK

\* Steps that take away what a request may ask for, and nothing it has seen.
LEMMA QuietPeople ==
  ASSUME PeopleInv, hired' \subseteq hired, seated' \subseteq seated,
         UNCHANGED <<people, asking, unguarded>>
  PROVE  /\ \A e \in Clerk : /\ AboutSomebody(asking[e])'
                             /\ ~asking'[e].late => StillSo(asking[e])' /\ StillFree(asking[e])'
         /\ \A ph \in Phone \ unguarded' : OneHolder(ph)'
<1>1. ASSUME NEW e \in Clerk
      PROVE  /\ AboutSomebody(asking[e])'
             /\ ~asking'[e].late => StillSo(asking[e])' /\ StillFree(asking[e])'
  <2>1. PICK r : r = asking[e]
    OBVIOUS
  <2>2. AboutSomebody(r) /\ (~r.late => StillSo(r) /\ StillFree(r))
    BY <2>1, Asking
  <2>3. AboutSomebody(asking[e])'
    BY <2>1, <2>2 DEF AboutSomebody
  <2>4. ~r.late => StillSo(asking[e])'
    BY <2>1, <2>2 DEF StillSo
  <2>5. ~r.late => StillFree(asking[e])'
    BY <2>1, <2>2 DEF StillFree, People!PhoneTaken, People!On, People!InState, People!Subscriber,
       People!ImportUpdates, People!ImportRejects, People!ActivePhoneConflict
  <2> QED  BY <2>1, <2>3, <2>4, <2>5
<1>2. \A ph : \A x \in Human : Holds(x, ph)' <=> Holds(x, ph)
  BY DEF Holds
<1>3. \A ph \in Phone \ unguarded' : OneHolder(ph)'
  BY <1>2, HoldersHold DEF OneHolder, PeopleInv
<1> QED  BY <1>1, <1>3

LEMMA QuietSteps ==
  ASSUME PeopleInv, PeopleNames,
         \/ \E p \in Human : People!CheckOut(p) \/ People!OpenWallet(p)
         \/ \E ph \in Phone : People!Dismiss(ph)
  PROVE  PeopleInv'
<1>1. asked \in 0 .. MaxAsked
  BY DEF PeopleInv, People!TypeOK
<1>2. ASSUME NEW p \in Human, People!CheckOut(p)
      PROVE  PeopleInv'
  <2>1. /\ seated' = seated \ {p}
        /\ UNCHANGED <<people, hired, walletOf, asking, unguarded, loose, asked>>
    BY <1>2 DEF People!CheckOut
  <2>2. People!WalletStaysWithItsPerson' /\ People!ArchivedAreAway'
    BY <2>1, AwayStays, WalletsStay
  <2> QED  BY <2>1, <2>2, QuietPeople DEF PeopleInv, People!TypeOK
<1>3. ASSUME NEW ph \in Phone, People!Dismiss(ph)
      PROVE  PeopleInv'
  <2>1. /\ hired' = hired \ {ph} /\ asked < MaxAsked /\ asked' = asked + 1
        /\ UNCHANGED <<people, walletOf, seated, asking, unguarded, loose>>
    BY <1>3 DEF People!Dismiss
  <2>2. asked' \in 0 .. MaxAsked
    BY <1>1, <2>1 DEF PeopleNames
  <2>3. People!WalletStaysWithItsPerson' /\ People!ArchivedAreAway'
    BY <2>1, AwayStays, WalletsStay
  <2> QED  BY <2>1, <2>2, <2>3, QuietPeople DEF PeopleInv, People!TypeOK
<1>4. ASSUME NEW p \in Human, People!OpenWallet(p)
      PROVE  PeopleInv'
  <2>1. PICK ph0 : ph0 = people[p].phone
    OBVIOUS
  <2>2. /\ people[p].state = "active" /\ walletOf' = [walletOf EXCEPT ![ph0] = p]
        /\ asked < MaxAsked /\ asked' = asked + 1
        /\ UNCHANGED <<people, hired, seated, asking, unguarded, loose>>
    BY <1>4, <2>1 DEF People!OpenWallet
  <2>3. asked' \in 0 .. MaxAsked
    BY <1>1, <2>2 DEF PeopleNames
  <2>4. walletOf' \in [Phone -> Human \cup {Nobody}]
        /\ \A ph \in Phone : walletOf'[ph] = walletOf[ph] \/ (ph = ph0 /\ walletOf'[ph] = p)
    BY <2>2 DEF PeopleInv, People!TypeOK
  <2>5. People!WalletStaysWithItsPerson'
        /\ \A ph \in Phone : walletOf'[ph] \in Human => people'[walletOf'[ph]].state # "none"
    BY <2>1, <2>2, <2>4 DEF PeopleInv, People!WalletStaysWithItsPerson
  <2>6. People!ArchivedAreAway'
    BY <2>2, AwayStays
  <2> QED  BY <2>2, <2>3, <2>4, <2>5, <2>6, QuietPeople DEF PeopleInv, People!TypeOK
<1> QED  BY <1>2, <1>3, <1>4

\* What each request has asked for when it has looked.
LEMMA LooksAtPhone ==
  ASSUME PeopleInv, PeopleNames, NEW d \in Clerk, NEW ph \in Phone, NEW type \in People!Types,
         \/ People!CreateLook(d, ph, type) \/ People!ImportLook(d, ph, type)
         \/ People!WalkInLook(d, ph, type) \/ People!HireLook(d, ph)
  PROVE  PeopleInv'
<1>1. ASSUME NEW op \in {"create", "import", "walkin"},
             People!Look(d, [People!Idle EXCEPT !.op = op, !.type = type, !.phone = ph]),
             op = "create" => ~People!PhoneTaken(ph, "none"),
             op = "import" => /\ type \in {"trainee", "tamkeen"}
                              /\ ~People!ImportUpdates(ph, type) /\ ~People!ImportRejects(ph, type),
             op = "walkin" => People!On(ph) = {}
      PROVE  PeopleInv'
  <2>1. PICK q : q = [People!Idle EXCEPT !.op = op, !.type = type, !.phone = ph]
    OBVIOUS
  <2>2. q \in People!Request /\ q.op = op /\ q.phone = ph /\ q.type = type
    BY <2>1, IdleAsks DEF People!Request
  <2>3. AboutSomebody(q) /\ StillSo(q) /\ StillFree(q)
    BY <1>1, <2>2 DEF AboutSomebody, StillSo, StillFree
  <2> QED  BY <1>1, <2>1, <2>2, <2>3, LookPeople
<1>2. CASE People!CreateLook(d, ph, type)
  BY <1>1, <1>2 DEF People!CreateLook
<1>3. CASE People!ImportLook(d, ph, type)
  BY <1>1, <1>3 DEF People!ImportLook
<1>4. CASE People!WalkInLook(d, ph, type)
  BY <1>1, <1>4 DEF People!WalkInLook
<1>5. CASE People!HireLook(d, ph)
  <2>1. PICK q : q = [People!Idle EXCEPT !.op = "hire", !.phone = ph]
    OBVIOUS
  <2>2. q \in People!Request /\ q.op = "hire" /\ q.phone = ph
    BY <2>1, IdleAsks DEF People!Request
  <2>3. AboutSomebody(q) /\ StillSo(q) /\ StillFree(q)
    BY <1>5, <2>2 DEF AboutSomebody, StillSo, StillFree, People!HireLook
  <2> QED  BY <1>5, <2>1, <2>2, <2>3, LookPeople DEF People!HireLook
<1> QED  BY <1>2, <1>3, <1>4, <1>5

LEMMA LooksAtPerson ==
  ASSUME PeopleInv, PeopleNames, NEW d \in Clerk, NEW p \in Human,
         \/ People!ReactivateLook(d, p) \/ People!CheckInLook(d, p)
         \/ People!ArchiveLook(d, p) \/ People!RestoreLook(d, p)
  PROVE  PeopleInv'
<1>1. PICK ph : ph = people[p].phone
  OBVIOUS
<1>2. people[p].state # "none" => ph \in Phone
  BY <1>1 DEF PeopleInv, People!TypeOK, People!Row
<1>3. CASE People!ReactivateLook(d, p)
  <2>1. PICK q : q = [People!Idle EXCEPT !.op = "reactivate", !.p = p, !.phone = ph, !.old = ph]
    OBVIOUS
  <2>2. /\ people[p].state = "active" /\ ~People!PhoneTaken(ph, "visitor") /\ People!Look(d, q)
    BY <1>1, <1>3, <2>1 DEF People!ReactivateLook
  <2>3. q \in People!Request /\ q.op = "reactivate" /\ q.p = p /\ q.phone = ph
    BY <1>2, <2>1, <2>2, IdleAsks DEF People!Request
  <2>4. AboutSomebody(q) /\ StillSo(q) /\ StillFree(q)
    BY <1>1, <1>2, <2>2, <2>3 DEF AboutSomebody, StillSo, StillFree
  <2> QED  BY <2>2, <2>3, <2>4, LookPeople
<1>4. ASSUME NEW op \in {"checkin", "archive", "restore"},
             People!Look(d, [People!Idle EXCEPT !.op = op, !.p = p]), people[p].state # "none",
             op = "checkin" => people[p].state # "archived",
             op = "archive" => p \notin seated,
             op = "restore" => People!On(people[p].phone) = {}
      PROVE  PeopleInv'
  <2>1. PICK q : q = [People!Idle EXCEPT !.op = op, !.p = p]
    OBVIOUS
  <2>2. q \in People!Request /\ q.op = op /\ q.p = p
    BY <2>1, IdleAsks DEF People!Request
  <2>3. AboutSomebody(q) /\ StillSo(q) /\ StillFree(q)
    BY <1>4, <2>2 DEF AboutSomebody, StillSo, StillFree
  <2> QED  BY <1>4, <2>1, <2>2, <2>3, LookPeople
<1>5. CASE People!CheckInLook(d, p)
  BY <1>4, <1>5 DEF People!CheckInLook
<1>6. CASE People!ArchiveLook(d, p)
  BY <1>4, <1>6 DEF People!ArchiveLook
<1>7. CASE People!RestoreLook(d, p)
  BY <1>4, <1>7 DEF People!RestoreLook
<1> QED  BY <1>3, <1>5, <1>6, <1>7

LEMMA LooksToRename ==
  ASSUME PeopleInv, PeopleNames, NEW d \in Clerk, NEW p \in Human, NEW ph \in Phone,
         NEW page \in People!Types, people[p].state # "none", People!RenameLook(d, p, ph, page)
  PROVE  PeopleInv'
<1>1. PICK ph0 : ph0 = people[p].phone
  OBVIOUS
<1>2. PICK q : q = [People!Idle EXCEPT !.op = "rename", !.p = p, !.type = page, !.phone = ph, !.old = ph0]
  OBVIOUS
<1>3. ph0 \in Phone
  BY <1>1 DEF PeopleInv, People!TypeOK, People!Row
<1>4. /\ q \in People!Request /\ q.op = "rename" /\ q.p = p /\ q.type = page /\ q.phone = ph
      /\ q.old = ph0
  BY <1>2, <1>3, IdleAsks DEF People!Request
<1>5. People!Look(d, q) /\ ~People!PhoneTaken(ph, "none")
  BY <1>1, <1>2 DEF People!RenameLook
<1>6. AboutSomebody(q) /\ StillSo(q) /\ StillFree(q)
  BY <1>1, <1>3, <1>4, <1>5 DEF AboutSomebody, StillSo, StillFree
<1> QED  BY <1>4, <1>5, <1>6, LookPeople

LEMMA LooksToChange ==
  ASSUME PeopleInv, PeopleNames, NEW d \in Clerk, NEW p \in Human,
         \/ \E ph \in Phone : People!EditLook(d, p, ph)
         \/ \E type \in People!Types : People!ConvertLook(d, p, type)
         \/ \E source \in Human : People!MergeLook(d, source, p)
  PROVE  PeopleInv'
<1>1. PICK ph0, type0 : ph0 = people[p].phone /\ type0 = people[p].type
  OBVIOUS
<1>2. people[p].state = "active"
  BY DEF People!EditLook, People!ConvertLook, People!MergeLook
<1>3. type0 \in People!Types /\ ph0 \in Phone
  BY <1>1, <1>2 DEF PeopleInv, People!TypeOK, People!Row
<1>4. ASSUME NEW ph \in Phone, People!EditLook(d, p, ph)
      PROVE  PeopleInv'
  <2>1. PICK i : i = People!Idle
    OBVIOUS
  <2>2. PICK q : q = [i EXCEPT !.op = "rename", !.p = p, !.phone = ph, !.old = ph0]
    OBVIOUS
  <2>3. i \in People!Request /\ i.type = "visitor"
    BY <2>1, IdleAsks DEF People!Idle
  <2>4. /\ q \in People!Request /\ q.op = "rename" /\ q.p = p /\ q.type = "visitor" /\ q.phone = ph
        /\ q.old = ph0
    BY <1>3, <2>2, <2>3 DEF People!Request
  <2>5. People!Look(d, q)
    BY <1>1, <1>4, <2>1, <2>2 DEF People!EditLook
  <2>6. AboutSomebody(q) /\ StillSo(q) /\ StillFree(q)
    BY <1>1, <1>2, <1>3, <2>4 DEF AboutSomebody, StillSo, StillFree
  <2> QED  BY <2>4, <2>5, <2>6, LookPeople
<1>5. ASSUME NEW type \in People!Types, People!ConvertLook(d, p, type)
      PROVE  PeopleInv'
  <2>1. PICK q : q = [People!Idle EXCEPT !.op = "convert", !.p = p, !.type = type, !.old = ph0]
    OBVIOUS
  <2>2. q \in People!Request /\ q.op = "convert" /\ q.p = p /\ q.type = type
    BY <1>3, <2>1, IdleAsks DEF People!Request
  <2>3. /\ People!Look(d, q)
        /\ type # "visitor" => ~People!ActivePhoneConflict(people[p].phone, p, people[p].type # "employee")
    BY <1>1, <1>5, <2>1 DEF People!ConvertLook
  <2>4. AboutSomebody(q) /\ StillSo(q) /\ StillFree(q)
    BY <1>2, <2>2, <2>3 DEF AboutSomebody, StillSo, StillFree
  <2> QED  BY <2>2, <2>3, <2>4, LookPeople
<1>6. ASSUME NEW source \in Human, People!MergeLook(d, source, p)
      PROVE  PeopleInv'
  <2>1. PICK from, old : /\ from = people[source].phone
                         /\ old = IF from = ph0 \/ walletOf[from] # Nobody THEN from ELSE NoPhone
    OBVIOUS
  <2>2. PICK q : q = [People!Idle EXCEPT !.op = "merge", !.p = p, !.q = source, !.phone = ph0, !.old = old]
    OBVIOUS
  <2>3. /\ source # p /\ people[source].state # "none" /\ {source, p} \cap seated = {}
        /\ People!Look(d, q)
    BY <1>1, <1>6, <2>1, <2>2 DEF People!MergeLook
  <2>4. from \in Phone
    BY <2>1, <2>3 DEF PeopleInv, People!TypeOK, People!Row
  <2>5. q \in People!Request /\ q.op = "merge" /\ q.p = p /\ q.q = source /\ q.phone = ph0 /\ q.old = old
        /\ old \in Phone \cup {NoPhone}
    BY <1>3, <2>1, <2>2, <2>4, IdleAsks DEF People!Request
  <2>6. AboutSomebody(q) /\ StillSo(q) /\ StillFree(q)
    BY <1>1, <1>2, <1>3, <2>3, <2>5 DEF AboutSomebody, StillSo, StillFree
  <2> QED  BY <2>3, <2>5, <2>6, LookPeople
<1> QED  BY <1>4, <1>5, <1>6

LEMMA PeopleNext ==
  ASSUME PeopleInv, PeopleNames, People!Next
  PROVE  PeopleInv'
<1>1. Kind \subseteq People!Types /\ "visitor" \in People!Types /\ "employee" \in People!Types
  BY OfficeAssumption DEF People!Types
<1>2. ASSUME NEW d \in Clerk, NEW ph \in Phone, NEW type \in Kind,
             People!CreateLook(d, ph, type) \/ People!ImportLook(d, ph, type) \/ People!WalkInLook(d, ph, type)
      PROVE  PeopleInv'
  BY <1>1, <1>2, LooksAtPhone
<1>3. ASSUME NEW d \in Clerk, NEW ph \in Phone, People!HireLook(d, ph) \/ People!AnchorLook(d, ph)
      PROVE  PeopleInv'
  BY <1>1, <1>3, LooksAtPhone DEF People!AnchorLook
<1>4. ASSUME NEW d \in Clerk, NEW p \in Human,
             \/ People!ReactivateLook(d, p) \/ People!CheckInLook(d, p)
             \/ People!Archives(d, p) \/ People!Restores(d, p)
      PROVE  PeopleInv'
  BY <1>4, LooksAtPerson
  DEF People!Archives, People!DeleteTrainee, People!DeleteTamkeenStudent, People!DeleteSubscriber,
      People!Restores, People!RestoreTrainee, People!RestoreTamkeenStudent, People!RestoreSubscriber
<1>5. ASSUME NEW d \in Clerk, NEW p \in Human, NEW ph \in Phone,
             People!Updates(d, p, ph) \/ People!EditLook(d, p, ph)
      PROVE  PeopleInv'
  <2>1. \A page \in {"trainee", "tamkeen", "subscriber"} :
           People!RenameLook(d, p, ph, page) /\ people[p].state # "none" => PeopleInv'
    BY LooksToRename DEF People!Types
  <2> QED  BY <1>5, <2>1, LooksToChange
           DEF People!Updates, People!Own, People!UpdateTrainee, People!UpdateTamkeenStudent,
               People!UpdateSubscriber
<1>6. ASSUME NEW d \in Clerk, NEW p \in Human, NEW type \in Kind, People!ConvertLook(d, p, type)
      PROVE  PeopleInv'
  BY <1>1, <1>6, LooksToChange
<1>7. ASSUME NEW d \in Clerk, NEW p \in Human, NEW q \in Human, People!MergeLook(d, p, q)
      PROVE  PeopleInv'
  BY <1>7, LooksToChange
<1>8. ASSUME NEW d \in Clerk,
             \/ People!Create(d) \/ People!Reactivate(d) \/ People!Import(d) \/ People!Hire(d)
             \/ People!WalkIn(d) \/ People!CheckIn(d) \/ People!Rename(d) \/ People!Convert(d)
             \/ People!Archive(d) \/ People!Restore(d) \/ People!Merge(d) \/ People!Abort(d)
      PROVE  PeopleInv'
  BY <1>8, CreatePerson, ReactivatePerson, ImportPerson, HirePerson, WalkInPerson, CheckInPerson,
     RenamePerson, ConvertPerson, ArchivePerson, RestorePerson, MergePerson, AbortPeople
<1>9. ASSUME NEW p \in Human, People!Renew(p) \/ People!CheckOut(p) \/ People!OpenWallet(p)
      PROVE  PeopleInv'
  BY <1>9, RenewPerson, QuietSteps
<1>10. ASSUME NEW p \in Human, NEW ph \in Phone, People!EditSessionPhone(p, ph)
       PROVE  PeopleInv'
  BY <1>10, SessionPhoneEdited
<1>11. ASSUME NEW ph \in Phone, People!Dismiss(ph)
       PROVE  PeopleInv'
  BY <1>11, QuietSteps
<1> QED  BY <1>2, <1>3, <1>4, <1>5, <1>6, <1>7, <1>8, <1>9, <1>10, <1>11 DEF People!Next

\* The module of the people counts as this one does.
LEMMA SameCount == \A S : People!Cardinality(S) = Cardinality(S)
BY DEF People!Cardinality, Cardinality

LEMMA PeopleStill ==
  ASSUME PeopleInv, UNCHANGED peopleVars
  PROVE  PeopleInv'
<1>1. UNCHANGED <<people, hired, walletOf, seated, asking, asked, unguarded, loose>>
  BY DEF peopleVars
<1>2. People!TypeOK'
  BY <1>1 DEF PeopleInv, People!TypeOK
<1>3. People!WalletStaysWithItsPerson' /\ People!ArchivedAreAway'
  BY <1>1 DEF PeopleInv, People!WalletStaysWithItsPerson, People!ArchivedAreAway
<1> QED  BY <1>1, <1>2, <1>3, QuietPeople DEF PeopleInv

LEMMA PeopleApart ==
  ASSUME [Next]_vars, ~PeopleStep
  PROVE  UNCHANGED peopleVars
BY DEF Next, vars, services, RoomStep, BookStep, SchoolStep, PlanStep, DoorStep, TillStep, SiteStep,
   RouterStep, EntryStep, LedgerStep, CallStep, DayStep

LEMMA PeopleInvariant == PeopleNames => (Spec => []PeopleInv)
<1> SUFFICES ASSUME PeopleNames PROVE Spec => []PeopleInv
  OBVIOUS
<1>1. Init => PeopleInv
  BY PeopleInit DEF Init
<1>2. PeopleInv /\ [Next]_vars => PeopleInv'
  <2> SUFFICES ASSUME PeopleInv, [Next]_vars PROVE PeopleInv'
    OBVIOUS
  <2>1. CASE PeopleStep
    BY <2>1, PeopleNext DEF PeopleStep
  <2>2. CASE ~PeopleStep
    BY <2>2, PeopleApart, PeopleStill
  <2> QED  BY <2>1, <2>2
<1> QED  BY <1>1, <1>2, PTL DEF Spec

\* One phone, one active person, for any number of people and desks, but where a door
\* without a guard or a late write is named (lib/personUniqueness and those who ask it).
THEOREM OnePersonHasAPhone ==
    ASSUME NoPhone \notin Phone, Nobody \notin Human, MaxAsked \in Nat
    PROVE  Spec => []OnePersonPerPhone
<1>1. PeopleNames
  BY DEF PeopleNames
<1>2. PeopleInv => OnePersonPerPhone
  <2> SUFFICES ASSUME PeopleInv, NEW ph \in Phone \ unguarded
               PROVE  /\ Cardinality(People!Holders(ph)) <= 1
                      /\ ph \in hired => People!Holders(ph) = {}
    BY SameCount DEF OnePersonPerPhone, People!OnePersonPerPhone
  <2>1. OneHolder(ph)
    BY DEF PeopleInv
  <2>2. CASE People!Holders(ph) = {}
    BY <2>2, FS_EmptySet
  <2>3. CASE People!Holders(ph) # {}
    <3>1. PICK p : p \in People!Holders(ph)
      BY <2>3
    <3>2. People!Holders(ph) = {p}
      BY <2>1, <3>1 DEF OneHolder
    <3> QED  BY <2>1, <3>2, FS_Singleton DEF OneHolder
  <2> QED  BY <2>2, <2>3
<1> QED  BY <1>1, <1>2, PeopleInvariant, PTL

\* A wallet is on the phone of the person it is named after, through renames and merges
\* that look first and write later (lib/person, lib/mergePerson).
THEOREM WalletsStayWithPeople ==
    ASSUME NoPhone \notin Phone, Nobody \notin Human, MaxAsked \in Nat
    PROVE  Spec => []WalletStaysWithItsPerson
<1>1. PeopleNames
  BY DEF PeopleNames
<1>2. PeopleInv => WalletStaysWithItsPerson
  BY DEF PeopleInv, WalletStaysWithItsPerson
<1> QED  BY <1>1, <1>2, PeopleInvariant, PTL

\* Nobody who is archived sits in the space, unless a check-in and the archiving crossed
\* (visitors/service, sessions/service).
THEOREM ArchivedStayAway ==
    ASSUME NoPhone \notin Phone, Nobody \notin Human, MaxAsked \in Nat
    PROVE  Spec => []ArchivedAreAway
<1>1. PeopleNames
  BY DEF PeopleNames
<1>2. PeopleInv => ArchivedAreAway
  BY DEF PeopleInv, ArchivedAreAway
<1> QED  BY <1>1, <1>2, PeopleInvariant, PTL

-----------------------------------------------------------------------------
(* The notices to the QR site.                                             *)

\* What the site should list, and the notices that have not ended.
ListedMember == person.state = "active" /\ person.type \in Site!Members
UnderWay == pending \cup wire

\* The last notice is under way, lost or applied; what it says is so, if the last operation
\* told the truth, and so is the copy that it made.
SiteInv ==
    /\ Site!TypeOK
    /\ pending \cap wire = {}
    /\ \A n \in UnderWay : n.id <= sent /\ n.id # applied
    /\ \A m, n \in UnderWay : m.id = n.id => m = n
    /\ lost \/ applied = sent \/ \E n \in UnderWay : n.id = sent
    /\ told => \A n \in UnderWay : n.id = sent => (n.tells = "sync" <=> ListedMember)
    /\ told /\ applied = sent /\ ~crossed => (copy = "active" <=> ListedMember)
    /\ person.state = "none" => sent = 0 /\ copy = "absent"

LEMMA SiteInit ==
  ASSUME MaxOps \in Nat, Site!Init
  PROVE  SiteInv
<1>1. UnderWay = {} /\ ~ListedMember /\ person.state = "none" /\ person.type = "visitor"
  BY DEF Site!Init, UnderWay, ListedMember
<1>2. Site!TypeOK
  <2>1. {lost, crossed, told} \subseteq BOOLEAN
    BY DEF Site!Init
  <2>2. person \in [state: {"none", "active", "archived"}, type: Site!Types]
    BY DEF Site!Init, Site!Types
  <2> QED  BY <2>1, <2>2 DEF Site!Init, Site!TypeOK
<1> QED  BY <1>1, <1>2 DEF Site!Init, SiteInv

LEMMA SiteFacts ==
  ASSUME SiteInv
  PROVE  /\ ops \in Nat /\ sent \in Nat /\ applied \in Nat /\ sent <= ops /\ applied <= sent /\ ops <= MaxOps
         /\ lost \in BOOLEAN /\ crossed \in BOOLEAN /\ told \in BOOLEAN
         /\ \A n \in UnderWay : n \in Site!Notice /\ n.id \in Nat /\ n.id >= 1 /\ n.tells \in {"sync", "deactivate"}
         /\ pending \subseteq Site!Notice /\ wire \subseteq Site!Notice
BY DEF SiteInv, Site!TypeOK, Site!Notice, UnderWay

\* An operation that sends a notice: what it says is to be so.
LEMMA SiteSends ==
  ASSUME MaxOps \in Nat, SiteInv, NEW tells \in {"sync", "deactivate"}, NEW atOnce \in BOOLEAN,
         Site!Sends(tells, atOnce),
         person' \in [state: {"active", "archived"}, type: Site!Types], told' \in BOOLEAN,
         told' => (tells = "sync" <=> ListedMember')
  PROVE  SiteInv'
<1>1. PICK n : n = [id |-> ops + 1, tells |-> tells]
  OBVIOUS
<1>2. /\ ops < MaxOps /\ ops' = ops + 1 /\ sent' = ops + 1 /\ lost' = FALSE
      /\ wire' = (IF atOnce THEN wire \cup {n} ELSE wire)
      /\ pending' = (IF atOnce THEN pending ELSE pending \cup {n})
      /\ UNCHANGED <<copy, applied, crossed>>
  BY <1>1 DEF Site!Sends, Site!Count
<1>3. n \in Site!Notice /\ n.id = ops + 1 /\ n.tells = tells
  BY <1>1, <1>2, SiteFacts DEF Site!Notice
<1>4. UnderWay' = UnderWay \cup {n} /\ pending' \cap wire' = {}
  <2>1. n \notin UnderWay
    BY <1>3, SiteFacts DEF SiteInv
  <2> QED  BY <1>2, <2>1 DEF UnderWay, SiteInv
<1>5. Site!TypeOK'
  <2>1. pending' \subseteq Site!Notice /\ wire' \subseteq Site!Notice
    BY <1>2, <1>3, SiteFacts
  <2>2. ops' \in 0 .. MaxOps /\ sent' \in 0 .. ops' /\ applied' \in 0 .. sent'
    BY <1>2, SiteFacts
  <2> QED  BY <1>2, <2>1, <2>2 DEF SiteInv, Site!TypeOK
<1>6. \A m \in UnderWay : m.id < ops + 1
  BY SiteFacts DEF SiteInv
<1>7. ops + 1 # applied
  BY SiteFacts
<1>8. \A m \in UnderWay' : m.id <= sent' /\ m.id # applied'
  BY <1>2, <1>3, <1>4, <1>6, <1>7, SiteFacts DEF SiteInv
<1>9. \A m, k \in UnderWay' : m.id = k.id => m = k
  BY <1>3, <1>4, <1>6, SiteFacts DEF SiteInv
<1>10. \A m \in UnderWay' : m.id = sent' => m = n
  BY <1>2, <1>4, <1>6, SiteFacts
<1>11. n \in UnderWay' /\ n.id = sent'
  BY <1>2, <1>3, <1>4
<1>12. ~(applied' = sent') /\ person'.state # "none"
  BY <1>2, <1>7
<1>13. told' => \A m \in UnderWay' : m.id = sent' => (m.tells = "sync" <=> ListedMember')
  BY <1>3, <1>10
<1> QED  BY <1>4, <1>5, <1>8, <1>9, <1>11, <1>12, <1>13 DEF SiteInv

\* An operation that sends nothing, and leaves the truth of the last notice alone.
LEMMA SiteSilent ==
  ASSUME MaxOps \in Nat, SiteInv, Site!SendsNothing,
         person' \in [state: {"active", "archived"}, type: Site!Types], told' \in BOOLEAN,
         \/ ~told'
         \/ told /\ (ListedMember' <=> ListedMember)
         \/ person.state = "none" /\ ~ListedMember'
  PROVE  SiteInv'
<1>1. /\ ops < MaxOps /\ ops' = ops + 1 /\ UNCHANGED <<pending, wire, copy, sent, applied, lost, crossed>>
      /\ UnderWay' = UnderWay
  BY DEF Site!SendsNothing, Site!Count, UnderWay
<1>2. Site!TypeOK'
  <2>1. ops' \in 0 .. MaxOps /\ sent' \in 0 .. ops' /\ applied' \in 0 .. sent'
    BY <1>1, SiteFacts
  <2> QED  BY <1>1, <2>1 DEF SiteInv, Site!TypeOK
<1>3. told' => /\ \A n \in UnderWay : n.id = sent => (n.tells = "sync" <=> ListedMember')
               /\ applied = sent /\ ~crossed => (copy = "active" <=> ListedMember')
  <2>1. CASE told /\ (ListedMember' <=> ListedMember)
    BY <2>1 DEF SiteInv
  <2>2. CASE person.state = "none" /\ ~ListedMember'
    <3>1. sent = 0 /\ copy = "absent"
      BY <2>2 DEF SiteInv
    <3>2. UnderWay = {}
      BY <3>1, SiteFacts DEF SiteInv
    <3> QED  BY <2>2, <3>1, <3>2
  <2> QED  BY <2>1, <2>2
<1>4. person'.state # "none"
  OBVIOUS
<1> QED  BY <1>1, <1>2, <1>3, <1>4 DEF SiteInv

LEMMA PersonAtSite ==
  ASSUME SiteInv
  PROVE  /\ person.state \in {"none", "active", "archived"} /\ person.type \in Site!Types
         /\ told \in BOOLEAN
         /\ \A st \in {"active", "archived"} :
              /\ [person EXCEPT !.state = st] \in [state: {"active", "archived"}, type: Site!Types]
              /\ [person EXCEPT !.state = st].state = st
              /\ [person EXCEPT !.state = st].type = person.type
         /\ \A type \in Site!Types : person.state = "active" =>
              /\ [person EXCEPT !.type = type] \in [state: {"active", "archived"}, type: Site!Types]
              /\ [person EXCEPT !.type = type].state = "active"
              /\ [person EXCEPT !.type = type].type = type
         /\ person.state # "none" => person \in [state: {"active", "archived"}, type: Site!Types]
BY DEF SiteInv, Site!TypeOK

LEMMA SiteOperation ==
  ASSUME MaxOps \in Nat, SiteInv,
         \/ Site!Renew \/ Site!Archive \/ Site!Restore \/ Site!LeavePhone
         \/ \E type \in Site!Types : Site!Create(type) \/ Site!Register(type) \/ Site!Convert(type)
  PROVE  SiteInv'
<1>1. CASE Site!Renew
  BY <1>1, SiteSends, PersonAtSite DEF Site!Renew, ListedMember
<1>2. CASE Site!Archive
  <2>1. person'.state = "archived" /\ person' \in [state: {"active", "archived"}, type: Site!Types]
    BY <1>2, PersonAtSite DEF Site!Archive
  <2> QED  BY <1>2, <2>1, SiteSends DEF Site!Archive, ListedMember
<1>3. CASE Site!Restore
  <2>1. /\ person.state = "archived" /\ person'.state = "active" /\ person'.type = person.type
        /\ person' \in [state: {"active", "archived"}, type: Site!Types]
    BY <1>3, PersonAtSite DEF Site!Restore
  <2>2. told' \in BOOLEAN /\ told' = (told \/ person.type \in Site!Members)
    BY <1>3 DEF Site!Restore
  <2>3. CASE person.type \in Site!Members
    <3>1. PICK atOnce \in BOOLEAN : Site!Sends("sync", atOnce)
      BY <1>3, <2>3 DEF Site!Restore
    <3> QED  BY <2>1, <2>2, <2>3, <3>1, SiteSends DEF ListedMember
  <2>4. CASE person.type \notin Site!Members
    <3>1. Site!SendsNothing /\ (told' => told)
      BY <1>3, <2>2, <2>4 DEF Site!Restore
    <3> QED  BY <2>1, <2>2, <2>4, <3>1, SiteSilent DEF ListedMember
  <2> QED  BY <2>3, <2>4
<1>4. CASE Site!LeavePhone
  <2>1. person' \in [state: {"active", "archived"}, type: Site!Types]
    BY <1>4, PersonAtSite DEF Site!LeavePhone
  <2> QED  BY <1>4, <2>1, SiteSilent DEF Site!LeavePhone
<1>5. ASSUME NEW type \in Site!Types, Site!Create(type) \/ Site!Register(type)
      PROVE  SiteInv'
  <2>1. /\ person.state = "none" /\ person' = [state |-> "active", type |-> type]
        /\ told' \in BOOLEAN
    BY <1>5 DEF Site!Create, Site!Register
  <2>2. person' \in [state: {"active", "archived"}, type: Site!Types] /\ (ListedMember' <=> type \in Site!Members)
    BY <2>1 DEF ListedMember
  <2>3. CASE Site!Create(type) /\ type \in Site!Members
    BY <2>1, <2>2, <2>3, SiteSends DEF Site!Create
  <2>4. CASE Site!Create(type) /\ type \notin Site!Members
    BY <2>1, <2>2, <2>4, SiteSilent DEF Site!Create
  <2>5. CASE Site!Register(type)
    BY <2>1, <2>2, <2>5, SiteSilent DEF Site!Register
  <2> QED  BY <1>5, <2>3, <2>4, <2>5
<1>6. ASSUME NEW type \in Site!Types, Site!Convert(type)
      PROVE  SiteInv'
  <2>1. /\ person.state = "active" /\ person'.state = "active" /\ person'.type = type
        /\ person' \in [state: {"active", "archived"}, type: Site!Types]
    BY <1>6, PersonAtSite DEF Site!Convert
  <2>2. ListedMember' <=> type \in Site!Members
    BY <2>1 DEF ListedMember
  <2>3. CASE type = "subscriber"
    BY <1>6, <2>1, <2>2, <2>3, SiteSends DEF Site!Convert, Site!Members
  <2>4. CASE type # "subscriber" /\ person.type = "subscriber"
    BY <1>6, <2>1, <2>2, <2>4, SiteSends DEF Site!Convert
  <2>5. CASE type # "subscriber" /\ person.type # "subscriber" /\ type \in Site!Members
    BY <1>6, <2>1, <2>2, <2>5, SiteSends DEF Site!Convert
  <2>6. CASE type # "subscriber" /\ person.type # "subscriber" /\ type \notin Site!Members
    <3>1. Site!SendsNothing /\ told' \in BOOLEAN /\ (told' => told /\ person.type \notin Site!Members)
      BY <1>6, <2>6 DEF Site!Convert
    <3> QED  BY <2>1, <2>2, <2>6, <3>1, SiteSilent DEF ListedMember
  <2> QED  BY <2>3, <2>4, <2>5, <2>6
<1> QED  BY <1>1, <1>2, <1>3, <1>4, <1>5, <1>6

LEMMA SiteNotice ==
  ASSUME MaxOps \in Nat, SiteInv, NEW n \in UnderWay, Site!Send(n) \/ Site!Deliver(n) \/ Site!Lose(n)
  PROVE  SiteInv'
<1>1. UNCHANGED <<person, ops, sent, told>> /\ (ListedMember' <=> ListedMember)
  BY DEF Site!Send, Site!Deliver, Site!Lose, ListedMember
<1>2. n \in Site!Notice /\ n.id \in Nat /\ n.id <= sent /\ n.id # applied
  BY SiteFacts DEF SiteInv
<1>3. CASE Site!Send(n)
  <2>1. UnderWay' = UnderWay /\ pending' \subseteq Site!Notice /\ wire' \subseteq Site!Notice
        /\ pending' \cap wire' = {} /\ UNCHANGED <<copy, applied, lost, crossed>>
    BY <1>2, <1>3, SiteFacts DEF Site!Send, UnderWay, SiteInv
  <2> QED  BY <1>1, <2>1 DEF SiteInv, Site!TypeOK
<1>4. CASE Site!Lose(n)
  <2>1. /\ UnderWay' = UnderWay \ {n} /\ pending' \subseteq Site!Notice /\ wire' \subseteq Site!Notice
        /\ pending' \cap wire' = {} /\ lost' \in BOOLEAN /\ (lost \/ n.id = sent => lost')
        /\ UNCHANGED <<copy, applied, crossed>>
    BY <1>4, SiteFacts DEF Site!Lose, UnderWay, SiteInv
  <2>2. lost' \/ applied' = sent' \/ \E m \in UnderWay' : m.id = sent'
    BY <1>1, <2>1 DEF SiteInv
  <2> QED  BY <1>1, <2>1, <2>2 DEF SiteInv, Site!TypeOK
<1>5. CASE Site!Deliver(n)
  <2>1. /\ n \in wire /\ wire' = wire \ {n} /\ UNCHANGED <<pending, lost>>
        /\ copy' = (IF n.tells = "sync" THEN "active" ELSE IF copy = "absent" THEN copy ELSE "inactive")
        /\ crossed' = (n.id < applied)
        /\ applied' = (IF n.id > applied THEN n.id ELSE applied)
    BY <1>5 DEF Site!Deliver
  <2>2. applied' \in Nat /\ applied' <= sent /\ applied' \in {applied, n.id}
        /\ (n.id = sent => applied' = n.id)
    BY <1>2, <2>1, SiteFacts
  <2>3. Site!TypeOK'
    <3>1. applied' \in 0 .. sent'
      BY <1>1, <2>2, SiteFacts
    <3>2. copy' \in {"absent", "active", "inactive"} /\ crossed' \in BOOLEAN /\ wire' \subseteq Site!Notice
      BY <2>1, SiteFacts DEF SiteInv, Site!TypeOK
    <3> QED  BY <1>1, <2>1, <3>1, <3>2 DEF SiteInv, Site!TypeOK
  <2>4. UnderWay' \subseteq UnderWay
    BY <2>1 DEF UnderWay
  <2>5. UnderWay' = UnderWay \ {n} /\ pending' \cap wire' = {}
    BY <2>1 DEF UnderWay, SiteInv
  <2>6. \A m \in UnderWay' : m.id <= sent /\ m.id # applied'
    BY <2>2, <2>5 DEF SiteInv
  <2>7. lost \/ applied' = sent \/ \E m \in UnderWay' : m.id = sent
    <3>1. CASE n.id = sent
      BY <2>2, <3>1
    <3>2. CASE n.id # sent
      <4>1. applied # sent \/ applied' = sent
        BY <1>2, <2>1, <3>2, SiteFacts
      <4> QED  BY <2>5, <3>2, <4>1 DEF SiteInv
    <3> QED  BY <3>1, <3>2
  <2>8. told /\ applied' = sent /\ ~crossed' => (copy' = "active" <=> ListedMember)
    <3> SUFFICES ASSUME told, applied' = sent, ~crossed'
                 PROVE  copy' = "active" <=> ListedMember
      OBVIOUS
    <3>1. n.id = sent
      <4>1. ~(n.id < applied)
        BY <2>1
      <4> QED  BY <1>2, <2>1, <4>1, SiteFacts
    <3>2. n.tells = "sync" <=> ListedMember
      BY <3>1 DEF SiteInv
    <3> QED  BY <2>1, <3>2
  <2>9. person.state # "none"
    <3>1. sent # 0
      BY <1>2 DEF Site!Notice
    <3> QED  BY <3>1 DEF SiteInv
  <2> QED  BY <1>1, <2>1, <2>3, <2>5, <2>6, <2>7, <2>8, <2>9 DEF SiteInv
<1> QED  BY <1>3, <1>4, <1>5

LEMMA SiteStill ==
  ASSUME SiteInv, UNCHANGED siteVars
  PROVE  SiteInv'
BY DEF SiteInv, Site!TypeOK, UnderWay, ListedMember, siteVars

LEMMA SiteApart ==
  ASSUME [Next]_vars, ~SiteStep
  PROVE  UNCHANGED siteVars
BY DEF Next, vars, services, RoomStep, BookStep, SchoolStep, PlanStep, DoorStep, TillStep,
   RouterStep, PeopleStep, EntryStep, LedgerStep, CallStep, DayStep

LEMMA SiteInvariant == MaxOps \in Nat => (Spec => []SiteInv)
<1> SUFFICES ASSUME MaxOps \in Nat PROVE Spec => []SiteInv
  OBVIOUS
<1>1. Init => SiteInv
  BY SiteInit DEF Init
<1>2. SiteInv /\ [Next]_vars => SiteInv'
  <2> SUFFICES ASSUME SiteInv, [Next]_vars PROVE SiteInv'
    OBVIOUS
  <2>1. CASE SiteStep
    <3>1. Site!Next
      BY <2>1 DEF SiteStep
    <3> QED  BY <3>1, SiteOperation, SiteNotice DEF Site!Next, UnderWay
  <2>2. CASE ~SiteStep
    BY <2>2, SiteApart, SiteStill
  <2> QED  BY <2>1, <2>2
<1> QED  BY <1>1, <1>2, PTL DEF Spec

\* Once the notices have arrived, in whatever order, the QR site lists the person exactly
\* if they are an active member, but for the named exceptions (lib/anoon-sync).
THEOREM SiteIsCurrent ==
    ASSUME MaxOps \in Nat
    PROVE  Spec => []CopyIsCurrent
<1>1. SiteInv => CopyIsCurrent
  <2> SUFFICES ASSUME SiteInv, Site!Quiet, ~lost, ~crossed, told
               PROVE  copy = "active" <=> ListedMember
    BY DEF CopyIsCurrent, Site!CopyIsCurrent, ListedMember
  <2>1. UnderWay = {}
    BY DEF Site!Quiet, UnderWay
  <2> QED  BY <2>1 DEF SiteInv
<1> QED  BY <1>1, SiteInvariant, PTL

-----------------------------------------------------------------------------
(* The price of a visit.                                                   *)

\* Prices and minutes are numbers, and an increment of the internet takes time.
TillNumbers ==
    /\ SeatRate \cup TierRate \cup OrderTotal \cup Discount \subseteq Nat
    /\ FullDay \in Nat /\ MinMinutes \in Nat /\ Increment \in Nat \ {0} /\ MaxVisitMinutes \in Nat
    /\ Step \in Nat /\ Close \in Nat /\ MaxOrders \in Nat

LEMMA TimesMonotone ==
  ASSUME NEW a \in Nat, NEW b \in Nat, NEW k \in Nat, a <= b
  PROVE  a * k \in Nat /\ b * k \in Nat /\ a * k <= b * k
<1>1. PICK c \in Nat : b = a + c
  <2>1. b - a \in Nat /\ b = a + (b - a)
    OBVIOUS
  <2> QED  BY <2>1
<1>2. (a + c) * k = a * k + c * k
  OBVIOUS
<1>3. a * k \in Nat /\ c * k \in Nat
  OBVIOUS
<1> QED  BY <1>1, <1>2, <1>3

\* A quotient of naturals is one, and grows with what is divided.
LEMMA QuotientMonotone ==
  ASSUME NEW a \in Nat, NEW b \in Nat, NEW k \in Nat \ {0}, a <= b
  PROVE  a \div k \in Nat /\ b \div k \in Nat /\ a \div k <= b \div k
<1>1. \A n \in Nat : /\ n \div k \in Nat
                     /\ n = k * (n \div k) + (n % k) /\ n % k \in 0 .. (k - 1)
  OBVIOUS
<1> DEFINE x == a \div k
           y == b \div k
<1>2. x \in Nat /\ y \in Nat /\ k * x <= a /\ b < k * y + k
  BY <1>1
<1> HIDE DEF x, y
<1>3. ASSUME x > y PROVE FALSE
  <2>1. (y + 1) * k <= x * k
    BY <1>2, <1>3, TimesMonotone
  <2>2. (y + 1) * k = k * y + k /\ x * k = k * x
    BY <1>2
  <2>3. k * y \in Nat /\ k * x \in Nat
    BY <1>2
  <2> QED  BY <1>2, <2>1, <2>2, <2>3
<1> QED  BY <1>2, <1>3 DEF x, y

LEMMA RoundedMonotone ==
  ASSUME NEW a \in Nat, NEW b \in Nat, a <= b
  PROVE  Till!Rounded(a, 60) \in Nat /\ Till!Rounded(b, 60) \in Nat /\ Till!Rounded(a, 60) <= Till!Rounded(b, 60)
<1>1. PICK x \in Nat, y \in Nat, k \in Nat \ {0} : x = 2 * a + 60 /\ y = 2 * b + 60 /\ k = 2 * 60 /\ x <= y
  OBVIOUS
<1>2. x \div k \in Nat /\ y \div k \in Nat /\ x \div k <= y \div k
  BY <1>1, QuotientMonotone
<1> QED  BY <1>1, <1>2 DEF Till!Rounded

\* The price of the time at the seat, before it is asked who pays for it.
SeatPrice(m, rate) == Till!Least(Till!Rounded(m * rate, 60), FullDay)

LEMMA SeatPriceMonotone ==
  ASSUME TillNumbers, NEW a \in Nat, NEW b \in Nat, NEW rate \in Nat, a <= b
  PROVE  SeatPrice(a, rate) \in Nat /\ SeatPrice(b, rate) \in Nat /\ SeatPrice(a, rate) <= SeatPrice(b, rate)
<1>1. a * rate \in Nat /\ b * rate \in Nat /\ a * rate <= b * rate
  BY TimesMonotone
<1> DEFINE x == Till!Rounded(a * rate, 60)
           y == Till!Rounded(b * rate, 60)
<1>2. x \in Nat /\ y \in Nat /\ x <= y
  BY <1>1, RoundedMonotone
<1> HIDE DEF x, y
<1>3. Till!Least(x, FullDay) \in Nat /\ Till!Least(y, FullDay) \in Nat /\ Till!Least(x, FullDay) <= Till!Least(y, FullDay)
  BY <1>2 DEF Till!Least, TillNumbers
<1> QED  BY <1>3 DEF SeatPrice, x, y

\* The minimum, the increments and the rounding of the internet keep the order of minutes.
LEMMA InternetMonotone ==
  ASSUME TillNumbers, NEW a \in Nat, NEW b \in Nat, NEW rate \in Nat, a <= b
  PROVE  /\ Till!InternetAmount(a, rate) \in Nat /\ Till!InternetAmount(b, rate) \in Nat
         /\ Till!InternetAmount(a, rate) <= Till!InternetAmount(b, rate)
<1> DEFINE p == Till!Most(a, MinMinutes) + Increment - 1
           q == Till!Most(b, MinMinutes) + Increment - 1
           x == (p \div Increment) * Increment
           y == (q \div Increment) * Increment
<1>1. p \in Nat /\ q \in Nat /\ p <= q
  BY DEF Till!Most, TillNumbers
<1>2. p \div Increment \in Nat /\ q \div Increment \in Nat /\ p \div Increment <= q \div Increment
  <2> HIDE DEF p, q
  <2> QED  BY <1>1, QuotientMonotone DEF TillNumbers
<1>3. x \in Nat /\ y \in Nat /\ x <= y
  <2> DEFINE u == p \div Increment
             v == q \div Increment
  <2>1. u \in Nat /\ v \in Nat /\ u <= v /\ Increment \in Nat
    BY <1>2 DEF TillNumbers
  <2> HIDE DEF u, v
  <2>2. u * Increment \in Nat /\ v * Increment \in Nat /\ u * Increment <= v * Increment
    BY <2>1, TimesMonotone
  <2> QED  BY <2>2 DEF u, v
<1>4. /\ Till!InternetAmount(a, rate) = IF rate = 0 THEN 0 ELSE Till!Rounded(x * rate, 60)
      /\ Till!InternetAmount(b, rate) = IF rate = 0 THEN 0 ELSE Till!Rounded(y * rate, 60)
  BY DEF Till!InternetAmount
<1> HIDE DEF x, y
<1>5. x * rate \in Nat /\ y * rate \in Nat /\ x * rate <= y * rate
  BY <1>3, TimesMonotone
<1>6. /\ Till!Rounded(x * rate, 60) \in Nat /\ Till!Rounded(y * rate, 60) \in Nat
      /\ Till!Rounded(x * rate, 60) <= Till!Rounded(y * rate, 60)
  BY <1>5, RoundedMonotone
<1> QED  BY <1>4, <1>6

LEMMA TillTypes ==
  ASSUME TillNumbers, Till!TypeOK
  PROVE  /\ minutes \in Nat /\ orders \in Nat /\ net.since \in Nat /\ net.rate \in Nat
         /\ subscribed \in BOOLEAN
         /\ visit # Till!NoVisit => visit \in Till!Visit /\ visit.rate \in Nat
BY DEF Till!TypeOK, TillNumbers, Till!Visit

LEMMA TillInit ==
  ASSUME TillNumbers, Till!Init
  PROVE  Till!TypeOK
<1>1. 0 \in 0 .. Close /\ 0 \in 0 .. MaxOrders
  BY DEF TillNumbers
<1>2. Till!Offline \in [since : 0 .. Close, rate : TierRate \cup {0}]
  BY <1>1 DEF Till!Offline
<1> QED  BY <1>1, <1>2 DEF Till!Init, Till!TypeOK

LEMMA TillNext ==
  ASSUME TillNumbers, Till!TypeOK, Till!Next
  PROVE  Till!TypeOK'
<1>1. CASE Till!Tick
  BY <1>1, TillTypes DEF TillNumbers, Till!TypeOK, Till!Tick
<1>2. CASE Till!SubscriptionTurns
  BY <1>2 DEF Till!TypeOK, Till!SubscriptionTurns
<1>3. ASSUME NEW v \in Till!Visit, Till!CheckIn(v) PROVE Till!TypeOK'
  BY <1>3 DEF Till!TypeOK, Till!CheckIn
<1>4. ASSUME NEW total \in OrderTotal, Till!AddOrder(total) \/ Till!DropOrder(total) PROVE Till!TypeOK'
  BY <1>4, TillTypes DEF TillNumbers, Till!TypeOK, Till!AddOrder, Till!DropOrder
<1>5. ASSUME NEW rate \in TierRate, Till!GoOnline(rate) PROVE Till!TypeOK'
  <2>1. net' \in [since : 0 .. Close, rate : TierRate \cup {0}]
    BY <1>5 DEF Till!TypeOK, Till!GoOnline, Till!Most
  <2> QED  BY <1>5, <2>1 DEF Till!TypeOK, Till!GoOnline
<1> QED  BY <1>1, <1>2, <1>3, <1>4, <1>5 DEF Till!Next

\* The parts of a bill are amounts.
LEMMA BillParts ==
  ASSUME TillNumbers, Till!TypeOK, visit # Till!NoVisit
  PROVE  /\ SeatPrice(minutes, visit.rate) \in Nat
         /\ Till!TimeAmount = IF Till!SitsFree \/ Till!ReplacesSeat THEN 0 ELSE SeatPrice(minutes, visit.rate)
         /\ Till!LiveTime = IF Till!SitsFree THEN 0 ELSE SeatPrice(minutes, visit.rate)
         /\ Till!VisitMinutes \in Nat
         /\ Till!InternetCharge = IF net = Till!Offline \/ Till!InternetInSeat THEN 0
                                  ELSE Till!InternetAmount(Till!VisitMinutes, net.rate)
         /\ Till!InternetCharge \in Nat
<1>1. SeatPrice(minutes, visit.rate) \in Nat
  <2>1. PICK m \in Nat, rate \in Nat : m = minutes /\ rate = visit.rate
    BY TillTypes
  <2>2. m <= m
    OBVIOUS
  <2>3. SeatPrice(m, rate) \in Nat
    BY <2>2, SeatPriceMonotone
  <2> QED  BY <2>1, <2>3
<1>2. Till!VisitMinutes \in Nat
  BY TillTypes DEF Till!VisitMinutes, Till!Least, Till!Most, TillNumbers
<1>3. Till!InternetAmount(Till!VisitMinutes, net.rate) \in Nat
  <2>1. PICK m \in Nat, rate \in Nat : m = Till!VisitMinutes /\ rate = net.rate
    BY <1>2, TillTypes
  <2>2. m <= m
    OBVIOUS
  <2>3. Till!InternetAmount(m, rate) \in Nat
    BY <2>2, InternetMonotone
  <2> QED  BY <2>1, <2>3
<1> QED  BY <1>1, <1>2, <1>3 DEF SeatPrice, Till!TimeAmount, Till!LiveTime, Till!InternetCharge

LEMMA SumsOfThree ==
  ASSUME NEW x \in Nat, NEW y \in Nat, NEW a \in Nat, NEW b \in Nat, NEW i \in Nat, NEW j \in Nat,
         x <= y, a <= b, i <= j
  PROVE  y + b + j >= x + a + i
OBVIOUS

\* With whoever pays for it left as it is, a later moment costs as much, or more.
LEMMA LaterCostsMore ==
  ASSUME TillNumbers, Till!TypeOK, Till!TypeOK', visit # Till!NoVisit, visit' = visit, net' = net,
         minutes <= minutes', orders <= orders', subscribed' => subscribed, NEW discount \in Discount
  PROVE  Till!FinalAmount(discount)' >= Till!FinalAmount(discount)
<1>1. PICK m \in Nat, n \in Nat, rate \in Nat, tier \in Nat :
        m = minutes /\ n = minutes' /\ rate = visit.rate /\ tier = net.rate
  <2>1. minutes' \in Nat
    BY DEF Till!TypeOK, TillNumbers
  <2> QED  BY <2>1, TillTypes
<1>2. PICK vm, wm : vm = Till!VisitMinutes /\ wm = Till!VisitMinutes'
  OBVIOUS
<1>3. vm \in Nat /\ wm \in Nat /\ vm <= wm
  BY <1>1, <1>2, TillTypes DEF Till!VisitMinutes, Till!Least, Till!Most, TillNumbers
<1>4. SeatPrice(m, rate) \in Nat /\ SeatPrice(n, rate) \in Nat /\ SeatPrice(m, rate) <= SeatPrice(n, rate)
  BY <1>1, SeatPriceMonotone
<1>5. /\ Till!InternetAmount(vm, tier) \in Nat /\ Till!InternetAmount(wm, tier) \in Nat
      /\ Till!InternetAmount(vm, tier) <= Till!InternetAmount(wm, tier)
  BY <1>1, <1>3, InternetMonotone
<1>6. PICK s, t, i, j :
        /\ s = Till!TimeAmount /\ t = Till!TimeAmount' /\ i = Till!InternetCharge /\ j = Till!InternetCharge'
  OBVIOUS
<1>7. /\ (Till!SitsFree' => Till!SitsFree) /\ (Till!ReplacesSeat' <=> Till!ReplacesSeat)
      /\ (Till!InternetInSeat' <=> Till!InternetInSeat)
  BY DEF Till!SitsFree, Till!ReplacesSeat, Till!InternetInSeat
<1>8. /\ s = IF Till!SitsFree \/ Till!ReplacesSeat THEN 0 ELSE SeatPrice(m, rate)
      /\ t = IF Till!SitsFree' \/ Till!ReplacesSeat' THEN 0 ELSE SeatPrice(n, rate)
  BY <1>1, <1>6 DEF Till!TimeAmount, SeatPrice
<1>9. s \in Nat /\ t \in Nat /\ s <= t
  BY <1>4, <1>7, <1>8
<1>10. /\ i = IF net = Till!Offline \/ Till!InternetInSeat THEN 0 ELSE Till!InternetAmount(vm, tier)
       /\ j = IF net = Till!Offline \/ Till!InternetInSeat' THEN 0 ELSE Till!InternetAmount(wm, tier)
  BY <1>1, <1>2, <1>6 DEF Till!InternetCharge
<1>11. i \in Nat /\ j \in Nat /\ i <= j
  BY <1>5, <1>7, <1>10
<1>12. PICK a \in Nat, b \in Nat, d \in Nat : a = orders /\ b = orders' /\ d = discount
  <2>1. orders' \in Nat
    BY DEF Till!TypeOK, TillNumbers
  <2> QED  BY <2>1, TillTypes DEF TillNumbers
<1>13. /\ Till!FinalAmount(discount) = Till!Minus(s, Till!Least(d, s)) + a + i
       /\ Till!FinalAmount(discount)' = Till!Minus(t, Till!Least(d, t)) + b + j
  BY <1>6, <1>12 DEF Till!FinalAmount
<1>14. a <= b
  BY <1>12
<1>15. /\ Till!Minus(s, Till!Least(d, s)) \in Nat /\ Till!Minus(t, Till!Least(d, t)) \in Nat
       /\ Till!Minus(s, Till!Least(d, s)) <= Till!Minus(t, Till!Least(d, t))
  BY <1>9, <1>12 DEF Till!Minus, Till!Least
<1> DEFINE x == Till!Minus(s, Till!Least(d, s))
           y == Till!Minus(t, Till!Least(d, t))
<1>16. x \in Nat /\ y \in Nat /\ x <= y /\ Till!FinalAmount(discount) = x + a + i
       /\ Till!FinalAmount(discount)' = y + b + j
  BY <1>13, <1>15
<1> HIDE DEF x, y
<1>17. y + b + j >= x + a + i
  BY <1>11, <1>12, <1>14, <1>16, SumsOfThree
<1> QED  BY <1>16, <1>17

LEMMA TillApart ==
  ASSUME [Next]_vars, ~TillStep
  PROVE  UNCHANGED tillVars
BY DEF Next, vars, services, RoomStep, BookStep, SchoolStep, PlanStep, DoorStep, SiteStep,
   RouterStep, PeopleStep, EntryStep, LedgerStep, CallStep, DayStep

LEMMA TillInvariant == TillNumbers => (Spec => []Till!TypeOK)
<1> SUFFICES ASSUME TillNumbers PROVE Spec => []Till!TypeOK
  OBVIOUS
<1>1. Init => Till!TypeOK
  BY TillInit DEF Init
<1>2. Till!TypeOK /\ [Next]_vars => Till!TypeOK'
  <2> SUFFICES ASSUME Till!TypeOK, [Next]_vars PROVE Till!TypeOK'
    OBVIOUS
  <2>1. CASE TillStep
    BY <2>1, TillNext DEF TillStep
  <2>2. CASE ~TillStep
    BY <2>2, TillApart DEF tillVars, Till!TypeOK
  <2> QED  BY <2>1, <2>2
<1> QED  BY <1>1, <1>2, PTL DEF Spec

\* Staying longer, ordering more or outliving the subscription never makes a visit cheaper,
\* for any prices, increments and discounts (sessions/pricing, hotspot.config, checkout).
THEOREM LongerIsNeverCheaper ==
    ASSUME SeatRate \cup TierRate \cup OrderTotal \cup Discount \subseteq Nat,
           FullDay \in Nat, MinMinutes \in Nat, Increment \in Nat \ {0}, MaxVisitMinutes \in Nat,
           Step \in Nat, Close \in Nat, MaxOrders \in Nat
    PROVE  Spec => NeverCheaper
<1> DEFINE A == visit # Till!NoVisit /\ net' = net /\ orders' >= orders /\ (subscribed' => subscribed) =>
                  \A discount \in Discount : Till!FinalAmount(discount)' >= Till!FinalAmount(discount)
<1>1. TillNumbers
  BY DEF TillNumbers
<1>2. Till!TypeOK /\ Till!TypeOK' /\ [Next]_vars => [A]_(Till!vars)
  <2> SUFFICES ASSUME Till!TypeOK, Till!TypeOK', [Next]_vars, ~UNCHANGED Till!vars,
                      visit # Till!NoVisit, net' = net, orders' >= orders, subscribed' => subscribed
               PROVE  \A discount \in Discount : Till!FinalAmount(discount)' >= Till!FinalAmount(discount)
    OBVIOUS
  <2>1. Till!Next
    <3>1. CASE TillStep
      BY <3>1 DEF TillStep
    <3>2. CASE ~TillStep
      BY <3>2, TillApart DEF tillVars, Till!vars
    <3> QED  BY <3>1, <3>2
  <2>2. visit' = visit /\ minutes <= minutes'
    <3>1. minutes \in Nat
      BY <1>1, TillTypes
    <3> QED  BY <1>1, <2>1, <3>1 DEF Till!Next, Till!Tick, Till!SubscriptionTurns, Till!CheckIn, Till!AddOrder,
                Till!DropOrder, Till!GoOnline, TillNumbers
  <2>3. orders <= orders'
    <3>1. orders \in Nat /\ orders' \in Nat
      BY <1>1 DEF Till!TypeOK, TillNumbers
    <3> QED  BY <3>1
  <2> QED  BY <1>1, <2>2, <2>3, LaterCostsMore
<1> QED  BY <1>1, <1>2, TillInvariant, PTL DEF Spec, NeverCheaper, Till!NeverCheaper

\* What the Live page shows is what is charged, or less (sessions/service).
THEOREM LiveIsNotAboveTheBill ==
    ASSUME SeatRate \cup TierRate \cup OrderTotal \cup Discount \subseteq Nat,
           FullDay \in Nat, MinMinutes \in Nat, Increment \in Nat \ {0}, MaxVisitMinutes \in Nat,
           Step \in Nat, Close \in Nat, MaxOrders \in Nat
    PROVE  Spec => []LiveIsCharged
<1>1. TillNumbers
  BY DEF TillNumbers
<1>2. Till!TypeOK => LiveIsCharged
  <2> SUFFICES ASSUME Till!TypeOK, visit # Till!NoVisit
               PROVE  /\ net = Till!Offline \/ (visit.type = "visitor" /\ visit.rate = net.rate) =>
                           Till!FinalAmount(0) = Till!LiveAmount
                      /\ visit.mode = "surcharge" => Till!FinalAmount(0) >= Till!LiveAmount
    BY DEF LiveIsCharged, Till!LiveIsCharged
  <2>1. PICK t, l, i, o : t = Till!TimeAmount /\ l = Till!LiveTime /\ i = Till!InternetCharge /\ o = orders
    OBVIOUS
  <2>2. o \in Nat /\ i \in Nat /\ t \in Nat /\ l \in Nat
    BY <1>1, <2>1, BillParts, TillTypes
  <2>3. ~Till!ReplacesSeat => t = l
    BY <1>1, <2>1, BillParts
  <2>4. Till!Minus(t, Till!Least(0, t)) = t
    BY <2>2 DEF Till!Minus, Till!Least
  <2>5. Till!FinalAmount(0) = t + o + i /\ Till!LiveAmount = l + o
    BY <2>1, <2>4 DEF Till!FinalAmount, Till!LiveAmount
  <2>6. net = Till!Offline \/ Till!InternetInSeat => i = 0 /\ ~Till!ReplacesSeat
    BY <1>1, <2>1, BillParts DEF Till!ReplacesSeat
  <2>7. visit.type = "visitor" /\ visit.rate = net.rate => Till!InternetInSeat
    BY DEF Till!InternetInSeat
  <2>8. visit.mode = "surcharge" => ~Till!ReplacesSeat
    BY DEF Till!ReplacesSeat
  <2>9. t + o + 0 = t + o /\ t + o + i >= t + o
    BY <2>2
  <2> QED  BY <2>3, <2>5, <2>6, <2>7, <2>8, <2>9
<1> QED  BY <1>1, <1>2, TillInvariant, PTL


-----------------------------------------------------------------------------
(* Who is to be called.                                                    *)

CallNumbers ==
    /\ IsFiniteSet(Who)
    /\ LastDate \in Nat \ {0} /\ MaxActs \in Nat
    /\ SuppressDays \in Nat /\ InactiveDays \in Nat /\ GraceDays \in Nat

DayVisit == [in: 1 .. LastDate, out: 0 .. LastDate]

\* The mark of a person carries the day of the last call, whoever set it.
CallInv ==
    /\ Outreach!TypeOK
    /\ came \in [Who -> SUBSET DayVisit]
    /\ \A p \in Who : called[p] = card[p].at

LEMMA SameMax ==
  ASSUME NEW S, IsFiniteSet(S), S \subseteq Int, S # {}
  PROVE  Outreach!Max(S) \in S /\ \A y \in S : Outreach!Max(S) >= y
<1>1. \E x \in S : \A y \in S : x >= y
  BY LargestNumber
<1> QED  BY <1>1 DEF Outreach!Max

LEMMA CallTypes ==
  ASSUME CallNumbers, CallInv
  PROVE  /\ date \in Int /\ 1 <= date /\ date <= LastDate /\ acts \in 0 .. MaxActs
         /\ LastDate \in Int /\ MaxActs \in Int /\ SuppressDays \in Int /\ InactiveDays \in Int /\ GraceDays \in Int
         /\ date \in 1 .. LastDate /\ date \in 0 .. LastDate
         /\ card \in [Who -> Outreach!CardRow] /\ called \in [Who -> 0 .. LastDate]
         /\ came \in [Who -> SUBSET DayVisit]
BY DEF CallNumbers, CallInv, Outreach!TypeOK, Outreach!Date

LEMMA CallInit ==
  ASSUME CallNumbers, Outreach!Init
  PROVE  CallInv
BY DEF CallNumbers, CallInv, DayVisit, Outreach!Init, Outreach!TypeOK, Outreach!Date, Outreach!CardRow, Outreach!Listable

\* A step that changes visits only.
LEMMA VisitStep ==
  ASSUME CallNumbers, CallInv, Outreach!OnVisits, NEW p \in Who, NEW V \in SUBSET DayVisit,
         came' = [came EXCEPT ![p] = V]
  PROVE  CallInv'
<1>1. came' \in [Who -> SUBSET DayVisit]
  BY DEF CallInv
<1>2. UNCHANGED <<date, card, called>> /\ acts' \in 0 .. MaxActs
  BY CallTypes DEF Outreach!OnVisits, Outreach!Act
<1>3. \A q \in Who : came'[q] \subseteq DayVisit
  BY <1>1
<1>4. Outreach!TypeOK'
  BY <1>2, <1>3 DEF CallInv, Outreach!TypeOK, Outreach!Date, DayVisit
<1> QED  BY <1>1, <1>2, <1>4 DEF CallInv

LEMMA VisitSteps ==
  ASSUME CallNumbers, CallInv, NEW p \in Who, Outreach!Visits(p)
  PROVE  CallInv'
<1>1. CASE Outreach!CheckIn(p)
  <2> DEFINE V == came[p] \cup {[in |-> date, out |-> 0]}
  <2>1. V \in SUBSET DayVisit
    BY CallTypes DEF DayVisit
  <2>2. Outreach!OnVisits /\ came' = [came EXCEPT ![p] = V]
    BY <1>1 DEF Outreach!CheckIn
  <2> HIDE DEF V
  <2> QED  BY <2>1, <2>2, VisitStep
<1>2. CASE Outreach!CheckOut(p)
  <2>1. PICK s \in came[p] : came' = [came EXCEPT ![p] = (@ \ {s}) \cup {[s EXCEPT !.out = date]}]
    BY <1>2 DEF Outreach!CheckOut
  <2> DEFINE V == (came[p] \ {s}) \cup {[s EXCEPT !.out = date]}
  <2>2. V \in SUBSET DayVisit
    BY CallTypes DEF DayVisit
  <2>3. Outreach!OnVisits /\ came' = [came EXCEPT ![p] = V]
    BY <1>2, <2>1 DEF Outreach!CheckOut
  <2> HIDE DEF V
  <2> QED  BY <2>2, <2>3, VisitStep
<1>3. CASE Outreach!EditSession(p)
  <2>1. PICK s \in came[p], from \in 1 .. date : \E to \in from .. date :
            came' = [came EXCEPT ![p] = (@ \ {s}) \cup {[in |-> from, out |-> to]}]
    BY <1>3 DEF Outreach!EditSession
  <2>4. PICK to \in from .. date : came' = [came EXCEPT ![p] = (@ \ {s}) \cup {[in |-> from, out |-> to]}]
    BY <2>1
  <2> DEFINE V == (came[p] \ {s}) \cup {[in |-> from, out |-> to]}
  <2>2. V \in SUBSET DayVisit
    <3>1. from \in 1 .. LastDate /\ to \in 0 .. LastDate
      BY CallTypes
    <3> QED  BY <3>1, CallTypes DEF DayVisit
  <2>3. Outreach!OnVisits /\ came' = [came EXCEPT ![p] = V]
    BY <1>3, <2>4 DEF Outreach!EditSession
  <2> HIDE DEF V
  <2> QED  BY <2>2, <2>3, VisitStep
<1>4. CASE Outreach!DeleteSession(p)
  <2>1. PICK s \in came[p] : came' = [came EXCEPT ![p] = @ \ {s}]
    BY <1>4 DEF Outreach!DeleteSession
  <2>2. came[p] \ {s} \in SUBSET DayVisit
    BY CallTypes
  <2>3. Outreach!OnVisits
    BY <1>4 DEF Outreach!DeleteSession
  <2> QED  BY <2>1, <2>2, <2>3, VisitStep
<1> QED  BY <1>1, <1>2, <1>3, <1>4 DEF Outreach!Visits

\* A step that changes persons only, and says who was called.
LEMMA CardStep ==
  ASSUME CallNumbers, CallInv, Outreach!OnCard,
         card' \in [Who -> Outreach!CardRow],
         called' \in [Who -> 0 .. LastDate],
         \A q \in Who : called'[q] = card'[q].at
  PROVE  CallInv'
<1>1. UNCHANGED <<date, came>> /\ acts' \in 0 .. MaxActs
  BY CallTypes DEF Outreach!OnCard, Outreach!Act
<1> QED  BY <1>1 DEF CallInv, Outreach!TypeOK, Outreach!Date

\* A row is written without a word of its call.
LEMMA KeptStep ==
  ASSUME CallNumbers, CallInv, Outreach!OnCard, NEW p \in Who, NEW row \in Outreach!CardRow,
         row.at = card[p].at, card' = [card EXCEPT ![p] = row], UNCHANGED called
  PROVE  CallInv'
<1>1. card' \in [Who -> Outreach!CardRow]
  BY CallTypes
<1>2. ASSUME NEW q \in Who PROVE called'[q] = card'[q].at
  BY CallTypes DEF CallInv
<1> QED  BY <1>1, <1>2, CardStep, CallTypes

LEMMA KeptSteps ==
  ASSUME CallNumbers, CallInv, NEW p \in Who, Outreach!Kept(p)
  PROVE  CallInv'
<1>0. card[p] \in Outreach!CardRow
  BY CallTypes
<1>1. CASE Outreach!Register(p)
  <2>1. PICK row : row = [card[p] EXCEPT !.st = "active", !.born = date]
    OBVIOUS
  <2>2. row \in Outreach!CardRow /\ row.at = card[p].at
    BY <1>0, <2>1, CallTypes DEF Outreach!CardRow, Outreach!Date
  <2>3. card' = [card EXCEPT ![p] = row]
    BY <1>1, <2>1, CallTypes DEF Outreach!Register
  <2> QED  BY <1>1, <2>2, <2>3, KeptStep DEF Outreach!Register
<1>2. CASE Outreach!Archive(p)
  <2>1. PICK row : row = [card[p] EXCEPT !.st = "archived"]
    OBVIOUS
  <2>2. row \in Outreach!CardRow /\ row.at = card[p].at
    BY <1>0, <2>1 DEF Outreach!CardRow
  <2>3. card' = [card EXCEPT ![p] = row]
    BY <1>2, <2>1, CallTypes DEF Outreach!Archive
  <2> QED  BY <1>2, <2>2, <2>3, KeptStep DEF Outreach!Archive
<1>3. CASE Outreach!Restore(p)
  <2>1. PICK row : row = [card[p] EXCEPT !.st = "active"]
    OBVIOUS
  <2>2. row \in Outreach!CardRow /\ row.at = card[p].at
    BY <1>0, <2>1 DEF Outreach!CardRow
  <2>3. card' = [card EXCEPT ![p] = row]
    BY <1>3, <2>1, CallTypes DEF Outreach!Restore
  <2> QED  BY <1>3, <2>2, <2>3, KeptStep DEF Outreach!Restore
<1>4. CASE Outreach!ConvertType(p)
  <2>1. PICK type \in Outreach!Listable \cup {"trainee"} : card' = [card EXCEPT ![p].type = type]
    BY <1>4 DEF Outreach!ConvertType
  <2>2. PICK row : row = [card[p] EXCEPT !.type = type]
    OBVIOUS
  <2>3. row \in Outreach!CardRow /\ row.at = card[p].at
    BY <1>0, <2>2 DEF Outreach!CardRow
  <2>4. card' = [card EXCEPT ![p] = row]
    BY <2>1, <2>2, CallTypes
  <2> QED  BY <1>4, <2>3, <2>4, KeptStep DEF Outreach!ConvertType
<1> QED  BY <1>1, <1>2, <1>3, <1>4 DEF Outreach!Kept

LEMMA MarkSteps ==
  ASSUME CallNumbers, CallInv, NEW p \in Who, Outreach!Marks(p)
  PROVE  CallInv'
<1>0. card[p] \in Outreach!CardRow
  BY CallTypes
<1>1. ASSUME Outreach!OnCard, NEW mark \in {"needs", "contacted", "opt_out"},
             NEW day \in {date, card[p].at},
             card' = [card EXCEPT ![p].mark = mark, ![p].at = day],
             called' = [called EXCEPT ![p] = day]
      PROVE  CallInv'
  <2>1. day \in 0 .. LastDate
    BY <1>0, CallTypes DEF Outreach!CardRow, Outreach!Date
  <2>2. PICK row : row = [card[p] EXCEPT !.mark = mark, !.at = day]
    OBVIOUS
  <2>3. row \in Outreach!CardRow /\ row.at = day
    BY <1>0, <2>1, <2>2 DEF Outreach!CardRow, Outreach!Date
  <2>4. card' = [card EXCEPT ![p] = row]
    BY <1>1, <2>2, CallTypes
  <2>5. card' \in [Who -> Outreach!CardRow]
    BY <2>3, <2>4, CallTypes
  <2>6. called' \in [Who -> 0 .. LastDate]
    BY <1>1, <2>1, CallTypes
  <2>7. ASSUME NEW q \in Who PROVE called'[q] = card'[q].at
    BY <1>1, <2>3, <2>4, CallTypes DEF CallInv
  <2> QED  BY <1>1, <2>5, <2>6, <2>7, CardStep
<1>2. CASE Outreach!MarkContacted(p)
  BY <1>1, <1>2 DEF Outreach!MarkContacted
<1>3. CASE Outreach!Update(p)
  <2>1. Outreach!OnCard /\ called[p] = card[p].at
    BY <1>3 DEF Outreach!Update, CallInv
  <2>2. PICK mark \in {"needs", "contacted", "opt_out"} :
          LET reached == mark = "contacted"
          IN  /\ card' = [card EXCEPT ![p].mark = mark, ![p].at = IF reached THEN date ELSE @]
              /\ called' = [called EXCEPT ![p] = IF reached THEN date ELSE @]
    BY <1>3 DEF Outreach!Update
  <2>3. PICK day : day = IF mark = "contacted" THEN date ELSE card[p].at
    OBVIOUS
  <2>4. day \in {date, card[p].at}
    BY <2>3
  <2>5. card' = [card EXCEPT ![p].mark = mark, ![p].at = day]
    BY <2>2, <2>3, CallTypes
  <2>6. called' = [called EXCEPT ![p] = day]
    BY <2>1, <2>2, <2>3, CallTypes
  <2> QED  BY <1>1, <2>1, <2>4, <2>5, <2>6
<1> QED  BY <1>2, <1>3 DEF Outreach!Marks

LEMMA OptOutStep ==
  ASSUME CallNumbers, CallInv, NEW S \in SUBSET Who, Outreach!OptOut(S)
  PROVE  CallInv'
<1>1. card' = [p \in Who |-> IF p \in S /\ Outreach!Known(p) THEN [card[p] EXCEPT !.mark = "opt_out"] ELSE card[p]]
  BY DEF Outreach!OptOut
<1>2. ASSUME NEW p \in Who
      PROVE  card'[p] \in Outreach!CardRow /\ card'[p].at = card[p].at
  <2>1. card[p] \in Outreach!CardRow
    BY CallTypes
  <2>2. [card[p] EXCEPT !.mark = "opt_out"] \in Outreach!CardRow /\ [card[p] EXCEPT !.mark = "opt_out"].at = card[p].at
    BY <2>1 DEF Outreach!CardRow
  <2> QED  BY <1>1, <2>1, <2>2
<1>3. card' \in [Who -> Outreach!CardRow]
  <2>1. card' = [p \in Who |-> card'[p]]
    BY <1>1
  <2> QED  BY <1>2, <2>1
<1>4. ASSUME NEW p \in Who PROVE called'[p] = card'[p].at
  BY <1>2 DEF CallInv, Outreach!OptOut
<1>5. Outreach!OnCard /\ called' \in [Who -> 0 .. LastDate]
  BY CallTypes DEF Outreach!OptOut
<1> QED  BY <1>3, <1>4, <1>5, CardStep

LEMMA CallNext ==
  ASSUME CallNumbers, CallInv, Outreach!Next
  PROVE  CallInv'
<1>1. CASE Outreach!NextDate
  <2>1. date' \in 1 .. LastDate /\ UNCHANGED <<acts, card, came, called>>
    BY <1>1, CallTypes DEF Outreach!NextDate
  <2> QED  BY <2>1 DEF CallInv, Outreach!TypeOK
<1> QED  BY <1>1, VisitSteps, MarkSteps, KeptSteps, OptOutStep DEF Outreach!Next

LEMMA CallStill ==
  ASSUME CallInv, UNCHANGED callVars
  PROVE  CallInv'
BY DEF CallInv, callVars, Outreach!TypeOK

LEMMA CallApart ==
  ASSUME [Next]_vars, ~CallStep
  PROVE  UNCHANGED callVars
BY DEF Next, vars, services, RoomStep, BookStep, SchoolStep, PlanStep, DoorStep, TillStep, SiteStep,
   RouterStep, PeopleStep, EntryStep, LedgerStep, DayStep

LEMMA CallInvariant == CallNumbers => (Spec => []CallInv)
<1> SUFFICES ASSUME CallNumbers PROVE Spec => []CallInv
  OBVIOUS
<1>1. Init => CallInv
  BY CallInit DEF Init
<1>2. CallInv /\ [Next]_vars => CallInv'
  <2> SUFFICES ASSUME CallInv, [Next]_vars PROVE CallInv'
    OBVIOUS
  <2>1. CASE CallStep
    BY <2>1, CallNext DEF CallStep
  <2>2. CASE ~CallStep
    BY <2>2, CallApart, CallStill
  <2> QED  BY <2>1, <2>2
<1> QED  BY <1>1, <1>2, PTL DEF Spec


\* When somebody came last is when they came.
LEMMA LatestVisit ==
  ASSUME CallNumbers, CallInv, NEW p \in Who, came[p] # {}
  PROVE  /\ \E s \in came[p] : Outreach!Latest(p) = s.in
         /\ \A s \in came[p] : s.in <= Outreach!Latest(p)
<1> DEFINE S == {s.in : s \in came[p]}
<1>1. S # {} /\ S \in SUBSET (1 .. LastDate)
  BY CallTypes DEF DayVisit
<1>2. IsFiniteSet(1 .. LastDate)
  BY CallTypes, FS_Interval
<1>3. IsFiniteSet(S) /\ S \subseteq Int
  <2> HIDE DEF S
  <2>1. IsFiniteSet(S)
    BY <1>1, <1>2, FS_Subset
  <2>2. S \subseteq Int
    BY <1>1
  <2> QED  BY <2>1, <2>2
<1>4. Outreach!Latest(p) = Outreach!Max(S)
  BY DEF Outreach!Latest
<1>5. \A s \in came[p] : s.in \in S
  OBVIOUS
<1>6. Outreach!Max(S) \in S /\ \A y \in S : Outreach!Max(S) >= y
  <2> HIDE DEF S
  <2> QED  BY <1>1, <1>3, SameMax
<1>7. ASSUME NEW s \in came[p] PROVE s.in <= Outreach!Latest(p)
  <2> HIDE DEF S
  <2> QED  BY <1>1, <1>4, <1>5, <1>6
<1>8. \E s \in came[p] : Outreach!Latest(p) = s.in
  BY <1>4, <1>6
<1> QED  BY <1>7, <1>8

LEMMA LaterOfTwo ==
  ASSUME NEW a \in Int, NEW b \in Int
  PROVE  Outreach!Max({a, b}) = IF a >= b THEN a ELSE b
<1>1. IsFiniteSet({a, b})
  <2>1. IsFiniteSet({a}) /\ {a, b} = {a} \cup {b}
    BY FS_Singleton
  <2> QED  BY <2>1, FS_AddElement
<1>2. Outreach!Max({a, b}) \in {a, b} /\ \A y \in {a, b} : Outreach!Max({a, b}) >= y
  BY <1>1, SameMax
<1> QED  BY <1>2

LEMMA SameCountOfCalls == \A S : Outreach!Cardinality(S) = Cardinality(S)
BY DEF Outreach!Cardinality, Cardinality

\* What the list says of somebody's days, in numbers.
LEMMA DueDays ==
  ASSUME CallNumbers, CallInv, NEW p \in Who
  PROVE  Outreach!Due(p) =>
            /\ card[p].at = 0 \/ date - card[p].at > SuppressDays
            /\ \A s \in came[p] : date - s.in > InactiveDays
<1> SUFFICES ASSUME Outreach!Due(p)
             PROVE  /\ card[p].at = 0 \/ date - card[p].at > SuppressDays
                    /\ \A s \in came[p] : date - s.in > InactiveDays
  OBVIOUS
<1>1. card[p].at \in Int
  BY CallTypes DEF Outreach!CardRow, Outreach!Date
<1>2. card[p].at = 0 \/ date - card[p].at > SuppressDays
  BY <1>1, CallTypes DEF Outreach!Due
<1>3. ASSUME NEW s \in came[p] PROVE date - s.in > InactiveDays
  <2>1. Outreach!Latest(p) < date - InactiveDays /\ came[p] # {}
    BY DEF Outreach!Due
  <2>2. s.in <= Outreach!Latest(p) /\ \E t \in came[p] : Outreach!Latest(p) = t.in
    BY <2>1, LatestVisit
  <2>3. s.in \in Int /\ Outreach!Latest(p) \in Int
    BY <2>2, CallTypes DEF DayVisit
  <2> QED  BY <2>1, <2>2, <2>3, CallTypes
<1> QED  BY <1>2, <1>3

LEMMA ListAlone ==
  ASSUME CallNumbers, CallInv
  PROVE  Outreach!LeftAlone
<1> SUFFICES ASSUME NEW p \in Who, Outreach!Due(p)
             PROVE  /\ called[p] = 0 \/ date - called[p] > SuppressDays
                    /\ \A s \in came[p] : date - s.in > InactiveDays
  BY DEF Outreach!LeftAlone, Outreach!FollowUpList
<1> QED  BY DueDays DEF CallInv

LEMMA AlertCounts ==
  ASSUME CallNumbers, CallInv
  PROVE  Outreach!FollowUpCount = Outreach!Cardinality(Outreach!FollowUpList)
                    + Outreach!Cardinality({p \in Who : card[p].st = "archived" /\ Outreach!Due(p)})
<1> DEFINE L == Outreach!FollowUpList
           A == {p \in Who : card[p].st = "archived" /\ Outreach!Due(p)}
           K == {p \in Who : Outreach!Known(p) /\ Outreach!Due(p)}
<1>1. \A p \in Who : card[p].st \in {"none", "active", "archived"}
  BY CallTypes DEF Outreach!CardRow
<1>2. K = L \cup A /\ L \cap A = {} /\ L \in SUBSET Who /\ A \in SUBSET Who
  BY <1>1 DEF Outreach!FollowUpList, Outreach!Known, Outreach!Active
<1>3. Outreach!FollowUpCount = Outreach!Cardinality(K)
  BY DEF Outreach!FollowUpCount
<1> HIDE DEF L, A, K
<1>4. IsFiniteSet(L) /\ IsFiniteSet(A)
  BY <1>2, FS_Subset DEF CallNumbers
<1>5. Cardinality(L \cup A) = Cardinality(L) + Cardinality(A) - Cardinality(L \cap A)
  BY <1>4, FS_Union
<1>6. Cardinality(L) \in Nat /\ Cardinality(A) \in Nat /\ Cardinality(L \cap A) = 0
  BY <1>2, <1>4, FS_CardinalityType, FS_EmptySet
<1>7. Cardinality(K) = Cardinality(L) + Cardinality(A)
  BY <1>2, <1>5, <1>6
<1>8. Outreach!FollowUpCount = Outreach!Cardinality(L) + Outreach!Cardinality(A)
  BY <1>3, <1>7, SameCountOfCalls
<1> QED  BY <1>8 DEF L, A

\* Of whom the messages speak and the list does not, and the other way round.
LEMMA MessagesCompare ==
  ASSUME CallNumbers, CallInv, NEW p \in Who, Outreach!Active(p)
  PROVE  /\ p \in Outreach!Churned(InactiveDays) /\ ~Outreach!Due(p) =>
              \/ card[p].type \notin Outreach!Listable \/ card[p].mark = "opt_out"
              \/ card[p].at # 0 /\ card[p].at >= date - SuppressDays
         /\ Outreach!Due(p) /\ p \notin Outreach!Churned(InactiveDays) =>
              \/ came[p] = {} \/ Outreach!Seated(p)
              \/ \E s \in came[p] : date - s.out <= InactiveDays
<1>1. \A s \in came[p] : s.in \in Int /\ s.out \in Int
  BY CallTypes DEF DayVisit
<1>2. card[p].at \in Int
  BY CallTypes DEF Outreach!CardRow, Outreach!Date
<1>3. ASSUME p \in Outreach!Churned(InactiveDays), ~Outreach!Due(p),
             card[p].type \in Outreach!Listable, card[p].mark # "opt_out",
             card[p].at = 0 \/ ~(card[p].at >= date - SuppressDays)
      PROVE  FALSE
  <2>1. came[p] # {} /\ \A s \in came[p] : Outreach!Max({s.in, s.out}) < date - InactiveDays
    BY <1>3 DEF Outreach!Churned
  <2>2. PICK s \in came[p] : Outreach!Latest(p) = s.in
    BY <2>1, LatestVisit
  <2>3. s.in < date - InactiveDays
    <3>1. Outreach!Max({s.in, s.out}) = (IF s.in >= s.out THEN s.in ELSE s.out)
      BY <1>1, LaterOfTwo
    <3>2. s.in \in Int /\ s.out \in Int /\ Outreach!Max({s.in, s.out}) < date - InactiveDays
      BY <1>1, <2>1
    <3> QED  BY <3>1, <3>2, CallTypes
  <2>4. card[p].at = 0 \/ card[p].at < date - SuppressDays
    BY <1>2, <1>3, CallTypes
  <2> QED  BY <1>3, <2>1, <2>2, <2>3, <2>4 DEF Outreach!Due
<1>4. ASSUME Outreach!Due(p), p \notin Outreach!Churned(InactiveDays), came[p] # {}
      PROVE  \E s \in came[p] : date - s.out <= InactiveDays
  <2>1. PICK s \in came[p] : ~(Outreach!Max({s.in, s.out}) < date - InactiveDays)
    BY <1>4 DEF Outreach!Churned
  <2>2. date - s.in > InactiveDays
    BY <1>4, DueDays
  <2> QED  BY <1>1, <2>1, <2>2, LaterOfTwo, CallTypes
<1> QED  BY <1>3, <1>4

\* Nobody is on the list who was called or came lately, and the list, the alert of the
\* dashboard and the messages differ only by whom they name (followUp/service).
THEOREM CallsAgree ==
    ASSUME IsFiniteSet(Who), LastDate \in Nat \ {0}, MaxActs \in Nat,
           SuppressDays \in Nat, InactiveDays \in Nat, GraceDays \in Nat
    PROVE  Spec => []FollowUpsAgree
<1>1. CallNumbers
  BY DEF CallNumbers
<1>2. CallInv => FollowUpsAgree
  <2> SUFFICES ASSUME CallInv PROVE Outreach!FollowUpsAgree
    BY DEF FollowUpsAgree
  <2>1. Outreach!FollowUpList \subseteq Outreach!AllToFollow
    BY DEF Outreach!FollowUpList, Outreach!AllToFollow, Outreach!Due
  <2>2. ASSUME NEW p \in Outreach!Churned(InactiveDays) \ Outreach!FollowUpList
        PROVE  \/ card[p].type \notin Outreach!Listable \/ card[p].mark = "opt_out"
               \/ card[p].at # 0 /\ card[p].at >= date - SuppressDays
    <3>1. p \in Who /\ Outreach!Active(p) /\ ~Outreach!Due(p)
      BY DEF Outreach!Churned, Outreach!FollowUpList
    <3> QED  BY <1>1, <3>1, MessagesCompare
  <2>3. ASSUME NEW p \in Outreach!FollowUpList \ Outreach!Churned(InactiveDays)
        PROVE  \/ came[p] = {} \/ Outreach!Seated(p)
               \/ \E s \in came[p] : date - s.out <= InactiveDays
    <3>1. p \in Who /\ Outreach!Active(p) /\ Outreach!Due(p)
      BY DEF Outreach!FollowUpList
    <3> QED  BY <1>1, <3>1, MessagesCompare
  <2>4. Outreach!ListsAgree
    BY <1>1, <2>1, <2>2, <2>3, AlertCounts DEF Outreach!ListsAgree
  <2> QED  BY <1>1, <2>4, ListAlone DEF Outreach!FollowUpsAgree
<1> QED  BY <1>1, <1>2, CallInvariant, PTL


-----------------------------------------------------------------------------
(* The doors, for one phone.                                               *)

EntryNumbers ==
    /\ MaxRows \in Nat /\ MaxCalls \in Nat
    /\ EntryKind \subseteq Doors!Types

LinkedRight(n) ==
    n.paid => /\ ~n.member
              /\ n.clear => /\ n.owner # Doors!NoRow
                            /\ n.session = n.owner \/ (n.lost /\ n.session = Doors!NoRow)

Seated(sitting, table) ==
    \A r \in Doors!Row : sitting[r] > 0 => sitting[r] = 1 /\ table[r].st = "active"

\* Nobody has a session but those whose row is active, and they have one, until a session
\* is opened again beside another or for an archived row.
EntryInv ==
    /\ Doors!TypeOK
    /\ ~reopened => Seated(seat, rows)
    /\ ~shared => Cardinality(Doors!Active) <= 1
    /\ LinkedRight(wifi)

Line == [kind: Doors!Types \cup {"none"}, paid: BOOLEAN, owner: Doors!Row \cup {Doors!NoRow},
         session: Doors!Row \cup {Doors!NoRow}, member: BOOLEAN, clear: BOOLEAN,
         lost: BOOLEAN]

LEMMA SameCountOfRows == \A S : Doors!Cardinality(S) = Cardinality(S)
BY DEF Doors!Cardinality, Cardinality

LEMMA EntryTypes ==
  ASSUME EntryNumbers, EntryInv
  PROVE  /\ rows \in [Doors!Row -> Doors!RowType]
         /\ seat \in [Doors!Row -> Nat] /\ past \in [Doors!Row -> Nat]
         /\ wifi \in Line /\ calls \in 0 .. MaxCalls /\ MaxCalls \in Int
         /\ staff \in BOOLEAN /\ roster \in BOOLEAN /\ enrolled \in BOOLEAN /\ shared \in BOOLEAN
         /\ reopened \in BOOLEAN
         /\ IsFiniteSet(Doors!Row) /\ Doors!Row \subseteq Int /\ Doors!NoRow \notin Doors!Row
<1>1. IsFiniteSet(1 .. MaxRows)
  BY FS_Interval DEF EntryNumbers
<1>2. /\ rows \in [Doors!Row -> Doors!RowType]
      /\ seat \in [Doors!Row -> Nat] /\ past \in [Doors!Row -> Nat]
      /\ wifi \in Line /\ calls \in 0 .. MaxCalls /\ MaxCalls \in Int
      /\ staff \in BOOLEAN /\ roster \in BOOLEAN /\ enrolled \in BOOLEAN /\ shared \in BOOLEAN
      /\ reopened \in BOOLEAN
  BY DEF EntryNumbers, EntryInv, Doors!TypeOK, Line
<1>3. Doors!Row \subseteq Int /\ Doors!NoRow \notin Doors!Row
  BY DEF Doors!Row, Doors!NoRow
<1> QED  BY <1>1, <1>2, <1>3 DEF Doors!Row

\* The eldest of some rows is one of them.
LEMMA EldestIsOne ==
  ASSUME EntryNumbers, EntryInv, NEW S \in SUBSET Doors!Row
  PROVE  /\ S = {} => Doors!Eldest(S) = Doors!NoRow
         /\ S # {} => Doors!Eldest(S) \in S
<1>1. S = {} => Doors!Eldest(S) = Doors!NoRow
  BY DEF Doors!Eldest
<1>2. ASSUME S # {} PROVE Doors!Eldest(S) \in S
  <2>1. IsFiniteSet(S) /\ S \subseteq Int
    BY EntryTypes, FS_Subset
  <2>2. \E x \in S : \A y \in S : x <= y
    BY <1>2, <2>1, SmallestNumber
  <2> QED  BY <1>2, <2>2 DEF Doors!Eldest, Doors!Min
<1> QED  BY <1>1, <1>2

LEMMA EntryInit ==
  ASSUME EntryNumbers, Doors!Init
  PROVE  EntryInv
<1>1. Doors!TypeOK
  <2>1. rows \in [Doors!Row -> Doors!RowType] /\ seat \in [Doors!Row -> Nat] /\ past \in [Doors!Row -> Nat]
    BY DEF Doors!Init, Doors!RowType, Doors!Types
  <2>2. wifi \in Line
    BY DEF Doors!Init, Doors!NoNet, Line
  <2>3. calls \in 0 .. MaxCalls /\ shared \in BOOLEAN /\ reopened \in BOOLEAN /\ staff \in BOOLEAN /\ roster \in BOOLEAN /\ enrolled \in BOOLEAN
    <3>1. calls \in 0 .. MaxCalls
      BY DEF EntryNumbers, Doors!Init
    <3>2. ~shared /\ ~reopened /\ ~staff /\ ~roster /\ ~enrolled /\ {shared, reopened, staff, roster, enrolled} = {FALSE}
      BY Zenon DEF Doors!Init
    <3> QED  BY <3>1, <3>2
  <2> QED  BY <2>1, <2>2, <2>3 DEF Doors!TypeOK, Line
<1>2. Doors!Active = {} /\ Seated(seat, rows)
  BY DEF Doors!Init, Doors!Active, Doors!In, Seated
<1>3. Cardinality(Doors!Active) <= 1
  BY <1>2, FS_EmptySet
<1>4. LinkedRight(wifi)
  BY DEF LinkedRight, Doors!Init, Doors!NoNet
<1> QED  BY <1>1, <1>2, <1>3, <1>4 DEF EntryInv

\* What a step must show.
LEMMA EntryStepKeeps ==
  ASSUME EntryNumbers, EntryInv,
         calls' \in 0 .. MaxCalls,
         rows' \in [Doors!Row -> Doors!RowType],
         seat' \in [Doors!Row -> Nat], past' \in [Doors!Row -> Nat], reopened' \in BOOLEAN,
         wifi' \in Line,
         staff' \in BOOLEAN, roster' \in BOOLEAN, enrolled' \in BOOLEAN,
         ~reopened' => Seated(seat', rows'),
         Doors!Now(rows') \/ UNCHANGED <<rows, shared>>,
         LinkedRight(wifi')
  PROVE  EntryInv'
<1>1. shared' \in BOOLEAN
  BY EntryTypes DEF Doors!Now
<1>2. Doors!TypeOK'
  BY <1>1 DEF Doors!TypeOK, Line
<1>3. ~reopened' => Seated(seat, rows)'
  BY DEF Seated
<1>4. ASSUME ~shared' PROVE Cardinality(Doors!Active') <= 1
  <2>1. CASE Doors!Now(rows')
    <3>1. ~(Cardinality(Doors!In(rows', "active")) > 1)
      BY <1>4, <2>1, SameCountOfRows DEF Doors!Now
    <3>2. IsFiniteSet(Doors!In(rows', "active"))
      BY EntryTypes, FS_Subset DEF Doors!In
    <3>3. Cardinality(Doors!In(rows', "active")) \in Nat
      BY <3>2, FS_CardinalityType
    <3>4. Doors!Active' = Doors!In(rows', "active")
      BY DEF Doors!Active, Doors!In
    <3> QED  BY <3>1, <3>3, <3>4
  <2>2. CASE UNCHANGED <<rows, shared>>
    <3>1. Doors!Active' = Doors!Active /\ ~shared
      BY <1>4, <2>2 DEF Doors!Active, Doors!In
    <3> QED  BY <3>1 DEF EntryInv
  <2> QED  BY <2>1, <2>2
<1> QED  BY <1>2, <1>3, <1>4 DEF EntryInv

\* The rows who have a session are active, and have one.
LEMMA SeatedIsActive ==
  ASSUME EntryNumbers, EntryInv, ~reopened, NEW r \in Doors!Row, seat[r] > 0
  PROVE  rows[r].st = "active" /\ seat[r] = 1
BY DEF EntryInv, Seated

LEMMA FreshRow ==
  ASSUME NEW r \in Doors!Fresh
  PROVE  r \in Doors!Row /\ rows[r].st = "none"
BY DEF Doors!Fresh, Doors!In

\* A new row leaves the others as they are.
LEMMA NewRow ==
  ASSUME EntryNumbers, EntryInv, NEW r \in Doors!Fresh, NEW type \in Doors!Types
  PROVE  /\ Doors!With(r, type) \in [Doors!Row -> Doors!RowType]
         /\ Doors!With(r, type)[r].st = "active"
         /\ \A q \in Doors!Row \ {r} : Doors!With(r, type)[q] = rows[q]
<1>1. r \in Doors!Row /\ rows[r] \in Doors!RowType
  BY FreshRow, EntryTypes
<1>2. PICK row : row = [rows[r] EXCEPT !.st = "active", !.type = type]
  OBVIOUS
<1>3. row \in Doors!RowType /\ row.st = "active"
  BY <1>1, <1>2 DEF Doors!RowType
<1>4. Doors!With(r, type) = [rows EXCEPT ![r] = row]
  BY <1>1, <1>2, EntryTypes DEF Doors!With
<1> QED  BY <1>1, <1>3, <1>4, EntryTypes

-----------------------------------------------------------------------------
\* A check-in by phone finds an active row, or makes one, or is refused.
LEMMA PhoneFinds ==
  ASSUME EntryNumbers, EntryInv, NEW type \in Doors!Types,
         NEW table \in [Doors!Row -> Doors!RowType],
         \A r \in Doors!Row : rows[r].st = "active" => table[r].st = "active",
         NEW found \in Doors!CheckInPhone(type, table)
  PROVE  /\ found.rows \in [Doors!Row -> Doors!RowType]
         /\ \A r \in Doors!Row : rows[r].st = "active" => found.rows[r].st = "active"
         /\ found.ok => found.row \in Doors!Row /\ found.rows[found.row].st = "active"
<1>1. CASE Doors!In(table, "active") # {}
  <2>1. PICK r \in Doors!In(table, "active") : found = [row |-> r, rows |-> table, ok |-> r \notin Doors!Open]
    BY <1>1 DEF Doors!CheckInPhone
  <2> QED  BY <2>1 DEF Doors!In
<1>2. CASE Doors!In(table, "active") = {} /\ Doors!In(table, "archived") # {}
  <2>1. found = [row |-> Doors!NoRow, rows |-> table, ok |-> FALSE]
    BY <1>2 DEF Doors!CheckInPhone
  <2> QED  BY <2>1
<1>3. CASE Doors!In(table, "active") = {} /\ Doors!In(table, "archived") = {}
  <2>1. PICK r \in Doors!Fresh : found = [row |-> r, rows |-> Doors!With(r, type), ok |-> TRUE]
    BY <1>3 DEF Doors!CheckInPhone
  <2>2. r \in Doors!Row /\ rows[r].st = "none"
    BY FreshRow
  <2> QED  BY <2>1, <2>2, NewRow
<1> QED  BY <1>1, <1>2, <1>3

\* Rows stay active, and whoever sits down is.
LEMMA SeatStep ==
  ASSUME EntryNumbers, EntryInv, Doors!Call, Doors!SameTables, UNCHANGED wifi,
         Doors!Now(rows') \/ UNCHANGED <<rows, shared>>,
         rows' \in [Doors!Row -> Doors!RowType],
         \A q \in Doors!Row : rows[q].st = "active" => rows'[q].st = "active",
         NEW r \in Doors!Row, rows'[r].st = "active",
         seat' = [seat EXCEPT ![r] = 1]
  PROVE  EntryInv'
<1>1. calls' \in 0 .. MaxCalls
  BY EntryTypes DEF Doors!Call
<1>2. seat' \in [Doors!Row -> Nat] /\ past' \in [Doors!Row -> Nat] /\ reopened' = reopened
  BY EntryTypes DEF Doors!SameTables
<1>3. ASSUME ~reopened PROVE Seated(seat', rows')
  BY <1>3, EntryTypes, SeatedIsActive DEF Seated
<1>4. reopened' \in BOOLEAN /\ staff' \in BOOLEAN /\ roster' \in BOOLEAN /\ enrolled' \in BOOLEAN /\ wifi' \in Line
  BY EntryTypes DEF Doors!SameTables
<1>5. LinkedRight(wifi')
  BY DEF EntryInv
<1> QED  BY <1>1, <1>2, <1>3, <1>4, <1>5, EntryStepKeeps

\* Rows change, and those who sit stay active.
LEMMA TableStep ==
  ASSUME EntryNumbers, EntryInv, Doors!Call, Doors!SameTables, UNCHANGED <<seat, wifi>>,
         Doors!Now(rows'),
         rows' \in [Doors!Row -> Doors!RowType],
         ~reopened => Seated(seat, rows')
  PROVE  EntryInv'
<1>1. calls' \in 0 .. MaxCalls
  BY EntryTypes DEF Doors!Call
<1>2. staff' \in BOOLEAN /\ roster' \in BOOLEAN /\ enrolled' \in BOOLEAN /\ wifi' \in Line
  BY EntryTypes DEF Doors!SameTables
<1>3. /\ LinkedRight(wifi') /\ seat' \in [Doors!Row -> Nat] /\ past' \in [Doors!Row -> Nat]
      /\ reopened' = reopened /\ reopened' \in BOOLEAN
  BY EntryTypes DEF EntryInv, Doors!SameTables
<1> QED  BY <1>1, <1>2, <1>3, EntryStepKeeps


LEMMA ReceptionSteps ==
  ASSUME EntryNumbers, EntryInv,
         \/ \E type \in EntryKind : Doors!Reception(type)
         \/ \E r \in Doors!Row : Doors!ReceptionById(r)
  PROVE  EntryInv'
<1>1. ASSUME NEW type \in EntryKind, Doors!Reception(type) PROVE EntryInv'
  <2>1. PICK found \in Doors!CheckInPhone(type, rows) :
          found.ok /\ seat' = [seat EXCEPT ![found.row] = 1] /\ rows' = found.rows
    BY <1>1 DEF Doors!Reception
  <2>2. /\ rows' \in [Doors!Row -> Doors!RowType]
        /\ \A q \in Doors!Row : rows[q].st = "active" => rows'[q].st = "active"
        /\ found.row \in Doors!Row /\ rows'[found.row].st = "active"
    BY <2>1, PhoneFinds, EntryTypes DEF EntryNumbers
  <2>3. Doors!Call /\ Doors!SameTables /\ UNCHANGED wifi /\ Doors!Now(rows')
    BY <1>1 DEF Doors!Reception
  <2> QED  BY <2>1, <2>2, <2>3, SeatStep
<1>2. ASSUME NEW r \in Doors!Row, Doors!ReceptionById(r) PROVE EntryInv'
  <2>1. rows' = rows /\ rows[r].st = "active" /\ seat' = [seat EXCEPT ![r] = 1]
    BY <1>2 DEF Doors!ReceptionById, Doors!CheckInRow, Doors!Active, Doors!In
  <2>2. Doors!Call /\ Doors!SameTables /\ UNCHANGED <<rows, wifi, shared>>
    BY <1>2 DEF Doors!ReceptionById
  <2> QED  BY <2>1, <2>2, SeatStep, EntryTypes
<1> QED  BY <1>1, <1>2

\* The QR page checks in an active row, or a new one.
LEMMA AnchorStep ==
  ASSUME EntryNumbers, EntryInv, Doors!Call, NEW type \in Doors!Types,
         Doors!Anchor(type)
  PROVE  EntryInv'
<1>0. Doors!SameTables /\ UNCHANGED wifi /\ Doors!Now(rows')
  BY DEF Doors!Anchor
<1>1. CASE Doors!Active # {} /\ Doors!CheckInRow(Doors!Eldest(Doors!Active)) /\ UNCHANGED rows
  <2>1. Doors!Active \in SUBSET Doors!Row
    BY DEF Doors!Active, Doors!In
  <2>2. PICK r : r = Doors!Eldest(Doors!Active)
    OBVIOUS
  <2>3. r \in Doors!Active
    BY <1>1, <2>1, <2>2, EldestIsOne
  <2>4. r \in Doors!Row /\ rows[r].st = "active" /\ seat' = [seat EXCEPT ![r] = 1]
    BY <1>1, <2>2, <2>3 DEF Doors!Active, Doors!In, Doors!CheckInRow
  <2> QED  BY <1>0, <1>1, <2>4, SeatStep, EntryTypes
<1>2. CASE \E r \in Doors!Fresh : rows' = Doors!With(r, type) /\ Doors!CheckInRow(r)
  <2>1. PICK r \in Doors!Fresh : rows' = Doors!With(r, type) /\ Doors!CheckInRow(r)
    BY <1>2
  <2>2. r \in Doors!Row /\ rows[r].st = "none" /\ seat' = [seat EXCEPT ![r] = 1]
    BY <2>1, FreshRow DEF Doors!CheckInRow
  <2>3. /\ rows' \in [Doors!Row -> Doors!RowType] /\ rows'[r].st = "active"
        /\ \A q \in Doors!Row : rows[q].st = "active" => rows'[q].st = "active"
    BY <2>1, <2>2, NewRow
  <2> QED  BY <1>0, <2>2, <2>3, SeatStep
<1> QED  BY <1>1, <1>2 DEF Doors!Anchor

LEMMA QrSteps ==
  ASSUME EntryNumbers, EntryInv, Doors!QrMember \/ Doors!QrVisitor
  PROVE  EntryInv'
<1>1. CASE Doors!QrVisitor
  BY <1>1, AnchorStep DEF Doors!QrVisitor, Doors!Types
<1>2. CASE Doors!QrMember
  <2>1. CASE Doors!Anchor("employee")
    BY <1>2, <2>1, AnchorStep DEF Doors!QrMember, Doors!Types
  <2>2. CASE ~Doors!Anchor("employee")
    <3>1. PICK r : r = Doors!ResolveMember.row
      OBVIOUS
    <3>2. /\ Doors!ResolveMember.kind \in {"trainee", "subscriber"}
          /\ Doors!CheckInRow(r) /\ Doors!Call /\ Doors!SameTables /\ UNCHANGED <<rows, wifi, shared>>
      BY <1>2, <2>2, <3>1 DEF Doors!QrMember
    <3>3. CASE r = Doors!Eldest(Doors!OfType("trainee")) /\ Doors!OfType("trainee") # {}
      <4>1. Doors!OfType("trainee") \in SUBSET Doors!Row
        BY DEF Doors!OfType, Doors!Active, Doors!In
      <4>2. r \in Doors!OfType("trainee")
        BY <3>3, <4>1, EldestIsOne
      <4>3. r \in Doors!Row /\ rows[r].st = "active"
        BY <4>2 DEF Doors!OfType, Doors!Active, Doors!In
      <4> QED  BY <3>2, <4>3, SeatStep, EntryTypes DEF Doors!CheckInRow
    <3>4. CASE r = Doors!Eldest(Doors!Subscribers) /\ Doors!Subscribers # {}
      <4>1. Doors!Subscribers \in SUBSET Doors!Row
        BY DEF Doors!Subscribers, Doors!OfType, Doors!Active, Doors!In
      <4>2. r \in Doors!Subscribers
        BY <3>4, <4>1, EldestIsOne
      <4>3. r \in Doors!Row /\ rows[r].st = "active"
        BY <4>2 DEF Doors!Subscribers, Doors!OfType, Doors!Active, Doors!In
      <4> QED  BY <3>2, <4>3, SeatStep, EntryTypes DEF Doors!CheckInRow
    <3> QED  BY <3>1, <3>2, <3>3, <3>4 DEF Doors!ResolveMember
  <2> QED  BY <2>1, <2>2
<1> QED  BY <1>1, <1>2

\* Who the portal takes somebody for.
LEMMA IdentityIs ==
  ASSUME EntryNumbers, EntryInv, NEW id, id = Doors!ResolveIdentity
  PROVE  /\ id.kind \in Doors!Types /\ id.row \in Doors!Row \cup {Doors!NoRow}
         /\ id.kind = "visitor" => Doors!Subscribers = {} /\ id.row = Doors!Eldest(Doors!Active)
<1>1. /\ Doors!Subscribers \in SUBSET Doors!Row
      /\ Doors!Active \in SUBSET Doors!Row
  BY DEF Doors!Subscribers, Doors!OfType, Doors!Active, Doors!In
<1>2. /\ Doors!Eldest(Doors!Active) \in Doors!Row \cup {Doors!NoRow}
      /\ Doors!Eldest(Doors!Subscribers) \in Doors!Row \cup {Doors!NoRow}
  BY <1>1, EldestIsOne
<1> QED  BY <1>2 DEF Doors!ResolveIdentity, Doors!Types

LEMMA PersonEnsured ==
  ASSUME EntryNumbers, EntryInv, NEW id, id = Doors!ResolveIdentity, NEW someone \in Doors!EnsureVisitor(id)
  PROVE  /\ someone.row \in Doors!Row \cup {Doors!NoRow}
         /\ someone.rows \in [Doors!Row -> Doors!RowType]
         /\ \A q \in Doors!Row : rows[q].st = "active" => someone.rows[q].st = "active"
<1>1. CASE id.kind # "visitor" \/ id.row # Doors!NoRow
  <2>1. someone = [row |-> id.row, rows |-> rows]
    BY <1>1 DEF Doors!EnsureVisitor
  <2> QED  BY <2>1, IdentityIs, EntryTypes
<1>2. CASE ~(id.kind # "visitor" \/ id.row # Doors!NoRow) /\ Doors!In(rows, "archived") # {}
  <2>1. PICK r \in Doors!In(rows, "archived") : someone = [row |-> r, rows |-> rows]
    BY <1>2 DEF Doors!EnsureVisitor
  <2> QED  BY <2>1, EntryTypes DEF Doors!In
<1>3. CASE ~(id.kind # "visitor" \/ id.row # Doors!NoRow) /\ Doors!In(rows, "archived") = {}
  <2>1. PICK r \in Doors!Fresh : someone = [row |-> r, rows |-> Doors!With(r, "visitor")]
    BY <1>3 DEF Doors!EnsureVisitor
  <2>2. r \in Doors!Row /\ rows[r].st = "none" /\ "visitor" \in Doors!Types
    BY FreshRow DEF Doors!Types
  <2> QED  BY <2>1, <2>2, NewRow
<1> QED  BY <1>1, <1>2, <1>3

\* Who pays at the portal has the session of the row that the network session names, if
\* there was one row, or none at all, and the check-in did not break down.
LEMMA PaysWhereLinked ==
  ASSUME EntryNumbers, EntryInv, NEW id, id = Doors!ResolveIdentity, id.kind = "visitor",
         NEW someone \in Doors!EnsureVisitor(id),
         NEW found \in Doors!CheckInPhone(id.kind, someone.rows),
         NEW sits \in BOOLEAN, sits => found.ok, NEW vain \in BOOLEAN,
         found.ok /\ ~sits /\ someone.row \notin Doors!Open => vain,
         NEW link, link = IF sits THEN found.row ELSE Doors!Linked(someone.row),
         \/ Cardinality(Doors!Active) = 1
         \/ Doors!Active = {} /\ Doors!In(rows, "archived") = {}
  PROVE  someone.row # Doors!NoRow /\ (link = someone.row \/ (vain /\ link = Doors!NoRow))
<1>1. Doors!Active \in SUBSET Doors!Row /\ id.row = Doors!Eldest(Doors!Active)
  BY IdentityIs DEF Doors!Active, Doors!In
<1>2. CASE Cardinality(Doors!Active) = 1
  <2>1. IsFiniteSet(Doors!Active)
    BY <1>1, EntryTypes, FS_Subset
  <2>2. PICK r : Doors!Active = {r}
    BY <1>2, <2>1, FS_Singleton
  <2>3. id.row = r /\ r \in Doors!Row /\ r # Doors!NoRow
    BY <1>1, <2>2, EldestIsOne, EntryTypes
  <2>4. someone = [row |-> r, rows |-> rows]
    BY <2>3 DEF Doors!EnsureVisitor
  <2>5. Doors!In(rows, "active") = {r}
    BY <2>2 DEF Doors!Active
  <2>6. found = [row |-> r, rows |-> rows, ok |-> r \notin Doors!Open]
    BY <2>4, <2>5 DEF Doors!CheckInPhone
  <2>7. CASE r \notin Doors!Open
    BY <2>3, <2>4, <2>6, <2>7 DEF Doors!Linked
  <2>8. CASE r \in Doors!Open
    BY <2>3, <2>4, <2>6, <2>8 DEF Doors!Linked
  <2> QED  BY <2>7, <2>8
<1>3. CASE Doors!Active = {} /\ Doors!In(rows, "archived") = {}
  <2>1. id.row = Doors!NoRow
    BY <1>1, <1>3, EldestIsOne
  <2>2. PICK r \in Doors!Fresh : someone = [row |-> r, rows |-> Doors!With(r, "visitor")]
    BY <1>3, <2>1 DEF Doors!EnsureVisitor
  <2>3. r \in Doors!Row /\ r # Doors!NoRow
    BY FreshRow, EntryTypes
  <2>4. Doors!In(someone.rows, "active") = {r}
    <3>1. /\ someone.rows[r].st = "active"
          /\ \A q \in Doors!Row \ {r} : someone.rows[q] = rows[q]
      BY <2>2, NewRow DEF Doors!Types
    <3>2. \A q \in Doors!Row : rows[q].st # "active"
      BY <1>3 DEF Doors!Active, Doors!In
    <3> QED  BY <2>3, <3>1, <3>2 DEF Doors!In
  <2>5. found = [row |-> r, rows |-> someone.rows, ok |-> r \notin Doors!Open]
    BY <2>4 DEF Doors!CheckInPhone
  <2> QED  BY <2>2, <2>3, <2>5 DEF Doors!Linked
<1> QED  BY <1>2, <1>3

\* The network session of a portal login, apart from how it is linked.
LEMMA LoginType ==
  ASSUME EntryNumbers, EntryInv, NEW id, id = Doors!ResolveIdentity,
         NEW owner \in Doors!Row \cup {Doors!NoRow}, NEW link \in Doors!Row \cup {Doors!NoRow},
         NEW vain \in BOOLEAN, NEW n, n = Doors!Login(id, owner, link, vain)
  PROVE  /\ n \in Line
         /\ n.paid => id.kind = "visitor" /\ ~n.member
         /\ n.owner = owner /\ n.session = link /\ n.lost = vain
         /\ n.clear => \/ Cardinality(Doors!Active) = 1
                       \/ Doors!Active = {} /\ Doors!In(rows, "archived") = {}
<1> DEFINE member == Doors!Subscribers # {}
           clear == Doors!Cardinality(Doors!Active) = 1 \/ (Doors!Active = {} /\ Doors!In(rows, "archived") = {})
           paid == Doors!IsPaid(id.kind)
<1>1. n = [kind |-> id.kind, paid |-> paid, owner |-> owner, session |-> link,
                                      member |-> member, clear |-> clear, lost |-> vain]
  BY DEF Doors!Login
<1>2. member \in BOOLEAN /\ clear \in BOOLEAN /\ paid \in BOOLEAN
  BY DEF Doors!IsPaid
<1>3. clear => \/ Cardinality(Doors!Active) = 1
               \/ Doors!Active = {} /\ Doors!In(rows, "archived") = {}
  BY SameCountOfRows
<1>4. paid => id.kind = "visitor" /\ ~member
  BY IdentityIs DEF Doors!IsPaid
<1>5. id.kind \in Doors!Types
  BY IdentityIs
<1> HIDE DEF member, clear, paid
<1>6. n.paid = paid /\ n.kind = id.kind /\ n.owner = owner /\ n.session = link /\ n.lost = vain
  BY <1>1
<1>7. n.member = member /\ n.clear = clear
  BY <1>1
<1>8. n \in Line
  BY <1>1, <1>2, <1>5 DEF Line
<1> QED  BY <1>3, <1>4, <1>6, <1>7, <1>8

LEMMA PortalStep ==
  ASSUME EntryNumbers, EntryInv, NEW plan \in Tier \cup {"member"}, Doors!Portal(plan)
  PROVE  EntryInv'
<1>1. PICK id : id = Doors!ResolveIdentity
  OBVIOUS
<1>2. Doors!Call /\ Doors!Now(rows') /\ Doors!SameTables
  BY DEF Doors!Portal
<1>3. /\ calls' \in 0 .. MaxCalls /\ staff' \in BOOLEAN /\ roster' \in BOOLEAN /\ enrolled' \in BOOLEAN
      /\ past' \in [Doors!Row -> Nat] /\ reopened' = reopened /\ reopened' \in BOOLEAN
  BY <1>2, EntryTypes DEF Doors!Call, Doors!SameTables
<1>4. PICK someone \in Doors!EnsureVisitor(id) :
              IF id.kind = "employee"
              THEN wifi' = Doors!Login(id, Doors!NoRow, Doors!NoRow, FALSE) /\ UNCHANGED <<rows, seat>>
              ELSE \E found \in Doors!CheckInPhone(id.kind, someone.rows), breaks \in BOOLEAN :
                      LET sits == found.ok /\ ~breaks
                      IN  /\ rows' = found.rows \/ (breaks /\ rows' = someone.rows)
                          /\ seat' = IF sits THEN [seat EXCEPT ![found.row] = 1] ELSE seat
                          /\ wifi' = Doors!Login(id, someone.row,
                                          IF sits THEN found.row ELSE Doors!Linked(someone.row),
                                          breaks /\ someone.row \notin Doors!Open)
  BY <1>1 DEF Doors!Portal
<1>5. CASE id.kind = "employee"
  <2>1. wifi' = Doors!Login(id, Doors!NoRow, Doors!NoRow, FALSE) /\ UNCHANGED <<rows, seat>>
    BY <1>4, <1>5
  <2>2. wifi' \in Line /\ ~wifi'.paid
    BY <1>1, <1>5, <2>1, LoginType
  <2>3. LinkedRight(wifi')
    BY <2>2 DEF LinkedRight
  <2>4. ~reopened' => Seated(seat', rows')
    BY <1>2, <2>1 DEF EntryInv, Doors!SameTables
  <2> QED  BY <1>2, <1>3, <2>1, <2>2, <2>3, <2>4, EntryStepKeeps, EntryTypes
<1>6. CASE id.kind # "employee"
  <2>1. PICK found \in Doors!CheckInPhone(id.kind, someone.rows), breaks \in BOOLEAN :
                      LET sits == found.ok /\ ~breaks
                      IN  /\ rows' = found.rows \/ (breaks /\ rows' = someone.rows)
                          /\ seat' = IF sits THEN [seat EXCEPT ![found.row] = 1] ELSE seat
                          /\ wifi' = Doors!Login(id, someone.row,
                                          IF sits THEN found.row ELSE Doors!Linked(someone.row),
                                          breaks /\ someone.row \notin Doors!Open)
    BY <1>4, <1>6
  <2> DEFINE sits == found.ok /\ ~breaks
  <2>12. PICK vain \in BOOLEAN : vain = (breaks /\ someone.row \notin Doors!Open)
    OBVIOUS
  <2>2. /\ someone.row \in Doors!Row \cup {Doors!NoRow}
        /\ someone.rows \in [Doors!Row -> Doors!RowType]
        /\ \A q \in Doors!Row : rows[q].st = "active" => someone.rows[q].st = "active"
    BY <1>1, PersonEnsured
  <2>3. /\ found.rows \in [Doors!Row -> Doors!RowType]
        /\ \A r \in Doors!Row : rows[r].st = "active" => found.rows[r].st = "active"
        /\ found.ok => found.row \in Doors!Row /\ found.rows[found.row].st = "active"
    BY <1>1, <2>2, PhoneFinds, IdentityIs
  <2>4. PICK link : link = IF sits THEN found.row ELSE Doors!Linked(someone.row)
    OBVIOUS
  <2>5. link \in Doors!Row \cup {Doors!NoRow}
    BY <2>2, <2>3, <2>4 DEF Doors!Linked
  <2>6. wifi' = Doors!Login(id, someone.row, link, vain)
    BY <2>1, <2>4, <2>12
  <2>7. /\ wifi' \in Line
        /\ wifi'.paid => id.kind = "visitor" /\ ~wifi'.member
        /\ wifi'.owner = someone.row /\ wifi'.session = link /\ wifi'.lost = vain
        /\ wifi'.clear => \/ Cardinality(Doors!Active) = 1
                          \/ Doors!Active = {} /\ Doors!In(rows, "archived") = {}
    <3>1. PICK n : n = Doors!Login(id, someone.row, link, vain)
      OBVIOUS
    <3>2. PICK owner \in Doors!Row \cup {Doors!NoRow} : owner = someone.row
      BY <2>2
    <3>3. /\ n \in Line
          /\ n.paid => id.kind = "visitor" /\ ~n.member
          /\ n.owner = owner /\ n.session = link /\ n.lost = vain
          /\ n.clear => \/ Cardinality(Doors!Active) = 1
                        \/ Doors!Active = {} /\ Doors!In(rows, "archived") = {}
      BY <1>1, <2>5, <3>1, <3>2, LoginType
    <3> QED  BY <2>6, <3>1, <3>2, <3>3
  <2>8. LinkedRight(wifi')
    <3>1. /\ sits \in BOOLEAN /\ (sits => found.ok)
          /\ found.ok /\ ~sits /\ someone.row \notin Doors!Open => vain
      BY PhoneFinds, <1>1, <2>2, <2>12, IdentityIs
    <3> HIDE DEF sits
    <3> SUFFICES ASSUME wifi'.paid
                 PROVE  /\ ~wifi'.member
                        /\ wifi'.clear => /\ wifi'.owner # Doors!NoRow
                                          /\ \/ wifi'.session = wifi'.owner
                                             \/ wifi'.lost /\ wifi'.session = Doors!NoRow
      BY DEF LinkedRight
    <3> QED  BY <1>1, <2>4, <2>6, <2>7, <3>1, PaysWhereLinked
  <2>9. seat' \in [Doors!Row -> Nat]
    BY <2>1, <2>3, EntryTypes
  <2>10. rows' \in [Doors!Row -> Doors!RowType]
    BY <2>1, <2>2, <2>3
  <2>11. ~reopened' => Seated(seat', rows')
    <3>1. \A q \in Doors!Row : rows[q].st = "active" => rows'[q].st = "active"
      BY <2>1, <2>2, <2>3
    <3>2. \/ seat' = seat
          \/ /\ found.row \in Doors!Row /\ rows'[found.row].st = "active"
             /\ seat' = [seat EXCEPT ![found.row] = 1]
      BY <2>1, <2>3
    <3> QED  BY <1>3, <3>1, <3>2, EntryTypes DEF EntryInv, Seated
  <2> QED  BY <1>2, <1>3, <2>7, <2>8, <2>9, <2>10, <2>11, EntryStepKeeps
<1> QED  BY <1>5, <1>6

LEMMA RefusedStep ==
  ASSUME EntryNumbers, EntryInv, Doors!PortalRefused
  PROVE  EntryInv'
<1>1. PICK id : id = Doors!ResolveIdentity
  OBVIOUS
<1>2. PICK someone \in Doors!EnsureVisitor(id) :
              \/ rows' = someone.rows /\ UNCHANGED seat
              \/ \E found \in Doors!CheckInPhone(id.kind, someone.rows) :
                     /\ rows' = found.rows
                     /\ \/ UNCHANGED seat
                        \/ found.ok /\ seat' = [seat EXCEPT ![found.row] = 1]
  BY <1>1 DEF Doors!PortalRefused
<1>3. /\ someone.rows \in [Doors!Row -> Doors!RowType]
      /\ \A q \in Doors!Row : rows[q].st = "active" => someone.rows[q].st = "active"
  BY <1>1, PersonEnsured
<1>4. Doors!Call /\ Doors!SameTables /\ UNCHANGED wifi /\ Doors!Now(rows')
  BY DEF Doors!PortalRefused
<1>5. CASE rows' = someone.rows /\ UNCHANGED seat
  <2>1. ~reopened => Seated(seat, rows')
    BY <1>3, <1>5 DEF EntryInv, Seated
  <2> QED  BY <1>3, <1>4, <1>5, <2>1, TableStep
<1>6. ASSUME NEW found \in Doors!CheckInPhone(id.kind, someone.rows), found.ok,
             rows' = found.rows, seat' = [seat EXCEPT ![found.row] = 1]
      PROVE  EntryInv'
  <2>1. /\ rows' \in [Doors!Row -> Doors!RowType]
        /\ \A q \in Doors!Row : rows[q].st = "active" => rows'[q].st = "active"
        /\ found.row \in Doors!Row /\ rows'[found.row].st = "active"
    BY <1>1, <1>3, <1>6, PhoneFinds, IdentityIs
  <2> QED  BY <1>4, <1>6, <2>1, SeatStep
<1>7. ASSUME NEW found \in Doors!CheckInPhone(id.kind, someone.rows),
             rows' = found.rows, UNCHANGED seat
      PROVE  EntryInv'
  <2>1. /\ rows' \in [Doors!Row -> Doors!RowType]
        /\ \A q \in Doors!Row : rows[q].st = "active" => rows'[q].st = "active"
    BY <1>1, <1>3, <1>7, PhoneFinds, IdentityIs
  <2>2. ~reopened => Seated(seat, rows')
    BY <2>1 DEF EntryInv, Seated
  <2> QED  BY <1>4, <1>7, <2>1, <2>2, TableStep
<1> QED  BY <1>2, <1>5, <1>6, <1>7


\* One row changes, and if somebody sits there it stays active.
LEMMA RowStep ==
  ASSUME EntryNumbers, EntryInv, NEW r \in Doors!Row, NEW row \in Doors!RowType,
         Doors!Change([rows EXCEPT ![r] = row]),
         ~reopened /\ seat[r] > 0 => row.st = "active"
  PROVE  EntryInv'
<1>1. rows' \in [Doors!Row -> Doors!RowType]
  BY EntryTypes DEF Doors!Change
<1>2. ~reopened => Seated(seat, rows')
  BY EntryTypes DEF Doors!Change, EntryInv, Seated
<1>3. Doors!Call /\ Doors!SameTables /\ UNCHANGED <<seat, wifi>> /\ Doors!Now(rows')
  BY DEF Doors!Change
<1> QED  BY <1>1, <1>2, <1>3, TableStep

LEMMA RowSteps ==
  ASSUME EntryNumbers, EntryInv, NEW r \in Doors!Row,
         Doors!Convert(r) \/ Doors!Archive(r) \/ Doors!Restore(r) \/ Doors!Subscribe(r) \/ Doors!Lapse(r)
  PROVE  EntryInv'
<1>0. rows[r] \in Doors!RowType /\ (r \notin Doors!Open => ~(seat[r] > 0)) /\ (~reopened /\ seat[r] > 0 => rows[r].st = "active")
  BY EntryTypes, SeatedIsActive DEF Doors!Open
<1>1. CASE Doors!Convert(r)
  <2>1. PICK type \in EntryKind : Doors!Change([rows EXCEPT ![r].type = type])
    BY <1>1 DEF Doors!Convert
  <2>2. PICK row : row = [rows[r] EXCEPT !.type = type]
    OBVIOUS
  <2>3. row \in Doors!RowType /\ row.st = rows[r].st
    BY <1>0, <2>2 DEF Doors!RowType, EntryNumbers
  <2>4. [rows EXCEPT ![r].type = type] = [rows EXCEPT ![r] = row]
    BY <2>2, EntryTypes
  <2> QED  BY <1>0, <2>1, <2>3, <2>4, RowStep
<1>2. CASE Doors!Archive(r)
  <2>1. PICK row : row = [rows[r] EXCEPT !.st = "archived"]
    OBVIOUS
  <2>2. row \in Doors!RowType
    BY <1>0, <2>1 DEF Doors!RowType
  <2>3. [rows EXCEPT ![r].st = "archived"] = [rows EXCEPT ![r] = row]
    BY <2>1, EntryTypes
  <2> QED  BY <1>0, <1>2, <2>2, <2>3, RowStep DEF Doors!Archive
<1>3. CASE Doors!Restore(r)
  <2>1. PICK row : row = [rows[r] EXCEPT !.st = "active"]
    OBVIOUS
  <2>2. row \in Doors!RowType /\ row.st = "active"
    BY <1>0, <2>1 DEF Doors!RowType
  <2>3. [rows EXCEPT ![r].st = "active"] = [rows EXCEPT ![r] = row]
    BY <2>1, EntryTypes
  <2> QED  BY <1>3, <2>2, <2>3, RowStep DEF Doors!Restore
<1>4. CASE Doors!Subscribe(r)
  <2>1. PICK row : row = [rows[r] EXCEPT !.subs = "live"]
    OBVIOUS
  <2>2. row \in Doors!RowType /\ row.st = rows[r].st
    BY <1>0, <2>1 DEF Doors!RowType
  <2>3. [rows EXCEPT ![r].subs = "live"] = [rows EXCEPT ![r] = row]
    BY <2>1, EntryTypes
  <2> QED  BY <1>0, <1>4, <2>2, <2>3, RowStep DEF Doors!Subscribe
<1>5. CASE Doors!Lapse(r)
  <2>1. PICK row : row = [rows[r] EXCEPT !.subs = "past"]
    OBVIOUS
  <2>2. row \in Doors!RowType /\ row.st = rows[r].st
    BY <1>0, <2>1 DEF Doors!RowType
  <2>3. [rows EXCEPT ![r].subs = "past"] = [rows EXCEPT ![r] = row]
    BY <2>1, EntryTypes
  <2> QED  BY <1>0, <1>5, <2>2, <2>3, RowStep DEF Doors!Lapse
<1> QED  BY <1>1, <1>2, <1>3, <1>4, <1>5

LEMMA RegisterStep ==
  ASSUME EntryNumbers, EntryInv, Doors!Register
  PROVE  EntryInv'
<1>1. PICK r \in Doors!Fresh, type \in EntryKind, subs \in {"none", "live"} :
         Doors!Change([rows EXCEPT ![r] = [st |-> "active", type |-> type, subs |-> subs]])
  BY DEF Doors!Register
<1>2. r \in Doors!Row
  BY FreshRow
<1>3. [st |-> "active", type |-> type, subs |-> subs] \in Doors!RowType
  BY DEF Doors!RowType, EntryNumbers
<1> QED  BY <1>1, <1>2, <1>3, RowStep

LEMMA LeaveStep ==
  ASSUME EntryNumbers, EntryInv, NEW r \in Doors!Row, Doors!Leave(r)
  PROVE  EntryInv'
<1>1. /\ UNCHANGED <<rows, staff, roster, enrolled, wifi, calls, shared, reopened>>
      /\ seat[r] > 0 /\ seat' = [seat EXCEPT ![r] = @ - 1] /\ past' = [past EXCEPT ![r] = @ + 1]
  BY DEF Doors!Leave, Doors!Open
<1>2. seat' \in [Doors!Row -> Nat] /\ past' \in [Doors!Row -> Nat]
  BY <1>1, EntryTypes
<1>3. ~reopened' => Seated(seat', rows')
  BY <1>1, EntryTypes DEF EntryInv, Seated
<1>4. LinkedRight(wifi')
  BY <1>1 DEF EntryInv
<1> QED  BY <1>1, <1>2, <1>3, <1>4, EntryStepKeeps, EntryTypes

\* A session of an active row, opened again while nobody sits, is the only one.
LEMMA ReopenStep ==
  ASSUME EntryNumbers, EntryInv, NEW r \in Doors!Row, Doors!Reopen(r)
  PROVE  EntryInv'
<1>1. /\ UNCHANGED <<rows, staff, roster, enrolled, wifi, shared>> /\ calls' \in 0 .. MaxCalls
      /\ past[r] > 0 /\ seat' = [seat EXCEPT ![r] = @ + 1] /\ past' = [past EXCEPT ![r] = @ - 1]
  BY EntryTypes DEF Doors!Reopen, Doors!Call
<1>2. seat' \in [Doors!Row -> Nat] /\ past' \in [Doors!Row -> Nat]
  BY <1>1, EntryTypes
<1>3. reopened' \in BOOLEAN
  BY EntryTypes DEF Doors!Reopen
<1>4. ASSUME ~reopened' PROVE Seated(seat', rows')
  <2>1. ~reopened /\ Doors!Open = {} /\ r \in Doors!Active
    BY <1>4 DEF Doors!Reopen
  <2>2. rows[r].st = "active" /\ \A q \in Doors!Row : seat[q] = 0
    BY <2>1, EntryTypes DEF Doors!Open, Doors!Active, Doors!In
  <2> QED  BY <1>1, <2>2, EntryTypes DEF Seated
<1>5. LinkedRight(wifi')
  BY <1>1 DEF EntryInv
<1> QED  BY <1>1, <1>2, <1>3, <1>4, <1>5, EntryStepKeeps, EntryTypes

LEMMA EmployStep ==
  ASSUME EntryNumbers, EntryInv, Doors!Employ
  PROVE  EntryInv'
<1>1. calls' \in 0 .. MaxCalls /\ UNCHANGED <<rows, seat, past, wifi, shared, reopened>>
  BY EntryTypes DEF Doors!Employ, Doors!Call
<1>2. ~reopened' => Seated(seat', rows')
  BY <1>1 DEF EntryInv
<1>3. LinkedRight(wifi') /\ staff' \in BOOLEAN /\ roster' \in BOOLEAN /\ enrolled' \in BOOLEAN
  BY <1>1 DEF EntryInv, Doors!Employ
<1> QED  BY <1>1, <1>2, <1>3, EntryStepKeeps, EntryTypes

LEMMA EntryNext ==
  ASSUME EntryNumbers, EntryInv, Doors!Next
  PROVE  EntryInv'
<1>1. CASE \/ \E type \in EntryKind : Doors!Reception(type)
           \/ \E r \in Doors!Row : Doors!ReceptionById(r)
  BY <1>1, ReceptionSteps
<1>2. ASSUME NEW r \in Doors!Row,
             \/ Doors!Convert(r) \/ Doors!Archive(r) \/ Doors!Restore(r)
             \/ Doors!Subscribe(r) \/ Doors!Lapse(r)
             \/ Doors!Leave(r) \/ Doors!Reopen(r)
      PROVE EntryInv'
  BY <1>2, RowSteps, LeaveStep, ReopenStep
<1>3. CASE Doors!QrMember \/ Doors!QrVisitor
  BY <1>3, QrSteps
<1>4. CASE Doors!PortalRefused \/ Doors!Register \/ Doors!Employ
  BY <1>4, RefusedStep, RegisterStep, EmployStep
<1> QED  BY <1>1, <1>2, <1>3, <1>4, PortalStep DEF Doors!Next

LEMMA EntryStill ==
  ASSUME EntryInv, UNCHANGED entryVars
  PROVE  EntryInv'
<1>1. UNCHANGED <<rows, staff, roster, enrolled, seat, past, wifi, calls, shared, reopened>>
  BY DEF entryVars
<1>2. Doors!TypeOK' /\ Seated(seat, rows)' = Seated(seat, rows) /\ Doors!Active' = Doors!Active /\ LinkedRight(wifi)'
  BY <1>1 DEF EntryInv, Doors!TypeOK, Doors!Active, Doors!In, Seated
<1> QED  BY <1>1, <1>2 DEF EntryInv

LEMMA EntryApart ==
  ASSUME [Next]_vars, ~EntryStep
  PROVE  UNCHANGED entryVars
BY DEF Next, vars, services, RoomStep, BookStep, SchoolStep, PlanStep, DoorStep, TillStep, SiteStep,
   RouterStep, PeopleStep, LedgerStep, CallStep, DayStep

LEMMA EntryInvariant == EntryNumbers => (Spec => []EntryInv)
<1> SUFFICES ASSUME EntryNumbers PROVE Spec => []EntryInv
  OBVIOUS
<1>1. Init => EntryInv
  BY EntryInit DEF Init
<1>2. EntryInv /\ [Next]_vars => EntryInv'
  <2> SUFFICES ASSUME EntryInv, [Next]_vars PROVE EntryInv'
    OBVIOUS
  <2>1. CASE EntryStep
    BY <2>1, EntryNext DEF EntryStep
  <2>2. CASE ~EntryStep
    BY <2>2, EntryApart, EntryStill
  <2> QED  BY <2>1, <2>2
<1> QED  BY <1>1, <1>2, PTL DEF Spec

\* Through whichever doors, a phone with one active row has one open session, as long as
\* none is opened again beside it; the network session of who pays carries its charge there
\* unless the check-in broke down, and no subscriber pays (hotspot/identity.service,
\* hotspot.service, integrations/service).
THEOREM PhoneHasOneInvoice ==
    ASSUME MaxCalls \in Nat
    PROVE  Spec => []OneInvoice
<1>1. EntryNumbers
  BY OfficeAssumption DEF EntryNumbers, Doors!Types
<1>2. EntryInv => OneInvoice
  <2> SUFFICES ASSUME EntryInv PROVE Doors!OneInvoice
    BY DEF OneInvoice
  <2>1. ASSUME ~shared, ~reopened
        PROVE  Doors!Cardinality(Doors!Open) <= 1 /\ \A r \in Doors!Row : seat[r] <= 1
    <3>1. IsFiniteSet(Doors!Active)
      BY <1>1, EntryTypes, FS_Subset DEF Doors!Active, Doors!In
    <3>2. Doors!Open \in SUBSET Doors!Active /\ Cardinality(Doors!Active) <= 1
      BY <2>1 DEF EntryInv, Seated, Doors!Open, Doors!Active, Doors!In
    <3>3. IsFiniteSet(Doors!Open) /\ Cardinality(Doors!Open) <= Cardinality(Doors!Active)
      BY <3>1, <3>2, FS_Subset
    <3>4. Cardinality(Doors!Open) \in Nat /\ Cardinality(Doors!Active) \in Nat
      BY <3>1, <3>3, FS_CardinalityType
    <3>5. \A r \in Doors!Row : seat[r] <= 1
      BY <1>1, <2>1, EntryTypes DEF EntryInv, Seated
    <3> QED  BY <3>2, <3>3, <3>4, <3>5, SameCountOfRows
  <2> QED  BY <2>1 DEF EntryInv, LinkedRight, Doors!OneInvoice
<1> QED  BY <1>1, <1>2, EntryInvariant, PTL

-----------------------------------------------------------------------------
(* What the invariants above leave out of the types: devices and courses.  *)

\* A request that is under way is about a phone; a login up to the saving about a device.
RouterAbout(q) ==
    /\ q.pc # "idle" => q.phone \in Phone
    /\ q.pc \in {"find", "save"} => q.mac \in Mac

\* The rest of Router!TypeOK.
RouterRest ==
    /\ enabled \subseteq Phone
    /\ \A m \in Mac : online[m] # NoPhone => m \in near
    /\ slipped \subseteq Mac /\ odd \subseteq Mac
    /\ \A r \in Clerk : RouterAbout(req[r])

LEMMA RouterIdleAbout == RouterAbout(Router!Idle)
BY RouterIdleFacts DEF RouterAbout

LEMMA RouterQuietRest ==
    ASSUME RouterTypes, RouterRest, NEW r \in Clerk, NEW next, RouterAbout(next),
           req' = [req EXCEPT ![r] = next]
    PROVE  \A s \in Clerk : RouterAbout(req'[s])
<1>1. \A s \in Clerk : req'[s] = IF s = r THEN next ELSE req[s]
  BY DEF RouterTypes
<1> QED  BY <1>1 DEF RouterRest

LEMMA RouterEntryRest ==
    ASSUME RouterTypes, RouterRest, NEW r, NEW m \in Mac, NEW u, NEW next, RouterAbout(next),
           u = NoPhone \/ m \in near, Router!Becomes(r, m, u, next)
    PROVE  /\ \A s \in Clerk : RouterAbout(req'[s])
           /\ slipped' \subseteq Mac
           /\ \A n \in Mac : online'[n] # NoPhone => n \in near /\ (u = NoPhone => n # m)
<1>1. \A n \in Mac : online'[n] = IF n = m THEN u ELSE online[n]
  BY DEF Router!Becomes, RouterTypes
<1>2. slipped' \subseteq Mac
  BY DEF Router!Becomes, RouterRest
<1>3. ASSUME NEW s \in Clerk PROVE RouterAbout(req'[s])
  <2>1. req[s] \in Router!Req /\ RouterAbout(req[s])
    BY DEF RouterTypes, RouterRest
  <2>2. req'[s] = IF s = r THEN next
                  ELSE IF req[s].pc = "remove" /\ m \in req[s].devices
                       THEN [req[s] EXCEPT !.gone = TRUE] ELSE req[s]
    BY DEF Router!Becomes
  <2> QED  BY <2>1, <2>2, RouterGoneFacts DEF RouterAbout
<1> QED  BY <1>1, <1>2, <1>3 DEF RouterRest

LEMMA RouterRestStep ==
    ASSUME RouterTypes, RouterRest, Router!Next
    PROVE  RouterRest'
<1> USE RouterIdleAbout
<1>0. \A r \in Clerk : req[r] \in Router!Req /\ RouterAbout(req[r])
  BY DEF RouterTypes, RouterRest
<1>1. ASSUME NEW r \in Clerk, Router!LogIn(r) PROVE RouterRest'
  <2> DEFINE m == req[r].mac
             p == req[r].phone
             save == [req[r] EXCEPT !.pc = "save"]
  <2>1. m \in Mac /\ m \in near /\ req[r].pc = "find"
    BY <1>1 DEF Router!LogIn, RouterTypes
  <2>2. save.pc = "save" /\ save.mac = m /\ save.phone = p
    BY <1>0, RouterNextFacts
  <2>3. RouterAbout(save)
    BY <1>0, <2>1, <2>2 DEF RouterAbout
  <2>4. PICK next \in {save, Router!Idle} : Router!Becomes(r, m, p, next)
    BY <1>1 DEF Router!LogIn
  <2>5. odd' \subseteq Mac /\ UNCHANGED <<near, enabled>>
    BY <1>1, <2>1 DEF Router!LogIn, RouterRest
  <2> HIDE DEF m, p, save
  <2> QED  BY <2>1, <2>3, <2>4, <2>5, RouterEntryRest DEF RouterRest
<1>2. ASSUME NEW r \in Clerk, NEW m \in Mac, Router!PeerIn(r, m) PROVE RouterRest'
  <2> DEFINE p == req[r].phone
             less == [req[r] EXCEPT !.devices = @ \ {m}]
  <2>1. RouterAbout(less)
    BY <1>0, RouterLessFacts DEF RouterAbout
  <2>2. Router!Becomes(r, m, p, less) /\ m \in near /\ odd' \subseteq Mac /\ UNCHANGED <<near, enabled>>
    BY <1>2 DEF Router!PeerIn, RouterRest
  <2> HIDE DEF p, less
  <2> QED  BY <2>1, <2>2, RouterEntryRest DEF RouterRest
<1>3. ASSUME NEW m \in Mac, Router!GuestIn(m) PROVE RouterRest'
  <2>1. Router!Becomes(NoRequest, m, Guest, Router!Idle) /\ m \in near /\ UNCHANGED <<near, enabled, odd>>
    BY <1>3 DEF Router!GuestIn
  <2> QED  BY <2>1, RouterEntryRest DEF RouterRest
<1>4. ASSUME NEW r \in Clerk, NEW m \in Mac, Router!CutRemove(r, m) PROVE RouterRest'
  <2>1. PICK next \in {[req[r] EXCEPT !.devices = @ \ {m}], Router!Idle} : Router!Becomes(r, m, NoPhone, next)
    BY <1>4 DEF Router!CutRemove
  <2>2. RouterAbout([req[r] EXCEPT !.devices = @ \ {m}])
    BY <1>0, RouterLessFacts DEF RouterAbout
  <2>3. UNCHANGED <<near, enabled, odd>>
    BY <1>4 DEF Router!CutRemove
  <2> QED  BY <2>1, <2>2, <2>3, RouterEntryRest DEF RouterRest
<1>5. ASSUME NEW m \in Mac, Router!LogoutMac(m) PROVE RouterRest'
  <2>1. Router!Becomes(NoRequest, m, NoPhone, Router!Idle) /\ UNCHANGED <<near, enabled, odd>>
    BY <1>5 DEF Router!LogoutMac
  <2> QED  BY <2>1, RouterEntryRest DEF RouterRest
<1>6. ASSUME NEW m \in Mac, Router!Leave(m) PROVE RouterRest'
  <2>1. Router!Becomes(NoRequest, m, NoPhone, Router!Idle) /\ near' = near \ {m} /\ UNCHANGED <<enabled, odd>>
    BY <1>6 DEF Router!Leave
  <2> QED  BY <2>1, RouterEntryRest DEF RouterRest
<1>7. ASSUME NEW r \in Clerk, NEW p \in Phone, NEW m \in Mac, Router!Ensure(r, p, m) PROVE RouterRest'
  <2> DEFINE next == [Router!Idle EXCEPT !.pc = "find", !.phone = p, !.mac = m]
  <2>1. RouterAbout(next)
    BY DEF RouterAbout, Router!Idle
  <2>2. req' = [req EXCEPT ![r] = next] /\ enabled' \subseteq Phone /\ UNCHANGED <<near, online, slipped, odd>>
    BY <1>7 DEF Router!Ensure, RouterRest
  <2> HIDE DEF next
  <2> QED  BY <2>1, <2>2, RouterQuietRest DEF RouterRest
<1>8. ASSUME NEW r \in Clerk, Router!Save(r) PROVE RouterRest'
  <2> DEFINE next == [req[r] EXCEPT !.pc = "list"]
  <2>1. RouterAbout(next) /\ req[r].mac \in Mac
    BY <1>0, <1>8, RouterNextFacts DEF RouterAbout, Router!Save
  <2>2. req' = [req EXCEPT ![r] = next] /\ odd' \subseteq Mac /\ UNCHANGED <<near, enabled, online, slipped>>
    BY <1>8, <2>1 DEF Router!Save, Router!Goto, RouterRest
  <2> HIDE DEF next
  <2> QED  BY <2>1, <2>2, RouterQuietRest DEF RouterRest
<1>9. ASSUME NEW r \in Clerk, Router!List(r) PROVE RouterRest'
  <2>1. PICK peers : req' = [req EXCEPT ![r] = [@ EXCEPT !.pc = "peers", !.devices = peers]]
    BY <1>9 DEF Router!List
  <2> DEFINE next == [req[r] EXCEPT !.pc = "peers", !.devices = peers]
  <2>2. RouterAbout(next)
    BY <1>0, <1>9 DEF RouterAbout, Router!List, Router!Req
  <2>3. req' = [req EXCEPT ![r] = next] /\ UNCHANGED <<near, enabled, online, slipped, odd>>
    BY <1>9, <2>1 DEF Router!List
  <2> HIDE DEF next
  <2> QED  BY <2>2, <2>3, RouterQuietRest DEF RouterRest
<1>10. ASSUME NEW r \in Clerk, NEW m \in Mac, Router!PeerSkipped(r, m) PROVE RouterRest'
  <2> DEFINE next == [req[r] EXCEPT !.devices = @ \ {m}]
  <2>1. RouterAbout(next)
    BY <1>0, RouterLessFacts DEF RouterAbout
  <2>2. req' = [req EXCEPT ![r] = next] /\ UNCHANGED <<near, enabled, online, slipped, odd>>
    BY <1>10 DEF Router!PeerSkipped
  <2> HIDE DEF next
  <2> QED  BY <2>1, <2>2, RouterQuietRest DEF RouterRest
<1>11. ASSUME NEW r \in Clerk, NEW p \in Phone, Router!CutList(r, p) PROVE RouterRest'
  <2> DEFINE next == [Router!Idle EXCEPT !.pc = "remove", !.phone = p,
                                         !.devices = {m \in Mac : online[m] = p}]
  <2>1. RouterAbout(next)
    BY DEF RouterAbout, Router!Idle
  <2>2. req' = [req EXCEPT ![r] = next] /\ UNCHANGED <<near, enabled, online, slipped, odd>>
    BY <1>11 DEF Router!CutList
  <2> HIDE DEF next
  <2> QED  BY <2>1, <2>2, RouterQuietRest DEF RouterRest
<1>12. ASSUME NEW r \in Clerk, Router!Done(r) \/ Router!CutDisable(r) \/ Router!Abort(r) PROVE RouterRest'
  <2>1. req' = [req EXCEPT ![r] = Router!Idle] /\ UNCHANGED <<near, online, slipped>>
    BY <1>12 DEF Router!Done, Router!CutDisable, Router!Abort
  <2>2. enabled' \subseteq Phone /\ odd' \subseteq Mac
    BY <1>0, <1>12 DEF Router!Done, Router!CutDisable, Router!Abort, RouterRest, RouterAbout
  <2> QED  BY <2>1, <2>2, RouterQuietRest DEF RouterRest
<1>13. ASSUME NEW p \in Phone, Router!Provision(p) PROVE RouterRest'
  BY <1>13 DEF Router!Provision, RouterRest
<1>14. ASSUME NEW m \in Mac, Router!Arrive(m) PROVE RouterRest'
  BY <1>14 DEF Router!Arrive, RouterRest
<1> QED  BY <1>1, <1>2, <1>3, <1>4, <1>5, <1>6, <1>7, <1>8, <1>9, <1>10, <1>11, <1>12, <1>13, <1>14
         DEF Router!Next

LEMMA RouterRestInvariant ==
    ASSUME RouterNames, NoRequest \notin Clerk
    PROVE  Spec => []Router!TypeOK
<1>1. Router!Init => RouterRest
  BY RouterIdleAbout DEF Router!Init, RouterRest
<1>2. RouterInv /\ RouterRest /\ [Router!Next]_(Router!vars) => RouterRest'
  <2>1. CASE UNCHANGED Router!vars
    BY <2>1 DEF Router!vars, RouterRest
  <2>2. RouterInv => RouterTypes
    BY DEF RouterInv
  <2> QED  BY <2>1, <2>2, RouterRestStep
<1>3. RouterInv /\ RouterRest => Router!TypeOK
  BY DEF RouterInv, RouterTypes, RouterRest, Router!TypeOK
<1> QED  BY <1>1, <1>2, <1>3, RouterInvariant, RouterImplemented, PTL DEF Router!Spec

\* What SchoolTypes leaves out of School!TypeOK: whose row counts has a course that is open.
SchoolRest ==
    /\ \A t \in Trainee : trainee[t].state = "enrolled" =>
          trainee[t].course \in Course /\ course[trainee[t].course].open
    /\ byHand \subseteq Trainee /\ paidAtOnce \subseteq Trainee

LEMMA SchoolRestInit == School!Init => SchoolRest
BY DEF School!Init, School!Absent, SchoolRest

\* The deletion of a course takes its trainees with it.
LEMMA ClosedRest ==
  ASSUME SchoolTypes, SchoolRest, NEW k \in Course, School!Closed(k), UNCHANGED <<byHand, paidAtOnce>>
  PROVE  SchoolRest'
<1>1. \A j \in Course : j # k => course'[j].open = course[j].open
  BY DEF School!Closed, SchoolTypes
<1>2. ASSUME NEW t \in Trainee
      PROVE  trainee'[t].course = trainee[t].course
             /\ (trainee'[t].state = "enrolled" => trainee[t].state = "enrolled" /\ trainee[t].course # k)
  <2>1. trainee[t] \in TraineeRow
    BY DEF SchoolTypes
  <2> DEFINE gone == [trainee[t] EXCEPT !.state = "gone"]
  <2>2. gone.course = trainee[t].course /\ gone.state = "gone"
    BY <2>1 DEF TraineeRow
  <2>3. trainee'[t] = IF trainee[t].state = "enrolled" /\ trainee[t].course = k THEN gone ELSE trainee[t]
    BY DEF School!Closed, School!Enrolled
  <2> HIDE DEF gone
  <2> QED  BY <2>2, <2>3
<1> QED  BY <1>1, <1>2 DEF SchoolRest

LEMMA SchoolRestStep ==
  ASSUME SchoolInv, SchoolRest, School!Next
  PROVE  SchoolRest'
<1>1. SchoolTypes /\ \A c \in Clerk : WillPay(courseClerk[c])
  BY DEF SchoolInv
<1>2. ASSUME NEW k \in Course, NEW price \in Price, School!Create(k, price) \/ School!Update(k, price)
      PROVE  SchoolRest'
  <2>1. School!SetCourse(k, price)
    BY <1>2 DEF School!Create, School!Update
  <2>2. \A j \in Course : course'[j].open = IF j = k THEN TRUE ELSE course[j].open
    BY <1>1, <2>1 DEF School!SetCourse, SchoolTypes
  <2>3. byHand' \subseteq Trainee
    BY <2>1 DEF School!SetCourse, School!Enrolled, SchoolRest
  <2> QED  BY <2>1, <2>2, <2>3 DEF School!SetCourse, SchoolRest
<1>3. ASSUME NEW k \in Course, School!DeleteRoom(k) PROVE SchoolRest'
  BY <1>1, <1>3, ClosedRest DEF School!DeleteRoom
<1>4. ASSUME NEW c \in Clerk, School!Delete(c) PROVE SchoolRest'
  <2> DEFINE k == courseClerk[c].k
  <2>1. School!Closed(k) /\ course[k].open /\ UNCHANGED <<byHand, paidAtOnce>>
    BY <1>4 DEF School!Delete
  <2>2. CASE k \in Course
    BY <1>1, <2>1, <2>2, ClosedRest
  <2>3. CASE k \notin Course
    <3>1. course' = course
      BY <1>1, <2>1, <2>3 DEF School!Closed, SchoolTypes
    <3>2. \A t \in Trainee : trainee[t].state = "enrolled" => trainee[t].course # k
      BY <2>3 DEF SchoolRest
    <3>3. \A t \in Trainee : trainee'[t] = trainee[t]
      BY <2>1, <3>2 DEF School!Closed, School!Enrolled
    <3> QED  BY <2>1, <3>1, <3>3 DEF SchoolRest
  <2> QED  BY <2>2, <2>3
<1>5. ASSUME NEW k \in Course, NEW t \in Trainee, NEW paid \in Amount \cup {0}, NEW status \in PaidHow,
             School!AddTrainee(t, k, paid, status)
      PROVE  SchoolRest'
  <2> DEFINE row == [state |-> "enrolled", course |-> k, paid |-> paid, status |-> status]
  <2>1. \A s \in Trainee : trainee'[s] = IF s = t THEN row ELSE trainee[s]
    BY <1>1, <1>5 DEF School!AddTrainee, SchoolTypes
  <2>2. course[k].open /\ byHand' \subseteq Trainee /\ UNCHANGED <<course, paidAtOnce>>
    BY <1>5 DEF School!AddTrainee, SchoolRest
  <2>3. row.course = k
    OBVIOUS
  <2> HIDE DEF row
  <2> QED  BY <2>1, <2>2, <2>3 DEF SchoolRest
<1>6. ASSUME NEW t \in Trainee, NEW paid \in Amount \cup {0}, NEW status \in PaidHow,
             School!UpdateTrainee(t, paid, status)
      PROVE  SchoolRest'
  <2>1. \A s \in Trainee : trainee'[s].state = trainee[s].state /\ trainee'[s].course = trainee[s].course
    BY <1>1, <1>6 DEF School!UpdateTrainee, SchoolTypes, TraineeRow
  <2>2. byHand' \subseteq Trainee /\ UNCHANGED <<course, paidAtOnce>>
    BY <1>6 DEF School!UpdateTrainee, SchoolRest
  <2> QED  BY <2>1, <2>2 DEF SchoolRest
<1>7. ASSUME NEW t \in Trainee, School!DeleteTrainee(t) PROVE SchoolRest'
  <2>1. \A s \in Trainee : trainee'[s].course = trainee[s].course
                           /\ (trainee'[s].state = "enrolled" => trainee[s].state = "enrolled")
    BY <1>1, <1>7 DEF School!DeleteTrainee, SchoolTypes, TraineeRow
  <2>2. UNCHANGED <<course, byHand, paidAtOnce>>
    BY <1>7 DEF School!DeleteTrainee
  <2> QED  BY <2>1, <2>2 DEF SchoolRest
<1>8. ASSUME NEW c \in Clerk, School!Pay(c) PROVE SchoolRest'
  <2> DEFINE q == courseClerk[c]
  <2>1. q.t \in Trainee
    BY <1>1, <1>8 DEF School!Pay, WillPay
  <2>2. trainee' = [trainee EXCEPT ![q.t].paid = q.paid, ![q.t].status = q.status]
    BY <1>8 DEF School!Pay
  <2>3. UNCHANGED <<course, byHand>> /\ paidAtOnce' \in {paidAtOnce, paidAtOnce \cup {q.t}}
    BY <1>8 DEF School!Pay
  <2> HIDE DEF q
  <2>4. \A s \in Trainee : trainee'[s].state = trainee[s].state /\ trainee'[s].course = trainee[s].course
    BY <1>1, <2>1, <2>2 DEF SchoolTypes, TraineeRow
  <2>5. paidAtOnce' \subseteq Trainee
    BY <2>1, <2>3 DEF SchoolRest
  <2> QED  BY <2>3, <2>4, <2>5 DEF SchoolRest
<1>9. ASSUME NEW c \in Clerk, School!Abort(c) \/ (\E k \in Course : School!DeleteLook(c, k))
                              \/ (\E t \in Trainee, amount \in Amount : School!PayLook(c, t, amount))
      PROVE  SchoolRest'
  <2>1. UNCHANGED <<course, trainee, byHand, paidAtOnce>>
    BY <1>9 DEF School!Abort, School!DeleteLook, School!PayLook, School!Look
  <2> QED  BY <2>1 DEF SchoolRest
<1> QED  BY <1>2, <1>3, <1>4, <1>5, <1>6, <1>7, <1>8, <1>9 DEF School!Next, PaidHow

LEMMA SchoolRestStill == SchoolRest /\ UNCHANGED schoolVars => SchoolRest'
BY DEF SchoolRest, schoolVars

LEMMA SchoolTypeInvariant == Coins => (Spec => []School!TypeOK)
<1> SUFFICES ASSUME Coins PROVE Spec => []School!TypeOK
  OBVIOUS
<1>1. Init => SchoolRest
  BY SchoolRestInit DEF Init
<1>2. SchoolInv /\ SchoolRest /\ [Next]_vars => SchoolRest'
  BY SchoolRestStep, SchoolRestStill, SchoolApart DEF SchoolStep
<1>3. SchoolInv /\ SchoolRest => School!TypeOK
  <2> SUFFICES ASSUME SchoolInv, SchoolRest PROVE School!TypeOK
    OBVIOUS
  <2>1. SchoolTypes
    BY DEF SchoolInv
  <2>2. trainee \in [Trainee -> [state: {"none", "enrolled", "gone"}, paid: School!Paid,
                                 course: Course \cup {NoCourse}, status: {"installment", "full"}]]
    BY <2>1 DEF SchoolTypes, TraineeRow, States, PaidHow, School!Paid
  <2>3. courseClerk \in [Clerk -> School!Request]
    BY <2>1 DEF SchoolTypes, PayRequest, PaidHow, School!Request, School!Paid
  <2> QED  BY <2>1, <2>2, <2>3 DEF School!TypeOK, SchoolTypes, SchoolRest, School!Paid
<1> QED  BY <1>1, <1>2, <1>3, SchoolInvariant, PTL DEF Spec
=============================================================================
