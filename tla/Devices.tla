------------------------------ MODULE Devices -------------------------------
(***************************************************************************)
(* Whose device is online (modules/hotspot/device-auth, lib/mikrotik, the  *)
(* login from the QR page and the cut of endByPhone).  The router knows a  *)
(* user per phone, and active entries of devices under a user; the         *)
(* database knows which phone a device belongs to.  Every router call may  *)
(* fail, and is tried a second time even when the first one was carried    *)
(* out and only its answer was lost.                                       *)
(***************************************************************************)
EXTENDS Naturals, FiniteSets

CONSTANTS
    Mac, Phone, Request,
    Guest,          \* the router's shared account of the guests
    MaxPeers,       \* LIMITS.maxDevicesPerPhone - 1
    NoPhone, NoMac, NoRequest

VARIABLES
    near,       \* devices in the router's host table
    known,      \* KnownDevice: the phone of a device
    enabled,    \* users the router lets log in
    online,     \* active entries: under which user a device is online
    req,        \* the local variables of each login and of each cut
    slipped,    \* history: devices that came in while their user was being cut
    odd         \* history: devices online under a user that was not, or not last, saved for them

vars == <<near, known, enabled, online, req, slipped, odd>>

Req == [pc: {"idle", "find", "save", "list", "peers", "remove"},
        phone: Phone \cup {NoPhone}, mac: Mac \cup {NoMac},
        devices: SUBSET Mac,    \* the peers still to log in, or the entries to remove
        gone: BOOLEAN]          \* an entry to remove has gone by itself
Idle == [pc |-> "idle", phone |-> NoPhone, mac |-> NoMac, devices |-> {}, gone |-> FALSE]

TypeOK ==
    /\ near \subseteq Mac
    /\ known \in [Mac -> Phone \cup {NoPhone}]
    /\ enabled \subseteq Phone
    /\ online \in [Mac -> Phone \cup {Guest, NoPhone}]
    /\ \A m \in Mac : online[m] # NoPhone => m \in near
    /\ req \in [Request -> Req]
    /\ slipped \subseteq Mac /\ odd \subseteq Mac

Init ==
    /\ near = {}
    /\ known = [m \in Mac |-> NoPhone]
    /\ enabled = {}
    /\ online = [m \in Mac |-> NoPhone]
    /\ req = [r \in Request |-> Idle]
    /\ slipped = {} /\ odd = {}

Goto(r, pc) == req' = [req EXCEPT ![r].pc = pc]

\* The entry of device m is replaced by one under user u, or removed by somebody else
\* than request r: whoever has listed it looks for an entry that is no more.
Becomes(r, m, u, next) ==
    /\ online' = [online EXCEPT ![m] = u]
    /\ req' = [s \in Request |->
                 IF s = r THEN next
                 ELSE IF req[s].pc = "remove" /\ m \in req[s].devices
                      THEN [req[s] EXCEPT !.gone = TRUE] ELSE req[s]]
    /\ slipped' = IF \E s \in Request : req[s].pc = "remove" /\ req[s].phone = u
                  THEN slipped \cup {m} ELSE slipped \ {m}

-----------------------------------------------------------------------------
(* A login, from the portal or from the QR page.                           *)

\* ensureUser creates the user or resets it, and enables it.
Ensure(r, p, m) ==
    /\ req[r] = Idle
    /\ enabled' = enabled \cup {p}
    /\ req' = [req EXCEPT ![r] = [Idle EXCEPT !.pc = "find", !.phone = p, !.mac = m]]
    /\ UNCHANGED <<near, known, online, slipped, odd>>

\* The QR page without a device, and a login that stops here.
Provision(p) ==
    /\ enabled' = enabled \cup {p}
    /\ UNCHANGED <<near, known, online, req, slipped, odd>>

\* The device is in the host table, if need be at a second or fourth look, and the
\* router takes the login.  The ip that was found means nothing to the rest.
LogIn(r) ==
    LET m == req[r].mac
        p == req[r].phone
    IN  /\ req[r].pc = "find" /\ m \in near /\ p \in enabled
        /\ \/ /\ Becomes(r, m, p, [req[r] EXCEPT !.pc = "save"])
              /\ UNCHANGED odd
           \* the answer is lost: the second try is refused, and so is the request
           \/ /\ Becomes(r, m, p, Idle)
              /\ odd' = odd \cup {m}
        /\ UNCHANGED <<near, known, enabled>>

\* Mutant: the device stays with the first who logged in on it.
SaveFirst(r) ==
    LET m == req[r].mac
    IN  /\ req[r].pc = "save"
        /\ known' = IF known[m] = NoPhone THEN [known EXCEPT ![m] = req[r].phone] ELSE known
        /\ odd' = IF online[m] = req[r].phone THEN odd \ {m} ELSE odd \cup {m}
        /\ Goto(r, "list")
        /\ UNCHANGED <<near, enabled, online, slipped>>

\* upsertDevice: a device belongs to the last who logged in on it.
Save(r) ==
    LET m == req[r].mac
    IN  /\ req[r].pc = "save"
        /\ known' = [known EXCEPT ![m] = req[r].phone]
        /\ odd' = IF online[m] = req[r].phone THEN odd \ {m} ELSE odd \cup {m}
        /\ Goto(r, "list")
        /\ UNCHANGED <<near, enabled, online, slipped>>

\* authorizeKnownDevices: those of the phone seen last, up to the limit.
List(r) ==
    LET others == {m \in Mac \ {req[r].mac} : known[m] = req[r].phone}
    IN  /\ req[r].pc = "list"
        /\ \E peers \in SUBSET others :
             /\ Cardinality(peers) = MaxPeers \/ (peers = others /\ Cardinality(peers) < MaxPeers)
             /\ req' = [req EXCEPT ![r] = [@ EXCEPT !.pc = "peers", !.devices = peers]]
        /\ UNCHANGED <<near, known, enabled, online, slipped, odd>>

\* One of them after the other: it is not here, refused, or comes online.  A failure is
\* noted and the next one follows.
PeerSkipped(r, m) ==
    /\ req[r].pc = "peers" /\ m \in req[r].devices
    /\ req' = [req EXCEPT ![r].devices = @ \ {m}]
    /\ UNCHANGED <<near, known, enabled, online, slipped, odd>>

PeerIn(r, m) ==
    LET p == req[r].phone
    IN  /\ req[r].pc = "peers" /\ m \in req[r].devices
        /\ m \in near /\ p \in enabled
        /\ Becomes(r, m, p, [req[r] EXCEPT !.devices = @ \ {m}])
        /\ odd' = IF known[m] = p THEN odd \ {m} ELSE odd \cup {m}
        /\ UNCHANGED <<near, known, enabled>>

Done(r) ==
    /\ req[r].pc = "peers" /\ req[r].devices = {}
    /\ req' = [req EXCEPT ![r] = Idle]
    /\ UNCHANGED <<near, known, enabled, online, slipped, odd>>

\* guestQuickLogin leaves no trace but the entry.
GuestIn(m) ==
    /\ m \in near
    /\ Becomes(NoRequest, m, Guest, Idle)
    /\ UNCHANGED <<near, known, enabled, odd>>

-----------------------------------------------------------------------------
(* endByPhone cuts the phone: logoutUser, then setUserDisabled.            *)

CutList(r, p) ==
    /\ req[r] = Idle
    /\ req' = [req EXCEPT ![r] = [Idle EXCEPT !.pc = "remove", !.phone = p,
                                  !.devices = {m \in Mac : online[m] = p}]]
    /\ UNCHANGED <<near, known, enabled, online, slipped, odd>>

\* Removing one entry; an entry that is gone is an error, and the cut ends there.
CutRemove(r, m) ==
    /\ req[r].pc = "remove" /\ m \in req[r].devices /\ ~req[r].gone
    /\ \E next \in {[req[r] EXCEPT !.devices = @ \ {m}], Idle} : Becomes(r, m, NoPhone, next)
    /\ UNCHANGED <<near, known, enabled, odd>>

\* Mutant: one entry, as if a phone had one device.
CutDisableSoon(r) ==
    /\ req[r].pc = "remove" /\ ~req[r].gone
    /\ enabled' = enabled \ {req[r].phone}
    /\ req' = [req EXCEPT ![r] = Idle]
    /\ UNCHANGED <<near, known, online, slipped, odd>>

CutDisable(r) ==
    /\ req[r].pc = "remove" /\ req[r].devices = {} /\ ~req[r].gone
    /\ enabled' = enabled \ {req[r].phone}
    /\ req' = [req EXCEPT ![r] = Idle]
    /\ UNCHANGED <<near, known, online, slipped, odd>>

\* endByMac
LogoutMac(m) ==
    /\ online[m] # NoPhone
    /\ Becomes(NoRequest, m, NoPhone, Idle)
    /\ UNCHANGED <<near, known, enabled, odd>>

-----------------------------------------------------------------------------
\* A router call is refused twice, the device is not found in time, or the process dies.
Abort(r) ==
    /\ req[r] # Idle
    /\ req' = [req EXCEPT ![r] = Idle]
    /\ odd' = IF req[r].pc = "save" THEN odd \cup {req[r].mac} ELSE odd
    /\ UNCHANGED <<near, known, enabled, online, slipped>>

Arrive(m) ==
    /\ m \notin near
    /\ near' = near \cup {m}
    /\ UNCHANGED <<known, enabled, online, req, slipped, odd>>

\* With the device goes its entry.
Leave(m) ==
    /\ m \in near
    /\ near' = near \ {m}
    /\ Becomes(NoRequest, m, NoPhone, Idle)
    /\ UNCHANGED <<known, enabled, odd>>

Next ==
    \/ \E r \in Request :
         \/ LogIn(r) \/ Save(r) \/ List(r) \/ Done(r) \/ CutDisable(r) \/ Abort(r)
         \/ \E p \in Phone, m \in Mac : Ensure(r, p, m)
         \/ \E m \in Mac : PeerSkipped(r, m) \/ PeerIn(r, m) \/ CutRemove(r, m)
         \/ \E p \in Phone : CutList(r, p)
    \/ \E p \in Phone : Provision(p)
    \/ \E m \in Mac : GuestIn(m) \/ LogoutMac(m) \/ Arrive(m) \/ Leave(m)

Spec == Init /\ [][Next]_vars

-----------------------------------------------------------------------------
\* A cut that went through leaves no device of the phone online until its next login,
\* whatever other logins, guests, departures and cuts were under way: except for a device
\* that came in between the listing of the entries and the disabling of the user.
CutIsComplete ==
    \A m \in Mac \ slipped : online[m] \in Phone => online[m] \in enabled

\* A device is online under the phone it is saved for: else the cut of that phone would
\* miss it, and the next login of its owner would not find it.  Exceptions: the login that
\* is about to save it; one that died or was told it failed before it could; two logins on
\* one device that saved in the other order; a peer that had changed hands since it was listed.
OnlineIsKnown ==
    \A m \in Mac \ odd :
       online[m] \in Phone /\ known[m] # online[m] =>
          \E r \in Request : req[r].pc = "save" /\ req[r].mac = m
=============================================================================
