---------------------------- MODULE Subscriptions ---------------------------
(***************************************************************************)
(* The subscriptions of one person (modules/subscribers, the conversion    *)
(* and the merge of persons, lib/subscription).  Nothing in the schema     *)
(* keeps a person from having two live ones: creating looks before it      *)
(* writes, renewing ends the old ones in a commit of its own before it     *)
(* creates the new one, and a conversion ends those it sees with one       *)
(* statement of its transaction and creates the new one with a later one   *)
(* (READ COMMITTED).                                                       *)
(***************************************************************************)
EXTENDS Naturals

CONSTANTS
    Sub, Clerk,
    NoSub

VARIABLES
    sub,        \* the rows of the person
    clerk,      \* the local variables of each request
    newest,     \* history: the one sold last
    edited,     \* history: rows edited by hand or brought in by a merge
    overlapped, \* history: rows written by a request that another had overtaken
    dropped     \* history: a renewal ended between its two writes

vars == <<sub, clerk, newest, edited, overlapped, dropped>>

Status == {"active", "paused", "renewing", "expired"}
\* over: the end date has passed
Row == [status: Status, over: BOOLEAN]
NoRow == [status |-> "none", over |-> FALSE]

Request ==
    [op: {"idle", "create", "renew", "pause", "edit", "convert"}, s: Sub \cup {NoSub},
     ended: SUBSET Sub,     \* the rows a conversion has ended and not yet committed
     late: BOOLEAN]         \* history: another request wrote since
Idle == [op |-> "idle", s |-> NoSub, ended |-> {}, late |-> FALSE]

TypeOK ==
    /\ sub \in [Sub -> Row \cup {NoRow}]
    /\ clerk \in [Clerk -> Request]
    /\ newest \in Sub \cup {NoSub}
    /\ edited \subseteq Sub /\ overlapped \subseteq Sub
    /\ dropped \in BOOLEAN

Init ==
    /\ sub = [s \in Sub |-> NoRow]
    /\ clerk = [c \in Clerk |-> Idle]
    /\ newest = NoSub
    /\ edited = {} /\ overlapped = {}
    /\ dropped = FALSE

Exists(s) == sub[s] # NoRow
IsActive(s) == sub[s].status = "active" /\ ~sub[s].over
Live(s) == sub[s].status \in {"paused", "renewing"} \/ IsActive(s)

\* Whoever has read before this write will write too late.
Written(c, request) ==
    clerk' = [d \in Clerk |-> IF d = c THEN request
                              ELSE IF clerk[d] = Idle THEN Idle ELSE [clerk[d] EXCEPT !.late = TRUE]]

Look(c, op, s) ==
    /\ clerk[c] = Idle
    /\ clerk' = [clerk EXCEPT ![c] = [Idle EXCEPT !.op = op, !.s = s]]
    /\ UNCHANGED <<sub, newest, edited, overlapped, dropped>>

\* The rows that still count, over or not.
Counting == {s \in Sub : sub[s].status \in {"active", "paused", "renewing"}}

Ended(rows) ==
    [s \in Sub |-> IF s \in rows THEN [sub[s] EXCEPT !.status = "expired"] ELSE sub[s]]

\* The row lock of a conversion that has not committed.
Locked(s) == \E d \in Clerk : s \in clerk[d].ended

\* The end date is given as input and not looked at.
Sell(rows) ==
    \E s \in Sub : /\ ~Exists(s)
                   /\ \E over \in BOOLEAN :
                        sub' = [rows EXCEPT ![s] = [status |-> "active", over |-> over]]
                   /\ newest' = s

Late(c, s) == overlapped' = IF clerk[c].late THEN overlapped \cup {s} ELSE overlapped

CreateLook(c) ==
    /\ \A s \in Sub : ~Live(s)
    /\ Look(c, "create", NoSub)

Create(c) ==
    /\ clerk[c].op = "create"
    /\ Sell(sub)
    /\ Late(c, newest')
    /\ Written(c, Idle)
    /\ UNCHANGED <<edited, dropped>>

\* The two writes of a renewal: nothing is looked up between them.  Where it has to
\* wait for a conversion it finds the rows ended, and never sees the new one: it is
\* as if it had come before.
RenewExpire(c) ==
    /\ clerk[c] = Idle
    /\ sub' = Ended(Counting)
    /\ Written(c, [Idle EXCEPT !.op = "renew"])
    /\ UNCHANGED <<newest, edited, overlapped, dropped>>

RenewCreate(c) ==
    /\ clerk[c].op = "renew"
    /\ Sell(sub)
    /\ Late(c, newest')
    /\ Written(c, Idle)
    /\ UNCHANGED <<edited, dropped>>

PauseLook(c, s) == IsActive(s) /\ Look(c, "pause", s)

\* Whatever has become of the row in the meantime.
Pause(c) ==
    LET s == clerk[c].s
    IN  /\ clerk[c].op = "pause" /\ ~Locked(s)
        /\ sub' = [sub EXCEPT ![s].status = "paused"]
        /\ Late(c, s)
        /\ Written(c, Idle)
        /\ UNCHANGED <<newest, edited, dropped>>

\* The row with the latest start date; that is input, and so it may be any of them.
EditLook(c, s) == Exists(s) /\ Look(c, "edit", s)

\* The status and the end date are written as given.
Edit(c) ==
    LET s == clerk[c].s
    IN  /\ clerk[c].op = "edit" /\ ~Locked(s)
        /\ \E row \in Row : sub' = [sub EXCEPT ![s] = row]
        /\ edited' = edited \cup {s}
        /\ Written(c, Idle)
        /\ UNCHANGED <<newest, overlapped, dropped>>

\* convertType with a package, in one transaction: the statement that ends what counts
\* now ...
ConvertExpire(c) ==
    /\ clerk[c] = Idle
    /\ clerk' = [clerk EXCEPT ![c] = [Idle EXCEPT !.op = "convert", !.ended = Counting]]
    /\ UNCHANGED <<sub, newest, edited, overlapped, dropped>>

\* Mutant: the old ones are ended after the new one is created, and it with them.
ConvertLast(c) ==
    /\ clerk[c].op = "convert"
    /\ \E s \in Sub : /\ ~Exists(s)
                      /\ sub' = [Ended(clerk[c].ended) EXCEPT
                                  ![s] = [status |-> "expired", over |-> FALSE]]
                      /\ newest' = s
    /\ Late(c, newest')
    /\ Written(c, Idle)
    /\ UNCHANGED <<edited, dropped>>

\* ... and the new row, with the commit.
ConvertCreate(c) ==
    /\ clerk[c].op = "convert"
    /\ Sell(Ended(clerk[c].ended))
    /\ Late(c, newest')
    /\ Written(c, Idle)
    /\ UNCHANGED <<edited, dropped>>

\* mergePerson moves the rows of the other person here, whatever is here already.
MergeIn(c, s, row) ==
    /\ clerk[c] = Idle /\ ~Exists(s)
    /\ sub' = [sub EXCEPT ![s] = row]
    /\ edited' = edited \cup {s}
    /\ Written(c, Idle)
    /\ UNCHANGED <<newest, overlapped, dropped>>

\* A statement fails, or the process dies; a conversion rolls back.
Abort(c) ==
    /\ clerk[c] # Idle
    /\ clerk' = [clerk EXCEPT ![c] = Idle]
    /\ dropped' = (dropped \/ clerk[c].op = "renew")
    /\ UNCHANGED <<sub, newest, edited, overlapped>>

\* An end date passes.
Pass(s) ==
    /\ Exists(s) /\ ~sub[s].over
    /\ sub' = [sub EXCEPT ![s].over = TRUE]
    /\ UNCHANGED <<clerk, newest, edited, overlapped, dropped>>

\* At startup and once a day.  An active row that is over counts nowhere.
expireStaleSubscriptions ==
    /\ sub' = [s \in Sub |-> IF sub[s].status = "active" /\ sub[s].over
                             THEN [sub[s] EXCEPT !.status = "expired"] ELSE sub[s]]
    /\ sub' # sub
    /\ UNCHANGED <<clerk, newest, edited, overlapped, dropped>>

Next ==
    \/ expireStaleSubscriptions
    \/ \E s \in Sub : Pass(s)
    \/ \E c \in Clerk :
         \/ CreateLook(c) \/ Create(c) \/ RenewExpire(c) \/ RenewCreate(c)
         \/ Pause(c) \/ Edit(c) \/ ConvertExpire(c) \/ ConvertCreate(c) \/ Abort(c)
         \/ \E s \in Sub : PauseLook(c, s) \/ EditLook(c, s)
         \/ \E s \in Sub, row \in Row : MergeIn(c, s, row)

Spec == Init /\ [][Next]_vars

-----------------------------------------------------------------------------
\* "Only the new one is live": through creating, renewing, converting, pausing and the
\* daily expiry a person has at most one live subscription, unless two requests
\* overlapped, or a row was edited by hand or came with a merge.
OneLiveSubscription ==
    \A s, t \in Sub : s # t /\ Live(s) /\ Live(t) => {s, t} \cap (edited \cup overlapped) # {}

\* The subscription a person paid for last is not ended before its day, unless by hand or
\* by a renewal: one that is between its two writes, or that ended there.
LastPaidLives ==
    newest # NoSub /\ newest \notin edited /\ sub[newest].status = "expired" /\ ~dropped =>
       sub[newest].over \/ \E c \in Clerk : clerk[c].op = "renew"

\* A person who pays once more has one live subscription, and it is the one paid for.
PaidSubscriptionLives == OneLiveSubscription /\ LastPaidLives
=============================================================================
