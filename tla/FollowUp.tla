------------------------------- MODULE FollowUp ------------------------------
(***************************************************************************)
(* Who has not come for a while and is to be called: the list of           *)
(* modules/followUp, the alert of modules/dashboard that counts it with a  *)
(* query of its own, and the list of churned visitors for the messages of  *)
(* an outside tool (getChurned in modules/visitors).  All three read the   *)
(* sessions and the mark that a person carries.                            *)
(***************************************************************************)
EXTENDS Integers, FiniteSets, FiniteSetsExt

CONSTANTS
    Who,
    InactiveDays, SuppressDays, GraceDays,  \* DEFAULT_INACTIVE_DAYS, ...; 7, 30 and 7
    LastDate, MaxActs                       \* bounds on the clock and on the operations

VARIABLES
    date, acts,
    card,       \* the row of a person
    came,       \* the sessions of a person: [in |-> day, out |-> day, or 0 while open]
    called      \* history: the day somebody last said the person was contacted

vars == <<date, acts, card, came, called>>

Date == 0 .. LastDate
Listable == {"visitor", "subscriber"}

CardRow == [st: {"none", "active", "archived"}, type: Listable \cup {"trainee"},
            mark: {"null", "needs", "contacted", "opt_out"},    \* followUpStatus
            at: Date, born: Date]                               \* followUpAt, createdAt

TypeOK ==
    /\ date \in 1 .. LastDate /\ acts \in 0 .. MaxActs
    /\ card \in [Who -> CardRow]
    /\ \A p \in Who : came[p] \subseteq [in: 1 .. LastDate, out: Date]
    /\ called \in [Who -> Date]

Init ==
    /\ date = 1 /\ acts = 0
    /\ card = [p \in Who |-> [st |-> "none", type |-> "visitor", mark |-> "null", at |-> 0, born |-> 0]]
    /\ came = [p \in Who |-> {}]
    /\ called = [p \in Who |-> 0]

-----------------------------------------------------------------------------
Active(p) == card[p].st = "active"
Known(p) == card[p].st # "none"
Seated(p) == \E s \in came[p] : s.out = 0
Latest(p) == Max({s.in : s \in came[p]})

\* What the list asks of a row besides that it is not archived.
Due(p) ==
    /\ card[p].type \in Listable
    /\ card[p].mark # "opt_out"
    /\ card[p].at = 0 \/ card[p].at < date - SuppressDays
    /\ \/ came[p] = {} /\ card[p].born < date - GraceDays
       \/ came[p] # {} /\ Latest(p) < date - InactiveDays

\* getFollowUpList, and the same with showAll.
FollowUpList == {p \in Who : Active(p) /\ Due(p)}
AllToFollow == {p \in Who : Active(p) /\ card[p].type \in Listable /\ card[p].mark # "opt_out"}

\* The dashboard: the query of the list again, without deletedAt.
FollowUpCount == Cardinality({p \in Who : Known(p) /\ Due(p)})

\* Whoever came once and was last seen before the given number of days.
Churned(days) ==
    {p \in Who : /\ Active(p) /\ came[p] # {}
                 /\ \A s \in came[p] : Max({s.in, s.out}) < date - days}

-----------------------------------------------------------------------------
Act == acts < MaxActs /\ acts' = acts + 1 /\ UNCHANGED date
OnCard == Act /\ UNCHANGED came
OnVisits == Act /\ UNCHANGED <<card, called>>

NextDate ==
    /\ date < LastDate
    /\ date' = date + 1
    /\ UNCHANGED <<acts, card, came, called>>

Register(p) ==
    /\ OnCard
    /\ card[p].st = "none"
    /\ card' = [card EXCEPT ![p].st = "active", ![p].born = date]
    /\ UNCHANGED called

CheckIn(p) ==
    /\ OnVisits
    /\ Active(p) /\ ~Seated(p)
    /\ came' = [came EXCEPT ![p] = @ \cup {[in |-> date, out |-> 0]}]

CheckOut(p) ==
    /\ OnVisits
    /\ \E s \in came[p] :
          /\ s.out = 0
          /\ came' = [came EXCEPT ![p] = (@ \ {s}) \cup {[s EXCEPT !.out = date]}]

\* An edit of the times of a session that has ended.
EditSession(p) ==
    /\ OnVisits
    /\ \E s \in came[p] : \E from \in 1 .. date : \E to \in from .. date :
          /\ s.out # 0
          /\ came' = [came EXCEPT ![p] = (@ \ {s}) \cup {[in |-> from, out |-> to]}]

DeleteSession(p) ==
    /\ OnVisits
    /\ \E s \in came[p] : came' = [came EXCEPT ![p] = @ \ {s}]

\* Mutant: the status without the time.
MarkContactedOnly(p) ==
    /\ OnCard
    /\ Known(p)
    /\ card' = [card EXCEPT ![p].mark = "contacted"]
    /\ called' = [called EXCEPT ![p] = date]

\* Neither this nor optOut asks whether the person is archived, or has opted out.
MarkContacted(p) ==
    /\ OnCard
    /\ Known(p)
    /\ card' = [card EXCEPT ![p].mark = "contacted", ![p].at = date]
    /\ called' = [called EXCEPT ![p] = date]

\* optOut, and optOutBatch for several.
OptOut(S) ==
    /\ OnCard
    /\ \E p \in S : Known(p)
    /\ card' = [p \in Who |-> IF p \in S /\ Known(p) THEN [card[p] EXCEPT !.mark = "opt_out"] ELSE card[p]]
    /\ UNCHANGED called

\* The form of a visitor: any status; the time only with "contacted".
Update(p) ==
    /\ OnCard
    /\ Active(p)
    /\ \E mark \in {"needs", "contacted", "opt_out"} :
          LET reached == mark = "contacted"
          IN  /\ card' = [card EXCEPT ![p].mark = mark, ![p].at = IF reached THEN date ELSE @]
              /\ called' = [called EXCEPT ![p] = IF reached THEN date ELSE @]

Archive(p) ==
    /\ OnCard
    /\ Active(p) /\ ~Seated(p)
    /\ card' = [card EXCEPT ![p].st = "archived"]
    /\ UNCHANGED called

Restore(p) ==
    /\ OnCard
    /\ card[p].st = "archived"
    /\ card' = [card EXCEPT ![p].st = "active"]
    /\ UNCHANGED called

ConvertType(p) ==
    /\ OnCard
    /\ Active(p)
    /\ \E type \in (Listable \cup {"trainee"}) \ {card[p].type} :
          card' = [card EXCEPT ![p].type = type]
    /\ UNCHANGED called

Visits(p) == CheckIn(p) \/ CheckOut(p) \/ EditSession(p) \/ DeleteSession(p)
Marks(p) == MarkContacted(p) \/ Update(p)
Kept(p) == Register(p) \/ Archive(p) \/ Restore(p) \/ ConvertType(p)

Next ==
    \/ NextDate
    \/ \E p \in Who : Visits(p) \/ Marks(p) \/ Kept(p)
    \/ \E S \in SUBSET Who : OptOut(S)

Spec == Init /\ [][Next]_vars

-----------------------------------------------------------------------------
\* Nobody is on the list who was called, or began a visit, a short while ago.
LeftAlone ==
    \A p \in FollowUpList :
        /\ called[p] = 0 \/ date - called[p] > SuppressDays
        /\ \A s \in came[p] : date - s.in > InactiveDays

\* The lists that are to show the same people do, but for what tells them apart: the alert
\* counts the archived, too; the messages go by the end of a visit and not by its beginning,
\* and to those who are not to be called any more or just were.
ListsAgree ==
    LET quiet(p) == card[p].mark = "opt_out" \/ (card[p].at # 0 /\ card[p].at >= date - SuppressDays)
        archived == {p \in Who : card[p].st = "archived" /\ Due(p)}
        lingered(p) == \E s \in came[p] : date - s.out <= InactiveDays
    IN  /\ FollowUpList \subseteq AllToFollow
        /\ FollowUpCount = Cardinality(FollowUpList) + Cardinality(archived)
        /\ \A p \in Churned(InactiveDays) \ FollowUpList : card[p].type \notin Listable \/ quiet(p)
        /\ \A p \in FollowUpList \ Churned(InactiveDays) :
              came[p] = {} \/ Seated(p) \/ lingered(p)

\* Through visits, calls, opt-outs, archives and edits of all of them, the list leaves alone
\* whom it should, and agrees with the alert and with the messages (followUp/service).
FollowUpsAgree == LeftAlone /\ ListsAgree
=============================================================================
