------------------------------- MODULE Office -------------------------------
(***************************************************************************)
(* The services beside the sessions, in one program: the people, the       *)
(* records of the office, the login of the staff, the doors, the devices   *)
(* at the router, the price of a visit, the reports and their days, who is *)
(* to be called, and the notices to the QR site.  Each of these modules    *)
(* has variables of its own and says what the rest of the program may do   *)
(* to them, so that interleaving them adds nothing to the behaviours of    *)
(* each: a behaviour here is one of a single service, chosen at the start  *)
(* (focus), and the states of the services add up where their product      *)
(* would multiply.                                                         *)
(***************************************************************************)
EXTENDS Integers, FiniteSets, FiniteSetsExt

CONSTANTS
    Clerk,                                              \* requests under way
    Booking, Room, Given, From, To, NoBooking, NoRoom,
    Id, Name, CardPhone, NoId, NoName, NoCardPhone,
    Course, Trainee, Price, Amount, NoCourse, NoTrainee,
    Sub, NoSub,
    Attempt, MaxFailed, LockTime, Horizon,
    SeatRate, TierRate, FullDay, FullDayThreshold, MinMinutes, Increment,
    MaxVisitMinutes, Discount, OrderTotal, MaxOrders, Step, Close,
    MaxOps,
    Mac, Phone, Guest, MaxPeers, NoPhone, NoMac, NoRequest,
    Human, Kind, Nobody, MaxAsked,
    MaxRows, EntryKind, Tier, MaxCalls,
    Stay, Item, Debt, NoStay, TimePrice, NetPrice, Total, RoomPrice, StayDiscount, DailyRate,
    SubscribedDays, HotCost, LastDay, MaxDeeds,
    Who, InactiveDays, SuppressDays, GraceDays, LastDate, MaxActs,
    Second, Hour, DayLength, Winter, Summer, Switches, TrendDays, LastInstant

VARIABLES
    focus,
    booking, bookingClerk, raced, moved,
    contact, contactClerk,
    course, trainee, courseClerk, handed, byHand, paidAtOnce,
    sub, subClerk, newest, edited, overlapped, dropped,
    account, now, attempt, streak, overtaken,
    visit, minutes, subscribed, orders, net,
    person, pending, wire, copy, ops, sent, applied, lost, crossed, told,
    near, known, enabled, online, req, slipped, odd,
    people, hired, walletOf, seated, asking, asked, unguarded, loose,
    rows, staff, roster, enrolled, seat, past, wifi, calls, shared, reopened,
    today, deeds, stay, item, debt, letting, class, expense, taken, again, parts,
    date, acts, card, came, called,
    instant, switch, spring

Rooms == INSTANCE Bookings WITH Start <- From, End <- To, clerk <- bookingClerk
Book == INSTANCE Contacts WITH Phone <- CardPhone, NoPhone <- NoCardPhone, clerk <- contactClerk
School == INSTANCE Courses WITH clerk <- courseClerk, overlapped <- paidAtOnce
Plans == INSTANCE Subscriptions WITH clerk <- subClerk
Door == INSTANCE Login WITH slipped <- overtaken
Till == INSTANCE SessionPrice
Site == INSTANCE AnoonSync
Router == INSTANCE Devices WITH Request <- Clerk
People == INSTANCE Persons WITH Person <- Human, Desk <- Clerk, MaxOps <- MaxAsked,
    person <- people, roster <- hired, wallet <- walletOf, present <- seated, desk <- asking,
    ops <- asked
Doors == INSTANCE Entrances WITH Kind <- EntryKind, net <- wifi
Ledger == INSTANCE Takings WITH Visit <- Stay, NoVisit <- NoStay, Discount <- StayDiscount,
    visit <- stay, booking <- letting, course <- class, handed <- taken
Outreach == INSTANCE FollowUp
Days == INSTANCE Calendar WITH Day <- DayLength

roomVars == <<booking, bookingClerk, raced, moved>>
bookVars == <<contact, contactClerk>>
schoolVars == <<course, trainee, courseClerk, handed, byHand, paidAtOnce>>
planVars == <<sub, subClerk, newest, edited, overlapped, dropped>>
doorVars == <<account, now, attempt, streak, overtaken>>
tillVars == <<visit, minutes, subscribed, orders, net>>
siteVars == <<person, pending, wire, copy, ops, sent, applied, lost, crossed, told>>
routerVars == <<near, known, enabled, online, req, slipped, odd>>
peopleVars == <<people, hired, walletOf, seated, asking, asked, unguarded, loose>>
entryVars == <<rows, staff, roster, enrolled, seat, past, wifi, calls, shared, reopened>>
ledgerVars == <<today, deeds, stay, item, debt, letting, class, expense, taken, again, parts>>
callVars == <<date, acts, card, came, called>>
dayVars == <<instant, switch, spring>>

services == <<roomVars, bookVars, schoolVars, planVars, doorVars, tillVars, siteVars,
              routerVars, peopleVars, entryVars, ledgerVars, callVars, dayVars>>
vars == <<focus, services>>

Service == {"rooms", "book", "school", "plans", "door", "till", "site", "router", "people",
            "entry", "ledger", "calls", "days"}

ASSUME OfficeAssumption ==
    /\ MaxRows \in Nat
    /\ Kind \cup EntryKind \subseteq {"visitor", "subscriber", "trainee", "tamkeen", "employee"}
    /\ {Second, Hour, DayLength, TrendDays} \subseteq Nat \ {0}
    /\ Hour % Second = 0 /\ DayLength % Hour = 0
    /\ Winter \in Nat /\ Winter % Hour = 0 /\ Hour =< Winter
    /\ Summer = Winter + Hour /\ Summer =< DayLength
    /\ \A t \in Switches : t \in Nat /\ t % Hour = 0
    /\ LastInstant \in Nat /\ TrendDays * DayLength - Hour =< LastInstant

TypeOK ==
    /\ focus \in Service
    /\ focus = "rooms" => Rooms!TypeOK
    /\ focus = "book" => Book!TypeOK
    /\ focus = "school" => School!TypeOK
    /\ focus = "plans" => Plans!TypeOK
    /\ focus = "door" => Door!TypeOK
    /\ focus = "till" => Till!TypeOK
    /\ focus = "site" => Site!TypeOK
    /\ focus = "router" => Router!TypeOK
    /\ focus = "people" => People!TypeOK
    /\ focus = "entry" => Doors!TypeOK
    /\ focus = "ledger" => Ledger!TypeOK
    /\ focus = "calls" => Outreach!TypeOK
    /\ focus = "days" => Days!TypeOK

Init ==
    /\ focus \in Service
    /\ Rooms!Init /\ Book!Init /\ School!Init /\ Plans!Init
    /\ Door!Init /\ Till!Init /\ Site!Init /\ Router!Init
    /\ People!Init /\ Doors!Init /\ Ledger!Init
    /\ Outreach!Init /\ Days!Init
    /\ focus # "days" => spring /\ switch = Min(Switches)    \* out of focus, one will do

RoomStep ==
    /\ focus = "rooms" /\ Rooms!Next
    /\ UNCHANGED <<focus, bookVars, schoolVars, planVars, doorVars, tillVars,
                   siteVars, routerVars, peopleVars, entryVars, ledgerVars, callVars, dayVars>>

BookStep ==
    /\ focus = "book" /\ Book!Next
    /\ UNCHANGED <<focus, roomVars, schoolVars, planVars, doorVars, tillVars,
                   siteVars, routerVars, peopleVars, entryVars, ledgerVars, callVars, dayVars>>

SchoolStep ==
    /\ focus = "school" /\ School!Next
    /\ UNCHANGED <<focus, roomVars, bookVars, planVars, doorVars, tillVars,
                   siteVars, routerVars, peopleVars, entryVars, ledgerVars, callVars, dayVars>>

PlanStep ==
    /\ focus = "plans" /\ Plans!Next
    /\ UNCHANGED <<focus, roomVars, bookVars, schoolVars, doorVars, tillVars,
                   siteVars, routerVars, peopleVars, entryVars, ledgerVars, callVars, dayVars>>

DoorStep ==
    /\ focus = "door" /\ Door!Next
    /\ UNCHANGED <<focus, roomVars, bookVars, schoolVars, planVars, tillVars,
                   siteVars, routerVars, peopleVars, entryVars, ledgerVars, callVars, dayVars>>

TillStep ==
    /\ focus = "till" /\ Till!Next
    /\ UNCHANGED <<focus, roomVars, bookVars, schoolVars, planVars, doorVars,
                   siteVars, routerVars, peopleVars, entryVars, ledgerVars, callVars, dayVars>>

SiteStep ==
    /\ focus = "site" /\ Site!Next
    /\ UNCHANGED <<focus, roomVars, bookVars, schoolVars, planVars, doorVars,
                   tillVars, routerVars, peopleVars, entryVars, ledgerVars, callVars, dayVars>>

RouterStep ==
    /\ focus = "router" /\ Router!Next
    /\ UNCHANGED <<focus, roomVars, bookVars, schoolVars, planVars, doorVars,
                   tillVars, siteVars, peopleVars, entryVars, ledgerVars, callVars, dayVars>>

PeopleStep ==
    /\ focus = "people" /\ People!Next
    /\ UNCHANGED <<focus, roomVars, bookVars, schoolVars, planVars, doorVars,
                   tillVars, siteVars, routerVars, entryVars, ledgerVars, callVars, dayVars>>

EntryStep ==
    /\ focus = "entry" /\ Doors!Next
    /\ UNCHANGED <<focus, roomVars, bookVars, schoolVars, planVars, doorVars,
                   tillVars, siteVars, routerVars, peopleVars, ledgerVars, callVars, dayVars>>

LedgerStep ==
    /\ focus = "ledger" /\ Ledger!Next
    /\ UNCHANGED <<focus, roomVars, bookVars, schoolVars, planVars, doorVars,
                   tillVars, siteVars, routerVars, peopleVars, entryVars, callVars, dayVars>>

CallStep ==
    /\ focus = "calls" /\ Outreach!Next
    /\ UNCHANGED <<focus, roomVars, bookVars, schoolVars, planVars, doorVars,
                   tillVars, siteVars, routerVars, peopleVars, entryVars, ledgerVars, dayVars>>

DayStep ==
    /\ focus = "days" /\ Days!Next
    /\ UNCHANGED <<focus, roomVars, bookVars, schoolVars, planVars, doorVars,
                   tillVars, siteVars, routerVars, peopleVars, entryVars, ledgerVars, callVars>>

Next ==
    \/ RoomStep \/ BookStep \/ SchoolStep \/ PlanStep
    \/ DoorStep \/ TillStep \/ SiteStep \/ RouterStep
    \/ PeopleStep \/ EntryStep \/ LedgerStep \/ CallStep \/ DayStep

Spec == Init /\ [][Next]_vars

-----------------------------------------------------------------------------
(* What each service promises, stated with it in its own module.  A        *)
(* service out of focus stays as Init has it, and Init is where it starts  *)
(* when it is in focus: an invariant need not be looked at elsewhere.      *)

\* No room is promised twice, through edits of single fields by several clerks
\* (rooms/bookings.service).
NoDoubleBooking == focus = "rooms" => Rooms!NoDoubleBooking

\* The address book implements one with a card per phone (contacts/service).
IsADirectory == Book!IsADirectory

\* What a trainee's row says of the money is true (courses/courses.service).
PaymentsAddUp == focus = "school" => School!PaymentsAddUp

\* Whoever pays once more has one live subscription, the one paid for (subscribers/service,
\* convertType of visitors/service).
PaidSubscriptionLives == focus = "plans" => Plans!PaidSubscriptionLives

\* Five wrong passwords lock the account (auth/service).
FailuresLock == focus = "door" => Door!FailuresLock

\* A lock is not lifted before its time (auth/service).
LockHolds == Door!LockHolds

\* Staying longer never makes a visit cheaper (sessions/pricing, hotspot.config).
NeverCheaper == Till!NeverCheaper

\* The QR site lists the members, once the notices have arrived (lib/anoon-sync).
CopyIsCurrent == focus = "site" => Site!CopyIsCurrent

\* A cut leaves no device of the phone online (hotspot.service, lib/mikrotik).
CutIsComplete == focus = "router" => Router!CutIsComplete

\* A device is online under the phone it is saved for (hotspot/device-auth).
OnlineIsKnown == focus = "router" => Router!OnlineIsKnown

\* A phone has one active person (lib/personUniqueness and those who ask it).
OnePersonPerPhone == focus = "people" => People!OnePersonPerPhone

\* A wallet stays with the person it is named after (lib/person, lib/mergePerson).
WalletStaysWithItsPerson == focus = "people" => People!WalletStaysWithItsPerson

\* Nobody is archived while they sit in the space (visitors/service, sessions/service).
ArchivedAreAway == focus = "people" => People!ArchivedAreAway

\* The bill of a visit is the one that was on the Live page (sessions/service).
LiveIsCharged == focus = "till" => Till!LiveIsCharged

\* All doors lead to one session and one invoice (identity.service, integrations/service).
OneInvoice == focus = "entry" => Doors!OneInvoice

\* Revenue is what was handed over, but for named exceptions (lib/revenue).
TillAgrees == focus = "ledger" => Ledger!TillAgrees

\* The pages and mails that show the same sums agree (dashboard, reports, history).
ReportsAgree == focus = "ledger" => Ledger!ReportsAgree

\* The follow-up list leaves alone whom it should, and agrees with the alert and the
\* messages (followUp/service, dashboard/service, visitors/service).
FollowUpsAgree == focus = "calls" => Outreach!FollowUpsAgree

\* A day of Palestine has the bounds it should have (lib/timezone).
DaysAreWhole == focus = "days" => Days!DaysAreWhole
=============================================================================
