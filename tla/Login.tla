------------------------------- MODULE Login --------------------------------
(***************************************************************************)
(* Staff logins and their lock (modules/auth).  A login reads the row of   *)
(* the account, compares the password for a while, and then writes the     *)
(* number of failures and the lock it computed from what it had read.      *)
(* Tokens are signed and never stored: they live in the browser.           *)
(***************************************************************************)
EXTENDS Naturals

CONSTANTS
    Attempt,        \* logins under way
    MaxFailed,      \* 5 in the code
    LockTime,       \* length of a lock
    Horizon         \* bound on the clock

VARIABLES
    account,    \* the row of Staff: failures in a row, and until when it is locked
    now,
    attempt,    \* the local variables of each login
    streak,     \* history: failures since the count was last reset
    slipped     \* history: a login that had been overtaken has written since

vars == <<account, now, attempt, streak, slipped>>

Unlocked == 0

Login == [at: {"idle", "expired", "compare"}, failed: 0 .. MaxFailed, locked: BOOLEAN,
          late: BOOLEAN]    \* history: another login wrote since
Idle == [at |-> "idle", failed |-> 0, locked |-> FALSE, late |-> FALSE]

TypeOK ==
    /\ account \in [failed: 0 .. MaxFailed, until: 0 .. Horizon + LockTime]
    /\ now \in 1 .. Horizon
    /\ attempt \in [Attempt -> Login]
    /\ streak \in 0 .. MaxFailed
    /\ slipped \in BOOLEAN

Init ==
    /\ account = [failed |-> 0, until |-> Unlocked]
    /\ now = 1
    /\ attempt = [a \in Attempt |-> Idle]
    /\ streak = 0
    /\ slipped = FALSE

Locked == account.until > now

Tick ==
    /\ now < Horizon
    /\ now' = now + 1
    /\ UNCHANGED <<account, attempt, streak, slipped>>

\* Mutant: the lock is not looked at.
StartAnyway(a) ==
    /\ attempt[a] = Idle
    /\ attempt' = [attempt EXCEPT ![a] =
                     [at |-> "compare", failed |-> account.failed,
                      locked |-> account.until # Unlocked, late |-> FALSE]]
    /\ UNCHANGED <<account, now, streak, slipped>>

\* A locked account answers 403 and nothing is written.
Start(a) ==
    /\ attempt[a] = Idle
    /\ ~Locked
    /\ attempt' = [attempt EXCEPT ![a] =
                     [at |-> IF account.until # Unlocked THEN "expired" ELSE "compare",
                      failed |-> account.failed, locked |-> account.until # Unlocked,
                      late |-> FALSE]]
    /\ UNCHANGED <<account, now, streak, slipped>>

\* a writes the row and goes on to next; the others have read it before.
Write(a, row, next) ==
    /\ account' = row
    /\ attempt' = [b \in Attempt |-> IF b = a THEN next
                                     ELSE IF attempt[b] = Idle THEN Idle
                                     ELSE [attempt[b] EXCEPT !.late = TRUE]]
    /\ slipped' = (slipped \/ attempt[a].late)
    /\ UNCHANGED now

Reset == [failed |-> 0, until |-> Unlocked]

\* The lock has run out: its reset is a write of its own, before the comparison.
Expire(a) ==
    /\ attempt[a].at = "expired"
    /\ Write(a, Reset, [attempt[a] EXCEPT !.at = "compare", !.failed = 0, !.locked = FALSE])
    /\ streak' = 0

\* Mutant: the sixth failure locks.
FailLater(a) ==
    LET failed == attempt[a].failed + 1
    IN  /\ attempt[a].at = "compare"
        /\ Write(a, [failed |-> IF failed > MaxFailed THEN MaxFailed ELSE failed,
                     until |-> IF failed > MaxFailed THEN now + LockTime ELSE Unlocked], Idle)
        /\ streak' = IF streak < MaxFailed THEN streak + 1 ELSE streak

\* A wrong password: both fields are written, the lock too when there is none to set.
Fail(a) ==
    LET failed == attempt[a].failed + 1
    IN  /\ attempt[a].at = "compare"
        /\ Write(a, [failed |-> failed,
                     until |-> IF failed >= MaxFailed THEN now + LockTime ELSE Unlocked], Idle)
        /\ streak' = IF streak < MaxFailed THEN streak + 1 ELSE streak

\* The right password: the row is written only if there was something to reset.
Succeed(a) ==
    /\ attempt[a].at = "compare"
    /\ IF attempt[a].failed > 0 \/ attempt[a].locked
       THEN Write(a, Reset, Idle) /\ streak' = 0
       ELSE /\ attempt' = [attempt EXCEPT ![a] = Idle]
            /\ UNCHANGED <<account, now, streak, slipped>>

\* The process dies, or a statement fails.
Abort(a) ==
    /\ attempt[a] # Idle
    /\ attempt' = [attempt EXCEPT ![a] = Idle]
    /\ UNCHANGED <<account, now, streak, slipped>>

Next ==
    \/ Tick
    \/ \E a \in Attempt : Start(a) \/ Expire(a) \/ Fail(a) \/ Succeed(a) \/ Abort(a)

Spec == Init /\ [][Next]_vars

-----------------------------------------------------------------------------
\* Five wrong passwords in a row lock the account, until somebody takes note that the
\* lock has run out: unless logins that overlapped have written what they had read.
FailuresLock == streak >= MaxFailed /\ ~slipped => account.until # Unlocked

\* A lock is lifted before its time only by a login that had read the row before.
LockHolds ==
    [][Locked /\ account' # account => \E a \in Attempt : attempt[a].late /\ attempt'[a] # attempt[a]]_vars
=============================================================================
