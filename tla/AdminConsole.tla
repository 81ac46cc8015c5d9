------------------------------ MODULE AdminConsole ------------------------------
(***************************************************************************)
(* Administrators sign in to the control plane: bootstrap and login of     *)
(* app/api/admin.py with the sessions of core/admin_auth.py.               *)
(*                                                                         *)
(* No row is locked: a request reads, waits for the password hash, and     *)
(* writes absolute values by id.                                           *)
(*                                                                         *)
(* What a session is good for is not here.  Every route that writes        *)
(* depends on require_admin_write, which reads                             *)
(* settings.admin_csrf_cookie_name (admin_auth.py:174); Settings has no    *)
(* such field (config.py:62-69), so that each of them, logout included,    *)
(* raises before it writes anything.                                       *)
(***************************************************************************)
EXTENDS Naturals

CONSTANTS
    Admins,       \* addresses an administrator can have
    Browsers,     \* each with one session cookie and one request in flight
    MaxAttempts,  \* wrong passwords that lock an account (5 in the code)
    Idle, Nobody

ASSUME BoundsAreNatural == MaxAttempts \in Nat \ {0}

VARIABLES
    admin,    \* admin_users
    session,  \* whose live session each browser holds (admin_sessions)
    call      \* the browsers' requests in flight

vars == <<admin, session, call>>

\* wrong and lost are history: wrong passwords since the account was last
\* opened or locked, and whether one of them was counted on an old value.
Account == [known : BOOLEAN, attempts : 0..(MaxAttempts - 1), locked : BOOLEAN,
            wrong : 0..MaxAttempts, lost : BOOLEAN]

NoAccount == [known |-> FALSE, attempts |-> 0, locked |-> FALSE, wrong |-> 0, lost |-> FALSE]

Operation == {"bootstrap", "login"}

\* as and read: the account a login is for and the attempts it has read.
Call == [op : Operation, as : Admins, read : 0..(MaxAttempts - 1), stale : BOOLEAN]

ASSUME IdleIsElse == Idle \notin Call /\ Nobody \notin Admins

Init ==
    /\ admin = [a \in Admins |-> NoAccount]
    /\ session = [b \in Browsers |-> Nobody]
    /\ call = [b \in Browsers |-> Idle]

-----------------------------------------------------------------------------
(* Mistakes the properties are tested against.                             *)

MayTryAnyway(a) == admin[a].known
AttemptsKept(acc) == [acc EXCEPT !.locked = FALSE, !.wrong = 0, !.lost = FALSE]

-----------------------------------------------------------------------------
(* Signing in.                                                             *)

Ends(b, op) == call[b] # Idle /\ call[b].op = op

\* The other logins to the account that have read the row this one now writes.
Outdated(b, a) ==
    [d \in Browsers |->
        IF d = b THEN Idle
        ELSE IF call[d] # Idle /\ call[d].op = "login" /\ call[d].as = a
             THEN [call[d] EXCEPT !.stale = TRUE]
             ELSE call[d]]

Begins(b, op, a, read) ==
    /\ call[b] = Idle
    /\ call' = [call EXCEPT ![b] = [op |-> op, as |-> a, read |-> read, stale |-> FALSE]]
    /\ UNCHANGED <<admin, session>>

\* The request is cancelled, or its process dies: nothing is committed.
Dropped(b) ==
    /\ call[b] # Idle
    /\ call' = [call EXCEPT ![b] = Idle]
    /\ UNCHANGED <<admin, session>>

\* The count of bootstrap, with the right bootstrap token.
BootstrapCounts(b, a) ==
    /\ \A o \in Admins : ~admin[o].known
    /\ Begins(b, "bootstrap", a, 0)

\* Its insert, which the unique address refuses if it is there by now.
Bootstrap(b) ==
    /\ Ends(b, "bootstrap")
    /\ LET a == call[b].as IN
       IF admin[a].known
       THEN UNCHANGED <<admin, session>>
       ELSE /\ admin' = [admin EXCEPT ![a] = [NoAccount EXCEPT !.known = TRUE]]
            /\ session' = [session EXCEPT ![b] = a]
    /\ call' = [call EXCEPT ![b] = Idle]

MayTry(a) == admin[a].known /\ ~admin[a].locked

\* The select of login; a locked account is refused here.
LoginReads(b, a) == MayTry(a) /\ Begins(b, "login", a, admin[a].attempts)

\* What a wrong password makes of the account, counted from what was read.
WrongPassword(acc, read, stale) ==
    IF read + 1 >= MaxAttempts
    THEN [NoAccount EXCEPT !.known = TRUE, !.locked = TRUE]
    ELSE [acc EXCEPT !.attempts = read + 1,
                     !.wrong = IF @ = MaxAttempts THEN @ ELSE @ + 1,
                     !.lost = @ \/ stale]

RightPassword(acc) == [NoAccount EXCEPT !.known = TRUE]

LoginWrong(b) ==
    /\ Ends(b, "login")
    /\ LET c == call[b] IN
       /\ admin' = [admin EXCEPT ![c.as] = WrongPassword(@, c.read, c.stale)]
       /\ call' = Outdated(b, c.as)
    /\ UNCHANGED session

LoginRight(b) ==
    /\ Ends(b, "login")
    /\ LET a == call[b].as IN
       /\ admin' = [admin EXCEPT ![a] = RightPassword(@)]
       /\ session' = [session EXCEPT ![b] = a]
       /\ call' = Outdated(b, a)

LockExpires(a) ==
    /\ admin[a].locked
    /\ admin' = [admin EXCEPT ![a].locked = FALSE]
    /\ UNCHANGED <<session, call>>

\* The session is past expires_at: resolve_admin_session finds it no more.
SessionEnds(b) ==
    /\ session[b] # Nobody
    /\ session' = [session EXCEPT ![b] = Nobody]
    /\ UNCHANGED <<admin, call>>

Next ==
    \/ \E b \in Browsers :
        \/ \E a \in Admins : BootstrapCounts(b, a) \/ LoginReads(b, a)
        \/ Bootstrap(b) \/ LoginWrong(b) \/ LoginRight(b) \/ SessionEnds(b) \/ Dropped(b)
    \/ \E a \in Admins : LockExpires(a)

Spec == Init /\ [][Next]_vars

-----------------------------------------------------------------------------

TypeOK ==
    /\ admin \in [Admins -> Account]
    /\ session \in [Browsers -> Admins \cup {Nobody}]
    /\ call \in [Browsers -> Call \cup {Idle}]

\* Wrong passwords are counted one by one up to the lock, over logins that
\* overlap and locks that expire, as long as none of them was counted on a value
\* that another login had replaced (login).
CountedUnlessLost ==
    \A a \in Admins : admin[a].lost \/ admin[a].wrong = admin[a].attempts

\* Nobody signs in to a locked account, but with a request that had passed the
\* check before the lock (login).
LockHolds ==
    [][\A b \in Browsers :
        session'[b] \notin {Nobody, session[b]} /\ admin[session'[b]].locked => call[b].stale]_vars
=============================================================================
