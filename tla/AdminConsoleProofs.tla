--------------------------- MODULE AdminConsoleProofs ---------------------------
(***************************************************************************)
(* Proofs about AdminConsole, for any addresses, browsers and limits.      *)
(***************************************************************************)
EXTENDS AdminConsole, TLAPS

\* An account that is not there is blank. A login in flight is for one that is, and
\* unless it is stale has read what the account still holds.
LoginInv ==
    /\ \A a \in Admins : ~admin[a].known => admin[a] = NoAccount
    /\ \A b \in Browsers : Ends(b, "login") =>
          /\ admin[call[b].as].known
          /\ ~call[b].stale => /\ call[b].read = admin[call[b].as].attempts
                               /\ ~admin[call[b].as].locked
    /\ CountedUnlessLost

IInv == TypeOK /\ LoginInv

-----------------------------------------------------------------------------
(* What the helpers leave. *)

\* The requests in flight after one of them has written.
LEMMA OutdatedCalls ==
    ASSUME call \in [Browsers -> Call \cup {Idle}], NEW b \in Browsers,
           NEW a, NEW new, new = Outdated(b, a)
    PROVE  /\ new \in [Browsers -> Call \cup {Idle}]
           /\ new[b] = Idle
           /\ \A d \in Browsers : new[d] # Idle =>
                 /\ d # b /\ call[d] # Idle
                 /\ new[d].op = call[d].op /\ new[d].as = call[d].as
                 /\ new[d].read = call[d].read
                 /\ ~new[d].stale => /\ ~call[d].stale
                                     /\ ~(call[d].op = "login" /\ call[d].as = a)
<1>1. ASSUME NEW c \in Call
      PROVE  /\ [c EXCEPT !.stale = TRUE] \in Call
             /\ [c EXCEPT !.stale = TRUE].op = c.op /\ [c EXCEPT !.stale = TRUE].as = c.as
             /\ [c EXCEPT !.stale = TRUE].read = c.read /\ [c EXCEPT !.stale = TRUE].stale
  BY DEF Call
<1>2. new = [d \in Browsers |->
                IF d = b THEN Idle
                ELSE IF call[d] # Idle /\ call[d].op = "login" /\ call[d].as = a
                     THEN [call[d] EXCEPT !.stale = TRUE]
                     ELSE call[d]]
  BY DEF Outdated
<1>3. ASSUME NEW d \in Browsers
      PROVE  /\ new[d] \in Call \cup {Idle}
             /\ new[d] # Idle =>
                   /\ d # b /\ call[d] # Idle
                   /\ new[d].op = call[d].op /\ new[d].as = call[d].as
                   /\ new[d].read = call[d].read
                   /\ ~new[d].stale => /\ ~call[d].stale
                                       /\ ~(call[d].op = "login" /\ call[d].as = a)
  <2>1. CASE d = b
    BY <1>2, <2>1
  <2>2. CASE d # b /\ call[d] # Idle /\ call[d].op = "login" /\ call[d].as = a
    <3>1. new[d] = [call[d] EXCEPT !.stale = TRUE] /\ call[d] \in Call
      BY <1>2, <2>2
    <3> QED
      BY <1>1, <2>2, <3>1
  <2>3. CASE d # b /\ ~(call[d] # Idle /\ call[d].op = "login" /\ call[d].as = a)
    <3>1. new[d] = call[d]
      BY <1>2, <2>3
    <3> QED
      BY <2>3, <3>1
  <2> QED
    BY <2>1, <2>2, <2>3
<1> QED
  BY <1>2, <1>3

\* A wrong password is one more, counted from what was read.
LEMMA WrongAccount ==
    ASSUME NEW acc \in Account, NEW read \in 0..(MaxAttempts - 1), NEW stale \in BOOLEAN,
           acc.known, ~stale => read = acc.attempts, acc.lost \/ acc.wrong = acc.attempts
    PROVE  LET new == WrongPassword(acc, read, stale) IN
           new \in Account /\ new.known /\ (new.lost \/ new.wrong = new.attempts)
<1> DEFINE new == WrongPassword(acc, read, stale)
<1>1. /\ MaxAttempts \in Nat /\ MaxAttempts > 0 /\ read \in Nat
      /\ acc.attempts \in Nat /\ acc.attempts < MaxAttempts
      /\ acc.wrong \in Nat /\ acc.wrong <= MaxAttempts
  <2>1. acc.attempts \in 0..(MaxAttempts - 1) /\ acc.wrong \in 0..MaxAttempts
    BY DEF Account
  <2> QED
    BY <2>1, BoundsAreNatural DEF BoundsAreNatural
<1>2. CASE read + 1 >= MaxAttempts
  <2>1. new = [known |-> TRUE, attempts |-> 0, locked |-> TRUE, wrong |-> 0, lost |-> FALSE]
    BY <1>2 DEF WrongPassword, NoAccount
  <2> QED
    BY <1>1, <2>1 DEF Account
<1>3. CASE ~(read + 1 >= MaxAttempts)
  <2>1. PICK n \in 0..(MaxAttempts - 1) : n = read + 1
    BY <1>1, <1>3
  <2>2. PICK w \in 0..MaxAttempts :
           w = IF acc.wrong = MaxAttempts THEN acc.wrong ELSE acc.wrong + 1
    BY <1>1
  <2>3. PICK l \in BOOLEAN : l = (acc.lost \/ stale)
    BY DEF Account
  <2>4. new = [acc EXCEPT !.attempts = n, !.wrong = w, !.lost = l]
    BY <1>3, <2>1, <2>2, <2>3 DEF WrongPassword
  <2>5. new \in Account /\ new.known /\ new.attempts = n /\ new.wrong = w /\ new.lost = l
    BY <2>4 DEF Account
  <2>6. l \/ w = n
    <3>1. CASE l
      BY <3>1
    <3>2. CASE ~l
      <4>1. ~acc.lost /\ ~stale
        BY <2>3, <3>2, Zenon
      <4>2. read = acc.attempts /\ acc.wrong = acc.attempts
        BY <4>1
      <4> QED
        BY <1>1, <2>1, <2>2, <4>2
    <3> QED
      BY <3>1, <3>2
  <2> QED
    BY <2>5, <2>6
<1> QED
  BY <1>2, <1>3

\* A right password, or a bootstrap, leaves a fresh account.
LEMMA RightAccount ==
    ASSUME NEW acc
    PROVE  /\ RightPassword(acc) \in Account /\ RightPassword(acc).known
           /\ RightPassword(acc).wrong = RightPassword(acc).attempts
           /\ RightPassword(acc) = [NoAccount EXCEPT !.known = TRUE]
<1>1. RightPassword(acc) = [NoAccount EXCEPT !.known = TRUE]
  BY DEF RightPassword
<1>2. NoAccount \in Account /\ NoAccount.wrong = NoAccount.attempts
  BY BoundsAreNatural DEF BoundsAreNatural, NoAccount, Account
<1>3. ASSUME NEW y \in Account
      PROVE  /\ [y EXCEPT !.known = TRUE] \in Account /\ [y EXCEPT !.known = TRUE].known
             /\ [y EXCEPT !.known = TRUE].wrong = y.wrong
             /\ [y EXCEPT !.known = TRUE].attempts = y.attempts
  BY DEF Account
<1> QED
  BY <1>1, <1>2, <1>3

-----------------------------------------------------------------------------
(* Signing in. *)

\* The invariant holds at the start.
LEMMA InitInv == Init => IInv
<1> SUFFICES ASSUME Init PROVE IInv
  OBVIOUS
<1>1. NoAccount \in Account /\ NoAccount.wrong = NoAccount.attempts /\ ~NoAccount.known
  BY BoundsAreNatural DEF BoundsAreNatural, NoAccount, Account
<1>3. TypeOK
  BY <1>1 DEF Init, TypeOK
<1>4. LoginInv
  BY <1>1 DEF Init, LoginInv, Ends, CountedUnlessLost
<1> QED
  BY <1>3, <1>4 DEF IInv

\* A request begins with what it reads.
LEMMA BeginsStep ==
    ASSUME IInv, NEW b \in Browsers, NEW op \in Operation, NEW a \in Admins,
           NEW read \in 0..(MaxAttempts - 1), Begins(b, op, a, read),
           op = "login" => MayTry(a) /\ read = admin[a].attempts
    PROVE  IInv'
<1> USE IdleIsElse DEF IdleIsElse, IInv, TypeOK
<1>1. PICK c \in Call : c = [op |-> op, as |-> a, read |-> read, stale |-> FALSE]
  BY DEF Call
<1>2. /\ call' = [call EXCEPT ![b] = c] /\ UNCHANGED <<admin, session>>
      /\ c.op = op /\ c.as = a /\ c.read = read /\ ~c.stale
  BY <1>1 DEF Begins
<1>3. TypeOK'
  BY <1>2
<1>4. \A d \in Browsers : IF d = b THEN call'[d] = c ELSE call'[d] = call[d]
  BY <1>2
<1>5. LoginInv'
  <2>1. ASSUME NEW d \in Browsers, Ends(d, "login")'
        PROVE  /\ admin[call'[d].as].known
               /\ ~call'[d].stale => /\ call'[d].read = admin[call'[d].as].attempts
                                     /\ ~admin[call'[d].as].locked
    <3>1. CASE d = b
      BY <1>2, <1>4, <2>1, <3>1 DEF Ends, MayTry
    <3>2. CASE d # b
      BY <1>4, <2>1, <3>2 DEF Ends, LoginInv
    <3> QED
      BY <3>1, <3>2
  <2> QED
    BY <1>2, <2>1 DEF LoginInv, CountedUnlessLost
<1> QED
  BY <1>3, <1>5

\* Requests in flight are as they were, some of them stale now, some gone.
CallsWeaken ==
    /\ call' \in [Browsers -> Call \cup {Idle}]
    /\ \A d \in Browsers : call'[d] # Idle =>
          /\ call[d] # Idle /\ call'[d].op = call[d].op /\ call'[d].as = call[d].as
          /\ call'[d].read = call[d].read
          /\ ~call'[d].stale => ~call[d].stale

\* A request that is over is gone.
LEMMA CallEnds ==
    ASSUME IInv, NEW b \in Browsers, call' = [call EXCEPT ![b] = Idle]
    PROVE  CallsWeaken /\ call'[b] = Idle
BY DEF IInv, TypeOK, CallsWeaken

\* One account is written, and no login in flight has read it and counts on it.
LEMMA AccountStep ==
    ASSUME IInv, NEW a \in Admins, NEW x \in Account,
           x.known, x.lost \/ x.wrong = x.attempts,
           admin' = [admin EXCEPT ![a] = x],
           session' \in [Browsers -> Admins \cup {Nobody}],
           CallsWeaken,
           \A d \in Browsers : call'[d] # Idle /\ call'[d].op = "login" /\ call'[d].as = a =>
              call'[d].stale
    PROVE  IInv'
<1> USE DEF IInv, TypeOK, CallsWeaken
<1>1. admin'[a] = x /\ \A o \in Admins : o # a => admin'[o] = admin[o]
  OBVIOUS
<1>2. TypeOK'
  OBVIOUS
<1>3. ASSUME NEW d \in Browsers, Ends(d, "login")'
      PROVE  /\ admin'[call'[d].as].known
             /\ ~call'[d].stale => /\ call'[d].read = admin'[call'[d].as].attempts
                                   /\ ~admin'[call'[d].as].locked
  <2>1. /\ call'[d] # Idle /\ call'[d].op = "login" /\ Ends(d, "login")
        /\ call'[d].as = call[d].as /\ call'[d].read = call[d].read
        /\ ~call'[d].stale => ~call[d].stale
    BY <1>3 DEF Ends
  <2>2. call[d].as \in Admins
    BY <2>1 DEF Call
  <2>3. CASE call[d].as = a
    BY <1>1, <2>1, <2>3
  <2>4. CASE call[d].as # a
    BY <1>1, <2>1, <2>2, <2>4 DEF LoginInv
  <2> QED
    BY <2>3, <2>4
<1>4. LoginInv'
  <2>1. \A o \in Admins : ~admin'[o].known => admin'[o] = NoAccount
    BY <1>1 DEF LoginInv
  <2>2. CountedUnlessLost'
    BY <1>1 DEF LoginInv, CountedUnlessLost
  <2> QED
    BY <1>3, <2>1, <2>2 DEF LoginInv
<1> QED
  BY <1>2, <1>4

\* The accounts stay as they are.
LEMMA QuietStep ==
    ASSUME IInv, UNCHANGED admin, CallsWeaken,
           session' \in [Browsers -> Admins \cup {Nobody}]
    PROVE  IInv'
<1> USE DEF IInv, TypeOK, CallsWeaken
<1>1. TypeOK'
  OBVIOUS
<1>2. LoginInv'
  BY DEF LoginInv, Ends, CountedUnlessLost
<1> QED
  BY <1>1, <1>2

\* The bootstrap makes an account that is not there, which no login can be for.
LEMMA BootstrapStep ==
    ASSUME IInv, NEW b \in Browsers, Bootstrap(b)
    PROVE  /\ IInv'
           /\ \A d \in Browsers : session'[d] # session[d] => ~admin[session'[d]].locked
<1> USE DEF IInv, TypeOK
<1>1. PICK a \in Admins : a = call[b].as
  BY DEF Bootstrap, Ends, Call
<1>2. CallsWeaken
  BY CallEnds DEF Bootstrap
<1>3. CASE admin[a].known
  <2>1. UNCHANGED <<admin, session>>
    BY <1>1, <1>3 DEF Bootstrap
  <2> QED
    BY <1>2, <2>1, QuietStep
<1>4. CASE ~admin[a].known
  <2>1. /\ admin' = [admin EXCEPT ![a] = RightPassword(admin[a])]
        /\ session' = [session EXCEPT ![b] = a]
    BY <1>1, <1>4 DEF Bootstrap, RightPassword
  <2>2. PICK x \in Account : /\ x = RightPassword(admin[a]) /\ x.known
                             /\ x.wrong = x.attempts
    BY RightAccount
  <2>3. \A d \in Browsers : call'[d] # Idle /\ call'[d].op = "login" => call'[d].as # a
    BY <1>2, <1>4 DEF CallsWeaken, LoginInv, Ends
  <2>4. IInv'
    BY <1>2, <2>1, <2>2, <2>3, AccountStep
  <2>5. ~admin[a].locked
    BY <1>4 DEF LoginInv, NoAccount
  <2> QED
    BY <2>1, <2>4, <2>5
<1> QED
  BY <1>3, <1>4

\* A wrong password counts once more, and logins in flight count on an old value.
LEMMA LoginWrongStep ==
    ASSUME IInv, NEW b \in Browsers, LoginWrong(b)
    PROVE  IInv'
<1> USE DEF IInv, TypeOK
<1>1. call[b] \in Call /\ call[b].op = "login" /\ call[b] # Idle
  BY DEF LoginWrong, Ends
<1>2. PICK a \in Admins, read \in 0..(MaxAttempts - 1), stale \in BOOLEAN :
         a = call[b].as /\ read = call[b].read /\ stale = call[b].stale
  BY <1>1 DEF Call
<1>3. /\ admin' = [admin EXCEPT ![a] = WrongPassword(admin[a], read, stale)]
      /\ call' = Outdated(b, a)
      /\ UNCHANGED session
  BY <1>2 DEF LoginWrong
<1>4. /\ admin[a] \in Account /\ admin[a].known
      /\ ~stale => read = admin[a].attempts
      /\ admin[a].lost \/ admin[a].wrong = admin[a].attempts
  BY <1>1, <1>2 DEF LoginInv, CountedUnlessLost, Ends
<1>5. PICK x \in Account : /\ x = WrongPassword(admin[a], read, stale) /\ x.known
                           /\ x.lost \/ x.wrong = x.attempts
  BY <1>4, WrongAccount
<1>6. /\ CallsWeaken
      /\ \A d \in Browsers : call'[d] # Idle /\ call'[d].op = "login" /\ call'[d].as = a =>
            call'[d].stale
  BY <1>3, OutdatedCalls DEF CallsWeaken
<1> QED
  BY <1>3, <1>5, <1>6, AccountStep

\* A right password opens the account, which is not locked unless the login is stale.
LEMMA LoginRightStep ==
    ASSUME IInv, NEW b \in Browsers, LoginRight(b)
    PROVE  /\ IInv'
           /\ \A d \in Browsers :
                 session'[d] # session[d] /\ admin[session'[d]].locked => call[d].stale
<1> USE DEF IInv, TypeOK
<1>1. call[b] \in Call /\ call[b].op = "login" /\ call[b] # Idle
  BY DEF LoginRight, Ends
<1>2. PICK a \in Admins : a = call[b].as
  BY <1>1 DEF Call
<1>3. /\ admin' = [admin EXCEPT ![a] = RightPassword(admin[a])]
      /\ session' = [session EXCEPT ![b] = a]
      /\ call' = Outdated(b, a)
  BY <1>2 DEF LoginRight
<1>4. PICK x \in Account : x = RightPassword(admin[a]) /\ x.known /\ x.wrong = x.attempts
  BY RightAccount
<1>5. /\ CallsWeaken
      /\ \A d \in Browsers : call'[d] # Idle /\ call'[d].op = "login" /\ call'[d].as = a =>
            call'[d].stale
  BY <1>3, OutdatedCalls DEF CallsWeaken
<1>6. IInv'
  BY <1>3, <1>4, <1>5, AccountStep
<1>7. ~call[b].stale => ~admin[a].locked
  BY <1>1, <1>2 DEF LoginInv, Ends
<1> QED
  BY <1>3, <1>6, <1>7

\* A lock that expires takes nothing from the counter.
LEMMA LockExpiresStep ==
    ASSUME IInv, NEW a \in Admins, LockExpires(a)
    PROVE  IInv'
<1> USE DEF IInv, TypeOK
<1>1. PICK x \in Account : /\ admin' = [admin EXCEPT ![a] = x]
                           /\ x.known = admin[a].known /\ ~x.locked
                           /\ x.attempts = admin[a].attempts /\ x.wrong = admin[a].wrong
                           /\ x.lost = admin[a].lost
  <2>1. admin' = [admin EXCEPT ![a] = [admin[a] EXCEPT !.locked = FALSE]]
    BY DEF LockExpires
  <2>2. ASSUME NEW y \in Account
        PROVE  LET z == [y EXCEPT !.locked = FALSE] IN
               /\ z \in Account /\ z.known = y.known /\ ~z.locked
               /\ z.attempts = y.attempts /\ z.wrong = y.wrong /\ z.lost = y.lost
    BY DEF Account
  <2> QED
    BY <2>1, <2>2, Zenon
<1>2. admin[a].locked /\ UNCHANGED <<session, call>>
  BY DEF LockExpires
<1>3. admin[a].known
  BY <1>2 DEF LoginInv, NoAccount
<1>4. admin'[a] = x /\ \A o \in Admins : o # a => admin'[o] = admin[o]
  BY <1>1
<1>5. TypeOK'
  BY <1>1, <1>2
<1>6. LoginInv'
  <2>1. ASSUME NEW d \in Browsers, Ends(d, "login")
        PROVE  /\ admin'[call[d].as].known
               /\ ~call[d].stale => /\ call[d].read = admin'[call[d].as].attempts
                                    /\ ~admin'[call[d].as].locked
    <3>1. call[d].as \in Admins
      BY <2>1 DEF Ends, Call
    <3> QED
      BY <1>1, <1>3, <1>4, <2>1, <3>1 DEF LoginInv
  <2>2. /\ \A o \in Admins : ~admin'[o].known => admin'[o] = NoAccount
        /\ CountedUnlessLost'
    BY <1>1, <1>3, <1>4 DEF LoginInv, CountedUnlessLost
  <2> QED
    BY <1>2, <2>1, <2>2 DEF LoginInv, Ends
<1> QED
  BY <1>5, <1>6

-----------------------------------------------------------------------------

\* Who has just signed in to a locked account had passed the check before the lock.
SignInsHold ==
    \A b \in Browsers :
        session'[b] \notin {Nobody, session[b]} /\ admin[session'[b]].locked => call[b].stale

\* Every step keeps the invariant, and the lock holds over it.
LEMMA NextInv == IInv /\ [Next]_vars => IInv' /\ [SignInsHold]_vars
<1> SUFFICES ASSUME IInv, [Next]_vars PROVE IInv' /\ [SignInsHold]_vars
  OBVIOUS
<1> USE DEF SignInsHold
<1>1. ASSUME NEW b \in Browsers, NEW a \in Admins, BootstrapCounts(b, a) \/ LoginReads(b, a)
      PROVE  IInv' /\ session' = session
  <2>1. session' = session
    BY <1>1 DEF BootstrapCounts, LoginReads, Begins
  <2>2. 0 \in 0..(MaxAttempts - 1)
    BY BoundsAreNatural DEF BoundsAreNatural
  <2>3. CASE BootstrapCounts(b, a)
    BY <2>1, <2>2, <2>3, BeginsStep DEF BootstrapCounts, Operation
  <2>4. CASE LoginReads(b, a)
    <3>1. admin[a].attempts \in 0..(MaxAttempts - 1)
      BY DEF IInv, TypeOK, Account
    <3> QED
      BY <2>1, <2>4, <3>1, BeginsStep DEF LoginReads, Operation
  <2> QED
    BY <1>1, <2>3, <2>4
<1>2. ASSUME NEW b \in Browsers, Bootstrap(b)
      PROVE  IInv' /\ SignInsHold
  <2>1. IInv' /\ \A d \in Browsers : session'[d] # session[d] => ~admin[session'[d]].locked
    BY <1>2, BootstrapStep
  <2> QED
    BY <2>1
<1>3. ASSUME NEW b \in Browsers, LoginRight(b)
      PROVE  IInv' /\ SignInsHold
  <2>1. /\ IInv'
        /\ \A d \in Browsers :
              session'[d] # session[d] /\ admin[session'[d]].locked => call[d].stale
    BY <1>3, LoginRightStep
  <2> QED
    BY <2>1
<1>4. ASSUME NEW b \in Browsers, LoginWrong(b)
      PROVE  IInv' /\ session' = session
  BY <1>4, LoginWrongStep DEF LoginWrong
<1>5. ASSUME NEW b \in Browsers, SessionEnds(b)
      PROVE  IInv' /\ SignInsHold
  <2>1. /\ session' = [session EXCEPT ![b] = Nobody]
        /\ UNCHANGED <<admin, call>>
    BY <1>5 DEF SessionEnds
  <2>2. IInv'
    BY <2>1, QuietStep DEF IInv, TypeOK, CallsWeaken
  <2> QED
    BY <2>1, <2>2 DEF IInv, TypeOK
<1>6. ASSUME NEW b \in Browsers, Dropped(b)
      PROVE  IInv' /\ session' = session
  <2>1. CallsWeaken /\ UNCHANGED <<admin, session>>
    BY <1>6, CallEnds DEF Dropped
  <2> QED
    BY <2>1, QuietStep DEF IInv, TypeOK
<1>7. ASSUME NEW a \in Admins, LockExpires(a)
       PROVE  IInv' /\ session' = session
  BY <1>7, LockExpiresStep DEF LockExpires
<1>8. CASE UNCHANGED vars
  <2>1. UNCHANGED <<admin, session, call>>
    BY <1>8 DEF vars
  <2> QED
    BY <1>8, <2>1, QuietStep DEF IInv, TypeOK, CallsWeaken
<1>9. session' = session => SignInsHold
  OBVIOUS
<1> QED
  BY <1>1, <1>7, <1>2, <1>3, <1>4, <1>5, <1>6, <1>8, <1>9 DEF Next

\* The invariant is one of every behaviour.
LEMMA Inductive == Spec => []IInv
BY InitInv, NextInv, PTL DEF Spec

\* Every variable keeps its type (every action of signing in).
THEOREM TypeCorrect == Spec => []TypeOK
<1>1. IInv => TypeOK
  BY DEF IInv
<1> QED
  BY <1>1, Inductive, PTL

\* For any number of overlapping logins, wrong passwords are counted one by one up
\* to the lock, unless one was counted on an old value (login).
THEOREM PasswordsCounted == Spec => []CountedUnlessLost
<1>1. IInv => CountedUnlessLost
  BY DEF IInv, LoginInv
<1> QED
  BY <1>1, Inductive, PTL

\* For any number of browsers, nobody signs in to a locked account but with a
\* request that had passed the check before the lock (login).
THEOREM LockedOut == Spec => LockHolds
<1>1. IInv /\ [Next]_vars => [SignInsHold]_vars
  BY NextInv
<1>2. Spec => [][SignInsHold]_vars
  BY <1>1, Inductive, PTL DEF Spec
<1> QED
  BY <1>2 DEF LockHolds, SignInsHold
=============================================================================
