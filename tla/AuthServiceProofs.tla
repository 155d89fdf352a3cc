------------------------- MODULE AuthServiceProofs -------------------------
(* Theorems about AuthService, for every value of its constants. *)
EXTENDS AuthService, FiniteSetTheorems, TLAPS

-----------------------------------------------------------------------------
(* Type correctness *)

LEMMA TypeInit == Init => TypeOK
BY DEF Init, TypeOK

\* A process that has begun a login and goes on with it.
LEMMA GotoType ==
    ASSUME TypeOK, NEW p \in Procs, login[p] # None, NEW pc \in Pending \cup Returned,
           Goto(p, pc)
    PROVE  /\ login[p] \in Attempt /\ login[p].name \in Names
           /\ login'[p] \in Attempt
           /\ login'[p].pc = pc /\ login'[p].name = login[p].name
           /\ login'[p].right <=> login[p].right
           /\ login' \in [Procs -> Attempt \cup {None}]
           /\ \A q \in Procs : q # p => login'[q] = login[q]
<1> DEFINE new == [login[p] EXCEPT !.pc = pc, !.resent = 0]
<1>1. login[p] \in Attempt /\ login[p].name \in Names
  BY DEF TypeOK, Attempt
<1>2. new \in Attempt /\ new.pc = pc /\ new.name = login[p].name
  <2>1. 0 \in 0..MaxRetries
    BY LimitAssumption
  <2> QED
    BY <1>1, <2>1 DEF Attempt
<1>3. new.right <=> login[p].right
  OBVIOUS
<1>4. login' = [login EXCEPT ![p] = new]
  BY DEF Goto
<1>5. login'[p] = new /\ \A q \in Procs : q # p => login'[q] = login[q]
  BY <1>4 DEF TypeOK
<1>6. login' \in [Procs -> Attempt \cup {None}]
  BY <1>2, <1>4 DEF TypeOK
<1> QED
  BY <1>1, <1>2, <1>3, <1>5, <1>6

\* A process whose command is sent again is where it was.
LEMMA ResendType ==
    ASSUME TypeOK, NEW p \in Procs, login[p] # None, login[p].resent < MaxRetries,
           Resend(p)
    PROVE  /\ login'[p] \in Attempt
           /\ login'[p].pc = login[p].pc /\ login'[p].name = login[p].name
           /\ login' \in [Procs -> Attempt \cup {None}]
           /\ \A q \in Procs : q # p => login'[q] = login[q]
<1> DEFINE new == [login[p] EXCEPT !.resent = login[p].resent + 1]
<1>1. login[p] \in Attempt
  BY DEF TypeOK
<1>2. login[p].resent + 1 \in 0..MaxRetries
  BY <1>1, LimitAssumption DEF Attempt
<1>3. new \in Attempt /\ new.pc = login[p].pc /\ new.name = login[p].name
  BY <1>1, <1>2 DEF Attempt
<1>4. login' = [login EXCEPT ![p] = new]
  BY DEF Resend
<1>5. login'[p] = new /\ \A q \in Procs : q # p => login'[q] = login[q]
  BY <1>4 DEF TypeOK
<1>6. login' \in [Procs -> Attempt \cup {None}]
  BY <1>3, <1>4 DEF TypeOK
<1> QED
  BY <1>3, <1>5, <1>6

LEMMA BeginType ==
    ASSUME TypeOK, NEW p \in Procs, NEW name \in Names, NEW right \in BOOLEAN,
           NEW pc \in Pending \cup Returned, Begin(p, name, right, pc)
    PROVE  /\ login' \in [Procs -> Attempt \cup {None}]
           /\ \A q \in Procs : q # p => login'[q] = login[q]
           /\ login'[p].pc = pc /\ login'[p].name = name /\ login'[p] # None
<1>1. [pc |-> pc, name |-> name, right |-> right, resent |-> 0] \in Attempt
  BY LimitAssumption DEF Attempt
<1> QED
  BY <1>1, NoneAssumption DEF Begin, TypeOK

\* What INCR leaves of a counter.
LEMMA IncrType ==
    ASSUME TypeOK, NEW name \in Names, GetLoginFailCount(name) < CountBound, Incr(name)
    PROVE  /\ GetLoginFailCount(name) \in Nat
           /\ counter' \in [Names -> Counter \cup {None}]
           /\ counter'[name] # None
           /\ counter'[name].n = GetLoginFailCount(name) + 1
           /\ counter'[name].ttl = IF counter[name] = None THEN 0 ELSE counter[name].ttl
           /\ \A other \in Names : other # name => counter'[other] = counter[other]
<1> DEFINE new == [n |-> GetLoginFailCount(name) + 1,
                   ttl |-> IF counter[name] = None THEN 0 ELSE counter[name].ttl]
<1>1. GetLoginFailCount(name) \in Nat
  BY DEF GetLoginFailCount, TypeOK, Counter
<1>2. new \in Counter
  BY <1>1, LimitAssumption DEF Counter, TypeOK
<1>3. counter' = [counter EXCEPT ![name] = new]
  BY DEF Incr
<1> QED
  BY <1>1, <1>2, <1>3, NoneAssumption DEF TypeOK

\* What a failure that is recorded does, whether or not the login learns of it.
LEMMA RecordEffect ==
    ASSUME TypeOK, NEW p \in Procs, RecordLoginFail(p) \/ RecordUnseen(p)
    PROVE  /\ At(p, "incr") /\ login[p] # None /\ login[p].name \in Names
           /\ GetLoginFailCount(login[p].name) < CountBound /\ Incr(login[p].name)
           /\ UNCHANGED session
           /\ login'[p] \in Attempt /\ login'[p].name = login[p].name
           /\ login' \in [Procs -> Attempt \cup {None}]
           /\ \A q \in Procs : q # p => login'[q] = login[q]
<1>1. /\ At(p, "incr") /\ login[p] # None /\ login[p].name \in Names
      /\ GetLoginFailCount(login[p].name) < CountBound /\ Incr(login[p].name)
      /\ UNCHANGED session
  BY DEF RecordLoginFail, RecordUnseen, At, TypeOK, Attempt
<1>2. \/ Goto(p, "expire") \/ Goto(p, "invalid")
      \/ Resend(p) /\ login[p].resent < MaxRetries
  BY DEF RecordLoginFail, RecordUnseen
<1> QED
  BY <1>1, <1>2, GotoType, ResendType DEF Pending, Returned

\* What becomes of a counter whose failure went unseen: if the command is sent again,
\* the login is where it was; if not, it is done.
LEMMA UnseenEffect ==
    ASSUME TypeOK, NEW p \in Procs, RecordUnseen(p)
    PROVE  /\ spoilt' \in [Names -> SUBSET Damages]
           /\ \A name \in Names : spoilt[name] \subseteq spoilt'[name]
           /\ \A name \in Names : name # login[p].name => spoilt'[name] = spoilt[name]
           /\ counter[login[p].name] = None => "ttl" \in spoilt'[login[p].name]
           /\ \/ login'[p].pc = "incr" /\ "limit" \in spoilt'[login[p].name]
              \/ login'[p].pc = "invalid"
<1> DEFINE n == login[p].name
<1>1. At(p, "incr") /\ login[p] # None /\ n \in Names
  BY RecordEffect
<1>2. PICK damages \in SUBSET Damages :
         /\ Spoil(n, damages)
         /\ Untimed(n) \subseteq damages
         /\ \/ Resend(p) /\ login[p].resent < MaxRetries /\ "limit" \in damages
            \/ Goto(p, "invalid")
  BY DEF RecordUnseen, Untimed, Damages
<1>3. /\ spoilt' \in [Names -> SUBSET Damages]
      /\ spoilt'[n] = spoilt[n] \cup damages
      /\ \A name \in Names : name # n => spoilt'[name] = spoilt[name]
  BY <1>1, <1>2 DEF Spoil, TypeOK
<1>4. /\ \A name \in Names : spoilt[name] \subseteq spoilt'[name]
      /\ counter[n] = None => "ttl" \in spoilt'[n]
  BY <1>2, <1>3 DEF Untimed
<1>5. \/ login'[p].pc = "incr" /\ "limit" \in spoilt'[n]
      \/ login'[p].pc = "invalid"
  BY <1>1, <1>2, <1>3, GotoType, ResendType DEF At, Returned
<1> QED
  BY <1>3, <1>4, <1>5

\* What time leaves of a counter.
LEMMA ElapsedType ==
    ASSUME NEW c \in Counter, c.ttl > 0
    PROVE  \/ Elapsed(c) = None
           \/ Elapsed(c) \in Counter /\ Elapsed(c).n = c.n /\ Elapsed(c).ttl > 0
<1>1. c.ttl # 1 => c.ttl - 1 \in 0..LoginFailTTL /\ c.ttl - 1 > 0
  BY LimitAssumption DEF Counter
<1>2. c.ttl # 1 => [c EXCEPT !.ttl = c.ttl - 1] \in Counter
  BY <1>1 DEF Counter
<1> QED
  BY <1>1, <1>2 DEF Elapsed, Counter

\* The steps of a login in progress.
LEMMA TypeLoginStep ==
    ASSUME TypeOK, NEW p \in Procs, LoginStep(p)
    PROVE  TypeOK'
<1>1. CASE PasswordRight(p) \/ PasswordWrong(p) \/ RecordFails(p)
  BY <1>1, GotoType DEF PasswordRight, PasswordWrong, RecordFails, At, Pending, Returned, TypeOK
<1>2. ASSUME RecordLoginFail(p) \/ RecordUnseen(p)
      PROVE  /\ counter' \in [Names -> Counter \cup {None}]
             /\ counter'[login[p].name] # None
             /\ \A other \in Names : other # login[p].name => counter'[other] = counter[other]
             /\ login' \in [Procs -> Attempt \cup {None}] /\ UNCHANGED session
  BY <1>2, RecordEffect, IncrType
<1>3. CASE RecordLoginFail(p) \/ RecordUnseen(p)
  <2>1. /\ spoilt' \in [Names -> SUBSET Damages]
        /\ \A other \in Names : other # login[p].name => spoilt'[other] = spoilt[other]
    BY <1>3, UnseenEffect DEF RecordLoginFail, TypeOK
  <2>2. \A name \in Names : counter'[name] = None => spoilt'[name] = {}
    BY <1>2, <1>3, <2>1 DEF TypeOK
  <2> QED
    BY <1>2, <1>3, <2>1, <2>2 DEF TypeOK
<1>4. CASE ExpireCounter(p)
  <2> DEFINE n == login[p].name
  <2>1. n \in Names
    BY <1>4 DEF ExpireCounter, At, TypeOK, Attempt
  <2>2. login' \in [Procs -> Attempt \cup {None}] /\ UNCHANGED session
    BY <1>4, GotoType DEF ExpireCounter, At, Returned
  <2>3. CASE counter[n] = None /\ UNCHANGED <<counter, spoilt>>
    BY <2>2, <2>3 DEF TypeOK
  <2>4. CASE /\ counter[n] # None
             /\ counter' = [counter EXCEPT ![n].ttl = LoginFailTTL]
             /\ UNCHANGED spoilt
    <3>1. [counter[n] EXCEPT !.ttl = LoginFailTTL] \in Counter
      BY <2>1, <2>4, LimitAssumption DEF TypeOK, Counter
    <3>2. /\ counter' \in [Names -> Counter \cup {None}]
          /\ counter'[n] # None
          /\ \A other \in Names : other # n => counter'[other] = counter[other]
      BY <2>1, <2>4, <3>1, NoneAssumption DEF TypeOK
    <3> QED
      BY <2>2, <2>4, <3>2 DEF TypeOK
  <2>5. CASE counter[n] # None /\ Spoil(n, {"ttl"}) /\ UNCHANGED counter
    <3>1. /\ spoilt' \in [Names -> SUBSET Damages]
          /\ \A other \in Names : other # n => spoilt'[other] = spoilt[other]
      BY <2>1, <2>5 DEF Spoil, TypeOK, Damages
    <3> QED
      BY <2>2, <2>5, <3>1 DEF TypeOK
  <2> QED
    BY <1>4, <2>3, <2>4, <2>5 DEF ExpireCounter
<1>5. CASE CreateSession(p) \/ SessionFails(p)
  BY <1>5, GotoType DEF CreateSession, SessionFails, At, Pending, Returned, TypeOK
<1>6. CASE ResetLoginFail(p)
  <2>1. login' \in [Procs -> Attempt \cup {None}] /\ UNCHANGED session
    BY <1>6, GotoType DEF ResetLoginFail, At, Returned
  <2>2. /\ counter' \in [Names -> Counter \cup {None}]
        /\ spoilt' \in [Names -> SUBSET Damages]
        /\ \A name \in Names : counter'[name] = None => spoilt'[name] = {}
    BY <1>6 DEF ResetLoginFail, At, TypeOK, Attempt
  <2> QED
    BY <2>1, <2>2 DEF TypeOK
<1> QED
  BY <1>1, <1>3, <1>4, <1>5, <1>6 DEF LoginStep

LEMMA TypeStep == TypeOK /\ [Next]_vars => TypeOK'
<1> SUFFICES ASSUME TypeOK, [Next]_vars PROVE TypeOK'
  OBVIOUS
<1>1. ASSUME NEW p \in Procs, NEW name \in Names, NEW right \in BOOLEAN,
             Refuse(p, name, right) \/ Admit(p, name, right)
      PROVE  TypeOK'
  <2>1. \E pc \in Pending \cup Returned : Begin(p, name, right, pc)
    BY <1>1 DEF Refuse, Admit, Pending, Returned
  <2>2. CASE UNCHANGED spoilt
    BY <2>1, <2>2, BeginType DEF Begin, TypeOK
  <2>3. CASE GetLoginFailCount(name) >= MaxLoginFailures /\ Spoil(name, {"limit"})
    <3>1. counter[name] # None
      BY <2>3, LimitAssumption DEF GetLoginFailCount
    <3>2. /\ spoilt' \in [Names -> SUBSET Damages]
          /\ \A other \in Names : other # name => spoilt'[other] = spoilt[other]
      BY <2>3 DEF Spoil, TypeOK, Damages
    <3> QED
      BY <2>1, <3>1, <3>2, BeginType DEF Begin, TypeOK
  <2> QED
    BY <1>1, <2>2, <2>3 DEF Refuse, Admit
<1>2. ASSUME NEW p \in Procs, Return(p) PROVE TypeOK'
  BY <1>2 DEF Return, TypeOK
<1>3. ASSUME NEW token \in Tokens, SessionEnds(token) PROVE TypeOK'
  BY <1>3 DEF SessionEnds, TypeOK
<1>4. CASE CountersAge
  <2>1. counter' \in [Names -> Counter \cup {None}]
    BY <1>4, ElapsedType DEF CountersAge, Expires, TypeOK
  <2>2. /\ spoilt' \in [Names -> SUBSET Damages]
        /\ \A name \in Names : counter'[name] = None => spoilt'[name] = {}
    BY <1>4 DEF CountersAge, TypeOK
  <2> QED
    BY <1>4, <2>1, <2>2 DEF CountersAge, TypeOK
<1>5. CASE Crash
  <2>1. /\ spoilt' \in [Names -> SUBSET Damages]
        /\ \A name \in Names : counter[name] = None => spoilt'[name] = {}
    BY <1>5 DEF Crash, TypeOK, Damages
  <2> QED
    BY <1>5, <2>1 DEF Crash, TypeOK
<1>6. CASE UNCHANGED vars
  BY <1>6 DEF vars, TypeOK
<1> QED
  BY <1>1, <1>2, <1>3, <1>4, <1>5, <1>6, TypeLoginStep DEF Next

\* Type correctness, failures of every kind included.
THEOREM TypeCorrect == Spec => []TypeOK
<1> QED
  BY TypeInit, TypeStep, PTL DEF Spec

-----------------------------------------------------------------------------
(* Every counter expires *)

\* What a step must leave in place for the name.
Awaited(name) ==
    counter[name] # None /\ counter[name].ttl = 0
    => \/ "ttl" \in spoilt[name]
       \/ \E p \in Procs : At(p, "expire") /\ login[p].name = name

\* A name whose counter is as before, or gone, or has a TTL is no worse off if the
\* processes about to set a TTL stay where they are.
LEMMA WillExpireStays ==
    ASSUME CounterWillExpire, NEW name \in Names,
           \/ counter'[name] = counter[name] /\ spoilt[name] \subseteq spoilt'[name]
           \/ counter'[name] = None
           \/ counter'[name].ttl # 0,
           \A q \in Procs : At(q, "expire") /\ login[q].name = name => login'[q] = login[q]
    PROVE  Awaited(name)'
BY DEF CounterWillExpire, Awaited, At

LEMMA WillExpireStep == TypeOK /\ CounterWillExpire /\ [Next]_vars => CounterWillExpire'
<1> SUFFICES ASSUME TypeOK, CounterWillExpire, [Next]_vars, NEW name \in Names
             PROVE  Awaited(name)'
  BY DEF CounterWillExpire, Awaited
<1>1. ASSUME NEW p \in Procs, ~At(p, "expire"),
             \A q \in Procs : q # p => login'[q] = login[q],
             \/ counter'[name] = counter[name] /\ spoilt[name] \subseteq spoilt'[name]
             \/ counter'[name] = None
      PROVE  Awaited(name)'
  BY <1>1, WillExpireStays
<1>2. ASSUME NEW p \in Procs, NEW n \in Names, NEW right \in BOOLEAN,
             Refuse(p, n, right) \/ Admit(p, n, right)
      PROVE  Awaited(name)'
  <2>1. spoilt[name] \subseteq spoilt'[name]
    BY <1>2 DEF Refuse, Admit, Spoil, TypeOK
  <2> QED
    BY <1>1, <1>2, <2>1 DEF Refuse, Admit, Begin, At, TypeOK
<1>3. ASSUME NEW p \in Procs,
             \/ PasswordRight(p) \/ PasswordWrong(p) \/ RecordFails(p)
             \/ CreateSession(p) \/ SessionFails(p) \/ ResetLoginFail(p) \/ Return(p)
      PROVE  Awaited(name)'
  <2>1. ~At(p, "expire")
    BY <1>3 DEF PasswordRight, PasswordWrong, RecordFails, CreateSession, SessionFails,
                ResetLoginFail, Return, At, Returned
  <2>2. \A q \in Procs : q # p => login'[q] = login[q]
    BY <1>3 DEF PasswordRight, PasswordWrong, RecordFails, CreateSession, SessionFails,
                ResetLoginFail, Return, Goto, TypeOK
  <2>3. CASE UNCHANGED <<counter, spoilt>>
    BY <1>1, <2>1, <2>2, <2>3
  <2>4. CASE ResetLoginFail(p)
    <3>1. \/ counter'[name] = counter[name] /\ spoilt'[name] = spoilt[name]
          \/ counter'[name] = None
      BY <2>4 DEF ResetLoginFail, TypeOK
    <3> QED
      BY <1>1, <2>1, <2>2, <3>1
  <2> QED
    BY <1>3, <2>3, <2>4
       DEF PasswordRight, PasswordWrong, RecordFails, CreateSession, SessionFails, Return
<1>4. ASSUME NEW p \in Procs, RecordLoginFail(p) PROVE Awaited(name)'
  <2> DEFINE n == login[p].name
  <2>1. n \in Names /\ login[p] # None /\ ~At(p, "expire") /\ UNCHANGED spoilt
    BY <1>4, RecordEffect DEF RecordLoginFail, At
  <2>2. /\ counter'[n].ttl = IF counter[n] = None THEN 0 ELSE counter[n].ttl
        /\ counter'[n] # None
        /\ \A other \in Names : other # n => counter'[other] = counter[other]
    BY <1>4, RecordEffect, IncrType
  <2>3. \A q \in Procs : q # p => login'[q] = login[q]
    BY <1>4, RecordEffect
  <2>4. CASE name # n
    BY <1>1, <2>1, <2>2, <2>3, <2>4
  <2>5. CASE name = n /\ counter[n] = None
    <3>1. GetLoginFailCount(n) = 0
      BY <2>5 DEF GetLoginFailCount
    <3>2. Goto(p, "expire")
      BY <1>4, <3>1 DEF RecordLoginFail
    <3>3. login'[p] # None /\ login'[p].pc = "expire" /\ login'[p].name = n
      BY <2>1, <3>2, GotoType, NoneAssumption DEF Pending
    <3> QED
      BY <2>5, <3>3 DEF Awaited, At
  <2>6. CASE name = n /\ counter[n] # None
    <3>1. counter[n].ttl = 0
          => \/ "ttl" \in spoilt[n]
             \/ \E q \in Procs : At(q, "expire") /\ login[q].name = n
      BY <2>1, <2>6 DEF CounterWillExpire
    <3> QED
      BY <2>1, <2>2, <2>3, <2>6, <3>1 DEF Awaited, At
  <2> QED
    BY <2>4, <2>5, <2>6
<1>5. ASSUME NEW p \in Procs, RecordUnseen(p) PROVE Awaited(name)'
  <2> DEFINE n == login[p].name
  <2>1. n \in Names /\ login[p] # None /\ ~At(p, "expire")
    BY <1>5, RecordEffect DEF At
  <2>3. /\ counter'[n].ttl = IF counter[n] = None THEN 0 ELSE counter[n].ttl
        /\ \A other \in Names : other # n => counter'[other] = counter[other]
    BY <1>5, RecordEffect, IncrType
  <2>4. /\ spoilt[name] \subseteq spoilt'[name]
        /\ counter[n] = None => "ttl" \in spoilt'[n]
    BY <1>5, UnseenEffect
  <2>5. \A q \in Procs : q # p => login'[q] = login[q]
    BY <1>5, RecordEffect
  <2>6. CASE name # n
    BY <1>1, <2>1, <2>3, <2>4, <2>5, <2>6
  <2>7. CASE name = n /\ counter[n] = None
    BY <2>4, <2>7 DEF Awaited
  <2>8. CASE name = n /\ counter[n] # None
    <3>1. counter[n].ttl = 0
          => \/ "ttl" \in spoilt[n]
             \/ \E q \in Procs : At(q, "expire") /\ login[q].name = n
      BY <2>1, <2>8 DEF CounterWillExpire
    <3> QED
      BY <2>1, <2>3, <2>4, <2>5, <2>8, <3>1 DEF Awaited, At
  <2> QED
    BY <2>6, <2>7, <2>8
<1>6. ASSUME NEW p \in Procs, ExpireCounter(p) PROVE Awaited(name)'
  <2>1. \A q \in Procs : q # p => login'[q] = login[q]
    BY <1>6 DEF ExpireCounter, Goto, TypeOK
  <2>2. CASE name # login[p].name
    <3>1. counter'[name] = counter[name] /\ spoilt'[name] = spoilt[name]
      BY <1>6, <2>2 DEF ExpireCounter, Spoil, TypeOK
    <3>2. \A q \in Procs : At(q, "expire") /\ login[q].name = name => login'[q] = login[q]
      BY <2>1, <2>2
    <3> QED
      BY <3>1, <3>2, WillExpireStays
  <2>3. CASE name = login[p].name
    <3>1. \/ counter[name] = None /\ counter' = counter
          \/ counter' = [counter EXCEPT ![name].ttl = LoginFailTTL] /\ counter[name] # None
          \/ Spoil(name, {"ttl"})
      BY <1>6, <2>3 DEF ExpireCounter
    <3>2. counter[name] # None => counter[name] \in Counter
      BY DEF TypeOK
    <3>3. \/ counter'[name] = None
          \/ counter'[name].ttl = LoginFailTTL
          \/ "ttl" \in spoilt'[name]
      BY <3>1, <3>2 DEF TypeOK, Counter, Spoil
    <3> QED
      BY <3>3, LimitAssumption DEF Awaited
  <2> QED
    BY <2>2, <2>3
<1>7. CASE CountersAge
  <2>1. \/ counter'[name] = counter[name] /\ spoilt'[name] = spoilt[name]
        \/ counter'[name] = None \/ counter'[name].ttl # 0
    BY <1>7, ElapsedType DEF CountersAge, Expires, TypeOK, Counter
  <2> QED
    BY <1>7, <2>1, WillExpireStays DEF CountersAge
<1>8. CASE Crash
  <2>1. counter'[name] = counter[name] /\ spoilt[name] \subseteq spoilt'[name]
    BY <1>8 DEF Crash, TypeOK
  <2>2. (counter[name] # None /\ \E q \in Procs : At(q, "expire") /\ login[q].name = name)
        => "ttl" \in spoilt'[name]
    BY <1>8 DEF Crash, TypeOK
  <2> QED
    BY <2>1, <2>2 DEF CounterWillExpire, Awaited
<1>9. ASSUME \/ \E token \in Tokens : SessionEnds(token)
             \/ UNCHANGED vars
      PROVE  Awaited(name)'
  BY <1>9, WillExpireStays DEF SessionEnds, vars
<1> QED
  BY <1>2, <1>3, <1>4, <1>5, <1>6, <1>7, <1>8, <1>9 DEF Next, LoginStep

\* Under every kind of fault: a failure counter without a TTL is about to be given
\* one, unless just that EXPIRE was lost.
THEOREM CountersWillExpire == Spec => []CounterWillExpire
<1>1. Init => CounterWillExpire
  BY DEF Init, CounterWillExpire
<1> QED
  BY <1>1, TypeInit, TypeStep, WillExpireStep, PTL DEF Spec

-----------------------------------------------------------------------------
(* The limit is overrun by the logins in flight at most *)

\* The logins of a name that passed the check and may still count as failed.
InFlight(name) ==
    {p \in Procs : (At(p, "query") \/ At(p, "incr")) /\ login[p].name = name}

\* The inductive invariant: below the limit, or on the way there with fewer and
\* fewer logins left to add to the counter, unless the counter is spoilt.
Headroom(name) ==
    \/ "limit" \in spoilt[name]
    \/ GetLoginFailCount(name) < MaxLoginFailures
    \/ GetLoginFailCount(name) + Cardinality(InFlight(name))
           <= MaxLoginFailures - 1 + Cardinality(Procs)

HeadroomInv == TypeOK /\ \A name \in Names : Headroom(name)

LEMMA InFlightFinite ==
    ASSUME NEW name
    PROVE  /\ IsFiniteSet(InFlight(name))
           /\ Cardinality(InFlight(name)) \in Nat
           /\ Cardinality(Procs) \in Nat
           /\ Cardinality(InFlight(name)) <= Cardinality(Procs)
<1>1. InFlight(name) \subseteq Procs
  BY DEF InFlight
<1> QED
  BY <1>1, ProcsAssumption, FS_Subset, FS_CardinalityType

\* A step that neither raises the counter nor admits a login keeps the headroom.
LEMMA HeadroomStays ==
    ASSUME HeadroomInv, TypeOK', NEW name \in Names,
           GetLoginFailCount(name)' <= GetLoginFailCount(name),
           spoilt[name] \subseteq spoilt'[name] \/ counter'[name] = None,
           InFlight(name)' \subseteq InFlight(name)
    PROVE  Headroom(name)'
<1>1. IsFiniteSet(InFlight(name)) /\ Cardinality(InFlight(name)) \in Nat
  BY InFlightFinite
<1>2. /\ Cardinality(InFlight(name)') \in Nat
      /\ Cardinality(InFlight(name)') <= Cardinality(InFlight(name))
  BY <1>1, FS_Subset, FS_CardinalityType
<1>3. GetLoginFailCount(name) \in Nat /\ GetLoginFailCount(name)' \in Nat
  BY DEF GetLoginFailCount, HeadroomInv, TypeOK, Counter
<1>4. Cardinality(Procs) \in Nat
  BY ProcsAssumption, FS_CardinalityType
<1>5. CASE counter'[name] = None
  BY <1>5, LimitAssumption DEF Headroom, GetLoginFailCount
<1>6. CASE spoilt[name] \subseteq spoilt'[name]
  BY <1>1, <1>2, <1>3, <1>4, <1>6, LimitAssumption DEF HeadroomInv, Headroom
<1> QED
  BY <1>5, <1>6

\* A login that leaves the flight or was never on it takes none aboard.
LEMMA FlightShrinks ==
    ASSUME TypeOK, NEW p \in Procs, NEW name,
           \A q \in Procs : q # p => login'[q] = login[q],
           \/ ~At(p, "query")' /\ ~At(p, "incr")'
           \/ At(p, "query") /\ login'[p].name = login[p].name
    PROVE  InFlight(name)' \subseteq InFlight(name)
BY DEF InFlight, At

\* The failure of a login counts, and takes it off the flight.
LEMMA HeadroomRecord ==
    ASSUME HeadroomInv, TypeOK', NEW p \in Procs, NEW name \in Names,
           RecordLoginFail(p) \/ RecordUnseen(p)
    PROVE  Headroom(name)'
<1> DEFINE n == login[p].name
<1>1. /\ n \in Names /\ login[p] # None /\ At(p, "incr")
      /\ GetLoginFailCount(n) \in Nat
      /\ counter'[n] # None /\ counter'[n].n = GetLoginFailCount(n) + 1
      /\ \A other \in Names : other # n => counter'[other] = counter[other]
  BY RecordEffect, IncrType DEF HeadroomInv
<1>2. login'[p].name = n /\ \A q \in Procs : q # p => login'[q] = login[q]
  BY RecordEffect DEF HeadroomInv
<1>3. \/ login'[p].pc \in {"expire", "invalid"}
      \/ login'[p].pc = "incr" /\ "limit" \in spoilt'[n]
  BY <1>1, UnseenEffect, GotoType DEF RecordLoginFail, Pending, Returned, HeadroomInv
<1>4. /\ InFlight(name)' \subseteq InFlight(name)
      /\ "limit" \notin spoilt'[n] => p \notin InFlight(name)'
  <2>1. InFlight(name)' \subseteq InFlight(name)
    BY <1>1, <1>2 DEF InFlight, At
  <2>2. "limit" \notin spoilt'[n] => p \notin InFlight(name)'
    BY <1>3 DEF InFlight, At
  <2> QED
    BY <2>1, <2>2
<1>5. spoilt[name] \subseteq spoilt'[name]
  BY UnseenEffect DEF RecordLoginFail, HeadroomInv
<1>6. CASE name # n
  <2>1. GetLoginFailCount(name)' = GetLoginFailCount(name)
    BY <1>1, <1>6 DEF GetLoginFailCount
  <2>2. GetLoginFailCount(name) \in Nat
    BY DEF GetLoginFailCount, HeadroomInv, TypeOK, Counter
  <2> QED
    BY <1>4, <1>5, <1>6, <2>1, <2>2, HeadroomStays
<1>7. CASE name = n /\ "limit" \notin spoilt'[n]
  <2> DEFINE before == Cardinality(InFlight(name))
             after  == Cardinality(InFlight(name)')
             all    == Cardinality(Procs)
             count  == GetLoginFailCount(name)
  <2>1. p \in InFlight(name)
    BY <1>1, <1>7 DEF InFlight
  <2>2. /\ Cardinality(InFlight(name) \ {p}) = before - 1
        /\ IsFiniteSet(InFlight(name) \ {p})
    BY <2>1, InFlightFinite, FS_RemoveElement
  <2>3. InFlight(name)' \subseteq InFlight(name) \ {p}
    BY <1>4, <1>7
  <2>4. after \in Nat /\ after <= before - 1
    BY <2>2, <2>3, FS_Subset, FS_CardinalityType
  <2>5. before \in Nat /\ all \in Nat /\ before <= all
    BY InFlightFinite
  <2>6. GetLoginFailCount(name)' = count + 1 /\ count \in Nat
    BY <1>1, <1>7 DEF GetLoginFailCount
  <2>7. count < MaxLoginFailures \/ count + before <= MaxLoginFailures - 1 + all
    BY <1>5, <1>7 DEF HeadroomInv, Headroom
  <2>8. count + 1 + after <= MaxLoginFailures - 1 + all
    BY <2>4, <2>5, <2>6, <2>7, LimitAssumption
  <2> QED
    BY <2>6, <2>8 DEF Headroom
<1>8. CASE name = n /\ "limit" \in spoilt'[n]
  BY <1>8 DEF Headroom
<1> QED
  BY <1>6, <1>7, <1>8

LEMMA HeadroomStep == HeadroomInv /\ [Next]_vars => HeadroomInv'
<1> SUFFICES ASSUME HeadroomInv, [Next]_vars, NEW name \in Names PROVE Headroom(name)'
  BY TypeStep DEF HeadroomInv
<1>1. /\ TypeOK /\ TypeOK'
      /\ GetLoginFailCount(name) \in Nat
      /\ GetLoginFailCount(name) <= GetLoginFailCount(name)
  BY TypeStep DEF HeadroomInv, GetLoginFailCount, TypeOK, Counter
<1>2. ASSUME NEW p \in Procs, NEW n \in Names, NEW right \in BOOLEAN, Admit(p, n, right)
      PROVE  Headroom(name)'
  <2>1. /\ \/ GetLoginFailCount(n) < MaxLoginFailures /\ UNCHANGED spoilt
           \/ Spoil(n, {"limit"})
        /\ GetLoginFailCount(name)' = GetLoginFailCount(name)
        /\ Begin(p, n, right, "query")
    BY <1>2 DEF Admit, Begin, GetLoginFailCount
  <2>2. CASE n = name
    BY <1>1, <2>1, <2>2 DEF Headroom, Spoil, TypeOK
  <2>3. CASE n # name
    <3>1. InFlight(name)' \subseteq InFlight(name)
      BY <1>1, <2>1, <2>3, BeginType DEF InFlight, At, Pending
    <3>2. spoilt[name] \subseteq spoilt'[name]
      BY <1>1, <2>1, <2>3 DEF Spoil, TypeOK
    <3> QED
      BY <1>1, <2>1, <3>1, <3>2, HeadroomStays
  <2> QED
    BY <2>2, <2>3
<1>3. ASSUME NEW p \in Procs,
             \A q \in Procs : q # p => login'[q] = login[q],
             \/ ~At(p, "query")' /\ ~At(p, "incr")'
             \/ At(p, "query") /\ login'[p].name = login[p].name,
             \/ counter'[name] = counter[name] /\ spoilt'[name] = spoilt[name]
             \/ counter'[name] = None
      PROVE  Headroom(name)'
  <2>1. InFlight(name)' \subseteq InFlight(name)
    BY <1>1, <1>3, FlightShrinks
  <2>2. GetLoginFailCount(name)' <= GetLoginFailCount(name)
    BY <1>1, <1>3 DEF GetLoginFailCount
  <2> QED
    BY <1>1, <1>3, <2>1, <2>2, HeadroomStays
<1>4. ASSUME NEW p \in Procs, NEW n \in Names, NEW right \in BOOLEAN, Refuse(p, n, right)
      PROVE  Headroom(name)'
  <2>1. /\ \A q \in Procs : q # p => login'[q] = login[q]
        /\ ~At(p, "query")' /\ ~At(p, "incr")'
    BY <1>1, <1>4, BeginType DEF Refuse, At, Returned
  <2> QED
    BY <1>3, <1>4, <2>1 DEF Refuse, Begin
<1>5. ASSUME NEW p \in Procs,
             \/ PasswordRight(p) \/ RecordFails(p) \/ ExpireCounter(p)
             \/ CreateSession(p) \/ SessionFails(p) \/ ResetLoginFail(p)
      PROVE  /\ \A q \in Procs : q # p => login'[q] = login[q]
             /\ ~At(p, "query")' /\ ~At(p, "incr")'
  <2>1. PICK pc \in (Pending \cup Returned) \ {"query", "incr"} :
           Goto(p, pc) /\ login[p] # None
    BY <1>5 DEF PasswordRight, RecordFails, ExpireCounter, CreateSession, SessionFails,
                ResetLoginFail, At, Pending, Returned
  <2> QED
    BY <1>1, <2>1, GotoType DEF At
<1>6. ASSUME NEW p \in Procs,
             \/ PasswordRight(p) \/ RecordFails(p)
             \/ CreateSession(p) \/ SessionFails(p) \/ ResetLoginFail(p)
      PROVE  Headroom(name)'
  <2>1. \/ counter'[name] = counter[name] /\ spoilt'[name] = spoilt[name]
        \/ counter'[name] = None
    BY <1>1, <1>6 DEF PasswordRight, RecordFails, CreateSession, SessionFails, ResetLoginFail,
                     TypeOK
  <2> QED
    BY <1>3, <1>5, <1>6, <2>1
<1>7. ASSUME NEW p \in Procs, PasswordWrong(p) PROVE Headroom(name)'
  <2>1. /\ login'[p].name = login[p].name
        /\ \A q \in Procs : q # p => login'[q] = login[q]
    BY <1>1, <1>7, GotoType DEF PasswordWrong, At, Pending
  <2> QED
    BY <1>3, <1>7, <2>1 DEF PasswordWrong
<1>8. ASSUME NEW p \in Procs, ExpireCounter(p) PROVE Headroom(name)'
  <2>1. GetLoginFailCount(name)' = GetLoginFailCount(name)
    <3>1. CASE counter' = counter
      BY <3>1 DEF GetLoginFailCount
    <3>2. CASE /\ counter[login[p].name] # None
               /\ counter' = [counter EXCEPT ![login[p].name].ttl = LoginFailTTL]
      <4>1. counter[login[p].name] \in Counter
        BY <1>1, <1>8, <3>2 DEF ExpireCounter, At, TypeOK, Attempt
      <4>2. [counter[login[p].name] EXCEPT !.ttl = LoginFailTTL] \in Counter
        BY <4>1, LimitAssumption DEF Counter
      <4> QED
        BY <1>1, <3>2, <4>1, <4>2, NoneAssumption DEF GetLoginFailCount, TypeOK, Counter
    <3> QED
      BY <1>8, <3>1, <3>2 DEF ExpireCounter
  <2>2. InFlight(name)' \subseteq InFlight(name)
    BY <1>1, <1>5, <1>8, FlightShrinks
  <2>3. spoilt[name] \subseteq spoilt'[name]
    BY <1>1, <1>8 DEF ExpireCounter, Spoil, TypeOK
  <2> QED
    BY <1>1, <2>1, <2>2, <2>3, HeadroomStays
<1>9. ASSUME NEW p \in Procs, Return(p) PROVE Headroom(name)'
  <2>1. ~At(p, "query")' /\ ~At(p, "incr")'
    BY <1>1, <1>9 DEF Return, At, TypeOK
  <2> QED
    BY <1>1, <1>3, <1>9, <2>1 DEF Return, TypeOK
<1>10. CASE CountersAge
  <2>1. GetLoginFailCount(name)' <= GetLoginFailCount(name)
    BY <1>1, <1>10, ElapsedType DEF CountersAge, Expires, GetLoginFailCount, TypeOK, Counter
  <2>2. spoilt[name] \subseteq spoilt'[name] \/ counter'[name] = None
    BY <1>10 DEF CountersAge, TypeOK
  <2> QED
    BY <1>1, <1>10, <2>1, <2>2, HeadroomStays DEF CountersAge, InFlight, At
<1>11. CASE Crash
  <2>1. InFlight(name)' \subseteq InFlight(name)
    BY <1>11 DEF Crash, InFlight, At
  <2>2. spoilt[name] \subseteq spoilt'[name]
    BY <1>11 DEF Crash, TypeOK
  <2> QED
    BY <1>1, <1>11, <2>1, <2>2, HeadroomStays DEF Crash, GetLoginFailCount
<1>12. ASSUME \/ \E token \in Tokens : SessionEnds(token)
              \/ UNCHANGED vars
       PROVE  Headroom(name)'
  BY <1>1, <1>12, HeadroomStays DEF SessionEnds, vars, GetLoginFailCount, InFlight, At
<1> QED
  BY <1>1, <1>2, <1>4, <1>6, <1>7, <1>8, <1>9, <1>10, <1>11, <1>12, HeadroomRecord
     DEF Next, LoginStep

\* Under every kind of fault: the failures of a name exceed the limit by less than
\* the number of concurrent logins, unless the counter could not be read at the
\* limit or a failure it counted was sent again.
THEOREM FailuresAreBounded == Spec => []FailuresBounded
<1>1. Init => HeadroomInv
  BY TypeInit, LimitAssumption DEF Init, HeadroomInv, Headroom, GetLoginFailCount
<1>2. HeadroomInv => FailuresBounded
  <2> SUFFICES ASSUME HeadroomInv, NEW name \in Names
               PROVE  \/ GetLoginFailCount(name) <= MaxLoginFailures - 1 + Cardinality(Procs)
                      \/ "limit" \in spoilt[name]
    BY DEF FailuresBounded
  <2>1. /\ GetLoginFailCount(name) \in Nat
        /\ Cardinality(InFlight(name)) \in Nat /\ Cardinality(Procs) \in Nat
    BY InFlightFinite DEF HeadroomInv, GetLoginFailCount, TypeOK, Counter
  <2>2. \/ "limit" \in spoilt[name]
        \/ GetLoginFailCount(name) < MaxLoginFailures
        \/ GetLoginFailCount(name) + Cardinality(InFlight(name))
               <= MaxLoginFailures - 1 + Cardinality(Procs)
    BY DEF HeadroomInv, Headroom
  <2> QED
    BY <2>1, <2>2, LimitAssumption
<1> QED
  BY <1>1, <1>2, HeadroomStep, PTL DEF Spec

-----------------------------------------------------------------------------
(* The password decides *)

\* Past the comparison there are only logins that passed it.
PassedInv ==
    \A p \in Procs :
        At(p, "session") \/ At(p, "reset")
        => login[p].right /\ login[p].name \in Registered

\* One login moves at a time, and only the comparison moves one to where the session
\* is created.
LEMMA PassedGoto ==
    ASSUME TypeOK, PassedInv, NEW p \in Procs, login[p] # None,
           NEW pc \in Pending \cup Returned, Goto(p, pc),
           pc \in {"session", "reset"} => login[p].right /\ login[p].name \in Registered
    PROVE  PassedInv'
<1>1. /\ login'[p].pc = pc /\ login'[p].name = login[p].name
      /\ login'[p].right <=> login[p].right
      /\ \A q \in Procs : q # p => login'[q] = login[q]
  BY GotoType
<1> QED
  BY <1>1 DEF PassedInv, At

LEMMA PassedStep == TypeOK /\ PassedInv /\ [Next]_vars => PassedInv'
<1> SUFFICES ASSUME TypeOK, PassedInv, [Next]_vars PROVE PassedInv'
  OBVIOUS
<1>1. ASSUME NEW p \in Procs, NEW name \in Names, NEW right \in BOOLEAN,
             Refuse(p, name, right) \/ Admit(p, name, right)
      PROVE  PassedInv'
  <2>1. PICK pc \in {"limited", "query"} : Begin(p, name, right, pc)
    BY <1>1 DEF Refuse, Admit
  <2>2. login'[p].pc = pc /\ \A q \in Procs : q # p => login'[q] = login[q]
    BY <2>1, BeginType DEF Pending, Returned
  <2> QED
    BY <2>2 DEF PassedInv, At
<1>2. ASSUME NEW p \in Procs, LoginStep(p) PROVE PassedInv'
  <2>1. CASE PasswordRight(p)
    BY <2>1, PassedGoto DEF PasswordRight, At, Pending
  <2>2. CASE CreateSession(p)
    BY <2>2, PassedGoto DEF CreateSession, PassedInv, At, Pending
  <2>3. CASE \/ PasswordWrong(p) \/ RecordLoginFail(p) \/ RecordFails(p)
             \/ ExpireCounter(p) \/ SessionFails(p) \/ ResetLoginFail(p)
    <3>1. PICK pc \in {"incr", "expire", "invalid", "no_session", "ok"} :
             login[p] # None /\ Goto(p, pc)
      BY <2>3 DEF PasswordWrong, RecordLoginFail, RecordFails, ExpireCounter,
                  SessionFails, ResetLoginFail, At
    <3> QED
      BY <3>1, PassedGoto DEF Pending, Returned
  <2>4. CASE RecordUnseen(p)
    <3>1. /\ login'[p].pc \in {"incr", "invalid"}
          /\ \A q \in Procs : q # p => login'[q] = login[q]
      BY <2>4, UnseenEffect, RecordEffect
    <3> QED
      BY <3>1 DEF PassedInv, At
  <2> QED
    BY <1>2, <2>1, <2>2, <2>3, <2>4 DEF LoginStep
<1>3. ASSUME NEW p \in Procs, Return(p) PROVE PassedInv'
  BY <1>3 DEF Return, TypeOK, PassedInv, At
<1>4. CASE Crash
  BY <1>4 DEF Crash, PassedInv, At
<1>5. CASE (\E token \in Tokens : SessionEnds(token)) \/ CountersAge \/ UNCHANGED vars
  BY <1>5 DEF SessionEnds, CountersAge, vars, PassedInv, At
<1> QED
  BY <1>1, <1>2, <1>3, <1>4, <1>5 DEF Next

\* A login past the comparison is what the two results ask for.
LEMMA PassedIsRight ==
    ASSUME PassedInv, NEW p \in Procs, At(p, "session") \/ At(p, "reset")
    PROVE  RightLogin(login[p].name)
BY DEF PassedInv, At, RightLogin

LEMMA NewSessionIsEarned ==
    ASSUME TypeOK, PassedInv, [Next]_vars, NEW name \in Names, NewSession(name)
    PROVE  RightLogin(name)
<1>1. PICK token \in Tokens : session[token] # name /\ session'[token] = name
  BY DEF NewSession
<1>2. name # None
  BY NoneAssumption
<1>3. ASSUME NEW p \in Procs, CreateSession(p) \/ SessionFails(p) PROVE RightLogin(name)
  <2>1. PICK other \in Tokens : session' = [session EXCEPT ![other] = login[p].name]
    BY <1>1, <1>3 DEF CreateSession, SessionFails
  <2>2. name = login[p].name
    BY <1>1, <2>1 DEF TypeOK
  <2> QED
    BY <1>3, <2>2, PassedIsRight DEF CreateSession, SessionFails
<1>4. ASSUME NEW other \in Tokens, SessionEnds(other) PROVE FALSE
  BY <1>1, <1>2, <1>4 DEF SessionEnds, TypeOK
<1>5. CASE UNCHANGED session
  BY <1>1, <1>5
<1> QED
  BY <1>3, <1>4, <1>5
     DEF Next, LoginStep, Refuse, Admit, Begin, PasswordRight, PasswordWrong, RecordLoginFail,
         RecordFails, RecordUnseen, ExpireCounter, ResetLoginFail, Return, CountersAge, Crash,
         vars

LEMMA ForgettingIsEarned ==
    ASSUME TypeOK, PassedInv, [Next]_vars, NEW name \in Names, ForgetsFailures(name)
    PROVE  counter[name].ttl = 1 \/ RightLogin(name)
<1>1. GetLoginFailCount(name) \in Nat /\ ~(GetLoginFailCount(name)' >= GetLoginFailCount(name))
  <2>1. GetLoginFailCount(name) \in Nat /\ GetLoginFailCount(name)' \in Nat
    BY TypeStep DEF GetLoginFailCount, TypeOK, Counter
  <2> QED
    BY <2>1 DEF ForgetsFailures
<1>2. ASSUME counter'[name] = counter[name] PROVE FALSE
  BY <1>1, <1>2 DEF GetLoginFailCount
<1>3. ASSUME NEW p \in Procs, RecordLoginFail(p) \/ RecordUnseen(p) PROVE FALSE
  <2> DEFINE n == login[p].name
  <2>3. /\ n \in Names
        /\ counter'[n] # None /\ counter'[n].n = GetLoginFailCount(n) + 1
        /\ \A other \in Names : other # n => counter'[other] = counter[other]
    BY <1>3, RecordEffect, IncrType
  <2>4. name = n
    BY <1>2, <2>3
  <2>5. GetLoginFailCount(name)' = GetLoginFailCount(name) + 1
    BY <2>3, <2>4 DEF GetLoginFailCount
  <2> QED
    BY <1>1, <2>5
<1>4. ASSUME NEW p \in Procs, ExpireCounter(p) PROVE FALSE
  <2> DEFINE n == login[p].name
  <2>1. /\ counter[n] # None
        /\ counter' = [counter EXCEPT ![n].ttl = LoginFailTTL]
        /\ n = name /\ counter[n] \in Counter
    BY <1>2, <1>4 DEF ExpireCounter, TypeOK
  <2>2. /\ [counter[n] EXCEPT !.ttl = LoginFailTTL] \in Counter
        /\ [counter[n] EXCEPT !.ttl = LoginFailTTL].n = counter[n].n
    BY <2>1, LimitAssumption DEF Counter
  <2>3. counter'[name] # None /\ counter'[name].n = counter[name].n /\ counter[name] # None
    BY <2>1, <2>2, NoneAssumption DEF TypeOK
  <2>4. GetLoginFailCount(name)' = GetLoginFailCount(name)
    BY <2>3 DEF GetLoginFailCount
  <2> QED
    BY <1>1, <2>4
<1>5. ASSUME NEW p \in Procs, ResetLoginFail(p) PROVE RightLogin(name)
  <2>1. name = login[p].name
    BY <1>2, <1>5 DEF ResetLoginFail, TypeOK
  <2> QED
    BY <1>5, <2>1, PassedIsRight DEF ResetLoginFail
<1>6. ASSUME CountersAge PROVE counter[name].ttl = 1
  <2>1. Expires(name) /\ counter'[name] = Elapsed(counter[name]) /\ counter[name] \in Counter
    BY <1>2, <1>6 DEF CountersAge, Expires, TypeOK
  <2>2. ASSUME counter[name].ttl # 1 PROVE FALSE
    <3>1. /\ counter'[name] = [counter[name] EXCEPT !.ttl = counter[name].ttl - 1]
          /\ counter[name] # None
      BY <2>1, <2>2 DEF Elapsed, Expires
    <3>2. counter'[name] # None
      BY <2>1, <2>2, <3>1, LimitAssumption, NoneAssumption DEF Counter, Expires
    <3>3. counter'[name].n = counter[name].n
      BY <2>1, <3>1 DEF Counter
    <3>4. GetLoginFailCount(name)' = GetLoginFailCount(name)
      BY <3>1, <3>2, <3>3 DEF GetLoginFailCount
    <3> QED
      BY <1>1, <3>4
  <2> QED
    BY <2>2
<1> QED
  BY <1>2, <1>3, <1>4, <1>5, <1>6
     DEF Next, LoginStep, Refuse, Admit, Begin, PasswordRight, PasswordWrong, RecordFails,
         CreateSession, SessionFails, Return, SessionEnds, Crash, vars

\* Under every kind of fault: a session for a name comes from a login with its
\* password, and so does a counter that goes down before its TTL has run out.
THEOREM PasswordIsDecisive == Spec => PasswordDecides
<1>1. Init => PassedInv
  BY DEF Init, PassedInv, At
<1>2. TypeOK /\ PassedInv /\ [Next]_vars
      => [\A name \in Names :
            /\ NewSession(name) => RightLogin(name)
            /\ ForgetsFailures(name) => counter[name].ttl = 1 \/ RightLogin(name)]_vars
  BY NewSessionIsEarned, ForgettingIsEarned
<1> QED
  BY <1>1, <1>2, TypeInit, TypeStep, PassedStep, PTL DEF Spec, PasswordDecides

-----------------------------------------------------------------------------
(* The life of a counter runs out *)

\* What LivesRunOut asks of a step, for one name.
Lives(name) == counter[name] # None /\ counter'[name] # None

RunsOut(name) ==
    /\ Renewing(name)' \subseteq Renewing(name)
    /\ Renewing(name)' = Renewing(name) => counter'[name].ttl <= counter[name].ttl

LEMMA RenewingShrinks ==
    ASSUME NEW p \in Procs, \A q \in Procs : q # p => login'[q] = login[q],
           ~At(p, "expire")', NEW name
    PROVE  Renewing(name)' \subseteq Renewing(name) \ {p}
BY DEF Renewing, At

\* A counter that is left alone keeps its TTL.
LEMMA SameTTL ==
    ASSUME TypeOK, NEW name \in Names, counter'[name] = counter[name],
           Renewing(name)' \subseteq Renewing(name), Lives(name)
    PROVE  RunsOut(name)
<1>1. counter[name].ttl \in Nat
  BY LimitAssumption DEF Lives, TypeOK, Counter
<1> QED
  BY <1>1 DEF RunsOut

LEMMA LifeOfLoginStep ==
    ASSUME TypeOK, NEW p \in Procs, LoginStep(p), NEW name \in Names, Lives(name)
    PROVE  RunsOut(name)
<1> DEFINE n == login[p].name
<1>1. login[p] # None /\ n \in Names
  BY DEF LoginStep, PasswordRight, PasswordWrong, RecordLoginFail, RecordFails, RecordUnseen,
         ExpireCounter, CreateSession, SessionFails, ResetLoginFail, At, TypeOK, Attempt
<1>2. ASSUME NEW pc \in (Pending \cup Returned) \ {"expire"}, Goto(p, pc)
      PROVE  /\ Renewing(name)' \subseteq Renewing(name) \ {p}
             /\ Renewing(name)' \subseteq Renewing(name)
  <2>1. login'[p].pc = pc /\ \A q \in Procs : q # p => login'[q] = login[q]
    BY <1>1, <1>2, GotoType
  <2>2. ~At(p, "expire")'
    BY <2>1 DEF At
  <2> QED
    BY <2>1, <2>2, RenewingShrinks
<1>3. CASE \/ PasswordRight(p) \/ PasswordWrong(p) \/ RecordFails(p)
           \/ CreateSession(p) \/ SessionFails(p) \/ ResetLoginFail(p)
  <2>1. PICK pc \in (Pending \cup Returned) \ {"expire"} : Goto(p, pc)
    BY <1>3 DEF PasswordRight, PasswordWrong, RecordFails, CreateSession, SessionFails,
                ResetLoginFail, Pending, Returned
  <2>2. counter'[name] = counter[name]
    BY <1>3 DEF PasswordRight, PasswordWrong, RecordFails, CreateSession, SessionFails,
                ResetLoginFail, Lives, TypeOK
  <2> QED
    BY <1>2, <2>1, <2>2, SameTTL
<1>4. CASE RecordLoginFail(p) \/ RecordUnseen(p)
  <2>1. /\ login'[p].name = n /\ \A q \in Procs : q # p => login'[q] = login[q]
    BY <1>4, RecordEffect
  <2>2. /\ counter'[n].ttl = IF counter[n] = None THEN 0 ELSE counter[n].ttl
        /\ \A other \in Names : other # n => counter'[other] = counter[other]
    BY <1>4, RecordEffect, IncrType
  <2>3. /\ counter'[name].ttl = counter[name].ttl
        /\ counter[name].ttl \in Nat /\ counter[name].n \in Nat \ {0}
    BY <2>2, LimitAssumption DEF Lives, TypeOK, Counter
  <2>4. CASE ~At(p, "expire")'
    <3>1. Renewing(name)' \subseteq Renewing(name)
      BY <2>1, <2>4, RenewingShrinks
    <3> QED
      BY <2>3, <3>1 DEF RunsOut
  <2>5. CASE GetLoginFailCount(n) = 0
    <3>1. name # n
      BY <2>3, <2>5 DEF GetLoginFailCount, Lives
    <3>2. Renewing(name)' \subseteq Renewing(name)
      BY <2>1, <3>1 DEF Renewing, At
    <3> QED
      BY <2>3, <3>2 DEF RunsOut
  <2>6. ~At(p, "expire")' \/ GetLoginFailCount(n) = 0
    <3>1. CASE RecordLoginFail(p) /\ GetLoginFailCount(n) # 0
      <4>1. Goto(p, "invalid")
        BY <3>1 DEF RecordLoginFail
      <4> QED
        BY <1>1, <4>1, GotoType DEF Returned, At
    <3>2. CASE RecordUnseen(p)
      BY <3>2, UnseenEffect DEF At
    <3> QED
      BY <1>4, <3>1, <3>2
  <2> QED
    BY <2>4, <2>5, <2>6
<1>5. CASE ExpireCounter(p)
  <2>1. Renewing(name)' \subseteq Renewing(name) \ {p}
    BY <1>2, <1>5 DEF ExpireCounter, Returned
  <2>2. CASE name = n
    <3>1. p \in Renewing(name)
      BY <1>5, <2>2 DEF ExpireCounter, Renewing
    <3> QED
      BY <2>1, <3>1 DEF RunsOut
  <2>3. CASE name # n
    <3>1. counter'[name] = counter[name]
      BY <1>5, <2>3 DEF ExpireCounter, TypeOK
    <3> QED
      BY <2>1, <3>1, SameTTL
  <2> QED
    BY <2>2, <2>3
<1> QED
  BY <1>3, <1>4, <1>5 DEF LoginStep

LEMMA LifeOfStep ==
    ASSUME TypeOK, [Next]_vars, NEW name \in Names, Lives(name)
    PROVE  RunsOut(name)
<1>1. ASSUME NEW p \in Procs, NEW other \in Names, NEW right \in BOOLEAN,
             Refuse(p, other, right) \/ Admit(p, other, right)
      PROVE  RunsOut(name)
  <2>1. PICK pc \in {"limited", "query"} : Begin(p, other, right, pc)
    BY <1>1 DEF Refuse, Admit
  <2>2. login'[p].pc = pc /\ \A q \in Procs : q # p => login'[q] = login[q]
    BY <2>1, BeginType DEF Pending, Returned
  <2>3. Renewing(name)' \subseteq Renewing(name)
    BY <2>2, RenewingShrinks DEF At
  <2> QED
    BY <2>1, <2>3, SameTTL DEF Begin
<1>2. ASSUME NEW p \in Procs, LoginStep(p) PROVE RunsOut(name)
  BY <1>2, LifeOfLoginStep
<1>3. ASSUME NEW p \in Procs, Return(p) PROVE RunsOut(name)
  <2>1. ~At(p, "expire")' /\ \A q \in Procs : q # p => login'[q] = login[q]
    BY <1>3 DEF Return, At, TypeOK
  <2>2. Renewing(name)' \subseteq Renewing(name)
    BY <2>1, RenewingShrinks
  <2> QED
    BY <1>3, <2>2, SameTTL DEF Return
<1>4. CASE CountersAge
  <2>1. counter[name] \in Counter /\ Renewing(name)' = Renewing(name)
    BY <1>4 DEF CountersAge, Lives, TypeOK, Renewing, At
  <2>2. counter'[name] = IF Expires(name) THEN Elapsed(counter[name]) ELSE counter[name]
    BY <1>4 DEF CountersAge
  <2>3. CASE ~Expires(name)
    BY <2>1, <2>2, <2>3, SameTTL
  <2>4. CASE Expires(name)
    <3>1. counter'[name] = [counter[name] EXCEPT !.ttl = counter[name].ttl - 1]
      BY <2>2, <2>4 DEF Elapsed, Lives
    <3>2. counter'[name].ttl = counter[name].ttl - 1 /\ counter[name].ttl \in Nat
      BY <2>1, <3>1, LimitAssumption DEF Counter
    <3> QED
      BY <2>1, <3>2 DEF RunsOut
  <2> QED
    BY <2>3, <2>4
<1>5. CASE Crash
  <2>1. Renewing(name)' \subseteq Renewing(name)
    BY <1>5 DEF Crash, Renewing, At
  <2> QED
    BY <1>5, <2>1, SameTTL DEF Crash
<1>6. CASE (\E token \in Tokens : SessionEnds(token)) \/ UNCHANGED vars
  <2>1. Renewing(name)' \subseteq Renewing(name)
    BY <1>6 DEF SessionEnds, vars, Renewing, At
  <2> QED
    BY <1>6, <2>1, SameTTL DEF SessionEnds, vars
<1> QED
  BY <1>1, <1>2, <1>3, <1>4, <1>5, <1>6 DEF Next

\* Under every kind of fault: only logins that were about to set the TTL before can
\* still prolong the life of a counter, each of them once.  With CountersWillExpire
\* this is why a lockout ends once time passes.
THEOREM CountersRunOut == Spec => LivesRunOut
<1>1. TypeOK /\ [Next]_vars
      => [\A name \in Names :
            counter[name] # None /\ counter'[name] # None
            => /\ Renewing(name)' \subseteq Renewing(name)
               /\ Renewing(name)' = Renewing(name)
                  => counter'[name].ttl <= counter[name].ttl]_vars
  BY LifeOfStep DEF Lives, RunsOut
<1> QED
  BY <1>1, TypeInit, TypeStep, PTL DEF Spec, LivesRunOut

-----------------------------------------------------------------------------
(* What spoils a counter *)

\* A counter is spoilt only by faults that can occur.
SpoiltByFaults(damages) ==
    /\ "limit" \in damages => Faults \cap {"get", "retry"} # {}
    /\ "ttl" \in damages => Faults \cap {"expire", "retry", "crash"} # {}

SpoiltInv == \A name \in Names : SpoiltByFaults(spoilt[name])

\* A step that spoils at most one counter.
LEMMA SpoiltOne ==
    ASSUME TypeOK, SpoiltInv, NEW name \in Names, NEW damages,
           spoilt' = [spoilt EXCEPT ![name] = damages], SpoiltByFaults(damages)
    PROVE  SpoiltInv'
<1>1. \A other \in Names :
         spoilt'[other] = IF other = name THEN damages ELSE spoilt[other]
  BY DEF TypeOK
<1> QED
  BY <1>1 DEF SpoiltInv, SpoiltByFaults

LEMMA SpoiltStep == TypeOK /\ SpoiltInv /\ [Next]_vars => SpoiltInv'
<1> SUFFICES ASSUME TypeOK, SpoiltInv, [Next]_vars PROVE SpoiltInv'
  OBVIOUS
<1>1. CASE UNCHANGED spoilt
  BY <1>1 DEF SpoiltInv, SpoiltByFaults
<1>2. ASSUME NEW name \in Names, NEW damages, Spoil(name, damages), SpoiltByFaults(damages)
      PROVE  SpoiltInv'
  <2>1. SpoiltByFaults(spoilt[name] \cup damages)
    BY <1>2 DEF SpoiltInv, SpoiltByFaults
  <2> QED
    BY <1>2, <2>1, SpoiltOne DEF Spoil
<1>3. ASSUME NEW p \in Procs, NEW name \in Names, NEW right \in BOOLEAN,
             Refuse(p, name, right) \/ Admit(p, name, right)
      PROVE  SpoiltInv'
  BY <1>1, <1>2, <1>3 DEF Refuse, Admit, SpoiltByFaults
<1>4. ASSUME NEW p \in Procs, RecordUnseen(p) \/ ExpireCounter(p) \/ ResetLoginFail(p)
      PROVE  SpoiltInv'
  <2>1. login[p].name \in Names
    BY <1>4 DEF RecordUnseen, ExpireCounter, ResetLoginFail, At, TypeOK, Attempt
  <2>2. CASE RecordUnseen(p)
    <3>1. PICK damages \in SUBSET {"limit", "ttl"} : Spoil(login[p].name, damages)
      BY <2>2 DEF RecordUnseen, Untimed
    <3>2. SpoiltByFaults(damages)
      BY <2>2 DEF RecordUnseen, SpoiltByFaults
    <3> QED
      BY <1>2, <2>1, <3>1, <3>2
  <2>3. CASE ExpireCounter(p)
    BY <1>1, <1>2, <2>1, <2>3 DEF ExpireCounter, SpoiltByFaults
  <2>4. CASE ResetLoginFail(p)
    BY <1>1, <2>1, <2>4, SpoiltOne DEF ResetLoginFail, SpoiltByFaults
  <2> QED
    BY <1>4, <2>2, <2>3, <2>4
<1>5. CASE CountersAge
  BY <1>5 DEF CountersAge, SpoiltInv, SpoiltByFaults
<1>6. CASE Crash
  BY <1>6 DEF Crash, SpoiltInv, SpoiltByFaults
<1> QED
  BY <1>1, <1>3, <1>4, <1>5, <1>6
     DEF Next, LoginStep, PasswordRight, PasswordWrong, RecordLoginFail, RecordFails,
         CreateSession, SessionFails, Return, SessionEnds, vars

LEMMA SpoiltAlways == Spec => [](TypeOK /\ SpoiltInv)
<1>1. Init => SpoiltInv
  BY DEF Init, SpoiltInv, SpoiltByFaults
<1> QED
  BY <1>1, TypeInit, TypeStep, SpoiltStep, PTL DEF Spec

\* Where the counter can be read and no INCR is sent again, and whatever else
\* fails, crashes included, the limit is overrun by fewer failures than there are
\* concurrent logins.
THEOREM LimitHolds ==
    ASSUME Faults \cap {"get", "retry"} = {}
    PROVE  Spec => [](\A name \in Names :
                         GetLoginFailCount(name) <= MaxLoginFailures - 1 + Cardinality(Procs))
<1>1. SpoiltInv /\ FailuresBounded
      => \A name \in Names :
            GetLoginFailCount(name) <= MaxLoginFailures - 1 + Cardinality(Procs)
  BY DEF SpoiltInv, SpoiltByFaults, FailuresBounded
<1> QED
  BY <1>1, SpoiltAlways, FailuresAreBounded, PTL

\* Where no EXPIRE is lost, a counter without a TTL is about to be given one: the
\* promise of the limiter that failures are forgotten, with the condition it needs.
THEOREM TTLHolds ==
    ASSUME Faults \cap {"expire", "retry", "crash"} = {}
    PROVE  Spec => [](\A name \in Names :
                         counter[name] # None /\ counter[name].ttl = 0
                         => Renewing(name) # {})
<1>1. SpoiltInv /\ CounterWillExpire
      => \A name \in Names :
            counter[name] # None /\ counter[name].ttl = 0 => Renewing(name) # {}
  BY DEF SpoiltInv, SpoiltByFaults, CounterWillExpire, Renewing
<1> QED
  BY <1>1, SpoiltAlways, CountersWillExpire, PTL
=============================================================================
