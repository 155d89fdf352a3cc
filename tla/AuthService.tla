---------------------------- MODULE AuthService ----------------------------
(***************************************************************************)
(* Login and logout of the TCP server (service/user_service.go over        *)
(* redis/login_limiter.go and redis/session.go): the failure counter       *)
(* login_fail:<name>, the sessions sess:<token>, and the logins that read  *)
(* and write them.                                                         *)
(*                                                                         *)
(* A process is one goroutine inside Login.  Each Redis command is one     *)
(* step of it, so that other logins, expiry and a crash come in between.   *)
(* The SELECT and the bcrypt comparison read nothing that changes here and *)
(* are one step.                                                           *)
(***************************************************************************)
EXTENDS Naturals, FiniteSets

CONSTANTS
    Names,          \* well-formed user names
    Registered,     \* those in the users table
    Procs,          \* concurrent logins
    Tokens,         \* bound: sessions alive at once
    MaxLoginFailures,
    LoginFailTTL,
    MaxRetries,     \* how often the client sends a command again
    CountBound,     \* bound on a counter; out of reach unless reads fail
    Faults,         \* which operations may fail, a subset of FaultKinds
    None            \* no key, no login

\* "get", "incr", "expire", "set", "del": the Redis command fails; "retry": a reply
\* to INCR is lost and the client may send it again; "query": the SELECT fails;
\* "crash": the process ends and is restarted.
FaultKinds == {"get", "incr", "expire", "set", "del", "retry", "query", "crash"}

Pending  == {"query", "incr", "expire", "session", "reset"}
Returned == {"limited", "invalid", "no_session", "ok"}

\* What may have become of a counter since it was created.  "limit": a login passed
\* although the counter stood at the limit, or an INCR that had counted was sent
\* again; "ttl": the EXPIRE it was waiting for was lost.
Damages == {"limit", "ttl"}

\* ttl = 0: a key that never expires.
Counter == [n : 1..CountBound, ttl : 0..LoginFailTTL]
\* resent: how often the command the login is at was sent before.
Attempt == [pc : Pending \cup Returned, name : Names, right : BOOLEAN, resent : 0..MaxRetries]

ASSUME NamesAssumption == Registered \subseteq Names
ASSUME LimitAssumption ==
    /\ MaxLoginFailures \in Nat \ {0} /\ LoginFailTTL \in Nat \ {0}
    /\ MaxRetries \in Nat /\ CountBound \in Nat
ASSUME ProcsAssumption == IsFiniteSet(Procs)
ASSUME NoneAssumption ==
    None \notin Counter /\ None \notin Attempt /\ None \notin Names
ASSUME FaultAssumption == Faults \subseteq FaultKinds

VARIABLES
    counter,    \* login_fail:<name>, or None
    session,    \* sess:<token>: whose it is, or None
    login,      \* the login a process is in, or None
    spoilt      \* history: the damages of the counter of a name

vars == <<counter, session, login, spoilt>>

Init ==
    /\ counter = [name \in Names |-> None]
    /\ session = [token \in Tokens |-> None]
    /\ login = [p \in Procs |-> None]
    /\ spoilt = [name \in Names |-> {}]

-----------------------------------------------------------------------------
(* Login *)

GetLoginFailCount(name) == IF counter[name] = None THEN 0 ELSE counter[name].n

At(p, pc) == login[p] # None /\ login[p].pc = pc

Goto(p, pc) == login' = [login EXCEPT ![p] = [@ EXCEPT !.pc = pc, !.resent = 0]]

Resend(p) == login' = [login EXCEPT ![p].resent = @ + 1]

Spoil(name, damages) == spoilt' = [spoilt EXCEPT ![name] = @ \cup damages]

Begin(p, name, right, pc) ==
    /\ login[p] = None
    /\ login' = [login EXCEPT ![p] = [pc |-> pc, name |-> name, right |-> right, resent |-> 0]]
    /\ UNCHANGED <<counter, session>>

Refuse(p, name, right) ==
    /\ GetLoginFailCount(name) >= MaxLoginFailures
    /\ Begin(p, name, right, "limited")
    /\ UNCHANGED spoilt

\* Mutation of Admit: one failure too many.
AdmitOneMore(p, name, right) ==
    /\ GetLoginFailCount(name) <= MaxLoginFailures
    /\ Begin(p, name, right, "query")
    /\ UNCHANGED spoilt

\* A counter that cannot be read counts as 0.
Admit(p, name, right) ==
    /\ \/ GetLoginFailCount(name) < MaxLoginFailures /\ UNCHANGED spoilt
       \/ /\ GetLoginFailCount(name) >= MaxLoginFailures
          /\ "get" \in Faults
          /\ Spoil(name, {"limit"})
    /\ Begin(p, name, right, "query")

\* Mutation of PasswordRight: the outcome of the comparison is not looked at.
PasswordIgnored(p) ==
    /\ At(p, "query")
    /\ login[p].name \in Registered
    /\ Goto(p, "session")
    /\ UNCHANGED <<counter, session, spoilt>>

PasswordRight(p) ==
    /\ At(p, "query")
    /\ login[p].name \in Registered /\ login[p].right
    /\ Goto(p, "session")
    /\ UNCHANGED <<counter, session, spoilt>>

\* Wrong password, unknown name and failed SELECT are all a failed login.
PasswordWrong(p) ==
    /\ At(p, "query")
    /\ \/ login[p].name \notin Registered
       \/ ~login[p].right
       \/ "query" \in Faults
    /\ Goto(p, "incr")
    /\ UNCHANGED <<counter, session, spoilt>>

\* INCR keeps the TTL of a key and gives a new key none.
Incr(name) ==
    LET c == counter[name] IN
    counter' = [counter EXCEPT ![name] =
                  [n |-> GetLoginFailCount(name) + 1,
                   ttl |-> IF c = None THEN 0 ELSE c.ttl]]

\* Mutation of RecordLoginFail: every failure starts the TTL anew.
RecordSliding(p) ==
    LET name == login[p].name IN
    /\ At(p, "incr")
    /\ GetLoginFailCount(name) < CountBound
    /\ Incr(name)
    /\ Goto(p, "expire")
    /\ UNCHANGED <<session, spoilt>>

\* Only the failure that INCR answers 1 goes on to set the TTL.
RecordLoginFail(p) ==
    LET name == login[p].name IN
    /\ At(p, "incr")
    /\ GetLoginFailCount(name) < CountBound
    /\ Incr(name)
    /\ Goto(p, IF GetLoginFailCount(name) = 0 THEN "expire" ELSE "invalid")
    /\ UNCHANGED <<session, spoilt>>

RecordFails(p) ==
    /\ At(p, "incr")
    /\ "incr" \in Faults
    /\ Goto(p, "invalid")
    /\ UNCHANGED <<counter, session, spoilt>>

\* What a counter suffers from a login that counts a failure without learning of it: if
\* that created the counter, it has no TTL and nobody who would set one.
Untimed(name) == IF counter[name] = None THEN {"ttl"} ELSE {}

\* An INCR whose reply is lost has counted.  The client sends it again, and others
\* come in between, or it has done so often enough and the login goes on.
RecordUnseen(p) ==
    LET name == login[p].name IN
    /\ At(p, "incr")
    /\ "retry" \in Faults
    /\ GetLoginFailCount(name) < CountBound
    /\ Incr(name)
    /\ \/ /\ login[p].resent < MaxRetries
          /\ Resend(p)
          /\ Spoil(name, {"limit"} \cup Untimed(name))
       \/ Goto(p, "invalid") /\ Spoil(name, Untimed(name))
    /\ UNCHANGED session

\* Mutation of ExpireCounter: it is not called.
ExpireNever(p) ==
    /\ At(p, "expire")
    /\ Goto(p, "invalid")
    /\ UNCHANGED <<counter, session, spoilt>>

\* Mutation of ExpireCounter: a key that is gone is waited for.
ExpireExisting(p) ==
    /\ At(p, "expire")
    /\ counter[login[p].name] # None
    /\ counter' = [counter EXCEPT ![login[p].name].ttl = LoginFailTTL]
    /\ Goto(p, "invalid")
    /\ UNCHANGED <<session, spoilt>>

\* EXPIRE does nothing to a key that is gone.
ExpireCounter(p) ==
    LET name == login[p].name IN
    /\ At(p, "expire")
    /\ \/ counter[name] = None /\ UNCHANGED <<counter, spoilt>>
       \/ /\ counter[name] # None
          /\ counter' = [counter EXCEPT ![name].ttl = LoginFailTTL]
          /\ UNCHANGED spoilt
       \/ /\ counter[name] # None
          /\ "expire" \in Faults
          /\ Spoil(name, {"ttl"})
          /\ UNCHANGED counter
    /\ Goto(p, "invalid")
    /\ UNCHANGED session

CreateSession(p) ==
    /\ At(p, "session")
    /\ \E token \in Tokens :
          /\ session[token] = None
          /\ session' = [session EXCEPT ![token] = login[p].name]
    /\ Goto(p, "reset")
    /\ UNCHANGED <<counter, spoilt>>

\* The SET may have been applied although it is reported as failed.
SessionFails(p) ==
    /\ At(p, "session")
    /\ "set" \in Faults
    /\ \/ UNCHANGED session
       \/ \E token \in Tokens :
             /\ session[token] = None
             /\ session' = [session EXCEPT ![token] = login[p].name]
    /\ Goto(p, "no_session")
    /\ UNCHANGED <<counter, spoilt>>

\* Mutation of ResetLoginFail: the counter is set to 0.
ResetToZero(p) ==
    /\ At(p, "reset")
    /\ counter' = [counter EXCEPT ![login[p].name] = [n |-> 0, ttl |-> 0]]
    /\ Goto(p, "ok")
    /\ UNCHANGED <<session, spoilt>>

ResetLoginFail(p) ==
    /\ At(p, "reset")
    /\ \/ /\ counter' = [counter EXCEPT ![login[p].name] = None]
          /\ spoilt' = [spoilt EXCEPT ![login[p].name] = {}]
       \/ "del" \in Faults /\ UNCHANGED <<counter, spoilt>>
    /\ Goto(p, "ok")
    /\ UNCHANGED session

Return(p) ==
    /\ login[p] # None
    /\ login[p].pc \in Returned
    /\ login' = [login EXCEPT ![p] = None]
    /\ UNCHANGED <<counter, session, spoilt>>

-----------------------------------------------------------------------------
(* Logout, and the surroundings *)

\* DestroySession and Redis's expiry of a session take the same key away.
SessionEnds(token) ==
    /\ session[token] # None
    /\ session' = [session EXCEPT ![token] = None]
    /\ UNCHANGED <<counter, login, spoilt>>

Expires(name) == counter[name] # None /\ counter[name].ttl > 0

Elapsed(c) == IF c.ttl = 1 THEN None ELSE [c EXCEPT !.ttl = @ - 1]

\* One unit of time passes for the counters that have a TTL.
CountersAge ==
    /\ \E name \in Names : Expires(name)
    /\ counter' = [name \in Names |->
                     IF Expires(name) THEN Elapsed(counter[name]) ELSE counter[name]]
    /\ spoilt' = [name \in Names |->
                    IF counter'[name] = None THEN {} ELSE spoilt[name]]
    /\ UNCHANGED <<session, login>>

Crash ==
    /\ "crash" \in Faults
    /\ login' = [p \in Procs |-> None]
    /\ spoilt' = [name \in Names |->
         IF counter[name] # None /\ \E p \in Procs : At(p, "expire") /\ login[p].name = name
         THEN spoilt[name] \cup {"ttl"}
         ELSE spoilt[name]]
    /\ UNCHANGED <<counter, session>>

LoginStep(p) ==
    \/ PasswordRight(p) \/ PasswordWrong(p)
    \/ RecordLoginFail(p) \/ RecordFails(p) \/ RecordUnseen(p) \/ ExpireCounter(p)
    \/ CreateSession(p) \/ SessionFails(p) \/ ResetLoginFail(p)

Next ==
    \/ \E p \in Procs, name \in Names, right \in BOOLEAN :
          Refuse(p, name, right) \/ Admit(p, name, right)
    \/ \E p \in Procs : LoginStep(p) \/ Return(p)
    \/ \E token \in Tokens : SessionEnds(token)
    \/ CountersAge
    \/ Crash

Spec == Init /\ [][Next]_vars

\* Goroutines and Redis's clock go on.
Fairness ==
    /\ \A p \in Procs : WF_vars(LoginStep(p))
    /\ WF_vars(CountersAge)
    /\ \A token \in Tokens : WF_vars(SessionEnds(token))

FairSpec == Spec /\ Fairness

-----------------------------------------------------------------------------
(* Properties *)

\* Types of the variables; a name without a counter has nothing that is spoilt.
TypeOK ==
    /\ counter \in [Names -> Counter \cup {None}]
    /\ session \in [Tokens -> Names \cup {None}]
    /\ login \in [Procs -> Attempt \cup {None}]
    /\ spoilt \in [Names -> SUBSET Damages]
    /\ \A name \in Names : counter[name] = None => spoilt[name] = {}

\* Logins that passed the check before the counter reached the limit may still
\* add to it: their number, and no more, is what the limit can be overrun by,
\* unless Redis hid the counter from a check or a failure it counted was sent again.
FailuresBounded ==
    \A name \in Names :
        \/ GetLoginFailCount(name) <= MaxLoginFailures - 1 + Cardinality(Procs)
        \/ "limit" \in spoilt[name]

\* A counter that would never expire exists only for the moment between its INCR
\* and its EXPIRE, or because that EXPIRE failed, was never sent since the reply to
\* the INCR was lost, or was forestalled by a crash.
CounterWillExpire ==
    \A name \in Names :
        counter[name] # None /\ counter[name].ttl = 0
        => \/ "ttl" \in spoilt[name]
           \/ \E p \in Procs : At(p, "expire") /\ login[p].name = name

\* A login with the password of a registered name is under way.
RightLogin(name) ==
    /\ name \in Registered
    /\ \E p \in Procs : login[p] # None /\ login[p].name = name /\ login[p].right

NewSession(name) == \E token \in Tokens : session[token] # name /\ session'[token] = name

ForgetsFailures(name) == GetLoginFailCount(name)' < GetLoginFailCount(name)

\* However logins interleave and whatever fails, it takes the password of a name to
\* get a session for it, or to have its failures forgotten before the TTL has run out.
PasswordDecides ==
    [][\A name \in Names :
          /\ NewSession(name) => RightLogin(name)
          /\ ForgetsFailures(name) => counter[name].ttl = 1 \/ RightLogin(name)]_vars

\* The logins that are about to set the TTL of a counter.
Renewing(name) == {p \in Procs : At(p, "expire") /\ login[p].name = name}

\* While a counter lives, no failure joins the logins that may still renew its TTL,
\* leftovers of an earlier counter of the name included, and its TTL goes up only as
\* one of them leaves: failures cannot keep a counter alive.
LivesRunOut ==
    [][\A name \in Names :
          counter[name] # None /\ counter'[name] # None
          => /\ Renewing(name)' \subseteq Renewing(name)
             /\ Renewing(name)' = Renewing(name)
                => counter'[name].ttl <= counter[name].ttl]_vars

LockedOut(name) == GetLoginFailCount(name) >= MaxLoginFailures

\* A name is locked out for good only by a counter whose EXPIRE was lost: however
\* many failures are in flight, none prolongs the life of the counter for ever.
LockoutEnds ==
    \A name \in Names : LockedOut(name) ~> ~LockedOut(name) \/ "ttl" \in spoilt[name]

\* login_limiter.go:20 "failure counters expire (15 minutes)": nobody is locked
\* out for good.
EveryLockoutEnds == \A name \in Names : LockedOut(name) ~> ~LockedOut(name)

\* Whatever fails, a login comes to an answer.
LoginAnswered ==
    \A p \in Procs : login[p] # None ~> login[p] = None \/ login[p].pc \in Returned
=============================================================================
