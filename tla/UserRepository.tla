--------------------------- MODULE UserRepository ---------------------------
(***************************************************************************)
(* The profile store of the TCP server: the users table, the Redis entry   *)
(* user:<id> in front of it, and the delayed double delete that is meant   *)
(* to keep the two together (repository/user_repository.go over            *)
(* redis/user_cache.go).                                                   *)
(*                                                                         *)
(* A process is one gRPC goroutine inside one repository call.  Every      *)
(* Redis command and every SQL statement is one atomic step; anything may  *)
(* happen between two of them.  The goroutine that writes a loaded row     *)
(* back to Redis and the time.AfterFunc timer that repeats the delete      *)
(* outlive the call that started them, so they live in slots of their own. *)
(* Time is discrete: Tick takes one unit from every remaining delay.       *)
(***************************************************************************)
EXTENDS Naturals

CONSTANTS
    Users,          \* user ids
    Procs,          \* concurrent repository calls
    FillSlots,      \* bound: write-back goroutines in flight
    TimerSlots,     \* bound: delayed deletes pending
    Fields,         \* the profile columns looked at
    Values,         \* values of a profile column
    FillBound,      \* ticks from the SQL read to the landing of its write-back
    DeleteDelay,    \* doubleDeleteDelayTime
    UserCacheTTL,
    NullCacheTTL,
    Faults,         \* which operations may fail, a subset of FaultKinds
    NullUser,       \* CachedUser{Username: NullCacheValue}
    None            \* no row, no key, no call, a free slot

Row == [Fields -> Values]

\* "get", "set", "delete": a Redis command of a call or a write-back fails;
\* "retry": the reply to a write-back is lost and the client sends it again;
\* "redelete": the delete of a timer fails; "query": a SELECT fails;
\* "exec": an UPDATE is refused; "commit": an UPDATE is applied and its
\* acknowledgement lost; "stop", "crash": the process ends and is restarted.
FaultKinds == {"get", "set", "delete", "retry", "redelete", "query", "exec",
               "commit", "stop", "crash"}

\* Where a call is: before the step it takes next, or with its answer.
Pending  == {"query", "set_null", "exec", "schedule"}
Returned == {"found", "not_found", "updated", "failed"}

Entry == [val: Row \cup {NullUser}, ttl: Nat \ {0}]
Fill  == [user: Users, row: Row, left: Nat]
Timer == [user: Users, left: Nat]
\* existed is history: whether the user's row was there when the call began.
Call  == [pc: Pending \cup Returned, user: Users,
          arg: (Fields \X Values) \cup {None}, row: Row \cup {None},
          existed: BOOLEAN]

ASSUME FieldsAssumption == Fields \subseteq {"nickname", "profile_picture"}

ASSUME NoneAssumption ==
    /\ None \notin Row /\ NullUser \notin Row /\ None # NullUser
    /\ None \notin Entry /\ None \notin Fill /\ None \notin Timer
    /\ None \notin Call /\ None \notin Fields \X Values

ASSUME TimeAssumption ==
    /\ FillBound \in Nat /\ DeleteDelay \in Nat
    /\ UserCacheTTL \in Nat \ {0} /\ NullCacheTTL \in Nat \ {0}

ASSUME FaultAssumption == Faults \subseteq FaultKinds

VARIABLES
    db,      \* users table: the profile columns of a row, or None
    cache,   \* user:<id> in Redis, or None
    fill,    \* SetUser goroutines that have not landed
    timer,   \* delayed deletes that have not fired
    call     \* the repository call a process is in

vars == <<db, cache, fill, timer, call>>

Init ==
    /\ db \in [Users -> Row \cup {None}]
    /\ cache = [u \in Users |-> None]
    /\ fill = [s \in FillSlots |-> None]
    /\ timer = [t \in TimerSlots |-> None]
    /\ call = [p \in Procs |-> None]

-----------------------------------------------------------------------------
(* Redis commands *)

\* A write to the key of u, which may leave the cache alone when it fails.
CacheWrite(u, entry, fault) ==
    \/ cache' = [cache EXCEPT ![u] = entry]
    \/ fault \in Faults /\ UNCHANGED cache

\* Mutation of SetUser: an entry that never expires.
SetUserForever(u, row) == CacheWrite(u, [val |-> row, ttl |-> 0], "set")

SetUser(u, row) == CacheWrite(u, [val |-> row, ttl |-> UserCacheTTL], "set")

SetNullCache(u) == CacheWrite(u, [val |-> NullUser, ttl |-> NullCacheTTL], "set")

DeleteUser(u, fault) == CacheWrite(u, None, fault)

\* What GetUser answers: a row, or None for a missing key and for the
\* negative marker alike.
GetUser(u) ==
    IF cache[u] = None \/ cache[u].val = NullUser THEN None ELSE cache[u].val

-----------------------------------------------------------------------------
(* GetByID *)

NewCall(pc, u, arg, row) ==
    [pc |-> pc, user |-> u, arg |-> arg, row |-> row, existed |-> db[u] # None]

\* Mutation of CacheHit: a hit that renews the TTL of the entry.
CacheHitRenewing(p, u) ==
    /\ call[p] = None
    /\ GetUser(u) # None
    /\ SetUser(u, GetUser(u))
    /\ call' = [call EXCEPT ![p] = NewCall("found", u, None, GetUser(u))]
    /\ UNCHANGED <<db, fill, timer>>

CacheHit(p, u) ==
    /\ call[p] = None
    /\ GetUser(u) # None
    /\ call' = [call EXCEPT ![p] = NewCall("found", u, None, GetUser(u))]
    /\ UNCHANGED <<db, cache, fill, timer>>

\* Mutation of CacheMiss: the negative marker is an answer.
CacheMissTrusting(p, u) ==
    /\ call[p] = None
    /\ GetUser(u) = None \/ "get" \in Faults
    /\ LET pc == IF cache[u] = None THEN "query" ELSE "not_found"
       IN  call' = [call EXCEPT ![p] = NewCall(pc, u, None, None)]
    /\ UNCHANGED <<db, cache, fill, timer>>

\* A Redis error is logged and treated as a miss.
CacheMiss(p, u) ==
    /\ call[p] = None
    /\ GetUser(u) = None \/ "get" \in Faults
    /\ call' = [call EXCEPT ![p] = NewCall("query", u, None, None)]
    /\ UNCHANGED <<db, cache, fill, timer>>

GetByID(p, u) == CacheHit(p, u) \/ CacheMiss(p, u)

At(p, pc) == call[p] # None /\ call[p].pc = pc

Goto(p, pc) == call' = [call EXCEPT ![p].pc = pc]

\* The row is returned at once; its write-back to Redis runs on its own.
QueryFound(p) ==
    /\ At(p, "query")
    /\ LET u == call[p].user IN
       /\ db[u] # None
       /\ call' = [call EXCEPT ![p].pc = "found", ![p].row = db[u]]
       /\ \E s \in FillSlots :
             /\ fill[s] = None
             /\ fill' = [fill EXCEPT ![s] =
                           [user |-> u, row |-> db[u], left |-> FillBound]]
    /\ UNCHANGED <<db, cache, timer>>

QueryNoRows(p) ==
    /\ At(p, "query")
    /\ db[call[p].user] = None
    /\ Goto(p, "set_null")
    /\ UNCHANGED <<db, cache, fill, timer>>

QueryFails(p) ==
    /\ At(p, "query")
    /\ "query" \in Faults
    /\ Goto(p, "failed")
    /\ UNCHANGED <<db, cache, fill, timer>>

WriteNull(p) ==
    /\ At(p, "set_null")
    /\ SetNullCache(call[p].user)
    /\ Goto(p, "not_found")
    /\ UNCHANGED <<db, fill, timer>>

\* A retry lands the same row once more, within the same bound.
LandFill(s) ==
    /\ fill[s] # None
    /\ SetUser(fill[s].user, fill[s].row)
    /\ \/ fill' = [fill EXCEPT ![s] = None]
       \/ "retry" \in Faults /\ fill[s].left > 0 /\ UNCHANGED fill
    /\ UNCHANGED <<db, timer, call>>

-----------------------------------------------------------------------------
(* UpdateNickname, UpdateProfilePicture *)

\* Both delete the key first and go on when that fails.
FirstDelete(p, u, field, value) ==
    /\ call[p] = None
    /\ DeleteUser(u, "delete")
    /\ call' = [call EXCEPT ![p] = NewCall("exec", u, <<field, value>>, None)]
    /\ UNCHANGED <<db, fill, timer>>

UpdateNickname(p, u, nickname) ==
    "nickname" \in Fields /\ FirstDelete(p, u, "nickname", nickname)

UpdateProfilePicture(p, u, picture) ==
    "profile_picture" \in Fields /\ FirstDelete(p, u, "profile_picture", picture)

\* RowsAffected counts changed rows: the DSN does not ask for clientFoundRows.
RowChanges(u, field, value) == db[u] # None /\ db[u][field] # value

Apply(p) ==
    LET u == call[p].user
        field == call[p].arg[1]
        value == call[p].arg[2]
    IN  /\ RowChanges(u, field, value)
        /\ db' = [db EXCEPT ![u][field] = value]

ExecOk(p) ==
    /\ At(p, "exec")
    /\ Apply(p)
    /\ Goto(p, "schedule")
    /\ UNCHANGED <<cache, fill, timer>>

\* Mutation of ExecNoRows: RowsAffected is not looked at.
ExecNoRowsAnyway(p) ==
    /\ At(p, "exec")
    /\ ~RowChanges(call[p].user, call[p].arg[1], call[p].arg[2])
    /\ Goto(p, "schedule")
    /\ UNCHANGED <<db, cache, fill, timer>>

ExecNoRows(p) ==
    /\ At(p, "exec")
    /\ ~RowChanges(call[p].user, call[p].arg[1], call[p].arg[2])
    /\ Goto(p, "failed")
    /\ UNCHANGED <<db, cache, fill, timer>>

\* An error from Exec returns before the delayed delete is scheduled, whether
\* or not the server applied the statement.
ExecFails(p) ==
    /\ At(p, "exec")
    /\ \/ "exec" \in Faults /\ UNCHANGED db
       \/ "commit" \in Faults /\ Apply(p)
    /\ Goto(p, "failed")
    /\ UNCHANGED <<cache, fill, timer>>

\* Mutation of ScheduleDelete: the second delete does not wait.
ScheduleDeleteAtOnce(p) ==
    /\ At(p, "schedule")
    /\ \E t \in TimerSlots :
          /\ timer[t] = None
          /\ timer' = [timer EXCEPT ![t] = [user |-> call[p].user, left |-> 0]]
    /\ Goto(p, "updated")
    /\ UNCHANGED <<db, cache, fill>>

ScheduleDelete(p) ==
    /\ At(p, "schedule")
    /\ \E t \in TimerSlots :
          /\ timer[t] = None
          /\ timer' = [timer EXCEPT ![t] =
                         [user |-> call[p].user, left |-> DeleteDelay]]
    /\ Goto(p, "updated")
    /\ UNCHANGED <<db, cache, fill>>

\* Not before the delay has passed; jitter and scheduling may add to it.
DelayedDelete(t) ==
    /\ timer[t] # None
    /\ timer[t].left = 0
    /\ DeleteUser(timer[t].user, "redelete")
    /\ timer' = [timer EXCEPT ![t] = None]
    /\ UNCHANGED <<db, fill, call>>

-----------------------------------------------------------------------------
(* The rest of the program and its surroundings *)

Return(p) ==
    /\ call[p] # None
    /\ call[p].pc \in Returned
    /\ call' = [call EXCEPT ![p] = None]
    /\ UNCHANGED <<db, cache, fill, timer>>

\* Inserts of one transaction: a duplicate key rolls all of them back.  Redis
\* is not touched.  Create is the case of a single row.
BatchCreate(users) ==
    /\ DOMAIN users # {}
    /\ \A u \in DOMAIN users : db[u] = None
    /\ db' = [u \in Users |-> IF u \in DOMAIN users THEN users[u] ELSE db[u]]
    /\ UNCHANGED <<cache, fill, timer, call>>

ProcessEnds ==
    /\ fill' = [s \in FillSlots |-> None]
    /\ timer' = [t \in TimerSlots |-> None]
    /\ call' = [p \in Procs |-> None]
    /\ UNCHANGED <<db, cache>>

\* GracefulStop waits for the calls, not for the goroutines and timers they left.
GracefulStop ==
    /\ "stop" \in Faults
    /\ \A p \in Procs : call[p] = None
    /\ ProcessEnds

Crash == "crash" \in Faults /\ ProcessEnds

Aged(x) == [x EXCEPT !.left = IF @ = 0 THEN 0 ELSE @ - 1]

\* Redis drops a key when its time to live runs out.
Expired(entry) == IF entry.ttl = 1 THEN None ELSE [entry EXCEPT !.ttl = @ - 1]

Tick ==
    /\ \A s \in FillSlots : fill[s] # None => fill[s].left > 0
    /\ cache' = [u \in Users |-> IF cache[u] = None THEN None ELSE Expired(cache[u])]
    /\ fill' = [s \in FillSlots |-> IF fill[s] = None THEN None ELSE Aged(fill[s])]
    /\ timer' = [t \in TimerSlots |-> IF timer[t] = None THEN None ELSE Aged(timer[t])]
    /\ UNCHANGED <<db, call>>

CallStep(p) ==
    \/ QueryFound(p) \/ QueryNoRows(p) \/ QueryFails(p) \/ WriteNull(p)
    \/ ExecOk(p) \/ ExecNoRows(p) \/ ExecFails(p) \/ ScheduleDelete(p)

Work ==
    \/ \E p \in Procs, u \in Users :
          \/ GetByID(p, u)
          \/ \E v \in Values : UpdateNickname(p, u, v) \/ UpdateProfilePicture(p, u, v)
    \/ \E p \in Procs : CallStep(p) \/ Return(p)
    \/ \E s \in FillSlots : LandFill(s)
    \/ \E t \in TimerSlots : DelayedDelete(t)
    \/ \E U \in SUBSET Users : \E users \in [U -> Row] : BatchCreate(users)

Step == Work \/ GracefulStop \/ Crash

Next == Step \/ Tick

Spec == Init /\ [][Next]_vars

\* The behaviors of a process that keeps running.
SpecRunning == Init /\ [][Work \/ Tick]_vars

Fairness ==
    /\ WF_vars(Tick)
    /\ \A s \in FillSlots : WF_vars(LandFill(s))

-----------------------------------------------------------------------------
(* Properties *)

\* Types of the variables; a call about to UPDATE knows the column and value, and
\* one that found its user holds a row.
TypeOK ==
    /\ db \in [Users -> Row \cup {None}]
    /\ cache \in [Users -> Entry \cup {None}]
    /\ fill \in [FillSlots -> Fill \cup {None}]
    /\ timer \in [TimerSlots -> Timer \cup {None}]
    /\ call \in [Procs -> Call \cup {None}]
    /\ \A p \in Procs : /\ At(p, "exec") => call[p].arg # None
                        /\ At(p, "found") => call[p].row # None

Stale(u) == GetUser(u) # None /\ GetUser(u) # db[u]

DeletePending(u) ==
    \/ \E p \in Procs : At(p, "schedule") /\ call[p].user = u
    \/ \E t \in TimerSlots : timer[t] # None /\ timer[t].user = u

\* What the delayed double delete buys: whenever Redis holds a profile that
\* differs from the users table, a delete of that key is still to come.  Holds
\* if write-backs land sooner than the delay and no delayed delete is lost.
StaleOnlyWhileDeletePending == \A u \in Users : Stale(u) => DeletePending(u)

\* Why that holds.  A write-back of an outdated row always has a delete of its
\* key behind it that has not started its delay or fires after it has landed.
DeleteAfter(u, n) ==
    \/ \E p \in Procs : At(p, "schedule") /\ call[p].user = u
    \/ \E t \in TimerSlots : timer[t] # None /\ timer[t].user = u /\ timer[t].left > n

WriteBacksCovered ==
    \A s \in FillSlots :
        fill[s] # None =>
            /\ fill[s].left <= FillBound
            /\ \/ fill[s].row = db[fill[s].user]
               \/ DeleteAfter(fill[s].user, fill[s].left)

\* A lookup of a user who was already in the table when it began never answers
\* "not found", whatever negative marker is left in Redis.
CreatedUserVisible ==
    \A p \in Procs : At(p, "not_found") => ~call[p].existed

\* Whatever fails: once the updates of a user stop, Redis comes to agree with the
\* users table and stays so, even with readers at the entry all the time.
EventuallyConsistent ==
    \A u \in Users : <>[][db'[u] = db[u]]_vars => <>[]~Stale(u)

\* tcpserver/README.md:56 "delayed double delete: guarantees cache consistency":
\* once nothing is in flight, what Redis holds is what the table holds.
ConsistentWhenQuiet ==
    (/\ \A p \in Procs : call[p] = None
     /\ \A s \in FillSlots : fill[s] = None
     /\ \A t \in TimerSlots : timer[t] = None)
    => \A u \in Users : ~Stale(u)

\* tcpserver/README.md:55 "negative cache: prevents cache penetration": a lookup
\* that finds the negative marker goes no further than Redis.
NegativeEntryShieldsTable ==
    [][\A p \in Procs :
         call[p] = None /\ call'[p] # None /\ call'[p].pc = "query"
         => cache[call'[p].user] = None]_vars
=============================================================================
