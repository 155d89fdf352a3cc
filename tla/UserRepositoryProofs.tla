------------------------ MODULE UserRepositoryProofs ------------------------
(* Theorems about UserRepository, for every value of its constants. *)
EXTENDS UserRepository, TLAPS

-----------------------------------------------------------------------------
(* Type correctness *)

\* A call record that keeps what TypeOK says of it.
Sound(c) ==
    /\ c \in Call
    /\ c.pc = "exec" => c.arg # None
    /\ c.pc = "found" => c.row # None

\* A write to one key keeps the type of the cache, whether or not it fails.
LEMMA CacheWriteType ==
    ASSUME TypeOK, NEW u \in Users, NEW entry \in Entry \cup {None}, NEW fault,
           CacheWrite(u, entry, fault)
    PROVE  cache' \in [Users -> Entry \cup {None}]
BY DEF CacheWrite, TypeOK

\* The entries the cache commands write are entries.
LEMMA EntryType ==
    /\ \A row \in Row : [val |-> row, ttl |-> UserCacheTTL] \in Entry
    /\ [val |-> NullUser, ttl |-> NullCacheTTL] \in Entry
BY TimeAssumption DEF Entry

\* GetUser answers a row or None, never the negative marker.
LEMMA GetUserType ==
    ASSUME TypeOK, NEW u \in Users
    PROVE  GetUser(u) \in Row \cup {None}
BY DEF TypeOK, GetUser, Entry

LEMMA NewCallType ==
    ASSUME NEW pc \in Pending \cup Returned, NEW u \in Users,
           NEW arg \in (Fields \X Values) \cup {None}, NEW row \in Row \cup {None}
    PROVE  /\ NewCall(pc, u, arg, row) \in Call
           /\ NewCall(pc, u, arg, row).pc = pc
           /\ NewCall(pc, u, arg, row).arg = arg
           /\ NewCall(pc, u, arg, row).row = row
BY DEF NewCall, Call

\* A process that starts, goes on or returns with a sound record keeps TypeOK's
\* part about calls.
LEMMA CallUpdateType ==
    ASSUME TypeOK, NEW p \in Procs, NEW c, Sound(c) \/ c = None,
           call' = [call EXCEPT ![p] = c]
    PROVE  /\ call' \in [Procs -> Call \cup {None}]
           /\ \A q \in Procs : /\ At(q, "exec")' => call'[q].arg # None
                               /\ At(q, "found")' => call'[q].row # None
BY DEF TypeOK, Sound, At

LEMMA GotoType ==
    ASSUME TypeOK, NEW p \in Procs, call[p] # None,
           NEW pc \in (Pending \cup Returned) \ {"exec", "found"}, Goto(p, pc)
    PROVE  /\ call' \in [Procs -> Call \cup {None}]
           /\ \A q \in Procs : /\ At(q, "exec")' => call'[q].arg # None
                               /\ At(q, "found")' => call'[q].row # None
<1>1. call[p] \in Call
  BY DEF TypeOK
<1>2. Sound([call[p] EXCEPT !.pc = pc])
  BY <1>1 DEF Call, Sound
<1>3. call' = [call EXCEPT ![p] = [call[p] EXCEPT !.pc = pc]]
  BY DEF Goto
<1> QED
  BY <1>2, <1>3, CallUpdateType

LEMMA TypeInit == Init => TypeOK
BY DEF Init, TypeOK, At

\* An UPDATE that changes a row leaves a row.
LEMMA ApplyType ==
    ASSUME TypeOK, NEW p \in Procs, At(p, "exec"), Apply(p)
    PROVE  db' \in [Users -> Row \cup {None}]
<1> DEFINE u == call[p].user
           field == call[p].arg[1]
           value == call[p].arg[2]
<1>1. u \in Users /\ db[u] \in Row
  BY DEF At, Apply, RowChanges, TypeOK, Call
<1>2. call[p].arg \in (Fields \X Values) \cup {None} /\ call[p].arg # None
  BY DEF At, TypeOK, Call
<1>3. field \in Fields /\ value \in Values
  BY <1>2
<1>4. [db[u] EXCEPT ![field] = value] \in Row
  BY <1>1, <1>3 DEF Row
<1>5. db' = [db EXCEPT ![u] = [db[u] EXCEPT ![field] = value]]
  BY DEF Apply
<1> QED
  BY <1>1, <1>4, <1>5 DEF TypeOK

\* Calls to GetByID.
LEMMA TypeGetByID ==
    ASSUME TypeOK, NEW p \in Procs, NEW u \in Users, GetByID(p, u)
    PROVE  TypeOK'
<1>1. CASE CacheHit(p, u)
  <2>1. Sound(NewCall("found", u, None, GetUser(u)))
    BY <1>1, GetUserType, NewCallType DEF Returned, Sound, CacheHit
  <2> QED
    BY <1>1, <2>1, CallUpdateType DEF CacheHit, TypeOK
<1>2. CASE CacheMiss(p, u)
  <2>1. Sound(NewCall("query", u, None, None))
    BY NewCallType DEF Pending, Sound
  <2> QED
    BY <1>2, <2>1, CallUpdateType DEF CacheMiss, TypeOK
<1> QED
  BY <1>1, <1>2 DEF GetByID

\* The first delete of an update.
LEMMA TypeFirstDelete ==
    ASSUME TypeOK, NEW p \in Procs, NEW u \in Users, NEW field \in Fields,
           NEW v \in Values, FirstDelete(p, u, field, v)
    PROVE  TypeOK'
<1>1. <<field, v>> \in Fields \X Values /\ <<field, v>> # None
  BY NoneAssumption
<1>2. Sound(NewCall("exec", u, <<field, v>>, None))
  BY <1>1, NewCallType DEF Pending, Sound
<1>3. cache' \in [Users -> Entry \cup {None}]
  BY CacheWriteType DEF FirstDelete, DeleteUser
<1> QED
  BY <1>2, <1>3, CallUpdateType DEF FirstDelete, TypeOK

\* The steps of a call in progress.
LEMMA TypeCallStep ==
    ASSUME TypeOK, NEW p \in Procs, CallStep(p)
    PROVE  TypeOK'
<1> DEFINE u == call[p].user
<1>1. call[p] \in Call /\ u \in Users
  BY DEF CallStep, QueryFound, QueryNoRows, QueryFails, WriteNull, ExecOk, ExecNoRows,
         ExecFails, ScheduleDelete, At, TypeOK, Call
<1>2. CASE QueryFound(p)
  <2>1. db[u] \in Row
    BY <1>1, <1>2 DEF QueryFound, TypeOK
  <2>2. Sound([call[p] EXCEPT !.pc = "found", !.row = db[u]])
    BY <1>1, <2>1, NoneAssumption DEF Call, Returned, Sound
  <2>3. call' = [call EXCEPT ![p] = [call[p] EXCEPT !.pc = "found", !.row = db[u]]]
    BY <1>2 DEF QueryFound
  <2>4. [user |-> u, row |-> db[u], left |-> FillBound] \in Fill
    BY <1>1, <2>1, TimeAssumption DEF Fill
  <2>5. fill' \in [FillSlots -> Fill \cup {None}]
    BY <1>2, <2>4 DEF QueryFound, TypeOK
  <2> QED
    BY <1>2, <2>2, <2>3, <2>5, CallUpdateType DEF QueryFound, TypeOK
<1>3. CASE QueryNoRows(p)
  BY <1>3, GotoType DEF QueryNoRows, At, Pending, TypeOK
<1>4. CASE QueryFails(p)
  BY <1>4, GotoType DEF QueryFails, At, Returned, TypeOK
<1>5. CASE WriteNull(p)
  <2>1. cache' \in [Users -> Entry \cup {None}]
    BY <1>1, <1>5, EntryType, CacheWriteType DEF WriteNull, SetNullCache
  <2> QED
    BY <1>5, <2>1, GotoType DEF WriteNull, At, Returned, TypeOK
<1>6. CASE ExecOk(p)
  BY <1>6, ApplyType, GotoType DEF ExecOk, At, Pending, TypeOK
<1>7. CASE ExecNoRows(p)
  BY <1>7, GotoType DEF ExecNoRows, At, Returned, TypeOK
<1>8. CASE ExecFails(p)
  <2>1. db' \in [Users -> Row \cup {None}]
    BY <1>8, ApplyType DEF ExecFails, TypeOK
  <2> QED
    BY <1>8, <2>1, GotoType DEF ExecFails, At, Returned, TypeOK
<1>9. CASE ScheduleDelete(p)
  <2>1. [user |-> u, left |-> DeleteDelay] \in Timer
    BY <1>1, TimeAssumption DEF Timer
  <2>2. timer' \in [TimerSlots -> Timer \cup {None}]
    BY <1>9, <2>1 DEF ScheduleDelete, TypeOK
  <2> QED
    BY <1>9, <2>2, GotoType DEF ScheduleDelete, At, Returned, TypeOK
<1> QED
  BY <1>2, <1>3, <1>4, <1>5, <1>6, <1>7, <1>8, <1>9 DEF CallStep

\* The landing of a write-back.
LEMMA TypeLandFill ==
    ASSUME TypeOK, NEW s \in FillSlots, LandFill(s)
    PROVE  TypeOK'
<1>1. fill[s].user \in Users /\ fill[s].row \in Row
  BY DEF LandFill, TypeOK, Fill
<1>2. cache' \in [Users -> Entry \cup {None}]
  BY <1>1, EntryType, CacheWriteType DEF LandFill, SetUser
<1> QED
  BY <1>2 DEF LandFill, TypeOK, At

\* The firing of a delayed delete.
LEMMA TypeDelayedDelete ==
    ASSUME TypeOK, NEW t \in TimerSlots, DelayedDelete(t)
    PROVE  TypeOK'
<1>1. timer[t].user \in Users
  BY DEF DelayedDelete, TypeOK, Timer
<1>2. cache' \in [Users -> Entry \cup {None}]
  BY <1>1, CacheWriteType DEF DelayedDelete, DeleteUser
<1> QED
  BY <1>2 DEF DelayedDelete, TypeOK, At

\* What a tick leaves of an entry: nothing, or the same value with less to live.
LEMMA ExpiredEntry ==
    ASSUME NEW entry \in Entry
    PROVE  \/ Expired(entry) = None
           \/ /\ Expired(entry) \in Entry
              /\ Expired(entry).val = entry.val
              /\ Expired(entry).ttl = entry.ttl - 1
<1> DEFINE next == [entry EXCEPT !.ttl = entry.ttl - 1]
<1>1. entry.ttl \in Nat /\ entry.ttl # 0
  BY DEF Entry
<1>2. entry.ttl # 1 => entry.ttl - 1 \in Nat \ {0}
  BY <1>1
<1>3. entry.ttl # 1 => next \in Entry
  BY <1>2 DEF Entry
<1>4. next.val = entry.val /\ next.ttl = entry.ttl - 1
  BY DEF Entry
<1>5. Expired(entry) = IF entry.ttl = 1 THEN None ELSE next
  BY DEF Expired
<1> QED
  BY <1>3, <1>4, <1>5

\* One tick.
LEMMA TypeTick ==
    ASSUME TypeOK, Tick
    PROVE  TypeOK'
<1>1. cache' \in [Users -> Entry \cup {None}]
  BY ExpiredEntry DEF Tick, TypeOK
<1>2. fill' \in [FillSlots -> Fill \cup {None}]
  BY DEF Tick, TypeOK, Aged, Fill
<1>3. timer' \in [TimerSlots -> Timer \cup {None}]
  BY DEF Tick, TypeOK, Aged, Timer
<1> QED
  BY <1>1, <1>2, <1>3 DEF Tick, TypeOK, At

\* No step leaves the types.
LEMMA TypeStep == TypeOK /\ [Next]_vars => TypeOK'
<1> SUFFICES ASSUME TypeOK, [Next]_vars PROVE TypeOK'
  OBVIOUS
<1>1. ASSUME NEW p \in Procs, NEW u \in Users,
             GetByID(p, u) \/ \E v \in Values : UpdateNickname(p, u, v)
                                             \/ UpdateProfilePicture(p, u, v)
      PROVE  TypeOK'
  BY <1>1, TypeGetByID, TypeFirstDelete DEF UpdateNickname, UpdateProfilePicture
<1>2. ASSUME NEW p \in Procs, CallStep(p) \/ Return(p) PROVE TypeOK'
  <2>1. CASE Return(p)
    BY <2>1, CallUpdateType DEF Return, TypeOK
  <2> QED
    BY <1>2, <2>1, TypeCallStep
<1>3. ASSUME NEW U \in SUBSET Users, NEW users \in [U -> Row], BatchCreate(users)
      PROVE  TypeOK'
  BY <1>3 DEF BatchCreate, TypeOK, At
<1>4. ASSUME ProcessEnds PROVE TypeOK'
  BY <1>4 DEF ProcessEnds, TypeOK, At
<1>5. CASE UNCHANGED vars
  BY <1>5 DEF vars, TypeOK, At
<1> QED
  BY <1>1, <1>2, <1>3, <1>4, <1>5, TypeLandFill, TypeDelayedDelete, TypeTick
     DEF Next, Step, Work, GracefulStop, Crash

\* Type correctness of the store, failures of every kind included.
THEOREM TypeCorrect == Spec => []TypeOK
<1> QED
  BY TypeInit, TypeStep, PTL DEF Spec

-----------------------------------------------------------------------------
(* A user who exists is found *)

\* The inductive invariant: the row of a user who existed when the call began is
\* still there, so the call never takes the branch of ErrNoRows.
ExistedInv ==
    /\ TypeOK
    /\ \A p \in Procs :
          call[p] # None /\ call[p].existed =>
              /\ db[call[p].user] # None
              /\ call[p].pc \notin {"set_null", "not_found"}

\* No step takes a row out of the users table.
LEMMA RowsStay ==
    ASSUME TypeOK, [Next]_vars
    PROVE  \A u \in Users : db[u] # None => db'[u] # None
<1>1. ASSUME NEW p \in Procs, CallStep(p), db' # db
      PROVE  \A u \in Users : db[u] # None => db'[u] # None
  <2>1. At(p, "exec") /\ Apply(p)
    BY <1>1 DEF CallStep, QueryFound, QueryNoRows, QueryFails, WriteNull, ExecOk,
                ExecNoRows, ExecFails, ScheduleDelete
  <2>2. db' \in [Users -> Row \cup {None}]
    BY <2>1, ApplyType
  <2>3. ASSUME NEW u \in Users, db[u] # None PROVE db'[u] # None
    <3>1. CASE u # call[p].user
      BY <2>1, <2>3, <3>1 DEF Apply, TypeOK
    <3>2. CASE u = call[p].user
      <4>1. /\ db[u] \in Row
            /\ call[p].arg[1] \in Fields /\ call[p].arg[2] \in Values
        BY <2>1, <2>3 DEF At, TypeOK, Call
      <4>2. db'[u] = [db[u] EXCEPT ![call[p].arg[1]] = call[p].arg[2]]
        BY <2>1, <3>2 DEF Apply, TypeOK
      <4>3. db'[u] \in Row
        BY <4>1, <4>2 DEF Row
      <4> QED
        BY <4>3, NoneAssumption
    <3> QED
      BY <3>1, <3>2
  <2> QED
    BY <2>3
<1>2. ASSUME NEW U \in SUBSET Users, NEW users \in [U -> Row], BatchCreate(users)
      PROVE  \A u \in Users : db[u] # None => db'[u] # None
  BY <1>2 DEF BatchCreate, TypeOK
<1>3. ASSUME NEW p \in Procs, NEW u \in Users,
             GetByID(p, u) \/ \E v \in Values : UpdateNickname(p, u, v)
                                             \/ UpdateProfilePicture(p, u, v)
      PROVE  db' = db
  BY <1>3 DEF GetByID, CacheHit, CacheMiss, UpdateNickname, UpdateProfilePicture, FirstDelete
<1>4. ASSUME NEW p \in Procs, Return(p) PROVE db' = db
  BY <1>4 DEF Return
<1>5. ASSUME NEW s \in FillSlots, LandFill(s) PROVE db' = db
  BY <1>5 DEF LandFill
<1>6. ASSUME NEW t \in TimerSlots, DelayedDelete(t) PROVE db' = db
  BY <1>6 DEF DelayedDelete
<1>7. Tick \/ GracefulStop \/ Crash \/ UNCHANGED vars => db' = db
  BY DEF Tick, GracefulStop, Crash, ProcessEnds, vars
<1> QED
  BY <1>1, <1>2, <1>3, <1>4, <1>5, <1>6, <1>7 DEF Next, Step, Work

LEMMA ExistedStep == ExistedInv /\ [Next]_vars => ExistedInv'
<1> SUFFICES ASSUME ExistedInv, [Next]_vars,
                    NEW p \in Procs, call'[p] # None, call'[p].existed
             PROVE  /\ db'[call'[p].user] # None
                    /\ call'[p].pc \notin {"set_null", "not_found"}
  BY TypeStep DEF ExistedInv
<1>1. TypeOK /\ TypeOK'
  BY TypeStep DEF ExistedInv
<1>2. \A u \in Users : db[u] # None => db'[u] # None
  BY <1>1, RowsStay
<1>3. CASE call'[p] = call[p]
  <2>1. call[p].user \in Users
    BY <1>1, <1>3 DEF TypeOK, Call
  <2> QED
    BY <1>2, <1>3, <2>1 DEF ExistedInv
<1>4. ASSUME NEW u \in Users, NEW pc \in {"found", "query", "exec"}, NEW arg, NEW row,
             call'[p] = NewCall(pc, u, arg, row)
      PROVE  /\ db'[call'[p].user] # None
             /\ call'[p].pc \notin {"set_null", "not_found"}
  <2>1. /\ NewCall(pc, u, arg, row).user = u
        /\ NewCall(pc, u, arg, row).pc = pc
    BY DEF NewCall
  <2>2. NewCall(pc, u, arg, row).existed <=> db[u] # None
    BY DEF NewCall
  <2> QED
    BY <1>2, <1>4, <2>1, <2>2
<1>5. ASSUME NEW q \in Procs, NEW u \in Users, GetByID(q, u)
      PROVE  /\ db'[call'[p].user] # None
             /\ call'[p].pc \notin {"set_null", "not_found"}
  BY <1>1, <1>3, <1>4, <1>5 DEF GetByID, CacheHit, CacheMiss, TypeOK
<1>6. ASSUME NEW q \in Procs, NEW u \in Users, NEW field, NEW v, FirstDelete(q, u, field, v)
      PROVE  /\ db'[call'[p].user] # None
             /\ call'[p].pc \notin {"set_null", "not_found"}
  BY <1>1, <1>3, <1>4, <1>6 DEF FirstDelete, TypeOK
<1>7. ASSUME CallStep(p)
      PROVE  /\ db'[call'[p].user] # None
             /\ call'[p].pc \notin {"set_null", "not_found"}
  <2>1. call[p] \in Call /\ call[p] # None
    BY <1>1, <1>7 DEF CallStep, QueryFound, QueryNoRows, QueryFails, WriteNull, ExecOk,
                      ExecNoRows, ExecFails, ScheduleDelete, At, TypeOK
  <2>2. call'[p].user = call[p].user /\ call'[p].existed = call[p].existed
    <3>1. CASE QueryFound(p)
      <4>1. call'[p] = [call[p] EXCEPT !.pc = "found", !.row = db[call[p].user]]
        BY <1>1, <3>1 DEF QueryFound, TypeOK
      <4> QED
        BY <2>1, <4>1 DEF Call
    <3>2. ASSUME NEW pc, Goto(p, pc)
          PROVE  call'[p].user = call[p].user /\ call'[p].existed = call[p].existed
      <4>1. call'[p] = [call[p] EXCEPT !.pc = pc]
        BY <1>1, <3>2 DEF Goto, TypeOK
      <4> QED
        BY <2>1, <4>1 DEF Call
    <3> QED
      BY <1>7, <3>1, <3>2
         DEF CallStep, QueryNoRows, QueryFails, WriteNull, ExecOk, ExecNoRows, ExecFails,
             ScheduleDelete
  <2>3. /\ call'[p].pc = "set_null" => db[call[p].user] = None
        /\ call'[p].pc = "not_found" => call[p].pc = "set_null"
    BY <1>1, <1>7, <2>1
       DEF CallStep, QueryFound, QueryNoRows, QueryFails, WriteNull, ExecOk, ExecNoRows,
           ExecFails, ScheduleDelete, Goto, At, TypeOK, Call
  <2> QED
    BY <1>2, <2>1, <2>2, <2>3 DEF ExistedInv, Call
<1>8. ASSUME NEW q \in Procs, q # p, CallStep(q) PROVE call'[p] = call[p]
  BY <1>1, <1>8
     DEF CallStep, QueryFound, QueryNoRows, QueryFails, WriteNull, ExecOk, ExecNoRows,
         ExecFails, ScheduleDelete, Goto, TypeOK
<1>9. ASSUME NEW q \in Procs, Return(q) PROVE call'[p] = call[p]
  BY <1>1, <1>9 DEF Return, TypeOK
<1>10. ~ProcessEnds
  BY DEF ProcessEnds
<1>11. ASSUME \/ \E s \in FillSlots : LandFill(s)
              \/ \E t \in TimerSlots : DelayedDelete(t)
              \/ \E U \in SUBSET Users : \E users \in [U -> Row] : BatchCreate(users)
              \/ Tick
              \/ UNCHANGED vars
       PROVE  call'[p] = call[p]
  BY <1>11 DEF LandFill, DelayedDelete, BatchCreate, Tick, vars
<1> QED
  BY <1>3, <1>5, <1>6, <1>7, <1>8, <1>9, <1>10, <1>11
     DEF Next, Step, Work, UpdateNickname, UpdateProfilePicture, GracefulStop, Crash

\* A user who was in the table when the lookup began is never reported missing,
\* with any failures and whatever negative markers Redis holds.
THEOREM Visibility == Spec => []CreatedUserVisible
<1>1. Init => ExistedInv
  BY TypeInit DEF Init, ExistedInv
<1>2. ExistedInv => CreatedUserVisible
  BY DEF ExistedInv, CreatedUserVisible, At
<1> QED
  BY <1>1, <1>2, ExistedStep, PTL DEF Spec
=============================================================================
