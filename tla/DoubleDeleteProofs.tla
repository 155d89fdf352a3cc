------------------------- MODULE DoubleDeleteProofs -------------------------
(***************************************************************************)
(* The delayed double delete, for every number of users, calls, write-backs *)
(* and timers: it works if a write-back lands sooner than the delay and no *)
(* delayed delete is lost.                                                 *)
(***************************************************************************)
EXTENDS UserRepositoryProofs

\* What the double delete does not survive: a delayed delete that fails or is
\* never scheduled, and a process that ends with deletes pending.
DeletesAreKept == Faults \cap {"redelete", "commit", "stop", "crash"} = {}

\* The inductive invariant: what is in flight explains what is in Redis.
DeleteInv == TypeOK /\ WriteBacksCovered /\ StaleOnlyWhileDeletePending

LEMMA DeleteInit == Init => DeleteInv
BY TypeInit
   DEF Init, DeleteInv, WriteBacksCovered, StaleOnlyWhileDeletePending, Stale, GetUser

\* A call that is not about to schedule its delete takes no delete away by moving.
LEMMA ScheduledStays ==
    ASSUME TypeOK, NEW p \in Procs, ~At(p, "schedule"), NEW c,
           call' = [call EXCEPT ![p] = c]
    PROVE  \A q \in Procs, u \in Users :
               At(q, "schedule") /\ call[q].user = u
               => At(q, "schedule")' /\ call'[q].user = u
BY DEF TypeOK, At

\* A step that leaves the table, the write-backs and the timers alone, and puts
\* no profile in Redis, keeps the invariant.
LEMMA QuietStep ==
    ASSUME DeleteInv, TypeOK', UNCHANGED <<db, fill, timer>>,
           \A u \in Users : GetUser(u)' \in {GetUser(u), None},
           \A q \in Procs, u \in Users :
               At(q, "schedule") /\ call[q].user = u
               => At(q, "schedule")' /\ call'[q].user = u
    PROVE  DeleteInv'
<1>1. \A u \in Users : DeletePending(u) => DeletePending(u)'
  BY DEF DeletePending
<1>2. \A u \in Users, n \in Nat : DeleteAfter(u, n) => DeleteAfter(u, n)'
  BY DEF DeleteAfter
<1>3. StaleOnlyWhileDeletePending'
  BY <1>1 DEF DeleteInv, StaleOnlyWhileDeletePending, Stale
<1>4. WriteBacksCovered'
  BY <1>2 DEF DeleteInv, WriteBacksCovered, TypeOK, Fill
<1> QED
  BY <1>3, <1>4 DEF DeleteInv

\* A cache command that fails, or removes a profile, puts none in Redis.
LEMMA NoProfileWritten ==
    ASSUME TypeOK, NEW u \in Users, NEW entry, entry = None \/ entry.val = NullUser,
           NEW fault, CacheWrite(u, entry, fault)
    PROVE  \A w \in Users : GetUser(w)' \in {GetUser(w), None}
BY DEF CacheWrite, GetUser, TypeOK

-----------------------------------------------------------------------------
(* One lemma per group of actions *)

LEMMA DeleteGetByID ==
    ASSUME DeleteInv, TypeOK', NEW p \in Procs, NEW u \in Users, GetByID(p, u)
    PROVE  DeleteInv'
<1>1. ~At(p, "schedule")
  BY DEF GetByID, CacheHit, CacheMiss, At
<1> QED
  BY <1>1, ScheduledStays, QuietStep DEF GetByID, CacheHit, CacheMiss, GetUser, DeleteInv

LEMMA DeleteFirst ==
    ASSUME DeleteInv, TypeOK', NEW p \in Procs, NEW u \in Users, NEW field, NEW v,
           FirstDelete(p, u, field, v)
    PROVE  DeleteInv'
<1>1. ~At(p, "schedule")
  BY DEF FirstDelete, At
<1>2. \A w \in Users : GetUser(w)' \in {GetUser(w), None}
  BY NoProfileWritten DEF FirstDelete, DeleteUser, DeleteInv
<1> QED
  BY <1>1, <1>2, ScheduledStays, QuietStep DEF FirstDelete, DeleteInv

\* The row a SELECT returns is the table's, so its write-back needs no delete.
LEMMA DeleteQueryFound ==
    ASSUME DeleteInv, TypeOK', NEW p \in Procs, QueryFound(p)
    PROVE  DeleteInv'
<1>1. \A q \in Procs, w \in Users :
         At(q, "schedule") /\ call[q].user = w => At(q, "schedule")' /\ call'[q].user = w
  BY DEF QueryFound, At, DeleteInv, TypeOK
<1>2. StaleOnlyWhileDeletePending'
  BY <1>1 DEF QueryFound, DeleteInv, StaleOnlyWhileDeletePending, Stale, GetUser,
              DeletePending
<1>3. ASSUME NEW s \in FillSlots, fill'[s] # None
      PROVE  /\ fill'[s].left <= FillBound
             /\ \/ fill'[s].row = db'[fill'[s].user]
                \/ DeleteAfter(fill[s].user, fill[s].left)'
  <2>1. CASE fill'[s] = fill[s]
    <3>1. fill[s].user \in Users /\ fill[s] # None
      BY <1>3, <2>1 DEF DeleteInv, TypeOK, Fill
    <3>2. /\ fill[s].left <= FillBound
          /\ fill[s].row = db[fill[s].user] \/ DeleteAfter(fill[s].user, fill[s].left)
      BY <3>1 DEF DeleteInv, WriteBacksCovered
    <3>3. DeleteAfter(fill[s].user, fill[s].left) => DeleteAfter(fill[s].user, fill[s].left)'
      BY <1>1, <2>1, <3>1 DEF QueryFound, DeleteAfter
    <3> QED
      BY <2>1, <3>2, <3>3 DEF QueryFound
  <2>2. CASE fill'[s] = [user |-> call[p].user, row |-> db[call[p].user], left |-> FillBound]
    BY <2>2, TimeAssumption DEF QueryFound
  <2> QED
    BY <2>1, <2>2 DEF QueryFound, DeleteInv, TypeOK
<1> QED
  BY <1>2, <1>3 DEF DeleteInv, WriteBacksCovered

\* From the UPDATE on, the process itself stands for the delete to come.
LEMMA DeleteExecOk ==
    ASSUME DeleteInv, TypeOK', NEW p \in Procs, ExecOk(p)
    PROVE  DeleteInv'
<1> DEFINE u == call[p].user
<1>1. At(p, "schedule")' /\ call'[p].user = u
  <2>1. call[p] \in Call
    BY DEF ExecOk, At, DeleteInv, TypeOK
  <2>2. [call[p] EXCEPT !.pc = "schedule"] \in Call
    BY <2>1 DEF Call, Pending
  <2>3. call'[p] = [call[p] EXCEPT !.pc = "schedule"]
    BY DEF ExecOk, Goto, DeleteInv, TypeOK
  <2> QED
    BY <2>1, <2>2, <2>3, NoneAssumption DEF At, Call
<1>2. \A w \in Users : w # u => db'[w] = db[w]
  BY DEF ExecOk, Apply, DeleteInv, TypeOK
<1>3. \A q \in Procs, w \in Users :
         At(q, "schedule") /\ call[q].user = w => At(q, "schedule")' /\ call'[q].user = w
  BY DEF ExecOk, At, Goto, DeleteInv, TypeOK
<1>4. StaleOnlyWhileDeletePending'
  BY <1>1, <1>2, <1>3
     DEF ExecOk, DeleteInv, StaleOnlyWhileDeletePending, Stale, GetUser, DeletePending
<1>5. WriteBacksCovered'
  BY <1>1, <1>2, <1>3 DEF ExecOk, DeleteInv, WriteBacksCovered, DeleteAfter, TypeOK, Fill
<1> QED
  BY <1>4, <1>5 DEF DeleteInv

\* The timer takes over from the process; its delay outlasts every write-back.
LEMMA DeleteScheduled ==
    ASSUME FillBound < DeleteDelay, DeleteInv, TypeOK', NEW p \in Procs, ScheduleDelete(p)
    PROVE  DeleteInv'
<1> DEFINE u == call[p].user
<1>1. PICK t \in TimerSlots :
         /\ timer[t] = None
         /\ timer' = [timer EXCEPT ![t] = [user |-> u, left |-> DeleteDelay]]
  BY DEF ScheduleDelete
<1>2. /\ timer'[t] # None /\ timer'[t].user = u /\ timer'[t].left = DeleteDelay
      /\ \A r \in TimerSlots : timer[r] # None => timer'[r] = timer[r]
  <2>1. u \in Users
    BY DEF ScheduleDelete, At, DeleteInv, TypeOK, Call
  <2>2. [user |-> u, left |-> DeleteDelay] \in Timer
    BY <2>1, TimeAssumption DEF Timer
  <2> QED
    BY <1>1, <2>2, NoneAssumption DEF DeleteInv, TypeOK
<1>3. \A q \in Procs, w \in Users :
         At(q, "schedule") /\ call[q].user = w
         => w = u \/ (At(q, "schedule")' /\ call'[q].user = w)
  BY DEF ScheduleDelete, At, Goto, DeleteInv, TypeOK
<1>4. StaleOnlyWhileDeletePending'
  BY <1>2, <1>3
     DEF ScheduleDelete, DeleteInv, StaleOnlyWhileDeletePending, Stale, GetUser, DeletePending
<1>5. ASSUME NEW s \in FillSlots, fill'[s] # None
      PROVE  /\ fill'[s].left <= FillBound
             /\ \/ fill'[s].row = db'[fill'[s].user]
                \/ DeleteAfter(fill[s].user, fill[s].left)'
  <2>0. UNCHANGED <<db, fill>>
    BY DEF ScheduleDelete
  <2>1. fill[s].left \in Nat /\ fill[s].user \in Users /\ fill[s].left <= FillBound
    BY <1>5, <2>0 DEF DeleteInv, WriteBacksCovered, TypeOK, Fill
  <2>2. DeleteDelay > fill[s].left
    BY <2>1, TimeAssumption
  <2>3. CASE fill[s].user = u
    BY <1>2, <2>0, <2>1, <2>2, <2>3 DEF DeleteAfter
  <2>4. CASE fill[s].user # u
    BY <1>2, <1>3, <1>5, <2>0, <2>1, <2>4 DEF DeleteInv, WriteBacksCovered, DeleteAfter
  <2> QED
    BY <2>3, <2>4
<1>6. WriteBacksCovered'
  BY <1>5 DEF WriteBacksCovered
<1> QED
  BY <1>4, <1>6 DEF DeleteInv

\* The other steps of a call write neither a profile to Redis nor the table.
LEMMA DeleteCallStep ==
    ASSUME FillBound < DeleteDelay, DeletesAreKept, DeleteInv, TypeOK',
           NEW p \in Procs, CallStep(p)
    PROVE  DeleteInv'
<1>1. CASE QueryNoRows(p) \/ QueryFails(p) \/ ExecNoRows(p) \/ ExecFails(p)
  <2>1. UNCHANGED <<db, cache, fill, timer>>
    BY <1>1 DEF QueryNoRows, QueryFails, ExecNoRows, ExecFails, DeletesAreKept
  <2>2. \A q \in Procs, w \in Users :
           At(q, "schedule") /\ call[q].user = w
           => At(q, "schedule")' /\ call'[q].user = w
    BY <1>1 DEF QueryNoRows, QueryFails, ExecNoRows, ExecFails, At, Goto, DeleteInv, TypeOK
  <2> QED
    BY <2>1, <2>2, QuietStep DEF GetUser
<1>2. CASE WriteNull(p)
  <2>1. call[p].user \in Users
    BY <1>2 DEF WriteNull, At, DeleteInv, TypeOK, Call
  <2>2. \A w \in Users : GetUser(w)' \in {GetUser(w), None}
    BY <1>2, <2>1, NoProfileWritten DEF WriteNull, SetNullCache, DeleteInv
  <2>3. \A q \in Procs, w \in Users :
           At(q, "schedule") /\ call[q].user = w
           => At(q, "schedule")' /\ call'[q].user = w
    BY <1>2 DEF WriteNull, At, Goto, DeleteInv, TypeOK
  <2> QED
    BY <1>2, <2>2, <2>3, QuietStep DEF WriteNull
<1> QED
  BY <1>1, <1>2, DeleteQueryFound, DeleteExecOk, DeleteScheduled DEF CallStep

\* An outdated row may land, but only while a delete is still to come.
LEMMA DeleteLandFill ==
    ASSUME DeleteInv, TypeOK', NEW s \in FillSlots, LandFill(s)
    PROVE  DeleteInv'
<1> DEFINE u == fill[s].user
<1>1. /\ u \in Users /\ fill[s].row \in Row /\ fill[s].left \in Nat
      /\ UNCHANGED <<db, timer, call>>
  BY DEF LandFill, DeleteInv, TypeOK, Fill
<1>2. \A w \in Users : GetUser(w)' = GetUser(w) \/ (w = u /\ GetUser(w)' = fill[s].row)
  BY <1>1, EntryType, NoneAssumption
     DEF LandFill, SetUser, CacheWrite, GetUser, DeleteInv, TypeOK
<1>3. fill[s].row # db[u] => DeletePending(u)
  BY DEF LandFill, DeleteInv, WriteBacksCovered, DeleteAfter, DeletePending
<1>4. StaleOnlyWhileDeletePending'
  BY <1>1, <1>2, <1>3
     DEF DeleteInv, StaleOnlyWhileDeletePending, Stale, DeletePending, At
<1>5. \A r \in FillSlots : fill'[r] # None => fill'[r] = fill[r]
  BY DEF LandFill, DeleteInv, TypeOK
<1>6. WriteBacksCovered'
  BY <1>1, <1>5 DEF DeleteInv, WriteBacksCovered, DeleteAfter, At
<1> QED
  BY <1>4, <1>6 DEF DeleteInv

\* When a delete fires, its key is gone and every outdated write-back of that user
\* has landed or has a later delete behind it.
LEMMA DeleteFires ==
    ASSUME DeletesAreKept, DeleteInv, TypeOK', NEW t \in TimerSlots, DelayedDelete(t)
    PROVE  DeleteInv'
<1>1. PICK u \in Users :
         /\ timer[t].user = u /\ timer[t].left = 0
         /\ UNCHANGED <<db, fill, call>>
         /\ cache' = [cache EXCEPT ![u] = None]
         /\ timer' = [timer EXCEPT ![t] = None]
  BY DEF DelayedDelete, DeleteUser, CacheWrite, DeletesAreKept, DeleteInv, TypeOK, Timer
<1>2. \A r \in TimerSlots : r # t => timer'[r] = timer[r]
  BY <1>1 DEF DeleteInv, TypeOK
<1>3. ~Stale(u)'
  BY <1>1 DEF Stale, GetUser, DeleteInv, TypeOK
<1>4. ASSUME NEW w \in Users, w # u, Stale(w)' PROVE DeletePending(w)'
  <2>1. DeletePending(w)
    BY <1>1, <1>4 DEF Stale, GetUser, DeleteInv, TypeOK, StaleOnlyWhileDeletePending
  <2> QED
    BY <1>1, <1>2, <1>4, <2>1 DEF DeletePending, At
<1>5. ASSUME NEW w \in Users, NEW n \in Nat, DeleteAfter(w, n) PROVE DeleteAfter(w, n)'
  BY <1>1, <1>2, <1>5 DEF DeleteAfter, At
<1>6. WriteBacksCovered'
  BY <1>1, <1>5 DEF DeleteInv, WriteBacksCovered, TypeOK, Fill
<1> QED
  BY <1>3, <1>4, <1>6 DEF DeleteInv, StaleOnlyWhileDeletePending

\* Time passes for write-backs and deletes alike, and renews no entry.
LEMMA DeleteTick ==
    ASSUME DeleteInv, TypeOK', Tick
    PROVE  DeleteInv'
<1>1. UNCHANGED <<db, call>>
  BY DEF Tick
<1>2. \A u \in Users : GetUser(u)' \in {GetUser(u), None}
  <2> TAKE u \in Users
  <2>1. CASE cache[u] = None
    BY <2>1 DEF Tick, GetUser
  <2>2. CASE cache[u] # None
    BY <2>2, ExpiredEntry DEF Tick, GetUser, DeleteInv, TypeOK
  <2> QED
    BY <2>1, <2>2
<1>3. \A t \in TimerSlots :
         timer[t] # None => /\ timer'[t] # None
                            /\ timer'[t].user = timer[t].user
                            /\ timer'[t].left = IF timer[t].left = 0 THEN 0 ELSE timer[t].left - 1
  <2> SUFFICES ASSUME NEW t \in TimerSlots, timer[t] # None
               PROVE  /\ Aged(timer[t]) # None
                      /\ Aged(timer[t]).user = timer[t].user
                      /\ Aged(timer[t]).left = IF timer[t].left = 0 THEN 0 ELSE timer[t].left - 1
    BY DEF Tick
  <2>1. timer[t] \in Timer
    BY DEF DeleteInv, TypeOK
  <2>2. Aged(timer[t]) \in Timer
    BY <2>1 DEF Aged, Timer
  <2> QED
    BY <2>1, <2>2, NoneAssumption DEF Aged, Timer
<1>4. \A s \in FillSlots :
         fill'[s] # None => /\ fill[s] # None /\ fill[s].left > 0
                            /\ fill'[s].user = fill[s].user /\ fill'[s].row = fill[s].row
                            /\ fill'[s].left = fill[s].left - 1
  BY DEF Tick, Aged, DeleteInv, TypeOK, Fill
<1>5. StaleOnlyWhileDeletePending'
  BY <1>1, <1>2, <1>3
     DEF DeleteInv, StaleOnlyWhileDeletePending, Stale, DeletePending, At
<1>6. WriteBacksCovered'
  <2> SUFFICES ASSUME NEW s \in FillSlots, fill'[s] # None
               PROVE  /\ fill'[s].left <= FillBound
                      /\ \/ fill'[s].row = db'[fill'[s].user]
                         \/ DeleteAfter(fill[s].user, fill[s].left)'
    BY DEF WriteBacksCovered
  <2>1. /\ fill[s] # None /\ fill[s].left > 0 /\ fill[s].left \in Nat
        /\ fill[s].user \in Users
        /\ fill'[s].user = fill[s].user /\ fill'[s].row = fill[s].row
        /\ fill'[s].left = fill[s].left - 1
    BY <1>4 DEF DeleteInv, TypeOK, Fill
  <2>2. fill'[s].left <= FillBound
    BY <2>1, TimeAssumption DEF DeleteInv, WriteBacksCovered
  <2>3. CASE fill[s].row = db[fill[s].user]
    BY <1>1, <2>1, <2>2, <2>3
  <2>4. CASE DeleteAfter(fill[s].user, fill[s].left)
    <3>1. DeleteAfter(fill[s].user, fill[s].left)'
      BY <1>1, <1>3, <2>1, <2>4 DEF DeleteAfter, At, DeleteInv, TypeOK, Timer
    <3> QED
      BY <2>2, <3>1
  <2> QED
    BY <2>1, <2>3, <2>4 DEF DeleteInv, WriteBacksCovered
<1> QED
  BY <1>5, <1>6 DEF DeleteInv

\* New rows appear only where there were none: no cached profile becomes stale.
LEMMA DeleteBatchCreate ==
    ASSUME DeleteInv, TypeOK', NEW U \in SUBSET Users, NEW users \in [U -> Row],
           BatchCreate(users)
    PROVE  DeleteInv'
<1>1. /\ UNCHANGED <<cache, fill, timer, call>>
      /\ \A u \in Users : db'[u] = db[u] \/ db[u] = None
  BY DEF BatchCreate
<1>2. \A u \in Users : Stale(u)' => Stale(u)
  BY <1>1 DEF Stale, GetUser
<1>3. StaleOnlyWhileDeletePending'
  BY <1>1, <1>2 DEF DeleteInv, StaleOnlyWhileDeletePending, DeletePending, At
<1>4. \A s \in FillSlots :
         fill[s] # None /\ fill[s].row = db[fill[s].user]
         => fill[s].row = db'[fill[s].user]
  BY <1>1, NoneAssumption DEF DeleteInv, TypeOK, Fill
<1>5. WriteBacksCovered'
  BY <1>1, <1>4 DEF DeleteInv, WriteBacksCovered, DeleteAfter, At
<1> QED
  BY <1>3, <1>5 DEF DeleteInv

LEMMA DeleteStep ==
    ASSUME FillBound < DeleteDelay, DeletesAreKept
    PROVE  DeleteInv /\ [Next]_vars => DeleteInv'
<1> SUFFICES ASSUME DeleteInv, [Next]_vars PROVE DeleteInv'
  OBVIOUS
<1>1. TypeOK'
  BY TypeStep DEF DeleteInv
<1>2. ASSUME NEW p \in Procs, NEW u \in Users,
             GetByID(p, u) \/ \E v \in Values : UpdateNickname(p, u, v)
                                             \/ UpdateProfilePicture(p, u, v)
      PROVE  DeleteInv'
  BY <1>1, <1>2, DeleteGetByID, DeleteFirst DEF UpdateNickname, UpdateProfilePicture
<1>3. ASSUME NEW p \in Procs, Return(p) PROVE DeleteInv'
  <2>1. ~At(p, "schedule")
    BY <1>3 DEF Return, At, Returned
  <2> QED
    BY <1>1, <1>3, <2>1, ScheduledStays, QuietStep DEF Return, GetUser, DeleteInv
<1>4. CASE UNCHANGED vars
  BY <1>1, <1>4, QuietStep DEF vars, GetUser, At
<1>5. ~GracefulStop /\ ~Crash
  BY DEF GracefulStop, Crash, DeletesAreKept
<1> QED
  BY <1>1, <1>2, <1>3, <1>4, <1>5, DeleteCallStep, DeleteLandFill, DeleteFires,
     DeleteBatchCreate, DeleteTick
     DEF Next, Step, Work

\* A write-back of an outdated row has a delete behind it, however many readers
\* and writers race.
THEOREM WriteBacksAreCovered ==
    ASSUME FillBound < DeleteDelay, DeletesAreKept
    PROVE  Spec => []WriteBacksCovered
<1>1. DeleteInv => WriteBacksCovered
  BY DEF DeleteInv
<1> QED
  BY <1>1, DeleteInit, DeleteStep, PTL DEF Spec

\* Provided write-backs land sooner than the delay and no delayed delete is lost,
\* Redis never holds an outdated profile without a delete of it still to come.
THEOREM DoubleDelete ==
    ASSUME FillBound < DeleteDelay, DeletesAreKept
    PROVE  Spec => []StaleOnlyWhileDeletePending
<1>1. DeleteInv => StaleOnlyWhileDeletePending
  BY DEF DeleteInv
<1> QED
  BY <1>1, DeleteInit, DeleteStep, PTL DEF Spec

\* And so, at any moment when no call, write-back or delete is under way, Redis
\* agrees with the users table.
THEOREM QuietConsistency ==
    ASSUME FillBound < DeleteDelay, DeletesAreKept
    PROVE  Spec => []ConsistentWhenQuiet
<1>1. StaleOnlyWhileDeletePending => ConsistentWhenQuiet
  BY DEF StaleOnlyWhileDeletePending, ConsistentWhenQuiet, DeletePending, At
<1> QED
  BY <1>1, DoubleDelete, PTL
=============================================================================
