------------------------ MODULE CacheStalenessProofs ------------------------
(***************************************************************************)
(* How outdated a cached profile can be, for every number of users, calls, *)
(* write-backs and timers, and with every kind of failure.                 *)
(***************************************************************************)
EXTENDS CacheStaleness, UserRepositoryProofs

\* A cached profile has used up its share of the bound by as much as its TTL has
\* run down; a write-back by as much as it has travelled.
CacheFresh ==
    \A u \in Users :
        GetUser(u) # None =>
            /\ cache[u].ttl <= UserCacheTTL
            /\ age[u][GetUser(u)] <= FillBound + UserCacheTTL - cache[u].ttl

FillsFresh ==
    \A s \in FillSlots :
        fill[s] # None =>
            /\ fill[s].left <= FillBound
            /\ age[fill[s].user][fill[s].row] <= FillBound - fill[s].left

TableIsNew == \A u \in Users : db[u] # None => age[u][db[u]] = 0

AgeInv == TypeOKAged /\ TableIsNew /\ CacheFresh /\ FillsFresh

LEMMA HorizonType == Horizon \in Nat /\ StalenessBound \in Nat /\ StalenessBound < Horizon
BY TimeAssumption DEF Horizon, StalenessBound

LEMMA AgeInit == InitAged => AgeInv
BY TypeInit, HorizonType
   DEF InitAged, Init, AgeInv, TypeOKAged, TableIsNew, CacheFresh, FillsFresh, GetUser

\* What every step but a tick does to the history variable.
LEMMA AgeInStep ==
    ASSUME AgeInv, TypeOK', StepAged
    PROVE  /\ age' \in [Users -> [Row -> 0..Horizon]]
           /\ TableIsNew'
           /\ \A u \in Users, row \in Row : age'[u][row] <= age[u][row]
<1>1. age' \in [Users -> [Row -> 0..Horizon]]
  BY HorizonType DEF AgeInv, TypeOKAged, StepAged
<1>2. TableIsNew'
  BY DEF StepAged, TableIsNew, TypeOK
<1>3. ASSUME NEW u \in Users, NEW row \in Row PROVE age'[u][row] <= age[u][row]
  <2>1. age[u][row] \in 0..Horizon
    BY DEF AgeInv, TypeOKAged
  <2>2. age'[u][row] = IF db'[u] = row THEN 0 ELSE age[u][row]
    BY DEF StepAged
  <2> QED
    BY <2>1, <2>2, HorizonType
<1> QED
  BY <1>1, <1>2, <1>3

\* Writing None or the negative marker puts no profile in Redis.
LEMMA NoNewProfile ==
    ASSUME TypeOK, NEW u \in Users, NEW entry, entry = None \/ entry.val = NullUser,
           NEW fault, CacheWrite(u, entry, fault)
    PROVE  \A w \in Users : GetUser(w)' = None \/ cache'[w] = cache[w]
BY DEF CacheWrite, GetUser, TypeOK

\* What a step other than a tick leaves in Redis: for each user what was there, no
\* profile, or the row of a write-back that has landed.
LEMMA StepCache ==
    ASSUME TypeOK, Step
    PROVE  \A w \in Users :
              \/ GetUser(w)' = None
              \/ cache'[w] = cache[w]
              \/ \E s \in FillSlots :
                    /\ fill[s] # None /\ fill[s].user = w
                    /\ cache'[w] = [val |-> fill[s].row, ttl |-> UserCacheTTL]
<1>1. ASSUME NEW p \in Procs, NEW u \in Users, NEW field, NEW v, FirstDelete(p, u, field, v)
      PROVE  \A w \in Users : GetUser(w)' = None \/ cache'[w] = cache[w]
  BY <1>1, NoNewProfile DEF FirstDelete, DeleteUser
<1>2. ASSUME NEW p \in Procs, WriteNull(p)
      PROVE  \A w \in Users : GetUser(w)' = None \/ cache'[w] = cache[w]
  <2>1. call[p].user \in Users
    BY <1>2 DEF WriteNull, At, TypeOK, Call
  <2> QED
    BY <1>2, <2>1, NoNewProfile DEF WriteNull, SetNullCache
<1>3. ASSUME NEW t \in TimerSlots, DelayedDelete(t)
      PROVE  \A w \in Users : GetUser(w)' = None \/ cache'[w] = cache[w]
  <2>1. timer[t].user \in Users
    BY <1>3 DEF DelayedDelete, TypeOK, Timer
  <2> QED
    BY <1>3, <2>1, NoNewProfile DEF DelayedDelete, DeleteUser
<1>4. ASSUME NEW s \in FillSlots, LandFill(s), NEW w \in Users
      PROVE  \/ cache'[w] = cache[w]
             \/ /\ fill[s] # None /\ fill[s].user = w
                /\ cache'[w] = [val |-> fill[s].row, ttl |-> UserCacheTTL]
  BY <1>4 DEF LandFill, SetUser, CacheWrite, TypeOK
<1>5. ASSUME NEW p \in Procs, CallStep(p), ~WriteNull(p) PROVE cache' = cache
  BY <1>5 DEF CallStep, QueryFound, QueryNoRows, QueryFails, ExecOk, ExecNoRows, ExecFails,
              ScheduleDelete
<1>6. ASSUME \/ \E p \in Procs, u \in Users : GetByID(p, u)
             \/ \E p \in Procs : Return(p)
             \/ \E U \in SUBSET Users : \E users \in [U -> Row] : BatchCreate(users)
             \/ GracefulStop
             \/ Crash
      PROVE  cache' = cache
  BY <1>6 DEF GetByID, CacheHit, CacheMiss, Return, BatchCreate, GracefulStop, Crash,
              ProcessEnds
<1> QED
  BY <1>1, <1>2, <1>3, <1>4, <1>5, <1>6
     DEF Step, Work, UpdateNickname, UpdateProfilePicture

\* What a step other than a tick leaves in flight: what was there, or the write-back
\* of the row the table holds.
LEMMA StepFill ==
    ASSUME TypeOK, Step
    PROVE  \A s \in FillSlots :
              \/ fill'[s] = None
              \/ fill'[s] = fill[s]
              \/ \E u \in Users :
                    /\ db'[u] = db[u] /\ db[u] # None
                    /\ fill'[s] = [user |-> u, row |-> db[u], left |-> FillBound]
<1>1. ASSUME NEW p \in Procs, QueryFound(p)
      PROVE  \A s \in FillSlots :
                \/ fill'[s] = fill[s]
                \/ \E u \in Users :
                      /\ db'[u] = db[u] /\ db[u] # None
                      /\ fill'[s] = [user |-> u, row |-> db[u], left |-> FillBound]
  <2>1. call[p].user \in Users
    BY <1>1 DEF QueryFound, At, TypeOK, Call
  <2> QED
    BY <1>1, <2>1 DEF QueryFound, TypeOK
<1>2. ASSUME NEW s \in FillSlots, LandFill(s)
      PROVE  \A r \in FillSlots : fill'[r] = None \/ fill'[r] = fill[r]
  BY <1>2 DEF LandFill, TypeOK
<1>3. ASSUME NEW p \in Procs, CallStep(p), ~QueryFound(p) PROVE fill' = fill
  BY <1>3 DEF CallStep, QueryNoRows, QueryFails, WriteNull, ExecOk, ExecNoRows, ExecFails,
              ScheduleDelete
<1>4. ASSUME \/ \E p \in Procs, u \in Users :
                   GetByID(p, u) \/ \E v \in Values : UpdateNickname(p, u, v)
                                                   \/ UpdateProfilePicture(p, u, v)
             \/ \E p \in Procs : Return(p)
             \/ \E t \in TimerSlots : DelayedDelete(t)
             \/ \E U \in SUBSET Users : \E users \in [U -> Row] : BatchCreate(users)
      PROVE  fill' = fill
  BY <1>4 DEF GetByID, CacheHit, CacheMiss, UpdateNickname, UpdateProfilePicture,
              FirstDelete, Return, DelayedDelete, BatchCreate
<1>5. ProcessEnds => \A s \in FillSlots : fill'[s] = None
  BY DEF ProcessEnds
<1> QED
  BY <1>1, <1>2, <1>3, <1>4, <1>5 DEF Step, Work, GracefulStop, Crash

-----------------------------------------------------------------------------
(* The invariant is kept *)

LEMMA AgeStep ==
    ASSUME AgeInv, TypeOK', StepAged
    PROVE  AgeInv'
<1>1. TypeOK /\ Step
  BY DEF AgeInv, TypeOKAged, StepAged
<1>2. /\ age' \in [Users -> [Row -> 0..Horizon]]
      /\ age \in [Users -> [Row -> 0..Horizon]]
      /\ TableIsNew'
      /\ \A u \in Users, row \in Row : age'[u][row] <= age[u][row]
  BY AgeInStep DEF AgeInv, TypeOKAged
<1>3. ASSUME NEW u \in Users, GetUser(u)' # None
      PROVE  /\ cache'[u].ttl <= UserCacheTTL
             /\ age'[u][cache'[u].val] <= FillBound + UserCacheTTL - cache'[u].ttl
  <2>1. GetUser(u)' = cache'[u].val /\ cache'[u] # None /\ cache'[u].val # NullUser
    BY <1>3 DEF GetUser
  <2>2. cache'[u] \in Entry /\ cache'[u].val \in Row /\ cache'[u].ttl \in Nat
    BY <2>1 DEF TypeOK, Entry
  <2>3. /\ age'[u][cache'[u].val] \in Nat /\ age[u][cache'[u].val] \in Nat
        /\ age'[u][cache'[u].val] <= age[u][cache'[u].val]
    BY <1>2, <2>2, HorizonType
  <2>4. CASE cache'[u] = cache[u]
    <3>1. GetUser(u) = cache'[u].val /\ GetUser(u) # None
      BY <1>3, <2>1, <2>4 DEF GetUser
    <3>2. /\ cache[u].ttl <= UserCacheTTL
          /\ age[u][cache'[u].val] <= FillBound + UserCacheTTL - cache[u].ttl
      BY <3>1 DEF AgeInv, CacheFresh
    <3> QED
      BY <2>2, <2>3, <2>4, <3>2, TimeAssumption
  <2>5. ASSUME NEW s \in FillSlots, fill[s] # None, fill[s].user = u,
               cache'[u] = [val |-> fill[s].row, ttl |-> UserCacheTTL]
        PROVE  /\ cache'[u].ttl <= UserCacheTTL
               /\ age'[u][cache'[u].val] <= FillBound + UserCacheTTL - cache'[u].ttl
    <3>1. fill[s].left \in Nat
      BY <1>1, <2>5 DEF TypeOK, Fill
    <3>2. age[u][cache'[u].val] <= FillBound - fill[s].left
      BY <2>5 DEF AgeInv, FillsFresh
    <3> QED
      BY <2>3, <2>5, <3>1, <3>2, TimeAssumption
  <2> QED
    BY <1>1, <1>3, <2>4, <2>5, StepCache
<1>4. CacheFresh'
  BY <1>3 DEF CacheFresh, GetUser
<1>5. ASSUME NEW s \in FillSlots, fill'[s] # None
      PROVE  /\ fill'[s].left <= FillBound
             /\ age'[fill'[s].user][fill'[s].row] <= FillBound - fill'[s].left
  <2>1. fill'[s].user \in Users /\ fill'[s].row \in Row /\ fill'[s].left \in Nat
    BY <1>5 DEF TypeOK, Fill
  <2>2. /\ age'[fill'[s].user][fill'[s].row] \in Nat
        /\ age[fill'[s].user][fill'[s].row] \in Nat
        /\ age'[fill'[s].user][fill'[s].row] <= age[fill'[s].user][fill'[s].row]
    BY <1>2, <2>1, HorizonType
  <2>3. CASE fill'[s] = fill[s]
    BY <1>5, <2>1, <2>2, <2>3, TimeAssumption DEF AgeInv, FillsFresh
  <2>4. ASSUME NEW u \in Users, db'[u] = db[u], db[u] # None,
               fill'[s] = [user |-> u, row |-> db[u], left |-> FillBound]
        PROVE  /\ fill'[s].left <= FillBound
               /\ age'[fill'[s].user][fill'[s].row] <= FillBound - fill'[s].left
    <3>1. age[u][db[u]] = 0
      BY <2>4 DEF AgeInv, TableIsNew
    <3> QED
      BY <2>2, <2>4, <3>1, TimeAssumption
  <2> QED
    BY <1>1, <1>5, <2>3, <2>4, StepFill
<1>6. FillsFresh'
  BY <1>5 DEF FillsFresh
<1> QED
  BY <1>2, <1>4, <1>6 DEF AgeInv, TypeOKAged

\* A tick adds one to every age and takes one from every TTL and journey.
LEMMA AgeTick ==
    ASSUME AgeInv, TypeOK', TickAged
    PROVE  AgeInv'
<1>1. TypeOK /\ Tick /\ db' = db
  BY DEF AgeInv, TypeOKAged, TickAged, Tick
<1>2. age' \in [Users -> [Row -> 0..Horizon]] /\ age \in [Users -> [Row -> 0..Horizon]]
  BY HorizonType DEF AgeInv, TypeOKAged, TickAged, Older
<1>3. ASSUME NEW u \in Users, NEW row \in Row
      PROVE  /\ age[u][row] \in Nat /\ age'[u][row] \in Nat
             /\ age'[u][row] <= age[u][row] + 1
  <2>1. age[u][row] \in 0..Horizon /\ age'[u][row] \in 0..Horizon
    BY <1>2
  <2>2. age'[u][row] = IF db[u] = row THEN 0 ELSE Older(age[u][row])
    BY DEF TickAged
  <2> QED
    BY <2>1, <2>2, HorizonType DEF Older
<1>4. TableIsNew'
  BY <1>1 DEF TableIsNew, TickAged, TypeOK
<1>5. ASSUME NEW u \in Users, GetUser(u)' # None
      PROVE  /\ cache'[u].ttl <= UserCacheTTL
             /\ age'[u][cache'[u].val] <= FillBound + UserCacheTTL - cache'[u].ttl
  <2>1. cache'[u] # None /\ cache'[u].val # NullUser
    BY <1>5 DEF GetUser
  <2>2. cache[u] # None /\ cache[u] \in Entry /\ cache'[u] = Expired(cache[u])
    BY <1>1, <2>1 DEF Tick, TypeOK
  <2>3. cache'[u].val = cache[u].val /\ cache'[u].ttl = cache[u].ttl - 1
    BY <2>1, <2>2, ExpiredEntry
  <2>4. GetUser(u) = cache[u].val /\ cache[u].val \in Row /\ cache[u].ttl \in Nat
    BY <2>1, <2>2, <2>3 DEF GetUser, Entry
  <2>5. /\ cache[u].ttl <= UserCacheTTL
        /\ age[u][cache[u].val] <= FillBound + UserCacheTTL - cache[u].ttl
    BY <2>4, NoneAssumption DEF AgeInv, CacheFresh
  <2> QED
    BY <1>3, <2>3, <2>4, <2>5, TimeAssumption
<1>6. CacheFresh'
  BY <1>5 DEF CacheFresh, GetUser
<1>7. ASSUME NEW s \in FillSlots, fill'[s] # None
      PROVE  /\ fill'[s].left <= FillBound
             /\ age'[fill'[s].user][fill'[s].row] <= FillBound - fill'[s].left
  <2>1. /\ fill[s] # None /\ fill[s].left > 0 /\ fill[s].left \in Nat
        /\ fill[s].user \in Users /\ fill[s].row \in Row
        /\ fill'[s].user = fill[s].user /\ fill'[s].row = fill[s].row
        /\ fill'[s].left = fill[s].left - 1
    BY <1>1, <1>7 DEF Tick, Aged, TypeOK, Fill
  <2>2. /\ fill[s].left <= FillBound
        /\ age[fill[s].user][fill[s].row] <= FillBound - fill[s].left
    BY <2>1 DEF AgeInv, FillsFresh
  <2> QED
    BY <1>3, <2>1, <2>2, TimeAssumption
<1>8. FillsFresh'
  BY <1>7 DEF FillsFresh
<1> QED
  BY <1>2, <1>4, <1>6, <1>8 DEF AgeInv, TypeOKAged

LEMMA AgeNext == AgeInv /\ [NextAged]_agedVars => AgeInv'
<1> SUFFICES ASSUME AgeInv, [NextAged]_agedVars PROVE AgeInv'
  OBVIOUS
<1>1. TypeOK'
  BY TypeStep DEF AgeInv, TypeOKAged, NextAged, StepAged, TickAged, Next, agedVars
<1>2. CASE UNCHANGED agedVars
  BY <1>1, <1>2
     DEF agedVars, vars, AgeInv, TypeOKAged, TableIsNew, CacheFresh, FillsFresh, GetUser
<1> QED
  BY <1>1, <1>2, AgeStep, AgeTick DEF NextAged

LEMMA FreshIsBounded == AgeInv => BoundedStaleness
<1> SUFFICES ASSUME AgeInv, NEW u \in Users, GetUser(u) # None
             PROVE  age[u][GetUser(u)] <= StalenessBound
  BY DEF BoundedStaleness
<1>1. cache[u].ttl \in Nat /\ GetUser(u) \in Row
  BY GetUserType DEF AgeInv, TypeOKAged, TypeOK, Entry, GetUser
<1>2. age[u][GetUser(u)] \in Nat
  BY <1>1, HorizonType DEF AgeInv, TypeOKAged
<1>3. age[u][GetUser(u)] <= FillBound + UserCacheTTL - cache[u].ttl
  BY DEF AgeInv, CacheFresh
<1> QED
  BY <1>1, <1>2, <1>3, TimeAssumption DEF StalenessBound

\* The history variable stays well-typed with the rest of the state.
THEOREM AgedTypeCorrect == SpecAged => []TypeOKAged
<1>1. AgeInv => TypeOKAged
  BY DEF AgeInv
<1> QED
  BY <1>1, AgeInit, AgeNext, PTL DEF SpecAged

\* With every kind of failure, lost deletes and crashes included, a profile in Redis
\* was the content of the users table at most FillBound + UserCacheTTL ticks ago.
THEOREM StalenessIsBounded == SpecAged => []BoundedStaleness
<1> QED
  BY FreshIsBounded, AgeInit, AgeNext, PTL DEF SpecAged

-----------------------------------------------------------------------------
(* The store implements Profile *)

PromiseInv == AgeInv /\ ExistedInv

LEMMA SeenUpdate ==
    ASSUME TypeOK, NEW p \in Procs, NEW c, call' = [call EXCEPT ![p] = c]
    PROVE  SeenCalls' = [SeenCalls EXCEPT ![p] = Seen(c)]
BY DEF SeenCalls, TypeOK

LEMMA SeenAt ==
    ASSUME TypeOK, NEW p \in Procs, NEW pc \in {"query", "exec", "schedule"} \cup Returned
    PROVE  At(p, pc) =>
              /\ SeenCalls[p] = call[p]
              /\ Promise!At(p, pc)
BY DEF SeenCalls, Seen, At, Promise!At, Returned

LEMMA SeenIdle ==
    ASSUME TypeOK, NEW p \in Procs, call[p] = None
    PROVE  SeenCalls[p] = None
BY DEF SeenCalls, Seen

\* A call that goes on to a place its caller can tell.
LEMMA SeenGoto ==
    ASSUME TypeOK, NEW p \in Procs, NEW pc \in {"exec", "schedule"} \cup Returned,
           call[p] # None, Goto(p, pc)
    PROVE  Promise!Goto(p, pc)
<1>1. call[p] \in Call
  BY DEF TypeOK
<1>2. Seen([call[p] EXCEPT !.pc = pc]) = [SeenCalls[p] EXCEPT !.pc = pc]
  BY <1>1 DEF Seen, SeenCalls, Returned, Call
<1>3. call' = [call EXCEPT ![p] = [call[p] EXCEPT !.pc = pc]]
  BY DEF Goto
<1>4. SeenCalls' = [SeenCalls EXCEPT ![p] = [SeenCalls[p] EXCEPT !.pc = pc]]
  BY <1>2, <1>3, SeenUpdate
<1> QED
  BY <1>4 DEF Promise!Goto

LEMMA SeenNew ==
    ASSUME TypeOK, NEW p \in Procs, NEW pc, pc # "set_null",
           NEW u \in Users, NEW arg, NEW row,
           call' = [call EXCEPT ![p] = NewCall(pc, u, arg, row)]
    PROVE  SeenCalls' = [SeenCalls EXCEPT ![p] = Promise!New(pc, u, arg, row)]
<1> DEFINE c == NewCall(pc, u, arg, row)
<1>1. Seen(c) = Promise!New(pc, u, arg, row)
  BY DEF Seen, NewCall, Promise!New
<1>2. call' = [call EXCEPT ![p] = c]
  OBVIOUS
<1> HIDE DEF c
<1>3. SeenCalls' = [SeenCalls EXCEPT ![p] = Seen(c)]
  BY <1>2, SeenUpdate
<1> QED
  BY <1>1, <1>3

\* The start of a call.
LEMMA PromiseGetByID ==
    ASSUME PromiseInv, NEW p \in Procs, NEW u \in Users, GetByID(p, u)
    PROVE  Promise!CallStep(p)
<1>1. TypeOK /\ BoundedStaleness
  BY FreshIsBounded DEF PromiseInv, AgeInv, TypeOKAged
<1>2. CASE CacheHit(p, u)
  <2>1. GetUser(u) \in Row /\ age[u][GetUser(u)] <= StalenessBound
    BY <1>1, <1>2, GetUserType DEF CacheHit, BoundedStaleness
  <2>2. SeenCalls' = [SeenCalls EXCEPT ![p] = Promise!New("found", u, None, GetUser(u))]
    BY <1>1, <1>2, SeenNew DEF CacheHit
  <2>3. Promise!ReadAtOnce(p, u)
    BY <1>1, <1>2, <2>1, <2>2, SeenIdle
       DEF CacheHit, Promise!ReadAtOnce, Promise!Recent, Promise!Row, Row
  <2> QED
    BY <2>3 DEF Promise!CallStep
<1>3. CASE CacheMiss(p, u)
  <2>1. SeenCalls' = [SeenCalls EXCEPT ![p] = Promise!New("query", u, None, None)]
    <3>1. call' = [call EXCEPT ![p] = NewCall("query", u, None, None)]
      BY <1>3 DEF CacheMiss
    <3> QED
      BY <1>1, <3>1, SeenNew
  <2>2. Promise!StartRead(p, u)
    BY <1>1, <1>3, <2>1, SeenIdle DEF CacheMiss, Promise!StartRead
  <2> QED
    BY <2>2 DEF Promise!CallStep
<1> QED
  BY <1>2, <1>3 DEF GetByID

LEMMA PromiseFirstDelete ==
    ASSUME TypeOK, NEW p \in Procs, NEW u \in Users, NEW field \in Fields,
           NEW v \in Values, FirstDelete(p, u, field, v)
    PROVE  Promise!CallStep(p)
<1>1. SeenCalls' = [SeenCalls EXCEPT ![p] = Promise!New("exec", u, <<field, v>>, None)]
  <2>1. call' = [call EXCEPT ![p] = NewCall("exec", u, <<field, v>>, None)]
    BY DEF FirstDelete
  <2> QED
    BY <2>1, SeenNew
<1>2. Promise!StartUpdate(p, u, field, v)
  BY <1>1, SeenIdle DEF FirstDelete, Promise!StartUpdate
<1> QED
  BY <1>2 DEF Promise!CallStep

\* The row a SELECT finds is the newest there is.
LEMMA PromiseQueryFound ==
    ASSUME PromiseInv, NEW p \in Procs, QueryFound(p)
    PROVE  Promise!Found(p)
<1> DEFINE u == call[p].user
           c == [call[p] EXCEPT !.pc = "found", !.row = db[u]]
<1>1. TypeOK /\ At(p, "query") /\ call[p] \in Call /\ u \in Users /\ db[u] \in Row
  BY DEF PromiseInv, AgeInv, TypeOKAged, QueryFound, At, TypeOK, Call
<1>2. age[u][db[u]] <= StalenessBound
  BY <1>1, HorizonType DEF PromiseInv, AgeInv, TableIsNew, QueryFound
<1>3. SeenCalls[p] = call[p] /\ Promise!At(p, "query")
  BY <1>1, SeenAt
<1>4. Seen(c) = c
  BY <1>1 DEF Seen, Call
<1>5. call' = [call EXCEPT ![p] = c] /\ db' = db
  BY DEF QueryFound
<1>6. SeenCalls' = [SeenCalls EXCEPT ![p] = c]
  BY <1>1, <1>4, <1>5, SeenUpdate
<1>7. SeenCalls' = [SeenCalls EXCEPT ![p].pc = "found", ![p].row = db[u]]
  BY <1>3, <1>6
<1>8. SeenCalls[p].user = u
  BY <1>3
<1> HIDE DEF u
<1> QED
  BY <1>1, <1>2, <1>3, <1>5, <1>7, <1>8 DEF Promise!Found, Promise!Recent, Promise!Row, Row

\* That a SELECT found nothing is not seen before the negative entry is written.
LEMMA PromiseQueryNoRows ==
    ASSUME TypeOK, NEW p \in Procs, QueryNoRows(p)
    PROVE  SeenCalls' = SeenCalls
<1> DEFINE c == [call[p] EXCEPT !.pc = "set_null"]
<1>1. call[p] \in Call /\ call[p].pc = "query"
  BY DEF QueryNoRows, At, TypeOK
<1>2. c \in Call /\ c # None /\ c.pc = "set_null"
  BY <1>1, NoneAssumption DEF Call, Pending
<1>3. Seen(c) = call[p]
  BY <1>1, <1>2 DEF Seen, Call
<1>4. call' = [call EXCEPT ![p] = c]
  BY DEF QueryNoRows, Goto
<1>5. SeenCalls[p] = call[p]
  BY <1>1 DEF SeenCalls, Seen
<1> QED
  BY <1>3, <1>4, <1>5, SeenUpdate DEF SeenCalls

LEMMA PromiseWriteNull ==
    ASSUME PromiseInv, NEW p \in Procs, WriteNull(p)
    PROVE  Promise!NotFound(p)
<1>1. TypeOK /\ call[p] \in Call /\ call[p] # None /\ call[p].pc = "set_null"
  BY DEF PromiseInv, AgeInv, TypeOKAged, WriteNull, At, TypeOK
<1>2. SeenCalls[p] = [call[p] EXCEPT !.pc = "query"]
  BY <1>1 DEF SeenCalls, Seen
<1>3. SeenCalls[p] \in Call /\ SeenCalls[p].pc = "query"
  BY <1>1, <1>2 DEF Call, Pending
<1>4. ~SeenCalls[p].existed
  BY <1>1, <1>2 DEF PromiseInv, ExistedInv, Call
<1>5. Promise!Goto(p, "not_found")
  BY <1>1, SeenGoto DEF WriteNull, Returned
<1> QED
  BY <1>3, <1>4, <1>5, NoneAssumption DEF WriteNull, Promise!NotFound, Promise!At

LEMMA PromiseApply ==
    ASSUME TypeOK, NEW p \in Procs, At(p, "exec"), Apply(p)
    PROVE  Promise!Change(p)
<1>1. SeenCalls[p] = call[p]
  BY SeenAt
<1> QED
  BY <1>1 DEF Apply, RowChanges, Promise!Change

\* The other steps of a call.
LEMMA PromiseCallStep ==
    ASSUME PromiseInv, NEW p \in Procs, CallStep(p)
    PROVE  Promise!CallStep(p) \/ (db' = db /\ SeenCalls' = SeenCalls)
<1>1. TypeOK
  BY DEF PromiseInv, AgeInv, TypeOKAged
<1>2. CASE QueryFound(p)
  BY <1>2, PromiseQueryFound DEF Promise!CallStep
<1>3. CASE QueryNoRows(p)
  BY <1>1, <1>3, PromiseQueryNoRows DEF QueryNoRows
<1>4. CASE QueryFails(p)
  <2>1. Promise!At(p, "query") /\ Promise!Goto(p, "failed") /\ db' = db
    BY <1>1, <1>4, SeenAt, SeenGoto DEF QueryFails, Returned, At
  <2> QED
    BY <2>1 DEF Promise!CallStep, Promise!Fail
<1>5. CASE WriteNull(p)
  BY <1>5, PromiseWriteNull DEF Promise!CallStep
<1>6. CASE ExecOk(p)
  <2>1. Promise!At(p, "exec") /\ Promise!Goto(p, "schedule") /\ Promise!Change(p)
    BY <1>1, <1>6, SeenAt, SeenGoto, PromiseApply DEF ExecOk, At
  <2> QED
    BY <2>1 DEF Promise!CallStep, Promise!Apply
<1>7. CASE ExecNoRows(p)
  <2>1. Promise!At(p, "exec") /\ Promise!Goto(p, "failed") /\ db' = db
    BY <1>1, <1>7, SeenAt, SeenGoto DEF ExecNoRows, Returned, At
  <2> QED
    BY <2>1 DEF Promise!CallStep, Promise!Fail
<1>8. CASE ExecFails(p)
  <2>1. Promise!At(p, "exec") /\ Promise!Goto(p, "failed")
    BY <1>1, <1>8, SeenAt, SeenGoto DEF ExecFails, Returned, At
  <2>2. db' = db \/ Promise!Change(p)
    BY <1>1, <1>8, PromiseApply DEF ExecFails
  <2> QED
    BY <2>1, <2>2 DEF Promise!CallStep, Promise!Fail
<1>9. CASE ScheduleDelete(p)
  <2>1. Promise!At(p, "schedule") /\ Promise!Goto(p, "updated") /\ db' = db
    BY <1>1, <1>9, SeenAt, SeenGoto DEF ScheduleDelete, Returned, At
  <2> QED
    BY <2>1 DEF Promise!CallStep, Promise!Updated
<1> QED
  BY <1>2, <1>3, <1>4, <1>5, <1>6, <1>7, <1>8, <1>9 DEF CallStep

LEMMA PromiseReturn ==
    ASSUME TypeOK, NEW p \in Procs, Return(p)
    PROVE  Promise!CallStep(p)
<1>1. call[p] # None /\ call[p].pc \in Returned /\ call' = [call EXCEPT ![p] = None]
  BY DEF Return
<1>2. Promise!At(p, call[p].pc)
  BY <1>1, SeenAt DEF At
<1>3. SeenCalls' = [SeenCalls EXCEPT ![p] = None]
  BY <1>1, SeenUpdate DEF Seen
<1> QED
  BY <1>1, <1>2, <1>3 DEF Return, Returned, Promise!CallStep, Promise!Return

\* What a step of the store is to its callers.
LEMMA PromiseWork ==
    ASSUME PromiseInv, Step
    PROVE  \/ \E p \in Procs : Promise!CallStep(p)
           \/ Promise!Create
           \/ Promise!Crash
           \/ db' = db /\ SeenCalls' = SeenCalls
<1>1. TypeOK
  BY DEF PromiseInv, AgeInv, TypeOKAged
<1>2. ASSUME NEW p \in Procs, NEW u \in Users,
             GetByID(p, u) \/ \E v \in Values : UpdateNickname(p, u, v)
                                             \/ UpdateProfilePicture(p, u, v)
      PROVE  Promise!CallStep(p)
  BY <1>1, <1>2, PromiseGetByID, PromiseFirstDelete DEF UpdateNickname, UpdateProfilePicture
<1>3. ASSUME NEW s \in FillSlots, LandFill(s) PROVE db' = db /\ SeenCalls' = SeenCalls
  BY <1>3 DEF LandFill, SeenCalls
<1>4. ASSUME NEW t \in TimerSlots, DelayedDelete(t) PROVE db' = db /\ SeenCalls' = SeenCalls
  BY <1>4 DEF DelayedDelete, SeenCalls
<1>5. ASSUME NEW U \in SUBSET Users, NEW users \in [U -> Row], BatchCreate(users)
      PROVE  Promise!Create
  <2>1. /\ db' \in [Users -> Row \cup {None}]
        /\ \A u \in Users : db[u] # None => db'[u] = db[u]
    BY <1>1, <1>5 DEF BatchCreate, TypeOK
  <2>2. SeenCalls' = SeenCalls
    BY <1>5 DEF BatchCreate, SeenCalls
  <2> QED
    BY <2>1, <2>2 DEF Promise!Create, Promise!Row, Row
<1>6. ASSUME ProcessEnds PROVE Promise!Crash
  BY <1>6 DEF ProcessEnds, Promise!Crash, SeenCalls, Seen
<1> QED
  BY <1>1, <1>2, <1>3, <1>4, <1>5, <1>6, PromiseCallStep, PromiseReturn
     DEF Step, Work, GracefulStop, Crash

\* Without a change of the table no age changes, but by the clock.
LEMMA SameAge ==
    ASSUME AgeInv, StepAged, db' = db
    PROVE  age' = age
<1>1. /\ age \in [Users -> [Row -> 0..Horizon]]
      /\ \A u \in Users, row \in Row : db[u] = row => age[u][row] = 0
  BY NoneAssumption DEF AgeInv, TypeOKAged, TableIsNew
<1>2. age' = [u \in Users |-> [row \in Row |-> age[u][row]]]
  BY <1>1 DEF StepAged
<1> QED
  BY <1>1, <1>2

LEMMA PromiseStep ==
    PromiseInv /\ [NextAged]_agedVars => [Promise!Next]_(Promise!profileVars)
<1> SUFFICES ASSUME PromiseInv, [NextAged]_agedVars
             PROVE  [Promise!Next]_(Promise!profileVars)
  OBVIOUS
<1>1. CASE StepAged
  <2>1. \/ \E p \in Procs : Promise!CallStep(p)
        \/ Promise!Create
        \/ Promise!Crash
        \/ db' = db /\ SeenCalls' = SeenCalls
    BY <1>1, PromiseWork DEF StepAged
  <2>2. age' = [u \in Users |->
                  [row \in Row |-> IF db'[u] = row THEN 0 ELSE age[u][row]]]
    BY <1>1 DEF StepAged
  <2>3. CASE db' = db /\ SeenCalls' = SeenCalls
    BY <1>1, <2>3, SameAge DEF PromiseInv, Promise!profileVars
  <2> QED
    BY <2>1, <2>2, <2>3 DEF Promise!Next, Promise!Step, Promise!Row, Row
<1>2. CASE TickAged
  <2>1. db' = db /\ SeenCalls' = SeenCalls
    BY <1>2 DEF TickAged, Tick, SeenCalls
  <2>2. \A n \in 0..Horizon : Older(n) = Promise!Older(n)
    BY HorizonType DEF Older, Promise!Older, Horizon
  <2>3. age \in [Users -> [Row -> 0..Horizon]]
    BY DEF PromiseInv, AgeInv, TypeOKAged
  <2>4. age' = [u \in Users |-> [row \in Row |->
                  IF db[u] = row THEN 0 ELSE Promise!Older(age[u][row])]]
    BY <1>2, <2>2, <2>3 DEF TickAged
  <2> QED
    BY <2>1, <2>4 DEF Promise!Next, Promise!Tick, Promise!Row, Row
<1>3. CASE UNCHANGED agedVars
  BY <1>3 DEF agedVars, vars, Promise!profileVars, SeenCalls
<1> QED
  BY <1>1, <1>2, <1>3 DEF NextAged

LEMMA PromiseInit == InitAged => Promise!Init
BY DEF InitAged, Init, Promise!Init, Promise!Row, Row, Horizon, SeenCalls, Seen

\* For every number of users and calls and with every fault, crashes included: to
\* its callers the store is a table read with bounded lag.
THEOREM StoreKeepsPromise == SpecAged => KeepsPromise
<1>1. InitAged => PromiseInv
  BY AgeInit, TypeInit DEF InitAged, Init, PromiseInv, ExistedInv
<1>2. PromiseInv /\ [NextAged]_agedVars => PromiseInv'
  BY AgeNext, ExistedStep
     DEF PromiseInv, NextAged, StepAged, TickAged, Next, agedVars
<1> QED
  BY <1>1, <1>2, PromiseInit, PromiseStep, PTL DEF SpecAged, KeepsPromise, Promise!Spec
=============================================================================
