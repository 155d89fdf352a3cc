--------------------------- MODULE CacheStaleness ---------------------------
(***************************************************************************)
(* UserRepository with a history variable: how long ago each row was last  *)
(* the content of the users table.  It states what is left of the cache's  *)
(* consistency when anything may fail, the process included.               *)
(***************************************************************************)
EXTENDS UserRepository

VARIABLE age    \* ticks since db[u] was the row, at most Horizon

agedVars == <<vars, age>>

\* A write-back may land FillBound ticks after its SELECT and stay for a TTL.
StalenessBound == FillBound + UserCacheTTL

\* Stands for every larger age, and for rows that never were in the table.
Horizon == StalenessBound + 1

InitAged ==
    /\ Init
    /\ age = [u \in Users |-> [row \in Row |-> IF db[u] = row THEN 0 ELSE Horizon]]

StepAged ==
    /\ Step
    /\ age' = [u \in Users |->
                 [row \in Row |-> IF db'[u] = row THEN 0 ELSE age[u][row]]]

Older(n) == IF n < Horizon THEN n + 1 ELSE n

TickAged ==
    /\ Tick
    /\ age' = [u \in Users |->
                 [row \in Row |-> IF db[u] = row THEN 0 ELSE Older(age[u][row])]]

NextAged == StepAged \/ TickAged

SpecAged == InitAged /\ [][NextAged]_agedVars

FairSpecAged == SpecAged /\ Fairness

-----------------------------------------------------------------------------
(* Properties *)

TypeOKAged ==
    /\ TypeOK
    /\ age \in [Users -> [Row -> 0..Horizon]]

\* Whatever fails, and however busy the entry is, a profile GetByID takes from
\* Redis was the content of the users table at most StalenessBound ticks ago:
\* a failed or lost delete costs one TTL, never more.
BoundedStaleness ==
    \A u \in Users : GetUser(u) # None => age[u][GetUser(u)] <= StalenessBound

-----------------------------------------------------------------------------
(* The promise to the callers *)

\* A caller cannot tell a lookup that is about to write the negative entry from one
\* that has not had its SELECT yet.
Seen(c) == IF c # None /\ c.pc = "set_null" THEN [c EXCEPT !.pc = "query"] ELSE c

SeenCalls == [p \in Procs |-> Seen(call[p])]

Promise == INSTANCE Profile WITH call <- SeenCalls

\* GetByID and the updates are a table read with bounded lag, whatever fails: no
\* answer is older than StalenessBound, no user who exists is reported missing, no
\* update is applied twice or reported as done without having changed the row.
KeepsPromise == Promise!Spec
=============================================================================
