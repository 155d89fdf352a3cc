------------------------------ MODULE Profile ------------------------------
(***************************************************************************)
(* What the profile store promises its callers, with no cache, write-back  *)
(* or timer in sight: a users table that is read with a bounded lag.       *)
(*                                                                         *)
(* A lookup answers with a row that was the content of the table at most   *)
(* StalenessBound ticks ago, and answers "not found" for no user who was   *)
(* there when it began.  An update changes the row at most once; it is     *)
(* reported as done only after it changed the row, and a failure may leave *)
(* the row changed.  CacheStaleness implements this module.                *)
(***************************************************************************)
EXTENDS Naturals

CONSTANTS Users, Procs, Fields, Values, StalenessBound, None

VARIABLES
    db,     \* users table: the profile columns of a row, or None
    age,    \* ticks since db[u] was the row, at most StalenessBound + 1
    call    \* the call a process is in, or None: a lookup ("query") or an update
            \* ("exec"; "schedule" once it has changed the row), or its answer

profileVars == <<db, age, call>>

Row == [Fields -> Values]

Init ==
    /\ db \in [Users -> Row \cup {None}]
    /\ age = [u \in Users |->
                [row \in Row |-> IF db[u] = row THEN 0 ELSE StalenessBound + 1]]
    /\ call = [p \in Procs |-> None]

-----------------------------------------------------------------------------

\* existed: the user was in the table when the call began.
New(pc, u, arg, row) ==
    [pc |-> pc, user |-> u, arg |-> arg, row |-> row, existed |-> db[u] # None]

At(p, pc) == call[p] # None /\ call[p].pc = pc

Goto(p, pc) == call' = [call EXCEPT ![p].pc = pc]

Recent(u, row) == age[u][row] <= StalenessBound

StartRead(p, u) ==
    /\ call[p] = None
    /\ call' = [call EXCEPT ![p] = New("query", u, None, None)]
    /\ UNCHANGED db

ReadAtOnce(p, u) ==
    /\ call[p] = None
    /\ \E row \in Row : /\ Recent(u, row)
                        /\ call' = [call EXCEPT ![p] = New("found", u, None, row)]
    /\ UNCHANGED db

Found(p) ==
    /\ At(p, "query")
    /\ \E row \in Row :
          /\ Recent(call[p].user, row)
          /\ call' = [call EXCEPT ![p].pc = "found", ![p].row = row]
    /\ UNCHANGED db

NotFound(p) ==
    /\ At(p, "query")
    /\ ~call[p].existed
    /\ Goto(p, "not_found")
    /\ UNCHANGED db

StartUpdate(p, u, field, value) ==
    /\ call[p] = None
    /\ call' = [call EXCEPT ![p] = New("exec", u, <<field, value>>, None)]
    /\ UNCHANGED db

\* The row exists and is not what it is to become.
Change(p) ==
    LET u == call[p].user
        field == call[p].arg[1]
        value == call[p].arg[2]
    IN  /\ db[u] # None
        /\ db[u][field] # value
        /\ db' = [db EXCEPT ![u][field] = value]

Apply(p) ==
    /\ At(p, "exec")
    /\ Change(p)
    /\ Goto(p, "schedule")

Updated(p) ==
    /\ At(p, "schedule")
    /\ Goto(p, "updated")
    /\ UNCHANGED db

Fail(p) ==
    /\ \/ At(p, "query") /\ UNCHANGED db
       \/ At(p, "exec") /\ (UNCHANGED db \/ Change(p))
    /\ Goto(p, "failed")

Return(p) ==
    /\ \E pc \in {"found", "not_found", "updated", "failed"} : At(p, pc)
    /\ call' = [call EXCEPT ![p] = None]
    /\ UNCHANGED db

CallStep(p) ==
    \/ Found(p) \/ NotFound(p) \/ Apply(p) \/ Updated(p) \/ Fail(p) \/ Return(p)
    \/ \E u \in Users :
          \/ StartRead(p, u) \/ ReadAtOnce(p, u)
          \/ \E field \in Fields, value \in Values : StartUpdate(p, u, field, value)

\* New rows appear where there was none; no row goes.
Create ==
    /\ db' \in [Users -> Row \cup {None}]
    /\ \A u \in Users : db[u] # None => db'[u] = db[u]
    /\ UNCHANGED call

\* The process ends: its calls are never answered.
Crash ==
    /\ call' = [p \in Procs |-> None]
    /\ UNCHANGED db

Step ==
    /\ (\E p \in Procs : CallStep(p)) \/ Create \/ Crash
    /\ age' = [u \in Users |->
                 [row \in Row |-> IF db'[u] = row THEN 0 ELSE age[u][row]]]

Older(n) == IF n <= StalenessBound THEN n + 1 ELSE n

Tick ==
    /\ age' = [u \in Users |->
                 [row \in Row |-> IF db[u] = row THEN 0 ELSE Older(age[u][row])]]
    /\ UNCHANGED <<db, call>>

Next == Step \/ Tick

Spec == Init /\ [][Next]_profileVars
=============================================================================
