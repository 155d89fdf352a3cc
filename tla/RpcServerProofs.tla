-------------------------- MODULE RpcServerProofs --------------------------
(***************************************************************************)
(* Theorems about RpcServer, for every value of its constants: its steps   *)
(* are steps of the profile store, so that the theorems about the store    *)
(* are theorems about the server; and what the answers say is true.        *)
(***************************************************************************)
EXTENDS RpcServer, DoubleDeleteProofs, CacheStalenessProofs

Reading == {"query", "set_null", "found", "not_found", "failed"}
Writing == {"exec", "schedule", "updated", "failed"}
Early   == {"intercept", "destroy", "validate", "profile"}

RequestTypes ==
    /\ session \in [Tokens -> Users \cup {None, Ended}]
    /\ request \in [Procs -> Request \cup {None}]

\* What request r, repository call c and the table have to do with each other.
Consistent(r, c, table) ==
    /\ r.stage \in {"profile", "update", "read_back"} => r.user \in Users
    /\ r.rpc = "Update" /\ r.stage # "answered" => r.arg \in Updates
    /\ r.stage \in {"update", "read_back"} => r.rpc = "Update"
    /\ r.stage = "destroy" => r.rpc = "Logout"
    /\ r.stage \notin {"profile", "update", "read_back"} => c = None
    /\ r.stage \in {"profile", "read_back"} /\ c # None => c.pc \in Reading
    /\ r.stage \in Early => ~r.applied
    /\ r.stage = "update" =>
         /\ c = None => ~r.applied
         /\ c # None => /\ c.pc \in Writing /\ c.user = r.user
                        /\ c.pc = "exec" => ~r.applied
                        /\ c.pc \in {"schedule", "updated"} => r.applied
         /\ r.applied => table[r.user] # None
    /\ r.stage = "read_back" =>
         /\ r.applied /\ table[r.user] # None
         /\ c # None => c.existed
    /\ r.stage # "answered" => r.code = None
    /\ r.rpc = "Update" /\ r.code = "Success" => r.applied
    /\ r.code \in Rejections => ~r.applied

RequestInv ==
    /\ RequestTypes
    /\ \A p \in Procs :
         IF request[p] = None THEN call[p] = None
         ELSE Consistent(request[p], call[p], db)

Growing == \A u \in Users : db[u] # None => db'[u] # None

-----------------------------------------------------------------------------
(* The table only gains rows, so that what is consistent stays consistent. *)

LEMMA ConsistentGrows ==
    ASSUME Growing, NEW r, NEW c, Consistent(r, c, db)
    PROVE  Consistent(r, c, db')
BY DEF Consistent, Growing

\* A step of p that leaves its request and its call consistent keeps the invariant.
LEMMA StepOf ==
    ASSUME RequestInv, TypeOK, Growing, NEW p \in Procs,
           NEW r \in Request \cup {None}, NEW c,
           request' = [request EXCEPT ![p] = r],
           call' = [call EXCEPT ![p] = c],
           session' \in [Tokens -> Users \cup {None, Ended}],
           IF r = None THEN c = None ELSE Consistent(r, c, db')
    PROVE  RequestInv'
<1>1. RequestTypes'
  BY DEF RequestInv, RequestTypes
<1>2. \A q \in Procs : IF request'[q] = None THEN call'[q] = None
                       ELSE Consistent(request'[q], call'[q], db')
  <2> TAKE q \in Procs
  <2>1. CASE q = p
    BY <2>1 DEF RequestInv, RequestTypes, TypeOK
  <2>2. CASE q # p
    BY <2>2, ConsistentGrows DEF RequestInv, RequestTypes, TypeOK
  <2> QED BY <2>1, <2>2
<1> QED BY <1>1, <1>2 DEF RequestInv, Consistent

\* A step that leaves all requests and calls alone keeps it too.
LEMMA StepOfNone ==
    ASSUME RequestInv, Growing, UNCHANGED <<request, call>>, RequestTypes'
    PROVE  RequestInv'
BY ConsistentGrows DEF RequestInv, Consistent

-----------------------------------------------------------------------------
(* Sessions and stages without a repository call *)

\* Handing a request on from one stage to another.
LEMMA HandOnStep ==
    ASSUME RequestInv, TypeOK, NEW p \in Procs, request[p] # None, NEW stage \in Stages,
           HandOn(p, stage), NEW c, call' = [call EXCEPT ![p] = c],
           UNCHANGED <<db, session>>,
           Consistent([request[p] EXCEPT !.stage = stage], c, db')
    PROVE  RequestInv'
<1>1. Growing /\ session' \in [Tokens -> Users \cup {None, Ended}]
  BY DEF Growing, RequestInv, RequestTypes
<1>2. [request[p] EXCEPT !.stage = stage] \in Request
  BY DEF RequestInv, RequestTypes, Request
<1>3. request' = [request EXCEPT ![p] = [request[p] EXCEPT !.stage = stage]]
  BY DEF HandOn
<1>4. [request[p] EXCEPT !.stage = stage] # None
  BY <1>2, RequestAssumption
<1> QED BY <1>1, <1>2, <1>3, <1>4, StepOf

\* Answering a request: what the code claims must be so.
LEMMA AnswerStep ==
    ASSUME RequestInv, TypeOK, NEW p \in Procs, request[p] # None, NEW code \in Codes,
           Answer(p, code), call' = [call EXCEPT ![p] = None], UNCHANGED db,
           session' \in [Tokens -> Users \cup {None, Ended}],
           request[p].rpc = "Update" /\ code = "Success" => request[p].applied,
           code \in Rejections => ~request[p].applied
    PROVE  RequestInv'
<1> DEFINE r == [request[p] EXCEPT !.stage = "answered", !.code = code,
                                   !.arg = None, !.user = None]
<1>1. request[p] \in Request
  BY DEF RequestInv, RequestTypes
<1>2. r \in Request /\ r # None
  BY <1>1, RequestAssumption DEF Request, Stages
<1>3. /\ r.stage = "answered" /\ r.code = code
      /\ r.rpc = request[p].rpc /\ r.applied = request[p].applied
  BY <1>1 DEF Request
<1>4. Consistent(r, None, db')
  BY <1>3 DEF Consistent, Early
<1>5. request' = [request EXCEPT ![p] = r]
  BY DEF Answer
<1>6. Growing
  BY DEF Growing
<1> HIDE DEF r
<1> QED BY <1>2, <1>4, <1>5, <1>6, StepOf

\* Without a call of its own a process has nothing to change in call.
LEMMA CallStays ==
    ASSUME TypeOK, NEW p \in Procs, call[p] = None
    PROVE  call = [call EXCEPT ![p] = None]
BY DEF TypeOK

LEMMA ArriveStep ==
    ASSUME RequestInv, TypeOK, NEW p \in Procs, NEW t \in Tokens, NEW arg \in Updates \cup {None},
           NEW rpc \in {"Logout", "GetProfile", "Update"}, Arrive(p, rpc, t, arg)
    PROVE  RequestInv'
<1> DEFINE r == [rpc |-> rpc, token |-> t, arg |-> arg, stage |-> "intercept",
                 user |-> None, code |-> None, applied |-> FALSE,
                 late |-> session[t] = Ended]
<1>1. r \in Request /\ r # None
  <2>1. r \in Request
    BY DEF Request, Stages
  <2> QED BY <2>1, RequestAssumption
<1>2. request' = [request EXCEPT ![p] = r] /\ UNCHANGED <<vars, session>>
  BY DEF Arrive
<1>3. call[p] = None
  BY DEF Arrive, RequestInv
<1>4. Consistent(r, None, db')
  BY RequestAssumption DEF Arrive, Consistent, Early, Rejections, Codes
<1>5. Growing /\ session' \in [Tokens -> Users \cup {None, Ended}]
  BY <1>2 DEF Growing, vars, RequestInv, RequestTypes
<1>6. call' = [call EXCEPT ![p] = None]
  BY <1>2, <1>3, CallStays DEF vars
<1> HIDE DEF r
<1> QED BY <1>1, <1>2, <1>4, <1>5, <1>6, StepOf

LEMMA InterceptStep ==
    ASSUME RequestInv, TypeOK, NEW p \in Procs, Intercept(p) \/ DestroySession(p)
    PROVE  RequestInv'
<1>1. /\ request[p] # None /\ request[p] \in Request
      /\ request[p].stage \in {"intercept", "destroy"}
      /\ Consistent(request[p], call[p], db)
  BY DEF Intercept, DestroySession, InStage, RequestInv, RequestTypes
<1>2. call[p] = None /\ ~request[p].applied /\ UNCHANGED vars
  BY <1>1 DEF Consistent, Early, Intercept, DestroySession
<1>3. call' = [call EXCEPT ![p] = None] /\ UNCHANGED db
  BY <1>2, CallStays DEF vars
<1>4. CASE \E stage \in {"destroy", "validate"} :
             /\ HandOn(p, stage) /\ UNCHANGED session
             /\ stage = "destroy" <=> request[p].rpc = "Logout"
  <2>1. PICK stage \in {"destroy", "validate"} :
             /\ HandOn(p, stage) /\ UNCHANGED session
             /\ stage = "destroy" <=> request[p].rpc = "Logout"
    BY <1>4
  <2>2. Consistent([request[p] EXCEPT !.stage = stage], None, db')
    BY <1>1, <1>2, <2>1 DEF Consistent, Early, Request
  <2> QED BY <1>1, <1>3, <2>1, <2>2, HandOnStep DEF Stages
<1>5. CASE Intercept(p) /\ Answer(p, "Unauthenticated")
  <2>1. session' \in [Tokens -> Users \cup {None, Ended}]
    BY <1>5 DEF Intercept, RequestInv, RequestTypes
  <2> QED BY <1>1, <1>2, <1>3, <1>5, <2>1, AnswerStep DEF Codes
<1>6. CASE DestroySession(p)
  <2>1. session' \in [Tokens -> Users \cup {None, Ended}]
    BY <1>6 DEF DestroySession, RequestInv, RequestTypes
  <2>2. request[p].rpc = "Logout"
    BY <1>1, <1>6 DEF DestroySession, InStage, Consistent
  <2>3. PICK code \in {"Success", "InternalError"} : Answer(p, code)
    BY <1>6 DEF DestroySession
  <2> QED BY <1>1, <1>2, <1>3, <2>1, <2>2, <2>3, AnswerStep DEF Codes, Rejections
<1> QED BY <1>4, <1>5, <1>6 DEF Intercept

LEMMA ValidateStep ==
    ASSUME RequestInv, TypeOK, NEW p \in Procs, Validate(p)
    PROVE  RequestInv'
<1>1. /\ request[p] # None /\ request[p] \in Request
      /\ request[p].stage = "validate"
      /\ Consistent(request[p], call[p], db)
  BY DEF Validate, InStage, RequestInv, RequestTypes
<1>2. call[p] = None /\ ~request[p].applied /\ UNCHANGED <<vars, session>>
  BY <1>1 DEF Consistent, Early, Validate
<1>3. call' = [call EXCEPT ![p] = None] /\ UNCHANGED db
  BY <1>2, CallStays DEF vars
<1>4. session' \in [Tokens -> Users \cup {None, Ended}] /\ Growing
  BY <1>2, <1>3 DEF RequestInv, RequestTypes, Growing
<1>5. CASE Answer(p, "Unauthorized")
  BY <1>1, <1>2, <1>3, <1>4, <1>5, AnswerStep DEF Codes
<1>6. ASSUME NEW u \in Users,
             request' = [request EXCEPT ![p].stage = "profile", ![p].user = u]
      PROVE  RequestInv'
  <2> DEFINE r == [request[p] EXCEPT !.stage = "profile", !.user = u]
  <2>1. r \in Request /\ r # None
    BY <1>1, RequestAssumption DEF Request, Stages
  <2>2. Consistent(r, None, db')
    BY <1>1, <1>2 DEF Consistent, Early, Request
  <2>3. request' = [request EXCEPT ![p] = r]
    BY <1>6
  <2> HIDE DEF r
  <2> QED BY <1>3, <1>4, <2>1, <2>2, <2>3, StepOf
<1> QED BY <1>5, <1>6 DEF Validate, ValidateSession

-----------------------------------------------------------------------------
(* Repository calls *)

\* A process whose request stays as it is while its call goes on.
LEMMA CallOnly ==
    ASSUME RequestInv, TypeOK, Growing, NEW p \in Procs, request[p] # None,
           UNCHANGED <<request, session>>, NEW c, call' = [call EXCEPT ![p] = c],
           Consistent(request[p], c, db')
    PROVE  RequestInv'
<1>1. request[p] \in Request /\ request' = [request EXCEPT ![p] = request[p]]
  BY DEF RequestInv, RequestTypes
<1>2. session' \in [Tokens -> Users \cup {None, Ended}]
  BY DEF RequestInv, RequestTypes
<1> QED BY <1>1, <1>2, StepOf

LEMMA ReadProfileStep ==
    ASSUME RequestInv, TypeOK, NEW p \in Procs, ReadProfile(p)
    PROVE  RequestInv'
<1>1. /\ request[p] # None
      /\ request[p].stage \in {"profile", "read_back"}
      /\ Consistent(request[p], call[p], db)
      /\ request[p].user \in Users
  BY DEF ReadProfile, InStage, RequestInv, Consistent
<1>2. PICK pc \in {"found", "query"}, row \in Row \cup {None} :
         call' = [call EXCEPT ![p] = NewCall(pc, request[p].user, None, row)]
  BY <1>1, GetUserType DEF ReadProfile, GetByID, CacheHit, CacheMiss
<1> DEFINE c == NewCall(pc, request[p].user, None, row)
<1>3. c.pc = pc /\ (c.existed <=> db[request[p].user] # None)
  BY DEF NewCall
<1>4. UNCHANGED <<db, request, session>> /\ Growing
  BY DEF ReadProfile, GetByID, CacheHit, CacheMiss, Growing
<1>5. Consistent(request[p], c, db')
  BY <1>1, <1>3, <1>4 DEF Consistent, Reading
<1> QED BY <1>1, <1>2, <1>4, <1>5, CallOnly

LEMMA StartUpdateStep ==
    ASSUME RequestInv, TypeOK, NEW p \in Procs, StartUpdate(p)
    PROVE  RequestInv'
<1>1. /\ request[p] # None /\ request[p].stage = "update" /\ call[p] = None
      /\ Consistent(request[p], call[p], db)
  BY DEF StartUpdate, FirstDelete, InStage, RequestInv
<1> DEFINE c == NewCall("exec", request[p].user,
                        <<request[p].arg[1], request[p].arg[2]>>, None)
<1>2. c.pc = "exec" /\ c.user = request[p].user
  BY DEF NewCall
<1>3. /\ call' = [call EXCEPT ![p] = c]
      /\ UNCHANGED <<db, request, session>> /\ Growing
  BY DEF StartUpdate, FirstDelete, Growing
<1>4. c # None => Consistent(request[p], c, db')
  BY <1>1, <1>2, <1>3 DEF Consistent, Writing
<1>5. CASE c = None
  BY <1>1, <1>3, <1>5, CallOnly
<1> QED BY <1>1, <1>3, <1>4, <1>5, CallOnly

LEMMA RejectArgumentStep ==
    ASSUME RequestInv, TypeOK, NEW p \in Procs, RejectArgument(p)
    PROVE  RequestInv'
<1>1. /\ request[p] # None /\ call[p] = None /\ Answer(p, "InvalidParams")
      /\ ~request[p].applied /\ UNCHANGED <<vars, session>>
  BY DEF RejectArgument, InStage, RequestInv, Consistent
<1>2. call' = [call EXCEPT ![p] = None] /\ UNCHANGED db
  BY <1>1, CallStays DEF vars
<1>3. session' \in [Tokens -> Users \cup {None, Ended}]
  BY <1>1 DEF RequestInv, RequestTypes
<1> QED BY <1>1, <1>2, <1>3, AnswerStep DEF Codes

\* What one step of a repository call does to the call and the table.
LEMMA CallStepEffect ==
    ASSUME TypeOK, NEW p \in Procs, CallStep(p)
    PROVE  \E c \in Call :
              /\ call' = [call EXCEPT ![p] = c]
              /\ c.user = call[p].user /\ c.existed = call[p].existed
              /\ \/ /\ call[p].pc \in {"query", "set_null"} /\ db' = db
                    /\ c.pc \in Reading
                 \/ /\ call[p].pc = "exec" /\ c.pc = "schedule"
                    /\ db' # db /\ db[c.user] # None
                 \/ /\ call[p].pc = "exec" /\ c.pc = "failed"
                    /\ db' = db \/ db[c.user] # None
                 \/ /\ call[p].pc = "schedule" /\ c.pc = "updated" /\ db' = db
<1>1. call[p] \in Call /\ call[p] # None
  BY DEF CallStep, QueryFound, QueryNoRows, QueryFails, WriteNull, ExecOk, ExecNoRows,
         ExecFails, ScheduleDelete, At, TypeOK
<1>2. ASSUME NEW pc \in Pending \cup Returned, Goto(p, pc)
      PROVE  \E c \in Call :
                /\ call' = [call EXCEPT ![p] = c] /\ c.pc = pc
                /\ c.user = call[p].user /\ c.existed = call[p].existed
  <2>1. call' = [call EXCEPT ![p] = [call[p] EXCEPT !.pc = pc]]
    BY <1>2 DEF Goto
  <2>2. [call[p] EXCEPT !.pc = pc] \in Call
    BY <1>1 DEF Call
  <2> QED BY <1>1, <2>1, <2>2 DEF Call
<1>3. CASE QueryFound(p)
  <2> DEFINE c == [call[p] EXCEPT !.pc = "found", !.row = db[call[p].user]]
  <2>1. db[call[p].user] \in Row \cup {None}
    BY <1>1 DEF TypeOK, Call
  <2>2. c \in Call /\ c.pc = "found" /\ c.user = call[p].user /\ c.existed = call[p].existed
    BY <1>1, <2>1 DEF Call, Returned
  <2>3. call' = [call EXCEPT ![p] = c] /\ db' = db /\ call[p].pc = "query"
    BY <1>3 DEF QueryFound, At
  <2> HIDE DEF c
  <2> QED BY <2>2, <2>3 DEF Reading
<1>4. CASE QueryNoRows(p) \/ QueryFails(p) \/ WriteNull(p)
  <2>1. PICK pc \in {"set_null", "failed", "not_found"} : Goto(p, pc)
    BY <1>4 DEF QueryNoRows, QueryFails, WriteNull
  <2>2. call[p].pc \in {"query", "set_null"} /\ db' = db
    BY <1>4 DEF QueryNoRows, QueryFails, WriteNull, At
  <2> QED BY <1>2, <2>1, <2>2 DEF Reading, Pending, Returned
<1>5. CASE ExecOk(p)
  <2>1. At(p, "exec") /\ Apply(p) /\ Goto(p, "schedule")
    BY <1>5 DEF ExecOk
  <2>2. db[call[p].user] \in Row /\ call[p].arg \in Fields \X Values
    BY <1>1, <2>1 DEF At, Apply, RowChanges, TypeOK, Call
  <2>3. db'[call[p].user][call[p].arg[1]] # db[call[p].user][call[p].arg[1]]
    BY <1>1, <2>1, <2>2 DEF Apply, RowChanges, TypeOK, Call, Row
  <2> QED BY <1>2, <2>1, <2>2, <2>3, NoneAssumption DEF At, Pending
<1>6. CASE ExecNoRows(p) \/ ExecFails(p)
  <2>1. At(p, "exec") /\ Goto(p, "failed") /\ (db' = db \/ db[call[p].user] # None)
    BY <1>6 DEF ExecNoRows, ExecFails, Apply, RowChanges
  <2> QED BY <1>2, <2>1 DEF At, Returned
<1>7. CASE ScheduleDelete(p)
  <2>1. At(p, "schedule") /\ Goto(p, "updated") /\ db' = db
    BY <1>7 DEF ScheduleDelete
  <2> QED BY <1>2, <2>1 DEF At, Returned
<1> QED BY <1>3, <1>4, <1>5, <1>6, <1>7 DEF CallStep

LEMMA RepositoryStepStep ==
    ASSUME RequestInv, TypeOK, Growing, NEW p \in Procs, RepositoryStep(p)
    PROVE  RequestInv'
<1> DEFINE r == [request[p] EXCEPT !.applied = @ \/ Applied(p)]
<1>1. /\ request[p] # None /\ request[p] \in Request /\ call[p] # None
      /\ Consistent(request[p], call[p], db)
  BY DEF RepositoryStep, RequestInv, RequestTypes, CallStep, QueryFound, QueryNoRows,
         QueryFails, WriteNull, ExecOk, ExecNoRows, ExecFails, ScheduleDelete, At
<1>2. PICK c \in Call :
         /\ call' = [call EXCEPT ![p] = c]
         /\ c.user = call[p].user /\ c.existed = call[p].existed
         /\ \/ /\ call[p].pc \in {"query", "set_null"} /\ db' = db
               /\ c.pc \in Reading
            \/ /\ call[p].pc = "exec" /\ c.pc = "schedule"
               /\ db' # db /\ db[c.user] # None
            \/ /\ call[p].pc = "exec" /\ c.pc = "failed"
               /\ db' = db \/ db[c.user] # None
            \/ /\ call[p].pc = "schedule" /\ c.pc = "updated" /\ db' = db
  BY CallStepEffect DEF RepositoryStep
<1>3. request' = [request EXCEPT ![p] = r]
  BY DEF RepositoryStep
<1>4. /\ r.rpc = request[p].rpc /\ r.stage = request[p].stage /\ r.user = request[p].user
      /\ r.arg = request[p].arg /\ r.code = request[p].code
      /\ r.applied <=> request[p].applied \/ Applied(p)
  BY <1>1 DEF Request
<1>5. r \in Request /\ r # None
  BY <1>1, RequestAssumption DEF Request, Applied
<1>6. r.stage \in {"profile", "update", "read_back"}
  BY <1>1, <1>4 DEF Consistent
<1>7. r.user \in Users
  BY <1>1, <1>4, <1>6 DEF Consistent
<1> HIDE DEF r
<1>8. ASSUME r.stage = "update" PROVE Consistent(r, c, db')
  <2>1. call[p].pc \in {"exec", "schedule"} /\ c.user = r.user
    BY <1>1, <1>2, <1>4, <1>8 DEF Consistent, Writing
  <2>2. /\ r.rpc = "Update" /\ r.arg \in Updates /\ r.code = None
        /\ db[r.user] # None => db'[r.user] # None
    BY <1>1, <1>4, <1>7, <1>8 DEF Consistent, Growing
  <2>3. r.code \notin Rejections /\ r.code # "Success"
    BY <2>2, RequestAssumption DEF Rejections, Codes
  <2>4. c.pc = "schedule" \/ c.pc = "updated" \/ c.pc = "failed"
    BY <1>2, <2>1
  <2>5. c.pc \in {"schedule", "updated"} => r.applied
    BY <1>1, <1>2, <1>4, <1>8, <2>1 DEF Consistent, Applied
  <2>6. r.applied => db'[r.user] # None
    BY <1>1, <1>2, <1>4, <1>8, <2>1, <2>2 DEF Consistent, Applied
  <2>7. c # None
    BY NoneAssumption
  <2> QED BY <1>7, <1>8, <2>1, <2>2, <2>3, <2>4, <2>5, <2>6, <2>7
             DEF Consistent, Writing, Early
<1>9. ASSUME r.stage # "update" PROVE Consistent(r, c, db')
  <2>1. db' = db /\ c.pc \in Reading
    BY <1>1, <1>2, <1>4, <1>6, <1>9 DEF Consistent, Reading
  <2> QED BY <1>1, <1>2, <1>4, <1>6, <1>9, <2>1 DEF Consistent, Applied
<1>10. Consistent(r, c, db')
  BY <1>8, <1>9
<1>11. session' \in [Tokens -> Users \cup {None, Ended}]
  BY DEF RepositoryStep, RequestInv, RequestTypes
<1> QED BY <1>2, <1>3, <1>5, <1>10, <1>11, StepOf

\* The one place where a rejection could come after a change: the read after an
\* update.  It finds the user because no lookup overlooks an existing row.
LEMMA ProfileReadStep ==
    ASSUME RequestInv, ExistedInv, NEW p \in Procs, ProfileRead(p)
    PROVE  RequestInv'
<1>1. /\ request[p] # None /\ request[p].stage \in {"profile", "read_back"}
      /\ call[p] # None /\ Consistent(request[p], call[p], db)
  BY DEF ProfileRead, InStage, Return, RequestInv
<1>2. /\ call' = [call EXCEPT ![p] = None]
      /\ UNCHANGED <<db, session>> /\ TypeOK
  BY DEF ProfileRead, Return, ExistedInv
<1>3. session' \in [Tokens -> Users \cup {None, Ended}] /\ request[p] \in Request
  BY <1>1, <1>2 DEF RequestInv, RequestTypes
<1>4. CASE InStage(p, "profile") /\ request[p].rpc = "Update" /\ HandOn(p, "update")
  <2>1. Consistent([request[p] EXCEPT !.stage = "update"], None, db')
    BY <1>1, <1>2, <1>3, <1>4 DEF InStage, Consistent, Early, Request
  <2> QED BY <1>1, <1>2, <1>4, <2>1, HandOnStep DEF Stages
<1>5. CASE /\ InStage(p, "read_back") \/ request[p].rpc = "GetProfile"
           /\ Answer(p, "Success")
  <2>1. request[p].rpc = "Update" => request[p].applied
    BY <1>1, <1>5 DEF InStage, Consistent
  <2> QED BY <1>1, <1>2, <1>3, <1>5, <2>1, AnswerStep DEF Codes, Rejections
<1>6. CASE At(p, "not_found") /\ Answer(p, "UserNotFound")
  <2>1. ~request[p].applied
    BY <1>1, <1>6 DEF At, ExistedInv, Consistent, Early
  <2> QED BY <1>1, <1>2, <1>3, <1>6, <2>1, AnswerStep DEF Codes
<1>7. CASE Answer(p, "InternalError")
  BY <1>1, <1>2, <1>3, <1>7, AnswerStep DEF Codes, Rejections
<1> QED BY <1>4, <1>5, <1>6, <1>7 DEF ProfileRead

LEMMA UpdateDoneStep ==
    ASSUME RequestInv, TypeOK, NEW p \in Procs, UpdateDone(p)
    PROVE  RequestInv'
<1>1. /\ request[p] # None /\ request[p].stage = "update"
      /\ call[p] # None /\ Consistent(request[p], call[p], db)
  BY DEF UpdateDone, InStage, Return, RequestInv
<1>2. /\ call' = [call EXCEPT ![p] = None]
      /\ UNCHANGED <<db, session>>
  BY DEF UpdateDone, Return
<1>3. session' \in [Tokens -> Users \cup {None, Ended}] /\ request[p] \in Request
  BY <1>1, <1>2 DEF RequestInv, RequestTypes
<1>4. CASE At(p, "updated") /\ HandOn(p, "read_back")
  <2>1. Consistent([request[p] EXCEPT !.stage = "read_back"], None, db')
    BY <1>1, <1>2, <1>3, <1>4 DEF At, Consistent, Early, Request
  <2> QED BY <1>1, <1>2, <1>4, <2>1, HandOnStep DEF Stages
<1>5. CASE Answer(p, "InternalError")
  BY <1>1, <1>2, <1>3, <1>5, AnswerStep DEF Codes, Rejections
<1> QED BY <1>4, <1>5 DEF UpdateDone

LEMMA ReplyStep ==
    ASSUME RequestInv, TypeOK, NEW p \in Procs, Reply(p)
    PROVE  RequestInv'
<1>1. call[p] = None
  BY DEF Reply, InStage, RequestInv, Consistent
<1>2. call' = [call EXCEPT ![p] = None] /\ Growing
  BY <1>1, CallStays DEF Reply, vars, Growing
<1>3. session' \in [Tokens -> Users \cup {None, Ended}]
  BY DEF Reply, RequestInv, RequestTypes
<1> QED BY <1>2, <1>3, StepOf DEF Reply

-----------------------------------------------------------------------------
(* The steps of the server are steps of the profile store *)

LEMMA RequestStepsRefine ==
    ASSUME RequestInv, NEW p \in Procs, RequestStep(p)
    PROVE  [Next]_vars
<1>1. CASE Intercept(p) \/ DestroySession(p) \/ Validate(p) \/ RejectArgument(p)
  BY <1>1 DEF Intercept, DestroySession, Validate, RejectArgument
<1>2. CASE ReadProfile(p)
  <2>1. request[p].user \in Users
    BY <1>2 DEF ReadProfile, InStage, RequestInv, Consistent
  <2> QED BY <1>2, <2>1 DEF ReadProfile, Next, Step, Work
<1>3. CASE StartUpdate(p)
  <2>1. request[p].user \in Users /\ request[p].arg \in Updates
    BY <1>3 DEF StartUpdate, InStage, RequestInv, Consistent
  <2>2. PICK field \in Fields, value \in Values :
           FirstDelete(p, request[p].user, field, value)
    BY <1>3, <2>1 DEF StartUpdate, Updates
  <2>3. \/ UpdateNickname(p, request[p].user, value)
        \/ UpdateProfilePicture(p, request[p].user, value)
    BY <2>2, FieldsAssumption DEF UpdateNickname, UpdateProfilePicture
  <2> QED BY <2>1, <2>3 DEF Next, Step, Work
<1>4. CASE RepositoryStep(p)
  BY <1>4 DEF RepositoryStep, Next, Step, Work
<1>5. CASE ProfileRead(p) \/ UpdateDone(p)
  BY <1>5 DEF ProfileRead, UpdateDone, Next, Step, Work
<1> QED BY <1>1, <1>2, <1>3, <1>4, <1>5 DEF RequestStep

LEMMA StepRefines == RequestInv /\ [NextRpc]_rpcVars => [Next]_vars
<1> SUFFICES ASSUME RequestInv, [NextRpc]_rpcVars PROVE [Next]_vars
  OBVIOUS
<1>1. CASE \E t \in Tokens : SessionExpires(t) \/ \E u \in Users : Login(t, u)
  BY <1>1 DEF SessionExpires, Login
<1>2. CASE \E p \in Procs, t \in Tokens :
             \/ Arrive(p, "Logout", t, None) \/ Arrive(p, "GetProfile", t, None)
             \/ \E arg \in Updates : Arrive(p, "Update", t, arg)
  BY <1>2 DEF Arrive
<1>3. CASE \E p \in Procs : RequestStep(p) \/ Reply(p)
  BY <1>3, RequestStepsRefine DEF Reply
<1>4. CASE Background
  BY <1>4 DEF Background, Next, Step, Work
<1>5. CASE Stop
  BY <1>5 DEF Stop, Next, Step, Work
<1>6. CASE UNCHANGED rpcVars
  BY <1>6 DEF rpcVars
<1> QED BY <1>1, <1>2, <1>3, <1>4, <1>5, <1>6 DEF NextRpc

-----------------------------------------------------------------------------
(* The invariant *)

RpcInv == ExistedInv /\ RequestInv

LEMMA RequestStepKeeps ==
    ASSUME RpcInv, Growing, NEW p \in Procs, RequestStep(p) \/ Reply(p)
    PROVE  RequestInv'
<1> USE DEF RpcInv
<1>1. TypeOK
  BY DEF ExistedInv
<1> QED
  BY <1>1, InterceptStep, ValidateStep, ReadProfileStep, RejectArgumentStep, StartUpdateStep,
     RepositoryStepStep, ProfileReadStep, UpdateDoneStep, ReplyStep DEF RequestStep

LEMMA BackgroundKeeps ==
    ASSUME RpcInv, Growing, Background
    PROVE  RequestInv'
<1>1. UNCHANGED <<request, session, call>>
  BY DEF Background, LandFill, DelayedDelete, BatchCreate, Tick
<1> QED BY <1>1, StepOfNone DEF RpcInv, RequestInv, RequestTypes

LEMMA StopKeeps ==
    ASSUME RpcInv, Stop
    PROVE  RequestInv'
BY DEF RpcInv, Stop, Crash, GracefulStop, ProcessEnds, RequestInv, RequestTypes

LEMMA SessionKeeps ==
    ASSUME RpcInv, Growing, NEW t \in Tokens,
           SessionExpires(t) \/ \E u \in Users : Login(t, u)
    PROVE  RequestInv'
<1>1. UNCHANGED <<request, call>>
  BY DEF SessionExpires, Login, vars
<1>2. RequestTypes'
  BY <1>1 DEF SessionExpires, Login, RpcInv, RequestInv, RequestTypes
<1> QED BY <1>1, <1>2, StepOfNone DEF RpcInv

LEMMA RpcInit == InitRpc => RpcInv
BY TypeInit DEF InitRpc, Init, RpcInv, ExistedInv, RequestInv, RequestTypes

LEMMA RpcStep == RpcInv /\ [NextRpc]_rpcVars => RpcInv'
<1> SUFFICES ASSUME RpcInv, [NextRpc]_rpcVars PROVE RpcInv'
  OBVIOUS
<1>1. [Next]_vars
  BY StepRefines DEF RpcInv
<1>2. ExistedInv'
  BY <1>1, ExistedStep DEF RpcInv
<1>3. Growing
  BY <1>1, RowsStay DEF RpcInv, ExistedInv, Growing
<1> SUFFICES RequestInv'
  BY <1>2 DEF RpcInv
<1>4. ASSUME NEW p \in Procs, NEW t \in Tokens,
             \/ Arrive(p, "Logout", t, None) \/ Arrive(p, "GetProfile", t, None)
             \/ \E arg \in Updates : Arrive(p, "Update", t, arg)
      PROVE  RequestInv'
  BY <1>4, ArriveStep DEF RpcInv, ExistedInv
<1>5. CASE UNCHANGED rpcVars
  <2>1. UNCHANGED <<request, call>> /\ UNCHANGED session
    BY <1>5 DEF rpcVars, vars
  <2>2. RequestTypes'
    BY <2>1 DEF RpcInv, RequestInv, RequestTypes
  <2> QED BY <1>3, <2>1, <2>2, StepOfNone DEF RpcInv
<1>6. ASSUME NEW p \in Procs, RequestStep(p) \/ Reply(p) PROVE RequestInv'
  BY <1>3, <1>6, RequestStepKeeps
<1>7. ASSUME NEW t \in Tokens, SessionExpires(t) \/ \E u \in Users : Login(t, u)
      PROVE  RequestInv'
  BY <1>3, <1>7, SessionKeeps
<1>8. CASE Background
  BY <1>3, <1>8, BackgroundKeeps
<1>9. CASE Stop
  BY <1>9, StopKeeps
<1> QED BY <1>4, <1>5, <1>6, <1>7, <1>8, <1>9 DEF NextRpc

LEMMA RpcInvariant == SpecRpc => []RpcInv
BY RpcInit, RpcStep, PTL DEF SpecRpc

-----------------------------------------------------------------------------
(* What a request may do depends on the session of its token *)

\* What request r and the session of its token have to do with each other.
Entitled(r, user) ==
    /\ r.user # None => user \in {r.user, Ended}
    /\ r.applied \/ r.code = "Success" => user # None
    /\ r.rpc = "Logout" /\ r.code = "Success" => user = Ended
    /\ r.stage \notin {"intercept", "answered"} => user # None
    /\ r.late => /\ user = Ended /\ ~r.applied
                 /\ r.stage \in {"intercept", "answered"}
                 /\ r.code \in {None, "Unauthenticated"}

AccessInv ==
    \A p \in Procs :
        request[p] # None => Entitled(request[p], session[request[p].token])

\* Sessions begin and end, and that is all.
SessionsMoveOn ==
    \A t \in Tokens : \/ session'[t] = session[t]
                      \/ session[t] = None
                      \/ session'[t] = Ended

LEMMA EntitledLasts ==
    ASSUME RequestTypes, SessionsMoveOn, NEW r \in Request, Entitled(r, session[r.token])
    PROVE  Entitled(r, session'[r.token])
<1>1. r.token \in Tokens
  BY DEF Request
<1> QED
  BY <1>1, TokenAssumption DEF SessionsMoveOn, Entitled

LEMMA AccessOf ==
    ASSUME AccessInv, RequestTypes, SessionsMoveOn, NEW p \in Procs,
           NEW r, request' = [request EXCEPT ![p] = r],
           r # None => Entitled(r, session'[r.token])
    PROVE  AccessInv'
<1> SUFFICES ASSUME NEW q \in Procs, request'[q] # None
             PROVE  Entitled(request'[q], session'[request'[q].token])
  BY DEF AccessInv, Entitled
<1>1. CASE q = p
  BY <1>1 DEF RequestTypes
<1>2. CASE q # p
  <2>1. request'[q] = request[q] /\ request[q] \in Request
    BY <1>2 DEF RequestTypes
  <2> QED
    BY <2>1, EntitledLasts DEF AccessInv
<1> QED BY <1>1, <1>2

\* A step that leaves the requests alone.
LEMMA AccessOfNone ==
    ASSUME AccessInv, RequestTypes, SessionsMoveOn, UNCHANGED request
    PROVE  AccessInv'
<1> SUFFICES ASSUME NEW q \in Procs, request[q] # None
             PROVE  Entitled(request[q], session'[request[q].token])
  BY DEF AccessInv, Entitled
<1>1. request[q] \in Request
  BY DEF RequestTypes
<1> QED
  BY <1>1, EntitledLasts DEF AccessInv

\* Handing on a request that came in time.
LEMMA AccessHandOn ==
    ASSUME AccessInv, RequestTypes, UNCHANGED session, NEW p \in Procs, request[p] # None,
           NEW stage, HandOn(p, stage), ~request[p].late, session[request[p].token] # None
    PROVE  AccessInv'
<1> DEFINE r == [request[p] EXCEPT !.stage = stage]
<1>1. request[p] \in Request /\ SessionsMoveOn
  BY DEF RequestTypes, SessionsMoveOn
<1>2. /\ r.user = request[p].user /\ r.code = request[p].code /\ r.rpc = request[p].rpc
      /\ r.token = request[p].token
  BY <1>1 DEF Request
<1>3. (r.applied <=> request[p].applied) /\ (r.late <=> request[p].late)
  BY <1>1 DEF Request
<1>4. request' = [request EXCEPT ![p] = r]
  BY DEF HandOn
<1> HIDE DEF r
<1>5. Entitled(request[p], session[request[p].token])
  BY DEF AccessInv
<1>6. Entitled(r, session'[r.token])
  BY <1>2, <1>3, <1>5 DEF Entitled
<1> QED BY <1>1, <1>4, <1>6, AccessOf

\* Answering one.
LEMMA AccessAnswer ==
    ASSUME AccessInv, RequestTypes, SessionsMoveOn, NEW p \in Procs, request[p] # None,
           NEW code, Answer(p, code),
           code = "Success" => /\ session'[request[p].token] # None
                               /\ request[p].rpc = "Logout"
                                  => session'[request[p].token] = Ended,
           request[p].late => code = "Unauthenticated"
    PROVE  AccessInv'
<1> DEFINE r == [request[p] EXCEPT !.stage = "answered", !.code = code,
                                   !.arg = None, !.user = None]
<1>1. request[p] \in Request
  BY DEF RequestTypes
<1>2. /\ r.user = None /\ r.code = code /\ r.rpc = request[p].rpc
      /\ r.token = request[p].token /\ r.stage = "answered"
  BY <1>1 DEF Request
<1>3. (r.applied <=> request[p].applied) /\ (r.late <=> request[p].late)
  BY <1>1 DEF Request
<1>4. request' = [request EXCEPT ![p] = r]
  BY DEF Answer
<1> HIDE DEF r
<1>5. Entitled(request[p], session'[request[p].token])
  BY <1>1, EntitledLasts DEF AccessInv
<1>6. Entitled(r, session'[r.token])
  BY <1>2, <1>3, <1>5 DEF Entitled
<1> QED BY <1>4, <1>6, AccessOf

LEMMA AccessRequestStep ==
    ASSUME AccessInv, RequestInv, NEW p \in Procs, RequestStep(p)
    PROVE  AccessInv'
<1>1. /\ request[p] # None /\ request[p] \in Request /\ RequestTypes
      /\ request[p].token \in Tokens
      /\ Entitled(request[p], session[request[p].token])
      /\ Consistent(request[p], call[p], db)
  BY DEF RequestStep, Intercept, DestroySession, Validate, ReadProfile, RejectArgument,
         StartUpdate, RepositoryStep, ProfileRead, UpdateDone, InStage, RequestInv,
         RequestTypes, AccessInv, Request
<1>2. request[p].stage \notin {"intercept", "answered"}
      => ~request[p].late /\ session[request[p].token] # None
  BY <1>1 DEF Entitled
<1>3. UNCHANGED session => SessionsMoveOn
  BY DEF SessionsMoveOn
<1>4. CASE Intercept(p)
  <2>1. request[p].stage = "intercept" /\ UNCHANGED session
    BY <1>4 DEF Intercept, InStage
  <2>2. CASE Answer(p, "Unauthenticated")
    BY <1>1, <1>3, <2>1, <2>2, AccessAnswer
  <2>3. CASE /\ ValidateSession(request[p].token)
             /\ HandOn(p, IF request[p].rpc = "Logout" THEN "destroy" ELSE "validate")
    <3>1. session[request[p].token] # None /\ session[request[p].token] # Ended
      BY <2>3, TokenAssumption DEF ValidateSession
    <3>2. ~request[p].late
      BY <1>1, <3>1 DEF Entitled
    <3> QED BY <1>1, <2>1, <2>3, <3>1, <3>2, AccessHandOn
  <2> QED BY <1>4, <2>2, <2>3 DEF Intercept
<1>5. CASE DestroySession(p)
  <2>1. request[p].stage = "destroy"
    BY <1>5 DEF DestroySession, InStage
  <2>2. CASE /\ session' = [session EXCEPT ![request[p].token] = Ended]
             /\ Answer(p, "Success")
    <3>1. SessionsMoveOn /\ session'[request[p].token] = Ended
      BY <1>1, <2>2 DEF SessionsMoveOn, RequestTypes
    <3> QED BY <1>1, <1>2, <2>1, <2>2, <3>1, TokenAssumption, AccessAnswer
  <2>3. CASE UNCHANGED session /\ Answer(p, "InternalError")
    BY <1>1, <1>2, <1>3, <2>1, <2>3, AccessAnswer
  <2> QED BY <1>5, <2>2, <2>3 DEF DestroySession
<1>6. CASE Validate(p)
  <2>1. request[p].stage = "validate" /\ UNCHANGED session
    BY <1>6 DEF Validate, InStage
  <2>2. CASE Answer(p, "Unauthorized")
    BY <1>1, <1>2, <1>3, <2>1, <2>2, AccessAnswer
  <2>3. CASE request' = [request EXCEPT ![p].stage = "profile",
                                        ![p].user = session[request[p].token]]
    <3> DEFINE r == [request[p] EXCEPT !.stage = "profile",
                                       !.user = session[request[p].token]]
    <3>1. /\ r.user = session[request[p].token] /\ r.code = request[p].code
          /\ r.rpc = request[p].rpc /\ r.token = request[p].token
      BY <1>1 DEF Request
    <3>2. (r.applied <=> request[p].applied) /\ (r.late <=> request[p].late)
      BY <1>1 DEF Request
    <3>3. request' = [request EXCEPT ![p] = r]
      BY <2>3
    <3> HIDE DEF r
    <3>4. Entitled(r, session'[r.token])
      BY <1>1, <1>2, <2>1, <3>1, <3>2 DEF Entitled
    <3> QED BY <1>1, <1>3, <2>1, <3>3, <3>4, AccessOf
  <2> QED BY <1>6, <2>2, <2>3 DEF Validate
<1>7. CASE ReadProfile(p) \/ StartUpdate(p)
  BY <1>1, <1>3, <1>7, AccessOfNone DEF ReadProfile, StartUpdate
<1>8. CASE RejectArgument(p)
  BY <1>1, <1>2, <1>3, <1>8, AccessAnswer DEF RejectArgument, InStage
<1>9. CASE RepositoryStep(p)
  <2> DEFINE r == [request[p] EXCEPT !.applied = @ \/ Applied(p)]
  <2>1. /\ r.user = request[p].user /\ r.code = request[p].code
        /\ r.rpc = request[p].rpc /\ r.token = request[p].token
        /\ r.stage = request[p].stage
    BY <1>1 DEF Request
  <2>2. r.late <=> request[p].late
    BY <1>1 DEF Request
  <2>3. request' = [request EXCEPT ![p] = r] /\ UNCHANGED session
    BY <1>9 DEF RepositoryStep
  <2>4. call[p] # None
    BY <1>9 DEF RepositoryStep, CallStep, QueryFound, QueryNoRows, QueryFails, WriteNull,
                ExecOk, ExecNoRows, ExecFails, ScheduleDelete, At
  <2>5. request[p].stage \notin {"intercept", "answered"}
    BY <1>1, <2>4 DEF Consistent
  <2> HIDE DEF r
  <2>6. Entitled(r, session'[r.token])
    BY <1>1, <1>2, <2>1, <2>2, <2>3, <2>5 DEF Entitled
  <2> QED BY <1>1, <1>3, <2>3, <2>6, AccessOf
<1>10. CASE ProfileRead(p) \/ UpdateDone(p)
  <2>1. /\ request[p].stage \in {"profile", "update", "read_back"} /\ UNCHANGED session
    BY <1>10 DEF ProfileRead, UpdateDone, InStage
  <2>2. CASE \E stage \in {"update", "read_back"} : HandOn(p, stage)
    BY <1>1, <1>2, <2>1, <2>2, AccessHandOn
  <2>3. CASE /\ InStage(p, "read_back") \/ request[p].rpc = "GetProfile"
             /\ Answer(p, "Success")
    <3>1. request[p].rpc # "Logout"
      BY <1>1, <2>3 DEF InStage, Consistent
    <3> QED BY <1>1, <1>2, <1>3, <2>1, <2>3, <3>1, AccessAnswer
  <2>4. CASE \E code \in {"UserNotFound", "InternalError"} : Answer(p, code)
    BY <1>1, <1>2, <1>3, <2>1, <2>4, AccessAnswer
  <2> QED BY <1>10, <2>2, <2>3, <2>4 DEF ProfileRead, UpdateDone
<1> QED BY <1>4, <1>5, <1>6, <1>7, <1>8, <1>9, <1>10 DEF RequestStep

LEMMA AccessStep == RpcInv /\ AccessInv /\ [NextRpc]_rpcVars => AccessInv'
<1> SUFFICES ASSUME RpcInv, AccessInv, [NextRpc]_rpcVars PROVE AccessInv'
  OBVIOUS
<1>1. RequestInv /\ RequestTypes
  BY DEF RpcInv, RequestInv
<1>2. UNCHANGED session => SessionsMoveOn
  BY DEF SessionsMoveOn
<1>3. ASSUME NEW t \in Tokens, SessionExpires(t) \/ \E u \in Users : Login(t, u)
      PROVE  AccessInv'
  <2>1. SessionsMoveOn /\ UNCHANGED request
    BY <1>1, <1>3 DEF SessionExpires, Login, SessionsMoveOn, RequestTypes
  <2> QED BY <1>1, <2>1, AccessOfNone
<1>4. ASSUME NEW p \in Procs, NEW t \in Tokens, NEW rpc, NEW arg, Arrive(p, rpc, t, arg)
      PROVE  AccessInv'
  <2> DEFINE r == [rpc |-> rpc, token |-> t, arg |-> arg, stage |-> "intercept",
                   user |-> None, code |-> None, applied |-> FALSE,
                   late |-> session[t] = Ended]
  <2>1. request' = [request EXCEPT ![p] = r] /\ UNCHANGED session
    BY <1>4 DEF Arrive
  <2>2. Entitled(r, session'[r.token])
    BY <2>1, RequestAssumption DEF Entitled, Codes
  <2> HIDE DEF r
  <2> QED BY <1>1, <1>2, <2>1, <2>2, AccessOf
<1>5. ASSUME NEW p \in Procs, Reply(p) PROVE AccessInv'
  BY <1>1, <1>2, <1>5, AccessOf DEF Reply
<1>6. CASE Stop
  BY <1>6 DEF Stop, AccessInv, Entitled
<1>7. CASE Background \/ UNCHANGED rpcVars
  BY <1>1, <1>2, <1>7, AccessOfNone DEF Background, rpcVars
<1>8. ASSUME NEW p \in Procs, RequestStep(p) PROVE AccessInv'
  BY <1>1, <1>8, AccessRequestStep
<1> QED BY <1>3, <1>4, <1>5, <1>6, <1>7, <1>8 DEF NextRpc

-----------------------------------------------------------------------------
(* Theorems *)

\* The store, the sessions and the requests stay well-typed.
THEOREM RpcTypeCorrect == SpecRpc => []TypeOKRpc
<1>1. RpcInv => TypeOKRpc
  BY DEF RpcInv, ExistedInv, RequestInv, RequestTypes, TypeOKRpc
<1> QED BY <1>1, RpcInvariant, PTL

\* No update that was answered with a rejection has changed the table, also not one
\* whose profile was read back afterwards.
THEOREM RejectionsAreHarmless == SpecRpc => []RejectionsChangeNothing
<1>1. RpcInv => RejectionsChangeNothing
  <2> SUFFICES ASSUME RpcInv, NEW p \in Procs, request[p] # None,
                      request[p].code \in Rejections
               PROVE  ~request[p].applied
    BY DEF RejectionsChangeNothing
  <2> QED BY DEF RpcInv, RequestInv, Consistent
<1> QED BY <1>1, RpcInvariant, PTL

\* Every update that was answered with success has changed the table.
THEOREM SuccessIsTrue == SpecRpc => []SuccessIsApplied
<1>1. RpcInv => SuccessIsApplied
  <2> SUFFICES ASSUME RpcInv, NEW p \in Procs, request[p] # None,
                      request[p].rpc = "Update", request[p].code = "Success"
               PROVE  request[p].applied
    BY DEF SuccessIsApplied, InStage
  <2> QED BY DEF RpcInv, RequestInv, Consistent
<1> QED BY <1>1, RpcInvariant, PTL

\* The users table and the answers follow the sessions: nobody works on another's
\* profile or under a token never handed out, what comes after a logout or an expiry
\* is refused, and a logout that reports success has taken effect.
THEOREM AccessIsControlled == SpecRpc => []AccessFollowsSession
<1>1. InitRpc => AccessInv
  BY DEF InitRpc, AccessInv
<1>2. AccessInv => AccessFollowsSession
  <2> SUFFICES ASSUME AccessInv, NEW p \in Procs, request[p] # None
               PROVE  LET user == session[request[p].token] IN
                      /\ request[p].user # None => user \in {request[p].user, Ended}
                      /\ Acts(p) => user # None
                      /\ LogsOut(p) => user = Ended
                      /\ request[p].late => /\ request[p].code \in {None, "Unauthenticated"}
                                            /\ ~Acts(p)
    BY DEF AccessFollowsSession
  <2>1. Entitled(request[p], session[request[p].token])
    BY DEF AccessInv
  <2>2. None # "Success"
    BY RequestAssumption DEF Codes
  <2> QED BY <2>1, <2>2 DEF Entitled, Acts, LogsOut
<1> QED BY <1>1, <1>2, RpcInvariant, AccessStep, PTL DEF SpecRpc

\* The server implements the profile store: what the requests do with it are
\* sequences of repository calls that UserRepository allows.
THEOREM ServerUsesRepository == SpecRpc => UsesRepository
<1>1. InitRpc => Init
  BY DEF InitRpc
<1>2. RpcInv /\ [NextRpc]_rpcVars => [Next]_vars
  BY StepRefines DEF RpcInv
<1> QED BY <1>1, <1>2, RpcInvariant, PTL DEF SpecRpc, UsesRepository, Spec

\* So the delayed double delete does for the server what it does for the store.
THEOREM ServerDoubleDelete ==
    ASSUME FillBound < DeleteDelay, DeletesAreKept
    PROVE  SpecRpc => []StaleOnlyWhileDeletePending
<1>1. Spec => []StaleOnlyWhileDeletePending
  BY DoubleDelete
<1> QED BY <1>1, ServerUsesRepository, PTL DEF UsesRepository

-----------------------------------------------------------------------------
(* The server with the history of CacheStaleness *)

\* Rows age with the clock, whatever the requests do.
RowsAge ==
    age' = [u \in Users |->
              [row \in Row |-> IF db'[u] = row THEN 0
                              ELSE IF Tick THEN Older(age[u][row]) ELSE age[u][row]]]

SpecRpcAged ==
    /\ InitRpc /\ InitAged
    /\ [][NextRpc /\ RowsAge]_<<rpcVars, age>>

\* A step that does not touch the store makes no row older.
LEMMA AgeStands ==
    ASSUME AgeInv, UNCHANGED db, ~Tick, RowsAge
    PROVE  age' = age
<1> SUFFICES ASSUME NEW u \in Users, NEW row \in Row PROVE age'[u][row] = age[u][row]
  <2>1. /\ age \in [Users -> [Row -> 0..Horizon]]
        /\ age' = [u \in Users |-> [row \in Row |-> age'[u][row]]]
    BY DEF AgeInv, TypeOKAged, RowsAge
  <2>2. age = [u \in Users |-> [row \in Row |-> age[u][row]]]
    BY <2>1
  <2> QED BY <2>1, <2>2
<1>1. age'[u][row] = IF db[u] = row THEN 0 ELSE age[u][row]
  BY DEF RowsAge
<1>2. row # None
  BY NoneAssumption
<1>3. db[u] = row => age[u][row] = 0
  BY <1>2 DEF AgeInv, TableIsNew
<1> QED BY <1>1, <1>3

LEMMA AgedStepRefines ==
    RpcInv /\ AgeInv /\ [NextRpc /\ RowsAge]_<<rpcVars, age>> => [NextAged]_agedVars
<1> SUFFICES ASSUME RpcInv, AgeInv, [NextRpc /\ RowsAge]_<<rpcVars, age>>
             PROVE  [NextAged]_agedVars
  OBVIOUS
<1>1. CASE UNCHANGED <<rpcVars, age>>
  BY <1>1 DEF rpcVars, agedVars
<1>2. CASE NextRpc /\ RowsAge
  <2>1. Step \/ Tick \/ UNCHANGED vars
    BY <1>2, StepRefines DEF RpcInv, Next
  <2>2. CASE Tick
    <3>1. db' = db
      BY <2>2 DEF Tick
    <3>2. age' = [u \in Users |->
                    [row \in Row |-> IF db[u] = row THEN 0 ELSE Older(age[u][row])]]
      BY <1>2, <2>2, <3>1 DEF RowsAge
    <3> QED BY <2>2, <3>2 DEF NextAged, TickAged
  <2>3. CASE Step /\ ~Tick
    BY <1>2, <2>3 DEF RowsAge, NextAged, StepAged
  <2>4. CASE UNCHANGED vars /\ ~Tick
    <3>1. age' = age
      BY <1>2, <2>4, AgeStands DEF vars
    <3> QED BY <2>4, <3>1 DEF agedVars
  <2> QED BY <2>1, <2>2, <2>3, <2>4
<1> QED BY <1>1, <1>2

\* The server with the history implements the store with it.
LEMMA ServerAges == SpecRpcAged => SpecAged
<1>1. InitRpc /\ InitAged => RpcInv /\ AgeInv
  BY RpcInit, AgeInit
<1>2. RpcInv /\ [NextRpc /\ RowsAge]_<<rpcVars, age>> => RpcInv'
  BY RpcStep DEF rpcVars
<1>3. AgeInv /\ [NextAged]_agedVars => AgeInv'
  BY AgeNext
<1> QED BY <1>1, <1>2, <1>3, AgedStepRefines, PTL DEF SpecRpcAged, SpecAged

\* Whatever fails and however many requests there are, what the server serves from
\* Redis was the content of the users table at most StalenessBound ticks ago, and to
\* the RPC handlers the store is a table that is read with this lag.
THEOREM ServerStaleness == SpecRpcAged => []BoundedStaleness /\ KeepsPromise
BY ServerAges, StalenessIsBounded, StoreKeepsPromise, PTL
=============================================================================
