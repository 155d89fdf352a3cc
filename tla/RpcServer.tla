----------------------------- MODULE RpcServer -----------------------------
(***************************************************************************)
(* The authenticated RPCs of the TCP server: Logout, GetProfile,           *)
(* UpdateNickname and UpdateProfilePicture, from the interceptor through   *)
(* handler and service to the profile store of UserRepository              *)
(* (middleware/grpc_interceptor.go, rpchandler/user_handler.go,            *)
(* service/user_service.go).                                               *)
(*                                                                         *)
(* A process serves one request at a time.  A request is stopped and       *)
(* answered, or handed on: intercept, validate, profile, update, read_back.*)
(* In the last three it makes a repository call of its own, whose steps    *)
(* are those of UserRepository.  The gateway sends the same token in the   *)
(* metadata and in the request.                                            *)
(***************************************************************************)
EXTENDS UserRepository

CONSTANTS
    Tokens,
    Ended       \* a token whose session was destroyed or has expired

VARIABLES
    session,    \* sess:<token>: a user, None before the login, or Ended
    request     \* the RPC a process serves, or None

rpcVars == <<vars, session, request>>

\* arg is what an update is to write; None for Logout and GetProfile.
Updates == Fields \X Values
Stages  == {"intercept", "destroy", "validate", "profile", "update", "read_back",
            "answered"}
Codes   == {"Success", "Unauthenticated", "InvalidParams", "Unauthorized",
            "UserNotFound", "InternalError"}

\* Two fields are history.  applied: whether the request has changed the users table;
\* late: whether the session of its token had ended before it arrived.
Request == [rpc : {"Logout", "GetProfile", "Update"}, token : Tokens,
            arg : Updates \cup {None}, stage : Stages, user : Users \cup {None},
            code : Codes \cup {None}, applied : BOOLEAN, late : BOOLEAN]

ASSUME TokenAssumption == None \notin Users /\ Ended \notin Users /\ Ended # None
ASSUME RequestAssumption == None \notin Request /\ None \notin Codes

InitRpc ==
    /\ Init
    /\ session = [t \in Tokens |-> None]
    /\ request = [p \in Procs |-> None]

-----------------------------------------------------------------------------
(* Sessions *)

ValidateSession(t) == session[t] \in Users

\* CreateSession; tokens are random and never come twice.
Login(t, u) ==
    /\ session[t] = None
    /\ session' = [session EXCEPT ![t] = u]
    /\ UNCHANGED <<vars, request>>

SessionExpires(t) ==
    /\ session[t] \in Users
    /\ session' = [session EXCEPT ![t] = Ended]
    /\ UNCHANGED <<vars, request>>

-----------------------------------------------------------------------------
(* Requests *)

InStage(p, stage) == request[p] # None /\ request[p].stage = stage

Arrive(p, rpc, t, arg) ==
    /\ request[p] = None
    /\ arg = None <=> rpc # "Update"
    /\ request' = [request EXCEPT ![p] =
                     [rpc |-> rpc, token |-> t, arg |-> arg, stage |-> "intercept",
                      user |-> None, code |-> None, applied |-> FALSE,
                      late |-> session[t] = Ended]]
    /\ UNCHANGED <<vars, session>>

HandOn(p, stage) == request' = [request EXCEPT ![p].stage = stage]

\* A response carries the code; what the handler knew is gone.
Answer(p, code) ==
    request' = [request EXCEPT ![p].stage = "answered", ![p].code = code,
                               ![p].arg = None, ![p].user = None]

\* AuthInterceptor: any error of the lookup is an invalid token.
Intercept(p) ==
    /\ InStage(p, "intercept")
    /\ \/ /\ ValidateSession(request[p].token)
          /\ HandOn(p, IF request[p].rpc = "Logout" THEN "destroy" ELSE "validate")
       \/ /\ ~ValidateSession(request[p].token) \/ "get" \in Faults
          /\ Answer(p, "Unauthenticated")
    /\ UNCHANGED <<vars, session>>

\* Mutation of DestroySession: an error of Redis is passed over.
DestroyUnchecked(p) ==
    /\ InStage(p, "destroy")
    /\ \/ session' = [session EXCEPT ![request[p].token] = Ended]
       \/ "delete" \in Faults /\ UNCHANGED session
    /\ Answer(p, "Success")
    /\ UNCHANGED vars

\* service.Logout: the session is deleted whether or not it still exists.
DestroySession(p) ==
    /\ InStage(p, "destroy")
    /\ \/ /\ session' = [session EXCEPT ![request[p].token] = Ended]
          /\ Answer(p, "Success")
       \/ /\ "delete" \in Faults
          /\ UNCHANGED session
          /\ Answer(p, "InternalError")
    /\ UNCHANGED vars

\* service.GetProfile looks the token up again; this user is the one acted for.
Validate(p) ==
    /\ InStage(p, "validate")
    /\ \/ /\ ValidateSession(request[p].token)
          /\ request' = [request EXCEPT ![p].stage = "profile",
                                        ![p].user = session[request[p].token]]
       \/ /\ ~ValidateSession(request[p].token) \/ "get" \in Faults
          /\ Answer(p, "Unauthorized")
    /\ UNCHANGED <<vars, session>>

-----------------------------------------------------------------------------
(* Repository calls of a request *)

\* The call for the profile, before an update and after it.
ReadProfile(p) ==
    /\ InStage(p, "profile") \/ InStage(p, "read_back")
    /\ GetByID(p, request[p].user)
    /\ UNCHANGED <<session, request>>

\* The nickname or URL is malformed; this is found out only after the profile was read.
RejectArgument(p) ==
    /\ InStage(p, "update")
    /\ call[p] = None
    /\ Answer(p, "InvalidParams")
    /\ UNCHANGED <<vars, session>>

StartUpdate(p) ==
    /\ InStage(p, "update")
    /\ FirstDelete(p, request[p].user, request[p].arg[1], request[p].arg[2])
    /\ UNCHANGED <<session, request>>

Applied(p) == db' # db

RepositoryStep(p) ==
    /\ request[p] # None
    /\ CallStep(p)
    /\ request' = [request EXCEPT ![p].applied = @ \/ Applied(p)]
    /\ UNCHANGED session

\* What the handlers make of a repository call that has returned.  Service errors
\* that wrap a repository error are not recognised by mapServiceError.
ProfileRead(p) ==
    /\ InStage(p, "profile") \/ InStage(p, "read_back")
    /\ Return(p)
    /\ \/ /\ At(p, "found")
          /\ \/ InStage(p, "profile") /\ request[p].rpc = "Update" /\ HandOn(p, "update")
             \/ /\ InStage(p, "read_back") \/ request[p].rpc = "GetProfile"
                /\ Answer(p, "Success")
       \/ At(p, "not_found") /\ Answer(p, "UserNotFound")
       \/ At(p, "failed") /\ Answer(p, "InternalError")
    /\ UNCHANGED session

\* Mutation of UpdateDone: a failed update is read back all the same.
UpdateDoneAnyway(p) ==
    /\ InStage(p, "update")
    /\ Return(p)
    /\ HandOn(p, "read_back")
    /\ UNCHANGED session

\* Mutation of UpdateDone: the statement is repeated after a failure.
UpdateDoneRetrying(p) ==
    /\ InStage(p, "update")
    /\ \/ At(p, "updated") /\ Return(p) /\ HandOn(p, "read_back")
       \/ At(p, "failed") /\ Goto(p, "exec") /\ UNCHANGED <<db, cache, fill, timer, request>>
    /\ UNCHANGED session

UpdateDone(p) ==
    /\ InStage(p, "update")
    /\ Return(p)
    /\ \/ At(p, "updated") /\ HandOn(p, "read_back")
       \/ At(p, "failed") /\ Answer(p, "InternalError")
    /\ UNCHANGED session

\* The answer reaches the gateway.
Reply(p) ==
    /\ InStage(p, "answered")
    /\ request' = [request EXCEPT ![p] = None]
    /\ UNCHANGED <<vars, session>>

-----------------------------------------------------------------------------
(* The process and its surroundings *)

\* Write-backs, timers, inserts and the clock go on beside the requests.
Background ==
    /\ \/ \E s \in FillSlots : LandFill(s)
       \/ \E t \in TimerSlots : DelayedDelete(t)
       \/ \E U \in SUBSET Users : \E users \in [U -> Row] : BatchCreate(users)
       \/ Tick
    /\ UNCHANGED <<session, request>>

Stop ==
    /\ Crash \/ (GracefulStop /\ \A p \in Procs : request[p] = None)
    /\ request' = [p \in Procs |-> None]
    /\ UNCHANGED session

RequestStep(p) ==
    \/ Intercept(p) \/ DestroySession(p) \/ Validate(p)
    \/ ReadProfile(p) \/ RejectArgument(p) \/ StartUpdate(p)
    \/ RepositoryStep(p) \/ ProfileRead(p) \/ UpdateDone(p)

NextRpc ==
    \/ \E t \in Tokens : SessionExpires(t) \/ \E u \in Users : Login(t, u)
    \/ \E p \in Procs, t \in Tokens :
          \/ Arrive(p, "Logout", t, None) \/ Arrive(p, "GetProfile", t, None)
          \/ \E arg \in Updates : Arrive(p, "Update", t, arg)
    \/ \E p \in Procs : RequestStep(p) \/ Reply(p)
    \/ Background
    \/ Stop

SpecRpc == InitRpc /\ [][NextRpc]_rpcVars

-----------------------------------------------------------------------------
(* Properties *)

\* Types of the variables; the store's included.
TypeOKRpc ==
    /\ TypeOK
    /\ session \in [Tokens -> Users \cup {None, Ended}]
    /\ request \in [Procs -> Request \cup {None}]

Rejections == {"Unauthenticated", "InvalidParams", "Unauthorized", "UserNotFound"}

\* An update that is answered with anything but success or an internal error has
\* not changed the table.  UserNotFound, which the read after an update can answer
\* too, is the case in point: negative entries of other requests lie in wait.
RejectionsChangeNothing ==
    \A p \in Procs :
        request[p] # None /\ request[p].code \in Rejections => ~request[p].applied

\* An update answered with success has changed the table.
SuccessIsApplied ==
    \A p \in Procs :
        InStage(p, "answered") /\ request[p].rpc = "Update" /\ request[p].code = "Success"
        => request[p].applied

LogsOut(p) == request[p].rpc = "Logout" /\ request[p].code = "Success"

Acts(p) == request[p].applied \/ request[p].code = "Success"

\* What a request may do depends on the session of its token, whatever becomes of that
\* session between the two lookups and after them: it works for the user who logged
\* in, does nothing for a token that was never handed out, and nothing for one that
\* had ended when it came; and a logout answered with success has ended the session.
AccessFollowsSession ==
    \A p \in Procs : request[p] # None =>
        LET user == session[request[p].token] IN
        /\ request[p].user # None => user \in {request[p].user, Ended}
        /\ Acts(p) => user # None
        /\ LogsOut(p) => user = Ended
        /\ request[p].late => request[p].code \in {None, "Unauthenticated"} /\ ~Acts(p)

\* What the requests make of the profile store is what UserRepository allows, so
\* that all that holds of it holds of the server.
UsesRepository == Spec

\* user_service_test.go:560 and the example of httpserver/README.md: the profile an
\* update is answered with shows the update, unless it has been overwritten since.
AnswerShowsUpdate ==
    \A p \in Procs :
        InStage(p, "read_back") /\ At(p, "found")
        => LET field == request[p].arg[1]
               value == request[p].arg[2]
           IN  call[p].row[field] = value \/ db[request[p].user][field] # value
=============================================================================
