---------------------------- MODULE AvatarUpload ----------------------------
(***************************************************************************)
(* Avatars: the files the gateway keeps under uploads/avatars against the  *)
(* profile_picture column of the TCP server's users table                  *)
(* (httpserver/internal/handler/user_handler.go, UploadProfilePicture and  *)
(* GetProfilePicture).                                                     *)
(*                                                                         *)
(* An upload looks the user up, writes the file <id><ext> over whatever is *)
(* there, has the column set by the UpdateProfilePicture RPC and removes   *)
(* the file again when that is reported as failed.  The gateway waits for  *)
(* the RPC no longer than its deadline; the server may still carry it out, *)
(* also after the upload has been answered.  Several uploads of one user   *)
(* run side by side.                                                       *)
(*                                                                         *)
(* The TCP server's profile cache is left out: picture is the column, not  *)
(* what a GetProfile is answered in the meantime (UserRepository).         *)
(***************************************************************************)
EXTENDS Naturals

CONSTANTS
    Users,
    Extensions,     \* keys of allowedExtensionsMap
    Procs,          \* concurrent uploads
    Contents,       \* what is uploaded
    Faults,         \* which operations may fail, a subset of FaultKinds
    Partial,        \* a file whose writing broke off
    None            \* no file, an empty column, no upload, no RPC

\* "profile": the first RPC fails; "write": the disk does; "refuse": the update
\* is not carried out; "read_back": it is, and reported as failed; "deadline": the
\* gateway stops waiting; "remove": the file stays; "crash": the gateway's process ends.
FaultKinds == {"profile", "write", "refuse", "read_back", "deadline", "remove", "crash"}

Paths  == Users \X Extensions
Upload == [path : Paths, content : Contents, alone : BOOLEAN,
           stage : {"profile", "save", "send", "wait", "remove", "success", "failed"}]
Rpc    == [path : Paths, state : {"sent", "ok", "error"}]

ASSUME FaultAssumption == Faults \subseteq FaultKinds
ASSUME NoneAssumption ==
    /\ None \notin Extensions \cup Contents \cup Upload \cup Rpc \cup {Partial}
    /\ Partial \notin Contents

VARIABLES
    files,      \* uploads/avatars
    picture,    \* the column: the extension in the URL of a user's avatar
    upload,     \* the upload a goroutine of the gateway serves
    rpc,        \* its update RPC, as the server sees it; it may outlive the upload
    settled,    \* history: the paths the column has named, and those a crash
                \* or a failed removal has left
    broken      \* history: the paths where a write broke off or a failed
                \* upload's file was to be removed

history == <<settled, broken>>
vars == <<files, picture, upload, rpc, history>>

Init ==
    /\ files = [path \in Paths |-> None]
    /\ picture = [u \in Users |-> None]
    /\ upload = [p \in Procs |-> None]
    /\ rpc = [p \in Procs |-> None]
    /\ settled = {} /\ broken = {}

-----------------------------------------------------------------------------

InStage(p, stage) == upload[p] # None /\ upload[p].stage = stage
Goto(p, stage) == upload' = [upload EXCEPT ![p].stage = stage]
Path(p) == upload[p].path

InState(p, state) == rpc[p] # None /\ rpc[p].state = state

\* Uploads of the user, and RPCs of ones that are over, that could still do something.
Rivals(u) ==
    {q \in Procs : \/ upload[q] # None /\ Path(q)[1] = u
                   \/ rpc[q] # None /\ rpc[q].path[1] = u}

\* alone is history: neither another upload of the user nor an RPC that an earlier
\* one gave up overlaps with this one.
Arrive(p, path, content) ==
    /\ upload[p] = None /\ rpc[p] = None
    /\ upload' = [q \in Procs |->
         IF q = p
         THEN [path |-> path, content |-> content, stage |-> "profile",
               alone |-> Rivals(path[1]) = {}]
         ELSE IF upload[q] # None /\ Path(q)[1] = path[1] THEN [upload[q] EXCEPT !.alone = FALSE]
         ELSE upload[q]]
    /\ UNCHANGED <<files, picture, rpc, history>>

GetProfile(p) ==
    /\ InStage(p, "profile")
    /\ Goto(p, "save") \/ ("profile" \in Faults /\ Goto(p, "failed"))
    /\ UNCHANGED <<files, picture, rpc, history>>

\* Mutation of SaveUploadedFile: a file that is there already is left alone.
SaveIfAbsent(p) ==
    /\ InStage(p, "save")
    /\ IF files[Path(p)] = None
       THEN files' = [files EXCEPT ![Path(p)] = upload[p].content]
       ELSE UNCHANGED files
    /\ Goto(p, "send")
    /\ UNCHANGED <<picture, rpc, history>>

\* Mutation of SaveUploadedFile: the user's other pictures are deleted right away.
SaveReplacingOthers(p) ==
    /\ InStage(p, "save")
    /\ files' = [path \in Paths |->
         IF path = Path(p) THEN upload[p].content
         ELSE IF path[1] = Path(p)[1] THEN None ELSE files[path]]
    /\ Goto(p, "send")
    /\ UNCHANGED <<picture, rpc, history>>

\* os.Create truncates the file before anything is written.
SaveUploadedFile(p) ==
    /\ InStage(p, "save")
    /\ \/ /\ files' = [files EXCEPT ![Path(p)] = upload[p].content]
          /\ Goto(p, "send")
          /\ UNCHANGED broken
       \/ /\ "write" \in Faults
          /\ files' \in {files, [files EXCEPT ![Path(p)] = Partial]}
          /\ Goto(p, "failed")
          /\ broken' = broken \cup {Path(p)}
    /\ UNCHANGED <<picture, rpc, settled>>

\* Mutation of Send: the RPC is never made.
SendNothing(p) ==
    /\ InStage(p, "send")
    /\ Goto(p, "wait")
    /\ UNCHANGED <<files, picture, rpc, history>>

Send(p) ==
    /\ InStage(p, "send")
    /\ rpc' = [rpc EXCEPT ![p] = [path |-> Path(p), state |-> "sent"]]
    /\ Goto(p, "wait")
    /\ UNCHANGED <<files, picture, history>>

\* Nobody takes the answer of an RPC whose upload is over.
Reply(p, answer) ==
    rpc' = [rpc EXCEPT ![p] =
              IF upload[p] = None THEN None ELSE [path |-> @.path, state |-> answer]]

\* UpdateProfilePicture at the TCP server.  A column that does not change is
\* reported as a user that was not found.
Serve(p) ==
    /\ InState(p, "sent")
    /\ LET u == rpc[p].path[1]
           ext == rpc[p].path[2]
       IN  \/ /\ picture[u] # ext
              /\ picture' = [picture EXCEPT ![u] = ext]
              /\ settled' = settled \cup {rpc[p].path}
              /\ Reply(p, "ok") \/ ("read_back" \in Faults /\ Reply(p, "error"))
           \/ /\ picture[u] = ext \/ "refuse" \in Faults
              /\ Reply(p, "error")
              /\ UNCHANGED <<picture, settled>>
    /\ UNCHANGED <<files, upload, broken>>

\* Mutation of Receive: the file is left where it is.
ReceiveKeepingFile(p) ==
    /\ InStage(p, "wait")
    /\ \/ InState(p, "ok") /\ Goto(p, "success")
       \/ (InState(p, "error") \/ "deadline" \in Faults) /\ Goto(p, "failed")
    /\ UNCHANGED <<files, picture, rpc, history>>

\* Mutation of Receive: the context of the RPC has no deadline.
ReceivePatiently(p) ==
    /\ InStage(p, "wait")
    /\ \/ InState(p, "ok") /\ Goto(p, "success")
       \/ InState(p, "error") /\ Goto(p, "remove")
    /\ UNCHANGED <<files, picture, rpc, history>>

Receive(p) ==
    /\ InStage(p, "wait")
    /\ \/ InState(p, "ok") /\ Goto(p, "success")
       \/ (InState(p, "error") \/ "deadline" \in Faults) /\ Goto(p, "remove")
    /\ UNCHANGED <<files, picture, rpc, history>>

\* os.Remove; a failure is logged.
Remove(p) ==
    /\ InStage(p, "remove")
    /\ \/ files' = [files EXCEPT ![Path(p)] = None] /\ UNCHANGED settled
       \/ "remove" \in Faults /\ settled' = settled \cup {Path(p)} /\ UNCHANGED files
    /\ broken' = broken \cup {Path(p)}
    /\ Goto(p, "failed")
    /\ UNCHANGED <<picture, rpc>>

\* RPCs whose uploads are over stay until the server is through with them.
Abandoned(p) == IF InState(p, "sent") THEN rpc[p] ELSE None

\* The answer goes to the client.
Done(p) ==
    /\ InStage(p, "success") \/ InStage(p, "failed")
    /\ upload' = [upload EXCEPT ![p] = None]
    /\ rpc' = [rpc EXCEPT ![p] = Abandoned(p)]
    /\ UNCHANGED <<files, picture, history>>

\* The gateway's process ends, maybe in the middle of writing files.  What the
\* server has begun it may still complete.
Crash ==
    /\ "crash" \in Faults
    /\ \E p \in Procs : upload[p] # None
    /\ \E torn \in SUBSET {Path(p) : p \in {q \in Procs : InStage(q, "save")}} :
          /\ files' = [path \in Paths |-> IF path \in torn THEN Partial ELSE files[path]]
          /\ broken' = broken \cup torn
    /\ upload' = [p \in Procs |-> None]
    /\ rpc' = [p \in Procs |-> Abandoned(p)]
    /\ settled' = settled \cup {Path(p) : p \in {q \in Procs : upload[q] # None}}
    /\ UNCHANGED picture

HandlerStep(p) ==
    GetProfile(p) \/ SaveUploadedFile(p) \/ Send(p) \/ Receive(p) \/ Remove(p)

Next ==
    \/ \E p \in Procs :
          \/ \E path \in Paths, content \in Contents : Arrive(p, path, content)
          \/ HandlerStep(p) \/ Serve(p) \/ Done(p)
    \/ Crash

Spec == Init /\ [][Next]_vars

\* The goroutines of the gateway are scheduled and its disk answers.  The TCP server
\* may never do so.
FairSpec == Spec /\ \A p \in Procs : WF_vars(HandlerStep(p))

-----------------------------------------------------------------------------

\* GetProfilePicture, when GetProfile has answered it a URL with this extension: the
\* file, or None for the default avatar.
Served(u, ext) == IF ext = None THEN None ELSE files[<<u, ext>>]

\* Types of the variables; a waiting upload has its RPC, and an RPC whose upload is
\* over is still to be served.
TypeOK ==
    /\ files \in [Paths -> Contents \cup {Partial, None}]
    /\ picture \in [Users -> Extensions \cup {None}]
    /\ upload \in [Procs -> Upload \cup {None}]
    /\ rpc \in [Procs -> Rpc \cup {None}]
    /\ settled \subseteq Paths /\ broken \subseteq Paths
    /\ \A p \in Procs :
          /\ InStage(p, "wait") => rpc[p] # None
          /\ rpc[p] # None => IF upload[p] = None THEN rpc[p].state = "sent"
                              ELSE rpc[p].path = Path(p)

\* Failed uploads clean up after themselves: a whole file no upload is busy with
\* has been the user's avatar, but for what a crash or a failed removal left.
NoOrphans ==
    \A path \in Paths :
        files[path] \in Contents =>
            \/ path \in settled
            \/ \E p \in Procs :
                  /\ upload[p] # None /\ Path(p) = path
                  /\ upload[p].stage \in {"send", "wait", "remove"}

\* An upload answered with success is stored, whatever became of earlier ones: the
\* column names its file and the file is this one.  Unless another upload of the user
\* overlapped with it, or the RPC one of them had given up.
SuccessIsStored ==
    \A p \in Procs :
        InStage(p, "success") /\ upload[p].alone
        => picture[Path(p)[1]] = Path(p)[2] /\ files[Path(p)] = upload[p].content

\* Only a failed upload takes an avatar away, and only one with its very extension: a
\* column names a whole file but where a write broke off or a failed upload was
\* removed.  That is so with late RPCs and crashes, too.
ColumnsNameFiles ==
    \A u \in Users :
        picture[u] # None =>
            Served(u, picture[u]) \in Contents \/ <<u, picture[u]>> \in broken

\* Every upload comes to an end, also when the TCP server hangs: the deadline of
\* the RPC sees to it.
UploadAnswered ==
    \A p \in Procs :
        upload[p] # None ~>
            upload[p] = None \/ InStage(p, "success") \/ InStage(p, "failed")

\* httpserver/static/README.md:91, the default avatar is for users who are not
\* logged in or have not uploaded one: a user whose column names a file is served it,
\* here on a profile as fresh as the column.
UploadedIsServed == \A u \in Users : picture[u] # None => Served(u, picture[u]) # None
=============================================================================
