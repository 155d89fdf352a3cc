------------------------- MODULE AvatarUploadProofs -------------------------
(***************************************************************************)
(* Theorems about AvatarUpload, for every number of users, uploads and     *)
(* extensions and with every kind of failure.                              *)
(***************************************************************************)
EXTENDS AvatarUpload, TLAPS

Stages == {"profile", "save", "send", "wait", "remove", "success", "failed"}

\* An upload that goes on keeps what it is about; the others keep everything.
LEMMA GotoKeeps ==
    ASSUME upload \in [Procs -> Upload \cup {None}], NEW p \in Procs, upload[p] # None,
           NEW stage \in Stages, Goto(p, stage)
    PROVE  /\ upload' \in [Procs -> Upload \cup {None}]
           /\ upload'[p] # None
           /\ upload'[p].stage = stage
           /\ upload'[p].path = upload[p].path
           /\ upload'[p].content = upload[p].content
           /\ upload'[p].alone = upload[p].alone
           /\ \A q \in Procs \ {p} : upload'[q] = upload[q]
<1> DEFINE new == [upload[p] EXCEPT !.stage = stage]
<1>1. upload[p] \in Upload
  OBVIOUS
<1>2. new \in Upload /\ new # None
  BY <1>1, NoneAssumption DEF Upload, Stages
<1>3. /\ new.stage = stage /\ new.path = upload[p].path
      /\ new.content = upload[p].content /\ new.alone = upload[p].alone
  BY <1>1 DEF Upload
<1>4. upload' = [upload EXCEPT ![p] = new]
  BY DEF Goto
<1> HIDE DEF new
<1> QED
  BY <1>2, <1>3, <1>4

LEMMA StageIs ==
    ASSUME TypeOK, NEW p \in Procs, upload[p] # None, NEW stage \in Stages, Goto(p, stage)
    PROVE  upload'[p].stage = stage
BY GotoKeeps DEF TypeOK

\* The path of an upload is a user and an extension.
LEMMA PathType ==
    ASSUME upload \in [Procs -> Upload \cup {None}], NEW p \in Procs, upload[p] # None
    PROVE  /\ Path(p) \in Paths
           /\ Path(p)[1] \in Users /\ Path(p)[2] \in Extensions
           /\ Path(p) = <<Path(p)[1], Path(p)[2]>>
           /\ upload[p] \in Upload
           /\ upload[p].content \in Contents
BY DEF Path, Upload, Paths

\* A new upload has company if and only if it is not alone.
LEMMA ArriveKeeps ==
    ASSUME upload \in [Procs -> Upload \cup {None}], NEW p \in Procs,
           NEW path \in Paths, NEW content \in Contents, Arrive(p, path, content)
    PROVE  /\ upload' \in [Procs -> Upload \cup {None}]
           /\ upload'[p] = [path |-> path, content |-> content, stage |-> "profile",
                            alone |-> Rivals(path[1]) = {}]
           /\ \A q \in Procs \ {p} :
                 /\ upload'[q] = None <=> upload[q] = None
                 /\ upload[q] # None =>
                       /\ upload'[q].path = upload[q].path
                       /\ upload'[q].content = upload[q].content
                       /\ upload'[q].stage = upload[q].stage
                       /\ upload'[q].alone <=> upload[q].alone /\ Path(q)[1] # path[1]
<1> DEFINE new == [path |-> path, content |-> content, stage |-> "profile",
                   alone |-> Rivals(path[1]) = {}]
<1>1. new \in Upload
  BY DEF Upload
<1>2. ASSUME NEW q \in Procs, upload[q] # None
      PROVE  /\ [upload[q] EXCEPT !.alone = FALSE] \in Upload
             /\ [upload[q] EXCEPT !.alone = FALSE].path = upload[q].path
             /\ [upload[q] EXCEPT !.alone = FALSE].content = upload[q].content
             /\ [upload[q] EXCEPT !.alone = FALSE].stage = upload[q].stage
             /\ ~[upload[q] EXCEPT !.alone = FALSE].alone
  <2>1. upload[q] \in Upload
    BY <1>2
  <2> QED
    BY <2>1 DEF Upload
<1>3. upload' = [q \in Procs |-> IF q = p THEN new
                                 ELSE IF upload[q] # None /\ Path(q)[1] = path[1]
                                      THEN [upload[q] EXCEPT !.alone = FALSE]
                                      ELSE upload[q]]
  BY DEF Arrive
<1> HIDE DEF new
<1>5. upload'[p] = new
  BY <1>3
<1>6. upload' \in [Procs -> Upload \cup {None}]
  BY <1>1, <1>2, <1>3
<1>7. ASSUME NEW q \in Procs \ {p}
      PROVE  /\ upload'[q] = None <=> upload[q] = None
             /\ upload[q] # None =>
                   /\ upload'[q].path = upload[q].path
                   /\ upload'[q].content = upload[q].content
                   /\ upload'[q].stage = upload[q].stage
                   /\ upload'[q].alone <=> upload[q].alone /\ Path(q)[1] # path[1]
  <2>1. CASE upload[q] # None /\ Path(q)[1] = path[1]
    <3>1. upload'[q] = [upload[q] EXCEPT !.alone = FALSE] /\ upload[q] # None
      BY <1>3, <2>1
    <3> QED
      BY <1>2, <2>1, <3>1, NoneAssumption
  <2>2. CASE upload[q] = None \/ Path(q)[1] # path[1]
    BY <1>3, <2>2
  <2> QED
    BY <2>1, <2>2
<1> QED
  BY <1>5, <1>6, <1>7 DEF new


LEMMA RpcType ==
    ASSUME rpc \in [Procs -> Rpc \cup {None}], NEW p \in Procs, rpc[p] # None
    PROVE  /\ rpc[p] \in Rpc
           /\ rpc[p].path \in Paths
           /\ rpc[p].path[1] \in Users /\ rpc[p].path[2] \in Extensions
           /\ rpc[p].path = <<rpc[p].path[1], rpc[p].path[2]>>
BY DEF Rpc, Paths

LEMMA AbandonedIs ==
    ASSUME rpc \in [Procs -> Rpc \cup {None}], NEW p \in Procs
    PROVE  \/ Abandoned(p) = None
           \/ rpc[p] # None /\ rpc[p].state = "sent" /\ Abandoned(p) = rpc[p]
BY DEF Abandoned, InState

LEMMA SendEffect ==
    ASSUME TypeOK, NEW p \in Procs, Send(p)
    PROVE  /\ rpc' \in [Procs -> Rpc \cup {None}]
           /\ rpc'[p] # None /\ rpc'[p].path = Path(p) /\ rpc'[p].state = "sent"
           /\ \A q \in Procs \ {p} : rpc'[q] = rpc[q]
<1> DEFINE new == [path |-> Path(p), state |-> "sent"]
<1>1. Path(p) \in Paths
  BY PathType DEF TypeOK, Send, InStage
<1>2. new \in Rpc /\ new # None /\ new.path = Path(p) /\ new.state = "sent"
  BY <1>1, NoneAssumption DEF Rpc
<1>3. rpc' = [rpc EXCEPT ![p] = new]
  BY DEF Send
<1> HIDE DEF new
<1> QED
  BY <1>2, <1>3 DEF TypeOK

\* What the server does with an RPC, and what it leaves alone.
LEMMA ServeEffect ==
    ASSUME TypeOK, NEW p \in Procs, Serve(p)
    PROVE  /\ rpc[p] # None /\ rpc[p].state = "sent"
           /\ UNCHANGED <<files, upload, broken>>
           /\ rpc' \in [Procs -> Rpc \cup {None}]
           /\ \A q \in Procs \ {p} : rpc'[q] = rpc[q]
           /\ IF upload[p] = None THEN rpc'[p] = None
              ELSE rpc'[p] # None /\ rpc'[p].path = rpc[p].path
           /\ rpc'[p] # None /\ rpc'[p].state = "ok" =>
                 /\ picture'[rpc[p].path[1]] = rpc[p].path[2]
                 /\ rpc[p].path \in settled'
           /\ picture' \in [Users -> Extensions \cup {None}]
           /\ picture'[rpc[p].path[1]] \in {picture[rpc[p].path[1]], rpc[p].path[2]}
           /\ \A u \in Users \ {rpc[p].path[1]} : picture'[u] = picture[u]
           /\ settled \subseteq settled' /\ settled' \subseteq Paths
<1>1. rpc[p] # None /\ rpc[p].state = "sent"
  BY DEF Serve, InState
<1>2. /\ rpc[p] \in Rpc /\ rpc[p].path \in Paths
      /\ rpc[p].path[1] \in Users /\ rpc[p].path[2] \in Extensions
  BY <1>1, RpcType DEF TypeOK
<1>3. ASSUME NEW answer \in {"ok", "error"}, Reply(p, answer)
      PROVE  /\ rpc' \in [Procs -> Rpc \cup {None}]
             /\ \A q \in Procs \ {p} : rpc'[q] = rpc[q]
             /\ IF upload[p] = None THEN rpc'[p] = None
                ELSE /\ rpc'[p] # None
                     /\ rpc'[p].path = rpc[p].path /\ rpc'[p].state = answer
  <2> DEFINE new == [path |-> rpc[p].path, state |-> answer]
  <2>1. new \in Rpc /\ new # None /\ new.path = rpc[p].path /\ new.state = answer
    BY <1>2, NoneAssumption DEF Rpc
  <2>2. rpc' = [rpc EXCEPT ![p] = IF upload[p] = None THEN None ELSE new]
    BY <1>3 DEF Reply
  <2> HIDE DEF new
  <2> QED
    BY <2>1, <2>2 DEF TypeOK
<1>4. UNCHANGED <<files, upload, broken>>
  BY DEF Serve
<1>5. CASE /\ picture' = [picture EXCEPT ![rpc[p].path[1]] = rpc[p].path[2]]
           /\ settled' = settled \cup {rpc[p].path}
           /\ Reply(p, "ok") \/ Reply(p, "error")
  <2>1. picture' \in [Users -> Extensions \cup {None}]
    BY <1>2, <1>5 DEF TypeOK
  <2>2. /\ picture'[rpc[p].path[1]] = rpc[p].path[2]
        /\ \A u \in Users \ {rpc[p].path[1]} : picture'[u] = picture[u]
    BY <1>2, <1>5 DEF TypeOK
  <2>3. rpc[p].path \in settled' /\ settled \subseteq settled' /\ settled' \subseteq Paths
    BY <1>2, <1>5 DEF TypeOK
  <2> QED
    BY <1>1, <1>3, <1>4, <1>5, <2>1, <2>2, <2>3
<1>6. CASE Reply(p, "error") /\ UNCHANGED <<picture, settled>>
  <2>1. ~(rpc'[p] # None /\ rpc'[p].state = "ok")
    BY <1>3, <1>6
  <2> QED
    BY <1>1, <1>3, <1>4, <1>6, <2>1 DEF TypeOK
<1> QED
  BY <1>5, <1>6 DEF Serve

\* An upload that is over leaves at most an RPC that is still to be served.
LEMMA DoneEffect ==
    ASSUME TypeOK, NEW p \in Procs, Done(p)
    PROVE  /\ upload[p] # None /\ upload[p].stage \in {"success", "failed"}
           /\ upload' \in [Procs -> Upload \cup {None}] /\ upload'[p] = None
           /\ rpc' \in [Procs -> Rpc \cup {None}]
           /\ rpc'[p] # None => /\ rpc[p] # None /\ rpc[p].state = "sent"
                                /\ rpc'[p] = rpc[p]
           /\ \A q \in Procs \ {p} : upload'[q] = upload[q] /\ rpc'[q] = rpc[q]
           /\ UNCHANGED <<files, picture, history>>
<1>1. upload[p] # None /\ upload[p].stage \in {"success", "failed"}
  BY DEF Done, InStage
<1>2. upload' \in [Procs -> Upload \cup {None}] /\ upload'[p] = None
  BY DEF Done, TypeOK
<1>3. rpc'[p] = Abandoned(p) /\ \A q \in Procs \ {p} : upload'[q] = upload[q] /\ rpc'[q] = rpc[q]
  BY DEF Done, TypeOK
<1>4. rpc'[p] # None => /\ rpc[p] # None /\ rpc[p].state = "sent"
                        /\ rpc'[p] = rpc[p]
  BY <1>3, AbandonedIs DEF TypeOK
<1>5. rpc' = [rpc EXCEPT ![p] = Abandoned(p)] /\ Abandoned(p) \in Rpc \cup {None}
  BY AbandonedIs DEF Done, TypeOK
<1>6. rpc' \in [Procs -> Rpc \cup {None}]
  BY <1>5 DEF TypeOK
<1>7. UNCHANGED <<files, picture, history>>
  BY DEF Done
<1> QED
  BY <1>1, <1>2, <1>3, <1>4, <1>6, <1>7

LEMMA CrashEffect ==
    ASSUME TypeOK, Crash
    PROVE  /\ upload' \in [Procs -> Upload \cup {None}]
           /\ rpc' \in [Procs -> Rpc \cup {None}]
           /\ \A p \in Procs :
                 /\ upload'[p] = None
                 /\ rpc'[p] # None => /\ rpc[p] # None /\ rpc[p].state = "sent"
                                      /\ rpc'[p] = rpc[p]
                 /\ upload[p] # None => Path(p) \in settled'
           /\ files' \in [Paths -> Contents \cup {Partial, None}]
           /\ \A path \in Paths : files'[path] = files[path] \/ path \in broken'
           /\ \A path \in Paths : files'[path] \in Contents => files'[path] = files[path]
           /\ settled \subseteq settled' /\ settled' \subseteq Paths
           /\ broken \subseteq broken' /\ broken' \subseteq Paths
           /\ UNCHANGED picture
<1>1. \A p \in Procs : upload[p] # None => Path(p) \in Paths
  BY PathType DEF TypeOK
<1>2. PICK torn \in SUBSET {Path(p) : p \in {q \in Procs : InStage(q, "save")}} :
         /\ files' = [path \in Paths |-> IF path \in torn THEN Partial ELSE files[path]]
         /\ broken' = broken \cup torn
  BY DEF Crash
<1>3. torn \subseteq Paths
  BY <1>1 DEF InStage
<1>4. \A p \in Procs : upload'[p] = None /\ rpc'[p] = Abandoned(p)
  BY DEF Crash
<1>5. \A p \in Procs : rpc'[p] # None => /\ rpc[p] # None /\ rpc[p].state = "sent"
                                         /\ rpc'[p] = rpc[p]
  BY <1>4, AbandonedIs DEF TypeOK
<1>6. \A p \in Procs : Abandoned(p) \in Rpc \cup {None}
  BY AbandonedIs DEF TypeOK
<1>7. rpc' \in [Procs -> Rpc \cup {None}]
  BY <1>6 DEF Crash
<1>8. upload' \in [Procs -> Upload \cup {None}]
  BY DEF Crash
<1>9. settled' = settled \cup {Path(p) : p \in {q \in Procs : upload[q] # None}}
  BY DEF Crash
<1>10. settled \subseteq settled' /\ settled' \subseteq Paths
  BY <1>1, <1>9 DEF TypeOK
<1>11. \A p \in Procs : upload[p] # None => Path(p) \in settled'
  BY <1>9
<1>12. files' \in [Paths -> Contents \cup {Partial, None}]
  BY <1>2 DEF TypeOK
<1>13. \A path \in Paths : files'[path] = files[path] \/ path \in broken'
  BY <1>2
<1>14. \A path \in Paths : files'[path] \in Contents => files'[path] = files[path]
  BY <1>2, NoneAssumption
<1>15. broken \subseteq broken' /\ broken' \subseteq Paths
  BY <1>2, <1>3 DEF TypeOK
<1>16. UNCHANGED picture
  BY DEF Crash
<1> QED
  BY <1>4, <1>5, <1>7, <1>8, <1>10, <1>11, <1>12, <1>13, <1>14, <1>15, <1>16

-----------------------------------------------------------------------------
(* Type correctness *)

LEMMA TypeInit == Init => TypeOK
BY DEF Init, TypeOK, InStage

\* The types without the variables' relations to each other.
Typed ==
    /\ files \in [Paths -> Contents \cup {Partial, None}]
    /\ picture \in [Users -> Extensions \cup {None}]
    /\ upload \in [Procs -> Upload \cup {None}]
    /\ rpc \in [Procs -> Rpc \cup {None}]
    /\ settled \subseteq Paths /\ broken \subseteq Paths

\* How an upload and its RPC go together.
Joined(p) ==
    /\ InStage(p, "wait") => rpc[p] # None
    /\ rpc[p] # None => IF upload[p] = None THEN rpc[p].state = "sent"
                        ELSE rpc[p].path = Path(p)

\* The steps of the handler.
LEMMA TypeHandler ==
    ASSUME TypeOK, NEW p \in Procs, HandlerStep(p)
    PROVE  TypeOK'
<1> SUFFICES Typed' /\ \A q \in Procs : Joined(q)'
  BY DEF TypeOK, Typed, Joined
<1>1. Typed /\ upload \in [Procs -> Upload \cup {None}] /\ \A q \in Procs : Joined(q)
  BY DEF TypeOK, Typed, Joined
<1>2. upload[p] # None
  BY DEF HandlerStep, GetProfile, SaveUploadedFile, Send, Receive, Remove, InStage
<1>3. Path(p) \in Paths /\ upload[p].content \in Contents
  BY <1>1, <1>2, PathType
<1>4. PICK stage \in Stages : Goto(p, stage)
  BY DEF HandlerStep, GetProfile, SaveUploadedFile, Send, Receive, Remove, Stages
<1>5. /\ upload' \in [Procs -> Upload \cup {None}]
      /\ upload'[p] # None /\ upload'[p].stage = stage
      /\ Path(p)' = Path(p)
      /\ \A q \in Procs \ {p} : upload'[q] = upload[q]
  <2>1. /\ upload' \in [Procs -> Upload \cup {None}]
        /\ upload'[p] # None /\ upload'[p].stage = stage
        /\ upload'[p].path = upload[p].path
        /\ \A q \in Procs \ {p} : upload'[q] = upload[q]
    BY <1>1, <1>2, <1>4, GotoKeeps
  <2> QED
    BY <2>1 DEF Path
<1>6. ASSUME rpc' = rpc, stage # "wait" PROVE \A q \in Procs : Joined(q)'
  <2>1. Joined(p)'
    BY <1>1, <1>2, <1>5, <1>6 DEF Joined, InStage
  <2>2. ASSUME NEW q \in Procs \ {p} PROVE Joined(q)'
    BY <1>1, <1>5, <1>6 DEF Joined, InStage, Path
  <2> QED
    BY <2>1, <2>2
<1>7. CASE GetProfile(p)
  <2>1. stage \in {"save", "failed"}
    BY <1>2, <1>5, <1>7, StageIs DEF GetProfile, Stages
  <2>2. UNCHANGED <<files, picture, rpc, settled, broken>>
    BY <1>7 DEF GetProfile, history
  <2> QED
    BY <1>1, <1>5, <1>6, <2>1, <2>2 DEF Typed
<1>8. CASE SaveUploadedFile(p)
  <2>1. stage \in {"send", "failed"}
    BY <1>2, <1>5, <1>8, StageIs DEF SaveUploadedFile, Stages
  <2>2. files' \in [Paths -> Contents \cup {Partial, None}]
    BY <1>1, <1>3, <1>8 DEF SaveUploadedFile, Typed
  <2>3. UNCHANGED <<picture, rpc, settled>> /\ broken' \subseteq Paths
    BY <1>1, <1>3, <1>8 DEF SaveUploadedFile, Typed
  <2> QED
    BY <1>1, <1>5, <1>6, <2>1, <2>2, <2>3 DEF Typed
<1>9. CASE Send(p)
  <2>1. /\ rpc' \in [Procs -> Rpc \cup {None}]
        /\ rpc'[p] # None /\ rpc'[p].path = Path(p)
        /\ \A q \in Procs \ {p} : rpc'[q] = rpc[q]
    BY <1>9, SendEffect
  <2>2. UNCHANGED <<files, picture, settled, broken>>
    BY <1>9 DEF Send, history
  <2>3. Joined(p)'
    BY <1>5, <2>1 DEF Joined
  <2>4. ASSUME NEW q \in Procs \ {p} PROVE Joined(q)'
    BY <1>1, <1>5, <2>1 DEF Joined, InStage, Path
  <2> QED
    BY <1>1, <1>5, <2>1, <2>2, <2>3, <2>4 DEF Typed
<1>10. CASE Receive(p)
  <2>1. stage \in {"success", "remove"}
    BY <1>2, <1>5, <1>10, StageIs DEF Receive, Stages
  <2>2. UNCHANGED <<files, picture, rpc, settled, broken>>
    BY <1>10 DEF Receive, history
  <2> QED
    BY <1>1, <1>5, <1>6, <2>1, <2>2 DEF Typed
<1>11. CASE Remove(p)
  <2>1. stage = "failed"
    BY <1>2, <1>5, <1>11, StageIs DEF Remove, Stages
  <2>2. /\ files' \in [Paths -> Contents \cup {Partial, None}]
        /\ settled' \subseteq Paths /\ broken' \subseteq Paths
    BY <1>1, <1>3, <1>11 DEF Remove, Typed
  <2>3. UNCHANGED <<picture, rpc>>
    BY <1>11 DEF Remove
  <2> QED
    BY <1>1, <1>5, <1>6, <2>1, <2>2, <2>3 DEF Typed
<1> QED
  BY <1>7, <1>8, <1>9, <1>10, <1>11 DEF HandlerStep

LEMMA TypeStep == TypeOK /\ [Next]_vars => TypeOK'
<1> SUFFICES ASSUME TypeOK, [Next]_vars PROVE Typed' /\ \A q \in Procs : Joined(q)'
  BY DEF TypeOK, Typed, Joined
<1>1. Typed /\ upload \in [Procs -> Upload \cup {None}] /\ \A q \in Procs : Joined(q)
  BY DEF TypeOK, Typed, Joined
<1>2. ASSUME NEW p \in Procs, NEW path \in Paths, NEW content \in Contents,
             Arrive(p, path, content)
      PROVE  Typed' /\ \A q \in Procs : Joined(q)'
  <2>1. /\ upload' \in [Procs -> Upload \cup {None}]
        /\ upload'[p] = [path |-> path, content |-> content, stage |-> "profile",
                         alone |-> Rivals(path[1]) = {}]
        /\ \A q \in Procs \ {p} :
              /\ upload'[q] = None <=> upload[q] = None
              /\ upload[q] # None => /\ upload'[q].stage = upload[q].stage
                                     /\ upload'[q].path = upload[q].path
    BY <1>1, <1>2, ArriveKeeps
  <2>2. upload[p] = None /\ rpc[p] = None /\ UNCHANGED <<files, picture, rpc, settled, broken>>
    BY <1>2 DEF Arrive, history
  <2>3. upload'[p].stage = "profile"
    BY <2>1
  <2>4. Joined(p)'
    BY <2>2, <2>3 DEF Joined, InStage
  <2>5. ASSUME NEW q \in Procs \ {p} PROVE Joined(q)'
    BY <1>1, <2>1, <2>2 DEF Joined, InStage, Path
  <2> QED
    BY <1>1, <2>1, <2>2, <2>4, <2>5 DEF Typed
<1>3. ASSUME NEW p \in Procs, Serve(p)
      PROVE  Typed' /\ \A q \in Procs : Joined(q)'
  <2>1. /\ rpc[p] # None
        /\ UNCHANGED <<files, upload, broken>>
        /\ rpc' \in [Procs -> Rpc \cup {None}]
        /\ \A q \in Procs \ {p} : rpc'[q] = rpc[q]
        /\ IF upload[p] = None THEN rpc'[p] = None
           ELSE rpc'[p] # None /\ rpc'[p].path = rpc[p].path
        /\ picture' \in [Users -> Extensions \cup {None}]
        /\ settled' \subseteq Paths
    BY <1>3, ServeEffect
  <2>2. Joined(p)'
    BY <1>1, <2>1 DEF Joined, InStage, Path
  <2>3. ASSUME NEW q \in Procs \ {p} PROVE Joined(q)'
    BY <1>1, <2>1 DEF Joined, InStage, Path
  <2> QED
    BY <1>1, <2>1, <2>2, <2>3 DEF Typed
<1>4. ASSUME NEW p \in Procs, Done(p)
      PROVE  Typed' /\ \A q \in Procs : Joined(q)'
  <2>1. /\ upload' \in [Procs -> Upload \cup {None}] /\ upload'[p] = None
        /\ rpc' \in [Procs -> Rpc \cup {None}]
        /\ rpc'[p] # None => rpc[p].state = "sent" /\ rpc'[p] = rpc[p]
        /\ \A q \in Procs \ {p} : upload'[q] = upload[q] /\ rpc'[q] = rpc[q]
    BY <1>4, DoneEffect
  <2>2. UNCHANGED <<files, picture, settled, broken>>
    BY <1>4 DEF Done, history
  <2>3. Joined(p)'
    BY <2>1 DEF Joined, InStage
  <2>4. ASSUME NEW q \in Procs \ {p} PROVE Joined(q)'
    BY <1>1, <2>1 DEF Joined, InStage, Path
  <2> QED
    BY <1>1, <2>1, <2>2, <2>3, <2>4 DEF Typed
<1>5. CASE Crash
  <2>1. /\ upload' \in [Procs -> Upload \cup {None}]
        /\ rpc' \in [Procs -> Rpc \cup {None}]
        /\ \A p \in Procs :
              /\ upload'[p] = None
              /\ rpc'[p] # None => rpc[p].state = "sent" /\ rpc'[p] = rpc[p]
        /\ files' \in [Paths -> Contents \cup {Partial, None}]
        /\ settled' \subseteq Paths /\ broken' \subseteq Paths
        /\ UNCHANGED picture
    BY <1>5, CrashEffect
  <2>2. ASSUME NEW p \in Procs PROVE Joined(p)'
    BY <2>1 DEF Joined, InStage
  <2> QED
    BY <1>1, <2>1, <2>2 DEF Typed
<1>6. CASE UNCHANGED vars
  <2>1. UNCHANGED <<files, picture, upload, rpc, settled, broken>>
    BY <1>6 DEF vars, history
  <2> QED
    BY <1>1, <2>1 DEF Typed, Joined, InStage, Path
<1>7. ASSUME NEW p \in Procs, HandlerStep(p)
      PROVE  Typed' /\ \A q \in Procs : Joined(q)'
  <2>1. TypeOK'
    BY <1>7, TypeHandler
  <2> QED
    BY <2>1 DEF TypeOK, Typed, Joined
<1> QED
  BY <1>2, <1>3, <1>4, <1>5, <1>6, <1>7 DEF Next

\* The state stays well-typed whatever fails.
THEOREM TypeCorrect == Spec => []TypeOK
<1> QED
  BY TypeInit, TypeStep, PTL DEF Spec

\* What a step of a handler leaves alone.
LEMMA HandlerEffect ==
    ASSUME TypeOK, NEW p \in Procs, HandlerStep(p)
    PROVE  /\ upload[p] # None /\ upload'[p] # None
           /\ upload'[p].path = upload[p].path
           /\ upload'[p].content = upload[p].content
           /\ upload'[p].alone = upload[p].alone
           /\ \A q \in Procs \ {p} : upload'[q] = upload[q] /\ rpc'[q] = rpc[q]
           /\ \/ rpc' = rpc
              \/ rpc'[p] # None /\ rpc'[p].path = Path(p) /\ rpc'[p].state = "sent"
           /\ \A path \in Paths \ {Path(p)} : files'[path] = files[path]
           /\ picture' = picture
           /\ settled \subseteq settled' /\ broken \subseteq broken'
<1>1. upload[p] # None
  BY DEF HandlerStep, GetProfile, SaveUploadedFile, Send, Receive, Remove, InStage
<1>2. PICK stage \in Stages : Goto(p, stage)
  BY DEF HandlerStep, GetProfile, SaveUploadedFile, Send, Receive, Remove, Stages
<1>3. /\ upload'[p] # None
      /\ upload'[p].path = upload[p].path
      /\ upload'[p].content = upload[p].content
      /\ upload'[p].alone = upload[p].alone
      /\ \A q \in Procs \ {p} : upload'[q] = upload[q]
  BY <1>1, <1>2, GotoKeeps DEF TypeOK
<1>4. CASE Send(p)
  <2>1. /\ rpc'[p] # None /\ rpc'[p].path = Path(p) /\ rpc'[p].state = "sent"
        /\ \A q \in Procs \ {p} : rpc'[q] = rpc[q]
    BY <1>4, SendEffect
  <2> QED
    BY <1>1, <1>3, <1>4, <2>1 DEF Send, history
<1>5. CASE ~Send(p)
  <2>1. rpc' = rpc
    BY <1>5 DEF HandlerStep, GetProfile, SaveUploadedFile, Receive, Remove
  <2>2. \A path \in Paths \ {Path(p)} : files'[path] = files[path]
    BY <1>5 DEF HandlerStep, GetProfile, SaveUploadedFile, Receive, Remove, TypeOK
  <2>3. picture' = picture /\ settled \subseteq settled' /\ broken \subseteq broken'
    BY <1>5 DEF HandlerStep, GetProfile, SaveUploadedFile, Receive, Remove, history
  <2> QED
    BY <1>1, <1>3, <2>1, <2>2, <2>3
<1> QED
  BY <1>4, <1>5

-----------------------------------------------------------------------------
(* Failed uploads leave nothing behind *)

Busy(p) == upload[p].stage \in {"send", "wait", "remove"}

\* The inductive invariant: an update that was carried out is on record.
CleanInv ==
    /\ TypeOK
    /\ NoOrphans
    /\ \A p \in Procs : InState(p, "ok") => rpc[p].path \in settled

\* What becomes of the file of the upload whose handler takes a step.
LEMMA CleanHandler ==
    ASSUME CleanInv, NEW p \in Procs, HandlerStep(p), files'[Path(p)] \in Contents
    PROVE  \/ Path(p) \in settled'
           \/ upload'[p].stage \in {"send", "wait", "remove"}
           \/ files'[Path(p)] = files[Path(p)] /\ ~Busy(p)
<1>1. TypeOK /\ upload[p] # None /\ Path(p) \in Paths
  BY HandlerEffect, PathType DEF CleanInv, TypeOK
<1>2. CASE GetProfile(p)
  BY <1>2 DEF GetProfile, InStage, Busy
<1>3. CASE SaveUploadedFile(p)
  <2>1. CASE Goto(p, "send")
    BY <1>1, <2>1, StageIs DEF Stages
  <2>2. CASE files' \in {files, [files EXCEPT ![Path(p)] = Partial]}
    <3>1. files' # [files EXCEPT ![Path(p)] = Partial]
      BY <1>1, NoneAssumption DEF TypeOK
    <3> QED
      BY <1>3, <2>2, <3>1 DEF SaveUploadedFile, InStage, Busy
  <2> QED
    BY <1>3, <2>1, <2>2 DEF SaveUploadedFile
<1>4. CASE Send(p)
  BY <1>1, <1>4, StageIs DEF Send, Stages
<1>5. CASE Receive(p)
  <2>1. CASE InState(p, "ok")
    <3>1. rpc[p].path = Path(p)
      BY <1>1, <2>1 DEF InState, TypeOK
    <3> QED
      BY <1>5, <2>1, <3>1 DEF CleanInv, Receive, history
  <2>2. CASE Goto(p, "remove")
    BY <1>1, <2>2, StageIs DEF Stages
  <2> QED
    BY <1>5, <2>1, <2>2 DEF Receive
<1>6. CASE Remove(p)
  <2>1. files' # [files EXCEPT ![Path(p)] = None]
    BY <1>1, NoneAssumption DEF TypeOK
  <2> QED
    BY <1>6, <2>1 DEF Remove
<1> QED
  BY <1>2, <1>3, <1>4, <1>5, <1>6 DEF HandlerStep

LEMMA CleanStep == CleanInv /\ [Next]_vars => CleanInv'
<1> DEFINE Recorded == \A p \in Procs : rpc[p] # None /\ rpc[p].state = "ok"
                                        => rpc[p].path \in settled
<1> SUFFICES ASSUME CleanInv, [Next]_vars
             PROVE  NoOrphans' /\ Recorded'
  BY TypeStep DEF CleanInv, InState
<1> USE DEF Busy
<1>1. TypeOK /\ upload \in [Procs -> Upload \cup {None}]
  BY DEF CleanInv, TypeOK
<1>2. Recorded
  BY DEF CleanInv, InState
<1>3. ASSUME NEW path \in Paths, files[path] \in Contents, path \notin settled
      PROVE  \E p \in Procs : upload[p] # None /\ upload[p].path = path /\ Busy(p)
  BY <1>3 DEF CleanInv, NoOrphans, Path
<1>4. ASSUME NEW p \in Procs, NEW path \in Paths, NEW content \in Contents,
             Arrive(p, path, content)
      PROVE  NoOrphans' /\ Recorded'
  <2>1. upload[p] = None /\ UNCHANGED <<files, picture, rpc, settled>>
    BY <1>4 DEF Arrive, history
  <2>2. ASSUME NEW q \in Procs \ {p}
        PROVE  /\ upload'[q] = None <=> upload[q] = None
               /\ upload[q] # None => upload'[q].stage = upload[q].stage
               /\ upload[q] # None => upload'[q].path = upload[q].path
    BY <1>1, <1>4, ArriveKeeps
  <2> QED
    BY <1>2, <1>3, <2>1, <2>2 DEF NoOrphans, Path
<1>5. ASSUME NEW p \in Procs, HandlerStep(p)
      PROVE  NoOrphans' /\ Recorded'
  <2>1. /\ upload[p] # None /\ upload'[p] # None
        /\ upload'[p].path = upload[p].path
        /\ \A q \in Procs \ {p} : upload'[q] = upload[q] /\ rpc'[q] = rpc[q]
        /\ \/ rpc' = rpc
           \/ rpc'[p] # None /\ rpc'[p].path = Path(p) /\ rpc'[p].state = "sent"
        /\ \A path \in Paths \ {Path(p)} : files'[path] = files[path]
        /\ settled \subseteq settled'
    BY <1>1, <1>5, HandlerEffect
  <2>2. Recorded'
    BY <1>2, <2>1
  <2>3. ASSUME NEW path \in Paths, files'[path] \in Contents, path \notin settled'
        PROVE  \E q \in Procs : /\ upload'[q] # None /\ upload'[q].path = path
                                /\ upload'[q].stage \in {"send", "wait", "remove"}
    <3>1. CASE path = Path(p)
      <4>1. CASE upload'[p].stage \in {"send", "wait", "remove"}
        BY <2>1, <3>1, <4>1 DEF Path
      <4>2. CASE files'[path] = files[path] /\ ~Busy(p)
        <5>1. PICK q \in Procs : upload[q] # None /\ upload[q].path = path /\ Busy(q)
          BY <1>3, <2>1, <2>3, <4>2
        <5>2. q # p
          BY <4>2, <5>1
        <5> QED
          BY <2>1, <5>1, <5>2
      <4> QED
        BY <1>5, <2>3, <3>1, <4>1, <4>2, CleanHandler
    <3>2. CASE path # Path(p)
      <4>1. PICK q \in Procs : upload[q] # None /\ upload[q].path = path /\ Busy(q)
        BY <1>3, <2>1, <2>3, <3>2
      <4>2. q # p
        BY <3>2, <4>1 DEF Path
      <4> QED
        BY <2>1, <4>1, <4>2
    <3> QED
      BY <3>1, <3>2
  <2> QED
    BY <2>2, <2>3 DEF NoOrphans, Path
<1>6. ASSUME NEW p \in Procs, Serve(p)
      PROVE  NoOrphans' /\ Recorded'
  <2>1. /\ UNCHANGED <<files, upload, broken>> /\ settled \subseteq settled'
        /\ \A q \in Procs \ {p} : rpc'[q] = rpc[q]
        /\ IF upload[p] = None THEN rpc'[p] = None
           ELSE rpc'[p] # None /\ rpc'[p].path = rpc[p].path
        /\ rpc'[p] # None /\ rpc'[p].state = "ok" =>
              /\ picture'[rpc[p].path[1]] = rpc[p].path[2]
              /\ rpc[p].path \in settled'
    BY <1>1, <1>6, ServeEffect
  <2>2. Recorded'
    BY <1>2, <2>1
  <2> QED
    BY <2>1, <2>2 DEF CleanInv, NoOrphans, Path
<1>7. ASSUME NEW p \in Procs, Done(p)
      PROVE  NoOrphans' /\ Recorded'
  <2>1. /\ upload[p].stage \in {"success", "failed"}
        /\ rpc'[p] # None => rpc[p].state = "sent" /\ rpc'[p] = rpc[p]
        /\ \A q \in Procs \ {p} : upload'[q] = upload[q] /\ rpc'[q] = rpc[q]
    BY <1>1, <1>7, DoneEffect
  <2>2. UNCHANGED <<files, settled>>
    BY <1>7 DEF Done, history
  <2> QED
    BY <1>2, <1>3, <2>1, <2>2 DEF NoOrphans, Path
<1>8. ASSUME Crash
      PROVE  NoOrphans' /\ Recorded'
  <2>1. /\ \A q \in Procs :
              /\ rpc'[q] # None => rpc[q].state = "sent" /\ rpc'[q] = rpc[q]
              /\ upload[q] # None => Path(q) \in settled'
        /\ \A path \in Paths : files'[path] \in Contents => files'[path] = files[path]
        /\ settled \subseteq settled'
    BY <1>1, <1>8, CrashEffect
  <2>2. \A path \in Paths : files'[path] \in Contents => path \in settled'
    BY <1>3, <2>1 DEF Path
  <2> QED
    BY <2>1, <2>2 DEF NoOrphans
<1>9. CASE UNCHANGED vars
  BY <1>2, <1>9 DEF vars, history, CleanInv, NoOrphans, Path
<1> QED
  BY <1>4, <1>5, <1>6, <1>7, <1>8, <1>9 DEF Next

\* With every kind of failure and any number of uploads side by side, a whole file that
\* no upload is busy with has been an avatar, or a crash or a failed removal left it.
THEOREM UploadsCleanUp == Spec => []NoOrphans
<1>1. Init => CleanInv
  BY TypeInit, NoneAssumption DEF Init, CleanInv, NoOrphans, InState
<1>2. CleanInv => NoOrphans
  BY DEF CleanInv
<1> QED
  BY <1>1, <1>2, CleanStep, PTL DEF Spec

-----------------------------------------------------------------------------
(* Only failed uploads take avatars away *)

\* A file is whole, or an upload to its path has failed.
Whole(path) == files[path] \in Contents \/ path \in broken

\* The inductive invariant: what an RPC is to announce, or has announced, was saved
\* before it was sent.
KeptInv ==
    /\ TypeOK
    /\ \A p \in Procs : upload[p] # None /\ upload[p].stage = "send" => Whole(Path(p))
    /\ \A p \in Procs : rpc[p] # None => Whole(rpc[p].path)
    /\ \A u \in Users : picture[u] # None => Whole(<<u, picture[u]>>)

\* A file is never less than whole but at a path where an upload has failed.
LEMMA WholeStep ==
    ASSUME TypeOK, [Next]_vars, NEW path \in Paths, Whole(path)
    PROVE  Whole(path)'
<1>1. ASSUME NEW p \in Procs, HandlerStep(p) PROVE Whole(path)'
  <2>1. upload[p] # None /\ broken \subseteq broken' /\ (path # Path(p) => files'[path] = files[path])
    BY <1>1, HandlerEffect
  <2>2. CASE path # Path(p)
    BY <2>1, <2>2 DEF Whole
  <2>3. CASE path = Path(p)
    <3>1. upload[p].content \in Contents
      BY <2>1, PathType DEF TypeOK
    <3>2. CASE SaveUploadedFile(p)
      BY <2>1, <2>3, <3>1, <3>2 DEF SaveUploadedFile, Whole, TypeOK
    <3>3. CASE Remove(p)
      BY <2>3, <3>3 DEF Remove, Whole
    <3>4. CASE GetProfile(p) \/ Send(p) \/ Receive(p)
      BY <2>1, <3>4 DEF GetProfile, Send, Receive, Whole
    <3> QED
      BY <1>1, <3>2, <3>3, <3>4 DEF HandlerStep
  <2> QED
    BY <2>2, <2>3
<1>2. ASSUME NEW p \in Procs, Serve(p) PROVE Whole(path)'
  BY <1>2 DEF Serve, Whole
<1>3. ASSUME NEW p \in Procs, Done(p) PROVE Whole(path)'
  BY <1>3 DEF Done, history, Whole
<1>4. CASE Crash
  <2>1. broken \subseteq broken' /\ (files'[path] = files[path] \/ path \in broken')
    BY <1>4, CrashEffect
  <2> QED
    BY <2>1 DEF Whole
<1>5. ASSUME NEW p \in Procs, NEW other \in Paths, NEW content \in Contents,
             Arrive(p, other, content)
      PROVE  Whole(path)'
  BY <1>5 DEF Arrive, history, Whole
<1>6. CASE UNCHANGED vars
  BY <1>6 DEF vars, history, Whole
<1> QED
  BY <1>1, <1>2, <1>3, <1>4, <1>5, <1>6 DEF Next

LEMMA KeptStep == KeptInv /\ [Next]_vars => KeptInv'
<1> DEFINE Saved(p) == upload[p] # None /\ upload[p].stage = "send" => Whole(Path(p))
           Backed(p) == rpc[p] # None => Whole(rpc[p].path)
           Named(u) == picture[u] # None => Whole(<<u, picture[u]>>)
<1> SUFFICES ASSUME KeptInv, [Next]_vars
             PROVE  /\ \A p \in Procs : Saved(p)' /\ Backed(p)'
                    /\ \A u \in Users : Named(u)'
  BY TypeStep DEF KeptInv
<1>1. TypeOK /\ upload \in [Procs -> Upload \cup {None}]
  BY DEF KeptInv, TypeOK
<1>2. \A p \in Procs : Saved(p) /\ Backed(p)
  BY DEF KeptInv
<1>3. \A path \in Paths : Whole(path) => Whole(path)'
  BY <1>1, WholeStep
<1>4. \A p \in Procs : rpc[p] # None => rpc[p].path \in Paths
  BY <1>1, RpcType DEF TypeOK
<1>5. \A p \in Procs : upload[p] # None => Path(p) \in Paths
  BY <1>1, PathType
<1>6. \A p \in Procs : rpc'[p] = rpc[p] => Backed(p)'
  BY <1>2, <1>3, <1>4 DEF Whole
<1>7. ASSUME NEW p \in Procs, upload'[p] # None => /\ upload[p] # None
                                                   /\ upload'[p].path = upload[p].path
                                                   /\ upload'[p].stage = upload[p].stage
      PROVE  Saved(p)'
  <2>1. upload'[p] # None => Path(p)' = Path(p)
    BY <1>7 DEF Path
  <2> QED
    BY <1>2, <1>3, <1>5, <1>7, <2>1 DEF Whole
<1>8. ASSUME NEW u \in Users, picture'[u] = picture[u] PROVE Named(u)'
  <2>1. picture[u] # None => <<u, picture[u]>> \in Paths
    BY <1>1 DEF TypeOK, Paths
  <2>2. picture[u] # None => Whole(<<u, picture[u]>>)'
    <3>1. picture[u] # None => Whole(<<u, picture[u]>>)
      BY DEF KeptInv
    <3> DEFINE ext == picture[u]
    <3>2. \A e : <<u, e>> \in Paths /\ Whole(<<u, e>>) => Whole(<<u, e>>)'
      BY <1>3
    <3> QED
      BY <1>8, <2>1, <3>1, <3>2 DEF Whole
  <2> QED
    BY <1>8, <2>2 DEF Whole
<1>9. ASSUME NEW p \in Procs, NEW path \in Paths, NEW content \in Contents,
             Arrive(p, path, content)
      PROVE  (\A q \in Procs : Saved(q)' /\ Backed(q)') /\ \A u \in Users : Named(u)'
  <2>1. /\ upload'[p] = [path |-> path, content |-> content, stage |-> "profile",
                         alone |-> Rivals(path[1]) = {}]
        /\ \A q \in Procs \ {p} :
              /\ upload'[q] = None <=> upload[q] = None
              /\ upload[q] # None => /\ upload'[q].stage = upload[q].stage
                                     /\ upload'[q].path = upload[q].path
    BY <1>1, <1>9, ArriveKeeps
  <2>2. rpc' = rpc /\ picture' = picture
    BY <1>9 DEF Arrive
  <2>3. Saved(p)'
    BY <2>1
  <2> QED
    BY <1>6, <1>7, <1>8, <2>1, <2>2, <2>3
<1>10. ASSUME NEW p \in Procs, HandlerStep(p)
       PROVE  (\A q \in Procs : Saved(q)' /\ Backed(q)') /\ \A u \in Users : Named(u)'
  <2>1. /\ upload[p] # None /\ upload'[p].path = upload[p].path
        /\ \A q \in Procs \ {p} : upload'[q] = upload[q] /\ rpc'[q] = rpc[q]
        /\ picture' = picture
    BY <1>1, <1>10, HandlerEffect
  <2>2. Path(p)' = Path(p) /\ Path(p) \in Paths /\ upload[p].content \in Contents
    BY <1>1, <2>1, PathType DEF Path
  <2>3. Saved(p)' /\ Backed(p)'
    <3>1. CASE SaveUploadedFile(p)
      <4>1. rpc' = rpc
        BY <3>1 DEF SaveUploadedFile
      <4>2. CASE files' = [files EXCEPT ![Path(p)] = upload[p].content]
        BY <1>1, <1>6, <2>2, <4>1, <4>2 DEF Whole, TypeOK
      <4>3. CASE Goto(p, "failed")
        BY <1>1, <1>6, <2>1, <4>1, <4>3, StageIs DEF Stages
      <4> QED
        BY <3>1, <4>2, <4>3 DEF SaveUploadedFile
    <3>2. CASE Send(p)
      <4>1. rpc'[p].path = Path(p) /\ files' = files /\ broken' = broken
        BY <1>1, <3>2, SendEffect DEF Send, history
      <4>2. upload'[p].stage = "wait"
        BY <1>1, <2>1, <3>2, StageIs DEF Send, Stages
      <4>3. Whole(Path(p))
        BY <1>2, <3>2 DEF Send, InStage
      <4> QED
        BY <4>1, <4>2, <4>3 DEF Whole
    <3>3. CASE GetProfile(p) \/ Receive(p) \/ Remove(p)
      <4>1. rpc' = rpc
        BY <3>3 DEF GetProfile, Receive, Remove
      <4>2. PICK stage \in {"save", "success", "remove", "failed"} : Goto(p, stage)
        BY <3>3 DEF GetProfile, Receive, Remove
      <4>3. upload'[p].stage = stage
        BY <1>1, <2>1, <4>2, StageIs DEF Stages
      <4> QED
        BY <1>6, <4>1, <4>3
    <3> QED
      BY <1>10, <3>1, <3>2, <3>3 DEF HandlerStep
  <2> QED
    BY <1>6, <1>7, <1>8, <2>1, <2>3
<1>11. ASSUME NEW p \in Procs, Serve(p)
       PROVE  (\A q \in Procs : Saved(q)' /\ Backed(q)') /\ \A u \in Users : Named(u)'
  <2>1. /\ rpc[p] # None /\ UNCHANGED <<files, upload, broken>>
        /\ \A q \in Procs \ {p} : rpc'[q] = rpc[q]
        /\ IF upload[p] = None THEN rpc'[p] = None
           ELSE rpc'[p] # None /\ rpc'[p].path = rpc[p].path
        /\ picture'[rpc[p].path[1]] \in {picture[rpc[p].path[1]], rpc[p].path[2]}
        /\ \A u \in Users \ {rpc[p].path[1]} : picture'[u] = picture[u]
    BY <1>1, <1>11, ServeEffect
  <2>2. Backed(p)'
    BY <1>2, <2>1 DEF Whole
  <2>3. ASSUME NEW u \in Users PROVE Named(u)'
    <3>1. CASE picture'[u] = picture[u]
      BY <1>8, <3>1
    <3>2. CASE picture'[u] # picture[u]
      <4>1. u = rpc[p].path[1] /\ picture'[u] = rpc[p].path[2]
        BY <2>1, <3>2
      <4>2. rpc[p].path = <<u, picture'[u]>>
        BY <1>1, <2>1, <4>1, RpcType DEF TypeOK
      <4>3. Whole(rpc[p].path)
        BY <1>2, <2>1
      <4> QED
        BY <2>1, <4>2, <4>3 DEF Whole
    <3> QED
      BY <3>1, <3>2
  <2> QED
    BY <1>6, <1>7, <2>1, <2>2, <2>3
<1>12. ASSUME NEW p \in Procs, Done(p)
       PROVE  (\A q \in Procs : Saved(q)' /\ Backed(q)') /\ \A u \in Users : Named(u)'
  <2>1. /\ upload'[p] = None
        /\ rpc'[p] # None => rpc'[p] = rpc[p]
        /\ \A q \in Procs \ {p} : upload'[q] = upload[q] /\ rpc'[q] = rpc[q]
        /\ picture' = picture
    BY <1>1, <1>12, DoneEffect
  <2> QED
    BY <1>6, <1>7, <1>8, <2>1
<1>13. ASSUME Crash
       PROVE  (\A q \in Procs : Saved(q)' /\ Backed(q)') /\ \A u \in Users : Named(u)'
  <2>1. /\ \A q \in Procs : upload'[q] = None /\ (rpc'[q] # None => rpc'[q] = rpc[q])
        /\ UNCHANGED picture
    BY <1>1, <1>13, CrashEffect
  <2> QED
    BY <1>6, <1>7, <1>8, <2>1
<1>14. CASE UNCHANGED vars
  <2>1. UNCHANGED <<upload, rpc, picture>>
    BY <1>14 DEF vars
  <2> QED
    BY <1>6, <1>7, <1>8, <2>1
<1> QED
  BY <1>9, <1>10, <1>11, <1>12, <1>13, <1>14 DEF Next

\* With every kind of failure, late RPCs and crashes included, a column names a whole
\* file unless an upload of that user with that extension has failed.
THEOREM OnlyFailuresTakeAvatars == Spec => []ColumnsNameFiles
<1>1. Init => KeptInv
  BY TypeInit DEF Init, KeptInv
<1>2. KeptInv => ColumnsNameFiles
  BY DEF KeptInv, ColumnsNameFiles, Served, Whole
<1> QED
  BY <1>1, <1>2, KeptStep, PTL DEF Spec

-----------------------------------------------------------------------------
(* A successful upload is stored *)

Active(p) == upload[p] # None

\* The inductive invariant.  Nothing else of the user is about while an upload is
\* alone, so its file stays as it was written and the column as its update set it.
StoredInv ==
    /\ TypeOK
    /\ \A p, q \in Procs :
          p # q /\ Active(p) /\ upload[p].alone => q \notin Rivals(Path(p)[1])
    /\ \A p \in Procs :
          Active(p) /\ upload[p].alone =>
              /\ upload[p].stage \in {"send", "wait", "success"}
                    => files[Path(p)] = upload[p].content
              /\ InState(p, "ok") => picture[Path(p)[1]] = Path(p)[2]
    /\ \A p \in Procs : InStage(p, "success") => InState(p, "ok")

LEMMA StoredHandler ==
    ASSUME StoredInv, NEW p \in Procs, HandlerStep(p)
    PROVE  /\ upload[p].alone /\ upload'[p].stage \in {"send", "wait", "success"}
                 => files'[Path(p)] = upload[p].content
           /\ InState(p, "ok")' => InState(p, "ok")
           /\ upload'[p].stage = "success" => InState(p, "ok")'
<1>1. TypeOK /\ upload[p] # None /\ Path(p) \in Paths
  BY HandlerEffect, PathType DEF StoredInv, TypeOK
<1> USE DEF InState
<1>2. CASE GetProfile(p)
  <2>1. upload'[p].stage \in {"save", "failed"}
    BY <1>1, <1>2, StageIs DEF GetProfile, Stages
  <2> QED
    BY <1>2, <2>1 DEF GetProfile
<1>3. CASE SaveUploadedFile(p)
  <2>1. upload'[p].stage \in {"send", "failed"}
    BY <1>1, <1>3, StageIs DEF SaveUploadedFile, Stages
  <2>2. CASE files' = [files EXCEPT ![Path(p)] = upload[p].content]
    BY <1>1, <1>3, <2>1, <2>2 DEF SaveUploadedFile, TypeOK
  <2>3. CASE Goto(p, "failed")
    <3>1. upload'[p].stage = "failed"
      BY <1>1, <2>3, StageIs DEF Stages
    <3> QED
      BY <1>3, <3>1 DEF SaveUploadedFile
  <2> QED
    BY <1>3, <2>2, <2>3 DEF SaveUploadedFile
<1>4. CASE Send(p)
  <2>1. upload'[p].stage = "wait" /\ upload[p].stage = "send"
    BY <1>1, <1>4, StageIs DEF Send, InStage, Stages
  <2>2. files' = files /\ rpc'[p].state = "sent"
    BY <1>1, <1>4, SendEffect DEF Send
  <2> QED
    BY <1>1, <2>1, <2>2 DEF StoredInv, Active
<1>5. CASE Receive(p)
  <2>1. (upload'[p].stage = "success" /\ InState(p, "ok")) \/ upload'[p].stage = "remove"
    BY <1>1, <1>5, StageIs DEF Receive, Stages
  <2>2. upload[p].stage = "wait" /\ files' = files /\ rpc' = rpc
    BY <1>5 DEF Receive, InStage
  <2> QED
    BY <1>1, <2>1, <2>2 DEF StoredInv, Active
<1>6. CASE Remove(p)
  <2>1. upload'[p].stage = "failed"
    BY <1>1, <1>6, StageIs DEF Remove, Stages
  <2> QED
    BY <1>6, <2>1 DEF Remove
<1> QED
  BY <1>2, <1>3, <1>4, <1>5, <1>6 DEF HandlerStep

LEMMA StoredStep == StoredInv /\ [Next]_vars => StoredInv'
<1> DEFINE Near(q, u) == \/ Active(q) /\ Path(q)[1] = u
                         \/ rpc[q] # None /\ rpc[q].path[1] = u
           Apart == \A p, q \in Procs :
                        p # q /\ Active(p) /\ upload[p].alone => ~Near(q, Path(p)[1])
           Kept(p) == Active(p) /\ upload[p].alone =>
                         /\ upload[p].stage \in {"send", "wait", "success"}
                               => files[Path(p)] = upload[p].content
                         /\ rpc[p] # None /\ rpc[p].state = "ok"
                               => picture[Path(p)[1]] = Path(p)[2]
           Told(p) == Active(p) /\ upload[p].stage = "success"
                         => rpc[p] # None /\ rpc[p].state = "ok"
           Good == Apart /\ \A p \in Procs : Kept(p) /\ Told(p)
           Little == \A q \in Procs :
                        /\ Active(q)' => /\ Active(q) /\ Path(q)' = Path(q)
                                         /\ upload'[q].alone => upload[q].alone
                        /\ rpc'[q] # None =>
                              \/ rpc[q] # None /\ rpc'[q].path = rpc[q].path
                              \/ Active(q) /\ rpc'[q].path = Path(q)
<1> SUFFICES ASSUME StoredInv, [Next]_vars PROVE Good'
  BY TypeStep DEF StoredInv, Rivals, Active, InStage, InState
<1>1. TypeOK /\ upload \in [Procs -> Upload \cup {None}]
  BY DEF StoredInv, TypeOK
<1>2. Good
  BY DEF StoredInv, Rivals, Active, InStage, InState
<1>3. \A q \in Procs : rpc[q] # None =>
         IF Active(q) THEN rpc[q].path = Path(q) ELSE rpc[q].state = "sent"
  BY <1>1 DEF TypeOK, Active
<1>4. Little => Apart'
  <2> SUFFICES ASSUME Little, NEW p \in Procs, NEW q \in Procs,
                      p # q, Active(p)', upload'[p].alone
               PROVE  ~Near(q, Path(p)[1])'
    OBVIOUS
  <2>1. Active(p) /\ Path(p)' = Path(p) /\ upload[p].alone
    OBVIOUS
  <2>2. ~Near(q, Path(p)[1])
    BY <1>2, <2>1
  <2> QED
    BY <2>1, <2>2
<1>5. ASSUME NEW p \in Procs, NEW path \in Paths, NEW content \in Contents,
             Arrive(p, path, content)
      PROVE  Good'
  <2>1. upload[p] = None /\ rpc[p] = None /\ UNCHANGED <<files, picture, rpc>>
    BY <1>5 DEF Arrive
  <2>2. ASSUME NEW q \in Procs \ {p}
        PROVE  /\ Active(q)' <=> Active(q)
               /\ Active(q) => /\ Path(q)' = Path(q)
                               /\ upload'[q].content = upload[q].content
                               /\ upload'[q].stage = upload[q].stage
                               /\ upload'[q].alone
                                     => upload[q].alone /\ Path(q)[1] # path[1]
    <3>1. /\ upload'[q] = None <=> upload[q] = None
          /\ upload[q] # None =>
                /\ upload'[q].path = upload[q].path
                /\ upload'[q].content = upload[q].content
                /\ upload'[q].stage = upload[q].stage
                /\ upload'[q].alone <=> upload[q].alone /\ Path(q)[1] # path[1]
      BY <1>1, <1>5, ArriveKeeps
    <3> QED
      BY <3>1 DEF Active, Path
  <2>3. /\ upload'[p].stage = "profile" /\ Path(p)' = path
        /\ upload'[p].alone => Rivals(path[1]) = {}
    <3>1. upload'[p] = [path |-> path, content |-> content, stage |-> "profile",
                        alone |-> Rivals(path[1]) = {}]
      BY <1>1, <1>5, ArriveKeeps
    <3> DEFINE company == Rivals(path[1]) = {}
    <3>2. upload'[p] = [path |-> path, content |-> content, stage |-> "profile",
                        alone |-> company]
      BY <3>1
    <3> HIDE DEF company
    <3>3. upload'[p].stage = "profile" /\ upload'[p].path = path /\ upload'[p].alone = company
      BY <3>2
    <3> QED
      BY <3>3 DEF Path, company
  <2>4. \A q \in Procs : q \in Rivals(path[1]) <=> Near(q, path[1])
    BY DEF Rivals, Active
  <2>5. Apart'
    <3> SUFFICES ASSUME NEW r \in Procs, NEW q \in Procs,
                        r # q, Active(r)', upload'[r].alone
                 PROVE  ~Near(q, Path(r)[1])'
      OBVIOUS
    <3>1. CASE r = p
      <4>1. ~Near(q, path[1])
        BY <2>3, <2>4, <3>1
      <4> QED
        BY <2>1, <2>2, <2>3, <3>1, <4>1
    <3>2. CASE r # p
      <4>1. Active(r) /\ Path(r)' = Path(r) /\ upload[r].alone /\ Path(r)[1] # path[1]
        BY <2>2, <3>2
      <4>2. ~Near(q, Path(r)[1])
        BY <1>2, <4>1
      <4>3. CASE q = p
        BY <2>1, <2>3, <4>1, <4>3
      <4>4. CASE q # p
        BY <2>1, <2>2, <4>1, <4>2, <4>4
      <4> QED
        BY <4>3, <4>4
    <3> QED
      BY <3>1, <3>2
  <2>6. Kept(p)' /\ Told(p)'
    BY <2>1, <2>3
  <2>7. ASSUME NEW q \in Procs \ {p} PROVE Kept(q)' /\ Told(q)'
    <3>1. Kept(q) /\ Told(q)
      BY <1>2
    <3> QED
      BY <2>1, <2>2, <3>1
  <2> QED
    BY <2>5, <2>6, <2>7
<1>6. ASSUME NEW p \in Procs, HandlerStep(p) PROVE Good'
  <2>1. /\ Active(p) /\ Active(p)' /\ Path(p)' = Path(p)
        /\ upload'[p].content = upload[p].content
        /\ upload'[p].alone = upload[p].alone
        /\ \A q \in Procs \ {p} : upload'[q] = upload[q] /\ rpc'[q] = rpc[q]
        /\ \/ rpc' = rpc
           \/ rpc'[p] # None /\ rpc'[p].path = Path(p) /\ rpc'[p].state = "sent"
        /\ \A path \in Paths \ {Path(p)} : files'[path] = files[path]
        /\ picture' = picture
    BY <1>1, <1>6, HandlerEffect DEF Active, Path
  <2>2. \A q \in Procs \ {p} : (Active(q)' <=> Active(q)) /\ Path(q)' = Path(q)
    BY <2>1 DEF Active, Path
  <2>3. Apart'
    BY <1>4, <2>1, <2>2
  <2>4. Kept(p)' /\ Told(p)'
    <3>1. Kept(p) /\ Told(p)
      BY <1>2
    <3>2. /\ upload[p].alone /\ upload'[p].stage \in {"send", "wait", "success"}
                => files'[Path(p)] = upload[p].content
          /\ InState(p, "ok")' => InState(p, "ok")
          /\ upload'[p].stage = "success" => InState(p, "ok")'
      BY <1>6, StoredHandler
    <3> QED
      BY <2>1, <3>1, <3>2 DEF InState
  <2>5. ASSUME NEW q \in Procs \ {p} PROVE Kept(q)' /\ Told(q)'
    <3>1. Active(q) => Path(q) \in Paths
      BY <1>1, PathType DEF Active
    <3>2. Active(q) /\ upload[q].alone => files'[Path(q)] = files[Path(q)]
      BY <1>2, <2>1, <3>1
    <3>3. Kept(q) /\ Told(q)
      BY <1>2
    <3> QED
      BY <2>1, <2>2, <3>2, <3>3
  <2> QED
    BY <2>3, <2>4, <2>5
<1>7. ASSUME NEW p \in Procs, Serve(p) PROVE Good'
  <2>1. /\ rpc[p] # None /\ rpc[p].state = "sent" /\ UNCHANGED <<files, upload>>
        /\ \A q \in Procs \ {p} : rpc'[q] = rpc[q]
        /\ IF upload[p] = None THEN rpc'[p] = None
           ELSE rpc'[p] # None /\ rpc'[p].path = rpc[p].path
        /\ rpc'[p] # None /\ rpc'[p].state = "ok" =>
              /\ picture'[rpc[p].path[1]] = rpc[p].path[2]
              /\ rpc[p].path \in settled'
        /\ \A u \in Users \ {rpc[p].path[1]} : picture'[u] = picture[u]
    BY <1>1, <1>7, ServeEffect
  <2>2. \A q \in Procs : (Active(q)' <=> Active(q)) /\ Path(q)' = Path(q)
    BY <2>1 DEF Active, Path
  <2>3. Apart'
    BY <1>4, <2>1, <2>2
  <2>4. Kept(p)' /\ Told(p)'
    <3>1. Kept(p) /\ Told(p)
      BY <1>2
    <3> QED
      BY <1>3, <2>1, <2>2, <3>1
  <2>5. ASSUME NEW q \in Procs \ {p} PROVE Kept(q)' /\ Told(q)'
    <3>1. Active(q) => Path(q)[1] \in Users
      BY <1>1, PathType DEF Active
    <3>2. Active(q) /\ upload[q].alone => picture'[Path(q)[1]] = picture[Path(q)[1]]
      BY <1>2, <2>1, <3>1
    <3>3. Kept(q) /\ Told(q)
      BY <1>2
    <3> QED
      BY <2>1, <2>2, <3>2, <3>3
  <2> QED
    BY <2>3, <2>4, <2>5
<1>8. ASSUME NEW p \in Procs, Done(p) PROVE Good'
  <2>1. /\ upload'[p] = None /\ UNCHANGED <<files, picture>>
        /\ rpc'[p] # None => rpc[p] # None /\ rpc'[p] = rpc[p]
        /\ \A q \in Procs \ {p} : upload'[q] = upload[q] /\ rpc'[q] = rpc[q]
    BY <1>1, <1>8, DoneEffect
  <2>2. /\ ~Active(p)'
        /\ \A q \in Procs \ {p} : (Active(q)' <=> Active(q)) /\ Path(q)' = Path(q)
    BY <2>1 DEF Active, Path
  <2>3. Apart'
    BY <1>4, <2>1, <2>2
  <2>4. ASSUME NEW q \in Procs PROVE Kept(q)' /\ Told(q)'
    <3>1. Kept(q) /\ Told(q)
      BY <1>2
    <3> QED
      BY <2>1, <2>2, <3>1
  <2> QED
    BY <2>3, <2>4
<1>9. ASSUME Crash PROVE Good'
  <2>1. \A q \in Procs : ~Active(q)'
    BY <1>1, <1>9, CrashEffect DEF Active
  <2> QED
    BY <2>1
<1>10. CASE UNCHANGED vars
  <2>1. UNCHANGED <<files, picture, upload, rpc>>
    BY <1>10 DEF vars
  <2> QED
    BY <1>2, <2>1 DEF Active, Path
<1> QED
  BY <1>5, <1>6, <1>7, <1>8, <1>9, <1>10 DEF Next

\* With every kind of failure, an upload answered with success that overlapped with no
\* other of the user, nor with an RPC one had given up, has its file under its path and
\* its path in the column.
THEOREM SuccessfulUploadsAreStored == Spec => []SuccessIsStored
<1>1. Init => StoredInv
  BY TypeInit, NoneAssumption DEF Init, StoredInv, Active, InStage, InState
<1>2. StoredInv => SuccessIsStored
  BY DEF StoredInv, SuccessIsStored, InStage, Active
<1> QED
  BY <1>1, <1>2, StoredStep, PTL DEF Spec
=============================================================================
