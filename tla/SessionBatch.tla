---------------------------- MODULE SessionBatch ----------------------------
(***************************************************************************)
(* tcpserver/scripts/batch_create_sessions.go: one goroutine per user puts *)
(* a session into Redis and sends its token to a bounded channel; a writer *)
(* goroutine collects the tokens and writes them, batch by batch, to a     *)
(* text and a Lua file.  A semaphore limits the goroutines at work, a      *)
(* WaitGroup tells main when to close the channel.                         *)
(*                                                                         *)
(* A token is known by the number of its user.  Each file is written by    *)
(* calls of its own with the same lines, and one of the two is modelled.   *)
(* The progress display only reads the two counts and is left out.         *)
(***************************************************************************)
EXTENDS Naturals, Sequences, FiniteSets

CONSTANTS
    userCount,      \* the flag -count
    MaxParallel,
    BatchSize,
    BufferLines,    \* lines in 512 KB
    Faults          \* which operations may fail, a subset of FaultKinds

\* "ping": no Redis; "set": a SET fails, maybe after it was applied; "create": a
\* file cannot be created; "write": a Write breaks off.
FaultKinds == {"ping", "set", "create", "write"}

Users    == 1 .. userCount
Capacity == MaxParallel * 2     \* of tokenChan

ASSUME CountAssumption == userCount \in Nat
ASSUME SizeAssumption ==
    /\ MaxParallel \in Nat \ {0} /\ BatchSize \in Nat \ {0} /\ BufferLines \in Nat
ASSUME FaultAssumption == Faults \subseteq FaultKinds

VARIABLES
    main,           \* where main is
    spawned,        \* the goroutines started: 1 .. spawned
    goroutine,      \* where each of them is
    slots,          \* held of the semaphore
    wg,             \* the WaitGroup's counter
    tokenChan, closed,
    successCount, failCount,
    writer,         \* where tokenWriter is
    count, buffer,  \* its tokens so far, and those not written yet
    file,           \* the tokens the file holds
    issued,         \* history: users whose createSession answered a token
    dropped         \* history: the tokens a failed Write has lost

workers == <<goroutine, slots, wg, successCount, failCount, issued>>
output  == <<count, buffer, file, dropped>>
vars    == <<main, spawned, workers, tokenChan, closed, writer, output>>

Init ==
    /\ main = "ping"
    /\ spawned = 0
    /\ goroutine = [i \in Users |-> "ended"]
    /\ slots = 0 /\ wg = 0
    /\ tokenChan = <<>> /\ closed = FALSE
    /\ successCount = 0 /\ failCount = 0
    /\ writer = "create"
    /\ count = 0 /\ buffer = <<>>
    /\ file = <<>>
    /\ issued = {}
    /\ dropped = {}

-----------------------------------------------------------------------------
(* main *)

Ping ==
    /\ main = "ping"
    /\ main' = "spawn" \/ ("ping" \in Faults /\ main' = "refused")
    /\ UNCHANGED <<spawned, workers, tokenChan, closed, writer, output>>

\* Mutation of Spawn: the goroutine is left to call wg.Add itself.
SpawnUncounted ==
    /\ main = "spawn"
    /\ spawned < userCount
    /\ slots < MaxParallel
    /\ spawned' = spawned + 1
    /\ slots' = slots + 1
    /\ goroutine' = [goroutine EXCEPT ![spawned + 1] = "create"]
    /\ UNCHANGED <<main, wg, successCount, failCount, issued,
                   tokenChan, closed, writer, output>>

\* wg.Add, and a goroutine as soon as the semaphore has a slot.
Spawn ==
    /\ main = "spawn"
    /\ spawned < userCount
    /\ slots < MaxParallel
    /\ spawned' = spawned + 1
    /\ slots' = slots + 1
    /\ wg' = wg + 1
    /\ goroutine' = [goroutine EXCEPT ![spawned + 1] = "create"]
    /\ UNCHANGED <<main, successCount, failCount, issued,
                   tokenChan, closed, writer, output>>

\* wg.Wait and close(tokenChan).
CloseChannel ==
    /\ main = "spawn"
    /\ spawned = userCount
    /\ wg = 0
    /\ closed' = TRUE
    /\ main' = "join"
    /\ UNCHANGED <<spawned, workers, tokenChan, writer, output>>

\* <-writerDone, and the summary.
Join ==
    /\ main = "join"
    /\ writer \in {"gave_up", "finished"}
    /\ main' = "done"
    /\ UNCHANGED <<spawned, workers, tokenChan, closed, writer, output>>

-----------------------------------------------------------------------------
(* The goroutine of user i *)

Step(i, from, to) ==
    /\ goroutine[i] = from
    /\ goroutine' = [goroutine EXCEPT ![i] = to]

CreateSession(i) ==
    /\ \/ /\ Step(i, "create", "send")
          /\ issued' = issued \cup {i}
       \/ /\ "set" \in Faults
          /\ Step(i, "create", "fail")
          /\ UNCHANGED issued
    /\ UNCHANGED <<main, spawned, slots, wg, successCount, failCount,
                   tokenChan, closed, writer, output>>

SendToken(i) ==
    /\ Step(i, "send", "succeed")
    /\ Len(tokenChan) < Capacity
    /\ tokenChan' = Append(tokenChan, i)
    /\ UNCHANGED <<main, spawned, slots, wg, successCount, failCount, issued,
                   closed, writer, output>>

\* Mutation of Tally: a user without a session is tried again.
TallyRetry(i) ==
    /\ \/ /\ Step(i, "succeed", "release")
          /\ successCount' = successCount + 1
       \/ /\ Step(i, "fail", "create")
          /\ UNCHANGED successCount
    /\ UNCHANGED <<main, spawned, slots, wg, failCount, issued,
                   tokenChan, closed, writer, output>>

Tally(i) ==
    /\ \/ /\ Step(i, "succeed", "release")
          /\ successCount' = successCount + 1
          /\ UNCHANGED failCount
       \/ /\ Step(i, "fail", "release")
          /\ failCount' = failCount + 1
          /\ UNCHANGED successCount
    /\ UNCHANGED <<main, spawned, slots, wg, issued,
                   tokenChan, closed, writer, output>>

\* Mutation of Release: the slot is not given back.
ReleaseNever(i) ==
    /\ Step(i, "release", "done")
    /\ UNCHANGED <<main, spawned, slots, wg, successCount, failCount, issued,
                   tokenChan, closed, writer, output>>

\* Deferred calls run last in, first out: the slot of the semaphore goes first.
Release(i) ==
    /\ Step(i, "release", "done")
    /\ slots' = slots - 1
    /\ UNCHANGED <<main, spawned, wg, successCount, failCount, issued,
                   tokenChan, closed, writer, output>>

\* Mutation of Done: wg.Done is deferred and called as well.
DoneTwice(i) ==
    /\ Step(i, "done", "ended")
    /\ wg' = wg - 2
    /\ UNCHANGED <<main, spawned, slots, successCount, failCount, issued,
                   tokenChan, closed, writer, output>>

Done(i) ==
    /\ Step(i, "done", "ended")
    /\ wg' = wg - 1
    /\ UNCHANGED <<main, spawned, slots, successCount, failCount, issued,
                   tokenChan, closed, writer, output>>

-----------------------------------------------------------------------------
(* tokenWriter *)

\* A file that cannot be created ends the writer; the channel is left as it is.
CreateFiles ==
    /\ main # "ping" /\ main # "refused"
    /\ writer = "create"
    /\ writer' = "write" \/ ("create" \in Faults /\ writer' = "gave_up")
    /\ UNCHANGED <<main, spawned, workers, tokenChan, closed, output>>

Tokens(seq) == {seq[n] : n \in DOMAIN seq}

\* The answer of Write is not looked at; one that breaks off has written the first
\* of its lines.
Write(lines) ==
    \E written \in 0 .. Len(lines) :
        /\ written = Len(lines) \/ "write" \in Faults
        /\ file' = file \o SubSeq(lines, 1, written)
        /\ dropped' = dropped \cup Tokens(SubSeq(lines, written + 1, Len(lines)))

\* Mutation of TakeToken: the buffers are not emptied after a batch.
TakeTokenKeeping ==
    /\ writer = "write"
    /\ tokenChan # <<>>
    /\ tokenChan' = Tail(tokenChan)
    /\ count' = count + 1
    /\ LET lines == Append(buffer, Head(tokenChan))
       IN  /\ buffer' = lines
           /\ IF count' % BatchSize = 0 \/ Len(lines) > BufferLines
              THEN Write(lines)
              ELSE UNCHANGED <<file, dropped>>
    /\ UNCHANGED <<main, spawned, workers, closed, writer>>

TakeToken ==
    /\ writer = "write"
    /\ tokenChan # <<>>
    /\ tokenChan' = Tail(tokenChan)
    /\ count' = count + 1
    /\ LET lines == Append(buffer, Head(tokenChan))
       IN  IF count' % BatchSize = 0 \/ Len(lines) > BufferLines
           THEN Write(lines) /\ buffer' = <<>>
           ELSE buffer' = lines /\ UNCHANGED <<file, dropped>>
    /\ UNCHANGED <<main, spawned, workers, closed, writer>>

\* Mutation of Finish: only whole batches are written.
FinishWithoutRest ==
    /\ writer = "write"
    /\ closed /\ tokenChan = <<>>
    /\ buffer' = <<>>
    /\ writer' = "finished"
    /\ UNCHANGED <<main, spawned, workers, tokenChan, closed, count, file, dropped>>

\* The channel is closed and empty: the rest of the buffer.  The trailer of the Lua
\* file follows.
Finish ==
    /\ writer = "write"
    /\ closed /\ tokenChan = <<>>
    /\ Write(buffer)
    /\ buffer' = <<>>
    /\ writer' = "finished"
    /\ UNCHANGED <<main, spawned, workers, tokenChan, closed, count>>

-----------------------------------------------------------------------------

MainStep == Ping \/ Spawn \/ CloseChannel \/ Join

GoroutineStep(i) ==
    CreateSession(i) \/ SendToken(i) \/ Tally(i) \/ Release(i) \/ Done(i)

WriterStep == CreateFiles \/ TakeToken \/ Finish

Next == MainStep \/ (\E i \in Users : GoroutineStep(i)) \/ WriterStep

Spec == Init /\ [][Next]_vars

\* The goroutines are scheduled, and Redis and the disk answer.
Fairness ==
    /\ WF_vars(MainStep)
    /\ \A i \in Users : WF_vars(GoroutineStep(i))
    /\ WF_vars(WriterStep)

FairSpec == Spec /\ Fairness

-----------------------------------------------------------------------------
(* Properties *)

\* Types of the variables; the channel holds no more than it can, the WaitGroup
\* never goes below zero.
TypeOK ==
    /\ main \in {"ping", "spawn", "join", "done", "refused"}
    /\ spawned \in 0 .. userCount
    /\ goroutine \in [Users -> {"create", "send", "succeed", "fail", "release", "done", "ended"}]
    /\ slots \in 0 .. MaxParallel
    /\ wg \in Nat
    /\ issued \subseteq Users
    /\ tokenChan \in Seq(Users) /\ Len(tokenChan) <= Capacity
    /\ closed \in BOOLEAN
    /\ successCount \in Nat /\ failCount \in Nat
    /\ writer \in {"create", "write", "gave_up", "finished"}
    /\ count \in Nat
    /\ buffer \in Seq(Users)
    /\ file \in Seq(Users)
    /\ dropped \subseteq Users

\* No goroutine sends to the channel, or is yet to, when main has closed it: that
\* would be a panic.
NoSendOnClosed == closed => \A i \in Users : goroutine[i] \notin {"create", "send"}

Sending == {i \in Users : goroutine[i] = "send"}

\* A token on its way is in one place, once: with its goroutine, in the channel, in
\* the buffer or in the file, unless a Write that failed has lost it.
EveryTokenOnce ==
    LET line == file \o buffer \o tokenChan
    IN  /\ \A m, n \in DOMAIN line : line[m] = line[n] => m = n
        /\ Tokens(line) \cup dropped \cup Sending = issued
        /\ Tokens(line) \cap dropped = {}
        /\ (Tokens(line) \cup dropped) \cap Sending = {}

\* What the script says last: the tokens have been saved.
TokensSaved == issued \subseteq Tokens(file)

\* When the script ends, its totals are true whatever has failed: every user is counted,
\* as a success if it was given a token.  The file holds the tokens no failed Write has
\* lost, or none if one could not be created; so what the script says last is true just
\* if nothing of the kind has happened, or there was no token.
SummaryAccounts ==
    main = "done" =>
        /\ successCount + failCount = userCount
        /\ successCount = Cardinality(issued)
        /\ Tokens(file) = IF writer = "finished" THEN issued \ dropped ELSE {}
        /\ TokensSaved <=> issued = {} \/ (writer = "finished" /\ dropped = {})

\* The writer is gone and there are more tokens than the channel holds.
Jammed == writer = "gave_up" /\ Cardinality(issued) > Capacity

\* main waits for a slot of the semaphore, the WaitGroup or the writer; a goroutine for
\* room in the channel; the writer for a token or the end of the channel.
MainWaits ==
    \/ main = "spawn" /\ (spawned < userCount => slots = MaxParallel)
                      /\ (spawned = userCount => wg # 0)
    \/ main = "join" /\ writer \notin {"gave_up", "finished"}
GoroutineWaits(i) ==
    goroutine[i] = "ended" \/ (goroutine[i] = "send" /\ Len(tokenChan) = Capacity)
WriterWaits ==
    writer \in {"gave_up", "finished"} \/ (writer = "write" /\ tokenChan = <<>> /\ ~closed)

\* main, the goroutines and the writer do not all wait for each other, but for the one
\* case that the writer has given up on a channel too small for the tokens.
NoCircularWait ==
    MainWaits /\ WriterWaits /\ (\A i \in Users : GoroutineWaits(i)) => Jammed

\* What each of them has still to do, counted in steps.
MainLeft == [ping |-> 3, spawn |-> 2, join |-> 1, done |-> 0, refused |-> 0]
GoroutineLeft ==
    [create |-> 5, send |-> 4, succeed |-> 3, fail |-> 3, release |-> 2, done |-> 1, ended |-> 0]
WriterLeft == [create |-> 2, write |-> 1, gave_up |-> 0, finished |-> 0]

LeftOf(i) == IF i > spawned THEN 6 ELSE GoroutineLeft[goroutine[i]]

\* One pair for each step that is left to a goroutine.
GoroutineSteps == {p \in Users \X (1 .. 6) : p[2] <= LeftOf(p[1])}

StepsLeft ==
    MainLeft[main] + WriterLeft[writer] + (userCount - count) + Cardinality(GoroutineSteps)

\* No step of the script is ever undone or repeated without end, whatever fails: each
\* leaves less to do, down from 7 * userCount + 5 steps.
StepsRunOut == [][StepsLeft' \in Nat /\ StepsLeft' < StepsLeft]_vars

\* The script ends, however many users there are and whatever fails, but for the
\* one case that a file could not be created and the channel fills up.
Ends == <>(main \in {"done", "refused"} \/ Jammed)
=============================================================================
