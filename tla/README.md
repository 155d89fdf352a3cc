# Verification of entry-task in TLA+

entry-task is a small account service. A browser talks to an HTTP gateway (gin);
the gateway calls a TCP server over gRPC; the TCP server keeps users in MySQL and
puts profile cache, sessions and login counters in Redis. This directory holds
TLA+ modules for the parts whose correctness depends on the order in which things
happen, the TLC runs over small instances of them, and TLAPS proofs for every
value of the constants.

    tlc -workers 2 -config UserRepository_safety.cfg MCUserRepository.tla
    tlapm DoubleDeleteProofs.tla

## 1. Inventory

| component | state | operations | modelled in |
|---|---|---|---|
| user repository, `tcpserver/internal/repository` | rows of `users`; write-back goroutines; `AfterFunc` timers | `GetByID`, `UpdateNickname`, `UpdateProfilePicture`, `Create`, `BatchCreate`, `GetByUsername` | `UserRepository`, `CacheStaleness`, `Profile` |
| user cache, `tcpserver/pkg/redis/user_cache.go` | `user:<id>`: a profile (30 min) or the negative marker (5 min) | `GetUser`, `SetUser`, `SetNullCache`, `DeleteUser` | `UserRepository` |
| login limiter, `pkg/redis/login_limiter.go` | `login_fail:<name>`: a number, with a TTL of 15 min or none | `RecordLoginFail`, `GetLoginFailCount`, `ResetLoginFail` | `AuthService` |
| sessions, `pkg/redis/session.go` | `sess:<token>`: a user id (2 h) | `CreateSession`, `ValidateSession`, `DestroySession` | `AuthService`, `RpcServer` |
| user service, `internal/service` | none of its own | `Login`, `Logout`, `GetProfile`, two updates | `AuthService` (`Login`), `RpcServer` (the others) |
| RPC handlers and interceptors | none of their own | five RPCs; token check in front of all but `Login` | `RpcServer` |
| gateway handlers, `httpserver/internal/handler` | avatar files `uploads/avatars/<id><ext>` | upload, serve, forward the rest | `AvatarUpload` |
| snowflake ids, `tcpserver/pkg/db/snowflake.go` | last timestamp, sequence | `NextID`, `ParseSnowflakeID` | `Snowflake` |
| session script, `tcpserver/scripts/batch_create_sessions.go` | token channel, semaphore, WaitGroup, counts, two output files | one goroutine per user, `tokenWriter` | `SessionBatch` |
| other data scripts, configuration, wiring, response codes, loggers, generated protobuf code | | | not modelled, see 7 |

How they interact. A login is: read the counter, `SELECT` by name, bcrypt, then
either `INCR` (and `EXPIRE` after the first one) or `SET` a session and `DEL` the
counter. Every other RPC is checked twice, by the interceptor and again by the
service, each time with one `GET` of the session. `GetProfile` then calls
`GetByID`. An update RPC calls `GetProfile` first, then the service's update,
which calls the repository's update and reads the profile back through
`GetByID`. An upload is two RPCs with a file write between them.

What is hard. No two Redis commands, nor a Redis command and a SQL statement,
form a transaction. `GetByID` returns before its write-back to Redis, which runs
in a goroutine without a deadline. An update deletes the cache entry, changes the
row, and deletes the entry again 500 to 700 ms later from a timer that nothing
waits for. Uploads hold a file on disk while an RPC is under way, and the gateway ends
on a signal without waiting for them. Every command can fail, or be applied and have its reply lost; the
Redis client sends a command up to three times more. Nothing of this is persisted,
so a restart forgets it.

What makes each part correct.

- *Cache*: it may differ from the table only for a bounded time and while
  something is on its way to correct it; a negative entry never hides a user.
- *Login limiter*: the limit is overrun by no more than the logins that already
  passed the check; a lockout ends.
- *Login*: it always comes to an answer, and only the password of a name gets it a
  session or its failures forgotten early.
- *RPCs*: what an answer says is true: a rejected update has changed nothing, a
  successful one has changed the row and shows it. What a request may do follows the
  session of its token, which can end at any moment.
- *Avatars*: what was uploaded successfully is the file its column names; failed uploads leave
  nothing behind and take nobody else's avatar away.
- *Ids*: none is handed out twice.
- *Session script*: each token ends up in the file once, the totals are true, and it ends.

`PROJECT.json` lists the hazards line by line with the properties that cover each, or what the
code does and no property forbids.

## 2. Plan

| step | module | question | state |
|---|---|---|---|
| 1 | `UserRepository` | does the delayed double delete keep cache and table together? | done |
| 2 | `CacheStaleness` | what is left of it when anything may fail? | done |
| 3 | `AuthService` | limiter and sessions under concurrent logins | done |
| 4 | proofs of 1-3 | the same for every value of the constants | done |
| 5 | `RpcServer`, composed with 1 | are the answers true; is the store used as 1 allows? | done, proved |
| 6 | `AvatarUpload` | files against the column, two uploads, the 3 s deadline | done |
| 7 | `Snowflake` | wrapping sequence, clock steps, restarts, several machines | done |
| 8 | proofs of 6 and 7 | no orphans, success is stored, what takes an avatar away; ids increase for any widths, restarts and clocks | done |
| 9 | `Profile`, abstract | what do callers of the store see? a table read with bounded lag | done, refinement proved |
| 10 | `SessionBatch` | the channel, semaphore and writer of `batch_create_sessions.go`: when does it end? | done, safety and termination argument proved |
| 11 | proofs of 3 and 5 | who gets a session; what a request may do under its token; why a lockout ends | done |

What is left (section 7) keeps no state of its own. `CacheStaleness` has `Profile` as its
abstract specification, `RpcServer` has `UserRepository`.

`RpcServer` extends `UserRepository` and adds sessions and requests; `CacheStaleness`
extends it with a history. The other modules share no state.

## 3. Modules

**`UserRepository`.** `db[u]` is the two mutable profile columns of a row (or
`None`), `cache[u]` the entry `user:<id>` with its remaining TTL, `fill` the
write-back goroutines, `timer` the pending second deletes, `call[p]` the
repository call a goroutine is in. Each Redis command and each SQL statement is
one action; their order within a call is the program counter `call[p].pc`:

    GetByID:   CacheHit                                        -> found
               CacheMiss -> "query"    - QueryFound            -> found (starts a fill)
                                       - QueryNoRows -> "set_null" - WriteNull -> not_found
                                       - QueryFails            -> failed
    Update*:   FirstDelete -> "exec"   - ExecOk -> "schedule" - ScheduleDelete -> updated (starts a timer)
                                       - ExecNoRows, ExecFails -> failed

`LandFill` and `DelayedDelete` are the goroutine and the timer. `Tick` takes one
unit from every delay and TTL. It does not pass a fill that is due: `FillBound` is
the assumption that a write-back lands within so much time. A timer that is due
may wait: a Go timer fires no earlier than its delay, and the code adds jitter.
The two updates differ in the column they write and are one action with a
parameter. `BatchCreate` is all or nothing, as its transaction is; `Create` is the
case of one row. The repository has no operation that removes a user.

The user name, id and the other columns of a row never change and are not in the
model; `NullUser` stands for the marker `CachedUser{Username: "NULL"}`. (The comment
of `GetUser` gives negative entries a key of their own, `user:null:<id>`; the code
uses `user:<id>` for both, and so does the model.)

`Faults` selects what may go wrong: a `get`, `set`, `delete`, `redelete` (by the
timer) fails; a `SET` is sent again after a lost reply (`retry`); a `query` or
`exec` fails; an UPDATE is applied and reported as failed (`commit`); the process
ends gracefully (`stop`) or not (`crash`). Ending drops calls, goroutines and timers.
`repository_safety` assumes neither and runs `SpecRunning`, without those two actions; they
are part of `staleness_faults`, of `rpc_requests` and of what is proved.

**`CacheStaleness`** extends it with `age[u][row]`, the time since `row` was last the
content of the table, and states how old a served profile can be.

**`Profile`** is what the store promises its callers, without cache, write-backs or timers: a
lookup answers a row at most `StalenessBound` old, and "not found" for nobody who was in the table
when it began; an update changes the row once, and is reported done only after that; a
failure may leave the row changed. `CacheStaleness` maps its calls to those of `Profile`
(`SeenCalls`; only the program counter of a lookup about to write its negative entry differs)
and `KeepsPromise` says that every behaviour of the store is one of `Profile`. With an
entry taken from Redis, `ReadAtOnce`; with a SELECT, `Found` or `NotFound`.

**`AuthService`.** `counter[name]` is the number and remaining TTL of
`login_fail:<name>` (`ttl = 0`: never expires), `session[token]` whose session it
is, `login[p]` where a login is. `Refuse`/`Admit` are the check; `PasswordRight`/
`PasswordWrong` the SELECT and bcrypt, which read nothing that changes here;
`RecordLoginFail`, `ExpireCounter`, `CreateSession`, `ResetLoginFail` the Redis
commands. `RecordUnseen` is an INCR whose reply is lost: it has counted, and the client sends it again,
up to `MaxRetries` times and with commands of others in between, or the login goes on
without its answer (`resent` counts). `SessionEnds` is `Logout` as well as the expiry of
a session: both take the same key away, and a token may be logged out at any time.
`spoilt[name]` is history: whether a check was passed at the limit or an INCR that had counted was sent
again ("limit"), and whether the EXPIRE of the counter was lost ("ttl"). It lets the
properties hold under every fault and say exactly which one damages what. `PasswordDecides`
and `LivesRunOut` are about steps: what a step may grant, forget or prolong.

**`RpcServer`** puts the store behind the four authenticated RPCs. `session[token]` is
a user, or `Ended`; `request[p]` is the RPC a goroutine serves, with the stage it
has reached:

    intercept -> destroy                                        (Logout)
              -> validate -> profile                            (GetProfile)
                             profile -> update -> read_back     (both updates)

Every stage may answer instead. `intercept` is `AuthInterceptor`, `validate` the
second look-up of the token in `service.GetProfile`; in `profile`, `update` and
`read_back` the request makes a repository call, whose steps are the actions of
`UserRepository` (`RepositoryStep`), and `ProfileRead` and `UpdateDone` are what service
and handler make of its result. Service errors that wrap a repository error fall
into the default case of `mapServiceError`, so a column that did not change is an
internal error; so is every failure of the update. A malformed argument is rejected only after the profile
was read, as in the code. Two fields of a request are history: `applied`, whether it has changed
the table, and `late`, whether the session of its token had ended before it arrived.
The gateway's handlers for these RPCs hand on the token, twice, and translate the code.

**`AvatarUpload`** has the avatar files and the `profile_picture` column. An upload
passes through `GetProfile`, `SaveUploadedFile`, `Send`, `Receive`, and `Remove` if the
RPC failed or its deadline passed, and is answered (`Done`). `rpc[p]` is its RPC as the server
sees it, and `Serve` carries it out, maybe only after the gateway has given up, or even after the
upload was answered or the gateway has died: `rpc[p]` then stays until the server is through. Writing a file is one step: that two goroutines writing one
path at once may mix their bytes is left out. Only the extension of the column's URL is
modelled, the user id in it is the user's. `alone`, `settled` and `broken` are histories. `Receive`
includes the deadline, so a handler goes on whether the server answers or not.
The profile cache is left out here: `Served(u, ext)` is what `GetProfilePicture` hands out once
`GetProfile` has told it the extension `ext`, and what `GetProfile` tells is the subject of
`UserRepository`. Seen through Redis the column may lag: the stale read of `rpc_answer` can happen
to an upload as well (it reads the profile before it changes it), and the old avatar is then shown after a
successful upload for as long as `BoundedStaleness` allows. So the properties here speak of the
column and the files.

**`Snowflake`** has a generator per process with its clock, which may jump at any time.
`NextID` holds the mutex throughout, so it is one step, except for the call that finds
the sequence numbers used up: it sets `waiting`, and nobody else gets in until
`NextMillisecond`. A restart may come at any time and find any clock. `born[g]` (how many ids
the machine had handed out when its process started), `used[g]` (the last millisecond used)
and `overlap` (the machines one of whose processes handed out its first id in a millisecond not past `used[g]`)
are history, and so is `made[g]`, which records for each id in `issued[g]` the machine, the sequence number and what
the clock showed as it was handed out. Shifts and masks are arithmetic with `maxMachineID + 1` and
`maxSequence + 1`. The 41 bits of the timestamp last until 2094 and are not exceeded.

**`SessionBatch`**: `main` starts a goroutine per user as soon as the semaphore has a slot
(`Spawn`), waits for them (`CloseChannel`) and for the writer (`Join`). A goroutine is at
one of `create`, `send`, `succeed`/`fail`, `release`, `done`: a step for each operation on what is shared,
the deferred calls in the order Go runs them. The writer takes a token at a time and
writes a batch when `count % BatchSize = 0` or the buffer is full. With the program's
constants the second condition never holds before the first (10 000 lines of about 50
bytes stay below 512 KB); the run has both. A failed `Write` keeps the first of its lines;
the text and the Lua file get the same lines by calls of their own, and one is
modelled. The progress display only reads the two counts. `TokensSaved` is what the script says last. `StepsLeft` counts the steps main,
the goroutines and the writer have still to take, and the tokens not yet written.

**`MC...`** modules name the model values and the fault sets.

## 4. Runs

| run | instance | faults | result |
|---|---|---|---|
| `repository_safety` | 2 calls, 2 fills, 2 timers, 1 user, 2 values per column, `FillBound` 1 < `DeleteDelay` 2, TTL 1 | all but lost deletes, unacknowledged UPDATE, end of process | pass, 750 000 states |
| `staleness_faults` | 1 call, 1 fill, 1 timer, `FillBound` 1, TTL 2, fair | all | pass, 300 000 states |
| `login_faults` | 3 logins, 1 token, limit 2, TTL 1, `MaxRetries` 1, `CountBound` 5, fair | all | pass, 210 000 states |
| `rpc_requests` | 2 requests, 1 token, 1 user, nickname only, 2 values | all | pass, 250 000 states |
| `avatar_faults` | 2 uploads, 1 user, 2 extensions, 2 contents, fair | all | pass, 380 000 states |
| `snowflake_restart` | 2 machines, 2 sequence numbers, milliseconds 1-3, epoch 2, `MaxIds` 3 | clock steps, restarts | pass, 800 000 states |
| `session_batch` | 5 users, 2 slots, channel of 4, batches of 3, buffer of 1 line, fair | all | pass, 470 000 states |
| `slow_write_back` | 1 call, 1 fill, 1 timer, `FillBound` 2 > `DeleteDelay` 1 | none | violation |
| `negative_cache` | as above | none | violation |
| `login_expire` | 2 logins, fair | EXPIRE | violation |
| `rpc_answer` | 1 request, 1 token, `DeleteDelay` 2, TTL 2 | none | violation |
| `avatar_served` | 1 upload at a time | none | violation |

*Bounds.* Users do not interact: each has its own row, key and timers, so one user
shows everything about one; with two values per column a row can change and change
back. A stale entry takes one reader, its fill and one writer; the second call, fill and
timer let two readers and two updates overlap, and a fill started before the first
update land after the second. A full `FillSlots` or `TimerSlots` makes the next
SELECT or schedule wait for a free slot; the program has no such limit, and the
proofs need none. Delays matter only by their order, and the smallest numbers that
give each order are used. In `login_faults` three logins and a limit of two let the limit be overrun by two; `CountBound` 5
lies above the four that takes, and cuts off what failing reads and repeated INCRs add
beyond it; TTL 1 is enough for a counter to expire between any two steps, and how a longer one
is counted down is proved (`CountersRunOut`). One repetition of an INCR (the client is
configured for three) is enough for a failure to count twice with others in between, and for the login to
give up; the proofs hold for any number. One token
is enough to have sessions start and fail. Names do not interact.

In `rpc_requests` two requests are enough for one to disturb the other at each of its
stages; one token lets a logout of it, or its expiry, hit a request between the two checks. An
interceptor's token is read once from the metadata and once from the request by the service,
and the gateway sends the same. In `avatar_faults` two extensions distinguish an upload over the current avatar from one
beside it, and two contents an old file from a new. In `snowflake_restart` a millisecond
before the epoch and two from it on, with two sequence numbers each, let the sequence
wrap, and the clock go back while a call waits. A machine with `MaxIds` ids restarts no more, which
bounds the run: three ids from each of two or more processes are enough for a process to repeat,
to follow and to overtake the ids of one before it.

In `session_batch` five users over a channel of four and two slots fill the channel and
make main wait for a slot; three tokens to a batch and one line of buffer make both conditions for a
Write come true and leave a rest for the end.

*Deadlock* is checked in every run but `session_batch`: time passes, a call begins, or (in `Snowflake`)
the clock changes, in every state. The script ends, and may jam: its property `Ends`
says when. (Go's own deadlock detection does not see the jam, the ticker of the progress display runs on.)

*Fairness.* `UserRepository`: `Tick` (time passes; Redis expires keys) and `LandFill`
(a goroutine's command ends, by its timeouts if need be). No fairness for calls,
timers or hits: clients may stop, timers be lost, and readers may hit an entry all
the time. `AvatarUpload`: the steps of a handler, of which the deadline of the RPC is one; none for
the TCP server (`Serve`) and for clients. `SessionBatch`: main, each goroutine and the writer, which
the Go scheduler runs; Redis and the disk answer. `RpcServer` and `Snowflake` have no liveness properties.
`AuthService`: the steps of a login (goroutines are scheduled and commands
time out), the expiry of counters, and the end of sessions (each has a TTL).

*What the passing runs show.* While write-backs land sooner than the delay and no
second delete is lost, a profile in Redis that differs from the table always has a delete
of its key ahead (`StaleOnlyWhileDeletePending`), because every write-back of an
outdated row has a delete behind it that fires later (`WriteBacksCovered`).
A negative entry never makes `GetByID` answer "not found" for a user in the table
(`CreatedUserVisible`), even though inserts do not touch Redis. Whatever fails, a served
profile was current at most `FillBound + UserCacheTTL` ago (`BoundedStaleness`), and
when updates stop the two agree for good (`EventuallyConsistent`); to callers all this is a
table read with that lag (`KeepsPromise`). Counters exceed the limit by less than the number
of concurrent logins unless a check could not read the counter or an INCR that had counted was sent again (`FailuresBounded`); a
counter without TTL has a login about to give it one, unless just that EXPIRE was
lost (`CounterWillExpire`), and every lockout ends but for the same exception (`LockoutEnds`):
failures in flight do not prolong one for ever, since no failure joins those that may still
renew a counter while it lives (`LivesRunOut`). A session comes from the password, and so
does a counter that goes down before its time (`PasswordDecides`). Logins are answered whatever fails (`LoginAnswered`).

For the server as a whole: an update that was answered with a rejection has changed nothing
(`RejectionsChangeNothing`), which hangs on negative entries being ignored: `UserNotFound` can
also come from the read after the UPDATE; one answered with success has changed the row
(`SuccessIsApplied`; an internal error promises neither). A request works for the user who logged in with its token and for
nobody else, whatever becomes of the session between the two checks and after them; one that comes after a logout or an
expiry gets nothing, and a logout answered with success has ended the session (`AccessFollowsSession`).
A request that passed both checks does finish after a logout: the code looks no third time. And what requests do with the store is
always a sequence of whole repository calls (`UsesRepository`), so that everything shown of
`UserRepository` holds behind the RPCs. A failed upload leaves no whole file that was never
the avatar, unless the removal fails or the gateway dies (`NoOrphans`). An upload that
succeeded is stored, whatever earlier failures and torn files left: the column names its file,
and the file is what it sent. Only if another upload of the user overlapped, or an RPC that one of them had
given up, it may not be: the other's removal deletes the common file (`SuccessIsStored`). The damage is
confined: a column names a whole file unless at that very path a write broke off or a failed
upload was removed (`ColumnsNameFiles`), late RPCs and crashes of the gateway included. Every upload ends, also if the server never answers
(`UploadAnswered`). Ids of a process grow, whatever its clock does (`ProcessIdsIncrease`); those of a machine do over
all its processes unless one of them started no later than the last millisecond used before it (`IdsIncrease`). The code
does not see to that: after a clock set back, or a restart within a millisecond, ids repeat. Machines
with different ids share none (`MachinesDisjoint`), and an id parses to exactly the machine, millisecond and
number it was made from (`IdsParse`), through all of this. Every process of the program has machine id 1
(snowflake.go:54), so two of them side by side share ids: `MachinesDisjoint` says nothing of them.

The session script never sends on its closed channel (`NoSendOnClosed`), keeps every token in one place
until it is written (`EveryTokenOnce`), accounts for every user at its end (`SummaryAccounts`), never has everyone wait for
everyone (`NoCircularWait`), runs out of steps (`StepsRunOut`), and so ends
(`Ends`), with one exception: if a file cannot be created the writer leaves the channel as it
is, and with more tokens than the channel holds (1000) the goroutines block on it with their slots
taken, and main behind them. With fewer it ends and announces a file that does not exist. Its totals are true
whatever fails; that the tokens have been saved is false just if there are any and a file could not
be created or a `Write`, whose answer nobody looks at, broke off.

*What the violations show.*

1. `slow_write_back`: tcpserver/README.md:56 says the double delete guarantees
   consistency. A write-back runs under `context.Background()`
   (user_repository.go:120). One that is slower than the 500-700 ms delay lands after
   the second delete, and the old row stays for the TTL of 30 minutes. No fault is needed.
2. `negative_cache`: README.md:55 says the negative cache prevents penetration.
   `GetUser` (user_cache.go:79-82) answers `nil, nil` for the marker as for a missing
   key, and `GetByID` queries the table either way. The other side of the same
   coin is `CreatedUserVisible`: its mutant, which trusts the marker, breaks it.
3. `login_expire`: `RecordLoginFail` drops a failed EXPIRE as not affecting the main
   flow (login_limiter.go:69). The counter then never expires, no later failure sets
   a TTL, and at the limit the name is refused for good: a success that would delete the
   counter is no longer possible. A lost INCR reply or a crash between the two
   commands ends the same way.

4. `rpc_answer`: an update request first reads the profile. On a cold cache that starts a
   write-back of the old row, which may land after the first delete; the read-back of
   the same request (user_service.go:225) then hits it and the reply to the successful
   update shows the old nickname. The service test asserts the new one
   (user_service_test.go:560) over a mocked repository.
5. `avatar_served`: a second upload with the same extension writes over the avatar, the
   UPDATE changes no row, the RPC answers an error, and the cleanup (user_handler.go:282)
   deletes the file. The column still names it, so the user is served the default avatar,
   and further uploads with that extension fail alike. src/README.md lists the outcome as
   a known bug of files deleted by accident; no accident is needed. Uploading with another
   extension gets out of it, as `SuccessIsStored` says.

The login limit is documented as five failures (README.md:61). With concurrent
logins it is the bound of `FailuresBounded`, not five: the counter is read before
and incremented after the bcrypt comparison.

## 5. Proofs

TLAPS checks every step; nothing is assumed but the named assumptions on the
constants in the modules and what a theorem's ASSUME states. Every invariant and every action property the
passing runs check is also proved.

| theorem | assumes | along |
|---|---|---|
| `UserRepositoryProofs!TypeCorrect` | - | each action |
| `UserRepositoryProofs!Visibility` | - | users are never removed, so a call that began with the row there never reaches `set_null` |
| `DoubleDeleteProofs!WriteBacksAreCovered`, `DoubleDelete`, `QuietConsistency` | `FillBound < DeleteDelay`, `DeletesAreKept` | `DeleteInv` |
| `CacheStalenessProofs!AgedTypeCorrect`, `StalenessIsBounded` | - | `AgeInv` |
| `CacheStalenessProofs!StoreKeepsPromise` | - | `PromiseInv`: each step of the store is one of `Profile`, or a stutter |
| `AuthServiceProofs!TypeCorrect` | - | each action |
| `AuthServiceProofs!CountersWillExpire` | - | itself inductive over `TypeOK` |
| `AuthServiceProofs!FailuresAreBounded` | - | `HeadroomInv` |
| `AuthServiceProofs!PasswordIsDecisive` | - | `PassedInv` |
| `AuthServiceProofs!CountersRunOut` | - | each action |
| `AuthServiceProofs!LimitHolds` | no fault `get`, `retry` | `SpoiltInv` and `FailuresAreBounded` |
| `AuthServiceProofs!TTLHolds` | no fault `expire`, `retry`, `crash` | `SpoiltInv` and `CountersWillExpire` |
| `RpcServerProofs!RpcTypeCorrect`, `RejectionsAreHarmless`, `SuccessIsTrue` | - | `RpcInv` |
| `RpcServerProofs!ServerUsesRepository` | - | each action of the server is one of the store, or a stutter |
| `RpcServerProofs!AccessIsControlled` | - | `AccessInv`, on top of `RpcInv` |
| `RpcServerProofs!ServerDoubleDelete` | as `DoubleDelete` | the refinement |
| `RpcServerProofs!ServerStaleness` | - | the server with the history of `CacheStaleness` implements that module |
| `AvatarUploadProofs!TypeCorrect` | - | each action |
| `AvatarUploadProofs!UploadsCleanUp` | - | `CleanInv` |
| `AvatarUploadProofs!OnlyFailuresTakeAvatars` | - | `KeptInv` |
| `AvatarUploadProofs!SuccessfulUploadsAreStored` | - | `StoredInv` |
| `SnowflakeProofs!TypeCorrect`, `MachinesAreDisjoint` | - | `Stamped` |
| `SnowflakeProofs!ProcessIdsAreIncreasing`, `IdsAreIncreasing`, `IdsAreParsed` | - | `IncreaseInv`, `Dated` |
| `SessionBatchProofs!TypeCorrect`, `NobodySendsOnClosed` | - | `CountInv` |
| `SessionBatchProofs!TokensAreKept`, `SummaryIsAccurate` | - | `CountInv`, `TokenInv`, `EndInv` |
| `SessionBatchProofs!NobodyWaitsForever` | - | `CountInv` and `SentInv` |
| `SessionBatchProofs!ScriptRunsOut` | - | the measure `StepsLeft`, with `CountInv` and `SentInv` |

`DeletesAreKept`: no fault of the kinds `redelete`, `commit`, `stop`, `crash`.
`StaleOnlyWhileDeletePending` alone is not inductive: landing a fill may make the
cache stale, and nothing in it says that a delete is pending then. `DeleteInv` adds
`WriteBacksCovered`, which compares the remaining time of the fill with that of the
timer; `FillBound < DeleteDelay` is used where a timer is scheduled.

`AgeInv` relates three clocks: a fill with `left` ticks to go carries a row whose
age is at most `FillBound - left`, an entry with `ttl` left one whose age is
at most `FillBound + UserCacheTTL - ttl`, and a row in the table has age 0.

`FailuresBounded` is not inductive, since a state with the counter at the bound and
a login before its INCR satisfies it. `HeadroomInv` says that counter plus the logins
past the check never exceed the bound, unless the counter is spoilt; each login moves one from
the second term to the first. `SpoiltInv` says which faults can spoil a counter; where those do not occur,
`LimitHolds` and `TTLHolds` have no exception left.

`PassedInv`: past the comparison there are only logins with the right password of a registered
name. `LivesRunOut` needs no invariant but the types: INCR answers 1 only if there was no counter, since
a counter that exists is at least 1.

`RpcInv` ties a request, its repository call and the table together: which program
counters of a call can occur in which stage, that `applied` is false until the call has
passed its UPDATE and true from then on, and that the user of an applied request is in the
table. With the invariant of `Visibility` the last part rules out that the read-back of
an applied update answers `UserNotFound`. The refinement needs it as well: a call of the
store is one for some user, column and value only because a request that starts an update has
all three. `AccessInv` adds the session: a request past the interceptor has a token that was
handed out and did not come late, and a request with a user has that user's. It is preserved because sessions
only move from none to a user and from a user to their end.

`StoredInv` follows an upload that is alone from stage to stage: nothing else of its user is about, the file holds its
content from `send` on, and once the RPC has succeeded the column names it. `CleanInv` adds to `NoOrphans` that an
upload whose RPC succeeded has its file among those that have been an avatar. `KeptInv` says that whatever an
RPC is to announce, also one whose upload is over, is a whole file unless an upload to that path has failed: each is written
before its RPC is sent, and nothing but failures makes a file less than whole.

`IncreaseInv` says where the ids of a generator stand: none of the process exceeds what its last timestamp and the last
sequence number given out in it make (any sequence number, if the call is waiting or the process new), and while
no process of the machine has overlapped the same is so of all ids and the last millisecond used. The order of ids is that of their digits (`LeadingDigit`), and parsing
is undone by the same digits (`SplitDigit`, `ParseAssemble`), for all widths.

`CountInv` says what the script's counters count: the WaitGroup the goroutines that have not ended, the
slots those that have not released theirs, the two totals those past their tally; so when main
closes the channel nobody is left. `TokenInv` keeps the file, the buffer, the channel, the lost
lines and the senders apart, and `EndInv` says that a writer without its files has written nothing. `SentInv` counts what the writer has taken and what is in the channel: as many as were sent.
If everyone waits the channel is therefore full or the writer is done, and a writer that is done without
having given up finds the channel closed and empty; what is left is the jam. Every step lowers
`StepsLeft`, a goroutine's share of which is the number of pairs in `GoroutineSteps`, so that it is a
cardinality of a finite set and no sum over the users.

## 6. Only model-checked

Liveness rests on fairness, which TLAPS cannot reason about here (it needs ENABLED): `EventuallyConsistent`,
`LockoutEnds`, `LoginAnswered`, `UploadAnswered` and `Ends` are checked by TLC alone. For three of them
the safety half of the argument is proved for every value of the constants.

- `Ends`: as long as the script has not jammed somebody can move (`NobodyWaitsForever`), and there are
  at most `7 * userCount + 5` moves (`ScriptRunsOut`).
- `LockoutEnds`: a counter has a TTL or a login about to set it (`CountersWillExpire`), and
  its TTL goes up only as one of those logins leaves (`CountersRunOut`).
- `EventuallyConsistent`: a row that has not been in the table for `StalenessBound` ticks is not served
  (`StalenessIsBounded`).

What is missing in each case is that the steps are taken. The properties of the five runs that expect a
violation do not hold of the code: TLC's counterexamples show it, and there is nothing to prove.

## 7. Not modelled, and why

- `GetByUsername`, `IsLoginAllowed`: read only; the second is never called. `RefreshSession`
  and `getByIDFromDB` are never called.
- Parsing and validation of requests, error texts, logging, metrics, CORS,
  routing, configuration, dependency wiring, connection pools: no state that a
  property here is about. Protobuf code is generated.
- `generate_10m_users.go`: as shipped it does not compile (`insertBatch` uses `BatchSize`, a constant local to
  `main`), built alone as its usage says, so it has no behaviour to model; its ten workers would insert disjoint ranges of
  ids; `insert_test_user.go` is a single INSERT.
- The gateway's `Login`, `GetProfile`, `UpdateNickname` and `Logout` beyond forwarding, and
  the logging, recovery and metrics interceptors: no state.
- Session TTLs as numbers: a session may end at any time in the model.
