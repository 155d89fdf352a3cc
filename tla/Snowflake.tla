----------------------------- MODULE Snowflake -----------------------------
(***************************************************************************)
(* The id generators of pkg/db/snowflake.go: a timestamp, the number of    *)
(* the machine and a sequence number within the millisecond.               *)
(*                                                                         *)
(* NextID runs under the mutex of its generator and is one step, but for   *)
(* the call that used the millisecond up: it keeps the mutex and sleeps    *)
(* until the clock has moved on.  Clocks run, and are set forward or back, *)
(* on their own.  A generator forgets everything when its process is       *)
(* restarted.                                                              *)
(***************************************************************************)
EXTENDS Integers, Sequences

CONSTANTS
    Generators,     \* one per process
    machineID,      \* their machine ids
    maxMachineID,   \* 1023
    maxSequence,    \* 4095
    epoch,          \* 2025-01-01
    MaxTime,        \* bound: the last millisecond a clock shows
    MaxIds,         \* bound: with so many ids a machine restarts its process no more
    Error           \* an answer without an id

ASSUME WidthAssumption == maxMachineID \in Nat /\ maxSequence \in Nat
ASSUME MachineAssumption == machineID \in [Generators -> 0 .. maxMachineID]
ASSUME TimeAssumption == epoch \in Nat \ {0} /\ MaxTime \in Nat
ASSUME BoundAssumption == MaxIds \in Nat
ASSUME ErrorAssumption == Error \notin Int

VARIABLES
    clock,      \* time.Now().UnixMilli() at a generator's machine
    timestamp,  \* of the last call that passed the clock check
    sequence,
    waiting,    \* in waitNextMillis: a call sleeps and holds the mutex
    answer,     \* of the last call of NextID; Error before the first
    issued,     \* history: the ids a generator has handed out, in order
    made,       \* history: what these were made from, and when by the machine's clock
    used,       \* history: the last millisecond of its machine's calls, restarts or not
    born,       \* history: the number of ids handed out before its process
    overlap     \* history: the machines with a process that did not start past used

history == <<issued, made, used, born, overlap>>
vars    == <<clock, timestamp, sequence, waiting, answer, history>>

\* The clock of 1970 is 0, and the timestamp of a new generator as well.
Init ==
    /\ clock \in [Generators -> 1 .. MaxTime]
    /\ timestamp = [g \in Generators |-> 0]
    /\ sequence = [g \in Generators |-> 0]
    /\ waiting = [g \in Generators |-> FALSE]
    /\ answer = [g \in Generators |-> Error]
    /\ issued = [g \in Generators |-> <<>>]
    /\ made = [g \in Generators |-> <<>>]
    /\ used = [g \in Generators |-> 0]
    /\ born = [g \in Generators |-> 0]
    /\ overlap = {}

\* Mutation of Assemble: the timestamp is shifted by the bits of the machine id only.
AssembleNarrow(diff, machine, seq) ==
    diff * (maxMachineID + 1) + machine * (maxSequence + 1) + seq

\* The shifts: timestamp, machine id, sequence number.
Assemble(diff, machine, seq) ==
    (diff * (maxMachineID + 1) + machine) * (maxSequence + 1) + seq

\* Mutation of ParseSnowflakeID: the machine id is not cut off from the timestamp.
ParseUnmasked(id) ==
    [sequence  |-> id % (maxSequence + 1),
     machineID |-> id \div (maxSequence + 1),
     timestamp |-> id \div ((maxSequence + 1) * (maxMachineID + 1)) + epoch]

ParseSnowflakeID(id) ==
    [sequence  |-> id % (maxSequence + 1),
     machineID |-> (id \div (maxSequence + 1)) % (maxMachineID + 1),
     timestamp |-> id \div ((maxSequence + 1) * (maxMachineID + 1)) + epoch]

\* The end of NextID, in millisecond now with sequence number seq.
Finish(g, now, seq) ==
    /\ timestamp' = [timestamp EXCEPT ![g] = now]
    /\ sequence' = [sequence EXCEPT ![g] = seq]
    /\ used' = [used EXCEPT ![g] = IF now > @ THEN now ELSE @]
    /\ overlap' = IF timestamp[g] = 0 /\ now <= used[g] THEN overlap \cup {g} ELSE overlap
    /\ IF now < epoch
       THEN answer' = [answer EXCEPT ![g] = Error] /\ UNCHANGED <<issued, made>>
       ELSE LET id == Assemble(now - epoch, machineID[g], seq)
            IN  /\ answer' = [answer EXCEPT ![g] = id]
                /\ issued' = [issued EXCEPT ![g] = Append(@, id)]
                /\ made' = [made EXCEPT ![g] =
                     Append(@, [sequence |-> seq, machineID |-> machineID[g],
                                timestamp |-> clock[g]])]
    /\ UNCHANGED <<clock, born>>

ClockBehind(g) ==
    /\ ~waiting[g]
    /\ clock[g] < timestamp[g]
    /\ answer' = [answer EXCEPT ![g] = Error]
    /\ UNCHANGED <<clock, timestamp, sequence, waiting, history>>

\* Mutation of NewMillisecond: the clock may have gone back.
OtherMillisecond(g) ==
    /\ ~waiting[g]
    /\ clock[g] # timestamp[g]
    /\ Finish(g, clock[g], 0)
    /\ UNCHANGED waiting

NewMillisecond(g) ==
    /\ ~waiting[g]
    /\ clock[g] > timestamp[g]
    /\ Finish(g, clock[g], 0)
    /\ UNCHANGED waiting

\* Mutation of Successor: the sequence number is not masked.
SuccessorUnmasked(seq) == seq + 1

Successor(seq) == (seq + 1) % (maxSequence + 1)

SameMillisecond(g) ==
    /\ ~waiting[g]
    /\ clock[g] = timestamp[g]
    /\ Successor(sequence[g]) # 0
    /\ Finish(g, clock[g], Successor(sequence[g]))
    /\ UNCHANGED waiting

\* The sequence number has wrapped.
Exhausted(g) ==
    /\ ~waiting[g]
    /\ clock[g] = timestamp[g]
    /\ Successor(sequence[g]) = 0
    /\ sequence' = [sequence EXCEPT ![g] = 0]
    /\ waiting' = [waiting EXCEPT ![g] = TRUE]
    /\ UNCHANGED <<clock, timestamp, answer, history>>

\* Mutation of NextMillisecond: the wait ends when the clock is not behind.
SomeMillisecond(g) ==
    /\ waiting[g]
    /\ clock[g] >= timestamp[g]
    /\ Finish(g, clock[g], 0)
    /\ waiting' = [waiting EXCEPT ![g] = FALSE]

NextMillisecond(g) ==
    /\ waiting[g]
    /\ clock[g] > timestamp[g]
    /\ Finish(g, clock[g], 0)
    /\ waiting' = [waiting EXCEPT ![g] = FALSE]

NextID(g) ==
    \/ ClockBehind(g) \/ NewMillisecond(g) \/ SameMillisecond(g)
    \/ Exhausted(g) \/ NextMillisecond(g)

\* The clock of a machine shows something else, earlier or later.
ClockChanges(g) ==
    /\ \E now \in 1 .. MaxTime : clock' = [clock EXCEPT ![g] = now]
    /\ UNCHANGED <<timestamp, sequence, waiting, answer, history>>

\* NewSnowflake in a new process.  The call that may have been waiting is lost.
Restart(g) ==
    /\ Len(issued[g]) < MaxIds
    /\ timestamp' = [timestamp EXCEPT ![g] = 0]
    /\ sequence' = [sequence EXCEPT ![g] = 0]
    /\ waiting' = [waiting EXCEPT ![g] = FALSE]
    /\ answer' = [answer EXCEPT ![g] = Error]
    /\ born' = [born EXCEPT ![g] = Len(issued[g])]
    /\ UNCHANGED <<clock, issued, made, used, overlap>>

Next == \E g \in Generators : NextID(g) \/ ClockChanges(g) \/ Restart(g)

Spec == Init /\ [][Next]_vars

-----------------------------------------------------------------------------

Parts == [sequence : 0 .. maxSequence, machineID : 0 .. maxMachineID,
          timestamp : epoch .. MaxTime]

\* Types of the variables; an id is not negative.
TypeOK ==
    /\ clock \in [Generators -> 1 .. MaxTime]
    /\ timestamp \in [Generators -> 0 .. MaxTime]
    /\ sequence \in [Generators -> 0 .. maxSequence]
    /\ waiting \in [Generators -> BOOLEAN]
    /\ answer \in [Generators -> Nat \cup {Error}]
    /\ issued \in [Generators -> Seq(Nat)]
    /\ made \in [Generators -> Seq(Parts)]
    /\ used \in [Generators -> 0 .. MaxTime]
    /\ born \in [Generators -> Nat]
    /\ overlap \subseteq Generators

\* The ids of a process grow from each to the next, and so never repeat, though the clock
\* is set back while it runs and the sequence number wraps, and whatever processes the
\* machine had before.
ProcessIdsIncrease ==
    \A g \in Generators : \A j \in DOMAIN issued[g] : \A i \in born[g] + 1 .. j - 1 :
        issued[g][i] < issued[g][j]

\* So do those of a machine, over all its processes, if each found the clock past every
\* millisecond used before it when it made its first id.
IdsIncrease ==
    \A g \in Generators \ overlap : \A j \in DOMAIN issued[g] : \A i \in 1 .. j - 1 :
        issued[g][i] < issued[g][j]

\* Two machines with ids of their own hand out no id in common.
MachinesDisjoint ==
    \A g, h \in Generators :
        machineID[g] # machineID[h] =>
            \A i \in DOMAIN issued[g], j \in DOMAIN issued[h] : issued[g][i] # issued[h][j]

\* An id tells exactly what it was made from: the machine, the millisecond its clock
\* showed when the id was handed out, and the number within that millisecond.  That is
\* so after waits, clocks set back and restarts.
IdsParse ==
    \A g \in Generators :
        /\ Len(made[g]) = Len(issued[g])
        /\ \A i \in DOMAIN issued[g] : ParseSnowflakeID(issued[g][i]) = made[g][i]
=============================================================================
