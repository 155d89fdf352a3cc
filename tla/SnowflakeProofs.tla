-------------------------- MODULE SnowflakeProofs --------------------------
(***************************************************************************)
(* Theorems about Snowflake, for every width of the three parts of an id   *)
(* and every number of machines.                                           *)
(***************************************************************************)
EXTENDS Snowflake, TLAPS

-----------------------------------------------------------------------------
(* Arithmetic of ids *)

\* Numbers with different leading digits compare as these do, whatever the last digit.
LEMMA LeadingDigit ==
    ASSUME NEW K \in Nat \ {0}, NEW a \in Int, NEW b \in Int,
           NEW r \in 0 .. K - 1, NEW s \in 0 .. K - 1, a < b
    PROVE  a * K + r < b * K + s
<1> DEFINE d == b - a - 1
<1>1. d \in Nat
  OBVIOUS
<1>2. d * K >= 0
  BY <1>1
<1>3. b = a + 1 + d
  OBVIOUS
<1>4. b * K = a * K + K + d * K
  BY <1>1, <1>3
<1>5. a * K \in Int /\ b * K \in Int /\ d * K \in Int
  BY <1>1
<1> HIDE DEF d
<1> QED
  BY <1>2, <1>4, <1>5

\* A number is split into its leading digits and its last one.
LEMMA SplitDigit ==
    ASSUME NEW K \in Nat \ {0}, NEW a \in Nat, NEW r \in 0 .. K - 1
    PROVE  (a * K + r) \div K = a /\ (a * K + r) % K = r
<1> DEFINE n == a * K + r
           q == n \div K
           e == n % K
<1>1. n \in Nat
  <2>1. a * K \in Nat
    OBVIOUS
  <2> QED
    BY <2>1
<1> HIDE DEF n
<1>2. q \in Nat /\ e \in 0 .. K - 1 /\ n = q * K + e
  BY <1>1
<1> HIDE DEF q, e
<1>3. ~(q < a) /\ ~(a < q)
  <2>1. ASSUME q < a PROVE FALSE
    BY <1>1, <1>2, <2>1, LeadingDigit DEF n
  <2>2. ASSUME a < q PROVE FALSE
    BY <1>1, <1>2, <2>2, LeadingDigit DEF n
  <2> QED
    BY <2>1, <2>2
<1>4. q = a
  BY <1>2, <1>3
<1>5. e = r
  <2>1. a * K \in Int /\ n = a * K + e /\ n = a * K + r
    BY <1>2, <1>4 DEF n
  <2> QED
    BY <1>2, <2>1
<1> QED
  BY <1>4, <1>5 DEF q, e, n

Machine == 0 .. maxMachineID
Seqs == 0 .. maxSequence

LEMMA AssembleType ==
    ASSUME NEW d \in Int, NEW m \in Machine, NEW s \in Seqs
    PROVE  /\ Assemble(d, m, s) \in Int
           /\ d >= 0 => Assemble(d, m, s) \in Nat
<1> USE WidthAssumption DEF Machine, Seqs
<1> DEFINE lead == d * (maxMachineID + 1) + m
<1>1. lead \in Int /\ (d >= 0 => lead \in Nat)
  <2>1. d * (maxMachineID + 1) \in Int
    OBVIOUS
  <2>2. d >= 0 => d * (maxMachineID + 1) >= 0
    OBVIOUS
  <2> QED
    BY <2>1, <2>2
<1> HIDE DEF lead
<1>2. lead * (maxSequence + 1) \in Int /\ (lead \in Nat => lead * (maxSequence + 1) \in Nat)
  BY <1>1
<1> QED
  BY <1>1, <1>2 DEF Assemble, lead

\* A later millisecond makes a larger id.
LEMMA AssembleLater ==
    ASSUME NEW c \in Int, NEW d \in Int, NEW m \in Machine, NEW r \in Seqs, NEW s \in Seqs,
           c < d
    PROVE  Assemble(c, m, r) < Assemble(d, m, s)
<1> USE WidthAssumption DEF Machine, Seqs
<1>1. c * (maxMachineID + 1) + m < d * (maxMachineID + 1) + m
  BY LeadingDigit
<1>2. c * (maxMachineID + 1) + m \in Int /\ d * (maxMachineID + 1) + m \in Int
  OBVIOUS
<1> QED
  BY <1>1, <1>2, LeadingDigit DEF Assemble

\* Ids of different machines differ.
LEMMA AssembleApart ==
    ASSUME NEW c \in Int, NEW d \in Int, NEW m \in Machine, NEW n \in Machine,
           NEW r \in Seqs, NEW s \in Seqs, m # n
    PROVE  Assemble(c, m, r) # Assemble(d, n, s)
<1> USE WidthAssumption DEF Machine, Seqs
<1> DEFINE a == c * (maxMachineID + 1) + m
           b == d * (maxMachineID + 1) + n
<1>1. a \in Int /\ b \in Int
  OBVIOUS
<1>2. a # b
  <2>1. CASE c = d
    BY <2>1
  <2>2. CASE c < d
    <3>1. a < b
      BY <2>2, LeadingDigit
    <3> QED
      BY <1>1, <3>1
  <2>3. CASE d < c
    <3>1. b < a
      BY <2>3, LeadingDigit
    <3> QED
      BY <1>1, <3>1
  <2> QED
    BY <2>1, <2>2, <2>3
<1> HIDE DEF a, b
<1>3. a * (maxSequence + 1) + r # b * (maxSequence + 1) + s
  <2>1. a < b \/ b < a
    BY <1>1, <1>2
  <2>2. a * (maxSequence + 1) + r \in Int /\ b * (maxSequence + 1) + s \in Int
    BY <1>1
  <2> QED
    BY <1>1, <2>1, <2>2, LeadingDigit
<1> QED
  BY <1>3 DEF Assemble, a, b

\* Parsing undoes assembling.
LEMMA ParseAssemble ==
    ASSUME NEW d \in Nat, NEW m \in Machine, NEW s \in Seqs
    PROVE  LET parsed == ParseSnowflakeID(Assemble(d, m, s))
           IN  parsed = [sequence |-> s, machineID |-> m, timestamp |-> d + epoch]
<1> USE WidthAssumption DEF Machine, Seqs
<1> DEFINE K == maxSequence + 1
           M == maxMachineID + 1
           lead == d * M + m
           rest == m * K + s
           id == Assemble(d, m, s)
<1>1. /\ K \in Nat \ {0} /\ M \in Nat \ {0} /\ m \in 0 .. M - 1 /\ s \in 0 .. K - 1
      /\ m <= M - 1 /\ s <= K - 1
  OBVIOUS
<1>2. id = lead * K + s
  BY DEF Assemble
<1> HIDE DEF K, M
<1>3. lead \in Nat
  <2>1. d * M \in Nat
    BY <1>1
  <2> QED
    BY <1>1, <2>1
<1>4. lead % M = m /\ lead \div M = d
  BY <1>1, SplitDigit
<1>5. K * M \in Nat \ {0} /\ rest \in 0 .. K * M - 1
  <2>1. m * K \in Nat /\ K * M \in Nat /\ M - 1 \in Nat
    BY <1>1
  <2>2. m * K <= (M - 1) * K
    BY <1>1
  <2>3. (M - 1) * K = K * M - K
    BY <1>1
  <2>4. K * M - K \in Int
    BY <1>1, <2>1
  <2>5. rest <= K * M - 1 /\ rest \in Nat
    BY <1>1, <2>1, <2>2, <2>3, <2>4
  <2> QED
    BY <1>1, <2>1, <2>5
<1>6. id = d * (K * M) + rest
  <2>1. lead * K = d * M * K + m * K
    BY <1>1
  <2>2. d * M * K = d * (K * M)
    BY <1>1
  <2>3. d * M * K \in Int /\ m * K \in Int
    <3>1. d * M \in Int
      BY <1>1
    <3> QED
      BY <1>1, <3>1
  <2> HIDE DEF lead
  <2> QED
    BY <1>1, <1>2, <2>1, <2>2, <2>3
<1> HIDE DEF lead, rest
<1>7. id % K = s /\ id \div K = lead
  BY <1>1, <1>2, <1>3, SplitDigit
<1>8. id \div (K * M) = d
  BY <1>5, <1>6, SplitDigit
<1> HIDE DEF id
<1>9. ParseSnowflakeID(id) = [sequence |-> id % K, machineID |-> (id \div K) % M,
                              timestamp |-> id \div (K * M) + epoch]
  BY DEF ParseSnowflakeID, K, M
<1> QED
  BY <1>4, <1>7, <1>8, <1>9 DEF id

\* The mask of the sequence number.
LEMMA SuccessorIs ==
    ASSUME NEW s \in Seqs
    PROVE  /\ Successor(s) \in Seqs
           /\ Successor(s) # 0 => Successor(s) = s + 1
<1> USE WidthAssumption DEF Seqs
<1>1. CASE s = maxSequence
  BY <1>1 DEF Successor
<1>2. CASE s < maxSequence
  <2>1. (s + 1) % (maxSequence + 1) = s + 1
    BY <1>2
  <2> QED
    BY <1>2, <2>1 DEF Successor
<1> QED
  BY <1>1, <1>2

\* With more room behind the millisecond an id is no smaller.
LEMMA AssembleRoom ==
    ASSUME NEW d \in Int, NEW m \in Machine, NEW r \in Seqs, NEW s \in Seqs, r <= s
    PROVE  /\ Assemble(d, m, r) <= Assemble(d, m, s)
           /\ r < s => Assemble(d, m, r) < Assemble(d, m, s)
<1> USE WidthAssumption DEF Machine, Seqs
<1> DEFINE high == (d * (maxMachineID + 1) + m) * (maxSequence + 1)
<1>1. high \in Int
  <2>1. d * (maxMachineID + 1) + m \in Int
    OBVIOUS
  <2> QED
    BY <2>1
<1>2. Assemble(d, m, r) = high + r /\ Assemble(d, m, s) = high + s
  BY DEF Assemble
<1> HIDE DEF high
<1> QED
  BY <1>1, <1>2

-----------------------------------------------------------------------------
(* Types *)

LEMMA FinishType ==
    ASSUME TypeOK, NEW g \in Generators, NEW seq \in Seqs, Finish(g, clock[g], seq)
    PROVE  /\ clock' \in [Generators -> 1 .. MaxTime]
           /\ timestamp' \in [Generators -> 0 .. MaxTime]
           /\ sequence' \in [Generators -> 0 .. maxSequence]
           /\ answer' \in [Generators -> Nat \cup {Error}]
           /\ issued' \in [Generators -> Seq(Nat)]
           /\ made' \in [Generators -> Seq(Parts)]
           /\ used' \in [Generators -> 0 .. MaxTime]
           /\ born' \in [Generators -> Nat]
           /\ overlap' \subseteq Generators
<1> USE WidthAssumption, TimeAssumption DEF Seqs
<1>1. clock[g] \in 0 .. MaxTime
  BY DEF TypeOK
<1>2. machineID[g] \in Machine
  BY MachineAssumption DEF Machine
<1>3. /\ clock' \in [Generators -> 1 .. MaxTime]
      /\ timestamp' \in [Generators -> 0 .. MaxTime]
      /\ sequence' \in [Generators -> 0 .. maxSequence]
      /\ used' \in [Generators -> 0 .. MaxTime]
      /\ born' \in [Generators -> Nat]
      /\ overlap' \subseteq Generators
  <2>1. /\ clock' = clock /\ born' = born
        /\ timestamp' = [timestamp EXCEPT ![g] = clock[g]]
        /\ sequence' = [sequence EXCEPT ![g] = seq]
        /\ used' = [used EXCEPT ![g] = IF clock[g] > @ THEN clock[g] ELSE @]
        /\ overlap' \in {overlap, overlap \cup {g}}
    BY DEF Finish
  <2> QED
    BY <1>1, <2>1 DEF TypeOK
<1>4. CASE clock[g] < epoch
  BY <1>3, <1>4 DEF TypeOK, Finish
<1>5. CASE ~(clock[g] < epoch)
  <2> DEFINE id == Assemble(clock[g] - epoch, machineID[g], seq)
  <2>1. id \in Nat
    BY <1>1, <1>2, <1>5, AssembleType
  <2>2. /\ answer' = [answer EXCEPT ![g] = id]
        /\ issued' = [issued EXCEPT ![g] = Append(@, id)]
    BY <1>5 DEF Finish
  <2> HIDE DEF id
  <2>3. issued[g] \in Seq(Nat)
    BY DEF TypeOK
  <2>4. Append(issued[g], id) \in Seq(Nat)
    BY <2>1, <2>3
  <2>5. made' \in [Generators -> Seq(Parts)]
    <3> DEFINE parts == [sequence |-> seq, machineID |-> machineID[g], timestamp |-> clock[g]]
    <3>1. parts \in Parts
      BY <1>1, <1>2, <1>5 DEF Parts, Machine, TypeOK
    <3>2. made' = [made EXCEPT ![g] = Append(@, parts)]
      BY <1>5 DEF Finish
    <3> HIDE DEF parts
    <3>3. made[g] \in Seq(Parts)
      BY DEF TypeOK
    <3>4. Append(made[g], parts) \in Seq(Parts)
      BY <3>1, <3>3
    <3> QED
      BY <3>2, <3>4 DEF TypeOK
  <2> QED
    BY <1>3, <2>1, <2>2, <2>4, <2>5 DEF TypeOK
<1> QED
  BY <1>4, <1>5

LEMMA InitType == Init => TypeOK
BY WidthAssumption, TimeAssumption DEF Init, TypeOK

LEMMA NextType == TypeOK /\ [Next]_vars => TypeOK'
<1> SUFFICES ASSUME TypeOK, [Next]_vars PROVE TypeOK'
  OBVIOUS
<1> USE WidthAssumption, TimeAssumption DEF history
<1>0. 0 \in Seqs
  BY DEF Seqs
<1>1. ASSUME NEW g \in Generators, ClockBehind(g) PROVE TypeOK'
  BY <1>1 DEF ClockBehind, TypeOK
<1>2. ASSUME NEW g \in Generators, NewMillisecond(g) PROVE TypeOK'
  <2>1. Finish(g, clock[g], 0) /\ waiting' = waiting
    BY <1>2 DEF NewMillisecond
  <2> QED
    BY <1>0, <2>1, FinishType DEF TypeOK
<1>3. ASSUME NEW g \in Generators, SameMillisecond(g) PROVE TypeOK'
  <2>1. Finish(g, clock[g], Successor(sequence[g])) /\ waiting' = waiting
    BY <1>3 DEF SameMillisecond
  <2>2. sequence[g] \in Seqs
    BY DEF TypeOK, Seqs
  <2>3. Successor(sequence[g]) \in Seqs
    BY <2>2, SuccessorIs
  <2> QED
    BY <2>1, <2>3, FinishType DEF TypeOK
<1>4. ASSUME NEW g \in Generators, Exhausted(g) PROVE TypeOK'
  BY <1>4 DEF Exhausted, TypeOK
<1>5. ASSUME NEW g \in Generators, NextMillisecond(g) PROVE TypeOK'
  <2>1. Finish(g, clock[g], 0) /\ waiting' = [waiting EXCEPT ![g] = FALSE]
    BY <1>5 DEF NextMillisecond
  <2>2. waiting' \in [Generators -> BOOLEAN]
    BY <2>1 DEF TypeOK
  <2> QED
    BY <1>0, <2>1, <2>2, FinishType DEF TypeOK
<1>6. ASSUME NEW g \in Generators, ClockChanges(g) PROVE TypeOK'
  BY <1>6 DEF ClockChanges, TypeOK
<1>7. ASSUME NEW g \in Generators, Restart(g) PROVE TypeOK'
  <2>1. Len(issued[g]) \in Nat
    BY DEF TypeOK
  <2> QED
    BY <1>7, <2>1 DEF Restart, TypeOK
<1>8. CASE UNCHANGED vars
  BY <1>8 DEF vars, TypeOK
<1> QED
  BY <1>1, <1>2, <1>3, <1>4, <1>5, <1>6, <1>7, <1>8 DEF Next, NextID

\* The state of every generator stays well-typed, and no id is negative, for all widths.
THEOREM TypeCorrect == Spec => []TypeOK
<1> QED
  BY InitType, NextType, PTL DEF Spec

-----------------------------------------------------------------------------
(* Machines share no id *)

\* Every id has the machine it was made at in its middle.
Stamped ==
    \A g \in Generators : \A i \in DOMAIN issued[g] :
        \E d \in Int, s \in Seqs : issued[g][i] = Assemble(d, machineID[g], s)

LEMMA FinishStamped ==
    ASSUME TypeOK, Stamped, NEW g \in Generators, NEW seq \in Seqs, Finish(g, clock[g], seq)
    PROVE  Stamped'
<1>1. CASE clock[g] < epoch
  BY <1>1 DEF Finish, Stamped
<1>2. CASE ~(clock[g] < epoch)
  <2> DEFINE d == clock[g] - epoch
             id == Assemble(d, machineID[g], seq)
  <2>1. issued' = [issued EXCEPT ![g] = Append(@, id)]
    BY <1>2 DEF Finish
  <2>2. d \in Int
    BY TimeAssumption DEF TypeOK
  <2>3. \E e \in Int, s \in Seqs : id = Assemble(e, machineID[g], s)
    BY <2>2
  <2> HIDE DEF id, d
  <2> SUFFICES ASSUME NEW h \in Generators, NEW i \in DOMAIN issued'[h]
               PROVE  \E e \in Int, s \in Seqs : issued'[h][i] = Assemble(e, machineID[h], s)
    BY DEF Stamped
  <2>4. issued[g] \in Seq(Nat)
    BY DEF TypeOK
  <2>5. CASE h # g
    <3>1. issued'[h] = issued[h]
      BY <2>1, <2>5 DEF TypeOK
    <3> QED
      BY <3>1 DEF Stamped
  <2>6. CASE h = g
    <3>1. issued'[g] = Append(issued[g], id)
      BY <2>1 DEF TypeOK
    <3>2. (i \in DOMAIN issued[g] /\ issued'[g][i] = issued[g][i]) \/ issued'[g][i] = id
      BY <2>4, <2>6, <3>1
    <3> QED
      BY <2>3, <2>6, <3>2 DEF Stamped
  <2> QED
    BY <2>5, <2>6
<1> QED
  BY <1>1, <1>2

LEMMA NextStamped == TypeOK /\ Stamped /\ [Next]_vars => Stamped'
<1> SUFFICES ASSUME TypeOK, Stamped, [Next]_vars PROVE Stamped'
  OBVIOUS
<1>1. 0 \in Seqs
  BY WidthAssumption DEF Seqs
<1>2. ASSUME NEW g \in Generators, NewMillisecond(g) PROVE Stamped'
  BY <1>1, <1>2, FinishStamped DEF NewMillisecond
<1>3. ASSUME NEW g \in Generators, SameMillisecond(g) PROVE Stamped'
  <2>1. sequence[g] \in Seqs
    BY DEF TypeOK, Seqs
  <2> QED
    BY <1>3, <2>1, SuccessorIs, FinishStamped DEF SameMillisecond
<1>4. ASSUME NEW g \in Generators, NextMillisecond(g) PROVE Stamped'
  BY <1>1, <1>4, FinishStamped DEF NextMillisecond
<1>5. ASSUME issued' = issued PROVE Stamped'
  BY <1>5 DEF Stamped
<1> QED
  BY <1>2, <1>3, <1>4, <1>5
     DEF Next, NextID, ClockBehind, Exhausted, ClockChanges, Restart, vars, history

LEMMA StampedApart == Stamped => MachinesDisjoint
<1> SUFFICES ASSUME Stamped, NEW g \in Generators, NEW h \in Generators,
                    machineID[g] # machineID[h],
                    NEW i \in DOMAIN issued[g], NEW j \in DOMAIN issued[h]
             PROVE  issued[g][i] # issued[h][j]
  BY DEF MachinesDisjoint
<1>1. machineID[g] \in Machine /\ machineID[h] \in Machine
  BY MachineAssumption DEF Machine
<1>2. PICK c \in Int, r \in Seqs : issued[g][i] = Assemble(c, machineID[g], r)
  BY DEF Stamped
<1>3. PICK d \in Int, s \in Seqs : issued[h][j] = Assemble(d, machineID[h], s)
  BY DEF Stamped
<1> QED
  BY <1>1, <1>2, <1>3, AssembleApart

\* Machines with different ids never hand out the same id, whatever their clocks do and
\* however often they restart.
THEOREM MachinesAreDisjoint == Spec => []MachinesDisjoint
<1>1. Init => Stamped
  BY DEF Init, Stamped
<1> QED
  BY <1>1, TypeCorrect, NextStamped, StampedApart, PTL DEF Spec

-----------------------------------------------------------------------------
(* Ids increase *)

\* The last sequence number the ids of the last millisecond can have.
Limit(g) == IF ~waiting[g] /\ timestamp[g] # 0 THEN sequence[g] ELSE maxSequence

\* The ids of generator g after the first b are in order, and the last of them were made
\* in millisecond last or before.
Ordered(g, b, last) ==
    /\ \A i \in b + 1 .. Len(issued[g]) :
          issued[g][i] <= Assemble(last - epoch, machineID[g], Limit(g))
    /\ \A j \in b + 1 .. Len(issued[g]) : \A i \in b + 1 .. j - 1 : issued[g][i] < issued[g][j]

\* The ids of the process, and those of the machine while no process of it has overlapped.
InOrder(g) ==
    /\ born[g] <= Len(issued[g])
    /\ timestamp[g] <= used[g]
    /\ timestamp[g] = 0 => born[g] = Len(issued[g]) /\ ~waiting[g]
    /\ Ordered(g, born[g], timestamp[g])
    /\ g \notin overlap => timestamp[g] \in {0, used[g]} /\ Ordered(g, 0, used[g])

IncreaseInv == \A g \in Generators : InOrder(g)

\* What InOrder(g) is about.
Of(g) == <<timestamp[g], sequence[g], waiting[g], issued[g], used[g], born[g], g \in overlap>>

LEMMA Numbers ==
    ASSUME TypeOK, NEW g \in Generators
    PROVE  /\ clock[g] \in Int /\ clock[g] > 0 /\ used[g] \in Int /\ timestamp[g] \in Int
           /\ timestamp[g] >= 0 /\ used[g] >= 0
           /\ sequence[g] \in Seqs /\ 0 \in Seqs /\ maxSequence \in Seqs /\ Limit(g) \in Seqs
           /\ waiting[g] \in BOOLEAN /\ machineID[g] \in Machine /\ epoch \in Int
           /\ issued[g] \in Seq(Nat) /\ Len(issued[g]) \in Nat /\ born[g] \in Nat
           /\ \A i \in 1 .. Len(issued[g]) : issued[g][i] \in Int
BY WidthAssumption, TimeAssumption, MachineAssumption DEF TypeOK, Seqs, Machine, Limit

\* An id larger than those before keeps the order.
LEMMA FinishOrdered ==
    ASSUME TypeOK, NEW g \in Generators, NEW b \in Nat, NEW last, NEW now, NEW seq \in Seqs,
           Ordered(g, b, last), now = clock[g], Finish(g, now, seq), ~waiting'[g],
           \A i \in b + 1 .. Len(issued[g]) :
              issued[g][i] < Assemble(now - epoch, machineID[g], seq)
    PROVE  Ordered(g, b, now)'
<1> DEFINE id == Assemble(now - epoch, machineID[g], seq)
           old == issued[g]
           ids == issued'[g]
<1>1. timestamp'[g] = now /\ sequence'[g] = seq /\ now \in Int /\ now # 0
  BY Numbers DEF TypeOK, Finish
<1>2. Limit(g)' = seq
  BY <1>1 DEF Limit
<1>3. Assemble(now - epoch, machineID[g], Limit(g))' = id
  BY <1>2 DEF Assemble
<1>4. id \in Int
  <2>1. now - epoch \in Int /\ machineID[g] \in Machine
    BY <1>1, Numbers
  <2> QED
    BY <2>1, AssembleType
<1>5. old \in Seq(Nat) /\ Len(old) \in Nat /\ \A i \in 1 .. Len(old) : old[i] \in Int
  BY Numbers
<1>6. ids = old \/ ids = Append(old, id)
  BY DEF TypeOK, Finish
<1>7. /\ \A i \in b + 1 .. Len(old) : old[i] < id
      /\ \A j \in b + 1 .. Len(old) : \A i \in b + 1 .. j - 1 : old[i] < old[j]
  BY DEF Ordered
<1>8. Ordered(g, b, now)' <=> /\ \A i \in b + 1 .. Len(ids) : ids[i] <= id
                              /\ \A j \in b + 1 .. Len(ids) : \A i \in b + 1 .. j - 1 : ids[i] < ids[j]
  BY <1>3 DEF Ordered
<1> HIDE DEF id, old, ids
<1>9. CASE ids = old
  <2>1. ASSUME NEW i \in b + 1 .. Len(old) PROVE old[i] <= id
    <3>1. i \in 1 .. Len(old)
      BY <1>5
    <3>2. old[i] \in Int /\ old[i] < id
      BY <1>5, <1>7, <3>1
    <3> QED
      BY <1>4, <3>2
  <2> QED
    BY <1>7, <1>8, <1>9, <2>1
<1>10. CASE ids = Append(old, id)
  <2>1. /\ Len(ids) = Len(old) + 1 /\ ids[Len(old) + 1] = id
        /\ \A i \in 1 .. Len(old) : ids[i] = old[i]
    BY <1>5, <1>10
  <2>2. ASSUME NEW i \in b + 1 .. Len(ids) PROVE ids[i] <= id
    <3>1. CASE i = Len(old) + 1
      BY <1>4, <2>1, <3>1
    <3>2. CASE i # Len(old) + 1
      <4>1. i \in b + 1 .. Len(old) /\ i \in 1 .. Len(old)
        BY <1>5, <2>1, <3>2
      <4> QED
        BY <1>4, <1>5, <1>7, <2>1, <4>1
    <3> QED
      BY <3>1, <3>2
  <2>3. ASSUME NEW j \in b + 1 .. Len(ids), NEW i \in b + 1 .. j - 1 PROVE ids[i] < ids[j]
    <3>1. i \in b + 1 .. Len(old) /\ i \in 1 .. Len(old)
      BY <1>5, <2>1
    <3>2. CASE j = Len(old) + 1
      BY <1>7, <2>1, <3>1, <3>2
    <3>3. CASE j # Len(old) + 1
      <4>1. j \in b + 1 .. Len(old) /\ j \in 1 .. Len(old)
        BY <1>5, <2>1, <3>3
      <4> QED
        BY <1>7, <2>1, <3>1, <4>1
    <3> QED
      BY <3>2, <3>3
  <2> QED
    BY <1>8, <2>2, <2>3
<1> QED
  BY <1>6, <1>9, <1>10

\* A call in a later millisecond, or with a later sequence number, makes a larger id.
LEMMA LaterIsLarger ==
    ASSUME TypeOK, NEW g \in Generators, NEW b \in Nat, NEW last \in Int, NEW seq \in Seqs,
           Ordered(g, b, last),
           clock[g] > last \/ (clock[g] = last /\ Limit(g) < seq)
    PROVE  \A i \in b + 1 .. Len(issued[g]) :
              issued[g][i] < Assemble(clock[g] - epoch, machineID[g], seq)
<1> DEFINE bound == Assemble(last - epoch, machineID[g], Limit(g))
           id == Assemble(clock[g] - epoch, machineID[g], seq)
<1>1. /\ clock[g] \in Int /\ machineID[g] \in Machine /\ epoch \in Int /\ Limit(g) \in Seqs
      /\ last - epoch \in Int /\ clock[g] - epoch \in Int
  BY Numbers
<1>2. bound \in Int /\ id \in Int
  BY <1>1, AssembleType
<1>3. bound < id
  <2>1. CASE clock[g] > last
    BY <1>1, <2>1, AssembleLater
  <2>2. CASE clock[g] = last /\ Limit(g) < seq
    <3>1. Limit(g) <= seq
      BY <1>1, <2>2, WidthAssumption DEF Seqs
    <3> QED
      BY <1>1, <2>2, <3>1, AssembleRoom
  <2> QED
    BY <2>1, <2>2
<1>4. \A i \in b + 1 .. Len(issued[g]) : issued[g][i] <= bound /\ issued[g][i] \in Int
  <2>1. \A i \in b + 1 .. Len(issued[g]) : i \in 1 .. Len(issued[g])
    BY Numbers
  <2> QED
    BY <2>1, Numbers DEF Ordered
<1> HIDE DEF bound, id
<1>5. \A i \in b + 1 .. Len(issued[g]) : issued[g][i] < id
  BY <1>2, <1>3, <1>4
<1> QED
  BY <1>5 DEF id

\* A step that makes no id and lowers no limit keeps the order.
LEMMA KeepsOrdered ==
    ASSUME TypeOK, NEW g \in Generators, NEW b \in Nat, NEW last \in Int, Ordered(g, b, last),
           issued'[g] = issued[g], Limit(g)' \in {Limit(g), maxSequence}
    PROVE  Ordered(g, b, last)'
<1> DEFINE before == Assemble(last - epoch, machineID[g], Limit(g))
           after == Assemble(last - epoch, machineID[g], Limit(g)')
<1>1. Limit(g) \in Seqs /\ Limit(g)' \in Seqs /\ Limit(g) <= Limit(g)'
  BY Numbers, WidthAssumption DEF Seqs
<1>2. last - epoch \in Int /\ machineID[g] \in Machine
  BY Numbers
<1>3. before \in Int /\ after \in Int /\ before <= after
  BY <1>1, <1>2, AssembleRoom, AssembleType
<1>4. Assemble(last - epoch, machineID[g], Limit(g))' = after
  BY DEF Assemble
<1>5. \A i \in b + 1 .. Len(issued[g]) : issued[g][i] <= before /\ issued[g][i] \in Int
  <2>1. \A i \in b + 1 .. Len(issued[g]) : i \in 1 .. Len(issued[g])
    BY Numbers
  <2> QED
    BY <2>1, Numbers DEF Ordered
<1>6. \A j \in b + 1 .. Len(issued[g]) : \A i \in b + 1 .. j - 1 : issued[g][i] < issued[g][j]
  BY DEF Ordered
<1> HIDE DEF before, after
<1>7. \A i \in b + 1 .. Len(issued[g]) : issued[g][i] <= after
  BY <1>3, <1>5
<1> QED
  BY <1>4, <1>6, <1>7 DEF Ordered

LEMMA FinishIssues ==
    ASSUME TypeOK, NEW g \in Generators, NEW now, NEW seq, Finish(g, now, seq)
    PROVE  /\ issued[g] \in Seq(Nat)
           /\ \E id : issued'[g] \in {issued[g], Append(issued[g], id)}
<1>1. issued \in [Generators -> Seq(Nat)]
  BY DEF TypeOK
<1>2. CASE now < epoch
  BY <1>1, <1>2 DEF Finish
<1>3. CASE ~(now < epoch)
  <2> DEFINE id == Assemble(now - epoch, machineID[g], seq)
  <2>1. issued' = [issued EXCEPT ![g] = Append(@, id)]
    BY <1>3 DEF Finish
  <2> HIDE DEF id
  <2> QED
    BY <1>1, <2>1
<1> QED
  BY <1>2, <1>3

\* A call that makes an id in the millisecond of the clock, or at least uses it.
LEMMA FinishInOrder ==
    ASSUME TypeOK, NEW g \in Generators, InOrder(g), NEW seq \in Seqs,
           Finish(g, clock[g], seq), ~waiting'[g],
           clock[g] > timestamp[g] \/ (clock[g] = timestamp[g] /\ Limit(g) < seq)
    PROVE  InOrder(g)'
<1>1. PICK now \in Int, b \in Nat, last \in Int, most \in Int :
         now = clock[g] /\ b = born[g] /\ last = timestamp[g] /\ most = used[g]
  BY Numbers
<1>2. /\ now > 0 /\ last >= 0 /\ 0 \in Nat /\ Len(issued[g]) \in Nat
      /\ b <= Len(issued[g]) /\ last <= most /\ Ordered(g, b, last)
      /\ g \notin overlap => last \in {0, most} /\ Ordered(g, 0, most)
  BY <1>1, Numbers DEF InOrder
<1>3. /\ timestamp'[g] = now /\ born'[g] = b
      /\ used'[g] = IF now > most THEN now ELSE most
      /\ Finish(g, now, seq)
      /\ g \notin overlap' => g \notin overlap /\ ~(last = 0 /\ now <= most)
  BY <1>1 DEF TypeOK, Finish
<1>4. Len(issued[g]) <= Len(issued'[g])
  <2>1. issued[g] \in Seq(Nat) /\ \E id : issued'[g] \in {issued[g], Append(issued[g], id)}
    BY FinishIssues
  <2> QED
    BY <2>1
<1>5. ASSUME NEW c \in Nat, NEW l \in Int, Ordered(g, c, l), now > l \/ (now = l /\ Limit(g) < seq)
      PROVE  Ordered(g, c, now)'
  <2>1. \A i \in c + 1 .. Len(issued[g]) :
           issued[g][i] < Assemble(clock[g] - epoch, machineID[g], seq)
    BY <1>1, <1>5, LaterIsLarger
  <2>2. \A i \in c + 1 .. Len(issued[g]) :
           issued[g][i] < Assemble(now - epoch, machineID[g], seq)
    BY <1>1, <2>1
  <2> QED
    BY <1>1, <1>3, <1>5, <2>2, FinishOrdered
<1>6. Ordered(g, b, now)'
  BY <1>1, <1>2, <1>5
<1>7. ASSUME g \notin overlap' PROVE used'[g] = now /\ Ordered(g, 0, now)'
  <2>1. Ordered(g, 0, most) /\ last \in {0, most} /\ ~(last = 0 /\ now <= most)
    BY <1>2, <1>3, <1>7
  <2>2. now > most \/ (now = most /\ Limit(g) < seq)
    BY <1>1, <1>2, <2>1
  <2>3. used'[g] = now
    BY <1>3, <2>2
  <2> QED
    BY <1>2, <1>5, <2>1, <2>2, <2>3
<1>8. born'[g] <= Len(issued'[g]) /\ timestamp'[g] <= used'[g] /\ timestamp'[g] # 0
  <2>1. Len(issued'[g]) \in Nat
    <3>1. issued[g] \in Seq(Nat) /\ \E id : issued'[g] \in {issued[g], Append(issued[g], id)}
      BY FinishIssues
    <3> QED
      BY <3>1
  <2> QED
    BY <1>2, <1>3, <1>4, <2>1
<1>9. Ordered(g, born[g], timestamp[g])'
  BY <1>3, <1>6 DEF Ordered
<1>10. g \notin overlap' => timestamp'[g] \in {0, used'[g]} /\ Ordered(g, 0, used[g])'
  BY <1>3, <1>7 DEF Ordered
<1> QED
  BY <1>8, <1>9, <1>10 DEF InOrder

LEMMA NextInOrder == TypeOK /\ IncreaseInv /\ [Next]_vars => IncreaseInv'
<1> SUFFICES ASSUME TypeOK, IncreaseInv, [Next]_vars, NEW h \in Generators
             PROVE  InOrder(h)'
  BY DEF IncreaseInv
<1> USE DEF history
<1>1. InOrder(h)
  BY DEF IncreaseInv
<1>2. /\ clock[h] \in Int /\ clock[h] > 0 /\ timestamp[h] \in Int /\ used[h] \in Int
      /\ sequence[h] \in Seqs /\ 0 \in Seqs /\ waiting[h] \in BOOLEAN
      /\ born[h] \in Nat /\ Len(issued[h]) \in Nat
  BY Numbers
<1>3. ASSUME UNCHANGED Of(h) PROVE InOrder(h)'
  <2>1. /\ timestamp'[h] = timestamp[h] /\ sequence'[h] = sequence[h]
        /\ issued'[h] = issued[h] /\ used'[h] = used[h] /\ born'[h] = born[h]
    BY <1>3 DEF Of
  <2>2. waiting'[h] = waiting[h]
    BY <1>3 DEF Of
  <2>3. (h \in overlap') = (h \in overlap)
    BY <1>3 DEF Of
  <2>4. Limit(h)' = Limit(h)
    BY <2>1, <2>2 DEF Limit
  <2>5. /\ Ordered(h, born[h], timestamp[h])' <=> Ordered(h, born[h], timestamp[h])
        /\ Ordered(h, 0, used[h])' <=> Ordered(h, 0, used[h])
    BY <2>1, <2>4 DEF Ordered, Assemble
  <2> QED
    BY <1>1, <2>1, <2>2, <2>3, <2>5 DEF InOrder
<1>4. ASSUME NEW g \in Generators, g # h, NextID(g) \/ ClockChanges(g) \/ Restart(g)
      PROVE  InOrder(h)'
  <2>1. /\ timestamp'[h] = timestamp[h] /\ sequence'[h] = sequence[h]
        /\ issued'[h] = issued[h] /\ used'[h] = used[h] /\ born'[h] = born[h]
    BY <1>4 DEF TypeOK, NextID, ClockBehind, NewMillisecond, SameMillisecond, Exhausted,
                NextMillisecond, Finish, ClockChanges, Restart
  <2>2. waiting'[h] = waiting[h]
    BY <1>4 DEF TypeOK, NextID, ClockBehind, NewMillisecond, SameMillisecond, Exhausted,
                NextMillisecond, ClockChanges, Restart
  <2>3. (h \in overlap') = (h \in overlap)
    BY <1>4 DEF NextID, ClockBehind, NewMillisecond, SameMillisecond, Exhausted,
                NextMillisecond, Finish, ClockChanges, Restart
  <2>4. UNCHANGED Of(h)
    BY <2>1, <2>2, <2>3 DEF Of
  <2> QED
    BY <1>3, <2>4
<1>5. CASE ClockBehind(h)
  <2>1. UNCHANGED Of(h)
    BY <1>5 DEF ClockBehind, Of
  <2> QED
    BY <1>3, <2>1
<1>6. CASE NewMillisecond(h)
  <2>1. Finish(h, clock[h], 0) /\ ~waiting'[h] /\ clock[h] > timestamp[h]
    BY <1>6 DEF NewMillisecond
  <2> QED
    BY <1>1, <1>2, <2>1, FinishInOrder
<1>7. CASE SameMillisecond(h)
  <2> DEFINE seq == Successor(sequence[h])
  <2>1. Finish(h, clock[h], seq) /\ ~waiting'[h] /\ ~waiting[h] /\ clock[h] = timestamp[h] /\ seq # 0
    BY <1>7 DEF SameMillisecond
  <2>2. seq \in Seqs /\ seq = sequence[h] + 1
    BY <1>2, <2>1, SuccessorIs
  <2>3. Limit(h) = sequence[h] /\ Limit(h) < seq
    <3>1. Limit(h) = sequence[h]
      BY <1>2, <2>1 DEF Limit
    <3> HIDE DEF seq
    <3> QED
      BY <1>2, <2>2, <3>1, WidthAssumption DEF Seqs
  <2> HIDE DEF seq
  <2> QED
    BY <1>1, <2>1, <2>2, <2>3, FinishInOrder
<1>8. CASE Exhausted(h)
  <2>1. /\ timestamp'[h] = timestamp[h] /\ timestamp[h] # 0 /\ issued'[h] = issued[h]
        /\ used'[h] = used[h] /\ born'[h] = born[h] /\ overlap' = overlap /\ waiting'[h]
    BY <1>2, <1>8 DEF Exhausted, TypeOK
  <2>2. Limit(h)' = maxSequence
    BY <2>1 DEF Limit
  <2>3. PICK b \in Nat, last \in Int, most \in Int :
           b = born[h] /\ last = timestamp[h] /\ most = used[h]
    BY <1>2
  <2>4. Ordered(h, b, last)'
    BY <1>1, <2>1, <2>2, <2>3, KeepsOrdered DEF InOrder
  <2>5. h \notin overlap => Ordered(h, 0, most)'
    BY <1>1, <2>1, <2>2, <2>3, KeepsOrdered DEF InOrder
  <2>6. /\ Ordered(h, born[h], timestamp[h])'
        /\ h \notin overlap => Ordered(h, 0, used[h])'
    BY <2>1, <2>3, <2>4, <2>5 DEF Ordered
  <2> QED
    BY <1>1, <2>1, <2>6 DEF InOrder
<1>9. CASE NextMillisecond(h)
  <2>1. Finish(h, clock[h], 0) /\ ~waiting'[h] /\ clock[h] > timestamp[h]
    BY <1>9 DEF NextMillisecond, TypeOK
  <2> QED
    BY <1>1, <1>2, <2>1, FinishInOrder
<1>10. CASE ClockChanges(h)
  <2>1. UNCHANGED Of(h)
    BY <1>10 DEF ClockChanges, Of
  <2> QED
    BY <1>3, <2>1
<1>11. CASE Restart(h)
  <2>1. /\ timestamp'[h] = 0 /\ ~waiting'[h] /\ issued'[h] = issued[h]
        /\ used'[h] = used[h] /\ born'[h] = Len(issued[h]) /\ overlap' = overlap
    BY <1>11 DEF Restart, TypeOK
  <2>2. Limit(h)' = maxSequence
    BY <2>1 DEF Limit
  <2>3. PICK most \in Int : most = used[h]
    BY <1>2
  <2>4. h \notin overlap => Ordered(h, 0, most)'
    BY <1>1, <2>1, <2>2, <2>3, KeepsOrdered DEF InOrder
  <2>5. h \notin overlap => Ordered(h, 0, used[h])'
    BY <2>1, <2>3, <2>4 DEF Ordered
  <2>6. Ordered(h, born[h], timestamp[h])'
    BY <1>2, <2>1 DEF Ordered
  <2>7. 0 <= used[h]
    BY Numbers
  <2> QED
    BY <1>2, <2>1, <2>5, <2>6, <2>7 DEF InOrder
<1>12. CASE UNCHANGED vars
  <2>1. UNCHANGED Of(h)
    BY <1>12 DEF vars, Of
  <2> QED
    BY <1>3, <2>1
<1> QED
  BY <1>4, <1>5, <1>6, <1>7, <1>8, <1>9, <1>10, <1>11, <1>12 DEF Next, NextID

LEMMA InitInOrder == Init => IncreaseInv
<1> SUFFICES ASSUME Init, NEW g \in Generators PROVE InOrder(g)
  BY DEF IncreaseInv
<1>1. /\ issued[g] = <<>> /\ timestamp[g] = 0 /\ used[g] = 0 /\ ~waiting[g]
      /\ born[g] = 0 /\ Len(<<>>) = 0
  BY DEF Init
<1> QED
  BY <1>1 DEF InOrder, Ordered

LEMMA InOrderAlways == Spec => [](TypeOK /\ IncreaseInv)
BY InitType, NextType, InitInOrder, NextInOrder, PTL DEF Spec

\* The ids of one process grow from each to the next, whatever its clock does and whatever
\* ran on the machine before it, for all widths and any number of ids.
THEOREM ProcessIdsAreIncreasing == Spec => []ProcessIdsIncrease
<1>1. TypeOK /\ IncreaseInv => ProcessIdsIncrease
  <2> SUFFICES ASSUME TypeOK, IncreaseInv, NEW g \in Generators, NEW j \in DOMAIN issued[g],
                      NEW i \in born[g] + 1 .. j - 1
               PROVE  issued[g][i] < issued[g][j]
    BY DEF ProcessIdsIncrease
  <2>1. Ordered(g, born[g], timestamp[g])
    BY DEF IncreaseInv, InOrder
  <2>2. j \in born[g] + 1 .. Len(issued[g])
    BY Numbers
  <2> QED
    BY <2>1, <2>2 DEF Ordered
<1> QED
  BY <1>1, InOrderAlways, PTL

\* The ids of a machine grow over all its processes while each finds the clock past every
\* millisecond used before it.
THEOREM IdsAreIncreasing == Spec => []IdsIncrease
<1>1. TypeOK /\ IncreaseInv => IdsIncrease
  <2> SUFFICES ASSUME TypeOK, IncreaseInv, NEW g \in Generators \ overlap,
                      NEW j \in DOMAIN issued[g], NEW i \in 1 .. j - 1
               PROVE  issued[g][i] < issued[g][j]
    BY DEF IdsIncrease
  <2>1. Ordered(g, 0, used[g])
    BY DEF IncreaseInv, InOrder
  <2>2. j \in 0 + 1 .. Len(issued[g]) /\ i \in 0 + 1 .. j - 1
    BY Numbers
  <2> QED
    BY <2>1, <2>2 DEF Ordered
<1> QED
  BY <1>1, InOrderAlways, PTL

-----------------------------------------------------------------------------
(* Ids tell where and when they were made *)

\* As Stamped, with the parts that were put together on record.
Matches(g, id, parts) ==
    \E d \in Nat, s \in Seqs :
        /\ id = Assemble(d, machineID[g], s)
        /\ parts = [sequence |-> s, machineID |-> machineID[g], timestamp |-> d + epoch]

Dated ==
    \A g \in Generators :
        /\ Len(made[g]) = Len(issued[g])
        /\ \A i \in DOMAIN issued[g] : Matches(g, issued[g][i], made[g][i])

LEMMA FinishDated ==
    ASSUME TypeOK, Dated, NEW g \in Generators, NEW seq \in Seqs, Finish(g, clock[g], seq)
    PROVE  Dated'
<1> SUFFICES ASSUME NEW h \in Generators
             PROVE  /\ Len(made'[h]) = Len(issued'[h])
                    /\ \A i \in DOMAIN issued'[h] : Matches(h, issued'[h][i], made'[h][i])
  BY DEF Dated, Matches
<1>1. /\ clock[g] \in Int /\ epoch \in Int
      /\ issued[g] \in Seq(Nat) /\ made[g] \in Seq(Parts)
  BY TimeAssumption DEF TypeOK
<1>2. /\ Len(made[h]) = Len(issued[h])
      /\ \A i \in DOMAIN issued[h] : Matches(h, issued[h][i], made[h][i])
  BY DEF Dated
<1>3. CASE h # g \/ clock[g] < epoch
  <2>1. issued'[h] = issued[h] /\ made'[h] = made[h]
    BY <1>3 DEF TypeOK, Finish
  <2> QED
    BY <1>2, <2>1
<1>4. CASE h = g /\ ~(clock[g] < epoch)
  <2> DEFINE id == Assemble(clock[g] - epoch, machineID[g], seq)
             parts == [sequence |-> seq, machineID |-> machineID[g], timestamp |-> clock[g]]
  <2>1. clock[g] - epoch \in Nat /\ (clock[g] - epoch) + epoch = clock[g]
    BY <1>1, <1>4
  <2>2. issued'[g] = Append(issued[g], id) /\ made'[g] = Append(made[g], parts)
    BY <1>4 DEF TypeOK, Finish
  <2>3. Matches(g, id, parts)
    BY <2>1 DEF Matches
  <2> HIDE DEF id, parts
  <2>4. /\ Len(issued'[g]) = Len(issued[g]) + 1 /\ Len(made'[g]) = Len(made[g]) + 1
        /\ Len(issued[g]) \in Nat
    BY <1>1, <2>2
  <2>5. ASSUME NEW i \in DOMAIN issued'[g] PROVE Matches(g, issued'[g][i], made'[g][i])
    <3>1. i \in 1 .. Len(issued[g]) + 1 /\ Len(made[g]) = Len(issued[g])
      BY <1>1, <1>2, <1>4, <2>2, <2>4
    <3>2. CASE i = Len(issued[g]) + 1
      <4>1. issued'[g][i] = id /\ made'[g][i] = parts
        BY <1>1, <2>2, <3>1, <3>2
      <4> QED
        BY <2>3, <4>1
    <3>3. CASE i \in 1 .. Len(issued[g])
      <4>1. issued'[g][i] = issued[g][i] /\ made'[g][i] = made[g][i] /\ i \in DOMAIN issued[g]
        BY <1>1, <2>2, <3>1, <3>3
      <4> QED
        BY <1>2, <1>4, <4>1
    <3> QED
      BY <2>4, <3>1, <3>2, <3>3
  <2> QED
    BY <1>2, <1>4, <2>4, <2>5
<1> QED
  BY <1>3, <1>4

LEMMA NextDated == TypeOK /\ Dated /\ [Next]_vars => Dated'
<1> SUFFICES ASSUME TypeOK, Dated, [Next]_vars PROVE Dated'
  OBVIOUS
<1>1. 0 \in Seqs
  BY WidthAssumption DEF Seqs
<1>2. ASSUME NEW g \in Generators, NewMillisecond(g) PROVE Dated'
  BY <1>1, <1>2, FinishDated DEF NewMillisecond
<1>3. ASSUME NEW g \in Generators, SameMillisecond(g) PROVE Dated'
  <2>1. Successor(sequence[g]) \in Seqs
    BY Numbers, SuccessorIs
  <2> QED
    BY <1>3, <2>1, FinishDated DEF SameMillisecond
<1>4. ASSUME NEW g \in Generators, NextMillisecond(g) PROVE Dated'
  BY <1>1, <1>4, FinishDated DEF NextMillisecond
<1>5. ASSUME issued' = issued, made' = made PROVE Dated'
  BY <1>5 DEF Dated, Matches
<1> QED
  BY <1>2, <1>3, <1>4, <1>5
     DEF Next, NextID, ClockBehind, Exhausted, ClockChanges, Restart, vars, history

LEMMA DatedParses == Dated => IdsParse
<1> SUFFICES ASSUME Dated, NEW g \in Generators, NEW i \in DOMAIN issued[g]
             PROVE  ParseSnowflakeID(issued[g][i]) = made[g][i]
  BY DEF IdsParse, Dated
<1>1. machineID[g] \in Machine
  BY MachineAssumption DEF Machine
<1>2. PICK d \in Nat, s \in Seqs :
         /\ issued[g][i] = Assemble(d, machineID[g], s)
         /\ made[g][i] = [sequence |-> s, machineID |-> machineID[g], timestamp |-> d + epoch]
  BY DEF Dated, Matches
<1>3. ParseSnowflakeID(issued[g][i])
         = [sequence |-> s, machineID |-> machineID[g], timestamp |-> d + epoch]
  BY <1>1, <1>2, ParseAssemble
<1> QED
  BY <1>2, <1>3

\* An id parses to the machine, the millisecond and the number it was made from, for all
\* widths of its parts, whatever clocks and restarts do.
THEOREM IdsAreParsed == Spec => []IdsParse
<1>1. Init => Dated
  <2> SUFFICES ASSUME Init, NEW g \in Generators
               PROVE  /\ Len(made[g]) = Len(issued[g])
                      /\ \A i \in DOMAIN issued[g] : Matches(g, issued[g][i], made[g][i])
    BY DEF Dated
  <2>1. issued[g] = <<>> /\ made[g] = <<>>
    BY DEF Init
  <2> QED
    BY <2>1
<1> QED
  BY <1>1, NextDated, TypeCorrect, DatedParses, PTL DEF Spec
=============================================================================
