------------------------- MODULE SessionBatchProofs -------------------------
(***************************************************************************)
(* Theorems about SessionBatch, for every number of users, any size of the *)
(* channel and the batches, and every kind of fault.                       *)
(***************************************************************************)
EXTENDS SessionBatch, FiniteSetTheorems, SequenceTheorems, TLAPS

-----------------------------------------------------------------------------
(* Types but for the two counters of main *)

States == {"create", "send", "succeed", "fail", "release", "done", "ended"}

Shape ==
    /\ main \in {"ping", "spawn", "join", "done", "refused"}
    /\ spawned \in 0 .. userCount
    /\ goroutine \in [Users -> States]
    /\ issued \subseteq Users
    /\ tokenChan \in Seq(Users) /\ Len(tokenChan) <= Capacity
    /\ closed \in BOOLEAN
    /\ successCount \in Nat /\ failCount \in Nat
    /\ writer \in {"create", "write", "gave_up", "finished"}
    /\ count \in Nat
    /\ buffer \in Seq(Users)
    /\ file \in Seq(Users)
    /\ dropped \subseteq Users

LEMMA InitShape == Init => Shape
<1> SUFFICES ASSUME Init PROVE Shape
  OBVIOUS
<1>1. <<>> \in Seq(Users) /\ Len(<<>>) = 0
  OBVIOUS
<1>2. Capacity \in Nat
  BY SizeAssumption DEF Capacity
<1>3. goroutine \in [Users -> States] /\ spawned \in 0 .. userCount
  BY CountAssumption DEF Init, States
<1>4. issued \subseteq Users /\ dropped \subseteq Users /\ closed \in BOOLEAN
  BY DEF Init
<1> QED
  BY <1>1, <1>2, <1>3, <1>4 DEF Init, Shape

\* A part of a sequence of tokens.
LEMMA PartType ==
    ASSUME NEW lines \in Seq(Users), NEW written \in 0 .. Len(lines)
    PROVE  /\ SubSeq(lines, 1, written) \in Seq(Users)
           /\ SubSeq(lines, written + 1, Len(lines)) \in Seq(Users)
<1>1. \A i \in 1 .. Len(lines) : lines[i] \in Users
  OBVIOUS
<1> QED
  BY <1>1, SubSeqProperties

LEMMA TokensType == \A s \in Seq(Users) : Tokens(s) \subseteq Users
BY DEF Tokens

LEMMA WriteType ==
    ASSUME NEW lines \in Seq(Users), Write(lines), file \in Seq(Users), dropped \subseteq Users
    PROVE  file' \in Seq(Users) /\ dropped' \subseteq Users
<1>1. PICK written \in 0 .. Len(lines) :
         /\ file' = file \o SubSeq(lines, 1, written)
         /\ dropped' = dropped \cup Tokens(SubSeq(lines, written + 1, Len(lines)))
  BY DEF Write
<1>2. /\ SubSeq(lines, 1, written) \in Seq(Users)
      /\ SubSeq(lines, written + 1, Len(lines)) \in Seq(Users)
  BY PartType
<1>3. Tokens(SubSeq(lines, written + 1, Len(lines))) \subseteq Users
  BY <1>2, TokensType
<1> QED
  BY <1>1, <1>2, <1>3

\* What a goroutine does to the program counters.
LEMMA StepType ==
    ASSUME Shape, NEW i \in Users, NEW from, NEW to \in States, Step(i, from, to)
    PROVE  goroutine' \in [Users -> States]
BY DEF Shape, Step

LEMMA NextShape == Shape /\ [Next]_vars => Shape'
<1> SUFFICES ASSUME Shape, [Next]_vars PROVE Shape'
  OBVIOUS
<1> USE CountAssumption DEF workers, output
<1>1. CASE Ping
  BY <1>1 DEF Shape, Ping
<1>2. CASE Spawn
  <2>1. spawned + 1 \in Users /\ spawned + 1 \in 0 .. userCount
    BY <1>2 DEF Shape, Spawn, Users
  <2> QED
    BY <1>2, <2>1 DEF Shape, Spawn, States
<1>3. CASE CloseChannel
  BY <1>3 DEF Shape, CloseChannel
<1>4. CASE Join
  BY <1>4 DEF Shape, Join
<1>5. ASSUME NEW i \in Users, CreateSession(i) PROVE Shape'
  <2>1. goroutine' \in [Users -> States]
    BY <1>5, StepType DEF CreateSession, States
  <2> QED
    BY <1>5, <2>1 DEF Shape, CreateSession
<1>6. ASSUME NEW i \in Users, SendToken(i) PROVE Shape'
  <2>1. goroutine' \in [Users -> States]
    BY <1>6, StepType DEF SendToken, States
  <2>2. tokenChan' = Append(tokenChan, i) /\ Len(tokenChan) < Capacity
    BY <1>6 DEF SendToken
  <2>3. Capacity \in Nat /\ tokenChan \in Seq(Users)
    BY SizeAssumption DEF Capacity, Shape
  <2>4. tokenChan' \in Seq(Users) /\ Len(tokenChan') <= Capacity
    BY <2>2, <2>3
  <2> QED
    BY <1>6, <2>1, <2>4 DEF Shape, SendToken
<1>7. ASSUME NEW i \in Users, Tally(i) PROVE Shape'
  <2>1. goroutine' \in [Users -> States]
    BY <1>7, StepType DEF Tally, States
  <2> QED
    BY <1>7, <2>1 DEF Shape, Tally
<1>8. ASSUME NEW i \in Users, Release(i) PROVE Shape'
  <2>1. goroutine' \in [Users -> States]
    BY <1>8, StepType DEF Release, States
  <2> QED
    BY <1>8, <2>1 DEF Shape, Release
<1>9. ASSUME NEW i \in Users, Done(i) PROVE Shape'
  <2>1. goroutine' \in [Users -> States]
    BY <1>9, StepType DEF Done, States
  <2> QED
    BY <1>9, <2>1 DEF Shape, Done
<1>10. CASE CreateFiles
  BY <1>10 DEF Shape, CreateFiles
<1>11. CASE TakeToken
  <2> DEFINE lines == Append(buffer, Head(tokenChan))
  <2>1. tokenChan \in Seq(Users) /\ tokenChan # <<>> /\ buffer \in Seq(Users)
        /\ Capacity \in Nat /\ Len(tokenChan) <= Capacity
    BY <1>11, SizeAssumption DEF TakeToken, Shape, Capacity
  <2>2. /\ lines \in Seq(Users) /\ Tail(tokenChan) \in Seq(Users)
        /\ Len(Tail(tokenChan)) <= Capacity
    BY <2>1
  <2>3. /\ UNCHANGED <<main, spawned, workers, closed, writer>>
        /\ tokenChan' = Tail(tokenChan) /\ count' = count + 1
        /\ \/ Write(lines) /\ buffer' = <<>>
           \/ buffer' = lines /\ UNCHANGED <<file, dropped>>
    BY <1>11 DEF TakeToken
  <2> HIDE DEF lines
  <2>4. file' \in Seq(Users) /\ dropped' \subseteq Users /\ buffer' \in Seq(Users)
    <3>1. <<>> \in Seq(Users) /\ file \in Seq(Users) /\ dropped \subseteq Users
      BY DEF Shape
    <3>2. CASE Write(lines) /\ buffer' = <<>>
      BY <2>2, <3>1, <3>2, WriteType
    <3>3. CASE buffer' = lines /\ UNCHANGED <<file, dropped>>
      BY <2>2, <3>1, <3>3
    <3> QED
      BY <2>3, <3>2, <3>3
  <2>5. /\ main' = main /\ spawned' = spawned /\ goroutine' = goroutine /\ issued' = issued
        /\ closed' = closed /\ successCount' = successCount /\ failCount' = failCount
        /\ writer' = writer /\ count' = count + 1 /\ tokenChan' = Tail(tokenChan)
        /\ Capacity' = Capacity
    BY <2>3 DEF Capacity
  <2>6. tokenChan' \in Seq(Users) /\ Len(tokenChan') <= Capacity
    BY <2>2, <2>5
  <2> QED
    BY <2>4, <2>5, <2>6 DEF Shape
<1>12. CASE Finish
  <2>1. Write(buffer) /\ buffer' = <<>> /\ writer' = "finished"
        /\ UNCHANGED <<main, spawned, workers, tokenChan, closed, count>>
    BY <1>12 DEF Finish
  <2>2. file' \in Seq(Users) /\ dropped' \subseteq Users
    BY <2>1, WriteType DEF Shape
  <2> QED
    BY <2>1, <2>2 DEF Shape
<1>13. CASE UNCHANGED vars
  BY <1>13 DEF Shape, vars
<1> QED
  BY <1>1, <1>2, <1>3, <1>4, <1>5, <1>6, <1>7, <1>8, <1>9, <1>10, <1>11, <1>12, <1>13
     DEF Next, MainStep, GoroutineStep, WriterStep

-----------------------------------------------------------------------------
(* The counters of main count goroutines *)

Active    == {i \in Users : goroutine[i] # "ended"}
Holders   == {i \in Users : goroutine[i] \notin {"done", "ended"}}
Succeeded == {i \in Users : i \in issued /\ goroutine[i] \notin {"send", "succeed"}}
Failed    == {i \in Users : /\ i <= spawned
                            /\ i \notin issued
                            /\ goroutine[i] \notin {"create", "fail"}}

\* A goroutine was given a token exactly when it has got to sending one.
Paths ==
    \A i \in Users :
        /\ i > spawned => goroutine[i] = "ended" /\ i \notin issued
        /\ goroutine[i] \in {"create", "fail"} => i \notin issued
        /\ goroutine[i] \in {"send", "succeed"} => i \in issued

Counted ==
    /\ wg = Cardinality(Active)
    /\ slots = Cardinality(Holders)
    /\ slots <= MaxParallel
    /\ successCount = Cardinality(Succeeded)
    /\ failCount = Cardinality(Failed)

\* When main has closed the channel no goroutine is left.
Stages ==
    /\ closed => main \in {"join", "done"}
    /\ main \in {"join", "done"} => spawned = userCount /\ Active = {}

CountInv == Shape /\ Paths /\ Counted /\ Stages

LEMMA UsersFinite ==
    /\ IsFiniteSet(Users) /\ Cardinality(Users) = userCount
    /\ \A S : S \subseteq Users => IsFiniteSet(S) /\ Cardinality(S) \in Nat
<1>1. IsFiniteSet(Users) /\ Cardinality(Users) = userCount
  BY CountAssumption, FS_Interval DEF Users
<1>2. ASSUME NEW S, S \subseteq Users PROVE IsFiniteSet(S) /\ Cardinality(S) \in Nat
  <2>1. IsFiniteSet(S)
    BY <1>1, <1>2, FS_Subset
  <2> QED
    BY <2>1, FS_CardinalityType
<1> QED
  BY <1>1, <1>2

\* One goroutine enters or leaves a set.
LEMMA Enters ==
    ASSUME NEW S, S \subseteq Users, NEW i \in Users, i \notin S
    PROVE  Cardinality(S \cup {i}) = Cardinality(S) + 1
BY UsersFinite, FS_AddElement

LEMMA Leaves ==
    ASSUME NEW S, S \subseteq Users, NEW i \in S
    PROVE  Cardinality(S \ {i}) = Cardinality(S) - 1
BY UsersFinite, FS_RemoveElement

LEMMA Subsets ==
    /\ Active \subseteq Users /\ Holders \subseteq Users
    /\ Succeeded \subseteq Users /\ Failed \subseteq Users
BY DEF Active, Holders, Succeeded, Failed

LEMMA InitCount == Init => CountInv
<1> SUFFICES ASSUME Init PROVE CountInv
  OBVIOUS
<1>1. Active = {} /\ Holders = {} /\ Succeeded = {} /\ Failed = {}
  <2>1. \A i \in Users : i >= 1
    BY CountAssumption DEF Users
  <2> QED
    BY <2>1 DEF Init, Active, Holders, Succeeded, Failed, Users
<1>2. Counted
  BY <1>1, FS_EmptySet, SizeAssumption DEF Init, Counted
<1> QED
  BY <1>2, InitShape DEF Init, CountInv, Paths, Stages

LEMMA NextCount == CountInv /\ [Next]_vars => CountInv'
<1> SUFFICES ASSUME CountInv, [Next]_vars PROVE CountInv'
  OBVIOUS
<1>1. Shape /\ Shape' /\ Paths /\ Counted /\ Stages
  BY NextShape DEF CountInv
<1> USE CountAssumption, SizeAssumption DEF workers
\* Steps that leave the goroutines alone.
<1>2. ASSUME UNCHANGED <<spawned, goroutine, issued>>
      PROVE  /\ Paths'
             /\ Active' = Active /\ Holders' = Holders
             /\ Succeeded' = Succeeded /\ Failed' = Failed
  BY <1>1, <1>2 DEF Paths, Active, Holders, Succeeded, Failed
<1>3. ASSUME UNCHANGED <<spawned, workers>>,
             Stages'
      PROVE  CountInv'
  BY <1>1, <1>2, <1>3 DEF CountInv, Counted
<1>4. CASE Ping
  <2>1. Stages'
    BY <1>1, <1>4 DEF Stages, Ping
  <2> QED
    BY <1>3, <1>4, <2>1 DEF Ping
<1>5. CASE Spawn
  <2> DEFINE i == spawned + 1
  <2>1. /\ i \in Users /\ spawned \in Nat /\ i > spawned
        /\ main = "spawn" /\ main' = main /\ closed' = closed
        /\ spawned' = i /\ slots < MaxParallel /\ slots' = slots + 1 /\ wg' = wg + 1
        /\ goroutine' = [goroutine EXCEPT ![i] = "create"]
        /\ issued' = issued /\ successCount' = successCount /\ failCount' = failCount
    BY <1>1, <1>5 DEF Spawn, Shape, Users
  <2>2. goroutine[i] = "ended" /\ i \notin issued
    BY <1>1, <2>1 DEF Paths
  <2>3. \A j \in Users : j \in Int /\ (j <= spawned' <=> j <= spawned \/ j = i)
    BY <2>1 DEF Users
  <2> HIDE DEF i
  <2>4. goroutine'[i] = "create" /\ \A j \in Users \ {i} : goroutine'[j] = goroutine[j]
    BY <1>1, <2>1 DEF Shape
  <2>5. /\ Active' = Active \cup {i} /\ i \notin Active
        /\ Holders' = Holders \cup {i} /\ i \notin Holders
        /\ Succeeded' = Succeeded /\ Failed' = Failed
    BY <2>1, <2>2, <2>3, <2>4 DEF Active, Holders, Succeeded, Failed
  <2>6. Paths'
    BY <1>1, <2>1, <2>2, <2>3, <2>4 DEF Paths
  <2>7. Cardinality(Active') = Cardinality(Active) + 1
        /\ Cardinality(Holders') = Cardinality(Holders) + 1
    BY <2>1, <2>5, Subsets, Enters
  <2>8. slots \in Int
    BY <1>1, Subsets, UsersFinite DEF Counted
  <2>9. Counted'
    BY <1>1, <2>1, <2>5, <2>7, <2>8 DEF Counted
  <2>10. Stages'
    BY <1>1, <2>1 DEF Stages
  <2> QED
    BY <1>1, <2>6, <2>9, <2>10 DEF CountInv
<1>6. CASE CloseChannel
  <2>1. Active = {}
    BY <1>1, <1>6, Subsets, UsersFinite, FS_EmptySet DEF CloseChannel, Counted
  <2>2. Stages'
    BY <1>1, <1>2, <1>6, <2>1 DEF Stages, CloseChannel
  <2> QED
    BY <1>3, <1>6, <2>2 DEF CloseChannel
<1>7. CASE Join
  <2>1. Stages'
    BY <1>1, <1>2, <1>7 DEF Stages, Join
  <2> QED
    BY <1>3, <1>7, <2>1 DEF Join
\* The steps of a goroutine, which is active before it.
<1>8. ASSUME NEW i \in Users, NEW from \in States \ {"ended"}, NEW to \in States,
             Step(i, from, to), UNCHANGED <<main, spawned, closed>>
      PROVE  /\ goroutine[i] = from /\ goroutine'[i] = to
             /\ \A j \in Users \ {i} : goroutine'[j] = goroutine[j]
             /\ Stages'
             /\ i <= spawned /\ spawned' = spawned
             /\ i \in Active
  <2>1. /\ goroutine[i] = from /\ goroutine'[i] = to
        /\ \A j \in Users \ {i} : goroutine'[j] = goroutine[j]
    BY <1>1, <1>8 DEF Shape, Step
  <2>2. i \in Active
    BY <1>8, <2>1 DEF Active
  <2>3. Stages'
    BY <1>1, <1>8, <2>2 DEF Stages
  <2>4. i <= spawned
    BY <1>1, <1>8, <2>1 DEF Paths, Shape, Users
  <2> QED
    BY <1>8, <2>1, <2>2, <2>3, <2>4
<1>9. ASSUME NEW i \in Users, CreateSession(i) PROVE CountInv'
  <2>1. CASE Step(i, "create", "send") /\ issued' = issued \cup {i}
    <3>1. /\ goroutine[i] = "create" /\ goroutine'[i] = "send" /\ i <= spawned
          /\ \A j \in Users \ {i} : goroutine'[j] = goroutine[j]
          /\ Stages' /\ spawned' = spawned
      BY <1>8, <1>9, <2>1 DEF CreateSession, States
    <3>2. /\ Active' = Active /\ Holders' = Holders
          /\ Succeeded' = Succeeded /\ Failed' = Failed
      BY <1>1, <2>1, <3>1 DEF Active, Holders, Succeeded, Failed, Paths
    <3>3. Paths'
      <4>1. i \in Int /\ spawned \in Int
        BY <1>1 DEF Users, Shape
      <4> QED
        BY <1>1, <2>1, <3>1, <4>1 DEF Paths
    <3> QED
      BY <1>1, <1>9, <3>1, <3>2, <3>3 DEF CreateSession, Counted, CountInv
  <2>2. CASE Step(i, "create", "fail") /\ issued' = issued
    <3>1. /\ goroutine[i] = "create" /\ goroutine'[i] = "fail" /\ i <= spawned
          /\ \A j \in Users \ {i} : goroutine'[j] = goroutine[j]
          /\ Stages' /\ spawned' = spawned
      BY <1>8, <1>9, <2>2 DEF CreateSession, States
    <3>2. /\ Active' = Active /\ Holders' = Holders
          /\ Succeeded' = Succeeded /\ Failed' = Failed
      BY <1>1, <2>2, <3>1 DEF Active, Holders, Succeeded, Failed, Paths
    <3>3. Paths'
      <4>1. i \in Int /\ spawned \in Int
        BY <1>1 DEF Users, Shape
      <4> QED
        BY <1>1, <2>2, <3>1, <4>1 DEF Paths
    <3> QED
      BY <1>1, <1>9, <3>1, <3>2, <3>3 DEF CreateSession, Counted, CountInv
  <2> QED
    BY <1>9, <2>1, <2>2 DEF CreateSession
<1>10. ASSUME NEW i \in Users, SendToken(i) PROVE CountInv'
  <2>1. /\ goroutine[i] = "send" /\ goroutine'[i] = "succeed" /\ i <= spawned
        /\ \A j \in Users \ {i} : goroutine'[j] = goroutine[j]
        /\ Stages' /\ spawned' = spawned
    BY <1>8, <1>10 DEF SendToken, States
  <2>2. issued' = issued
    BY <1>10 DEF SendToken
  <2>3. /\ Active' = Active /\ Holders' = Holders
        /\ Succeeded' = Succeeded /\ Failed' = Failed
    BY <1>1, <2>1, <2>2 DEF Active, Holders, Succeeded, Failed, Paths
  <2>4. Paths'
    BY <1>1, <2>1, <2>2 DEF Paths
  <2> QED
    BY <1>1, <1>10, <2>1, <2>3, <2>4 DEF SendToken, Counted, CountInv
<1>11. ASSUME NEW i \in Users, Tally(i) PROVE CountInv'
  <2>1. CASE Step(i, "succeed", "release") /\ successCount' = successCount + 1
             /\ failCount' = failCount
    <3>1. /\ goroutine[i] = "succeed" /\ goroutine'[i] = "release" /\ i <= spawned
          /\ \A j \in Users \ {i} : goroutine'[j] = goroutine[j]
          /\ Stages' /\ spawned' = spawned
      BY <1>8, <1>11, <2>1 DEF Tally, States
    <3>2. issued' = issued /\ i \in issued
      BY <1>1, <1>11, <3>1 DEF Tally, Paths
    <3>3. /\ Active' = Active /\ Holders' = Holders
          /\ Succeeded' = Succeeded \cup {i} /\ i \notin Succeeded /\ Failed' = Failed
      BY <3>1, <3>2 DEF Active, Holders, Succeeded, Failed
    <3>4. Cardinality(Succeeded') = Cardinality(Succeeded) + 1
      BY <3>3, Subsets, Enters
    <3>5. Paths'
      BY <1>1, <3>1, <3>2 DEF Paths
    <3> QED
      BY <1>1, <1>11, <2>1, <3>1, <3>3, <3>4, <3>5 DEF Tally, Counted, CountInv
  <2>2. CASE Step(i, "fail", "release") /\ failCount' = failCount + 1
             /\ successCount' = successCount
    <3>1. /\ goroutine[i] = "fail" /\ goroutine'[i] = "release" /\ i <= spawned
          /\ \A j \in Users \ {i} : goroutine'[j] = goroutine[j]
          /\ Stages' /\ spawned' = spawned
      BY <1>8, <1>11, <2>2 DEF Tally, States
    <3>2. issued' = issued /\ i \notin issued
      BY <1>1, <1>11, <3>1 DEF Tally, Paths
    <3>3. /\ Active' = Active /\ Holders' = Holders
          /\ Succeeded' = Succeeded /\ Failed' = Failed \cup {i} /\ i \notin Failed
      BY <3>1, <3>2 DEF Active, Holders, Succeeded, Failed
    <3>4. Cardinality(Failed') = Cardinality(Failed) + 1
      BY <3>3, Subsets, Enters
    <3>5. Paths'
      BY <1>1, <3>1, <3>2 DEF Paths
    <3> QED
      BY <1>1, <1>11, <2>2, <3>1, <3>3, <3>4, <3>5 DEF Tally, Counted, CountInv
  <2> QED
    BY <1>11, <2>1, <2>2 DEF Tally
<1>12. ASSUME NEW i \in Users, Release(i) PROVE CountInv'
  <2>1. /\ goroutine[i] = "release" /\ goroutine'[i] = "done" /\ i <= spawned
        /\ \A j \in Users \ {i} : goroutine'[j] = goroutine[j]
        /\ Stages' /\ spawned' = spawned
    BY <1>8, <1>12 DEF Release, States
  <2>2. issued' = issued
    BY <1>12 DEF Release
  <2>3. /\ Active' = Active /\ Holders' = Holders \ {i} /\ i \in Holders
        /\ Succeeded' = Succeeded /\ Failed' = Failed
    BY <2>1, <2>2 DEF Active, Holders, Succeeded, Failed
  <2>4. Cardinality(Holders') = Cardinality(Holders) - 1 /\ Cardinality(Holders) \in Nat
    BY <2>3, Subsets, Leaves, UsersFinite
  <2>5. Paths'
    BY <1>1, <2>1, <2>2 DEF Paths
  <2> QED
    BY <1>1, <1>12, <2>1, <2>3, <2>4, <2>5 DEF Release, Counted, CountInv
<1>13. ASSUME NEW i \in Users, Done(i) PROVE CountInv'
  <2>1. /\ goroutine[i] = "done" /\ goroutine'[i] = "ended" /\ i <= spawned
        /\ \A j \in Users \ {i} : goroutine'[j] = goroutine[j]
        /\ Stages' /\ spawned' = spawned
    BY <1>8, <1>13 DEF Done, States
  <2>2. issued' = issued
    BY <1>13 DEF Done
  <2>3. /\ Active' = Active \ {i} /\ i \in Active /\ Holders' = Holders
        /\ Succeeded' = Succeeded /\ Failed' = Failed
    BY <2>1, <2>2 DEF Active, Holders, Succeeded, Failed
  <2>4. Cardinality(Active') = Cardinality(Active) - 1
    BY <2>3, Subsets, Leaves
  <2>5. Paths'
    <3>1. i \in Int /\ spawned \in Int
      BY <1>1 DEF Users, Shape
    <3> QED
      BY <1>1, <2>1, <2>2, <3>1 DEF Paths
  <2> QED
    BY <1>1, <1>13, <2>1, <2>3, <2>4, <2>5 DEF Done, Counted, CountInv
<1>14. CASE WriterStep
  <2>1. UNCHANGED <<main, spawned, workers, closed>>
    BY <1>14 DEF WriterStep, CreateFiles, TakeToken, Finish
  <2>2. Stages'
    BY <1>1, <1>2, <2>1 DEF Stages
  <2> QED
    BY <1>3, <2>1, <2>2
<1>15. CASE UNCHANGED vars
  <2>1. UNCHANGED <<main, spawned, workers, closed>>
    BY <1>15 DEF vars
  <2>2. Stages'
    BY <1>1, <1>2, <2>1 DEF Stages
  <2> QED
    BY <1>3, <2>1, <2>2
<1> QED
  BY <1>4, <1>5, <1>6, <1>7, <1>9, <1>10, <1>11, <1>12, <1>13, <1>14, <1>15
     DEF Next, MainStep, GoroutineStep

LEMMA CountAlways == Spec => []CountInv
BY InitCount, NextCount, PTL DEF Spec

\* The state of the script stays well-typed, and the semaphore and the WaitGroup stay
\* within their limits, for every number of users.
THEOREM TypeCorrect == Spec => []TypeOK
<1>1. CountInv => TypeOK
  <2>1. ASSUME CountInv PROVE wg \in Nat /\ slots \in 0 .. MaxParallel
    BY <2>1, SizeAssumption, Subsets, UsersFinite DEF CountInv, Counted
  <2> QED
    BY <2>1 DEF CountInv, Shape, States, TypeOK
<1> QED
  BY <1>1, CountAlways, PTL

\* No goroutine sends, or is yet to, when main has closed the channel, for every number
\* of users.
THEOREM NobodySendsOnClosed == Spec => []NoSendOnClosed
<1>1. CountInv => NoSendOnClosed
  BY DEF CountInv, Stages, Active, NoSendOnClosed
<1> QED
  BY <1>1, CountAlways, PTL

-----------------------------------------------------------------------------
(* Where the tokens are *)

Distinct(s) == \A m, n \in DOMAIN s : s[m] = s[n] => m = n

LEMMA TokensConcat ==
    ASSUME NEW a \in Seq(Users), NEW b \in Seq(Users)
    PROVE  Tokens(a \o b) = Tokens(a) \cup Tokens(b)
<1> DEFINE ab == a \o b
<1>1. /\ ab \in Seq(Users) /\ Len(ab) = Len(a) + Len(b)
      /\ \A k \in 1 .. Len(a) + Len(b) : ab[k] = IF k <= Len(a) THEN a[k] ELSE b[k - Len(a)]
  BY ConcatProperties
<1>2. /\ DOMAIN a = 1 .. Len(a) /\ DOMAIN b = 1 .. Len(b) /\ DOMAIN ab = 1 .. Len(ab)
      /\ Len(a) \in Nat /\ Len(b) \in Nat
  BY <1>1
<1> HIDE DEF ab
<1>3. ASSUME NEW x \in Tokens(ab) PROVE x \in Tokens(a) \cup Tokens(b)
  <2>1. PICK k \in DOMAIN ab : x = ab[k]
    BY DEF Tokens
  <2>2. CASE k <= Len(a)
    BY <1>1, <1>2, <2>1, <2>2 DEF Tokens
  <2>3. CASE k > Len(a)
    <3>1. k - Len(a) \in DOMAIN b /\ x = b[k - Len(a)]
      BY <1>1, <1>2, <2>1, <2>3
    <3> QED
      BY <3>1 DEF Tokens
  <2> QED
    BY <1>1, <1>2, <2>1, <2>2, <2>3
<1>4. ASSUME NEW x \in Tokens(a) PROVE x \in Tokens(ab)
  <2>1. PICK k \in DOMAIN a : x = a[k]
    BY DEF Tokens
  <2>2. k \in DOMAIN ab /\ ab[k] = x
    BY <1>1, <1>2, <2>1
  <2> QED
    BY <2>2 DEF Tokens
<1>5. ASSUME NEW x \in Tokens(b) PROVE x \in Tokens(ab)
  <2>1. PICK k \in DOMAIN b : x = b[k]
    BY DEF Tokens
  <2>2. k + Len(a) \in DOMAIN ab /\ ab[k + Len(a)] = x
    BY <1>1, <1>2, <2>1
  <2> QED
    BY <2>2 DEF Tokens
<1> QED
  BY <1>3, <1>4, <1>5 DEF ab

LEMMA DistinctConcat ==
    ASSUME NEW a \in Seq(Users), NEW b \in Seq(Users)
    PROVE  Distinct(a \o b) <=> Distinct(a) /\ Distinct(b) /\ Tokens(a) \cap Tokens(b) = {}
<1> DEFINE ab == a \o b
<1>1. /\ ab \in Seq(Users) /\ Len(ab) = Len(a) + Len(b)
      /\ \A k \in 1 .. Len(a) + Len(b) : ab[k] = IF k <= Len(a) THEN a[k] ELSE b[k - Len(a)]
  BY ConcatProperties
<1>2. /\ DOMAIN a = 1 .. Len(a) /\ DOMAIN b = 1 .. Len(b) /\ DOMAIN ab = 1 .. Len(ab)
      /\ Len(a) \in Nat /\ Len(b) \in Nat
  BY <1>1
<1>3. /\ \A k \in DOMAIN a : k \in DOMAIN ab /\ ab[k] = a[k]
      /\ \A k \in DOMAIN b : k + Len(a) \in DOMAIN ab /\ ab[k + Len(a)] = b[k]
  BY <1>1, <1>2
<1> HIDE DEF ab
<1>4. ASSUME Distinct(ab) PROVE Distinct(a) /\ Distinct(b) /\ Tokens(a) \cap Tokens(b) = {}
  <2>1. Distinct(a)
    BY <1>3, <1>4 DEF Distinct
  <2>2. ASSUME NEW m \in DOMAIN b, NEW n \in DOMAIN b, b[m] = b[n] PROVE m = n
    <3>1. m + Len(a) = n + Len(a)
      BY <1>3, <1>4, <2>2 DEF Distinct
    <3> QED
      BY <1>2, <3>1
  <2>3. ASSUME NEW m \in DOMAIN a, NEW n \in DOMAIN b, a[m] = b[n] PROVE FALSE
    <3>1. m = n + Len(a)
      BY <1>3, <1>4, <2>3 DEF Distinct
    <3> QED
      BY <1>2, <3>1
  <2> QED
    BY <2>1, <2>2, <2>3 DEF Distinct, Tokens
<1>5. ASSUME Distinct(a), Distinct(b), Tokens(a) \cap Tokens(b) = {} PROVE Distinct(ab)
  <2> SUFFICES ASSUME NEW m \in DOMAIN ab, NEW n \in DOMAIN ab, ab[m] = ab[n] PROVE m = n
    BY DEF Distinct
  <2>1. \A k \in DOMAIN a, l \in DOMAIN b : a[k] # b[l]
    BY <1>5 DEF Tokens
  <2>2. \A k \in DOMAIN ab :
           \/ k \in DOMAIN a /\ ab[k] = a[k]
           \/ k - Len(a) \in DOMAIN b /\ ab[k] = b[k - Len(a)]
    BY <1>1, <1>2
  <2>3. CASE m \in DOMAIN a /\ ab[m] = a[m] /\ n \in DOMAIN a /\ ab[n] = a[n]
    BY <1>5, <2>3 DEF Distinct
  <2>4. CASE /\ m - Len(a) \in DOMAIN b /\ ab[m] = b[m - Len(a)]
             /\ n - Len(a) \in DOMAIN b /\ ab[n] = b[n - Len(a)]
    <3>1. m - Len(a) = n - Len(a)
      BY <1>5, <2>4 DEF Distinct
    <3> QED
      BY <1>1, <1>2, <3>1
  <2> QED
    BY <2>1, <2>2, <2>3, <2>4
<1> QED
  BY <1>4, <1>5 DEF ab

LEMMA SingleToken ==
    ASSUME NEW i \in Users
    PROVE  <<i>> \in Seq(Users) /\ Tokens(<<i>>) = {i} /\ Distinct(<<i>>)
BY DEF Tokens, Distinct

\* A new token at the end.
LEMMA OneMore ==
    ASSUME NEW s \in Seq(Users), NEW i \in Users, Distinct(s), i \notin Tokens(s)
    PROVE  Tokens(s \o <<i>>) = Tokens(s) \cup {i} /\ Distinct(s \o <<i>>)
<1>1. <<i>> \in Seq(Users) /\ Tokens(<<i>>) = {i} /\ Distinct(<<i>>)
  BY SingleToken
<1>2. Tokens(s \o <<i>>) = Tokens(s) \cup Tokens(<<i>>)
  BY <1>1, TokensConcat
<1>3. Tokens(s) \cap Tokens(<<i>>) = {}
  BY <1>1
<1>4. Distinct(s \o <<i>>) <=> Distinct(s) /\ Distinct(<<i>>) /\ Tokens(s) \cap Tokens(<<i>>) = {}
  BY <1>1, DistinctConcat
<1> QED
  BY <1>1, <1>2, <1>3, <1>4

LEMMA NoToken == <<>> \in Seq(Users) /\ Tokens(<<>>) = {} /\ Distinct(<<>>)
BY DEF Tokens, Distinct

\* A Write that breaks off cuts the lines in two.
LEMMA Cut ==
    ASSUME NEW lines \in Seq(Users), NEW written \in 0 .. Len(lines)
    PROVE  lines = SubSeq(lines, 1, written) \o SubSeq(lines, written + 1, Len(lines))
<1>1. /\ 1 \in 1 .. Len(lines) + 1 /\ written \in 1 - 1 .. Len(lines)
      /\ Len(lines) \in written .. Len(lines)
  OBVIOUS
<1>2. SubSeq(lines, 1, written) \o SubSeq(lines, written + 1, Len(lines))
         = SubSeq(lines, 1, Len(lines))
  BY <1>1, ConcatAdjacentSubSeq
<1> QED
  BY <1>2, SubSeqFull

\* The tokens of a Write are in the file or lost.
LEMMA WriteTokens ==
    ASSUME NEW lines \in Seq(Users), Distinct(lines), Write(lines),
           file \in Seq(Users), Distinct(file), Tokens(lines) \cap Tokens(file) = {}
    PROVE  /\ Distinct(file')
           /\ \E kept, lost \in SUBSET Tokens(lines) :
                 /\ kept \cup lost = Tokens(lines) /\ kept \cap lost = {}
                 /\ Tokens(file') = Tokens(file) \cup kept
                 /\ dropped' = dropped \cup lost
<1>1. PICK written \in 0 .. Len(lines) :
         /\ file' = file \o SubSeq(lines, 1, written)
         /\ dropped' = dropped \cup Tokens(SubSeq(lines, written + 1, Len(lines)))
  BY DEF Write
<1> DEFINE a == SubSeq(lines, 1, written)
           b == SubSeq(lines, written + 1, Len(lines))
<1>2. a \in Seq(Users) /\ b \in Seq(Users) /\ lines = a \o b
  BY PartType, Cut
<1>3. file' = file \o a /\ dropped' = dropped \cup Tokens(b)
  BY <1>1
<1> HIDE DEF a, b
<1>4. /\ Tokens(lines) = Tokens(a) \cup Tokens(b)
      /\ Distinct(a) /\ Tokens(a) \cap Tokens(b) = {}
  BY <1>2, TokensConcat, DistinctConcat
<1>5. Distinct(file') /\ Tokens(file') = Tokens(file) \cup Tokens(a)
  BY <1>2, <1>3, <1>4, TokensConcat, DistinctConcat
<1> QED
  BY <1>3, <1>4, <1>5

Disjoint(S, T) == S \cap T = {}

TokenInv ==
    /\ Distinct(file) /\ Distinct(buffer) /\ Distinct(tokenChan)
    /\ Tokens(file) \cup Tokens(buffer) \cup Tokens(tokenChan) \cup dropped \cup Sending = issued
    /\ Disjoint(Tokens(file), Tokens(buffer) \cup Tokens(tokenChan) \cup dropped \cup Sending)
    /\ Disjoint(Tokens(buffer), Tokens(tokenChan) \cup dropped \cup Sending)
    /\ Disjoint(Tokens(tokenChan), dropped \cup Sending)
    /\ Disjoint(dropped, Sending)
    /\ writer = "finished" => closed /\ tokenChan = <<>> /\ buffer = <<>>

LEMMA InitTokens == Init => TokenInv
<1> SUFFICES ASSUME Init PROVE TokenInv
  OBVIOUS
<1>1. Sending = {}
  BY DEF Init, Sending
<1> QED
  BY <1>1, NoToken DEF Init, TokenInv, Disjoint

LEMMA NextTokens == CountInv /\ TokenInv /\ [Next]_vars => TokenInv'
<1> SUFFICES ASSUME CountInv, TokenInv, [Next]_vars PROVE TokenInv'
  OBVIOUS
<1> USE DEF workers, output
<1>1. Shape /\ Paths /\ Stages
  BY DEF CountInv
<1>2. file \in Seq(Users) /\ buffer \in Seq(Users) /\ tokenChan \in Seq(Users)
  BY <1>1 DEF Shape
<1>3. ASSUME UNCHANGED <<file, buffer, tokenChan, dropped, issued>>, Sending' = Sending,
             writer' = "finished" => writer = "finished", closed => closed'
      PROVE  TokenInv'
  BY <1>3 DEF TokenInv, Tokens, Distinct
<1>4. CASE MainStep
  <2>1. UNCHANGED <<file, buffer, tokenChan, dropped, issued, writer>> /\ (closed => closed')
    BY <1>4 DEF MainStep, Ping, Spawn, CloseChannel, Join
  <2>2. Sending' = Sending
    <3>1. CASE Spawn
      <4>1. spawned + 1 \in Users /\ spawned + 1 > spawned
        BY <1>1, <3>1, CountAssumption DEF Spawn, Shape, Users
      <4>2. goroutine[spawned + 1] = "ended"
        BY <1>1, <4>1 DEF Paths
      <4>3. goroutine' = [goroutine EXCEPT ![spawned + 1] = "create"]
        BY <3>1 DEF Spawn
      <4> QED
        BY <1>1, <4>1, <4>2, <4>3 DEF Shape, Sending
    <3>2. CASE ~Spawn
      BY <1>4, <3>2 DEF MainStep, Ping, CloseChannel, Join, Sending
    <3> QED
      BY <3>1, <3>2
  <2> QED
    BY <1>3, <2>1, <2>2
\* What a step of a goroutine does to the set of those about to send.
<1>5. ASSUME NEW i \in Users, NEW from, NEW to, Step(i, from, to)
      PROVE  /\ goroutine[i] = from
             /\ from # "send" /\ to # "send" => Sending' = Sending
             /\ from # "send" /\ to = "send" => Sending' = Sending \cup {i}
             /\ from = "send" /\ to # "send" => i \in Sending /\ Sending' = Sending \ {i}
  <2>1. /\ goroutine[i] = from /\ goroutine'[i] = to
        /\ \A j \in Users \ {i} : goroutine'[j] = goroutine[j]
    BY <1>1, <1>5 DEF Shape, Step
  <2> QED
    BY <2>1 DEF Sending
<1>6. ASSUME NEW i \in Users, CreateSession(i) PROVE TokenInv'
  <2>1. CASE Step(i, "create", "send") /\ issued' = issued \cup {i}
    <3>1. goroutine[i] = "create" /\ Sending' = Sending \cup {i}
      BY <1>5, <2>1
    <3>2. i \notin issued
      BY <1>1, <3>1 DEF Paths
    <3>3. UNCHANGED <<file, buffer, tokenChan, dropped, writer, closed>>
      BY <1>6 DEF CreateSession
    <3>4. UNCHANGED <<Tokens(file), Tokens(buffer), Tokens(tokenChan),
                      Distinct(file), Distinct(buffer), Distinct(tokenChan)>>
      BY <3>3 DEF Tokens, Distinct
    <3> QED
      BY <2>1, <3>1, <3>2, <3>3, <3>4 DEF TokenInv, Disjoint
  <2>2. CASE Step(i, "create", "fail") /\ issued' = issued
    <3>1. Sending' = Sending
      BY <1>5, <2>2
    <3> QED
      BY <1>3, <1>6, <2>2, <3>1 DEF CreateSession
  <2> QED
    BY <1>6, <2>1, <2>2 DEF CreateSession
<1>7. ASSUME NEW i \in Users, SendToken(i) PROVE TokenInv'
  <2>1. /\ goroutine[i] = "send" /\ i \in Sending /\ Sending' = Sending \ {i}
        /\ UNCHANGED <<file, buffer, dropped, issued, writer, closed>>
    BY <1>5, <1>7 DEF SendToken
  <2>2. tokenChan' = tokenChan \o <<i>>
    BY <1>2, <1>7 DEF SendToken
  <2>3. i \notin Tokens(tokenChan)
    BY <2>1 DEF TokenInv, Disjoint
  <2>4. Tokens(tokenChan') = Tokens(tokenChan) \cup {i} /\ Distinct(tokenChan')
    <3>1. Distinct(tokenChan)
      BY DEF TokenInv
    <3> QED
      BY <1>2, <2>2, <2>3, <3>1, OneMore
  <2>5. UNCHANGED <<Tokens(file), Tokens(buffer), Distinct(file), Distinct(buffer)>>
    BY <2>1 DEF Tokens, Distinct
  <2>6. writer # "finished"
    <3>1. ~closed
      BY <1>1, <2>1 DEF Stages, Active
    <3> QED
      BY <3>1 DEF TokenInv
  <2> QED
    BY <2>1, <2>4, <2>5, <2>6 DEF TokenInv, Disjoint
<1>8. ASSUME NEW i \in Users, Tally(i) \/ Release(i) \/ Done(i) PROVE TokenInv'
  <2>1. Sending' = Sending
    BY <1>5, <1>8 DEF Tally, Release, Done
  <2> QED
    BY <1>3, <1>8, <2>1 DEF Tally, Release, Done
<1>9. CASE CreateFiles
  <2>1. Sending' = Sending
    BY <1>9 DEF CreateFiles, Sending
  <2> QED
    BY <1>3, <1>9, <2>1 DEF CreateFiles
\* What the tokens of a Write become, when the buffer is empty after it.
<1>10. ASSUME NEW lines \in Seq(Users), Write(lines), Distinct(lines), buffer' = <<>>,
              UNCHANGED <<issued, goroutine>>,
              Tokens(lines) \cap Tokens(tokenChan') = {},
              Tokens(lines) \cup Tokens(tokenChan') = Tokens(buffer) \cup Tokens(tokenChan),
              Distinct(tokenChan'),
              writer' = "finished" => closed' /\ tokenChan' = <<>>
       PROVE  TokenInv'
  <2>1. Tokens(lines) \cap Tokens(file) = {}
    BY <1>10 DEF TokenInv, Disjoint
  <2>2. Distinct(file)
    BY DEF TokenInv
  <2>3. /\ Distinct(file')
        /\ \E kept, lost \in SUBSET Tokens(lines) :
              /\ kept \cup lost = Tokens(lines) /\ kept \cap lost = {}
              /\ Tokens(file') = Tokens(file) \cup kept
              /\ dropped' = dropped \cup lost
    BY <1>2, <1>10, <2>1, <2>2, WriteTokens
  <2>4. PICK kept, lost \in SUBSET Tokens(lines) :
              /\ kept \cup lost = Tokens(lines) /\ kept \cap lost = {}
              /\ Tokens(file') = Tokens(file) \cup kept
              /\ dropped' = dropped \cup lost
    BY <2>3
  <2>5. Tokens(buffer') = {} /\ Distinct(buffer')
    BY <1>10, NoToken
  <2>6. Sending' = Sending
    BY <1>10 DEF Sending
  <2>7. Tokens(file)' = Tokens(file') /\ Tokens(buffer)' = Tokens(buffer')
        /\ Tokens(tokenChan)' = Tokens(tokenChan')
        /\ Distinct(file)' = Distinct(file') /\ Distinct(buffer)' = Distinct(buffer')
        /\ Distinct(tokenChan)' = Distinct(tokenChan')
    BY DEF Tokens, Distinct
  <2> QED
    BY <1>10, <2>3, <2>4, <2>5, <2>6 DEF TokenInv, Disjoint
<1>11. CASE TakeToken
  <2> DEFINE lines == Append(buffer, Head(tokenChan))
             first == Head(tokenChan)
             rest == Tail(tokenChan)
  <2>1. /\ tokenChan # <<>> /\ tokenChan' = rest /\ writer = "write"
        /\ UNCHANGED <<issued, goroutine, closed, writer>>
        /\ \/ Write(lines) /\ buffer' = <<>>
           \/ buffer' = lines /\ UNCHANGED <<file, dropped>>
    BY <1>11 DEF TakeToken
  <2>2. /\ first \in Users /\ rest \in Seq(Users) /\ tokenChan = <<first>> \o rest
        /\ lines = buffer \o <<first>> /\ lines \in Seq(Users)
    BY <1>2, <2>1
  <2> HIDE DEF lines, first, rest
  <2>3. /\ Tokens(tokenChan) = {first} \cup Tokens(rest)
        /\ Distinct(rest) /\ first \notin Tokens(rest)
    <3>1. Distinct(tokenChan)
      BY DEF TokenInv
    <3>2. Distinct(<<first>> \o rest)
      BY <2>2, <3>1
    <3>3. Distinct(rest) /\ Tokens(<<first>>) \cap Tokens(rest) = {}
          /\ Tokens(<<first>> \o rest) = Tokens(<<first>>) \cup Tokens(rest)
      BY <2>2, <3>2, SingleToken, TokensConcat, DistinctConcat
    <3>4. Tokens(<<first>>) = {first}
      BY <2>2, SingleToken
    <3> QED
      BY <2>2, <3>3, <3>4
  <2>4. Tokens(lines) = Tokens(buffer) \cup {first} /\ Distinct(lines)
    <3>1. first \notin Tokens(buffer) /\ Distinct(buffer)
      BY <2>3 DEF TokenInv, Disjoint
    <3>2. Tokens(buffer \o <<first>>) = Tokens(buffer) \cup {first} /\ Distinct(buffer \o <<first>>)
      BY <1>2, <2>2, <3>1, OneMore
    <3> QED
      BY <2>2, <3>2
  <2>5. Tokens(lines) \cap Tokens(rest) = {}
    BY <2>3, <2>4 DEF TokenInv, Disjoint
  <2>6. Tokens(lines) \cup Tokens(rest) = Tokens(buffer) \cup Tokens(tokenChan)
    BY <2>3, <2>4
  <2>7. CASE Write(lines) /\ buffer' = <<>>
    BY <1>10, <2>1, <2>2, <2>3, <2>4, <2>5, <2>6, <2>7
  <2>8. CASE buffer' = lines /\ UNCHANGED <<file, dropped>>
    <3>1. Sending' = Sending /\ Tokens(file') = Tokens(file) /\ Distinct(file') = Distinct(file)
      BY <2>1, <2>8 DEF Sending
    <3>2. Tokens(buffer') = Tokens(lines) /\ Distinct(buffer')
          /\ Tokens(tokenChan') = Tokens(rest) /\ Distinct(tokenChan')
      BY <2>1, <2>3, <2>4, <2>8
    <3> QED
      BY <2>1, <2>3, <2>4, <2>5, <2>6, <2>8, <3>1, <3>2 DEF TokenInv, Disjoint
  <2> QED
    BY <2>1, <2>7, <2>8
<1>12. CASE Finish
  <2>1. /\ Write(buffer) /\ buffer' = <<>> /\ closed /\ closed' = closed
        /\ tokenChan = <<>> /\ tokenChan' = tokenChan /\ UNCHANGED <<issued, goroutine>>
    BY <1>12 DEF Finish
  <2>2. Distinct(buffer) /\ Distinct(tokenChan') /\ Tokens(tokenChan') = {}
    BY <2>1, NoToken DEF TokenInv
  <2>3. /\ Tokens(buffer) \cap Tokens(tokenChan') = {}
        /\ Tokens(buffer) \cup Tokens(tokenChan') = Tokens(buffer) \cup Tokens(tokenChan)
    BY <2>1, <2>2, NoToken
  <2> QED
    BY <1>2, <1>10, <2>1, <2>2, <2>3
<1>13. CASE UNCHANGED vars
  BY <1>3, <1>13 DEF vars, Sending
<1> QED
  BY <1>4, <1>6, <1>7, <1>8, <1>9, <1>11, <1>12, <1>13
     DEF Next, GoroutineStep, WriterStep

LEMMA TokensAlways == Spec => [](CountInv /\ TokenInv)
BY InitCount, InitTokens, NextCount, NextTokens, PTL DEF Spec

\* Every token a goroutine was given is in one place at any time and there once, unless
\* a Write that broke off lost it, for any sizes of the channel and the batches.
THEOREM TokensAreKept == Spec => []EveryTokenOnce
<1>1. ASSUME CountInv, TokenInv PROVE EveryTokenOnce
  <2> DEFINE fb == file \o buffer
             line == file \o buffer \o tokenChan
  <2>1. file \in Seq(Users) /\ buffer \in Seq(Users) /\ tokenChan \in Seq(Users)
    BY <1>1 DEF CountInv, Shape
  <2>2. /\ Distinct(file) /\ Distinct(buffer) /\ Distinct(tokenChan)
        /\ Tokens(file) \cap Tokens(buffer) = {}
        /\ (Tokens(file) \cup Tokens(buffer)) \cap Tokens(tokenChan) = {}
    BY <1>1 DEF TokenInv, Disjoint
  <2>3. /\ fb \in Seq(Users) /\ Tokens(fb) = Tokens(file) \cup Tokens(buffer) /\ Distinct(fb)
    BY <2>1, <2>2, ConcatProperties, TokensConcat, DistinctConcat
  <2>4. line = fb \o tokenChan
    OBVIOUS
  <2> HIDE DEF fb
  <2>5. Tokens(line) = Tokens(fb) \cup Tokens(tokenChan) /\ Distinct(line)
    BY <2>1, <2>2, <2>3, <2>4, TokensConcat, DistinctConcat
  <2>6. Tokens(line) = Tokens(file) \cup Tokens(buffer) \cup Tokens(tokenChan)
    BY <2>3, <2>5
  <2> HIDE DEF line
  <2>7. /\ Tokens(line) \cup dropped \cup Sending = issued
        /\ Tokens(line) \cap dropped = {}
        /\ (Tokens(line) \cup dropped) \cap Sending = {}
    BY <1>1, <2>6 DEF TokenInv, Disjoint
  <2>8. \A m, n \in DOMAIN line : line[m] = line[n] => m = n
    BY <2>5 DEF Distinct
  <2> QED
    BY <2>7, <2>8 DEF EveryTokenOnce, line
<1> QED
  BY <1>1, TokensAlways, PTL

\* A writer that has not got its files has written nothing, and main waits for the writer.
EndInv ==
    /\ writer \in {"create", "gave_up"} => file = <<>> /\ dropped = {}
    /\ main = "done" => writer \in {"gave_up", "finished"}

LEMMA NextEnd == EndInv /\ [Next]_vars => EndInv'
<1> SUFFICES ASSUME EndInv, [Next]_vars PROVE EndInv'
  OBVIOUS
<1> USE DEF EndInv, workers, output
<1>1. CASE MainStep
  BY <1>1 DEF MainStep, Ping, Spawn, CloseChannel, Join
<1>2. ASSUME NEW i \in Users, GoroutineStep(i) PROVE EndInv'
  BY <1>2 DEF GoroutineStep, CreateSession, SendToken, Tally, Release, Done
<1>3. CASE CreateFiles
  BY <1>3 DEF CreateFiles
<1>4. CASE TakeToken \/ Finish
  BY <1>4 DEF TakeToken, Finish
<1>5. CASE UNCHANGED vars
  BY <1>5 DEF vars
<1> QED
  BY <1>1, <1>2, <1>3, <1>4, <1>5 DEF Next, WriterStep

LEMMA EndAlways == Spec => []EndInv
<1>1. Init => EndInv
  BY DEF Init, EndInv
<1> QED
  BY <1>1, NextEnd, PTL DEF Spec

\* The script's totals are true at its end whatever has failed, and its word that the
\* tokens were saved is true just if the files could be created and no Write lost a
\* line, or there was no token.
THEOREM SummaryIsAccurate == Spec => []SummaryAccounts
<1>1. ASSUME CountInv, TokenInv, EndInv, main = "done"
      PROVE  /\ successCount + failCount = userCount
             /\ successCount = Cardinality(issued)
             /\ Tokens(file) = IF writer = "finished" THEN issued \ dropped ELSE {}
             /\ dropped \subseteq issued
             /\ writer # "finished" => dropped = {}
  <2>1. Active = {} /\ spawned = userCount
    BY <1>1 DEF CountInv, Stages
  <2>2. issued \subseteq Users /\ Succeeded = issued /\ Failed = Users \ issued /\ Sending = {}
    <3>1. issued \subseteq Users
      BY <1>1 DEF CountInv, Shape
    <3>2. \A i \in Users : goroutine[i] = "ended" /\ i <= spawned
      BY <2>1, CountAssumption DEF Active, Users
    <3> QED
      BY <3>1, <3>2 DEF Succeeded, Failed, Sending
  <2>3. successCount = Cardinality(issued) /\ failCount = Cardinality(Users \ issued)
    BY <1>1, <2>2 DEF CountInv, Counted
  <2>4. Users \cap issued = issued
    BY <2>2
  <2>5. Cardinality(Users \ issued) = userCount - Cardinality(issued)
    BY <2>4, UsersFinite, FS_Difference
  <2>6. Cardinality(issued) \in Nat
    BY <2>2, UsersFinite
  <2>7. successCount + failCount = userCount
    BY <2>3, <2>5, <2>6, CountAssumption
  <2>8. ASSUME writer = "finished" PROVE Tokens(file) = issued \ dropped
    <3>1. Tokens(buffer) = {} /\ Tokens(tokenChan) = {}
      BY <1>1, <2>8, NoToken DEF TokenInv
    <3> QED
      BY <1>1, <2>2, <3>1 DEF TokenInv, Disjoint
  <2>9. ASSUME writer # "finished" PROVE Tokens(file) = {} /\ dropped = {}
    <3>1. file = <<>> /\ dropped = {}
      BY <1>1, <2>9 DEF EndInv
    <3> QED
      BY <3>1, NoToken
  <2>10. dropped \subseteq issued
    BY <1>1 DEF TokenInv
  <2> QED
    BY <2>3, <2>7, <2>8, <2>9, <2>10
<1>2. CountInv /\ TokenInv /\ EndInv => SummaryAccounts
  <2> SUFFICES ASSUME CountInv, TokenInv, EndInv, main = "done"
               PROVE  TokensSaved <=> issued = {} \/ (writer = "finished" /\ dropped = {})
    BY <1>1 DEF SummaryAccounts
  <2>1. CASE writer = "finished"
    BY <1>1, <2>1 DEF TokensSaved
  <2>2. CASE writer # "finished"
    BY <1>1, <2>2 DEF TokensSaved
  <2> QED
    BY <2>1, <2>2
<1> QED
  BY <1>2, TokensAlways, EndAlways, PTL

-----------------------------------------------------------------------------
(* Nobody waits for ever *)

\* The tokens that were sent are those the writer has taken and those in the channel.
Sent == {i \in issued : goroutine[i] # "send"}

SentInv ==
    /\ count + Len(tokenChan) = Cardinality(Sent)
    /\ writer \in {"create", "gave_up"} => count = 0
    /\ main = "join" \/ writer = "finished" => closed

LEMMA SentSubset == CountInv => Sent \subseteq Users
BY DEF CountInv, Shape, Sent

LEMMA InitSent == Init => SentInv
<1> SUFFICES ASSUME Init PROVE SentInv
  OBVIOUS
<1>1. Sent = {} /\ Len(tokenChan) = 0 /\ count = 0
  BY DEF Init, Sent
<1> QED
  BY <1>1, FS_EmptySet DEF Init, SentInv

LEMMA NextSent == CountInv /\ SentInv /\ [Next]_vars => SentInv'
<1> SUFFICES ASSUME CountInv, SentInv, [Next]_vars PROVE SentInv'
  OBVIOUS
<1> USE DEF workers, output
<1>1. /\ Shape /\ Paths /\ count \in Nat /\ tokenChan \in Seq(Users)
      /\ goroutine \in [Users -> States] /\ issued \subseteq Users /\ Sent \subseteq Users
  BY SentSubset DEF CountInv, Shape
<1>2. ASSUME UNCHANGED <<count, tokenChan>>, Sent' = Sent,
             writer' \in {"create", "gave_up"} => writer \in {"create", "gave_up"},
             main' = "join" \/ writer' = "finished" => closed'
      PROVE  SentInv'
  <2>1. /\ count' = count /\ Len(tokenChan') = Len(tokenChan)
        /\ Cardinality(Sent') = Cardinality(Sent)
    BY <1>2
  <2> QED
    BY <1>2, <2>1 DEF SentInv
\* What a step of a goroutine does, and that only SendToken makes a token one that was sent.
<1>3. ASSUME NEW i \in Users, NEW from, NEW to, Step(i, from, to)
      PROVE  /\ goroutine[i] = from /\ goroutine'[i] = to
             /\ \A j \in Users \ {i} : goroutine'[j] = goroutine[j]
  BY <1>1, <1>3 DEF Step
<1>4. CASE Ping \/ CloseChannel \/ Join \/ CreateFiles
  <2>1. UNCHANGED <<goroutine, issued, count, tokenChan>>
    BY <1>4 DEF Ping, CloseChannel, Join, CreateFiles
  <2>2. Sent' = Sent
    BY <2>1 DEF Sent
  <2>3. /\ writer' \in {"create", "gave_up"} => writer \in {"create", "gave_up"}
        /\ main' = "join" \/ writer' = "finished" => closed'
    BY <1>4 DEF Ping, CloseChannel, Join, CreateFiles, SentInv
  <2> QED
    BY <1>2, <2>1, <2>2, <2>3
<1>5. CASE Spawn
  <2>1. spawned + 1 \in Users /\ spawned + 1 > spawned
    BY <1>1, <1>5, CountAssumption DEF Spawn, Shape, Users
  <2>2. spawned + 1 \notin issued
    BY <1>1, <2>1 DEF Paths
  <2>3. goroutine' = [goroutine EXCEPT ![spawned + 1] = "create"] /\ issued' = issued
    BY <1>5 DEF Spawn
  <2>4. Sent' = Sent
    BY <1>1, <2>1, <2>2, <2>3 DEF Sent
  <2> QED
    BY <1>2, <1>5, <2>4 DEF Spawn, SentInv
<1>6. ASSUME NEW i \in Users, CreateSession(i) PROVE SentInv'
  <2>1. CASE Step(i, "create", "send") /\ issued' = issued \cup {i}
    <3>1. /\ goroutine[i] = "create" /\ goroutine'[i] = "send"
          /\ \A j \in Users \ {i} : goroutine'[j] = goroutine[j]
      BY <1>3, <2>1
    <3>2. i \notin issued
      BY <1>1, <3>1 DEF Paths
    <3>3. Sent' = Sent
      BY <1>1, <2>1, <3>1, <3>2 DEF Sent
    <3> QED
      BY <1>2, <1>6, <3>3 DEF CreateSession, SentInv
  <2>2. CASE Step(i, "create", "fail") /\ issued' = issued
    <3>1. /\ goroutine[i] = "create" /\ goroutine'[i] = "fail"
          /\ \A j \in Users \ {i} : goroutine'[j] = goroutine[j]
      BY <1>3, <2>2
    <3>2. Sent' = Sent
      BY <1>1, <2>2, <3>1 DEF Sent
    <3> QED
      BY <1>2, <1>6, <3>2 DEF CreateSession, SentInv
  <2> QED
    BY <1>6, <2>1, <2>2 DEF CreateSession
<1>7. ASSUME NEW i \in Users, SendToken(i) PROVE SentInv'
  <2>1. /\ goroutine[i] = "send" /\ goroutine'[i] = "succeed"
        /\ \A j \in Users \ {i} : goroutine'[j] = goroutine[j]
    BY <1>3, <1>7 DEF SendToken
  <2>2. i \in issued /\ issued' = issued
    BY <1>1, <1>7, <2>1 DEF Paths, SendToken
  <2>3. Sent' = Sent \cup {i} /\ i \notin Sent
    BY <1>1, <2>1, <2>2 DEF Sent
  <2>4. Cardinality(Sent') = Cardinality(Sent) + 1
    BY <1>1, <2>3, Enters
  <2>5. Len(tokenChan') = Len(tokenChan) + 1 /\ count' = count
        /\ UNCHANGED <<main, writer, closed>>
    BY <1>1, <1>7 DEF SendToken
  <2> QED
    BY <1>1, <2>4, <2>5 DEF SentInv
<1>8. ASSUME NEW i \in Users, Tally(i) \/ Release(i) \/ Done(i) PROVE SentInv'
  <2>1. /\ goroutine[i] # "send" /\ goroutine'[i] # "send"
        /\ \A j \in Users \ {i} : goroutine'[j] = goroutine[j]
    BY <1>3, <1>8 DEF Tally, Release, Done
  <2>2. UNCHANGED <<issued, count, tokenChan, writer, main, closed>>
    BY <1>8 DEF Tally, Release, Done
  <2>3. Sent' = Sent
    BY <1>1, <2>1, <2>2 DEF Sent
  <2> QED
    BY <1>2, <2>2, <2>3 DEF SentInv
<1>9. CASE TakeToken
  <2>1. /\ tokenChan # <<>> /\ tokenChan' = Tail(tokenChan) /\ count' = count + 1
        /\ writer = "write" /\ UNCHANGED <<goroutine, issued, writer, main, closed>>
    BY <1>9 DEF TakeToken
  <2>2. Len(tokenChan') = Len(tokenChan) - 1 /\ Len(tokenChan) \in Nat
    BY <1>1, <2>1
  <2>3. Sent' = Sent
    BY <2>1 DEF Sent
  <2> QED
    BY <1>1, <2>1, <2>2, <2>3 DEF SentInv
<1>10. CASE Finish
  <2>1. UNCHANGED <<goroutine, issued, count, tokenChan>> /\ writer' = "finished" /\ closed'
    BY <1>10 DEF Finish
  <2>2. Sent' = Sent
    BY <2>1 DEF Sent
  <2> QED
    BY <1>2, <2>1, <2>2
<1>11. CASE UNCHANGED vars
  <2>1. Sent' = Sent
    BY <1>11 DEF vars, Sent
  <2> QED
    BY <1>2, <1>11, <2>1 DEF vars, SentInv
<1> QED
  BY <1>4, <1>5, <1>6, <1>7, <1>8, <1>9, <1>10, <1>11
     DEF Next, MainStep, GoroutineStep, WriterStep

LEMMA SentAlways == Spec => [](CountInv /\ SentInv)
BY InitCount, InitSent, NextCount, NextSent, PTL DEF Spec

\* If all wait, the goroutines that hold a slot are sending to a full channel, and there
\* is one: the channel and it make the jam.
LEMMA WaitingIsJam == CountInv /\ SentInv => NoCircularWait
<1> SUFFICES ASSUME CountInv, SentInv, MainWaits, WriterWaits,
                    \A i \in Users : GoroutineWaits(i)
             PROVE  Jammed
  BY DEF NoCircularWait
<1>1. /\ Shape /\ Paths /\ Counted /\ Stages /\ Sent \subseteq Users /\ issued \subseteq Users
      /\ tokenChan \in Seq(Users) /\ Len(tokenChan) \in Nat /\ count \in Nat
  BY SentSubset DEF CountInv, Shape
<1>2. Capacity \in Nat \ {0}
  BY SizeAssumption DEF Capacity
\* main has not closed the channel: it would wait for a writer that has an end to go to.
<1>3. \E i \in Users : goroutine[i] # "ended"
  <2>1. CASE main = "spawn"
    <3>1. slots = MaxParallel \/ wg # 0
      BY <1>1, <2>1, CountAssumption DEF MainWaits, Shape
    <3>2. Holders # {} \/ Active # {}
      BY <1>1, <3>1, FS_EmptySet, SizeAssumption DEF Counted
    <3> QED
      BY <3>2 DEF Holders, Active
  <2>2. CASE main = "join"
    <3>1. writer = "write" /\ ~closed
      BY <2>2 DEF MainWaits, WriterWaits
    <3>2. closed
      BY <2>2 DEF SentInv
    <3> QED
      BY <3>1, <3>2
  <2> QED
    BY <2>1, <2>2 DEF MainWaits
<1>4. PICK i \in Users : goroutine[i] = "send" /\ Len(tokenChan) = Capacity
  BY <1>3 DEF GoroutineWaits
<1>5. i \in issued /\ i \notin Sent
  BY <1>1, <1>4 DEF Paths, Sent
<1>6. writer = "gave_up" /\ count = 0
  <2>1. tokenChan # <<>>
    BY <1>2, <1>4
  <2>2. ~closed
    BY <1>1, <1>4 DEF Stages, Active
  <2>3. writer # "finished"
    BY <2>2 DEF SentInv
  <2> QED
    BY <2>1, <2>3 DEF WriterWaits, SentInv
<1>7. Cardinality(Sent) = Capacity
  BY <1>1, <1>2, <1>4, <1>6 DEF SentInv
<1>8. Cardinality(Sent \cup {i}) = Capacity + 1
  BY <1>1, <1>5, <1>7, Enters
<1>9. Sent \cup {i} \subseteq issued
  BY <1>5 DEF Sent
<1>10. Cardinality(Sent \cup {i}) <= Cardinality(issued) /\ Cardinality(issued) \in Nat
  BY <1>1, <1>9, UsersFinite, FS_Subset
<1> QED
  BY <1>2, <1>6, <1>8, <1>10 DEF Jammed

\* For any number of users, any sizes and whatever fails: the semaphore, the WaitGroup and
\* the channel never have everyone wait for everyone, but for a writer that gave up on
\* more tokens than the channel holds.
THEOREM NobodyWaitsForever == Spec => []NoCircularWait
BY SentAlways, WaitingIsJam, PTL

-----------------------------------------------------------------------------
(* Every step leaves less to do *)

LEMMA LeftType ==
    ASSUME Shape, NEW i \in Users
    PROVE  LeftOf(i) \in 0 .. 6
<1>1. goroutine[i] \in States
  BY DEF Shape
<1>2. GoroutineLeft[goroutine[i]] \in 0 .. 6
  BY <1>1 DEF GoroutineLeft, States
<1> QED
  BY <1>2 DEF LeftOf

LEMMA StepsFinite ==
    /\ IsFiniteSet(Users \X (1 .. 6))
    /\ \A S : S \subseteq Users \X (1 .. 6) => IsFiniteSet(S) /\ Cardinality(S) \in Nat
<1>1. IsFiniteSet(Users \X (1 .. 6))
  <2>1. PICK one \in Int, six \in Int : one = 1 /\ six = 6
    OBVIOUS
  <2>2. IsFiniteSet(one .. six)
    BY FS_Interval
  <2> QED
    BY <2>1, <2>2, UsersFinite, FS_Product
<1>2. ASSUME NEW S, S \subseteq Users \X (1 .. 6)
      PROVE  IsFiniteSet(S) /\ Cardinality(S) \in Nat
  <2>1. IsFiniteSet(S)
    BY <1>1, <1>2, FS_Subset
  <2> QED
    BY <2>1, FS_CardinalityType
<1> QED
  BY <1>1, <1>2

\* One goroutine gets on, or none does.
LEMMA GoroutineGetsOn ==
    ASSUME Shape, Shape', NEW i \in Users, LeftOf(i)' < LeftOf(i),
           \A j \in Users \ {i} : LeftOf(j)' = LeftOf(j)
    PROVE  Cardinality(GoroutineSteps') < Cardinality(GoroutineSteps)
<1>1. LeftOf(i) \in 0 .. 6 /\ LeftOf(i)' \in 0 .. 6
  <2>1. goroutine'[i] \in States
    BY DEF Shape
  <2>2. GoroutineLeft[goroutine'[i]] \in 0 .. 6
    BY <2>1 DEF GoroutineLeft, States
  <2>3. LeftOf(i)' \in 0 .. 6
    BY <2>2 DEF LeftOf
  <2> QED
    BY <2>3, LeftType
<1> DEFINE S == GoroutineSteps
           T == GoroutineSteps'
           last == <<i, LeftOf(i)>>
<1>2. S \subseteq Users \X (1 .. 6) /\ T \subseteq Users \X (1 .. 6)
  BY DEF GoroutineSteps
<1>3. T \subseteq S
  <2> SUFFICES ASSUME NEW j \in Users, NEW k \in 1 .. 6, k <= LeftOf(j)' PROVE k <= LeftOf(j)
    BY DEF GoroutineSteps
  <2>1. CASE j = i
    BY <1>1, <2>1
  <2>2. CASE j # i
    BY <2>2
  <2> QED
    BY <2>1, <2>2
<1>4. last \in S /\ last \notin T
  <2>1. LeftOf(i) \in 1 .. 6 /\ ~(LeftOf(i) <= LeftOf(i)')
    BY <1>1
  <2> QED
    BY <2>1 DEF GoroutineSteps
<1> HIDE DEF S, T, last
<1>5. Cardinality(T) <= Cardinality(S) /\ (Cardinality(T) = Cardinality(S) => T = S)
  BY <1>2, <1>3, StepsFinite, FS_Subset
<1>6. Cardinality(T) < Cardinality(S)
  BY <1>2, <1>4, <1>5, StepsFinite
<1> QED
  BY <1>6 DEF S, T

LEMMA SumShrinks ==
    ASSUME NEW a \in Nat, NEW b \in Nat, NEW c \in Nat, NEW d \in Nat,
           NEW p \in Nat, NEW q \in Nat, NEW r \in Nat, NEW s \in Nat,
           p <= a, q <= b, r <= c, s <= d, p < a \/ q < b \/ r < c \/ s < d
    PROVE  p + q + r + s \in Nat /\ p + q + r + s < a + b + c + d
OBVIOUS

LEMMA NextLeft ==
    CountInv /\ SentInv /\ CountInv' /\ SentInv' /\ [Next]_vars
        => [StepsLeft' \in Nat /\ StepsLeft' < StepsLeft]_vars
<1> SUFFICES ASSUME CountInv, SentInv, CountInv', SentInv', Next
             PROVE  StepsLeft' \in Nat /\ StepsLeft' < StepsLeft
  OBVIOUS
<1> USE DEF workers, output
<1> DEFINE m == MainLeft[main]
           w == WriterLeft[writer]
           t == userCount - count
           g == Cardinality(GoroutineSteps)
<1>1. Shape /\ Shape' /\ Paths /\ Stages
  BY DEF CountInv
<1>2. m \in Nat /\ m' \in Nat /\ w \in Nat /\ w' \in Nat
  BY <1>1 DEF Shape, MainLeft, WriterLeft
<1>3. t \in Nat /\ t' \in Nat
  <2>1. count <= userCount
    <3>1. Cardinality(Sent) <= userCount /\ Cardinality(Sent) \in Nat
      BY SentSubset, UsersFinite, FS_Subset
    <3>2. count \in Nat /\ Len(tokenChan) \in Nat
      BY <1>1 DEF Shape
    <3> QED
      BY <3>1, <3>2, CountAssumption DEF SentInv
  <2>2. count' <= userCount
    <3>1. Sent' \subseteq Users
      BY <1>1 DEF Shape, Sent
    <3>2. Cardinality(Sent') <= userCount /\ Cardinality(Sent') \in Nat
      BY <3>1, UsersFinite, FS_Subset
    <3>3. count' \in Nat /\ Len(tokenChan') \in Nat
      BY <1>1 DEF Shape
    <3> QED
      BY <3>2, <3>3, CountAssumption DEF SentInv
  <2> QED
    <3>1. count \in Nat /\ count' \in Nat
      BY <1>1 DEF Shape
    <3>2. t = userCount - count /\ t' = userCount - count'
      OBVIOUS
    <3> HIDE DEF t
    <3>3. \A c, n \in Nat : c <= n => n - c \in Nat
      OBVIOUS
    <3> QED
      BY <2>1, <2>2, <3>1, <3>2, <3>3, CountAssumption
<1>4. g \in Nat /\ g' \in Nat
  <2>1. GoroutineSteps \subseteq Users \X (1 .. 6) /\ GoroutineSteps' \subseteq Users \X (1 .. 6)
    BY DEF GoroutineSteps
  <2> QED
    BY <2>1, StepsFinite
<1>5. StepsLeft = m + w + t + g /\ StepsLeft' = m' + w' + t' + g'
  BY DEF StepsLeft
<1> HIDE DEF m, w, t, g
<1>6. SUFFICES m' <= m /\ w' <= w /\ t' <= t /\ g' <= g /\ (m' < m \/ w' < w \/ t' < t \/ g' < g)
  BY <1>2, <1>3, <1>4, <1>5, SumShrinks
<1>7. /\ main' = main => m' = m
      /\ writer' = writer => w' = w
      /\ count' = count => t' = t
      /\ UNCHANGED <<spawned, goroutine>> => g' = g
  BY DEF m, w, t, g, GoroutineSteps, LeftOf
<1>8. CASE Ping \/ CloseChannel \/ Join
  <2>1. m' < m
    BY <1>8 DEF Ping, CloseChannel, Join, m, MainLeft
  <2>2. UNCHANGED <<writer, count, spawned, goroutine>>
    BY <1>8 DEF Ping, CloseChannel, Join
  <2> QED
    BY <1>2, <1>3, <1>4, <1>7, <2>1, <2>2
<1>9. CASE CreateFiles \/ Finish
  <2>1. w' < w
    BY <1>9 DEF CreateFiles, Finish, w, WriterLeft
  <2>2. UNCHANGED <<main, count, spawned, goroutine>>
    BY <1>9 DEF CreateFiles, Finish
  <2> QED
    BY <1>2, <1>3, <1>4, <1>7, <2>1, <2>2
<1>10. CASE TakeToken
  <2>1. count' = count + 1 /\ UNCHANGED <<main, writer, spawned, goroutine>>
    BY <1>10 DEF TakeToken
  <2>2. t' < t
    BY <1>1, <2>1, CountAssumption DEF t, Shape
  <2> QED
    BY <1>2, <1>3, <1>4, <1>7, <2>1, <2>2
\* A goroutine that gets on.
<1>11. ASSUME NEW i \in Users, LeftOf(i)' < LeftOf(i),
              \A j \in Users \ {i} : LeftOf(j)' = LeftOf(j),
              UNCHANGED <<main, writer, count>>
       PROVE  m' <= m /\ w' <= w /\ t' <= t /\ g' <= g /\ (m' < m \/ w' < w \/ t' < t \/ g' < g)
  <2>1. Cardinality(GoroutineSteps') < Cardinality(GoroutineSteps)
    BY <1>1, <1>11, GoroutineGetsOn
  <2>2. g' < g
    BY <2>1 DEF g
  <2> QED
    BY <1>2, <1>3, <1>4, <1>7, <1>11, <2>2
<1>12. CASE Spawn
  <2>1. /\ spawned + 1 \in Users /\ spawned \in Nat /\ spawned' = spawned + 1
        /\ goroutine' = [goroutine EXCEPT ![spawned + 1] = "create"]
        /\ UNCHANGED <<main, writer, count>>
    BY <1>1, <1>12, CountAssumption DEF Spawn, Shape, Users
  <2>2. PICK n \in Users : n = spawned + 1
    BY <2>1
  <2>3. LeftOf(n) = 6
    BY <2>1, <2>2 DEF LeftOf
  <2>4. goroutine'[n] = "create" /\ \A j \in Users \ {n} : goroutine'[j] = goroutine[j]
    BY <1>1, <2>1, <2>2 DEF Shape
  <2>5. LeftOf(n)' = 5
    <3>1. ~(n > spawned')
      BY <2>1, <2>2
    <3>2. GoroutineLeft["create"] = 5
      BY DEF GoroutineLeft
    <3>3. GoroutineLeft[goroutine'[n]] = 5
      BY <2>4, <3>2
    <3> QED
      BY <3>1, <3>3 DEF LeftOf
  <2>6. \A j \in Users \ {n} : LeftOf(j)' = LeftOf(j)
    <3> SUFFICES ASSUME NEW j \in Users \ {n} PROVE LeftOf(j)' = LeftOf(j)
      OBVIOUS
    <3>1. j > spawned' <=> j > spawned
      BY <2>1, <2>2 DEF Users
    <3> QED
      BY <2>4, <3>1 DEF LeftOf
  <2>7. LeftOf(n)' < LeftOf(n)
    BY <2>3, <2>5
  <2> QED
    BY <1>11, <2>1, <2>6, <2>7
\* The steps of a goroutine that was started.
<1>13. ASSUME NEW i \in Users, NEW from \in States \ {"ended"}, NEW to \in States,
              Step(i, from, to), GoroutineLeft[to] < GoroutineLeft[from],
              UNCHANGED <<main, spawned, writer, count>>
       PROVE  m' <= m /\ w' <= w /\ t' <= t /\ g' <= g /\ (m' < m \/ w' < w \/ t' < t \/ g' < g)
  <2>1. /\ goroutine[i] = from /\ goroutine'[i] = to
        /\ \A j \in Users \ {i} : goroutine'[j] = goroutine[j]
    BY <1>1, <1>13 DEF Shape, Step
  <2>2. ~(i > spawned)
    BY <1>1, <1>13, <2>1 DEF Paths
  <2>3. LeftOf(i) = GoroutineLeft[from] /\ LeftOf(i)' = GoroutineLeft[to]
    BY <1>13, <2>1, <2>2 DEF LeftOf
  <2>4. \A j \in Users \ {i} : LeftOf(j)' = LeftOf(j)
    BY <1>13, <2>1 DEF LeftOf
  <2>5. LeftOf(i)' < LeftOf(i)
    BY <1>13, <2>3
  <2> QED
    BY <1>11, <1>13, <2>4, <2>5
<1>14. ASSUME NEW i \in Users, GoroutineStep(i)
       PROVE  m' <= m /\ w' <= w /\ t' <= t /\ g' <= g /\ (m' < m \/ w' < w \/ t' < t \/ g' < g)
  <2>1. UNCHANGED <<main, spawned, writer, count>>
    BY <1>14 DEF GoroutineStep, CreateSession, SendToken, Tally, Release, Done
  <2>2. \E from \in States \ {"ended"}, to \in States :
           Step(i, from, to) /\ GoroutineLeft[to] < GoroutineLeft[from]
    <3>1. /\ GoroutineLeft["send"] < GoroutineLeft["create"]
          /\ GoroutineLeft["fail"] < GoroutineLeft["create"]
          /\ GoroutineLeft["succeed"] < GoroutineLeft["send"]
          /\ GoroutineLeft["release"] < GoroutineLeft["succeed"]
          /\ GoroutineLeft["release"] < GoroutineLeft["fail"]
          /\ GoroutineLeft["done"] < GoroutineLeft["release"]
          /\ GoroutineLeft["ended"] < GoroutineLeft["done"]
      BY DEF GoroutineLeft
    <3>2. \/ Step(i, "create", "send") \/ Step(i, "create", "fail") \/ Step(i, "send", "succeed")
          \/ Step(i, "succeed", "release") \/ Step(i, "fail", "release")
          \/ Step(i, "release", "done") \/ Step(i, "done", "ended")
      BY <1>14 DEF GoroutineStep, CreateSession, SendToken, Tally, Release, Done
    <3> QED
      BY <3>1, <3>2 DEF States
  <2> QED
    BY <1>13, <2>1, <2>2
<1> QED
  BY <1>8, <1>9, <1>10, <1>12, <1>14 DEF Next, MainStep, WriterStep

LEMMA InitLeft == Init => StepsLeft = 7 * userCount + 5
<1> SUFFICES ASSUME Init PROVE StepsLeft = 7 * userCount + 5
  OBVIOUS
<1>1. MainLeft[main] = 3 /\ WriterLeft[writer] = 2 /\ count = 0
  BY DEF Init, MainLeft, WriterLeft
<1>2. GoroutineSteps = Users \X (1 .. 6)
  <2>1. \A i \in Users : LeftOf(i) = 6
    BY CountAssumption DEF Init, LeftOf, Users
  <2> QED
    BY <2>1 DEF GoroutineSteps
<1>3. Cardinality(Users \X (1 .. 6)) = 6 * userCount
  <2>1. PICK one \in Int, six \in Int : one = 1 /\ six = 6
    OBVIOUS
  <2>2. IsFiniteSet(one .. six) /\ Cardinality(one .. six) = 6
    <3>1. /\ IsFiniteSet(one .. six)
          /\ Cardinality(one .. six) = IF one > six THEN 0 ELSE six - one + 1
      BY FS_Interval
    <3> QED
      BY <2>1, <3>1
  <2>3. Cardinality(Users \X (one .. six)) = Cardinality(Users) * Cardinality(one .. six)
    BY <2>2, UsersFinite, FS_Product
  <2>4. Cardinality(Users \X (one .. six)) = userCount * 6
    BY <2>2, <2>3, UsersFinite, Zenon
  <2>5. Cardinality(Users \X (1 .. 6)) = userCount * 6
    BY <2>1, <2>4
  <2> QED
    BY <2>5, CountAssumption
<1> QED
  BY <1>1, <1>2, <1>3, CountAssumption DEF StepsLeft

\* Whatever fails and however the steps interleave, each leaves less to do: the script
\* takes no more than 7 * userCount + 5 steps, for any number of users.
THEOREM ScriptRunsOut == Spec => StepsLeft = 7 * userCount + 5 /\ StepsRunOut
BY InitCount, InitSent, NextCount, NextSent, InitLeft, NextLeft, PTL DEF Spec, StepsRunOut
=============================================================================
