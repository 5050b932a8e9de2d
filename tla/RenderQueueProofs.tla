-------------------------- MODULE RenderQueueProofs --------------------------
(***************************************************************************)
(* Theorems of RenderQueue, for every set of calls and keys, every         *)
(* concurrency and queue limit, and every choice of droppable calls.       *)
(***************************************************************************)
EXTENDS RenderQueue, FiniteSetTheorems, SequenceTheorems, TLAPS

(***************************************************************************)
(* The inductive invariant.                                                *)
(***************************************************************************)

\* A producer owns the entry of its key until it removes it itself.
OwnsEntry ==
    \A c \in Calls : pc[c] \in Producing => inFlight[key[c]] = c

\* An entry names a call of that key that is still producing, or one whose
\* future was dropped before it removed the key.
EntryHasProducer ==
    \A k \in Keys : inFlight[k] # NoCall =>
        /\ key[inFlight[k]] = k
        /\ pc[inFlight[k]] \in Producing \cup {"dropped"}
        /\ holder[inFlight[k]] = inFlight[k]

\* Calls that hold a SharedResult hold the one of a producer of their key.
HolderSharesKey ==
    \A c \in Calls :
        /\ pc[c] \in Producing => holder[c] = c
        /\ pc[c] \in Waiting => holder[c] # NoCall
        /\ pc[c] = "idle" => holder[c] = NoCall
        /\ holder[c] # NoCall => /\ key[holder[c]] = key[c]
                                 /\ holder[holder[c]] = holder[c]

\* The work of c is behind it: its outcome is final.
PastWork(c) ==
    /\ pc[c] \in (HasPermit \ {"working"}) \cup {"done", "dropped"}
    /\ outcome[c] \in Kinds

\* The outcome exists as soon as the work ended, and what is published is
\* the outcome.
OutcomePublished ==
    \A c \in Calls :
        /\ pc[c] \in HasPermit \ {"working"} => outcome[c] \in Kinds
        /\ pc[c] \in {"published", "notified"} => result[c] = outcome[c]
        /\ result[c] # "none" => /\ pc[c] \in {"published", "notified", "done"}
                                 /\ result[c] = outcome[c] /\ outcome[c] \in Kinds

\* Answers quote a producer of the same key whose outcome is final.
AnswersFinal ==
    \A c \in Calls : pc[c] = "done" /\ answer[c] # Busy =>
        LET p == answer[c].by IN
        /\ p \in Calls /\ p = holder[c]
        /\ PastWork(p) /\ answer[c].kind = outcome[p]

\* The AtomicUsize covers the running works, so fetch_sub cannot wrap.
ActiveCovers == active >= Cardinality(At({"working"}))

IInv ==
    /\ TypeOK
    /\ OwnsEntry /\ EntryHasProducer /\ HolderSharesKey
    /\ OutcomePublished /\ AnswersFinal
    /\ PermitsConserved /\ ActiveCovers
    /\ Cardinality(InMap) <= Capacity

-----------------------------------------------------------------------------
\* The queue starts in the invariant.
LEMMA InitIInv == Init => IInv
<1> SUFFICES ASSUME Init PROVE IInv
  OBVIOUS
<1>1. TypeOK
  BY QueueAssumption, EmptySeq DEF Init, TypeOK, Labels, Answers, NoAnswer, Kinds
<1>2. InMap = {} /\ At(HasPermit) = {} /\ At({"working"}) = {}
  BY DEF Init, InMap, At, HasPermit
<1>3. Cardinality({}) = 0
  BY FS_EmptySet
<1>4. permits = Concurrency /\ active = 0
  BY DEF Init
<1>a. PermitsConserved
  BY <1>2, <1>3, <1>4, QueueAssumption DEF PermitsConserved
<1>b. ActiveCovers
  BY <1>2, <1>3, <1>4 DEF ActiveCovers
<1>c. Cardinality(InMap) <= Capacity
  BY <1>2, <1>3, QueueAssumption DEF Capacity
<1>5. OwnsEntry /\ EntryHasProducer /\ HolderSharesKey /\ OutcomePublished /\ AnswersFinal
  BY QueueAssumption DEF Init, OwnsEntry, EntryHasProducer, HolderSharesKey, OutcomePublished,
     AnswersFinal, Producing, Admitted, HasPermit, Waiting, Kinds
<1>6. QED
  BY <1>1, <1>a, <1>b, <1>c, <1>5 DEF IInv

\* Each step keeps the types, given what CountStep says of the counters.
LEMMA TypeStep == ASSUME TypeOK, OutcomePublished, HolderSharesKey, NEW c \in Calls,
  Arrive(c) \/ Produce(c) \/ Await(c) \/ Drop(c), permits' \in 0 .. Concurrency, active' \in Nat
  PROVE TypeOK'
<1> USE QueueAssumption DEF TypeOK, Goto, local, counters, Labels, Producing, Admitted,
                                HasPermit, Waiting, Kinds
<1>1. CASE Join(c)
  BY <1>1 DEF Join
<1>2. CASE Reject(c)
  BY <1>2 DEF Reject, Busy, Answers
<1>3. CASE Admit(c)
  BY <1>3 DEF Admit, Register
<1>4. CASE RequestPermit(c)
  BY <1>4 DEF RequestPermit
<1>5. CASE StartWork(c)
  BY <1>5, HeadTailProperties DEF StartWork
<1>6. CASE FinishWork(c)
  BY <1>6 DEF FinishWork
<1>7. CASE RecordDuration(c)
  BY <1>7 DEF RecordDuration, Sampled
<1>8. CASE CountOutcome(c)
  BY <1>8 DEF CountOutcome
<1>9. CASE Publish(c)
  BY <1>9 DEF Publish, Shared
<1>10. CASE NotifyWaiters(c)
  BY <1>10 DEF NotifyWaiters, Listening, HasNotified
<1>11. CASE Release(c)
  BY <1>11 DEF OutcomePublished, Release, Unregister, Answers
<1>12. CASE Subscribe(c)
  BY <1>12 DEF Subscribe
<1>13. CASE CheckResult(c)
  BY <1>13 DEF HolderSharesKey, CheckResult, Answers
<1>14. CASE Wake(c)
  BY <1>14 DEF Wake
<1>15. CASE DropQueued(c)
  BY <1>15 DEF DropQueued, RemoveAt
<1>16. CASE DropRunning(c)
  BY <1>16 DEF DropRunning
<1>17. CASE DropWaiting(c)
  BY <1>17 DEF DropWaiting
<1>q. QED
  BY <1>1, <1>2, <1>3, <1>4, <1>5, <1>6, <1>7, <1>8, <1>9, <1>10, <1>11, <1>12, <1>13,
     <1>14, <1>15, <1>16, <1>17 DEF Arrive, Produce, Await, Drop

\* Each step keeps the agreement of map, producers and holders.
LEMMA OwnershipStep == ASSUME IInv, NEW c \in Calls,
  Arrive(c) \/ Produce(c) \/ Await(c) \/ Drop(c)
  PROVE (OwnsEntry /\ EntryHasProducer /\ HolderSharesKey)'
<1> USE QueueAssumption DEF IInv, TypeOK, OwnsEntry, EntryHasProducer, HolderSharesKey,
                            Goto, local, Labels, Producing, Admitted, HasPermit, Waiting
<1>1. CASE Join(c)
  BY <1>1 DEF Join
<1>2. CASE Reject(c)
  BY <1>2 DEF Reject
<1>3. CASE Admit(c)
  BY <1>3 DEF Admit, Register
<1>4. CASE RequestPermit(c)
  BY <1>4 DEF RequestPermit
<1>5. CASE StartWork(c)
  BY <1>5 DEF StartWork
<1>6. CASE FinishWork(c)
  BY <1>6 DEF FinishWork
<1>7. CASE RecordDuration(c)
  BY <1>7 DEF RecordDuration
<1>8. CASE CountOutcome(c)
  BY <1>8 DEF CountOutcome
<1>9. CASE Publish(c)
  BY <1>9 DEF Publish, Shared
<1>10. CASE NotifyWaiters(c)
  BY <1>10 DEF NotifyWaiters, Listening, HasNotified
<1>11. CASE Release(c)
  BY <1>11 DEF Release, Unregister
<1>12. CASE Subscribe(c)
  BY <1>12 DEF Subscribe
<1>13. CASE CheckResult(c)
  BY <1>13 DEF CheckResult
<1>14. CASE Wake(c)
  BY <1>14 DEF Wake
<1>15. CASE DropQueued(c)
  BY <1>15 DEF DropQueued
<1>16. CASE DropRunning(c)
  BY <1>16 DEF DropRunning
<1>17. CASE DropWaiting(c)
  BY <1>17 DEF DropWaiting
<1>q. QED
  BY <1>1, <1>2, <1>3, <1>4, <1>5, <1>6, <1>7, <1>8, <1>9, <1>10, <1>11, <1>12, <1>13,
     <1>14, <1>15, <1>16, <1>17 DEF Arrive, Produce, Await, Drop

\* Each step keeps outcomes final, published as they are, and quoted so.
LEMMA OutcomeStep == ASSUME IInv, NEW c \in Calls,
  Arrive(c) \/ Produce(c) \/ Await(c) \/ Drop(c)
  PROVE (OutcomePublished /\ AnswersFinal)'
<1> USE QueueAssumption DEF IInv, TypeOK, OutcomePublished, HolderSharesKey, AnswersFinal,
                            PastWork, Goto, local, Labels, Producing, Admitted, HasPermit,
                            Waiting, Kinds
<1>1. CASE Join(c)
  BY <1>1 DEF Join
<1>2. CASE Reject(c)
  BY <1>2 DEF Reject, Busy
<1>3. CASE Admit(c)
  BY <1>3 DEF Admit, Register
<1>4. CASE RequestPermit(c)
  BY <1>4 DEF RequestPermit
<1>5. CASE StartWork(c)
  BY <1>5 DEF StartWork
<1>6. CASE FinishWork(c)
  BY <1>6 DEF FinishWork
<1>7. CASE RecordDuration(c)
  BY <1>7 DEF RecordDuration
<1>8. CASE CountOutcome(c)
  BY <1>8 DEF CountOutcome
<1>9. CASE Publish(c)
  BY <1>9 DEF Publish, Shared
<1>10. CASE NotifyWaiters(c)
  BY <1>10 DEF NotifyWaiters, Listening, HasNotified
<1>11. CASE Release(c)
  BY <1>11 DEF Release, Unregister, Busy
<1>12. CASE Subscribe(c)
  BY <1>12 DEF Subscribe
<1>13. CASE CheckResult(c)
  <2> DEFINE p == holder[c]
  <2>1. OutcomePublished'
    BY <1>13 DEF CheckResult
  <2>2. \A d \in Calls : PastWork(d) => PastWork(d)'
    BY <1>13 DEF CheckResult
  <2>3. p \in Calls /\ holder' = holder /\ outcome' = outcome
    BY <1>13 DEF CheckResult
  <2>4. CASE result[p] = "none"
    <3>1. answer' = answer /\ pc' = [pc EXCEPT ![c] = "parked"]
      BY <1>13, <2>4 DEF CheckResult
    <3>2. QED
      BY <2>1, <2>2, <2>3, <3>1
  <2>5. CASE result[p] # "none"
    <3>1. answer' = [answer EXCEPT ![c] = [kind |-> result[p], by |-> p]]
      BY <1>13, <2>5 DEF CheckResult
    <3>2. pc' = [pc EXCEPT ![c] = "done"]
      BY <1>13, <2>5 DEF CheckResult
    <3>3. PastWork(p) /\ result[p] = outcome[p]
      BY <2>3, <2>5
    <3>4. PastWork(p)'
      BY <2>2, <2>3, <3>3
    <3>5. answer'[c].by = p /\ answer'[c].kind = outcome'[p]
      BY <2>3, <3>1, <3>3
    <3>6. \A d \in Calls \ {c} : answer'[d] = answer[d] /\ pc'[d] = pc[d]
      BY <3>1, <3>2
    <3>7. QED
      BY <2>1, <2>2, <2>3, <3>4, <3>5, <3>6
  <2>6. QED
    BY <2>4, <2>5
<1>14. CASE Wake(c)
  BY <1>14 DEF Wake
<1>15. CASE DropQueued(c)
  BY <1>15 DEF DropQueued
<1>16. CASE DropRunning(c)
  BY <1>16 DEF DropRunning
<1>17. CASE DropWaiting(c)
  BY <1>17 DEF DropWaiting
<1>q. QED
  BY <1>1, <1>2, <1>3, <1>4, <1>5, <1>6, <1>7, <1>8, <1>9, <1>10, <1>11, <1>12, <1>13,
     <1>14, <1>15, <1>16, <1>17 DEF Arrive, Produce, Await, Drop

\* The number of calls at one of the labels S, when f says where each is.
Count(f, S) == Cardinality({d \in Calls : f[d] \in S})

\* Moving one call changes the count at S by what it enters and leaves.
LEMMA CountMoves ==
  ASSUME NEW f \in [Calls -> Labels], NEW c \in Calls, NEW l \in Labels, NEW S,
         NEW g \in [Calls -> Labels], \A d \in Calls : g[d] = IF d = c THEN l ELSE f[d]
  PROVE  /\ Count(f, S) \in Nat /\ Count(g, S) \in Nat
         /\ f[c] \in S => Count(f, S) > 0
         /\ l \in S /\ f[c] \in S => Count(g, S) = Count(f, S)
         /\ l \notin S /\ f[c] \notin S => Count(g, S) = Count(f, S)
         /\ l \in S /\ f[c] \notin S => Count(g, S) = Count(f, S) + 1
         /\ l \notin S /\ f[c] \in S => Count(g, S) = Count(f, S) - 1
<1> DEFINE A == {d \in Calls : f[d] \in S}
           B == {d \in Calls : g[d] \in S}
           D == A \ {c}
<1>1. IsFiniteSet(A)
  BY QueueAssumption, FS_Subset
<1>2. IsFiniteSet(D) /\ Cardinality(D) = IF c \in A THEN Cardinality(A) - 1 ELSE Cardinality(A)
  BY <1>1, FS_RemoveElement
<1>3. Cardinality(A) \in Nat /\ Cardinality(D) \in Nat
  BY <1>1, <1>2, FS_CardinalityType
<1>4. B = IF l \in S THEN D \cup {c} ELSE D
  OBVIOUS
<1>5. Cardinality(D \cup {c}) = Cardinality(D) + 1
  BY <1>2, FS_AddElement
<1>6. c \in A <=> f[c] \in S
  OBVIOUS
<1>7. Count(f, S) = Cardinality(A) /\ Count(g, S) = Cardinality(B)
  BY DEF Count
<1> HIDE DEF A, B, D
<1>8. f[c] \in S => Cardinality(A) > 0
  BY <1>2, <1>3, <1>6
<1>9. QED
  BY <1>2, <1>3, <1>4, <1>5, <1>6, <1>7, <1>8

\* Each step keeps the permits conserved and `active` above the running works.
LEMMA CountStep == ASSUME IInv, NEW c \in Calls,
  Arrive(c) \/ Produce(c) \/ Await(c) \/ Drop(c)
  PROVE /\ PermitsConserved' /\ ActiveCovers'
        /\ permits' \in 0 .. Concurrency /\ active' \in Nat
<1> DEFINE P == Count(pc, HasPermit)
           W == Count(pc, {"working"})
<1>0. P = Cardinality(At(HasPermit)) /\ W = Cardinality(At({"working"}))
  BY DEF Count, At
<1>p. P' = Cardinality(At(HasPermit))' /\ W' = Cardinality(At({"working"}))'
  BY DEF Count, At
<1>t. pc \in [Calls -> Labels]
  BY DEF IInv, TypeOK
<1>n. PICK l \in Labels : Goto(c, l)
  BY DEF IInv, TypeOK, Arrive, Produce, Await, Drop, Join, Reject, Admit, RequestPermit, StartWork,
    FinishWork, RecordDuration, CountOutcome, Publish, NotifyWaiters, Release, Subscribe, CheckResult,
    Wake, DropQueued, DropRunning, DropWaiting, Labels, Producing, Admitted, HasPermit, Waiting
<1>u. pc' \in [Calls -> Labels] /\ (\A d \in Calls : pc'[d] = IF d = c THEN l ELSE pc[d]) /\ pc'[c] = l
  BY <1>t, <1>n DEF Goto
<1>2. ASSUME NEW S
      PROVE  /\ Count(pc, S) \in Nat /\ Count(pc', S) \in Nat
             /\ pc[c] \in S => Count(pc, S) > 0
             /\ l \in S /\ pc[c] \in S => Count(pc', S) = Count(pc, S)
             /\ l \notin S /\ pc[c] \notin S => Count(pc', S) = Count(pc, S)
             /\ l \in S /\ pc[c] \notin S => Count(pc', S) = Count(pc, S) + 1
             /\ l \notin S /\ pc[c] \in S => Count(pc', S) = Count(pc, S) - 1
  <2>1. Count(pc, S) \in Nat /\ Count(pc', S) \in Nat
    BY <1>t, <1>u, CountMoves
  <2>2. pc[c] \in S => Count(pc, S) > 0
    BY <1>t, <1>u, CountMoves
  <2>3. l \in S /\ pc[c] \in S => Count(pc', S) = Count(pc, S)
    BY <1>t, <1>u, CountMoves
  <2>4. l \notin S /\ pc[c] \notin S => Count(pc', S) = Count(pc, S)
    BY <1>t, <1>u, CountMoves
  <2>5. l \in S /\ pc[c] \notin S => Count(pc', S) = Count(pc, S) + 1
    BY <1>t, <1>u, CountMoves
  <2>6. l \notin S /\ pc[c] \in S => Count(pc', S) = Count(pc, S) - 1
    BY <1>t, <1>u, CountMoves
  <2>7. QED
    BY <2>1, <2>2, <2>3, <2>4, <2>5, <2>6
<1>1. /\ P \in Nat /\ P' \in Nat /\ W \in Nat /\ W' \in Nat
      /\ P' = P + (IF l \in HasPermit THEN 1 ELSE 0) - (IF pc[c] \in HasPermit THEN 1 ELSE 0)
      /\ W' = W + (IF l = "working" THEN 1 ELSE 0) - (IF pc[c] = "working" THEN 1 ELSE 0)
      /\ pc[c] = "working" => W > 0
  BY <1>2
<1>3. permits + P = Concurrency /\ active >= W /\ permits \in Nat /\ active \in Nat /\ Concurrency \in Nat
  BY <1>0, QueueAssumption DEF IInv, PermitsConserved, ActiveCovers, TypeOK
<1> SUFFICES permits' + P' = Concurrency /\ active' >= W' /\ permits' \in Nat /\ active' \in Nat
  BY <1>p, <1>1, <1>3 DEF PermitsConserved, ActiveCovers
<1> USE DEF Labels, Producing, Admitted, HasPermit, Waiting, local, Goto
<1>a1. CASE Join(c)
  BY <1>1, <1>3, <1>u, <1>a1 DEF Join
<1>a2. CASE Reject(c)
  BY <1>1, <1>3, <1>u, <1>a2 DEF Reject
<1>a3. CASE Admit(c)
  BY <1>1, <1>3, <1>u, <1>a3 DEF Admit
<1>a4. CASE RequestPermit(c)
  BY <1>1, <1>3, <1>u, <1>a4 DEF RequestPermit
<1>a5. CASE StartWork(c)
  <2>1. pc[c] = "queued" /\ l = "working" /\ permits > 0
    BY <1>t, <1>u, <1>a5 DEF StartWork
  <2>2. permits' = permits - 1 /\ active' = active + 1
    BY <1>a5 DEF StartWork
  <2>3. P' = P + 1 /\ W' = W + 1
    BY <1>1, <2>1
  <2>4. QED
    BY <1>1, <1>3, <2>1, <2>2, <2>3
<1>a6. CASE FinishWork(c)
  BY <1>1, <1>3, <1>u, <1>a6 DEF FinishWork, Finished
<1>a7. CASE RecordDuration(c)
  BY <1>1, <1>3, <1>u, <1>a7 DEF RecordDuration
<1>a8. CASE CountOutcome(c)
  BY <1>1, <1>3, <1>u, <1>a8 DEF CountOutcome
<1>a9. CASE Publish(c)
  BY <1>1, <1>3, <1>u, <1>a9 DEF Publish
<1>a10. CASE NotifyWaiters(c)
  BY <1>1, <1>3, <1>u, <1>a10 DEF NotifyWaiters
<1>a11. CASE Release(c)
  BY <1>1, <1>3, <1>u, <1>a11 DEF Release, FreedPermits
<1>a12. CASE Subscribe(c)
  BY <1>1, <1>3, <1>u, <1>a12 DEF Subscribe
<1>a13. CASE CheckResult(c)
  BY <1>1, <1>3, <1>u, <1>a13 DEF CheckResult
<1>a14. CASE Wake(c)
  BY <1>1, <1>3, <1>u, <1>a14 DEF Wake
<1>a15. CASE DropQueued(c)
  BY <1>1, <1>3, <1>u, <1>a15 DEF DropQueued
<1>a16. CASE DropRunning(c)
  BY <1>1, <1>3, <1>u, <1>a16 DEF DropRunning, FreedPermits
<1>a17. CASE DropWaiting(c)
  BY <1>1, <1>3, <1>u, <1>a17 DEF DropWaiting
<1>q. QED
  BY <1>a1, <1>a2, <1>a3, <1>a4, <1>a5, <1>a6, <1>a7, <1>a8, <1>a9, <1>a10, <1>a11, <1>a12,
     <1>a13, <1>a14, <1>a15, <1>a16, <1>a17 DEF Arrive, Produce, Await, Drop

\* Each step keeps the map within the capacity.
LEMMA MapStep == ASSUME IInv, NEW c \in Calls,
  Arrive(c) \/ Produce(c) \/ Await(c) \/ Drop(c)
  PROVE (Cardinality(InMap) <= Capacity)'
<1>0. IsFiniteSet(InMap) /\ Cardinality(InMap) \in Nat /\ Capacity \in Nat
  BY QueueAssumption, FS_Subset, FS_CardinalityType DEF InMap, Capacity
<1>1. CASE Admit(c)
  <2>1. InMap' \subseteq InMap \cup {key[c]}
    BY <1>1 DEF Admit, Register, InMap, IInv, TypeOK
  <2> DEFINE n == Cardinality(InMap \cup {key[c]})
  <2>2. /\ IsFiniteSet(InMap \cup {key[c]})
        /\ n = Cardinality(InMap) \/ n = Cardinality(InMap) + 1
    BY <1>0, FS_AddElement
  <2>3. Cardinality(InMap') <= Cardinality(InMap \cup {key[c]})
    BY <2>1, <2>2, FS_Subset
  <2>4. Cardinality(InMap) + 1 <= Capacity
    BY <1>0, <1>1 DEF Admit, Full
  <2>5. Cardinality(InMap') \in Nat /\ Cardinality(InMap \cup {key[c]}) \in Nat
    BY <2>1, <2>2, FS_Subset, FS_CardinalityType
  <2>6. QED
    BY <1>0, <2>2, <2>3, <2>4, <2>5
<1>2. CASE ~Admit(c)
  <2>1. InMap' \subseteq InMap
    <3>1. CASE Release(c)
      BY <3>1 DEF Release, Unregister, InMap, IInv, TypeOK
    <3>2. CASE ~Release(c)
      <4>1. inFlight' = inFlight
        BY <1>2, <3>2 DEF Arrive, Produce, Await, Drop, Join, Reject, RequestPermit, StartWork,
          FinishWork, RecordDuration, CountOutcome, Publish, NotifyWaiters, Subscribe, CheckResult,
          Wake, DropQueued, DropRunning, DropWaiting
      <4>2. QED
        BY <4>1 DEF InMap
    <3>3. QED
      BY <3>1, <3>2
  <2>2. Cardinality(InMap') <= Cardinality(InMap) /\ Cardinality(InMap') \in Nat
    BY <1>0, <2>1, FS_Subset, FS_CardinalityType
  <2>3. QED
    BY <1>0, <2>2 DEF IInv
<1>3. QED
  BY <1>1, <1>2

\* The queue stays in the inductive invariant for ever.
LEMMA Inductive == IInv /\ [Next]_vars => IInv'
<1> SUFFICES ASSUME IInv, [Next]_vars PROVE IInv'
  OBVIOUS
<1>1. CASE UNCHANGED vars
  BY <1>1 DEF vars, counters, IInv, TypeOK, OwnsEntry, EntryHasProducer, HolderSharesKey,
     OutcomePublished, PastWork, AnswersFinal, PermitsConserved, ActiveCovers, At, InMap
<1>2. ASSUME NEW c \in Calls, Arrive(c) \/ Produce(c) \/ Await(c) \/ Drop(c)
      PROVE  IInv'
  <2>1. PermitsConserved' /\ ActiveCovers' /\ permits' \in 0 .. Concurrency /\ active' \in Nat
    BY <1>2, CountStep
  <2>2. TypeOK'
    BY <1>2, <2>1, TypeStep DEF IInv
  <2>3. (OwnsEntry /\ EntryHasProducer /\ HolderSharesKey)'
    BY <1>2, OwnershipStep
  <2>4. (OutcomePublished /\ AnswersFinal)'
    BY <1>2, OutcomeStep
  <2>5. (Cardinality(InMap) <= Capacity)'
    BY <1>2, MapStep
  <2>6. QED
    BY <2>1, <2>2, <2>3, <2>4, <2>5 DEF IInv
<1>3. QED
  BY <1>1, <1>2 DEF Next

\* It holds in every state of the queue.
THEOREM Invariance == Spec => []IInv
BY InitIInv, Inductive, PTL DEF Spec

-----------------------------------------------------------------------------
(* What the invariant gives.                                               *)

\* The variables keep their types: `active` never wraps below zero and the
\* free permits never exceed the semaphore's.
THEOREM TypeCorrect == Spec => []TypeOK
BY Invariance, PTL DEF IInv

\* The work of one key never runs twice at a time, whichever futures drop.
THEOREM OneProducerPerKey == Spec => []SingleFlight
<1>1. IInv => SingleFlight
  BY DEF IInv, OwnsEntry, SingleFlight
<1>2. QED
  BY Invariance, <1>1, PTL

\* Every caller is told what its key's producer ended with.
THEOREM SharedAnswers == Spec => []AnswersShared
<1>1. IInv => AnswersShared
  BY QueueAssumption DEF IInv, TypeOK, AnswersFinal, HolderSharesKey, PastWork, AnswersShared, Kinds
<1>2. QED
  BY Invariance, <1>1, PTL

\* Permits are conserved.
THEOREM PermitsAreConserved == Spec => []PermitsConserved
BY Invariance, PTL DEF IInv

\* Neither limit of the queue is ever exceeded.
THEOREM QueueIsBounded == Spec => []CapacityBound
<1>1. IInv => CapacityBound
  <2> SUFFICES ASSUME IInv PROVE Cardinality(At({"working"})) <= Concurrency
    BY DEF IInv, CapacityBound
  <2>1. At({"working"}) \subseteq At(HasPermit) /\ IsFiniteSet(At(HasPermit))
    BY QueueAssumption, FS_Subset DEF At, HasPermit
  <2>2. Cardinality(At({"working"})) <= Cardinality(At(HasPermit))
    BY <2>1, FS_Subset
  <2>3. Cardinality(At({"working"})) \in Nat /\ Cardinality(At(HasPermit)) \in Nat
    BY <2>1, FS_Subset, FS_CardinalityType
  <2>4. permits + Cardinality(At(HasPermit)) = Concurrency /\ permits \in Nat
    BY QueueAssumption DEF IInv, PermitsConserved, TypeOK
  <2>5. QED
    BY <2>2, <2>3, <2>4, QueueAssumption
<1>2. QED
  BY Invariance, <1>1, PTL

-----------------------------------------------------------------------------
(* The counters of the snapshot.                                           *)

\* An outcome belongs to a producer that is past its work.
OutcomeOfProducer ==
    \A c \in Calls : outcome[c] # "none" =>
        /\ pc[c] \in (HasPermit \ {"working"}) \cup {"done", "dropped"}
        /\ holder[c] = c

\* The producers that left a sample.
Measured == {c \in Calls : pc[c] \notin {"worked"} /\ outcome[c] # "none"}

Shares == {c \in Calls : holder[c] \notin {c, NoCall}}

CountInv ==
    /\ OutcomeOfProducer
    /\ completed = Cardinality(Returned({"ok"}))
    /\ failed = Cardinality(Returned({"failed", "exceeded"}))
    /\ deduplicated = Cardinality(Shares)
    /\ samples = Window \/ samples >= Cardinality(Measured)
    /\ active <= Cardinality(At({"working"})) + Cardinality(At({"dropped"}))

\* One more call in a set of calls is one more in its count.
LEMMA OneMore == ASSUME NEW S \in SUBSET Calls, NEW c \in Calls \ S
                 PROVE  Cardinality(S \cup {c}) = Cardinality(S) + 1 /\ Cardinality(S) \in Nat
<1>1. IsFiniteSet(S)
  BY QueueAssumption, FS_Subset
<1>2. QED
  BY <1>1, FS_AddElement, FS_CardinalityType

\* One less is one less.
LEMMA OneLess == ASSUME NEW S \in SUBSET Calls, NEW c \in S
                 PROVE  Cardinality(S \ {c}) = Cardinality(S) - 1 /\ Cardinality(S) \in Nat
<1>1. IsFiniteSet(S)
  BY QueueAssumption, FS_Subset
<1>2. QED
  BY <1>1, FS_RemoveElement, FS_CardinalityType

\* A step other than those named leaves the sets that are counted alone.
LEMMA Uncounted == ASSUME IInv, OutcomeOfProducer, NEW c \in Calls,
  Arrive(c) \/ Produce(c) \/ Await(c) \/ Drop(c)
  PROVE /\ OutcomeOfProducer'
        /\ ~CountOutcome(c) => /\ completed' = completed /\ failed' = failed
                               /\ \A K \in SUBSET Kinds : Returned(K)' = Returned(K)
        /\ ~Join(c) => deduplicated' = deduplicated /\ Shares' = Shares
        /\ ~RecordDuration(c) => samples' = samples /\ Measured' = Measured
<1> USE QueueAssumption DEF IInv, TypeOK, OutcomeOfProducer, Goto, local, counters, Labels,
        Producing, Admitted, HasPermit, Waiting, Kinds, HolderSharesKey, OutcomePublished,
        Counted, Returned, Shares, Measured
<1>1. CASE Join(c)
  BY <1>1 DEF Join, CountOutcome, RecordDuration
<1>2. CASE Reject(c)
  BY <1>2 DEF Reject
<1>3. CASE Admit(c)
  BY <1>3 DEF Admit
<1>4. CASE RequestPermit(c)
  BY <1>4 DEF RequestPermit
<1>5. CASE StartWork(c)
  BY <1>5 DEF StartWork
<1>6. CASE FinishWork(c)
  BY <1>6 DEF FinishWork
<1>7. CASE RecordDuration(c)
  BY <1>7 DEF RecordDuration
<1>8. CASE CountOutcome(c)
  BY <1>8 DEF CountOutcome
<1>9. CASE Publish(c)
  BY <1>9 DEF Publish
<1>10. CASE NotifyWaiters(c)
  BY <1>10 DEF NotifyWaiters
<1>11. CASE Release(c)
  BY <1>11 DEF Release
<1>12. CASE Subscribe(c)
  BY <1>12 DEF Subscribe
<1>13. CASE CheckResult(c)
  <2>1. /\ pc[c] = "subscribed" /\ outcome[c] = "none"
        /\ pc' = [pc EXCEPT ![c] = "done"] \/ pc' = [pc EXCEPT ![c] = "parked"]
        /\ UNCHANGED <<holder, outcome, counters>>
    BY <1>13 DEF CheckResult
  <2>2. QED
    BY <2>1
<1>14. CASE Wake(c)
  BY <1>14 DEF Wake
<1>15. CASE DropQueued(c)
  BY <1>15 DEF DropQueued
<1>16. CASE DropRunning(c)
  BY <1>16 DEF DropRunning
<1>17. CASE DropWaiting(c)
  BY <1>17 DEF DropWaiting
<1>q. QED
  BY <1>1, <1>2, <1>3, <1>4, <1>5, <1>6, <1>7, <1>8, <1>9, <1>10, <1>11, <1>12, <1>13,
     <1>14, <1>15, <1>16, <1>17 DEF Arrive, Produce, Await, Drop

\* Each step keeps the counters equal to what they count.
LEMMA CountersStep == ASSUME IInv, CountInv, NEW c \in Calls,
  Arrive(c) \/ Produce(c) \/ Await(c) \/ Drop(c)
  PROVE (/\ completed = Cardinality(Returned({"ok"}))
         /\ failed = Cardinality(Returned({"failed", "exceeded"}))
         /\ deduplicated = Cardinality(Shares)
         /\ samples = Window \/ samples >= Cardinality(Measured))'
<1> DEFINE Good == Returned({"ok"})
           Bad  == Returned({"failed", "exceeded"})
<1>0. /\ OutcomeOfProducer /\ TypeOK /\ HolderSharesKey /\ OutcomePublished
      /\ completed = Cardinality(Good) /\ failed = Cardinality(Bad)
      /\ deduplicated = Cardinality(Shares)
      /\ samples = Window \/ samples >= Cardinality(Measured)
  BY DEF CountInv, IInv
<1>a. {"ok"} \in SUBSET Kinds /\ {"failed", "exceeded"} \in SUBSET Kinds
  BY DEF Kinds
<1>1. (completed = Cardinality(Good) /\ failed = Cardinality(Bad))'
  <2>1. CASE ~CountOutcome(c)
    BY <1>0, <1>a, <2>1, Uncounted
  <2>2. CASE CountOutcome(c)
    <3>1. /\ pc[c] = "recorded" /\ holder[c] = c /\ outcome[c] \in Kinds
          /\ pc' = [pc EXCEPT ![c] = "counted"] /\ UNCHANGED <<holder, outcome>>
      BY <1>0, <2>2 DEF CountOutcome, Goto, local, OutcomePublished, HolderSharesKey,
         Producing, HasPermit
    <3>2. \A K : Returned(K)' = IF outcome[c] \in K THEN Returned(K) \cup {c} ELSE Returned(K)
      BY <1>0, <3>1 DEF Returned, Counted, TypeOK
    <3>3. \A K : Returned(K) \in SUBSET Calls /\ c \notin Returned(K)
      BY <3>1 DEF Returned, Counted
    <3>4. CASE outcome[c] = "ok"
      <4>1. completed' = completed + 1 /\ failed' = failed
        BY <2>2, <3>4 DEF CountOutcome, Succeeded
      <4>2. Good' = Good \cup {c} /\ Bad' = Bad
        BY <3>2, <3>4
      <4>3. Cardinality(Good \cup {c}) = Cardinality(Good) + 1
        BY <3>3, OneMore
      <4>4. QED
        BY <1>0, <4>1, <4>2, <4>3
    <3>5. CASE outcome[c] # "ok"
      <4>1. completed' = completed /\ failed' = failed + 1
        BY <2>2, <3>5 DEF CountOutcome, Succeeded
      <4>2. Good' = Good /\ Bad' = Bad \cup {c}
        BY <3>1, <3>2, <3>5 DEF Kinds
      <4>3. Cardinality(Bad \cup {c}) = Cardinality(Bad) + 1
        BY <3>3, OneMore
      <4>4. QED
        BY <1>0, <4>1, <4>2, <4>3
    <3>6. QED
      BY <3>4, <3>5
  <2>3. QED
    BY <2>1, <2>2
<1>2. (deduplicated = Cardinality(Shares))'
  <2>1. CASE ~Join(c)
    BY <1>0, <2>1, Uncounted
  <2>2. CASE Join(c)
    <3>1. /\ pc[c] = "idle" /\ holder[c] = NoCall /\ inFlight[key[c]] \in Calls \ {c}
          /\ holder' = [holder EXCEPT ![c] = inFlight[key[c]]]
      BY <1>0, <2>2 DEF Join, HolderSharesKey, IInv, EntryHasProducer, TypeOK, Producing,
         Admitted, HasPermit
    <3>2. Shares' = Shares \cup {c} /\ c \notin Shares /\ Shares \in SUBSET Calls
      BY <1>0, <3>1, QueueAssumption DEF Shares, TypeOK
    <3>3. deduplicated' = deduplicated + 1
      BY <2>2 DEF Join
    <3>4. Cardinality(Shares \cup {c}) = Cardinality(Shares) + 1
      BY <3>2, OneMore
    <3>5. QED
      BY <1>0, <3>2, <3>3, <3>4
  <2>3. QED
    BY <2>1, <2>2
<1>3. (samples = Window \/ samples >= Cardinality(Measured))'
  <2>1. CASE ~RecordDuration(c)
    BY <1>0, <2>1, Uncounted
  <2>2. CASE RecordDuration(c)
    <3>1. /\ pc[c] = "worked" /\ outcome[c] \in Kinds
          /\ pc' = [pc EXCEPT ![c] = "recorded"] /\ outcome' = outcome
      BY <1>0, <2>2 DEF RecordDuration, Goto, local, OutcomePublished, HasPermit
    <3>2. Measured' = Measured \cup {c} /\ c \notin Measured /\ Measured \in SUBSET Calls
      BY <1>0, <3>1 DEF Measured, TypeOK, Kinds
    <3>3. samples' = IF samples < Window THEN samples + 1 ELSE samples
      BY <2>2 DEF RecordDuration, Sampled
    <3>4. Cardinality(Measured \cup {c}) = Cardinality(Measured) + 1
          /\ Cardinality(Measured) \in Nat
      BY <3>2, OneMore
    <3>5. samples \in 0 .. Window /\ Window \in Nat
      BY <1>0, QueueAssumption DEF TypeOK
    <3>6. QED
      BY <1>0, <3>2, <3>3, <3>4, <3>5
  <2>3. QED
    BY <2>1, <2>2
<1>4. QED
  BY <1>1, <1>2, <1>3

\* Each step moves the gauge with the running works, but for the drop of one.
LEMMA GaugeStep == ASSUME IInv, CountInv, NEW c \in Calls,
  Arrive(c) \/ Produce(c) \/ Await(c) \/ Drop(c)
  PROVE (active <= Cardinality(At({"working"})) + Cardinality(At({"dropped"})))'
<1> DEFINE W == At({"working"})
           D == At({"dropped"})
<1>t. TypeOK
  BY DEF IInv
<1>0. /\ active <= Cardinality(W) + Cardinality(D) /\ active \in Nat
      /\ Cardinality(W) \in Nat /\ Cardinality(D) \in Nat
  <2>1. IsFiniteSet(W) /\ IsFiniteSet(D)
    BY QueueAssumption, FS_Subset DEF At
  <2>2. QED
    BY <1>t, <2>1, FS_CardinalityType DEF CountInv, TypeOK
<1>1. CASE StartWork(c)
  <2>1. W' = W \cup {c} /\ c \notin W /\ W \in SUBSET Calls /\ D' = D /\ active' = active + 1
    BY <1>t, <1>1 DEF StartWork, Goto, At, TypeOK
  <2>2. Cardinality(W)' = Cardinality(W) + 1 /\ Cardinality(D)' = Cardinality(D)
    BY <2>1, OneMore
  <2>3. QED
    BY <1>0, <2>1, <2>2
<1>2. CASE FinishWork(c)
  <2>1. W' = W \ {c} /\ c \in W /\ W \in SUBSET Calls /\ D' = D /\ active' = active - 1
    BY <1>t, <1>2 DEF FinishWork, Finished, Goto, At, TypeOK
  <2>2. Cardinality(W)' = Cardinality(W) - 1 /\ Cardinality(D)' = Cardinality(D)
    BY <2>1, OneLess
  <2>3. QED
    BY <1>0, <2>1, <2>2
<1>3. CASE Drop(c)
  <2>1. /\ active' = active /\ D' = D \cup {c} /\ c \notin D /\ D \in SUBSET Calls
        /\ W' = W \ {c} /\ W \in SUBSET Calls
    BY <1>t, <1>3 DEF Drop, DropQueued, DropRunning, DropWaiting, Goto, At, TypeOK
  <2>2. Cardinality(D)' = Cardinality(D) + 1
    BY <2>1, OneMore
  <2>3. CASE c \in W
    <3>1. Cardinality(W)' = Cardinality(W) - 1
      BY <2>1, <2>3, OneLess
    <3>2. QED
      BY <1>0, <2>1, <2>2, <3>1
  <2>4. CASE c \notin W
    <3>1. Cardinality(W)' = Cardinality(W)
      <4>1. W \ {c} = W
        BY <2>4
      <4>2. QED
        BY <2>1, <4>1
    <3>2. QED
      BY <1>0, <2>1, <2>2, <3>1
  <2>5. QED
    BY <2>3, <2>4
<1>4. CASE ~StartWork(c) /\ ~FinishWork(c) /\ ~Drop(c)
  <2>1. active' = active
    BY <1>4 DEF Arrive, Produce, Await, Join, Reject, Admit, RequestPermit, RecordDuration,
       CountOutcome, Publish, NotifyWaiters, Release, Subscribe, CheckResult, Wake
  <2>2. \A d \in Calls : /\ pc'[d] = "working" <=> pc[d] = "working"
                         /\ pc'[d] = "dropped" <=> pc[d] = "dropped"
    BY <1>t, <1>4 DEF Arrive, Produce, Await, Join, Reject, Admit, RequestPermit, RecordDuration,
       CountOutcome, Publish, NotifyWaiters, Release, Subscribe, CheckResult, Wake, Goto, TypeOK
  <2>3. W' = W /\ D' = D
    BY <2>2 DEF At
  <2>4. QED
    BY <1>0, <2>1, <2>3
<1>5. QED
  BY <1>1, <1>2, <1>3, <1>4

\* The snapshot's counters tell exactly what the callers went through, for
\* every number of calls and every window.
THEOREM CountersAreExact == Spec => []CountersExact
<1>1. Init => CountInv
  <2> SUFFICES ASSUME Init PROVE CountInv
    OBVIOUS
  <2>1. /\ \A K : Returned(K) = {}
        /\ Shares = {} /\ Measured = {} /\ At({"working"}) = {} /\ At({"dropped"}) = {}
    BY DEF Init, Returned, Counted, Shares, Measured, At
  <2>2. Cardinality({}) = 0
    BY FS_EmptySet
  <2>3. OutcomeOfProducer
    BY DEF Init, OutcomeOfProducer
  <2>4. completed = 0 /\ failed = 0 /\ deduplicated = 0 /\ samples = 0 /\ active = 0
    BY DEF Init
  <2>5. QED
    BY <2>1, <2>2, <2>3, <2>4 DEF CountInv
<1>2. IInv /\ CountInv /\ [Next]_vars => CountInv'
  <2> SUFFICES ASSUME IInv, CountInv, [Next]_vars PROVE CountInv'
    OBVIOUS
  <2>1. CASE UNCHANGED vars
    BY <2>1 DEF vars, counters, CountInv, OutcomeOfProducer, Returned, Shares, Measured, At
  <2>2. ASSUME NEW c \in Calls, Arrive(c) \/ Produce(c) \/ Await(c) \/ Drop(c)
        PROVE  CountInv'
    BY <2>2, CountersStep, GaugeStep, Uncounted DEF CountInv
  <2>3. QED
    BY <2>1, <2>2 DEF Next
<1>3. IInv /\ CountInv => CountersExact
  <2> SUFFICES ASSUME IInv, CountInv PROVE CountersExact
    OBVIOUS
  <2> DEFINE Good == Returned({"ok"})
             Bad  == Returned({"failed", "exceeded"})
  <2>1. active \in Cardinality(At({"working"})) ..
                       Cardinality(At({"working"})) + Cardinality(At({"dropped"}))
    <3>1. IsFiniteSet(At({"working"})) /\ IsFiniteSet(At({"dropped"}))
      BY QueueAssumption, FS_Subset DEF At
    <3>2. Cardinality(At({"working"})) \in Nat /\ Cardinality(At({"dropped"})) \in Nat
      BY <3>1, FS_CardinalityType
    <3>3. QED
      BY <3>2 DEF IInv, TypeOK, ActiveCovers, CountInv
  <2>2. completed + failed <= Window => samples >= completed + failed
    <3>1. IsFiniteSet(Measured) /\ IsFiniteSet(Good) /\ IsFiniteSet(Bad)
      BY QueueAssumption, FS_Subset DEF Measured, Returned
    <3>2. Good \cap Bad = {} /\ Good \cup Bad \subseteq Measured
      BY DEF Returned, Measured, Counted
    <3> HIDE DEF Good, Bad
    <3>3. Cardinality(Good \cup Bad) = Cardinality(Good) + Cardinality(Bad)
      <4>1. Cardinality(Good \cap Bad) = 0
        BY <3>2, FS_EmptySet
      <4>2. Cardinality(Good) \in Nat /\ Cardinality(Bad) \in Nat
        BY <3>1, FS_CardinalityType
      <4>3. Cardinality(Good \cup Bad) =
               Cardinality(Good) + Cardinality(Bad) - Cardinality(Good \cap Bad)
        BY <3>1, FS_Union, Zenon
      <4>4. QED
        BY <4>1, <4>2, <4>3
    <3>4. Cardinality(Good \cup Bad) <= Cardinality(Measured)
      BY <3>1, <3>2, FS_Subset
    <3>5. Cardinality(Measured) \in Nat /\ Cardinality(Good) \in Nat /\ Cardinality(Bad) \in Nat
      BY <3>1, FS_CardinalityType
    <3> USE DEF Good, Bad
    <3>6. completed = Cardinality(Good) /\ failed = Cardinality(Bad)
          /\ (samples = Window \/ samples >= Cardinality(Measured)) /\ samples \in Nat
      BY QueueAssumption DEF CountInv, IInv, TypeOK
    <3>7. Window \in Nat
      BY QueueAssumption
    <3>8. QED
      BY <3>3, <3>4, <3>5, <3>6, <3>7
  <2>3. QED
    BY <2>1, <2>2 DEF CountersExact, CountInv, Shares
<1>4. QED
  BY <1>1, <1>2, <1>3, Invariance, PTL DEF Spec

-----------------------------------------------------------------------------
(* Refusals.                                                               *)

Open == {inFlight[k] : k \in InMap}

\* The open flights are as many as the keys in the map.
LEMMA OpenCount == IInv => Cardinality(Open) = Cardinality(InMap)
<1> SUFFICES ASSUME IInv PROVE Cardinality(Open) = Cardinality(InMap)
  OBVIOUS
<1> DEFINE f == [k \in InMap |-> inFlight[k]]
<1>1. IsFiniteSet(InMap)
  BY QueueAssumption, FS_Subset DEF InMap
<1>2. \A k \in InMap : key[inFlight[k]] = k
  BY DEF IInv, EntryHasProducer, InMap
<1>3. f \in Bijection(InMap, Open)
  BY <1>2 DEF Open, Bijection, Injection, Surjection, IsInjective
<1>4. QED
  BY <1>1, <1>3, FS_Bijection DEF ExistsBijection

\* A producer whose future was dropped leaves its entry in the map for good;
\* those who wait, wait for another.
DroppedKeepsEntry ==
    \A c \in Calls : /\ pc[c] = "dropped" /\ holder[c] = c => inFlight[key[c]] = c
                     /\ pc[c] \in Waiting => holder[c] # c

LEMMA DroppedStep == ASSUME IInv, DroppedKeepsEntry, NEW c \in Calls,
  Arrive(c) \/ Produce(c) \/ Await(c) \/ Drop(c)
  PROVE DroppedKeepsEntry'
<1> USE QueueAssumption DEF IInv, TypeOK, OwnsEntry, EntryHasProducer, HolderSharesKey,
        DroppedKeepsEntry, Goto, local, Labels, Producing, Admitted, HasPermit, Waiting
<1>1. CASE Admit(c)
  BY <1>1 DEF Admit, Register
<1>2. CASE Release(c)
  BY <1>2 DEF Release, Unregister
<1>3. CASE Drop(c)
  BY <1>3 DEF Drop, DropQueued, DropRunning, DropWaiting
<1>4. CASE Join(c) \/ Reject(c) \/ CheckResult(c)
  BY <1>4 DEF Join, Reject, CheckResult
<1>5. CASE \/ RequestPermit(c) \/ StartWork(c) \/ FinishWork(c) \/ RecordDuration(c)
           \/ CountOutcome(c) \/ Publish(c) \/ NotifyWaiters(c) \/ Subscribe(c) \/ Wake(c)
  BY <1>5 DEF RequestPermit, StartWork, FinishWork, RecordDuration, CountOutcome, Publish,
     NotifyWaiters, Subscribe, Wake
<1>6. QED
  BY <1>1, <1>2, <1>3, <1>4, <1>5 DEF Arrive, Produce, Await

\* A call is refused only while Capacity others produce or were dropped
\* while they did: no entry of a call that returned takes up a place.
THEOREM RefusalsAreEarned == Spec => RefusedOnlyWhenBusy
<1>1. Init => DroppedKeepsEntry
  BY DEF Init, DroppedKeepsEntry, Waiting
<1>2. IInv /\ DroppedKeepsEntry /\ [Next]_vars => DroppedKeepsEntry'
  <2>1. UNCHANGED vars /\ DroppedKeepsEntry => DroppedKeepsEntry'
    BY DEF vars, DroppedKeepsEntry
  <2>2. QED
    BY <2>1, DroppedStep DEF Next
<1>3. ASSUME IInv, DroppedKeepsEntry, [Next]_vars, NEW c \in Calls,
             answer'[c] = Busy, answer[c] # Busy
      PROVE  Cardinality({p \in At(Producing \cup {"dropped"}) : holder[p] = p}) = Capacity
  <2>1. Full
    <3>1. PICK d \in Calls : Arrive(d) \/ Produce(d) \/ Await(d) \/ Drop(d)
      BY <1>3 DEF Next, vars
    <3>2. CASE Reject(d)
      BY <3>2 DEF Reject
    <3>3. CASE Release(d)
      BY <1>3, <3>3 DEF Release, Busy, IInv, TypeOK, OutcomePublished, HasPermit, Kinds
    <3>4. CASE CheckResult(d)
      <4>1. holder[d] \in Calls /\ result[holder[d]] \in Kinds \cup {"none"}
        BY <1>3, <3>4 DEF CheckResult, IInv, TypeOK, HolderSharesKey, Waiting
      <4>2. \/ answer' = answer
            \/ /\ answer' = [answer EXCEPT ![d] = [kind |-> result[holder[d]], by |-> holder[d]]]
               /\ result[holder[d]] # "none"
        BY <3>4 DEF CheckResult
      <4>3. QED
        BY <1>3, <4>1, <4>2 DEF Busy, Kinds, IInv, TypeOK
    <3>5. CASE ~Reject(d) /\ ~Release(d) /\ ~CheckResult(d)
      <4>1. answer' = answer
        BY <3>1, <3>5 DEF Arrive, Produce, Await, Drop, Join, Admit, RequestPermit, StartWork,
           FinishWork, RecordDuration, CountOutcome, Publish, NotifyWaiters, Subscribe, Wake,
           DropQueued, DropRunning, DropWaiting, local
      <4>2. QED
        BY <1>3, <4>1
    <3>6. QED
      BY <3>2, <3>3, <3>4, <3>5
  <2>2. {p \in At(Producing \cup {"dropped"}) : holder[p] = p} = {inFlight[k] : k \in InMap}
    <3>1. \A p \in At(Producing \cup {"dropped"}) : holder[p] = p => inFlight[key[p]] = p
      BY <1>3 DEF At, IInv, OwnsEntry, DroppedKeepsEntry
    <3>2. \A p \in Calls : key[p] \in Keys /\ p # NoCall
      BY <1>3, QueueAssumption DEF IInv, TypeOK
    <3>3. \A k \in InMap : inFlight[k] \in At(Producing \cup {"dropped"})
                           /\ holder[inFlight[k]] = inFlight[k]
      BY <1>3 DEF InMap, At, IInv, TypeOK, EntryHasProducer
    <3>4. QED
      BY <3>1, <3>2, <3>3 DEF InMap, At
  <2>3. Cardinality({inFlight[k] : k \in InMap}) = Cardinality(InMap)
    BY <1>3, OpenCount DEF Open
  <2>4. Cardinality(InMap) \in Nat /\ Capacity \in Nat
    BY QueueAssumption, FS_Subset, FS_CardinalityType DEF InMap, Capacity
  <2>5. Cardinality(InMap) = Capacity
    BY <1>3, <2>1, <2>4 DEF IInv, Full
  <2>6. QED
    BY <2>2, <2>3, <2>5
<1>4. IInv /\ DroppedKeepsEntry /\ [Next]_vars =>
        [\A c \in Calls : answer'[c] = Busy /\ answer[c] # Busy =>
          Cardinality({p \in At(Producing \cup {"dropped"}) : holder[p] = p}) = Capacity]_vars
  BY <1>3
<1>5. QED
  BY <1>1, <1>2, <1>4, Invariance, PTL DEF Spec, RefusedOnlyWhenBusy

-----------------------------------------------------------------------------
(* The queue implements Coalescing.                                        *)

\* Coalescing counts with the same Cardinality.
LEMMA SameCardinality == ASSUME NEW S PROVE Abstract!Cardinality(S) = Cardinality(S)
BY DEF Abstract!Cardinality, Cardinality

\* The queue starts where Coalescing starts.
LEMMA InitImplements == Init => Abstract!Init
BY DEF Init, Abstract!Init, AbstractPhase, InMap, NoAnswer, Abstract!NoAnswer

\* Each step of the queue is a step of Coalescing, or changes nothing in it.
LEMMA StepImplements == ASSUME IInv, IInv', [Next]_vars
                        PROVE  [Abstract!Next]_(Abstract!vars)
<1> DEFINE phase == [c \in Calls |-> AbstractPhase(pc[c])]
<1>1. CASE UNCHANGED vars
  BY <1>1 DEF vars, counters, Abstract!vars, InMap
<1>2. ASSUME NEW c \in Calls, Arrive(c) \/ Produce(c) \/ Await(c) \/ Drop(c)
      PROVE  Abstract!Next \/ UNCHANGED Abstract!vars
  <2>t. TypeOK
    BY DEF IInv
  <2>p. ASSUME NEW l \in Labels, Goto(c, l)
        PROVE  phase' = [phase EXCEPT ![c] = AbstractPhase(l)]
    BY <2>t, <2>p DEF TypeOK, Goto
  <2>s. ASSUME NEW l \in Labels, Goto(c, l), AbstractPhase(l) = AbstractPhase(pc[c]),
               UNCHANGED <<key, holder, inFlight, result, answer>>
        PROVE  UNCHANGED Abstract!vars
    <3>1. phase' = phase
      BY <2>p, <2>s
    <3>2. QED
      BY <3>1, <2>s DEF Abstract!vars, InMap
  <2> USE DEF Labels, Producing, Admitted, HasPermit, Waiting
  <2>1. CASE Join(c)
    <3>1. phase[c] = "idle" /\ phase' = [phase EXCEPT ![c] = "waiting"]
      BY <2>p, <2>1 DEF Join, AbstractPhase
    <3>2. inFlight[key[c]] \in Abstract!Flight(c)
      BY <2>t, <2>1 DEF Join, Abstract!Flight, InMap, TypeOK, IInv, EntryHasProducer
    <3>3. UNCHANGED <<key, Open, result, answer>> /\ holder' = [holder EXCEPT ![c] = inFlight[key[c]]]
      BY <2>1 DEF Join, Open, InMap
    <3>4. Abstract!Follow(c)
      BY <3>1, <3>2, <3>3 DEF Abstract!Follow, Open
    <3>5. QED
      BY <3>4 DEF Abstract!Next
  <2>n. inFlight[key[c]] = NoCall => Abstract!Flight(c) = {}
    BY <2>t DEF Abstract!Flight, InMap, TypeOK, IInv, EntryHasProducer
  <2>2. CASE Reject(c)
    <3>1. phase[c] = "idle" /\ phase' = [phase EXCEPT ![c] = "answered"]
      BY <2>p, <2>2 DEF Reject, AbstractPhase
    <3>2. Cardinality(Open) >= Capacity /\ UNCHANGED <<key, holder, Open, result>>
      BY <2>2, OpenCount DEF Reject, Full, Open, InMap
    <3>3. answer' = [answer EXCEPT ![c] = Busy]
      BY <2>2 DEF Reject
    <3>4. Abstract!Refuse(c)
      <4>1. Abstract!Flight(c) = {}
        BY <2>n, <2>2 DEF Reject
      <4>2. answer' = [answer EXCEPT ![c] = Abstract!Busy]
        BY <3>3 DEF Busy, Abstract!Busy
      <4>3. Abstract!Cardinality({inFlight[k] : k \in InMap}) >= Capacity
        BY <3>2, SameCardinality DEF Open
      <4>4. {inFlight[k] : k \in InMap}' = {inFlight[k] : k \in InMap}
        BY <3>2 DEF Open
      <4>5. UNCHANGED <<key, holder, result>>
        BY <3>2
      <4>6. QED
        BY <3>1, <4>1, <4>2, <4>3, <4>4, <4>5, Zenon DEF Abstract!Refuse
    <3>5. QED
      BY <3>4 DEF Abstract!Next
  <2>3. CASE Admit(c)
    <3>1. phase[c] = "idle" /\ phase' = [phase EXCEPT ![c] = "waiting"]
      BY <2>p, <2>3 DEF Admit, AbstractPhase
    <3>2. Cardinality(Open) < Capacity
      <4>1. Cardinality(InMap) \in Nat /\ Capacity \in Nat
        BY QueueAssumption, FS_Subset, FS_CardinalityType DEF InMap, Capacity
      <4>2. QED
        BY <2>3, <4>1, OpenCount DEF Admit, Full
    <3>3. Open' = Open \cup {c}
      BY <2>t, <2>3, QueueAssumption DEF Admit, Register, Open, InMap, TypeOK
    <3>4. Abstract!Lead(c)
      <4>1. Abstract!Flight(c) = {}
        BY <2>n, <2>3 DEF Admit
      <4>2. holder' = [holder EXCEPT ![c] = c] /\ UNCHANGED <<key, result, answer>>
        BY <2>3 DEF Admit
      <4>3. Abstract!Cardinality({inFlight[k] : k \in InMap}) < Capacity
        BY <3>2, SameCardinality DEF Open
      <4>4. {inFlight[k] : k \in InMap}' = {inFlight[k] : k \in InMap} \cup {c}
        BY <3>3 DEF Open
      <4>5. QED
        BY <3>1, <4>1, <4>2, <4>3, <4>4, Zenon DEF Abstract!Lead
    <3>5. QED
      BY <3>4 DEF Abstract!Next
  <2>4. CASE Publish(c)
    <3>a. phase[c] = "waiting" /\ result[c] = "none"
      BY <2>t, <2>4 DEF Publish, AbstractPhase, IInv, OutcomePublished
    <3>b. phase' = [phase EXCEPT ![c] = "waiting"]
      BY <2>p, <2>4 DEF Publish, AbstractPhase
    <3>c. phase' = phase
      BY <3>a, <3>b
    <3>1. phase[c] = "waiting" /\ phase' = phase /\ result[c] = "none"
      BY <3>a, <3>c
    <3>2. c \in Open
      BY <2>t, <2>4, QueueAssumption DEF Publish, IInv, TypeOK, OwnsEntry, Open, InMap
    <3>3. outcome[c] \in Kinds /\ result' = [result EXCEPT ![c] = outcome[c]]
          /\ UNCHANGED <<key, holder, Open, answer>>
      BY <2>4 DEF Publish, Shared, local, IInv, OutcomePublished, Open, InMap
    <3>4. Abstract!Settle(c)
      BY <3>1, <3>2, <3>3 DEF Abstract!Settle, Open
    <3>5. QED
      BY <3>4 DEF Abstract!Next
  <2>5. CASE Release(c)
    <3>1. phase[c] = "waiting" /\ phase' = [phase EXCEPT ![c] = "answered"]
      BY <2>p, <2>5 DEF Release, AbstractPhase
    <3>2. holder[c] = c /\ result[c] = outcome[c] /\ result[c] # "none"
      BY <2>5 DEF Release, IInv, HolderSharesKey, OutcomePublished, Kinds
    <3>3. Open' = Open \ {c}
      BY <2>t, <2>5, QueueAssumption
      DEF Release, Unregister, IInv, TypeOK, OwnsEntry, EntryHasProducer, Open, InMap
    <3>4. Abstract!Answer(c)
      BY <2>5, <3>1, <3>2, <3>3 DEF Release, Abstract!Answer, Abstract!Verdict, Open
    <3>5. QED
      BY <3>4 DEF Abstract!Next
  <2>6. CASE CheckResult(c)
    <3>1. CASE result[holder[c]] = "none"
      BY <2>s, <2>6, <3>1 DEF CheckResult, Goto, AbstractPhase
    <3>2. CASE result[holder[c]] # "none"
      <4>1. phase[c] = "waiting" /\ phase' = [phase EXCEPT ![c] = "answered"]
        BY <2>p, <2>6, <3>2 DEF CheckResult, AbstractPhase
      <4>2. c \notin Open
        BY <2>6 DEF CheckResult, IInv, EntryHasProducer, Open, InMap
      <4>3. Open' = Open \ {c} /\ UNCHANGED <<key, holder, result>>
        BY <2>6, <4>2 DEF CheckResult, Open, InMap
      <4>4. answer' = [answer EXCEPT ![c] = [kind |-> result[holder[c]], by |-> holder[c]]]
        BY <2>6, <3>2 DEF CheckResult
      <4>5. Abstract!Answer(c)
        BY <3>2, <4>1, <4>3, <4>4 DEF Abstract!Answer, Abstract!Verdict, Open
      <4>6. QED
        BY <4>5 DEF Abstract!Next
    <3>3. QED
      BY <3>1, <3>2
  <2>7. CASE Drop(c)
    <3>1. phase[c] = "waiting" /\ phase' = [phase EXCEPT ![c] = "dropped"] /\ c \in Droppable
      BY <2>p, <2>7 DEF Drop, DropQueued, DropRunning, DropWaiting, AbstractPhase
    <3>2. UNCHANGED <<key, holder, Open, result, answer>>
      BY <2>7 DEF Drop, DropQueued, DropRunning, DropWaiting, local, Open, InMap
    <3>3. Abstract!Abandon(c)
      BY <3>1, <3>2 DEF Abstract!Abandon, Open
    <3>4. QED
      BY <3>3 DEF Abstract!Next
  <2>8. CASE \/ RequestPermit(c) \/ StartWork(c) \/ FinishWork(c) \/ RecordDuration(c)
             \/ CountOutcome(c) \/ NotifyWaiters(c) \/ Subscribe(c) \/ Wake(c)
    BY <2>s, <2>8 DEF RequestPermit, StartWork, FinishWork, RecordDuration, CountOutcome,
       NotifyWaiters, Subscribe, Wake, local, AbstractPhase
  <2>9. QED
    BY <1>2, <2>1, <2>2, <2>3, <2>4, <2>5, <2>6, <2>7, <2>8 DEF Arrive, Produce, Await
<1>3. QED
  BY <1>1, <1>2 DEF Next

\* Every behaviour of the queue, dropped calls included, is a behaviour of
\* the abstract promise.
THEOREM QueueImplementsCoalescing == Spec => ImplementsCoalescing
<1>1. Spec => Abstract!Init /\ [][Abstract!Next]_(Abstract!vars)
  BY InitImplements, StepImplements, Invariance, PTL DEF Spec
<1>2. QED
  BY <1>1 DEF ImplementsCoalescing, Abstract!Spec
=============================================================================
