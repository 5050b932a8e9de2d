-------------------------- MODULE ImageServiceProofs --------------------------
(***************************************************************************)
(* Theorems of ImageService, for every set of calls and keys, every queue  *)
(* limit and every choice of droppable calls.  The service drives the      *)
(* queue by the queue's own steps, so the queue's theorems hold of it too, *)
(* and its inductive invariant is where these proofs start.                *)
(***************************************************************************)
EXTENDS ImageService, RenderQueueProofs

\* The outcome of a call is written once, by a producer that had its permit
\* and was not refused.
OutcomeOnce ==
    \A c \in Calls : outcome[c] # "none" =>
        /\ pc[c] \in (HasPermit \ {"working"}) \cup {"done", "dropped"}
        /\ holder[c] = c /\ answer[c].kind # "busy"

\* Nobody is told anything before add returns.
ToldAtTheEnd == \A c \in Calls : answer[c].kind # "none" => pc[c] = "done"

\* Only a PNG that a producer rendered to its end gets as far as the store,
\* and whoever recycles before it is refused was told of something else.
ActsOnAnswers ==
    /\ \A c \in Calls : stage[c] = "store" => pc[c] = "done" /\ answer[c].kind = "ok"
    /\ \A c \in Calls : stage[c] = "recycling" => pc[c] = "done" /\ answer[c].kind # "ok"

\* The calls whose work has used its retry, or needs none any more.
Tried == {c \in Calls : work[c] \in {"second", "giveup", "ok", "failed"}}

\* With one permit, of two calls at most one is at its work.
OneAtWork ==
    \A c, d \in Calls : pc[c] \in HasPermit /\ pc[d] \in HasPermit => c = d

\* A call on its second attempt has the page to itself, and it is clean.
SecondIsClean == \A c \in Calls : c \in Using /\ work[c] = "second" => ~dirty

ServiceInv ==
    /\ ServiceTypeOK
    /\ OutcomeOnce /\ ToldAtTheEnd /\ ActsOnAnswers
    /\ ServedIsRendered /\ InterruptedIsRecycled /\ SecondIsClean
    /\ retries <= Cardinality(Tried)

-----------------------------------------------------------------------------
(* What a step of the queue does to the calls.                             *)

\* One call moves.  Keys never change; an outcome is written at the end of
\* the work; a holder is set, and a refusal told, only on admission.
LEMMA QueueMoves ==
  ASSUME IInv, NEW c \in Calls, Arrive(c) \/ Produce(c) \/ Await(c) \/ Drop(c)
  PROVE  /\ key' = key
         /\ \A d \in Calls \ {c} : /\ pc'[d] = pc[d] /\ holder'[d] = holder[d]
                                   /\ outcome'[d] = outcome[d] /\ answer'[d] = answer[d]
         /\ pc'[c] # pc[c] /\ pc'[c] # "idle" /\ pc[c] \notin {"done", "dropped"}
         /\ pc[c] # "idle" => holder'[c] = holder[c]
         /\ outcome'[c] # outcome[c] => /\ pc[c] = "working" /\ pc'[c] = "worked"
                                        /\ outcome'[c] \in Kinds
         /\ pc[c] \in HasPermit => pc'[c] \in (HasPermit \ {"working"}) \cup {"done", "dropped"}
         /\ pc[c] \in Waiting => pc'[c] \in Waiting \cup {"done", "dropped"}
         /\ pc[c] # "idle" /\ answer'[c].kind = "busy" => answer[c].kind = "busy"
         /\ answer'[c] # answer[c] => pc'[c] = "done"
         /\ pc'[c] = "working" => pc[c] = "queued"
         /\ pc'[c] \in {"admitted", "queued"} => pc[c] \in {"idle", "admitted"}
         /\ pc[c] = "queued" => pc'[c] = "working" \/ Drop(c)
<1> USE QueueAssumption DEF IInv, TypeOK, Goto, local, Labels, Producing, Admitted, HasPermit,
                            Waiting, Kinds, OutcomePublished, HolderSharesKey, Answers, NoAnswer, Busy
<1>1. CASE Join(c)
  BY <1>1 DEF Join
<1>2. CASE Reject(c)
  BY <1>2 DEF Reject
<1>3. CASE Admit(c)
  BY <1>3 DEF Admit
<1>4. CASE RequestPermit(c)
  BY <1>4 DEF RequestPermit
<1>5. CASE StartWork(c)
  BY <1>5 DEF StartWork
<1>6. CASE FinishWork(c)
  BY <1>6 DEF FinishWork
<1>7. CASE RecordDuration(c)
  BY <1>7 DEF RecordDuration
<1>8. CASE CountOutcome(c)
  BY <1>8 DEF CountOutcome
<1>9. CASE Publish(c)
  BY <1>9 DEF Publish
<1>10. CASE NotifyWaiters(c)
  BY <1>10 DEF NotifyWaiters
<1>11. CASE Release(c)
  BY <1>11 DEF Release
<1>12. CASE Subscribe(c)
  BY <1>12 DEF Subscribe
<1>13. CASE CheckResult(c)
  BY <1>13 DEF CheckResult
<1>14. CASE Wake(c)
  BY <1>14 DEF Wake
<1>15. CASE DropQueued(c)
  BY <1>15 DEF DropQueued, Drop
<1>16. CASE DropRunning(c)
  BY <1>16 DEF DropRunning, Drop
<1>17. CASE DropWaiting(c)
  BY <1>17 DEF DropWaiting, Drop
<1>q. QED
  BY <1>1, <1>2, <1>3, <1>4, <1>5, <1>6, <1>7, <1>8, <1>9, <1>10, <1>11, <1>12, <1>13,
     <1>14, <1>15, <1>16, <1>17 DEF Arrive, Produce, Await, Drop

\* With one permit at most one call is at its work.
LEMMA AloneAtWork == IInv => OneAtWork
<1> SUFFICES ASSUME IInv, NEW c \in Calls, NEW d \in Calls,
                    pc[c] \in HasPermit, pc[d] \in HasPermit, c # d
             PROVE  FALSE
  BY DEF OneAtWork
<1>1. IsFiniteSet(At(HasPermit)) /\ {c, d} \subseteq At(HasPermit)
  BY QueueAssumption, FS_Subset DEF At
<1>2. Cardinality(At(HasPermit)) <= 1
  <2>1. permits + Cardinality(At(HasPermit)) = 1 /\ permits \in Nat
    BY ImageAssumption DEF IInv, TypeOK, PermitsConserved
  <2>2. Cardinality(At(HasPermit)) \in Nat
    BY <1>1, FS_CardinalityType
  <2>3. QED
    BY <2>1, <2>2
<1>3. Cardinality({c, d}) = 2
  <2>1. Cardinality({c}) = 1 /\ IsFiniteSet({c})
    BY FS_Singleton
  <2>2. Cardinality({c} \cup {d}) = 2
    BY <2>1, FS_AddElement
  <2>3. {c} \cup {d} = {c, d}
    OBVIOUS
  <2>4. QED
    BY <2>2, <2>3
<1>4. Cardinality({c, d}) <= Cardinality(At(HasPermit)) /\ Cardinality(At(HasPermit)) \in Nat
  BY <1>1, FS_Subset, FS_CardinalityType
<1>5. QED
  BY <1>2, <1>3, <1>4

\* What a caller was told, if it was not a refusal, is the outcome of a
\* producer of its key.
LEMMA ToldTheOutcome ==
  ASSUME IInv, NEW c \in Calls, pc[c] = "done", answer[c].kind # "busy"
  PROVE  /\ answer[c].by \in Calls /\ answer[c].by = holder[c]
         /\ key[answer[c].by] = key[c] /\ answer[c].kind = outcome[answer[c].by]
         /\ answer[c].kind \in Kinds
BY QueueAssumption DEF IInv, AnswersFinal, PastWork, HolderSharesKey, Busy


-----------------------------------------------------------------------------
(* The service is the queue, with something around it.                     *)

\* The steps that leave the queue alone, and those of the queue.
Aside(c) == \/ Lookup(c) \/ Attempt(c) \/ Recover(c) \/ Finish(c) \/ RecycleWork(c)
            \/ Store(c) \/ TimeOutAside(c) \/ Reset(c)
Inside(c) == InQueue(c) \/ TimeOutInQueue(c)

LEMMA ServiceStepIsQueueStep == [ServiceNext]_serviceVars => [Next]_vars
<1> SUFFICES ASSUME [ServiceNext]_serviceVars PROVE [Next]_vars
  OBVIOUS
<1>1. CASE UNCHANGED serviceVars
  BY <1>1 DEF serviceVars
<1>2. ASSUME NEW c \in Calls, Inside(c)
      PROVE  Next
  BY <1>2 DEF Inside, InQueue, TimeOutInQueue, Next
<1>3. ASSUME NEW c \in Calls, Aside(c)
      PROVE  UNCHANGED vars
  BY <1>3 DEF Aside, Lookup, Attempt, Recover, Finish, RecycleWork, Store, TimeOutAside, Reset
<1>4. ASSUME NEW k \in Keys, Evict(k) PROVE UNCHANGED vars
  BY <1>4 DEF Evict
<1>5. QED
  BY <1>1, <1>2, <1>3, <1>4 DEF ServiceNext, Call, TimeOut, Aside, Inside

\* Every behaviour of the service is one of the queue, so whatever the queue
\* promises its callers holds under the cache, the recycles and the command
\* timeouts of the service.
THEOREM ServiceImplementsQueue == ServiceSpec => Spec
<1>1. ServiceInit => Init
  BY DEF ServiceInit
<1>2. QED
  BY <1>1, ServiceStepIsQueueStep, PTL DEF ServiceSpec, Spec

LEMMA InitServiceInv == ServiceInit => ServiceInv
<1> SUFFICES ASSUME ServiceInit PROVE ServiceInv
  OBVIOUS
<1>1. ServiceTypeOK /\ OutcomeOnce /\ ToldAtTheEnd /\ ActsOnAnswers /\ ServedIsRendered /\ InterruptedIsRecycled
      /\ SecondIsClean
  BY DEF ServiceInit, Init, ServiceTypeOK, OutcomeOnce, ToldAtTheEnd, NoAnswer,
         ActsOnAnswers, ServedIsRendered, InterruptedIsRecycled, SecondIsClean, Using, Ended
<1>2. Tried = {}
  BY DEF ServiceInit, Tried
<1>3. retries <= Cardinality(Tried)
  BY <1>2, FS_EmptySet DEF ServiceInit
<1>4. QED
  BY <1>1, <1>3 DEF ServiceInv

-----------------------------------------------------------------------------
(* The steps.                                                              *)

LEMMA InsideMoves == ASSUME IInv, NEW c \in Calls, Inside(c)
  PROVE  /\ Arrive(c) \/ Produce(c) \/ Await(c) \/ Drop(c)
         /\ stage[c] = "queue" /\ stage' \in {stage, [stage EXCEPT ![c] = "reset"]}
         /\ work' \in {work, [work EXCEPT ![c] = "first"]}
         /\ UNCHANGED <<cache, png, stats>>
BY DEF Inside, InQueue, TimeOutInQueue, Move

\* The types are kept; only whoever had a permit has work.
LEMMA ServiceTypeStep == ASSUME IInv, ServiceInv, NEW c \in Calls, Aside(c) \/ Inside(c)
                         PROVE  ServiceTypeOK'
<1> USE DEF ServiceInv, ServiceTypeOK, stats, Move, Serve, Recycle, Ended
<1>0. TypeOK
  BY DEF IInv
<1>1. CASE Lookup(c)
  <2>1. stage' \in [Calls -> {"new", "queue", "recycling", "store", "reset"} \cup Ended]
    BY <1>1 DEF Lookup
  <2>2. png' \in [Calls -> Calls \cup {NoCall}]
    BY <1>0, <1>1 DEF Lookup, TypeOK
  <2>3. UNCHANGED <<pc, work, dirty, cache, retries, recoveries>>
    BY <1>1 DEF Lookup, vars
  <2>4. QED
    BY <2>1, <2>2, <2>3
<1>2. CASE Attempt(c)
  BY <1>2 DEF Attempt, vars, Using
<1>3. CASE Recover(c)
  <2>1. work' \in [Calls -> {"none", "first", "second", "retry", "giveup", "ok", "failed"}]
    BY <1>3 DEF Recover
  <2>2. pc' = pc /\ pc[c] = "working" /\ \A d \in Calls \ {c} : work'[d] = work[d]
    BY <1>3 DEF Recover, vars
  <2>3. retries' \in Nat /\ recoveries' \in Nat
    <3>1. recoveries' = recoveries + 1 /\ (retries' = retries \/ retries' = retries + 1)
      BY <1>3 DEF Recover
    <3>2. QED
      BY <3>1
  <2>4. dirty' = FALSE /\ UNCHANGED <<stage, cache, png>>
    BY <1>3 DEF Recover
  <2>5. QED
    BY <2>1, <2>2, <2>3, <2>4
<1>4. CASE Finish(c)
  <2>1. stage' \in [Calls -> {"new", "queue", "recycling", "store", "reset"} \cup Ended]
    BY <1>4 DEF Finish
  <2>2. UNCHANGED <<pc, work, dirty, cache, png, retries, recoveries>>
    BY <1>4 DEF Finish, vars
  <2>3. QED
    BY <2>1, <2>2
<1>10. CASE RecycleWork(c)
  <2>1. stage' \in [Calls -> {"new", "queue", "recycling", "store", "reset"} \cup Ended]
    BY <1>10 DEF RecycleWork
  <2>2. dirty' = FALSE /\ recoveries' \in Nat
    BY <1>10 DEF RecycleWork
  <2>3. UNCHANGED <<pc, work, cache, png, retries>>
    BY <1>10 DEF RecycleWork, vars
  <2>4. QED
    BY <2>1, <2>2, <2>3
<1>11. CASE TimeOutAside(c)
  BY <1>11 DEF TimeOutAside, vars
<1>5. CASE Store(c)
  <2>1. answer[c].by \in Calls
    BY <1>5, ToldTheOutcome DEF Store, ActsOnAnswers
  <2>2. key[c] \in Keys
    BY <1>0 DEF TypeOK
  <2>3. QED
    BY <1>5, <2>1, <2>2 DEF Store, Stored, vars
<1>6. CASE Reset(c)
  BY <1>6 DEF Reset, vars
<1>7. CASE InQueue(c)
  <2>1. work' \in [Calls -> {"none", "first", "second", "retry", "giveup", "ok", "failed"}]
        /\ dirty' \in BOOLEAN
    BY <1>7 DEF InQueue, Abandon
  <2>2. \A d \in Calls : work'[d] # "none" => pc'[d] \notin {"idle", "admitted", "queued"}
    <3>1. Arrive(c) \/ Produce(c) \/ Await(c)
      BY <1>7 DEF InQueue
    <3>2. pc[c] # "queued" => work' = work
      BY <1>7 DEF InQueue, StartsWork
    <3>3. pc[c] = "queued" => pc'[c] = "working" /\ work' = [work EXCEPT ![c] = "first"]
      BY <1>7, <3>1 DEF InQueue, StartsWork, Arrive, Join, Reject, Admit, Produce, RequestPermit,
         StartWork, FinishWork, RecordDuration, CountOutcome, Publish, NotifyWaiters, Release,
         Await, Subscribe, CheckResult, Wake, Goto, TypeOK, IInv
    <3>4. QED
      BY <3>1, <3>2, <3>3, QueueMoves
  <2>3. QED
    BY <1>7, <2>1, <2>2 DEF InQueue
<1>8. CASE TimeOutInQueue(c)
  <2>1. pc'[c] # "idle" /\ pc'[c] \notin {"admitted", "queued"}
    BY <1>0, <1>8 DEF TimeOutInQueue, Drop, DropQueued, DropRunning, DropWaiting, Goto, TypeOK
  <2>2. \A d \in Calls \ {c} : pc'[d] = pc[d]
    BY <1>8, QueueMoves DEF TimeOutInQueue
  <2>3. QED
    BY <1>8, <2>1, <2>2 DEF TimeOutInQueue, Abandon
<1>9. QED
  BY <1>1, <1>2, <1>3, <1>4, <1>5, <1>6, <1>7, <1>8, <1>10, <1>11 DEF Aside, Inside

\* Answers come with the end of add.
LEMMA ToldStep == ASSUME IInv, ServiceInv, NEW c \in Calls, Aside(c) \/ Inside(c)
                  PROVE  ToldAtTheEnd'
<1>1. CASE Aside(c)
  BY <1>1 DEF Aside, Lookup, Attempt, Recover, Finish, RecycleWork, Store, TimeOutAside, Reset, vars, ServiceInv, ToldAtTheEnd
<1>2. CASE Inside(c)
  <2>1. Arrive(c) \/ Produce(c) \/ Await(c) \/ Drop(c)
    BY <1>2, InsideMoves
  <2>2. QED
    BY <2>1, QueueMoves DEF ServiceInv, ToldAtTheEnd
<1>3. QED
  BY <1>1, <1>2

\* What a queue step writes of the outcome is final.
LEMMA OutcomeOnceStep == ASSUME IInv, ServiceInv, NEW c \in Calls, Aside(c) \/ Inside(c)
                         PROVE  OutcomeOnce'
<1>1. CASE Aside(c)
  BY <1>1 DEF Aside, Lookup, Attempt, Recover, Finish, RecycleWork, Store, TimeOutAside, Reset, vars, ServiceInv, OutcomeOnce
<1>2. CASE Inside(c)
  <2>1. Arrive(c) \/ Produce(c) \/ Await(c) \/ Drop(c)
    BY <1>2, InsideMoves
  <2>2. ASSUME NEW d \in Calls, outcome'[d] # "none"
        PROVE  /\ pc'[d] \in (HasPermit \ {"working"}) \cup {"done", "dropped"}
               /\ holder'[d] = d /\ answer'[d].kind # "busy"
    <3>1. CASE d # c
      BY <2>1, <2>2, <3>1, QueueMoves DEF ServiceInv, OutcomeOnce
    <3>2. CASE d = c /\ outcome[c] # "none"
      BY <2>1, <2>2, <3>2, QueueMoves DEF ServiceInv, OutcomeOnce, HasPermit
    <3>3. CASE d = c /\ outcome[c] = "none"
      <4>1. pc[c] = "working" /\ pc'[c] = "worked" /\ holder'[c] = holder[c]
        BY <2>1, <2>2, <3>3, QueueMoves
      <4>2. holder[c] = c /\ answer[c].kind # "busy"
        BY <4>1 DEF IInv, HolderSharesKey, Producing, HasPermit, ServiceInv, ToldAtTheEnd
      <4>3. QED
        BY <2>1, <3>3, <4>1, <4>2, QueueMoves DEF HasPermit
    <3>4. QED
      BY <3>1, <3>2, <3>3
  <2>3. QED
    BY <2>2 DEF OutcomeOnce
<1>3. QED
  BY <1>1, <1>2

\* What a call does with its answer fits the answer.
LEMMA ActsStep == ASSUME IInv, ServiceInv, NEW c \in Calls, Aside(c) \/ Inside(c)
                    PROVE  ActsOnAnswers'
<1> USE DEF ServiceInv, ServiceTypeOK, ActsOnAnswers, Move, Serve
<1>1. CASE Aside(c)
  BY <1>1 DEF Aside, Lookup, Attempt, Recover, Finish, RecycleWork, Store, TimeOutAside, Reset, vars
<1>2. CASE Inside(c)
  <2>1. \A d \in Calls \ {c} : pc'[d] = pc[d] /\ answer'[d] = answer[d]
    BY <1>2, InsideMoves, QueueMoves
  <2>2. stage'[c] \notin {"store", "recycling"} /\ \A d \in Calls \ {c} : stage'[d] = stage[d]
    BY <1>2, InsideMoves
  <2>3. QED
    BY <2>1, <2>2
<1>3. QED
  BY <1>1, <1>2

\* Outcomes that exist, and keys, are final.
LEMMA FinalOutcomes == ASSUME IInv, ServiceInv, NEW c \in Calls, Aside(c) \/ Inside(c)
  PROVE /\ key' = key
        /\ \A d \in Calls : outcome[d] # "none" => outcome'[d] = outcome[d]
<1>1. CASE Aside(c)
  BY <1>1 DEF Aside, Lookup, Attempt, Recover, Finish, RecycleWork, Store, TimeOutAside, Reset, vars
<1>2. CASE Inside(c)
  <2>1. Arrive(c) \/ Produce(c) \/ Await(c) \/ Drop(c)
    BY <1>2, InsideMoves
  <2>2. outcome[c] # "none" => pc[c] # "working"
    BY DEF ServiceInv, OutcomeOnce
  <2>3. QED
    BY <2>1, <2>2, QueueMoves
<1>3. QED
  BY <1>1, <1>2

\* p is a producer that rendered the PNG of key k to its end.
Rendered(p, k) == p \in Calls /\ key[p] = k /\ outcome[p] = "ok"

\* Whoever is served, and what is cached, has a producer that rendered it.
LEMMA ServedStep == ASSUME IInv, ServiceInv, NEW c \in Calls, Aside(c) \/ Inside(c)
                    PROVE  ServedIsRendered'
<1>0. /\ \A d \in Calls : stage[d] = "served" => Rendered(png[d], key[d])
      /\ \A k \in Keys : cache[k] # NoCall => Rendered(cache[k], k)
  BY DEF ServiceInv, ServiceTypeOK, ServedIsRendered, Rendered
<1>1. \A p \in Calls, k \in Keys : Rendered(p, k) => Rendered(p, k)'
  BY FinalOutcomes DEF Rendered
<1>2. key' = key /\ key \in [Calls -> Keys]
  BY FinalOutcomes DEF IInv, TypeOK
<1> SUFFICES (/\ \A d \in Calls : stage[d] = "served" => Rendered(png[d], key[d])
              /\ \A k \in Keys : cache[k] # NoCall => Rendered(cache[k], k))'
  BY <1>2, QueueAssumption DEF ServedIsRendered, Rendered
<1>3. CASE Lookup(c)
  BY <1>0, <1>1, <1>2, <1>3 DEF Lookup, Move, Serve, Rendered, ServiceInv, ServiceTypeOK
<1>4. CASE Store(c)
  <2>1. Rendered(answer[c].by, key[c])
    BY <1>4, ToldTheOutcome DEF Store, ServiceInv, ActsOnAnswers, Rendered
  <2>2. Rendered(answer[c].by, key[c])' /\ cache' = [cache EXCEPT ![key[c]] = answer[c].by]
        /\ stage' = [stage EXCEPT ![c] = "served"] /\ png' = [png EXCEPT ![c] = answer[c].by]
        /\ UNCHANGED <<key, outcome, answer>>
    BY <1>4, <2>1 DEF Store, Stored, Serve, Move, vars, Rendered
  <2>3. QED
    BY <1>0, <1>1, <1>2, <2>1, <2>2 DEF ServiceInv, ServiceTypeOK, Rendered
<1>5. CASE \/ Attempt(c) \/ Recover(c) \/ Finish(c) \/ RecycleWork(c)
           \/ TimeOutAside(c) \/ Reset(c)
  <2>1. \A d \in Calls : stage'[d] = "served" => stage[d] = "served"
    BY <1>5 DEF Attempt, Recover, Finish, RecycleWork, TimeOutAside, Reset, Move, ServiceInv, ServiceTypeOK
  <2>2. UNCHANGED <<cache, png, key, outcome>>
    BY <1>5 DEF Attempt, Recover, Finish, RecycleWork, TimeOutAside, Reset, vars
  <2>3. QED
    BY <1>0, <2>1, <2>2 DEF Rendered
<1>6. CASE Inside(c)
  <2>1. \A d \in Calls : stage'[d] = "served" => stage[d] = "served"
    BY <1>6, InsideMoves DEF ServiceInv, ServiceTypeOK
  <2>2. UNCHANGED <<cache, png>>
    BY <1>6, InsideMoves
  <2>3. QED
    BY <1>0, <1>1, <1>2, <2>1, <2>2 DEF Rendered
<1>7. QED
  BY <1>3, <1>4, <1>5, <1>6 DEF Aside

\* Whoever leaves the page dirty is on its way to the recycle.
LEMMA RecycledStep == ASSUME IInv, ServiceInv, NEW c \in Calls, Aside(c) \/ Inside(c)
                      PROVE  InterruptedIsRecycled'
<1> DEFINE Cleaner(d) == \/ stage[d] \in {"recycling", "reset"}
                         \/ stage[d] = "queue" /\ outcome[d] = "exceeded"
<1> SUFFICES ASSUME dirty' PROVE \E d \in Calls : Cleaner(d)'
  BY DEF InterruptedIsRecycled
<1>0. stage \in [Calls -> {"new", "queue", "recycling", "store", "reset"} \cup Ended] /\ dirty \in BOOLEAN
  BY DEF ServiceInv, ServiceTypeOK
<1>1. dirty => \E d \in Calls : Cleaner(d)
  <2>1. InterruptedIsRecycled
    BY DEF ServiceInv
  <2>2. QED
    BY <2>1, Zenon DEF InterruptedIsRecycled
<1>2. \A d \in Calls \ {c} : stage'[d] = stage[d] /\ (Cleaner(d) => Cleaner(d)')
  <2>1. \A d \in Calls \ {c} : stage'[d] = stage[d]
    BY <1>0, InsideMoves DEF Aside, Lookup, Attempt, Recover, Finish, RecycleWork, Store, TimeOutAside, Reset, Move, Serve
  <2>2. QED
    BY <2>1, FinalOutcomes
<1>3. CASE Recover(c) \/ RecycleWork(c) \/ Reset(c)
  BY <1>3 DEF Recover, RecycleWork, Reset, Recycle
<1>4. CASE Lookup(c) \/ Attempt(c) \/ Store(c)
  <2>1. dirty' = dirty /\ (Cleaner(c) => Cleaner(c)')
    BY <1>4, <1>0 DEF Lookup, Attempt, Store, vars
  <2>2. QED
    BY <1>1, <1>2, <2>1
<1>5. CASE Finish(c)
  <2>1. dirty' = dirty /\ stage[c] = "queue" /\ pc[c] = "done"
    BY <1>5 DEF Finish
  <2>2. outcome[c] = "exceeded" => stage'[c] = "recycling"
    <3>1. SUFFICES ASSUME outcome[c] = "exceeded" PROVE stage'[c] = "recycling"
      OBVIOUS
    <3>2. holder[c] = c /\ answer[c].kind # "busy"
      BY <3>1 DEF ServiceInv, OutcomeOnce
    <3>3. answer[c].kind = "exceeded"
      BY <2>1, <3>1, <3>2, ToldTheOutcome
    <3>4. IsWorkTimeout(c) = {TRUE}
      BY <3>3 DEF IsWorkTimeout
    <3>5. QED
      BY <1>0, <1>5, <3>3, <3>4 DEF Finish, Move
  <2>3. Cleaner(c) => Cleaner(c)'
    BY <2>1, <2>2
  <2>4. QED
    BY <1>1, <1>2, <2>1, <2>3
<1>6. CASE InQueue(c)
  <2>1. stage' = stage /\ stage[c] = "queue"
    BY <1>6 DEF InQueue
  <2>2. Cleaner(c) => Cleaner(c)'
    BY <2>1, FinalOutcomes
  <2>3. CASE dirty
    BY <1>1, <1>2, <2>2, <2>3
  <2>4. CASE ~dirty
    <3>1. pc[c] = "working" /\ c \in Using
      BY <1>6, <2>4 DEF InQueue, Abandon
    <3>2. outcome'[c] \in Kinds
      BY <1>6, <3>1 DEF InQueue, Arrive, Join, Reject, Admit, Produce, RequestPermit, StartWork,
         FinishWork, RecordDuration, CountOutcome, Publish, NotifyWaiters, Release, Await,
         Subscribe, CheckResult, Wake, IInv, TypeOK
    <3>3. outcome'[c] # outcome[c]
      BY <3>1, <3>2 DEF Kinds, ServiceInv, OutcomeOnce
    <3>4. outcome'[c] = "exceeded"
      BY <1>6, <3>1, <3>2, <3>3 DEF InQueue, Using, Kinds
    <3>5. QED
      BY <2>1, <3>4
  <2>5. QED
    BY <2>3, <2>4, <1>0
<1>7. CASE TimeOutAside(c) \/ TimeOutInQueue(c)
  <2>1. stage'[c] = "reset"
    BY <1>0, <1>7 DEF TimeOutAside, TimeOutInQueue, Move
  <2>2. QED
    BY <2>1
<1>8. QED
  BY <1>3, <1>4, <1>5, <1>6, <1>7 DEF Aside, Inside

\* The call whose second attempt runs has the one permit.
LEMMA CleanStep == ASSUME IInv, IInv', ServiceInv, NEW c \in Calls, Aside(c) \/ Inside(c)
                   PROVE  SecondIsClean'
<1> SUFFICES ASSUME NEW d \in Calls, pc'[d] = "working", work'[d] = "second", dirty'
             PROVE  FALSE
  BY DEF SecondIsClean, Using
<1>0. ServiceTypeOK /\ SecondIsClean
  BY DEF ServiceInv
<1>1. CASE Recover(c)
  BY <1>1 DEF Recover, Recycle
<1>2. CASE RecycleWork(c) \/ Reset(c)
  BY <1>2 DEF RecycleWork, Reset, Recycle
<1>3. CASE Lookup(c) \/ Attempt(c) \/ Finish(c) \/ Store(c) \/ TimeOutAside(c)
  <2>1. pc' = pc
    BY <1>3 DEF Lookup, Attempt, Finish, Store, TimeOutAside, vars
  <2>2. work[d] = "second"
    BY <1>0, <1>3 DEF Lookup, Attempt, Finish, Store, TimeOutAside, ServiceTypeOK
  <2>3. dirty
    BY <1>3 DEF Lookup, Attempt, Finish, Store, TimeOutAside
  <2>4. QED
    BY <1>0, <2>1, <2>2, <2>3 DEF SecondIsClean, Using
<1>4. CASE Inside(c)
  <2>1. work[d] = "second"
    BY <1>0, <1>4, InsideMoves DEF ServiceTypeOK
  <2>2. pc[d] = "working" /\ d # c
    BY <1>0, <1>4, <2>1, InsideMoves, QueueMoves DEF ServiceTypeOK
  <2>3. c \notin Using
    BY <2>2, AloneAtWork DEF OneAtWork, Using, HasPermit
  <2>4. dirty
    BY <1>4, <2>3 DEF Inside, InQueue, TimeOutInQueue, Abandon
  <2>5. QED
    BY <1>0, <2>1, <2>2, <2>4 DEF SecondIsClean, Using
<1>5. QED
  BY <1>1, <1>2, <1>3, <1>4 DEF Aside

\* A second attempt counts once, for a call that had none.
LEMMA RetriesStep == ASSUME IInv, ServiceInv, NEW c \in Calls, Aside(c) \/ Inside(c)
                     PROVE  (retries <= Cardinality(Tried))'
<1>0. ServiceTypeOK /\ retries <= Cardinality(Tried)
  BY DEF ServiceInv
<1>1. IsFiniteSet(Tried) /\ IsFiniteSet(Tried')
  BY QueueAssumption, FS_Subset DEF Tried
<1>2. Cardinality(Tried) \in Nat /\ Cardinality(Tried') \in Nat /\ retries \in Nat
  BY <1>0, <1>1, FS_CardinalityType DEF ServiceTypeOK
<1>3. CASE retries' = retries /\ Tried \subseteq Tried'
  <2>1. Cardinality(Tried) <= Cardinality(Tried')
    BY <1>1, <1>3, FS_Subset
  <2>2. QED
    BY <1>0, <1>2, <1>3, <2>1
<1>4. CASE retries' = retries + 1 /\ c \notin Tried /\ Tried \cup {c} \subseteq Tried'
  <2>1. Cardinality(Tried \cup {c}) = Cardinality(Tried) + 1 /\ IsFiniteSet(Tried \cup {c})
    BY <1>1, <1>4, FS_AddElement
  <2>2. Cardinality(Tried \cup {c}) <= Cardinality(Tried')
    BY <1>1, <1>4, FS_Subset
  <2>3. QED
    BY <1>0, <1>2, <1>4, <2>1, <2>2
<1>5. CASE Recover(c)
  <2>1. CASE LastTry(c)
    <3>1. retries' = retries /\ work' = [work EXCEPT ![c] = "failed"]
      BY <1>5, <2>1 DEF Recover
    <3>2. Tried \subseteq Tried'
      BY <1>0, <3>1 DEF ServiceTypeOK, Tried
    <3>3. QED
      BY <1>3, <3>1, <3>2
  <2>2. CASE ~LastTry(c)
    <3>1. retries' = retries + 1 /\ work' = [work EXCEPT ![c] = "second"] /\ work[c] = "retry"
      BY <1>5, <2>2 DEF Recover, LastTry
    <3>2. c \notin Tried /\ Tried \cup {c} \subseteq Tried'
      BY <1>0, <3>1 DEF ServiceTypeOK, Tried
    <3>3. QED
      BY <1>4, <3>1, <3>2
  <2>3. QED
    BY <2>1, <2>2
<1>6. CASE Attempt(c)
  <2>1. retries' = retries /\ work' \in [Calls -> {"none", "first", "second", "retry", "giveup", "ok", "failed"}]
    BY <1>0, <1>6 DEF Attempt, stats, ServiceTypeOK
  <2>2. Tried \subseteq Tried'
    BY <1>0, <1>6 DEF Attempt, Using, ServiceTypeOK, Tried
  <2>3. QED
    BY <1>3, <2>1, <2>2
<1>7. CASE \/ Lookup(c) \/ Finish(c) \/ RecycleWork(c) \/ Store(c)
           \/ TimeOutAside(c) \/ Reset(c)
  <2>1. retries' = retries /\ work' = work
    BY <1>7 DEF Lookup, Finish, RecycleWork, Store, TimeOutAside, Reset, stats
  <2>2. QED
    BY <1>3, <2>1 DEF Tried
<1>8. CASE Inside(c)
  <2>1. retries' = retries
    BY <1>8 DEF Inside, InQueue, TimeOutInQueue, stats
  <2>2. Tried \subseteq Tried'
    <3>1. CASE work' = work
      BY <3>1 DEF Tried
    <3>2. CASE work' # work
      <4>1. pc[c] = "queued" /\ work' = [work EXCEPT ![c] = "first"]
        BY <1>8, <3>2 DEF Inside, InQueue, TimeOutInQueue, StartsWork
      <4>2. work[c] = "none"
        BY <1>0, <4>1 DEF ServiceTypeOK
      <4>3. QED
        BY <1>0, <4>1, <4>2 DEF ServiceTypeOK, Tried
    <3>3. QED
      BY <3>1, <3>2
  <2>3. QED
    BY <1>3, <2>1, <2>2
<1>9. QED
  BY <1>5, <1>6, <1>7, <1>8 DEF Aside

-----------------------------------------------------------------------------
\* moka may drop an entry at any time.
LEMMA EvictStep == ASSUME ServiceInv, NEW k \in Keys, Evict(k) PROVE ServiceInv'
<1>1. UNCHANGED <<pc, key, holder, outcome, answer, stage, work, dirty, png, retries, recoveries>>
  BY DEF Evict, vars, stats
<1>2. \A j \in Keys : cache'[j] = cache[j] \/ cache'[j] = NoCall
  BY DEF Evict, ServiceInv, ServiceTypeOK
<1>3. cache' \in [Keys -> Calls \cup {NoCall}]
  BY DEF Evict, ServiceInv, ServiceTypeOK
<1>4. ServiceTypeOK'
  BY <1>1, <1>3 DEF ServiceInv, ServiceTypeOK
<1>5. ServedIsRendered'
  BY <1>1, <1>2 DEF ServiceInv, ServedIsRendered
<1>6. (OutcomeOnce /\ ToldAtTheEnd /\ ActsOnAnswers /\ InterruptedIsRecycled /\ SecondIsClean)'
  BY <1>1 DEF ServiceInv, OutcomeOnce, ToldAtTheEnd, ActsOnAnswers, InterruptedIsRecycled,
     SecondIsClean, Using
<1>7. (retries <= Cardinality(Tried))'
  BY <1>1 DEF ServiceInv, Tried
<1>8. QED
  BY <1>4, <1>5, <1>6, <1>7 DEF ServiceInv

LEMMA ServiceInductive ==
  IInv /\ IInv' /\ ServiceInv /\ [ServiceNext]_serviceVars => ServiceInv'
<1> SUFFICES ASSUME IInv, IInv', ServiceInv, [ServiceNext]_serviceVars PROVE ServiceInv'
  OBVIOUS
<1>1. CASE UNCHANGED serviceVars
  BY <1>1 DEF serviceVars, vars, service, stats, ServiceInv, ServiceTypeOK, OutcomeOnce,
     ToldAtTheEnd, ActsOnAnswers, ServedIsRendered, InterruptedIsRecycled, SecondIsClean, Using, Tried
<1>2. ASSUME NEW c \in Calls, Aside(c) \/ Inside(c)
      PROVE  ServiceInv'
  <2>1. ServiceTypeOK' /\ OutcomeOnce' /\ ToldAtTheEnd' /\ ActsOnAnswers'
    BY <1>2, ServiceTypeStep, OutcomeOnceStep, ToldStep, ActsStep
  <2>2. ServedIsRendered' /\ InterruptedIsRecycled' /\ SecondIsClean'
    BY <1>2, ServedStep, RecycledStep, CleanStep
  <2>3. (retries <= Cardinality(Tried))'
    BY <1>2, RetriesStep
  <2>4. QED
    BY <2>1, <2>2, <2>3 DEF ServiceInv
<1>3. QED
  BY <1>1, <1>2, EvictStep DEF ServiceNext, Call, TimeOut, Aside, Inside

\* The service stays in its invariant, and its queue in the queue's.
THEOREM ServiceInvariance == ServiceSpec => [](IInv /\ ServiceInv)
<1>1. ServiceSpec => []IInv
  BY ServiceImplementsQueue, Invariance, PTL
<1>2. QED
  BY <1>1, InitServiceInv, ServiceInductive, PTL DEF ServiceSpec

\* Whoever is served is served a finished PNG of its own key, out of the
\* cache or out of the queue, whatever attempts failed or were cut off.
THEOREM ServedWhatWasRendered == ServiceSpec => []ServedIsRendered
BY ServiceInvariance, PTL DEF ServiceInv

\* No page that an attempt was torn off stays without a recycle to come.
THEOREM EveryInterruptionIsRecycled == ServiceSpec => []InterruptedIsRecycled
BY ServiceInvariance, PTL DEF ServiceInv

\* Retries run on clean pages, one for a call.
THEOREM RetriesAreClean == ServiceSpec => []RetryIsClean
<1>1. ServiceInv => RetryIsClean
  <2> SUFFICES ASSUME ServiceInv PROVE retries <= Cardinality({c \in Calls : work[c] # "none"})
    BY DEF RetryIsClean, ServiceInv, SecondIsClean
  <2> DEFINE Started == {c \in Calls : work[c] # "none"}
  <2>1. IsFiniteSet(Started) /\ Tried \subseteq Started
    BY QueueAssumption, FS_Subset DEF Tried
  <2>2. Cardinality(Tried) <= Cardinality(Started) /\ IsFiniteSet(Tried)
    BY <2>1, FS_Subset
  <2>3. Cardinality(Tried) \in Nat /\ Cardinality(Started) \in Nat
    BY <2>1, <2>2, FS_CardinalityType
  <2>4. retries <= Cardinality(Tried) /\ retries \in Nat
    BY DEF ServiceInv, ServiceTypeOK
  <2>5. QED
    BY <2>2, <2>3, <2>4
<1>2. QED
  BY <1>1, ServiceInvariance, PTL
-----------------------------------------------------------------------------
(* The service implements Gallery: its queue is the one of Coalescing that  *)
(* RenderQueueProofs knows, and what it does around the queue is one of     *)
(* Gallery's other steps or none.                                          *)

LEMMA SameImagesCardinality == ASSUME NEW S PROVE Images!Cardinality(S) = Abstract!Cardinality(S)
BY DEF Images!Cardinality, Abstract!Cardinality

\* The flights are the same.
LEMMA SameFlights == Abstract!Next => Images!Next
<1> SUFFICES ASSUME NEW c \in Calls,
                    \/ Abstract!Lead(c) \/ Abstract!Follow(c) \/ Abstract!Refuse(c)
                    \/ Abstract!Settle(c) \/ Abstract!Answer(c) \/ Abstract!Abandon(c)
             PROVE  \/ Images!Lead(c) \/ Images!Follow(c) \/ Images!Refuse(c)
                    \/ Images!Settle(c) \/ Images!Answer(c) \/ Images!Abandon(c)
  BY DEF Abstract!Next, Images!Next
<1>f. Images!Flight(c) = Abstract!Flight(c)
  BY DEF Images!Flight, Abstract!Flight
<1>1. CASE Abstract!Lead(c)
  <2>1. Images!Lead(c)
    BY <1>1, <1>f, SameImagesCardinality, Zenon DEF Abstract!Lead, Images!Lead
  <2>2. QED
    BY <2>1
<1>2. CASE Abstract!Follow(c)
  BY <1>2, <1>f DEF Abstract!Follow, Images!Follow
<1>3. CASE Abstract!Refuse(c)
  <2>1. Images!Busy = Abstract!Busy
    BY DEF Images!Busy, Abstract!Busy
  <2>2. Images!Refuse(c)
    BY <1>3, <1>f, <2>1, SameImagesCardinality, Zenon DEF Abstract!Refuse, Images!Refuse
  <2>3. QED
    BY <2>2
<1>4. CASE Abstract!Settle(c)
  BY <1>4 DEF Abstract!Settle, Images!Settle
<1>5. CASE Abstract!Answer(c)
  BY <1>5 DEF Abstract!Answer, Images!Answer, Abstract!Verdict, Images!Verdict
<1>6. CASE Abstract!Abandon(c)
  BY <1>6 DEF Abstract!Abandon, Images!Abandon
<1>7. QED
  BY <1>1, <1>2, <1>3, <1>4, <1>5, <1>6

LEMMA InitShows == ServiceInit => Images!GalleryInit
<1> SUFFICES ASSUME ServiceInit PROVE Images!GalleryInit
  OBVIOUS
<1>1. Images!Init
  BY InitImplements DEF ServiceInit, Abstract!Init, Images!Init, Abstract!NoAnswer, Images!NoAnswer
<1>2. QED
  BY <1>1 DEF ServiceInit, Images!GalleryInit, AbstractStage

\* Who is at a place of the service is at its place in Gallery.
LEMMA StageMoves ==
  ASSUME ServiceInv, NEW c \in Calls, NEW l, Move(c, l)
  PROVE  [d \in Calls |-> AbstractStage(stage[d])]'
            = [[d \in Calls |-> AbstractStage(stage[d])] EXCEPT ![c] = AbstractStage(l)]
BY DEF ServiceInv, ServiceTypeOK, Move

\* The steps around the queue.
LEMMA AsideShows ==
  ASSUME IInv, ServiceInv, NEW c \in Calls, Aside(c)
  PROVE  [Images!GalleryNext]_(Images!galleryVars)
<1> DEFINE at == [d \in Calls |-> AbstractStage(stage[d])]
<1>1. UNCHANGED vars
  BY DEF Aside, Lookup, Attempt, Recover, Finish, RecycleWork, Store, TimeOutAside, Reset
<1>2. UNCHANGED Images!vars
  BY <1>1 DEF vars, Images!vars, InMap
<1>3. CASE Lookup(c)
  <2>1. at[c] = "new" /\ UNCHANGED cache
    BY <1>3 DEF Lookup, AbstractStage
  <2>2. CASE cache[key[c]] # NoCall
    <3>1. Move(c, "served") /\ png' = [png EXCEPT ![c] = cache[key[c]]]
      BY <1>3, <2>2 DEF Lookup, Serve
    <3>2. at' = [at EXCEPT ![c] = "served"]
      BY <3>1, StageMoves DEF AbstractStage
    <3>3. Images!Find(c)
      BY <1>2, <2>1, <2>2, <3>1, <3>2 DEF Images!Find, Images!Show, Images!Enter
    <3>4. QED
      BY <3>3 DEF Images!GalleryNext
  <2>3. CASE cache[key[c]] = NoCall
    <3>1. Move(c, "queue") /\ png' = png
      BY <1>3, <2>3 DEF Lookup
    <3>2. at' = [at EXCEPT ![c] = "asking"]
      BY <3>1, StageMoves DEF AbstractStage
    <3>3. Images!Ask(c)
      BY <1>2, <2>1, <2>3, <3>1, <3>2 DEF Images!Ask, Images!Enter
    <3>4. QED
      BY <3>3 DEF Images!GalleryNext
  <2>4. QED
    BY <2>2, <2>3
<1>4. CASE Attempt(c) \/ Recover(c)
  <2>1. UNCHANGED <<stage, cache, png>>
    BY <1>4 DEF Attempt, Recover
  <2>2. QED
    BY <1>2, <2>1 DEF Images!galleryVars
<1>5. CASE Finish(c)
  <2>1. at[c] = "asking" /\ pc[c] = "done" /\ stage[c] = "queue" /\ UNCHANGED <<cache, png>>
    BY <1>5 DEF Finish, AbstractStage
  <2>2. CASE answer[c].kind = "ok"
    <3>1. Move(c, "store")
      BY <1>5, <2>2 DEF Finish
    <3>2. at' = [at EXCEPT ![c] = "asking"]
      BY <3>1, StageMoves DEF AbstractStage
    <3>3. at' = at
      BY <2>1, <3>2
    <3>4. QED
      BY <1>2, <2>1, <3>3 DEF Images!galleryVars
  <2>3. CASE answer[c].kind # "ok" /\ Move(c, "recycling")
    <3>1. at' = [at EXCEPT ![c] = "asking"]
      BY <2>3, StageMoves DEF AbstractStage
    <3>2. at' = at
      BY <2>1, <3>1
    <3>3. QED
      BY <1>2, <2>1, <3>2 DEF Images!galleryVars
  <2>4. CASE answer[c].kind # "ok" /\ Move(c, "refused")
    <3>1. at' = [at EXCEPT ![c] = "refused"]
      BY <2>4, StageMoves DEF AbstractStage
    <3>2. Images!Told(c)
      BY <2>1 DEF Images!Told, AbstractPhase
    <3>3. Images!Deny(c)
      BY <1>2, <2>1, <2>4, <3>1, <3>2 DEF Images!Deny, Images!Enter
    <3>4. QED
      BY <3>3 DEF Images!GalleryNext
  <2>5. answer[c].kind # "ok" => Move(c, "recycling") \/ Move(c, "refused")
    BY <1>5 DEF Finish
  <2>6. QED
    BY <2>2, <2>3, <2>4, <2>5
<1>9. CASE RecycleWork(c)
  <2>1. at[c] = "asking" /\ Move(c, "refused") /\ UNCHANGED <<cache, png>>
    BY <1>9 DEF RecycleWork, AbstractStage
  <2>2. pc[c] = "done" /\ answer[c].kind # "ok"
    BY <1>9 DEF RecycleWork, ServiceInv, ActsOnAnswers
  <2>3. at' = [at EXCEPT ![c] = "refused"]
    BY <2>1, StageMoves DEF AbstractStage
  <2>4. Images!Told(c)
    BY <2>1, <2>2 DEF Images!Told, AbstractPhase
  <2>5. Images!Deny(c)
    BY <1>2, <2>1, <2>2, <2>3, <2>4 DEF Images!Deny, Images!Enter
  <2>6. QED
    BY <2>5 DEF Images!GalleryNext
<1>10. CASE TimeOutAside(c)
  <2>1. Move(c, "reset") /\ c \in Droppable /\ UNCHANGED <<cache, png>>
    BY <1>10 DEF TimeOutAside
  <2>2. at' = [at EXCEPT ![c] = "gone"]
    BY <2>1, StageMoves DEF AbstractStage
  <2>3. at[c] = "new" \/ Images!Told(c)
    <3>1. CASE stage[c] = "new"
      BY <3>1 DEF AbstractStage
    <3>2. CASE stage[c] \in {"recycling", "store"}
      <4>1. pc[c] = "done"
        BY <3>2 DEF ServiceInv, ActsOnAnswers
      <4>2. at[c] = "asking"
        BY <3>2 DEF AbstractStage
      <4>3. QED
        BY <4>1, <4>2 DEF Images!Told, AbstractPhase
    <3>3. QED
      BY <1>10, <3>1, <3>2 DEF TimeOutAside
  <2>4. Images!GiveUp(c)
    BY <1>1, <1>2, <2>1, <2>2, <2>3 DEF Images!GiveUp, Images!Enter
  <2>5. QED
    BY <2>4 DEF Images!GalleryNext
<1>6. CASE Store(c)
  <2>1. /\ at[c] = "asking" /\ Move(c, "served") /\ png' = [png EXCEPT ![c] = answer[c].by]
        /\ cache' = [cache EXCEPT ![key[c]] = answer[c].by]
    BY <1>6 DEF Store, Stored, Serve, AbstractStage
  <2>2. pc[c] = "done" /\ answer[c].kind = "ok"
    BY <1>6 DEF Store, ServiceInv, ActsOnAnswers
  <2>3. at' = [at EXCEPT ![c] = "served"]
    BY <2>1, StageMoves DEF AbstractStage
  <2>4. Images!Told(c)
    BY <2>1, <2>2 DEF Images!Told, AbstractPhase
  <2>5. Images!Deliver(c)
    BY <1>2, <2>1, <2>2, <2>3, <2>4 DEF Images!Deliver, Images!Show, Images!Enter
  <2>6. QED
    BY <2>5 DEF Images!GalleryNext
<1>7. CASE Reset(c)
  <2>1. at[c] = "gone" /\ Move(c, "timedout") /\ UNCHANGED <<cache, png>>
    BY <1>7 DEF Reset, AbstractStage
  <2>2. at' = [at EXCEPT ![c] = "gone"]
    BY <2>1, StageMoves DEF AbstractStage
  <2>3. at' = at
    BY <2>1, <2>2
  <2>4. QED
    BY <1>2, <2>1, <2>3 DEF Images!galleryVars
<1>8. QED
  BY <1>3, <1>4, <1>5, <1>6, <1>7, <1>9, <1>10 DEF Aside

\* A step of the queue that is no drop drops nobody.
LEMMA PolledIsKept ==
  ASSUME IInv, NEW c \in Calls, Arrive(c) \/ Produce(c) \/ Await(c)
  PROVE  pc'[c] # "dropped"
<1> USE DEF IInv, TypeOK, Goto
<1>1. CASE Arrive(c)
  BY <1>1 DEF Arrive, Join, Reject, Admit
<1>2. CASE Produce(c)
  BY <1>2 DEF Produce, RequestPermit, StartWork, FinishWork, RecordDuration, CountOutcome,
     Publish, NotifyWaiters, Release
<1>3. CASE Await(c)
  BY <1>3 DEF Await, Subscribe, CheckResult, Wake
<1>4. QED
  BY <1>1, <1>2, <1>3

\* The steps of the queue, and the end of the command's time in it.
LEMMA InsideShows ==
  ASSUME IInv, IInv', ServiceInv, NEW c \in Calls, Inside(c)
  PROVE  [Images!GalleryNext]_(Images!galleryVars)
<1> DEFINE at    == [d \in Calls |-> AbstractStage(stage[d])]
           phase == [d \in Calls |-> AbstractPhase(pc[d])]
<1>1. /\ Arrive(c) \/ Produce(c) \/ Await(c) \/ Drop(c)
      /\ at[c] = "asking" /\ UNCHANGED <<cache, png>>
  BY InsideMoves DEF AbstractStage
<1>2. CASE InQueue(c)
  <2>1. Arrive(c) \/ Produce(c) \/ Await(c)
    BY <1>2 DEF InQueue
  <2>2. at' = at
    BY <1>2 DEF InQueue
  <2>3. \A d \in Calls : phase'[d] # phase[d] => d = c
    BY <1>1, QueueMoves
  <2>4. phase'[c] # "dropped"
    BY <2>1, PolledIsKept DEF AbstractPhase
  <2>5. Images!Next \/ UNCHANGED Images!vars
    <3>1. [Next]_vars
      BY <2>1 DEF Next
    <3>2. [Abstract!Next]_(Abstract!vars)
      BY <3>1, StepImplements
    <3>3. QED
      BY <3>2, SameFlights DEF Images!vars, Abstract!vars
  <2>6. CASE Images!Next
    <3>1. Images!Fly
      BY <1>1, <2>2, <2>3, <2>4, <2>6 DEF Images!Fly
    <3>2. QED
      BY <3>1 DEF Images!GalleryNext
  <2>7. CASE UNCHANGED Images!vars
    BY <1>1, <2>2, <2>7 DEF Images!galleryVars
  <2>8. QED
    BY <2>5, <2>6, <2>7
<1>3. CASE TimeOutInQueue(c)
  <2>1. Drop(c) /\ Move(c, "reset") /\ c \in Droppable
    BY <1>3 DEF TimeOutInQueue
  <2>2. at' = [at EXCEPT ![c] = "gone"]
    BY <2>1, StageMoves DEF AbstractStage
  <2>3. /\ pc[c] \in {"queued", "working", "counted", "subscribed", "parked"}
        /\ pc' = [pc EXCEPT ![c] = "dropped"] /\ UNCHANGED <<key, holder, inFlight, result, answer>>
    BY <2>1 DEF Drop, DropQueued, DropRunning, DropWaiting, Goto, local
  <2>4. phase[c] = "waiting" /\ phase' = [phase EXCEPT ![c] = "dropped"]
    BY <2>3 DEF AbstractPhase, IInv, TypeOK
  <2>5. {inFlight[k] : k \in InMap}' = {inFlight[k] : k \in InMap}
    BY <2>3 DEF InMap
  <2>6. Images!Abandon(c)
    BY <2>1, <2>3, <2>4, <2>5 DEF Images!Abandon
  <2>7. Images!GiveUp(c)
    BY <1>1, <2>2, <2>6 DEF Images!GiveUp, Images!Enter
  <2>8. QED
    BY <2>7 DEF Images!GalleryNext
<1>4. QED
  BY <1>2, <1>3 DEF Inside

\* What commands see of the service is Gallery: an image of the shelf, or the one
\* verdict of the one flight of its key, whose image alone goes on the shelf,
\* whatever is retried, recycled, evicted or cut off meanwhile.
THEOREM ServiceImplementsGallery == ServiceSpec => ImplementsGallery
<1>1. ASSUME IInv, IInv', ServiceInv, [ServiceNext]_serviceVars
      PROVE  [Images!GalleryNext]_(Images!galleryVars)
  <2>1. CASE UNCHANGED serviceVars
    BY <2>1 DEF serviceVars, service, vars, Images!galleryVars, Images!vars, InMap
  <2>2. ASSUME NEW c \in Calls, Call(c) \/ TimeOut(c)
        PROVE  [Images!GalleryNext]_(Images!galleryVars)
    BY <1>1, <2>2, AsideShows, InsideShows DEF Call, TimeOut, Aside, Inside
  <2>3. ASSUME NEW k \in Keys, Evict(k)
        PROVE  [Images!GalleryNext]_(Images!galleryVars)
    <3>1. UNCHANGED Images!vars
      BY <2>3 DEF Evict, vars, Images!vars, InMap
    <3>2. Images!Remove(k)
      BY <2>3, <3>1 DEF Evict, Images!Remove
    <3>3. QED
      BY <3>2 DEF Images!GalleryNext
  <2>4. QED
    BY <1>1, <2>1, <2>2, <2>3 DEF ServiceNext
<1>2. ServiceSpec => Images!GalleryInit /\ [][Images!GalleryNext]_(Images!galleryVars)
  BY <1>1, InitShows, ServiceInvariance, PTL DEF ServiceSpec
<1>3. QED
  BY <1>2 DEF ImplementsGallery, Images!GallerySpec
=============================================================================
