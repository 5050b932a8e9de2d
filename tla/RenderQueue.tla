----------------------------- MODULE RenderQueue -----------------------------
(***************************************************************************)
(* BoundedWorkQueue of src/src/image/render_queue.rs: calls of `add` that  *)
(* carry the same key share one producer, at most Concurrency producers    *)
(* run at a time, and at most Concurrency + MaxQueued keys are in flight.  *)
(*                                                                         *)
(* Each element of Calls is one invocation of `add`, that is one future    *)
(* polled by the multi-threaded runtime.  A step is the code between two   *)
(* points where another thread can observe the shared state.  The caller   *)
(* of a call in Droppable may drop its future at any await: the command    *)
(* timeout of render_match_scoreboard and a closed HTTP connection do.     *)
(***************************************************************************)
EXTENDS Naturals, Sequences, FiniteSets, SequencesExt

CONSTANTS
    Calls,          \* the invocations of add
    Keys,           \* the deduplication keys
    NoCall,         \* "no holder"
    Concurrency,    \* the semaphore's permits
    MaxQueued,      \* keys admitted beyond the running ones
    Window,         \* duration samples kept (100 in the code)
    Droppable       \* the calls whose future may be dropped

Capacity == Concurrency + MaxQueued

ASSUME QueueAssumption ==
    /\ IsFiniteSet(Calls)
    /\ IsFiniteSet(Keys)
    /\ NoCall \notin Calls
    /\ Concurrency \in Nat \ {0}
    /\ MaxQueued \in Nat
    /\ Window \in Nat \ {0}
    /\ Droppable \subseteq Calls

VARIABLES
    pc,             \* where each call is in add
    key,            \* the key each call carries
    holder,         \* the producer whose SharedResult the call holds
    inFlight,       \* in_flight_map: key -> producer of its SharedResult
    waitq,          \* the semaphore's FIFO queue
    permits,        \* free permits
    active,         \* the AtomicUsize
    outcome,        \* the producer's local outcome
    result,         \* SharedResult.result, by producer
    woken,          \* Notified futures that notify_waiters has completed
    answer,         \* what add returned
    completed, failed, deduplicated, samples    \* QueueInner

local    == <<key, holder, outcome, answer>>
counters == <<completed, failed, deduplicated, samples>>
vars     == <<pc, key, holder, inFlight, waitq, permits, active, outcome,
              result, woken, answer, counters>>

Kinds == {"ok", "failed", "exceeded"}

Admitted  == {"admitted", "queued"}
HasPermit == {"working", "worked", "recorded", "counted", "published",
              "notified"}
Producing == Admitted \cup HasPermit
Waiting   == {"joined", "subscribed", "parked"}
Counted   == {"counted", "published", "notified"}

At(S) == {c \in Calls : pc[c] \in S}
InMap == {k \in Keys : inFlight[k] # NoCall}

NoAnswer == [kind |-> "none", by |-> NoCall]
Busy     == [kind |-> "busy", by |-> NoCall]
Answers  == [kind : Kinds, by : Calls] \cup {NoAnswer, Busy}

Init ==
    /\ pc = [c \in Calls |-> "idle"]
    /\ key \in [Calls -> Keys]
    /\ holder = [c \in Calls |-> NoCall]
    /\ inFlight = [k \in Keys |-> NoCall]
    /\ waitq = <<>>
    /\ permits = Concurrency
    /\ active = 0
    /\ outcome = [c \in Calls |-> "none"]
    /\ result = [c \in Calls |-> "none"]
    /\ woken = {}
    /\ answer = [c \in Calls |-> NoAnswer]
    /\ completed = 0 /\ failed = 0 /\ deduplicated = 0 /\ samples = 0

Goto(c, l) == pc' = [pc EXCEPT ![c] = l]

-----------------------------------------------------------------------------
(* What the steps write.  The forms with a suffix are plausible defects,   *)
(* used only to show that the properties notice them.                      *)

Full_OffByOne == Cardinality(InMap) > Capacity
Full          == Cardinality(InMap) >= Capacity

Register_Forgets(c) == inFlight
Register(c)         == [inFlight EXCEPT ![key[c]] = c]

Unregister_Forgets(c) == inFlight
Unregister(c)         == [inFlight EXCEPT ![key[c]] = NoCall]

FreedPermits_Leak == permits
FreedPermits      == permits + 1

Finished == active - 1

Sampled == IF samples < Window THEN samples + 1 ELSE samples

Succeeded_NotFailed(c) == outcome[c] # "failed"
Succeeded(c)           == outcome[c] = "ok"

Shared_LosesTimeout(c) == IF outcome[c] = "ok" THEN "ok" ELSE "failed"
Shared(c)              == outcome[c]

\* notify_waiters completes every Notified future that exists now, polled
\* or not, and leaves nothing for the ones created later; notify_one would
\* complete one of them.
HasNotified(c) == {w \in Calls : /\ holder[w] = c
                                 /\ pc[w] \in {"subscribed", "parked"}}
Listening_One(c) == {w \in HasNotified(c) :
                        w = CHOOSE v \in HasNotified(c) : TRUE}
Listening(c)     == HasNotified(c)

-----------------------------------------------------------------------------
(* Admission: one critical section of in_flight_map.                       *)

Join(c) ==
    /\ pc[c] = "idle"
    /\ inFlight[key[c]] # NoCall
    /\ holder' = [holder EXCEPT ![c] = inFlight[key[c]]]
    /\ deduplicated' = deduplicated + 1
    /\ Goto(c, "joined")
    /\ UNCHANGED <<key, inFlight, waitq, permits, active, outcome, result,
                   woken, answer, completed, failed, samples>>

Reject(c) ==
    /\ pc[c] = "idle"
    /\ inFlight[key[c]] = NoCall
    /\ Full
    /\ answer' = [answer EXCEPT ![c] = Busy]
    /\ Goto(c, "done")
    /\ UNCHANGED <<key, holder, inFlight, waitq, permits, active, outcome,
                   result, woken, counters>>

Admit(c) ==
    /\ pc[c] = "idle"
    /\ inFlight[key[c]] = NoCall
    /\ ~Full
    /\ inFlight' = Register(c)
    /\ holder' = [holder EXCEPT ![c] = c]
    /\ Goto(c, "admitted")
    /\ UNCHANGED <<key, waitq, permits, active, outcome, result, woken,
                   answer, counters>>

-----------------------------------------------------------------------------
(* The producer.                                                           *)

\* First poll of acquire_owned: the semaphore queues its waiters in order.
RequestPermit(c) ==
    /\ pc[c] = "admitted"
    /\ waitq' = Append(waitq, c)
    /\ Goto(c, "queued")
    /\ UNCHANGED <<local, inFlight, permits, active, result, woken, counters>>

StartWork(c) ==
    /\ pc[c] = "queued"
    /\ waitq # <<>> /\ Head(waitq) = c
    /\ permits > 0
    /\ waitq' = Tail(waitq)
    /\ permits' = permits - 1
    /\ active' = active + 1
    /\ Goto(c, "working")
    /\ UNCHANGED <<local, inFlight, result, woken, counters>>

\* The work returns a value or an error, or its timeout expires.
FinishWork(c) ==
    /\ pc[c] = "working"
    /\ active' = Finished
    /\ \E o \in Kinds : outcome' = [outcome EXCEPT ![c] = o]
    /\ Goto(c, "worked")
    /\ UNCHANGED <<key, holder, answer, inFlight, waitq, permits, result,
                   woken, counters>>

RecordDuration(c) ==
    /\ pc[c] = "worked"
    /\ samples' = Sampled
    /\ Goto(c, "recorded")
    /\ UNCHANGED <<local, inFlight, waitq, permits, active, result, woken,
                   completed, failed, deduplicated>>

CountOutcome(c) ==
    /\ pc[c] = "recorded"
    /\ IF Succeeded(c)
       THEN completed' = completed + 1 /\ UNCHANGED failed
       ELSE failed' = failed + 1 /\ UNCHANGED completed
    /\ Goto(c, "counted")
    /\ UNCHANGED <<local, inFlight, waitq, permits, active, result, woken,
                   deduplicated, samples>>

Publish(c) ==
    /\ pc[c] = "counted"
    /\ result' = [result EXCEPT ![c] = Shared(c)]
    /\ Goto(c, "published")
    /\ UNCHANGED <<local, inFlight, waitq, permits, active, woken, counters>>

NotifyWaiters(c) ==
    /\ pc[c] = "published"
    /\ woken' = woken \cup Listening(c)
    /\ Goto(c, "notified")
    /\ UNCHANGED <<local, inFlight, waitq, permits, active, result, counters>>

\* Remove the key and return; the permit is dropped with the frame.
Release(c) ==
    /\ pc[c] = "notified"
    /\ inFlight' = Unregister(c)
    /\ permits' = FreedPermits
    /\ answer' = [answer EXCEPT ![c] = [kind |-> outcome[c], by |-> c]]
    /\ Goto(c, "done")
    /\ UNCHANGED <<key, holder, outcome, waitq, active, result, woken,
                   counters>>

-----------------------------------------------------------------------------
(* wait_for_result.                                                        *)

Subscribe(c) ==
    /\ pc[c] = "joined"
    /\ woken' = woken \ {c}
    /\ Goto(c, "subscribed")
    /\ UNCHANGED <<local, inFlight, waitq, permits, active, result, counters>>

CheckResult(c) ==
    /\ pc[c] = "subscribed"
    /\ IF result[holder[c]] # "none"
       THEN /\ answer' = [answer EXCEPT ![c] =
                             [kind |-> result[holder[c]], by |-> holder[c]]]
            /\ Goto(c, "done")
       ELSE /\ Goto(c, "parked")
            /\ UNCHANGED answer
    /\ UNCHANGED <<key, holder, outcome, inFlight, waitq, permits, active,
                   result, woken, counters>>

Wake(c) ==
    /\ pc[c] = "parked"
    /\ c \in woken
    /\ Goto(c, "joined")
    /\ UNCHANGED <<local, inFlight, waitq, permits, active, result, woken,
                   counters>>

-----------------------------------------------------------------------------
(* Dropping the future at an await runs the destructors of what it owns:   *)
(* the place in the semaphore queue, or the permit.  Nothing else in add   *)
(* is undone.                                                              *)

DropQueued(c) ==
    /\ c \in Droppable
    /\ pc[c] = "queued"
    /\ \E i \in 1 .. Len(waitq) : /\ waitq[i] = c
                                  /\ waitq' = RemoveAt(waitq, i)
    /\ Goto(c, "dropped")
    /\ UNCHANGED <<local, inFlight, permits, active, result, woken, counters>>

DropRunning(c) ==
    /\ c \in Droppable
    /\ pc[c] \in {"working", "counted"}
    /\ permits' = FreedPermits
    /\ Goto(c, "dropped")
    /\ UNCHANGED <<local, inFlight, waitq, active, result, woken, counters>>

DropWaiting(c) ==
    /\ c \in Droppable
    /\ pc[c] \in {"subscribed", "parked"}
    /\ Goto(c, "dropped")
    /\ UNCHANGED <<local, inFlight, waitq, permits, active, result, woken,
                   counters>>

-----------------------------------------------------------------------------
Arrive(c)  == Join(c) \/ Reject(c) \/ Admit(c)
Produce(c) == \/ RequestPermit(c) \/ StartWork(c) \/ FinishWork(c)
              \/ RecordDuration(c) \/ CountOutcome(c) \/ Publish(c)
              \/ NotifyWaiters(c) \/ Release(c)
Await(c)   == Subscribe(c) \/ CheckResult(c) \/ Wake(c)
Drop(c)    == DropQueued(c) \/ DropRunning(c) \/ DropWaiting(c)

Next == \E c \in Calls : Arrive(c) \/ Produce(c) \/ Await(c) \/ Drop(c)

\* The runtime polls every task that can progress, and the work is bounded
\* by its timeout.  Nobody has to call add, or to drop a call.
Fairness == \A c \in Calls : WF_vars(Produce(c)) /\ WF_vars(Await(c))

Spec     == Init /\ [][Next]_vars
FairSpec == Spec /\ Fairness

-----------------------------------------------------------------------------
Labels == {"idle", "done", "dropped"} \cup Producing \cup Waiting

\* Every variable keeps its type; the kept samples never exceed the window.
TypeOK ==
    /\ pc \in [Calls -> Labels]
    /\ key \in [Calls -> Keys]
    /\ holder \in [Calls -> Calls \cup {NoCall}]
    /\ inFlight \in [Keys -> Calls \cup {NoCall}]
    /\ waitq \in Seq(Calls)
    /\ permits \in 0 .. Concurrency
    /\ active \in Nat
    /\ outcome \in [Calls -> Kinds \cup {"none"}]
    /\ result \in [Calls -> Kinds \cup {"none"}]
    /\ woken \subseteq Calls
    /\ answer \in [Calls -> Answers]
    /\ completed \in Nat /\ failed \in Nat /\ deduplicated \in Nat
    /\ samples \in 0 .. Window

\* A key has at most one producer from its admission to the removal of the
\* key, so the work of one key never runs twice at a time.
SingleFlight ==
    \A c, d \in Calls :
        pc[c] \in Producing /\ pc[d] \in Producing /\ key[c] = key[d] => c = d

\* The map never holds more keys than the limit, and never more work runs
\* than the semaphore has permits, whatever futures are dropped.
CapacityBound ==
    /\ Cardinality(InMap) <= Capacity
    /\ Cardinality(At({"working"})) <= Concurrency

\* A caller is told the very outcome its key's producer ended with: the
\* deduplicated ones the same as the producer, errors and timeouts included.
AnswersShared ==
    \A c \in Calls : pc[c] = "done" /\ answer[c] # Busy =>
        LET p == answer[c].by IN
        /\ p = holder[c] /\ key[p] = key[c]
        /\ answer[c].kind = outcome[p] /\ outcome[p] # "none"

\* Permits are neither lost nor invented: the free ones and the producers
\* that own one add up, also when the owner's future is dropped.
PermitsConserved ==
    permits + Cardinality(At(HasPermit)) = Concurrency

Returned(K) == {c \in Calls : /\ pc[c] \in Counted \cup {"done", "dropped"}
                              /\ holder[c] = c /\ outcome[c] \in K}

\* The counters of the snapshot add up: each producer that got past its
\* work is counted once, on the right side, and each other caller of its
\* key once as deduplicated; each finished work left one sample while the
\* window lasted.  The gauge `active` is the number of works that are running,
\* plus at most one for each future that was dropped: a drop at the work
\* skips the decrement, and nothing else makes it drift.
CountersExact ==
    /\ completed = Cardinality(Returned({"ok"}))
    /\ failed = Cardinality(Returned({"failed", "exceeded"}))
    /\ deduplicated = Cardinality({c \in Calls : holder[c] \notin {c, NoCall}})
    /\ completed + failed <= Window => samples >= completed + failed
    /\ LET running == Cardinality(At({"working"})) IN
       active \in running .. running + Cardinality(At({"dropped"}))

\* A call is refused only while Capacity other calls produce, or were
\* dropped while they did: a producer that returned has given up its place.
RefusedOnlyWhenBusy ==
    [][\A c \in Calls : answer'[c] = Busy /\ answer[c] # Busy =>
          Cardinality({p \in At(Producing \cup {"dropped"}) : holder[p] = p})
              = Capacity]_vars

\* Every call of add whose future is kept returns, unless it shares the
\* flight of a producer whose future was dropped.
EveryCallReturns ==
    \A c \in Calls :
        pc[c] # "idle" ~> \/ pc[c] \in {"done", "dropped"}
                          \/ pc[c] \in Waiting /\ pc[holder[c]] = "dropped"

\* The same for the callers that were deduplicated onto a producer: "share
\* its bounded result" (render_queue.rs:212).
SharedResultIsBounded ==
    \A c \in Calls : pc[c] \in Waiting ~> pc[c] \in {"done", "dropped"}

-----------------------------------------------------------------------------
(* The queue implements the abstract promise.                              *)

AbstractPhase(l) ==
    CASE l = "idle" -> "idle"
      [] l = "done" -> "answered"
      [] l = "dropped" -> "dropped"
      [] OTHER -> "waiting"

Abstract == INSTANCE Coalescing WITH
    phase <- [c \in Calls |-> AbstractPhase(pc[c])],
    leader <- holder,
    open <- {inFlight[k] : k \in InMap},
    verdict <- result

\* Every behaviour of the queue is one of Coalescing, dropped calls included.
ImplementsCoalescing == Abstract!Spec
=============================================================================
