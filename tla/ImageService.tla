----------------------------- MODULE ImageService -----------------------------
(***************************************************************************)
(* ImageService of src/src/image/render_service.rs around its queue: cache *)
(* lookup, queued work of at most two attempts with a recycle after each   *)
(* failure, the recycle on a work timeout, the store, and the command      *)
(* timeout of render_match_scoreboard (src/src/commands.rs) that drops the *)
(* whole call and recycles.  render_match and render_loadout differ only   *)
(* in how they name the key.  Every call is one of a command: the HTTP     *)
(* handler of health.rs has no timeout and never recycles.                 *)
(*                                                                         *)
(* The queue is RenderQueue, step by step.  Of the browser, which is the   *)
(* subject of BrowserLifecycle, one fact is kept: whether an attempt was     *)
(* abandoned on its page.  A recycle by one call may hit the attempt of    *)
(* another; that is among the ways an attempt fails.                       *)
(***************************************************************************)
EXTENDS RenderQueue

\* "uses one queue permit for its shared CDP page".
ASSUME ImageAssumption == Concurrency = 1

VARIABLES
    stage,          \* where each call is in render_match
    work,           \* where the work of a producer is in render_with_recovery
    dirty,          \* the page was left in the middle of a render
    cache,          \* key -> the producer of the cached PNG
    png,            \* the producer of the PNG a call returned
    retries, recoveries     \* ServiceStats

stats       == <<retries, recoveries>>
service     == <<stage, work, dirty, cache, png, stats>>
serviceVars == <<vars, service>>

Ended == {"served", "refused", "timedout"}
Using == {c \in Calls : pc[c] = "working" /\ work[c] \in {"first", "second"}}

ServiceInit ==
    /\ Init
    /\ stage = [c \in Calls |-> "new"]
    /\ work = [c \in Calls |-> "none"]
    /\ dirty = FALSE
    /\ cache = [k \in Keys |-> NoCall]
    /\ png = [c \in Calls |-> NoCall]
    /\ retries = 0 /\ recoveries = 0

Move(c, l) == stage' = [stage EXCEPT ![c] = l]
Serve(c, p) == Move(c, "served") /\ png' = [png EXCEPT ![c] = p]

\* Kill Chromium, also under those who are using it now.
Recycle == dirty' = FALSE

\* The future of c's work, if any, is dropped.
Abandon(c) == dirty' = (dirty \/ c \in Using)

-----------------------------------------------------------------------------
Lookup(c) ==
    /\ stage[c] = "new"
    /\ IF cache[key[c]] # NoCall THEN Serve(c, cache[key[c]])
       ELSE Move(c, "queue") /\ UNCHANGED png
    /\ UNCHANGED <<vars, work, dirty, cache, stats>>

StartsWork(c) == pc[c] = "queued"

\* A step of the queue.  The work starts with its first attempt, and it ends
\* with what the attempts came to or by its timeout.
InQueue(c) ==
    /\ stage[c] = "queue"
    /\ Arrive(c) \/ Produce(c) \/ Await(c)
    /\ outcome'[c] # outcome[c] => outcome'[c] \in {work[c], "exceeded"}
    /\ work' = IF StartsWork(c) THEN [work EXCEPT ![c] = "first"] ELSE work
    /\ IF pc[c] = "working" THEN Abandon(c) ELSE UNCHANGED dirty
    /\ UNCHANGED <<stage, cache, png, stats>>

\* An attempt succeeds or fails.  It may survive a recycle that comes before
\* it asks for the browser or after its screenshot.
Attempt(c) ==
    /\ c \in Using
    /\ \/ work' = [work EXCEPT ![c] = "ok"]
       \/ work' = [work EXCEPT ![c] = IF @ = "first" THEN "retry" ELSE "giveup"]
    /\ UNCHANGED <<vars, stage, dirty, cache, png, stats>>

LastTry_Never(c) == FALSE
LastTry(c)       == work[c] = "giveup"

\* render_with_recovery after a failed attempt.
Recover(c) ==
    /\ pc[c] = "working" /\ work[c] \in {"retry", "giveup"}
    /\ Recycle
    /\ recoveries' = recoveries + 1
    /\ IF LastTry(c)
       THEN work' = [work EXCEPT ![c] = "failed"] /\ UNCHANGED retries
       ELSE work' = [work EXCEPT ![c] = "second"] /\ retries' = retries + 1
    /\ UNCHANGED <<vars, stage, cache, png>>

IsWorkTimeout_Failed(c) == {answer[c].kind = "failed"}

\* The text of the error has " exceeded " in it, as that of a failure may.
IsWorkTimeout(c) == CASE answer[c].kind = "exceeded" -> {TRUE}
                      [] answer[c].kind = "failed"   -> BOOLEAN
                      [] OTHER                       -> {FALSE}

\* finish_queued_render, for a producer and for each call that shared with it.
Finish(c) ==
    /\ stage[c] = "queue" /\ pc[c] = "done"
    /\ IF answer[c].kind = "ok" THEN Move(c, "store")
       ELSE \E late \in IsWorkTimeout(c) :
               Move(c, IF late THEN "recycling" ELSE "refused")
    /\ UNCHANGED <<vars, work, dirty, cache, png, stats>>

\* "Reset the shared CDP page", then tell.
RecycleWork(c) ==
    /\ stage[c] = "recycling"
    /\ Recycle
    /\ recoveries' = recoveries + 1
    /\ Move(c, "refused")
    /\ UNCHANGED <<vars, work, cache, png, retries>>

Stored_AnyKey(c) == [k \in Keys |-> answer[c].by]
Stored(c)        == [cache EXCEPT ![key[c]] = answer[c].by]

Store(c) ==
    /\ stage[c] = "store"
    /\ cache' = Stored(c)
    /\ Serve(c, answer[c].by)
    /\ UNCHANGED <<vars, work, dirty, stats>>

\* moka drops an entry: ten minutes are over, or the cache is full.
Evict(k) ==
    /\ cache[k] # NoCall
    /\ cache' = [cache EXCEPT ![k] = NoCall]
    /\ UNCHANGED <<vars, stage, work, dirty, png, stats>>

-----------------------------------------------------------------------------
(* The command's own timeout.                                              *)

\* The future is dropped at whichever await it is: of the cache, of the queue,
\* where what it holds goes with it, or of the recycle after the answer.
TimeOutAside(c) ==
    /\ c \in Droppable /\ stage[c] \in {"new", "recycling", "store"}
    /\ Move(c, "reset")
    /\ UNCHANGED <<vars, work, dirty, cache, png, stats>>

TimeOutInQueue(c) ==
    /\ c \in Droppable /\ stage[c] = "queue"
    /\ Drop(c)
    /\ Move(c, "reset")
    /\ Abandon(c)
    /\ UNCHANGED <<work, cache, png, stats>>

TimeOut(c) == TimeOutAside(c) \/ TimeOutInQueue(c)

\* images.recycle(), which counts nothing.
Reset(c) ==
    /\ stage[c] = "reset"
    /\ Recycle
    /\ Move(c, "timedout")
    /\ UNCHANGED <<vars, work, cache, png, stats>>

-----------------------------------------------------------------------------
Call(c) == \/ Lookup(c) \/ InQueue(c) \/ Attempt(c) \/ Recover(c)
           \/ Finish(c) \/ RecycleWork(c) \/ Store(c) \/ Reset(c)

ServiceNext == \/ \E c \in Calls : Call(c) \/ TimeOut(c)
               \/ \E k \in Keys : Evict(k)
ServiceSpec == ServiceInit /\ [][ServiceNext]_serviceVars

-----------------------------------------------------------------------------
\* Every variable keeps its type; only whoever got a permit has work.
ServiceTypeOK ==
    /\ stage \in [Calls -> {"new", "queue", "recycling", "store", "reset"} \cup Ended]
    /\ work \in [Calls -> {"none", "first", "second", "retry", "giveup", "ok", "failed"}]
    /\ dirty \in BOOLEAN
    /\ \A c \in Calls : work[c] # "none" => pc[c] \notin {"idle", "admitted", "queued"}
    /\ cache \in [Keys -> Calls \cup {NoCall}]
    /\ png \in [Calls -> Calls \cup {NoCall}]
    /\ retries \in Nat /\ recoveries \in Nat

\* Whoever is served gets a PNG that a call with the same key rendered to
\* its end, through the cache or through the queue; failures and timeouts
\* are never cached.
ServedIsRendered ==
    /\ \A c \in Calls : stage[c] = "served" =>
          png[c] # NoCall /\ key[png[c]] = key[c] /\ outcome[png[c]] = "ok"
    /\ \A k \in Keys : cache[k] # NoCall =>
          key[cache[k]] = k /\ outcome[cache[k]] = "ok"

\* Every attempt that was abandoned in the middle is followed by a recycle,
\* of the caller that was told of the timeout or of the command that timed
\* out: until then one of them is still on its way to it.
InterruptedIsRecycled ==
    dirty => \E c \in Calls : \/ stage[c] \in {"recycling", "reset"}
                              \/ stage[c] = "queue" /\ outcome[c] = "exceeded"

\* A second attempt never runs on the page its first one, or another call,
\* left in the middle of a render; and nobody has a third one.
RetryIsClean ==
    /\ \A c \in Calls : c \in Using /\ work[c] = "second" => ~dirty
    /\ retries <= Cardinality({c \in Calls : work[c] # "none"})

-----------------------------------------------------------------------------
(* The service implements the abstract promise.                            *)

AbstractStage(l) ==
    CASE l \in {"queue", "recycling", "store"} -> "asking"
      [] l \in {"reset", "timedout"}           -> "gone"
      [] OTHER -> l

Images == INSTANCE Gallery WITH
    phase <- [c \in Calls |-> AbstractPhase(pc[c])],
    leader <- holder,
    open <- {inFlight[k] : k \in InMap},
    verdict <- result,
    stage <- [c \in Calls |-> AbstractStage(stage[c])],
    shelf <- cache,
    shown <- png

\* Every behaviour of the service, whatever is retried, recycled, evicted or
\* dropped in it, is one of Gallery.
ImplementsGallery == Images!GallerySpec
=============================================================================
