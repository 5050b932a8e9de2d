---------------------------- MODULE HealthServer ----------------------------
(***************************************************************************)
(* The HTTP server of src/src/health.rs: its handlers, the three atomics   *)
(* they count in, and the mutexes of QueueLocks that GET /health takes     *)
(* beside the work of the render queue.  What a preview asks of the        *)
(* backend is in Endpoints; here it is work of unknown length.             *)
(*                                                                         *)
(* The atomics are accessed with Ordering::Relaxed, which orders accesses  *)
(* to one of them only: a handler touches the three in any order.          *)
(***************************************************************************)
EXTENDS QueueLocks, Integers, FiniteSets

CONSTANTS
    Requests,       \* HTTP requests
    Latencies       \* what a handler may have taken, in ms

ASSUME HealthAssumption ==
    /\ Latencies \subseteq Nat /\ "snapshot" \notin Jobs
    /\ IsFiniteSet(Requests)

Metrics == {"commands_processed", "last_latency_ms", "total_latency_ms"}

VARIABLES
    images,         \* whether there is an ImageService
    at,             \* where each handler is
    on,             \* the thread that a health request keeps to itself
    metric,         \* the atomics
    left,           \* those that a handler still has to touch
    latency,        \* what a handler records, once it does
    seen,           \* what a health request read
    before          \* handlers that had recorded when this one began to

serverVars == <<images, at, on, metric, left, latency, seen, before>>

Zero       == [m \in Metrics |-> 0]
Unmeasured == -1

ServerInit ==
    /\ Init
    /\ images \in BOOLEAN
    /\ at = [r \in Requests |-> "none"]
    /\ on = [r \in Requests |-> Nobody]
    /\ metric = Zero
    /\ left = [r \in Requests |-> {}]
    /\ latency = [r \in Requests |-> Unmeasured]
    /\ seen = [r \in Requests |-> Zero]
    /\ before = [r \in Requests |-> {}]

Goto(r, l) == at' = [at EXCEPT ![r] = l]
Recorded   == {r \in Requests : latency[r] # Unmeasured /\ left[r] = {}}

\* Turn to the metrics.
Touch(r) ==
    /\ left' = [left EXCEPT ![r] = Metrics]
    /\ before' = [before EXCEPT ![r] = Recorded]

-----------------------------------------------------------------------------
(* health_handler.                                                         *)

Free(t) == todo[t] = <<>> /\ \A r \in Requests : on[r] # t

Health(r) ==
    /\ at[r] = "none"
    /\ \E t \in Threads :
          /\ Free(t)
          /\ on' = [on EXCEPT ![r] = t]
          /\ IF images THEN Run(t, "snapshot") ELSE UNCHANGED vars
    /\ Goto(r, "snapshot")
    /\ UNCHANGED <<images, metric, left, latency, seen, before>>

\* The thread is through with the snapshot; no await follows it.
ReadMetrics(r) ==
    /\ at[r] = "snapshot" /\ todo[on[r]] = <<>>
    /\ Goto(r, "reading")
    /\ Touch(r)
    /\ UNCHANGED <<vars, images, on, metric, latency, seen>>

Load(r) ==
    /\ at[r] = "reading"
    /\ \E m \in left[r] :
          /\ seen' = [seen EXCEPT ![r][m] = metric[m]]
          /\ left' = [left EXCEPT ![r] = @ \ {m}]
    /\ UNCHANGED <<vars, images, at, on, metric, latency, before>>

Report(r) ==
    /\ at[r] = "reading" /\ left[r] = {}
    /\ Goto(r, "replied")
    /\ on' = [on EXCEPT ![r] = Nobody]
    /\ seen' = [seen EXCEPT ![r] = Zero]
    /\ before' = [before EXCEPT ![r] = {}]
    /\ UNCHANGED <<vars, images, metric, left, latency>>

-----------------------------------------------------------------------------
(* The other handlers.                                                     *)

Reply(r) == Goto(r, "replied") /\ UNCHANGED <<vars, images, on, metric, left, latency, seen, before>>

Root(r) == at[r] = "none" /\ Reply(r)

Record(r) ==
    /\ Goto(r, "recording")
    /\ \E l \in Latencies : latency' = [latency EXCEPT ![r] = l]
    /\ Touch(r)
    /\ UNCHANGED <<vars, images, on, metric, seen>>

\* The id is not one, or there is no renderer; otherwise a cached image, or
\* match_info and render_match.
MatchImage(r) ==
    /\ at[r] = "none"
    /\ \/ Reply(r)
       \/ /\ images
          /\ Goto(r, "image")
          /\ UNCHANGED <<vars, images, on, metric, left, latency, seen, before>>

\* Only an image is recorded.
ImageReady(r) == at[r] = "image" /\ (Record(r) \/ Reply(r))

\* Every preview is recorded, that of an unknown command at once.
Preview(r) ==
    /\ at[r] = "none"
    /\ \/ Record(r)
       \/ /\ Goto(r, "preview")
          /\ UNCHANGED <<vars, images, on, metric, left, latency, seen, before>>

PreviewReady(r) == at[r] = "preview" /\ Record(r)

\* The client goes away at an await.
HangUp(r) == at[r] \in {"image", "preview"} /\ Reply(r)

Added_Stored(v, l) == l
Added(v, l)        == v + l

Applied(m, l) == CASE m = "commands_processed" -> metric[m] + 1
                   [] m = "total_latency_ms"   -> Added(metric[m], l)
                   [] m = "last_latency_ms"    -> l

Count(r) ==
    /\ at[r] = "recording"
    /\ \E m \in left[r] :
          /\ metric' = [metric EXCEPT ![m] = Applied(m, latency[r])]
          /\ left' = [left EXCEPT ![r] = @ \ {m}]
          /\ at' = IF left[r] = {m} THEN [at EXCEPT ![r] = "replied"] ELSE at
    /\ UNCHANGED <<vars, images, on, latency, seen, before>>

Handler(r) ==
    \/ Health(r) \/ ReadMetrics(r) \/ Load(r) \/ Report(r) \/ Root(r)
    \/ MatchImage(r) \/ ImageReady(r) \/ Preview(r) \/ PreviewReady(r)
    \/ HangUp(r) \/ Count(r)

\* What the worker threads do else, and for a health request's snapshot.
Work(t) ==
    /\ \/ images /\ Free(t) /\ Begin(t)
       \/ Lock(t) \/ Unlock(t)
    /\ UNCHANGED serverVars

ServerNext == (\E r \in Requests : Handler(r)) \/ (\E t \in Threads : Work(t))
ServerSpec == ServerInit /\ [][ServerNext]_<<vars, serverVars>>

-----------------------------------------------------------------------------
\* The sum of their latencies, counted millisecond by millisecond.
Total(S) == Cardinality(UNION {{r} \X (1 .. latency[r]) : r \in S})

\* A health report leaves out nothing that was "Record[ed]" (health.rs:67)
\* before it began to read, and counts nothing twice: its numbers are those
\* of these handlers and some of the ones that recorded meanwhile, though
\* not the same ones in each number.  The last latency is none that a later
\* one has replaced.
MetricsExact ==
    \A h \in Requests : at[h] = "reading" /\ left[h] = {} =>
        LET done  == before[h]
            while == {r \in Requests : latency[r] # Unmeasured} \ done IN
        /\ \E S \in SUBSET while : seen[h]["commands_processed"] = Cardinality(done \cup S)
        /\ \E S \in SUBSET while : seen[h]["total_latency_ms"] = Total(done \cup S)
        /\ \/ done = {} /\ seen[h]["last_latency_ms"] = 0
           \/ \E r \in done \cup while :
                 /\ seen[h]["last_latency_ms"] = latency[r]
                 /\ \A s \in done : r \notin before[s]
=============================================================================
