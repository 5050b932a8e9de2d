------------------------------ MODULE QueueLocks ------------------------------
(***************************************************************************)
(* The std::sync mutexes that BoundedWorkQueue (render_queue.rs) and       *)
(* ImageService (render_service.rs) take, at the level of the runtime's    *)
(* worker threads.  Such a mutex blocks the thread, not only the task: a   *)
(* thread that waits for one polls nothing else meanwhile.  RenderQueue    *)
(* takes each critical section as one step; here only the sections are     *)
(* modelled, with the order in which a section takes and gives up guards.  *)
(***************************************************************************)
EXTENDS Sequences, FiniteSets

CONSTANTS
    Threads,        \* worker threads of the runtime
    Nobody,         \* "free lock"
    Jobs            \* the code paths that run, a subset of Paths

Locks == {"stats", "state", "map"}  \* ImageService.stats, .state, .in_flight_map
Paths == {"share", "admit", "complete", "recover", "snapshot"}

ASSUME LocksAssumption == Nobody \notin Threads /\ Jobs \subseteq Paths

VARIABLES
    todo,           \* what each thread still has to take and to give up
    owner           \* the thread that holds each lock

vars == <<todo, owner>>

Take(l) == [op |-> "take", locks |-> {l}]
Give(S) == [op |-> "give", locks |-> S]

-----------------------------------------------------------------------------
(* The paths.                                                              *)

\* add finds its key: the counter is incremented under the guard of the map.
Share == <<Take("map"), Take("state"), Give({"state"}), Give({"map"})>>

\* add inserts its key, or refuses it.
Admit == <<Take("map"), Give({"map"})>>

\* add after its work: record_duration, the outcome counter, the removal.
Complete_Nested == <<Take("state"), Give({"state"}),
                     Take("state"), Take("map"), Give({"state", "map"})>>
Complete == <<Take("state"), Give({"state"}),
              Take("state"), Give({"state"}),
              Take("map"), Give({"map"})>>

\* finish_queued_render and render_with_recovery count a recovery.
Recover == <<Take("stats"), Give({"stats"})>>

\* ImageService::snapshot calls the queue's under its own guard, and that
\* one looks at the map under the guard of its counters.
Snapshot == <<Take("stats"), Take("state"), Take("map"), Give({"map"}),
              Give({"state"}), Give({"stats"})>>

Path(j) == CASE j = "share"    -> Share
             [] j = "admit"    -> Admit
             [] j = "complete" -> Complete
             [] j = "recover"  -> Recover
             [] j = "snapshot" -> Snapshot

-----------------------------------------------------------------------------
Init == todo = [t \in Threads |-> <<>>] /\ owner = [l \in Locks |-> Nobody]

Run(t, j) ==
    /\ todo[t] = <<>>
    /\ todo' = [todo EXCEPT ![t] = Path(j)]
    /\ UNCHANGED owner

Begin(t) == \E j \in Jobs : Run(t, j)

Doing(t, op) == todo[t] # <<>> /\ Head(todo[t]).op = op

Advance(t, o) ==
    /\ owner' = [l \in Locks |-> IF l \in Head(todo[t]).locks THEN o ELSE owner[l]]
    /\ todo' = [todo EXCEPT ![t] = Tail(@)]

Lock(t) ==
    /\ Doing(t, "take")
    /\ \A l \in Head(todo[t]).locks : owner[l] = Nobody
    /\ Advance(t, t)

Unlock(t) == Doing(t, "give") /\ Advance(t, Nobody)

Next == \E t \in Threads : Begin(t) \/ Lock(t) \/ Unlock(t)
Spec == Init /\ [][Next]_vars

-----------------------------------------------------------------------------
Held(t) == {l \in Locks : owner[l] = t}

\* A thread holds only locks that it still has to give up.
TypeOK ==
    /\ todo \in [Threads -> Seq([op : {"take", "give"}, locks : SUBSET Locks])]
    /\ owner \in [Locks -> Threads \cup {Nobody}]
    /\ \A t \in Threads :
          Held(t) \subseteq UNION {todo[t][i].locks : i \in DOMAIN todo[t]}

WaitsFor(t, u) ==
    Doing(t, "take") /\ \E l \in Head(todo[t]).locks : owner[l] = u

Circle(S) == S # {} /\ \A t \in S : \E u \in S : WaitsFor(t, u)

\* No threads wait for one another in a circle: "`Notify` prevents the
\* polling and runtime-blocking lock" (render_queue.rs:99), so no worker
\* thread is blocked for good.
NoWaitCycle == \A S \in SUBSET Threads : ~Circle(S)

\* Every circle there is goes through a health snapshot that holds the
\* counters and a deduplicated call that holds the map: admission, the work
\* and its recovery never block one another, nor a snapshot.
OnlySnapshotsBlock ==
    \A S \in SUBSET Threads : Circle(S) =>
        \E t, u \in S : Held(t) = {"stats", "state"} /\ Held(u) = {"map"}
                       /\ todo[u] = Tail(Share)
=============================================================================
