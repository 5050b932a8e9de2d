--------------------------- MODULE BrowserLifecycle ---------------------------
(***************************************************************************)
(* MatchRenderer of src/src/image/match_renderer.rs: the slots that hold   *)
(* the Chromium child, its page URL and the CDP client, and the tasks that *)
(* fill, use and empty them.                                               *)
(*                                                                         *)
(* A task of Renders runs render_with_recovery of render_service.rs: up to *)
(* two attempts of render_element, each failure followed by recycle.  Its  *)
(* future may be dropped at an await (the work or the command timed out);  *)
(* whoever dropped it recycles.  A task of Warmers runs ensure_browser     *)
(* without the render lock; one of Recyclers is a caller that recycles for *)
(* a timeout it was told of.  The service's queue lets QueueSlots renders  *)
(* run at a time.  Chromium is external: it boots, listens and may crash.  *)
(***************************************************************************)
EXTENDS Integers, FiniteSets, FiniteSetsExt

CONSTANTS
    Renders, Warmers, Recyclers,    \* the tasks
    QueueSlots,                     \* renders the queue admits at a time
    Droppable,                      \* renders whose future may be dropped
    Casts,                          \* which tasks run side by side
    MaxSpawn,                       \* bound: Chromium processes started
    MaxCrash                        \* bound: processes that crash

Tasks == Renders \cup Warmers \cup Recyclers
Procs == 1 .. MaxSpawn
None  == 0                          \* empty slot; ids of processes start at 1
Ports == 1 .. MaxSpawn              \* 9222..9299 in the code

ASSUME BrowserAssumption ==
    /\ IsFiniteSet(Tasks) /\ None \notin Tasks
    /\ Renders \cap Warmers = {} /\ Renders \cap Recyclers = {}
    /\ Warmers \cap Recyclers = {}
    /\ QueueSlots \in Nat \ {0} /\ MaxSpawn \in Nat /\ MaxCrash \in Nat
    /\ Droppable \subseteq Renders
    /\ Casts \subseteq SUBSET Tasks

VARIABLES
    pc, attempt,        \* where each task is; the attempt of a render
    slot,               \* browser_process
    url,                \* ws_url: the process whose page it names
    client,             \* cdp_client: the process it is connected to
    poisoned,           \* cdp_client's mutex after a panic under its guard
    activePort,
    lock,               \* holder of render_lock, or None
    mine,               \* the process a task spawned, resolved or uses
    probed,             \* the port a task waits for
    alive, listening,   \* Chromium processes, as the OS sees them
    port,               \* the debugging port each was started with
    spawned, crashed,   \* how many were started, and crashed
    page, shot          \* document of each browser's page; what was captured

slots == <<slot, url, client, poisoned, activePort>>
os    == <<alive, listening, port, spawned, crashed, page>>
vars  == <<pc, attempt, slots, lock, mine, probed, os, shot>>

Idle == {"absent", "idle", "done", "failed", "panicked"}
Ensuring == {"fast", "check", "spawn", "store", "ready", "probe", "teardown",
             "url", "seturl", "connect", "publish", "take"}
Drawing == {"inject", "confirm", "capture"}
Recycling == {"kill", "disconnect", "forget"}

Init ==
    /\ \E cast \in Casts :
          pc = [t \in Tasks |-> IF t \in cast THEN "idle" ELSE "absent"]
    /\ attempt = [r \in Renders |-> 0]
    /\ slot = None /\ url = None /\ client = None
    /\ poisoned = FALSE /\ activePort = None /\ lock = None
    /\ mine = [t \in Tasks |-> None]
    /\ probed = [t \in Tasks |-> None]
    /\ alive = {} /\ listening = {} /\ spawned = 0 /\ crashed = 0
    /\ port = [p \in Procs |-> None]
    /\ page = [p \in Procs |-> None]
    /\ shot = [r \in Renders |-> None]

Goto(t, l) == pc' = [pc EXCEPT ![t] = l]

\* Dropping a BrowserProcess kills and reaps its process group.
Reap_Orphans(p) == UNCHANGED <<alive, listening>>
Reap(p) == alive' = alive \ {p} /\ listening' = listening \ {p}

\* The render lock is held from the start of an attempt to its end.
Unlock_Leaks(t) == UNCHANGED lock
Unlock(t) == lock' = IF lock = t THEN None ELSE lock

\* The frames of the attempt are gone: the guard and the client handle.
Leave(t, l) ==
    /\ Goto(t, l)
    /\ Unlock(t)
    /\ mine' = [mine EXCEPT ![t] = None]

\* An attempt ends in an error; a render recycles.
Fail(t) == Leave(t, IF t \in Renders THEN "kill" ELSE "failed")

\* unwrap on a poisoned mutex, or on an empty slot under the guard.
Panic(t) == Leave(t, "panicked")

\* The task goes on, using the browser p.
GoOn(t, l, p) ==
    /\ Goto(t, l)
    /\ mine' = [mine EXCEPT ![t] = p]
    /\ UNCHANGED lock

-----------------------------------------------------------------------------
(* Starting tasks.                                                         *)

Running == {r \in Renders : pc[r] \notin Idle /\ attempt[r] # 0}

\* The queue grants a permit; the permit is held over both attempts.
BeginRender(r) ==
    /\ pc[r] = "idle"
    /\ Cardinality(Running) < QueueSlots
    /\ attempt' = [attempt EXCEPT ![r] = 1]
    /\ Goto(r, "lock")
    /\ UNCHANGED <<slots, lock, mine, probed, os, shot>>

LockFree_Ignored == TRUE
LockFree == lock = None

TakeLock(r) ==
    /\ pc[r] = "lock"
    /\ LockFree
    /\ lock' = r
    /\ Goto(r, "fast")
    /\ UNCHANGED <<attempt, slots, mine, probed, os, shot>>

BeginWarm(w) ==
    /\ pc[w] = "idle"
    /\ Goto(w, "fast")
    /\ UNCHANGED <<attempt, slots, lock, mine, probed, os, shot>>

BeginRecycle(x) ==
    /\ pc[x] = "idle"
    /\ Goto(x, "kill")
    /\ UNCHANGED <<attempt, slots, lock, mine, probed, os, shot>>

-----------------------------------------------------------------------------
(* ensure_browser.                                                         *)

\* ensure_browser returns its client; a warm-up drops it.
Connect(t, p) == IF t \in Renders THEN GoOn(t, "inject", p) ELSE Leave(t, "done")

FastPath(t) ==
    /\ pc[t] = "fast"
    /\ IF poisoned THEN Panic(t)
       ELSE IF client = None THEN GoOn(t, "check", None) ELSE Connect(t, client)
    /\ UNCHANGED <<attempt, slots, probed, os, shot>>

CheckChild(t) ==
    /\ pc[t] = "check"
    /\ slot' = IF slot \in alive THEN slot ELSE None
    /\ Goto(t, IF slot \in alive THEN "ready" ELSE "spawn")
    /\ UNCHANGED <<attempt, url, client, poisoned, activePort, lock, mine,
                   probed, os, shot>>

FreePorts == Ports \ {port[p] : p \in listening}

\* Choose the first port nobody listens on, record it and start Chromium.
Exec(t) ==
    /\ pc[t] = "spawn"
    /\ spawned < MaxSpawn
    /\ spawned' = spawned + 1
    /\ activePort' = Min(FreePorts)
    /\ port' = [port EXCEPT ![spawned'] = activePort']
    /\ alive' = alive \cup {spawned'}
    /\ mine' = [mine EXCEPT ![t] = spawned']
    /\ Goto(t, "store")
    /\ UNCHANGED <<attempt, slot, url, client, poisoned, lock, probed,
                   listening, crashed, page, shot>>

\* No port is free, or the port is recorded and Chromium does not start.
SpawnFails(t) ==
    /\ pc[t] = "spawn"
    /\ Fail(t)
    /\ activePort' \in {activePort} \cup {n \in FreePorts : n = Min(FreePorts)}
    /\ UNCHANGED <<attempt, slot, url, client, poisoned, probed, os, shot>>

\* Put the child in its slot; the previous occupant is dropped.
StoreChild(t) ==
    /\ pc[t] = "store"
    /\ slot' = mine[t]
    /\ Reap(slot)
    /\ Goto(t, "ready")
    /\ UNCHANGED <<attempt, url, client, poisoned, activePort, lock, mine,
                   probed, port, spawned, crashed, page, shot>>

StartWaiting(t) ==
    /\ pc[t] = "ready"
    /\ probed' = [probed EXCEPT ![t] = activePort]
    /\ Goto(t, "probe")
    /\ UNCHANGED <<attempt, slots, lock, mine, os, shot>>

Answering(n) == {p \in listening : port[p] = n}

StopWaiting(t, l) == Goto(t, l) /\ probed' = [probed EXCEPT ![t] = None]

PortAnswers(t) ==
    /\ pc[t] = "probe"
    /\ slot \in alive
    /\ Answering(probed[t]) # {}
    /\ StopWaiting(t, "url")
    /\ UNCHANGED <<attempt, slots, lock, mine, os, shot>>

\* No child, a child that exited, or the eight seconds are over.
NotReady(t) ==
    /\ pc[t] = "probe"
    /\ slot \notin alive \/ Answering(probed[t]) = {}
    /\ StopWaiting(t, "teardown")
    /\ UNCHANGED <<attempt, slots, lock, mine, os, shot>>

TearDown(t) ==
    /\ pc[t] = "teardown"
    /\ slot' = None
    /\ Reap(slot)
    /\ Fail(t)
    /\ UNCHANGED <<attempt, url, client, poisoned, activePort, probed, port,
                   spawned, crashed, page, shot>>

\* Use the stored URL, or ask the browser at the active port for its page.
ResolveUrl(t) ==
    /\ pc[t] = "url"
    /\ IF url # None
       THEN GoOn(t, "connect", url)
       ELSE \/ Fail(t)
            \/ \E p \in Answering(activePort) : GoOn(t, "seturl", p)
    /\ UNCHANGED <<attempt, slots, probed, os, shot>>

SetUrl(t) ==
    /\ pc[t] = "seturl"
    /\ url' = mine[t]
    /\ Goto(t, "connect")
    /\ UNCHANGED <<attempt, slot, client, poisoned, activePort, lock, mine,
                   probed, os, shot>>

ConnectClient(t) ==
    /\ pc[t] = "connect"
    /\ \/ Fail(t)
       \/ mine[t] \in listening /\ GoOn(t, "publish", mine[t])
    /\ UNCHANGED <<attempt, slots, probed, os, shot>>

Published_Dropped(t) == None
Published(t)         == mine[t]

StoreClient(t) ==
    /\ pc[t] = "publish"
    /\ IF poisoned THEN Panic(t) /\ UNCHANGED client
       ELSE client' = Published(t) /\ GoOn(t, "take", None)
    /\ UNCHANGED <<attempt, slot, url, poisoned, activePort, probed, os, shot>>

\* The unwrap runs under the guard: on an empty slot it poisons the mutex.
TakeClient(t) ==
    /\ pc[t] = "take"
    /\ poisoned' = (poisoned \/ client = None)
    /\ IF poisoned' THEN Panic(t) ELSE Connect(t, client)
    /\ UNCHANGED <<attempt, slot, url, client, activePort, probed, os, shot>>

-----------------------------------------------------------------------------
(* render_element after ensure_browser.                                    *)

Inject(r) ==
    /\ pc[r] = "inject"
    /\ mine[r] \in alive
    /\ page' = [page EXCEPT ![mine[r]] = r]
    /\ Goto(r, "confirm")
    /\ UNCHANGED <<attempt, slots, lock, mine, probed, alive, listening, port,
                   spawned, crashed, shot>>

\* The marker query answers with the id of the document that is active.
Confirm(r) ==
    /\ pc[r] = "confirm"
    /\ mine[r] \in alive /\ page[mine[r]] = r
    /\ Goto(r, "capture")
    /\ UNCHANGED <<attempt, slots, lock, mine, probed, os, shot>>

Capture(r) ==
    /\ pc[r] = "capture"
    /\ mine[r] \in alive
    /\ shot' = [shot EXCEPT ![r] = page[mine[r]]]
    /\ Leave(r, "done")
    /\ UNCHANGED <<attempt, slots, probed, os>>

\* The browser is gone, an assertion of the page fails or CDP times out.
DrawFails(r) ==
    /\ pc[r] \in Drawing
    /\ Fail(r)
    /\ UNCHANGED <<attempt, slots, probed, os, shot>>

-----------------------------------------------------------------------------
(* recycle, in the order of its three critical sections.                   *)

KillChild(t) ==
    /\ pc[t] = "kill"
    /\ slot' = None
    /\ Reap(slot)
    /\ Goto(t, "disconnect")
    /\ UNCHANGED <<attempt, url, client, poisoned, activePort, lock, mine,
                   probed, port, spawned, crashed, page, shot>>

Disconnect(t) ==
    /\ pc[t] = "disconnect"
    /\ IF poisoned THEN Panic(t) /\ UNCHANGED client
       ELSE client' = None /\ GoOn(t, "forget", client)
    /\ UNCHANGED <<attempt, slot, url, poisoned, activePort, probed, os, shot>>

\* The page URL is cleared last, after the old client has been closed; a
\* render that has an attempt left retries.
Forget_KeepsUrl == url
Forgotten       == None

Retries(t) == t \in Renders /\ attempt[t] = 1

ForgetUrl(t) ==
    /\ pc[t] = "forget"
    /\ url' = Forgotten
    /\ IF Retries(t)
       THEN attempt' = [attempt EXCEPT ![t] = @ + 1] /\ GoOn(t, "lock", None)
       ELSE Leave(t, "failed") /\ UNCHANGED attempt
    /\ UNCHANGED <<slot, client, poisoned, activePort, probed, os, shot>>

-----------------------------------------------------------------------------
(* The future of a render is dropped at an await: its lock and its permit  *)
(* go at once, and whoever dropped it recycles after that.                 *)

DropRender(r) ==
    /\ r \in Droppable
    /\ attempt[r] # 0
    /\ \/ pc[r] \in {"lock", "probe", "url", "connect"} \cup Drawing
       \/ pc[r] = "forget" /\ mine[r] # None    \* closing the old client
    /\ attempt' = [attempt EXCEPT ![r] = 0]
    /\ Leave(r, "kill")
    /\ probed' = [probed EXCEPT ![r] = None]
    /\ UNCHANGED <<slots, os, shot>>

-----------------------------------------------------------------------------
(* Chromium.                                                               *)

Listen(p) ==
    /\ p \in alive \ listening
    /\ Answering(port[p]) = {}
    /\ listening' = listening \cup {p}
    /\ UNCHANGED <<pc, attempt, slots, lock, mine, probed, alive, port,
                   spawned, crashed, page, shot>>

Crash(p) ==
    /\ p \in alive
    /\ crashed < MaxCrash
    /\ crashed' = crashed + 1
    /\ alive' = alive \ {p} /\ listening' = listening \ {p}
    /\ UNCHANGED <<pc, attempt, slots, lock, mine, probed, port, spawned, page,
                   shot>>

-----------------------------------------------------------------------------
Ensure(t) == \/ FastPath(t) \/ CheckChild(t) \/ Exec(t) \/ SpawnFails(t)
             \/ StoreChild(t) \/ StartWaiting(t) \/ PortAnswers(t)
             \/ NotReady(t) \/ TearDown(t) \/ ResolveUrl(t) \/ SetUrl(t)
             \/ ConnectClient(t) \/ StoreClient(t) \/ TakeClient(t)
Draw(r)    == Inject(r) \/ Confirm(r) \/ Capture(r) \/ DrawFails(r)
Recycle(t) == KillChild(t) \/ Disconnect(t) \/ ForgetUrl(t)
Begin      == \/ \E r \in Renders : BeginRender(r) \/ TakeLock(r)
              \/ \E w \in Warmers : BeginWarm(w)
              \/ \E x \in Recyclers : BeginRecycle(x)

Next == \/ Begin
        \/ \E t \in Tasks : Ensure(t) \/ Recycle(t)
        \/ \E r \in Renders : Draw(r) \/ DropRender(r)
        \/ \E p \in Procs : Listen(p) \/ Crash(p)

\* Tasks are polled and the render lock is queued in order.  Most waits of a
\* task have a deadline; that Chromium answers or refuses a connection to its
\* port, and the writer takes a command, is assumed.
Poll(t) == \/ Ensure(t) \/ Recycle(t)
           \/ t \in Renders /\ (TakeLock(t) \/ Draw(t))

Fairness == \A t \in Tasks : WF_vars(Poll(t))

Spec     == Init /\ [][Next]_vars
FairSpec == Spec /\ Fairness

-----------------------------------------------------------------------------
TypeOK ==
    /\ pc \in [Tasks -> Idle \cup Ensuring \cup Drawing \cup Recycling \cup {"lock"}]
    /\ attempt \in [Renders -> 0 .. 2]
    /\ {slot, url, client} \subseteq Procs \cup {None}
    /\ poisoned \in BOOLEAN
    /\ activePort \in Ports \cup {None}
    /\ lock \in Renders \cup {None}
    /\ mine \in [Tasks -> Procs \cup {None}]
    /\ probed \in [Tasks -> Ports \cup {None}]
    /\ listening \subseteq alive /\ alive \subseteq 1 .. spawned
    /\ port \in [Procs -> Ports \cup {None}]
    /\ spawned \in 0 .. MaxSpawn /\ crashed \in 0 .. MaxCrash
    /\ page \in [Procs -> Renders \cup {None}]
    /\ shot \in [Renders -> Renders \cup {None}]

\* "Recycling a timed-out renderer must not accumulate orphan processes":
\* a live Chromium is the one in the slot, or one about to be put there.
NoOrphans ==
    \A p \in alive : p = slot \/ \E t \in Tasks : pc[t] = "store" /\ mine[t] = p

\* A screenshot shows the document of the render that took it, however the
\* renders and the recycling of others interleave.
CaptureIsOwn == \A r \in Renders : shot[r] \in {None, r}

\* The mutex of the client is never poisoned by one task alone: if the unwrap
\* of ensure_browser finds the slot empty, another task is in a recycle, or
\* had one.
Recycled(t) ==
    \/ t \in Recyclers \cup Renders /\ pc[t] \in {"forget", "failed"}
    \/ t \in Renders /\ attempt[t] = 2
    \/ t \in Renders /\ attempt[t] = 0 /\ pc[t] \in {"kill", "disconnect"}  \* dropped

PanicsAreCaused ==
    [][poisoned' # poisoned =>
          \E t, u \in Tasks : t # u /\ pc[t] = "take" /\ pc'[t] = "panicked"
                            /\ Recycled(u)]_vars

\* When every task has returned, Chromium did not crash and no warm-up ran,
\* the stored handles name a live browser, so the next render need not fail to
\* find out ("The next render lazily starts a clean browser", recycle's doc).
NoStaleHandle ==
    /\ \A t \in Tasks : pc[t] \in {"absent", "idle", "done", "failed"}
    /\ \A w \in Warmers : pc[w] \in {"absent", "idle"}
    /\ crashed = 0
    => {url, client} \subseteq alive \cup {None}

\* Every render that was admitted ends; nobody keeps the render lock.
RendersEnd == \A r \in Renders : pc[r] = "lock" ~> pc[r] \in Idle
=============================================================================
