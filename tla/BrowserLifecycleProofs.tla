------------------------ MODULE BrowserLifecycleProofs ------------------------
(***************************************************************************)
(* Theorems of BrowserLifecycle, for every set of renders, warm-ups and    *)
(* recyclers, every number of Chromium processes and of crashes, and every *)
(* choice of renders whose future may be dropped.                          *)
(***************************************************************************)
EXTENDS BrowserLifecycle, FiniteSetTheorems, WellFoundedInduction, TLAPS

\* The states in which a task of Renders has the render lock.
Attempting == Ensuring \cup Drawing

Labels == Idle \cup Ensuring \cup Drawing \cup Recycling \cup {"lock"}

\* What a task names was started.
Started ==
    /\ client <= spawned /\ url <= spawned /\ slot <= spawned
    /\ \A t \in Tasks : mine[t] <= spawned

\* Each kind of task stays in its part of the code.
PartsOK ==
    /\ \A w \in Warmers : pc[w] \in Idle \cup Ensuring
    /\ \A x \in Recyclers : pc[x] \in Idle \cup Recycling
    /\ \A t \in Tasks : pc[t] \in {"publish", "store"} => mine[t] # None

\* Whoever attempts has the lock.
LockOwned == \A r \in Renders : pc[r] \in Attempting => lock = r

\* The marker query has found the document of the render that captures.
Confirmed == \A r \in Renders : pc[r] = "capture" => page[mine[r]] = r

\* A render that waits has made no attempt.
NotBegun == \A r \in Renders : pc[r] = "idle" => attempt[r] = 0

\* If the client is gone when it is taken, another task has recycled.
TakenOrRecycled ==
    ~poisoned => \A t \in Tasks : pc[t] = "take" /\ client = None =>
                     \E u \in Tasks \ {t} : Recycled(u)

Placed == TypeOK /\ Started /\ PartsOK /\ LockOwned

IInv == Placed /\ Confirmed /\ NotBegun /\ TakenOrRecycled /\ NoOrphans /\ CaptureIsOwn

\* Without warm-ups and crashes, and until something panics:
Undisturbed ==
    /\ \A w \in Warmers : pc[w] \in {"absent", "idle"}
    /\ crashed = 0
    /\ \A t \in Tasks : pc[t] # "panicked"

\* whoever starts Chromium found the slot empty,
SlotEmpty == \A r \in Renders : pc[r] \in {"spawn", "store"} => slot = None

\* a dead client is about to be cleared, or is what the one attempt uses,
ClearsClient(u) == \/ pc[u] \in {"kill", "disconnect", "take"}
                   \/ pc[u] \in Drawing /\ mine[u] \notin alive

ClientCleared == client \notin alive \cup {None} => \E u \in Tasks : ClearsClient(u)

\* and so is a dead page URL.
ClearsUrl(u) == \/ pc[u] \in Recycling
                \/ pc[u] = "take" /\ client \notin alive
                \/ pc[u] \in {"connect", "publish"} \cup Drawing /\ mine[u] \notin alive

UrlCleared == url \notin alive \cup {None} => \E u \in Tasks : ClearsUrl(u)

HandlesInv == Undisturbed => SlotEmpty /\ ClientCleared /\ UrlCleared

-----------------------------------------------------------------------------
\* While a process may still be started, a port is free, and the first of
\* them is one of them.
LEMMA FreePort == ASSUME TypeOK, spawned < MaxSpawn PROVE Min(FreePorts) \in FreePorts
<1> DEFINE Used == {port[p] : p \in listening}
<1>1. IsFiniteSet(listening) /\ Cardinality(listening) <= spawned
  <2>1. spawned \in Nat /\ IsFiniteSet(1 .. spawned) /\ Cardinality(1 .. spawned) = spawned
    BY BrowserAssumption, FS_Interval DEF TypeOK
  <2>2. listening \subseteq 1 .. spawned
    BY DEF TypeOK
  <2>3. QED
    BY <2>1, <2>2, FS_Subset
<1>2. IsFiniteSet(Used) /\ Cardinality(Used) <= Cardinality(listening)
  <2>1. [p \in listening |-> port[p]] \in Surjection(listening, Used)
    BY DEF Surjection
  <2>2. QED
    BY <1>1, <2>1, FS_Surjection
<1>3. Cardinality(Ports) = MaxSpawn /\ IsFiniteSet(Ports)
  BY BrowserAssumption, FS_Interval DEF Ports
<1>4. FreePorts # {}
  <2>1. SUFFICES ASSUME FreePorts = {} PROVE FALSE
    OBVIOUS
  <2>2. Ports \subseteq Used
    BY <2>1 DEF FreePorts
  <2>3. MaxSpawn <= Cardinality(Used)
    BY <1>2, <1>3, <2>2, FS_Subset
  <2>4. Cardinality(Used) \in Nat /\ Cardinality(listening) \in Nat /\ spawned \in Nat
    BY <1>1, <1>2, BrowserAssumption, FS_CardinalityType DEF TypeOK
  <2>5. QED
    BY <1>1, <1>2, <2>3, <2>4, BrowserAssumption
<1>5. FreePorts \in SUBSET Nat
  BY BrowserAssumption DEF FreePorts, Ports
<1>6. \E n \in FreePorts : \A m \in FreePorts : n <= m
  <2> DEFINE R == OpToRel(<, Nat)
  <2>1. IsWellFoundedOn(R, Nat)
    BY NatLessThanWellFounded
  <2>2. \A m, n \in Nat : m < n => <<m, n>> \in R
    BY DEF OpToRel
  <2> HIDE DEF R
  <2>3. PICK n \in FreePorts : \A m \in FreePorts : ~(<<m, n>> \in R)
    BY <1>4, <1>5, <2>1, WFMin
  <2>4. ASSUME NEW m \in FreePorts PROVE n <= m
    <3>1. m \in Nat /\ n \in Nat /\ ~(m < n)
      BY <1>5, <2>2, <2>3
    <3>2. QED
      BY <3>1
  <2>5. QED
    BY <2>4
<1>7. QED
  BY <1>6 DEF Min

\* Nothing runs yet.
LEMMA InitIInv == Init => IInv
<1> SUFFICES ASSUME Init PROVE IInv
  OBVIOUS
<1> USE BrowserAssumption DEF Init, Idle, Ensuring, Drawing, Recycling, Attempting, Procs, Ports,
        Tasks, None
<1>1. \A t \in Tasks : pc[t] \in {"absent", "idle"}
  OBVIOUS
<1>2. pc \in [Tasks -> Labels]
  BY DEF Labels
<1>3. TypeOK
  <2>1. pc \in [Tasks -> Idle \cup Ensuring \cup Drawing \cup Recycling \cup {"lock"}]
    BY <1>2 DEF Labels
  <2>2. /\ attempt \in [Renders -> 0 .. 2] /\ shot \in [Renders -> Renders \cup {None}]
        /\ mine \in [Tasks -> Procs \cup {None}] /\ probed \in [Tasks -> Ports \cup {None}]
        /\ port \in [Procs -> Ports \cup {None}] /\ page \in [Procs -> Renders \cup {None}]
    OBVIOUS
  <2>3. /\ {slot, url, client} \subseteq Procs \cup {None} /\ poisoned \in BOOLEAN
        /\ activePort \in Ports \cup {None} /\ lock \in Renders \cup {None}
        /\ listening \subseteq alive /\ alive \subseteq 1 .. spawned
    OBVIOUS
  <2>a. spawned \in 0 .. MaxSpawn /\ crashed \in 0 .. MaxCrash
    OBVIOUS
  <2> HIDE DEF Init, Idle, Ensuring, Drawing, Recycling, Procs, Ports, Tasks, None
  <2>4. QED
    BY <2>1, <2>2, <2>3, <2>a DEF TypeOK
<1>4. PartsOK /\ LockOwned /\ Confirmed /\ NotBegun /\ TakenOrRecycled
  BY <1>1 DEF PartsOK, LockOwned, Confirmed, NotBegun, TakenOrRecycled
<1>5. Started /\ NoOrphans /\ CaptureIsOwn
  BY DEF Started, NoOrphans, CaptureIsOwn
<1>6. QED
  BY <1>3, <1>4, <1>5 DEF IInv, Placed

-----------------------------------------------------------------------------
(* Where a step takes its task.                                            *)

\* The task t goes to l, using p from now on.  Only TakeLock takes the lock,
\* and whoever gives it back leaves the attempt.
Moves(t, l, p) ==
    /\ pc' = [pc EXCEPT ![t] = l] /\ mine' = [mine EXCEPT ![t] = p]
    /\ \/ lock' = lock
       \/ lock = t /\ lock' = None /\ l \notin Attempting
       \/ lock = None /\ lock' = t /\ l = "fast" /\ t \in Renders
    /\ p <= spawned'
    /\ l \in {"publish", "store"} => p # None
    /\ t \in Warmers => l \in Idle \cup Ensuring
    /\ t \in Recyclers => l \in Idle \cup Recycling
    /\ t \in Renders /\ l \in Attempting =>
          \/ pc[t] \in Attempting /\ lock' = lock
          \/ lock' = t

Parted == pc \in [Tasks -> Labels] /\ mine \in [Tasks -> Procs \cup {None}]
          /\ lock \in Renders \cup {None} /\ PartsOK /\ LockOwned
          /\ \A t \in Tasks : mine[t] <= spawned

LEMMA MovesKeep == ASSUME Parted, NEW t \in Tasks, NEW l \in Labels, NEW p \in Procs \cup {None},
                          Moves(t, l, p), spawned <= spawned', spawned \in Nat, spawned' \in Nat
                   PROVE  Parted'
<1>1. None \notin Tasks /\ Procs \cup {None} \subseteq Int
  BY BrowserAssumption DEF Procs, None
<1>2. pc' \in [Tasks -> Labels] /\ mine' \in [Tasks -> Procs \cup {None}]
  BY DEF Parted, Moves
<1>3. lock' \in Renders \cup {None}
  BY DEF Parted, Moves
<1>4. \A u \in Tasks : mine'[u] <= spawned'
  BY <1>1 DEF Parted, Moves
<1>5. PartsOK'
  BY BrowserAssumption DEF Parted, PartsOK, Moves, Tasks
<1>6. LockOwned'
  BY <1>1 DEF Parted, LockOwned, Moves, Tasks
<1>7. QED
  BY <1>2, <1>3, <1>4, <1>5, <1>6 DEF Parted

\* Leaving an attempt.
LEMMA Leaving == ASSUME TypeOK, NEW t \in Tasks, NEW l \in {"kill", "done", "failed", "panicked"},
                        t \in Warmers => l # "kill", Leave(t, l), spawned' = spawned
                 PROVE  Moves(t, l, None)
BY BrowserAssumption DEF Leave, Goto, Unlock, Moves, TypeOK, Idle, Recycling, Attempting, Ensuring,
   Drawing, None

\* A failed attempt of a render recycles.
LEMMA Failing == ASSUME TypeOK, NEW t \in Tasks, Fail(t), spawned' = spawned
                 PROVE  \E l \in Labels : /\ Moves(t, l, None) /\ Leave(t, l)
                                          /\ l = IF t \in Renders THEN "kill" ELSE "failed"
<1>1. CASE t \in Renders
  <2>1. Leave(t, "kill") /\ t \notin Warmers /\ "kill" \in Labels
    BY <1>1, BrowserAssumption DEF Fail, Labels, Recycling
  <2>2. QED
    BY <1>1, <2>1, Leaving
<1>2. CASE t \notin Renders
  <2>1. Leave(t, "failed") /\ "failed" \in Labels
    BY <1>2 DEF Fail, Labels, Idle
  <2>2. QED
    BY <1>2, <2>1, Leaving
<1>3. QED
  BY <1>1, <1>2

\* Going on with p.
LEMMA GoingOn == ASSUME TypeOK, NEW t \in Tasks, NEW l \in Labels, NEW p, p <= spawned, GoOn(t, l, p),
                        t \in Warmers => l \in Idle \cup Ensuring,
                        t \in Recyclers => l \in Idle \cup Recycling,
                        l \in {"publish", "store"} => p # None,
                        t \in Renders /\ l \in Attempting => pc[t] \in Attempting,
                        spawned' = spawned
                 PROVE  Moves(t, l, p)
BY DEF GoOn, Goto, Moves

\* Every step of a task takes it somewhere.
Somewhere(t) == \E l \in Labels, p \in Procs \cup {None} : Moves(t, l, p)

\* A step that changes only where a task is.
LEMMA Staying == ASSUME Placed, NEW t \in Tasks, NEW l \in Labels, Goto(t, l),
                        UNCHANGED <<mine, lock>>, spawned' = spawned,
                        t \in Warmers => l \in Idle \cup Ensuring,
                        t \in Recyclers => l \in Idle \cup Recycling,
                        l \in {"publish", "store"} => mine[t] # None,
                        t \in Renders /\ l \in Attempting => pc[t] \in Attempting
                 PROVE  Somewhere(t)
<1>1. mine' = [mine EXCEPT ![t] = mine[t]] /\ mine[t] <= spawned /\ mine[t] \in Procs \cup {None}
  BY DEF Placed, TypeOK, Started
<1>2. QED
  BY <1>1 DEF Goto, Moves, Somewhere

LEMMA EnsureMoves == ASSUME Placed, NEW t \in Tasks, Ensure(t) PROVE Somewhere(t)
<1> USE DEF Placed
<1>a. spawned \in Int /\ None \in Procs \cup {None} /\ None <= spawned
  BY BrowserAssumption DEF TypeOK, None
<1>p. pc[t] \in Ensuring => t \notin Recyclers
  BY DEF PartsOK, Ensuring, Idle, Recycling
<1>l. /\ {"kill", "done", "failed", "panicked", "fast", "check", "spawn", "store", "ready", "probe",
          "teardown", "url", "seturl", "connect", "publish", "take", "inject"} \subseteq Labels
      /\ {"done", "failed", "panicked"} \subseteq Idle
  BY DEF Labels, Idle, Ensuring, Drawing, Recycling
<1>w. t \in Renders => t \notin Warmers /\ t \notin Recyclers
  BY BrowserAssumption
<1>FastPath. CASE FastPath(t)
  <2>1. spawned' = spawned /\ pc[t] = "fast" /\ client <= spawned /\ client \in Procs \cup {None}
    BY <1>FastPath DEF FastPath, os, TypeOK, Started
  <2>2. CASE Leave(t, "panicked") \/ Leave(t, "done")
    BY <1>l, <1>a, <2>1, <2>2, Leaving DEF Somewhere
  <2>3. CASE GoOn(t, "check", None)
    <3>1. Moves(t, "check", None)
      BY <1>l, <1>a, <1>p, <2>1, <2>3, GoingOn DEF Ensuring, Attempting
    <3>2. QED
      BY <1>l, <1>a, <3>1 DEF Somewhere
  <2>4. CASE t \in Renders /\ GoOn(t, "inject", client)
    <3>1. Moves(t, "inject", client)
      BY <1>l, <1>w, <2>1, <2>4, GoingOn DEF Ensuring, Attempting
    <3>2. QED
      BY <1>l, <2>1, <3>1 DEF Somewhere
  <2>5. QED
    BY <1>FastPath, <2>2, <2>3, <2>4 DEF FastPath, Connect, Panic
<1>CheckChild. CASE CheckChild(t)
  BY <1>l, <1>p, <1>CheckChild, Staying DEF CheckChild, Ensuring, Attempting, os
<1>Exec. CASE Exec(t)
  <2>1. Moves(t, "store", spawned') /\ spawned' \in Procs
    <3>1. spawned' \in Procs /\ spawned' # None
      BY <1>Exec, BrowserAssumption DEF Exec, TypeOK, Procs, None
    <3>2. pc' = [pc EXCEPT ![t] = "store"] /\ mine' = [mine EXCEPT ![t] = spawned'] /\ lock' = lock
          /\ pc[t] = "spawn"
      BY <1>Exec DEF Exec, Goto
    <3>3. QED
      BY <1>p, <3>1, <3>2 DEF Moves, Ensuring, Attempting, Procs
  <2>2. QED
    BY <1>l, <2>1 DEF Somewhere
<1>SpawnFails. CASE SpawnFails(t)
  BY <1>a, <1>SpawnFails, Failing DEF SpawnFails, os, Somewhere
<1>StoreChild. CASE StoreChild(t)
  BY <1>l, <1>p, <1>StoreChild, Staying DEF StoreChild, Ensuring, Attempting
<1>StartWaiting. CASE StartWaiting(t)
  BY <1>l, <1>p, <1>StartWaiting, Staying DEF StartWaiting, Ensuring, Attempting, os
<1>PortAnswers. CASE PortAnswers(t)
  BY <1>l, <1>p, <1>PortAnswers, Staying DEF PortAnswers, StopWaiting, Ensuring, Attempting, os
<1>NotReady. CASE NotReady(t)
  BY <1>l, <1>p, <1>NotReady, Staying DEF NotReady, StopWaiting, Ensuring, Attempting, os
<1>TearDown. CASE TearDown(t)
  BY <1>a, <1>TearDown, Failing DEF TearDown, Somewhere
<1>ResolveUrl. CASE ResolveUrl(t)
  <2>1. spawned' = spawned /\ pc[t] = "url" /\ url <= spawned /\ url \in Procs \cup {None}
    BY <1>ResolveUrl DEF ResolveUrl, os, TypeOK, Started
  <2>2. CASE Fail(t)
    BY <1>a, <2>1, <2>2, Failing DEF Somewhere
  <2>3. CASE GoOn(t, "connect", url)
    <3>1. Moves(t, "connect", url)
      BY <1>l, <1>p, <2>1, <2>3, GoingOn DEF Ensuring, Attempting
    <3>2. QED
      BY <1>l, <2>1, <3>1 DEF Somewhere
  <2>4. ASSUME NEW p \in Answering(activePort), GoOn(t, "seturl", p) PROVE Somewhere(t)
    <3>0. p \in Procs /\ p <= spawned
      BY <2>4, BrowserAssumption DEF Answering, TypeOK, Procs
    <3>1. Moves(t, "seturl", p)
      BY <1>l, <1>p, <2>1, <2>4, <3>0, GoingOn DEF Ensuring, Attempting
    <3>2. QED
      BY <1>l, <3>0, <3>1 DEF Somewhere
  <2>5. QED
    BY <1>ResolveUrl, <2>2, <2>3, <2>4 DEF ResolveUrl
<1>SetUrl. CASE SetUrl(t)
  BY <1>l, <1>p, <1>SetUrl, Staying DEF SetUrl, Ensuring, Attempting, os
<1>ConnectClient. CASE ConnectClient(t)
  <2>1. spawned' = spawned /\ pc[t] = "connect"
    BY <1>ConnectClient DEF ConnectClient, os
  <2>2. CASE Fail(t)
    BY <1>a, <2>1, <2>2, Failing DEF Somewhere
  <2>3. CASE mine[t] \in listening /\ GoOn(t, "publish", mine[t])
    <3>0. mine[t] \in Procs /\ mine[t] <= spawned /\ mine[t] # None
      BY <2>3, BrowserAssumption DEF TypeOK, Procs, None
    <3>1. Moves(t, "publish", mine[t])
      BY <1>l, <1>p, <2>1, <2>3, <3>0, GoingOn DEF Ensuring, Attempting
    <3>2. QED
      BY <1>l, <3>0, <3>1 DEF Somewhere
  <2>4. QED
    BY <1>ConnectClient, <2>2, <2>3 DEF ConnectClient
<1>StoreClient. CASE StoreClient(t)
  <2>1. spawned' = spawned /\ pc[t] = "publish"
    BY <1>StoreClient DEF StoreClient, os
  <2>2. CASE Leave(t, "panicked")
    BY <1>l, <1>a, <2>1, <2>2, Leaving DEF Somewhere
  <2>3. CASE GoOn(t, "take", None)
    <3>1. Moves(t, "take", None)
      BY <1>l, <1>a, <1>p, <2>1, <2>3, GoingOn DEF Ensuring, Attempting
    <3>2. QED
      BY <1>l, <1>a, <3>1 DEF Somewhere
  <2>4. QED
    BY <1>StoreClient, <2>2, <2>3 DEF StoreClient, Panic
<1>TakeClient. CASE TakeClient(t)
  <2>1. spawned' = spawned /\ pc[t] = "take" /\ client <= spawned /\ client \in Procs \cup {None}
    BY <1>TakeClient DEF TakeClient, os, TypeOK, Started
  <2>2. CASE Leave(t, "panicked") \/ Leave(t, "done")
    BY <1>l, <1>a, <2>1, <2>2, Leaving DEF Somewhere
  <2>3. CASE t \in Renders /\ GoOn(t, "inject", client)
    <3>1. Moves(t, "inject", client)
      BY <1>l, <1>w, <2>1, <2>3, GoingOn DEF Ensuring, Attempting
    <3>2. QED
      BY <1>l, <2>1, <3>1 DEF Somewhere
  <2>4. QED
    BY <1>TakeClient, <2>2, <2>3 DEF TakeClient, Connect, Panic
<1>q. QED
  BY <1>FastPath, <1>CheckChild, <1>Exec, <1>SpawnFails, <1>StoreChild, <1>StartWaiting,
     <1>PortAnswers, <1>NotReady, <1>TearDown, <1>ResolveUrl, <1>SetUrl, <1>ConnectClient,
     <1>StoreClient, <1>TakeClient DEF Ensure

LEMMA DrawMoves == ASSUME Placed, NEW r \in Renders, Draw(r) \/ DropRender(r) \/ BeginRender(r) \/ TakeLock(r)
                   PROVE  Somewhere(r)
<1> USE DEF Placed
<1>a. spawned \in Int /\ None \in Procs \cup {None} /\ None <= spawned /\ r \in Tasks
      /\ r \notin Warmers /\ r \notin Recyclers
  BY BrowserAssumption DEF TypeOK, None, Tasks
<1>l. {"kill", "done", "failed", "lock", "fast", "confirm", "capture"} \subseteq Labels
  BY DEF Labels, Idle, Ensuring, Drawing, Recycling
<1>1. CASE Inject(r)
  BY <1>a, <1>l, <1>1, Staying DEF Inject, Drawing, Attempting
<1>2. CASE Confirm(r)
  BY <1>a, <1>l, <1>2, Staying DEF Confirm, Drawing, Attempting, os
<1>3. CASE Capture(r)
  BY <1>a, <1>l, <1>3, Leaving DEF Capture, os, Somewhere
<1>4. CASE DrawFails(r)
  BY <1>a, <1>4, Failing DEF DrawFails, os, Somewhere
<1>5. CASE DropRender(r)
  BY <1>a, <1>l, <1>5, Leaving DEF DropRender, os, Somewhere
<1>6. CASE BeginRender(r)
  BY <1>a, <1>l, <1>6, Staying DEF BeginRender, os, Attempting, Ensuring, Drawing
<1>7. CASE TakeLock(r)
  <2>1. Moves(r, "fast", mine[r]) /\ mine[r] \in Procs \cup {None}
    BY <1>a, <1>7 DEF TakeLock, LockFree, Goto, Moves, os, TypeOK, Started
  <2>2. QED
    BY <1>a, <1>l, <2>1 DEF Somewhere
<1>8. QED
  BY <1>1, <1>2, <1>3, <1>4, <1>5, <1>6, <1>7 DEF Draw

LEMMA RecycleMoves == ASSUME Placed, NEW t \in Tasks, Recycle(t) PROVE Somewhere(t)
<1> USE DEF Placed
<1>a. spawned \in Int /\ None \in Procs \cup {None} /\ None <= spawned
  BY BrowserAssumption DEF TypeOK, None
<1>l. {"disconnect", "forget", "failed", "lock", "panicked"} \subseteq Labels
  BY DEF Labels, Idle, Recycling
<1>p. pc[t] \in Recycling => t \notin Warmers
  BY DEF PartsOK, Ensuring, Idle, Recycling
<1>w. t \in Renders => t \notin Warmers /\ t \notin Recyclers
  BY BrowserAssumption
<1>1. CASE KillChild(t)
  BY <1>l, <1>p, <1>1, Staying DEF KillChild, Recycling, Attempting, Ensuring, Drawing
<1>2. CASE Disconnect(t)
  <2>1. spawned' = spawned /\ pc[t] = "disconnect" /\ client <= spawned /\ client \in Procs \cup {None}
    BY <1>2 DEF Disconnect, os, TypeOK, Started
  <2>2. CASE Leave(t, "panicked")
    BY <1>l, <1>a, <2>1, <2>2, Leaving DEF Somewhere
  <2>3. CASE GoOn(t, "forget", client)
    <3>1. Moves(t, "forget", client)
      BY <1>l, <1>p, <2>1, <2>3, GoingOn DEF Recycling, Attempting, Ensuring, Drawing
    <3>2. QED
      BY <1>l, <2>1, <3>1 DEF Somewhere
  <2>4. QED
    BY <1>2, <2>2, <2>3 DEF Disconnect, Panic
<1>3. CASE ForgetUrl(t)
  <2>1. spawned' = spawned /\ pc[t] = "forget"
    BY <1>3 DEF ForgetUrl, os
  <2>2. CASE t \in Renders /\ GoOn(t, "lock", None)
    <3>1. Moves(t, "lock", None)
      BY <1>a, <1>l, <1>w, <2>1, <2>2, GoingOn DEF Attempting, Ensuring, Drawing
    <3>2. QED
      BY <1>a, <1>l, <3>1 DEF Somewhere
  <2>3. CASE Leave(t, "failed")
    BY <1>l, <1>a, <2>1, <2>3, Leaving DEF Somewhere
  <2>4. QED
    BY <1>3, <2>2, <2>3 DEF ForgetUrl, Retries
<1>4. QED
  BY <1>1, <1>2, <1>3 DEF Recycle

\* Every step moves one task, or is one of Chromium.
LEMMA SomeoneMoves == ASSUME Placed, Next
                      PROVE  \/ \E t \in Tasks : Somewhere(t)
                             \/ UNCHANGED <<pc, mine, lock>>
<1>1. ASSUME NEW w \in Warmers, BeginWarm(w) PROVE Somewhere(w)
  <2>1. w \in Tasks /\ w \notin Renders /\ w \notin Recyclers /\ "fast" \in Labels /\ "fast" \in Ensuring
    BY BrowserAssumption DEF Tasks, Labels, Ensuring
  <2>2. QED
    BY <1>1, <2>1, Staying DEF BeginWarm, os
<1>2. ASSUME NEW x \in Recyclers, BeginRecycle(x) PROVE Somewhere(x)
  <2>1. x \in Tasks /\ x \notin Renders /\ x \notin Warmers /\ "kill" \in Labels /\ "kill" \in Recycling
    BY BrowserAssumption DEF Tasks, Labels, Recycling
  <2>2. QED
    BY <1>2, <2>1, Staying DEF BeginRecycle, os
<1>3. ASSUME NEW p \in Procs, Listen(p) \/ Crash(p) PROVE UNCHANGED <<pc, mine, lock>>
  BY <1>3 DEF Listen, Crash
<1>4. Renders \subseteq Tasks /\ Warmers \subseteq Tasks /\ Recyclers \subseteq Tasks
  BY DEF Tasks
<1>5. QED
  BY <1>1, <1>2, <1>3, <1>4, EnsureMoves, DrawMoves, RecycleMoves DEF Next, Begin

-----------------------------------------------------------------------------
(* The types.                                                              *)

\* What is not of one task.
Typed ==
    /\ attempt \in [Renders -> 0 .. 2]
    /\ slot \in Procs \cup {None} /\ url \in Procs \cup {None} /\ client \in Procs \cup {None}
    /\ poisoned \in BOOLEAN
    /\ activePort \in Ports \cup {None}
    /\ probed \in [Tasks -> Ports \cup {None}]
    /\ listening \subseteq alive /\ alive \subseteq 1 .. spawned
    /\ port \in [Procs -> Ports \cup {None}]
    /\ spawned \in 0 .. MaxSpawn /\ crashed \in 0 .. MaxCrash
    /\ page \in [Procs -> Renders \cup {None}]
    /\ shot \in [Renders -> Renders \cup {None}]
    /\ client <= spawned /\ url <= spawned /\ slot <= spawned

LEMMA TypedStep == ASSUME Placed, Next PROVE Typed' /\ spawned <= spawned'
<1>0. Typed /\ PartsOK
  BY DEF Placed, TypeOK, Started, Typed
<1>m. mine \in [Tasks -> Procs \cup {None}] /\ \A t \in Tasks : mine[t] <= spawned
  BY DEF Placed, TypeOK, Started
<1>n. spawned \in Nat /\ None = 0 /\ None \in Int /\ MaxSpawn \in Nat /\ Procs = 1 .. MaxSpawn
  BY <1>0, BrowserAssumption DEF Typed, None, Procs
<1> USE DEF slots, os, Reap
<1>FastPath. ASSUME NEW t \in Tasks, FastPath(t) PROVE Typed' /\ spawned <= spawned'
  BY <1>0, <1>m, <1>n, <1>FastPath DEF FastPath, Typed
<1>CheckChild. ASSUME NEW t \in Tasks, CheckChild(t) PROVE Typed' /\ spawned <= spawned'
  BY <1>0, <1>m, <1>n, <1>CheckChild DEF CheckChild, Typed
<1>SpawnFails. ASSUME NEW t \in Tasks, SpawnFails(t) PROVE Typed' /\ spawned <= spawned'
  <2>1. activePort' \in Ports \cup {None}
    BY <1>0, <1>SpawnFails DEF SpawnFails, Typed, FreePorts
  <2>2. UNCHANGED <<attempt, slot, url, client, poisoned, probed, os, shot>>
    BY <1>SpawnFails DEF SpawnFails
  <2>3. QED
    BY <1>0, <1>n, <2>1, <2>2 DEF Typed
<1>StoreChild. ASSUME NEW t \in Tasks, StoreChild(t) PROVE Typed' /\ spawned <= spawned'
  BY <1>0, <1>m, <1>n, <1>StoreChild DEF StoreChild, Typed
<1>StartWaiting. ASSUME NEW t \in Tasks, StartWaiting(t) PROVE Typed' /\ spawned <= spawned'
  BY <1>0, <1>m, <1>n, <1>StartWaiting DEF StartWaiting, Typed
<1>PortAnswers. ASSUME NEW t \in Tasks, PortAnswers(t) PROVE Typed' /\ spawned <= spawned'
  BY <1>0, <1>m, <1>n, <1>PortAnswers DEF PortAnswers, Typed, StopWaiting
<1>NotReady. ASSUME NEW t \in Tasks, NotReady(t) PROVE Typed' /\ spawned <= spawned'
  BY <1>0, <1>m, <1>n, <1>NotReady DEF NotReady, Typed, StopWaiting
<1>TearDown. ASSUME NEW t \in Tasks, TearDown(t) PROVE Typed' /\ spawned <= spawned'
  BY <1>0, <1>m, <1>n, <1>TearDown DEF TearDown, Typed
<1>ResolveUrl. ASSUME NEW t \in Tasks, ResolveUrl(t) PROVE Typed' /\ spawned <= spawned'
  BY <1>0, <1>m, <1>n, <1>ResolveUrl DEF ResolveUrl, Typed
<1>SetUrl. ASSUME NEW t \in Tasks, SetUrl(t) PROVE Typed' /\ spawned <= spawned'
  BY <1>0, <1>m, <1>n, <1>SetUrl DEF SetUrl, Typed
<1>ConnectClient. ASSUME NEW t \in Tasks, ConnectClient(t) PROVE Typed' /\ spawned <= spawned'
  BY <1>0, <1>m, <1>n, <1>ConnectClient DEF ConnectClient, Typed
<1>StoreClient. ASSUME NEW t \in Tasks, StoreClient(t) PROVE Typed' /\ spawned <= spawned'
  BY <1>0, <1>m, <1>n, <1>StoreClient DEF StoreClient, Typed, Published
<1>KillChild. ASSUME NEW t \in Tasks, KillChild(t) PROVE Typed' /\ spawned <= spawned'
  BY <1>0, <1>m, <1>n, <1>KillChild DEF KillChild, Typed
<1>Disconnect. ASSUME NEW t \in Tasks, Disconnect(t) PROVE Typed' /\ spawned <= spawned'
  BY <1>0, <1>m, <1>n, <1>Disconnect DEF Disconnect, Typed
<1>ForgetUrl. ASSUME NEW t \in Tasks, ForgetUrl(t) PROVE Typed' /\ spawned <= spawned'
  <2>1. attempt' \in [Renders -> 0 .. 2]
    <3>1. \/ attempt' = attempt
          \/ t \in Renders /\ attempt[t] = 1 /\ attempt' = [attempt EXCEPT ![t] = 2]
      BY <1>0, <1>ForgetUrl DEF ForgetUrl, Retries, Typed
    <3>2. QED
      BY <1>0, <3>1 DEF Typed
  <2>2. url' = None /\ UNCHANGED <<slot, client, poisoned, activePort, probed, os, shot>>
    BY <1>ForgetUrl DEF ForgetUrl, Forgotten
  <2>3. QED
    BY <1>0, <1>n, <2>1, <2>2 DEF Typed
<1>TakeClient. ASSUME NEW t \in Tasks, TakeClient(t) PROVE Typed' /\ spawned <= spawned'
  BY <1>0, <1>n, <1>TakeClient DEF TakeClient, Typed
<1>Exec. ASSUME NEW t \in Tasks, Exec(t) PROVE Typed' /\ spawned <= spawned'
  <2>1. activePort' \in Ports
    BY <1>Exec, FreePort DEF Exec, FreePorts, Placed
  <2>2. spawned' \in Procs /\ spawned' = spawned + 1 /\ spawned' \in 0 .. MaxSpawn
    BY <1>0, <1>n, <1>Exec DEF Exec
  <2>3. port' \in [Procs -> Ports \cup {None}]
    BY <1>0, <1>Exec, <2>1 DEF Exec, Typed
  <2>4. listening' \subseteq alive' /\ alive' \subseteq 1 .. spawned'
    BY <1>0, <1>n, <1>Exec, <2>2 DEF Exec, Typed
  <2>5. UNCHANGED <<attempt, slot, url, client, poisoned, probed, crashed, page, shot>>
    BY <1>Exec DEF Exec
  <2>6. client <= spawned' /\ url <= spawned' /\ slot <= spawned' /\ spawned <= spawned'
    BY <1>0, <1>n, <2>2 DEF Typed
  <2>7. QED
    BY <1>0, <2>1, <2>2, <2>3, <2>4, <2>5, <2>6 DEF Typed
<1>BeginRender. ASSUME NEW r \in Renders, BeginRender(r) PROVE Typed' /\ spawned <= spawned'
  BY <1>0, <1>m, <1>n, <1>BeginRender DEF BeginRender, Typed, Tasks
<1>TakeLock. ASSUME NEW r \in Renders, TakeLock(r) PROVE Typed' /\ spawned <= spawned'
  BY <1>0, <1>m, <1>n, <1>TakeLock DEF TakeLock, Typed, Tasks
<1>Inject. ASSUME NEW r \in Renders, Inject(r) PROVE Typed' /\ spawned <= spawned'
  BY <1>0, <1>m, <1>n, <1>Inject DEF Inject, Typed, Tasks
<1>Confirm. ASSUME NEW r \in Renders, Confirm(r) PROVE Typed' /\ spawned <= spawned'
  BY <1>0, <1>m, <1>n, <1>Confirm DEF Confirm, Typed, Tasks
<1>Capture. ASSUME NEW r \in Renders, Capture(r) PROVE Typed' /\ spawned <= spawned'
  BY <1>0, <1>m, <1>n, <1>Capture DEF Capture, Typed, Tasks
<1>DrawFails. ASSUME NEW r \in Renders, DrawFails(r) PROVE Typed' /\ spawned <= spawned'
  BY <1>0, <1>m, <1>n, <1>DrawFails DEF DrawFails, Typed, Tasks
<1>DropRender. ASSUME NEW r \in Renders, DropRender(r) PROVE Typed' /\ spawned <= spawned'
  BY <1>0, <1>m, <1>n, <1>DropRender DEF DropRender, Typed, Tasks
<1>Begin. ASSUME NEW t \in Tasks, BeginWarm(t) \/ BeginRecycle(t) PROVE Typed' /\ spawned <= spawned'
  <2>1. UNCHANGED <<attempt, slots, os, probed, shot>>
    BY <1>Begin DEF BeginWarm, BeginRecycle
  <2>2. QED
    BY <1>0, <1>n, <2>1 DEF Typed
<1>Chromium. ASSUME NEW p \in Procs, Listen(p) \/ Crash(p) PROVE Typed' /\ spawned <= spawned'
  <2>1. CASE Listen(p)
    <3>1. /\ listening' \subseteq alive /\ p \in alive
          /\ UNCHANGED <<attempt, slot, url, client, poisoned, activePort, probed, alive, port,
                         spawned, crashed, page, shot>>
      BY <1>0, <2>1 DEF Listen, Typed
    <3>2. QED
      BY <1>0, <1>n, <3>1 DEF Typed
  <2>2. CASE Crash(p)
    <3>1. /\ crashed' \in 0 .. MaxCrash /\ listening' \subseteq alive' /\ alive' \subseteq alive
          /\ UNCHANGED <<attempt, slot, url, client, poisoned, activePort, probed, port,
                         spawned, page, shot>>
      BY <1>0, <2>2, BrowserAssumption DEF Crash, Typed
    <3>2. QED
      BY <1>0, <1>n, <3>1 DEF Typed
  <2>3. QED
    BY <1>Chromium, <2>1, <2>2
<1>q. QED
  BY <1>FastPath, <1>CheckChild, <1>SpawnFails, <1>StoreChild, <1>StartWaiting, <1>PortAnswers, <1>NotReady,
     <1>TearDown, <1>ResolveUrl, <1>SetUrl, <1>ConnectClient, <1>StoreClient, <1>KillChild, <1>Disconnect, <1>ForgetUrl,
     <1>TakeClient, <1>Exec, <1>Begin, <1>Chromium,
     <1>BeginRender, <1>TakeLock, <1>Inject, <1>Confirm, <1>Capture, <1>DrawFails, <1>DropRender
  DEF Next, Begin, Ensure, Draw, Recycle, Tasks

\* Every step keeps the types, the parts of the tasks and the lock's owner.
LEMMA PlacedStep == ASSUME Placed, Next PROVE Placed'
<1>1. Typed' /\ spawned <= spawned' /\ spawned \in Nat /\ spawned' \in Nat
  BY TypedStep, BrowserAssumption DEF Placed, TypeOK, Typed
<1>2. Parted
  BY DEF Placed, TypeOK, Started, Parted, Labels
<1>3. Parted'
  <2>1. CASE UNCHANGED <<pc, mine, lock>>
    <3>1. mine \in [Tasks -> Int]
      BY <1>2, BrowserAssumption DEF Parted, Procs, None
    <3>2. \A t \in Tasks : mine[t] <= spawned'
      BY <1>1, <1>2, <3>1 DEF Parted
    <3>3. QED
      BY <1>2, <2>1, <3>2 DEF Parted, PartsOK, LockOwned
  <2>2. ASSUME NEW t \in Tasks, Somewhere(t) PROVE Parted'
    BY <1>1, <1>2, <2>2, MovesKeep DEF Somewhere
  <2>3. QED
    BY <2>1, <2>2, SomeoneMoves
<1>4. QED
  BY <1>1, <1>3 DEF Placed, TypeOK, Started, Typed, Parted, Labels

-----------------------------------------------------------------------------
(* Processes and pages.                                                    *)

\* One step moves one task; a child waits for its slot until StoreChild, and
\* only Confirm brings a render to its capture.
LEMMA Bystanders == ASSUME Placed, Next
  PROVE  \A u \in Tasks :
            /\ pc[u] = "store" /\ ~StoreChild(u) => pc'[u] = "store" /\ mine'[u] = mine[u]
            /\ pc'[u] = "capture" /\ ~Confirm(u) => pc[u] = "capture" /\ mine'[u] = mine[u]
            /\ pc'[u] = "idle" => pc[u] = "idle"
<1> DEFINE Good == \A u \in Tasks :
            /\ pc[u] = "store" /\ ~StoreChild(u) => pc'[u] = "store" /\ mine'[u] = mine[u]
            /\ pc'[u] = "capture" /\ ~Confirm(u) => pc[u] = "capture" /\ mine'[u] = mine[u]
            /\ pc'[u] = "idle" => pc[u] = "idle"
<1>t. pc \in [Tasks -> Labels] /\ mine \in [Tasks -> Procs \cup {None}]
  BY DEF Placed, TypeOK, Labels
<1>k. "kill" # "store" /\ Renders \subseteq Tasks
  BY DEF Tasks
<1> SUFFICES Good
  OBVIOUS
<1>a. ASSUME NEW t \in Tasks, NEW l, pc' = [pc EXCEPT ![t] = l], pc[t] # "store", l \notin {"capture", "idle"},
             \A u \in Tasks \ {t} : mine'[u] = mine[u]
      PROVE  Good
  BY <1>t, <1>a
<1>b. ASSUME NEW t \in Tasks, NEW l, Leave(t, l) \/ (Goto(t, l) /\ UNCHANGED mine),
             pc[t] # "store", l \notin {"capture", "idle"}
      PROVE  Good
  BY <1>a, <1>b, <1>t DEF Leave, Goto
<1>c. ASSUME NEW t \in Tasks, NEW l, NEW p, GoOn(t, l, p), pc[t] # "store", l \notin {"capture", "idle"}
      PROVE  Good
  BY <1>a, <1>c, <1>t DEF GoOn, Goto
<1>FastPath. ASSUME NEW t \in Tasks, FastPath(t) PROVE Good
  BY <1>b, <1>c, <1>FastPath DEF FastPath, Panic, Connect
<1>CheckChild. ASSUME NEW t \in Tasks, CheckChild(t) PROVE Good
  BY <1>b, <1>CheckChild DEF CheckChild
<1>SpawnFails. ASSUME NEW t \in Tasks, SpawnFails(t) PROVE Good
  BY <1>b, <1>SpawnFails DEF SpawnFails, Fail
<1>StartWaiting. ASSUME NEW t \in Tasks, StartWaiting(t) PROVE Good
  BY <1>b, <1>StartWaiting DEF StartWaiting
<1>PortAnswers. ASSUME NEW t \in Tasks, PortAnswers(t) PROVE Good
  BY <1>b, <1>PortAnswers DEF PortAnswers, StopWaiting
<1>NotReady. ASSUME NEW t \in Tasks, NotReady(t) PROVE Good
  BY <1>b, <1>NotReady DEF NotReady, StopWaiting
<1>TearDown. ASSUME NEW t \in Tasks, TearDown(t) PROVE Good
  BY <1>b, <1>TearDown DEF TearDown, Fail
<1>ResolveUrl. ASSUME NEW t \in Tasks, ResolveUrl(t) PROVE Good
  BY <1>b, <1>c, <1>ResolveUrl DEF ResolveUrl, Fail
<1>SetUrl. ASSUME NEW t \in Tasks, SetUrl(t) PROVE Good
  BY <1>b, <1>SetUrl DEF SetUrl
<1>ConnectClient. ASSUME NEW t \in Tasks, ConnectClient(t) PROVE Good
  BY <1>b, <1>c, <1>ConnectClient DEF ConnectClient, Fail
<1>StoreClient. ASSUME NEW t \in Tasks, StoreClient(t) PROVE Good
  BY <1>b, <1>c, <1>StoreClient DEF StoreClient, Panic
<1>TakeClient. ASSUME NEW t \in Tasks, TakeClient(t) PROVE Good
  BY <1>b, <1>c, <1>TakeClient DEF TakeClient, Panic, Connect
<1>KillChild. ASSUME NEW t \in Tasks, KillChild(t) PROVE Good
  BY <1>b, <1>KillChild DEF KillChild
<1>Disconnect. ASSUME NEW t \in Tasks, Disconnect(t) PROVE Good
  BY <1>b, <1>c, <1>Disconnect DEF Disconnect, Panic
<1>ForgetUrl. ASSUME NEW t \in Tasks, ForgetUrl(t) PROVE Good
  BY <1>b, <1>c, <1>ForgetUrl DEF ForgetUrl
<1>Exec. ASSUME NEW t \in Tasks, Exec(t) PROVE Good
  BY <1>a, <1>t, <1>Exec DEF Exec, Goto
<1>StoreChild. ASSUME NEW t \in Tasks, StoreChild(t) PROVE Good
  BY <1>t, <1>StoreChild DEF StoreChild, Goto
<1>Confirm. ASSUME NEW t \in Tasks, Confirm(t) PROVE Good
  BY <1>t, <1>Confirm DEF Confirm, Goto
<1>BeginRender. ASSUME NEW t \in Tasks, BeginRender(t) PROVE Good
  BY <1>b, <1>BeginRender DEF BeginRender
<1>TakeLock. ASSUME NEW t \in Tasks, TakeLock(t) PROVE Good
  BY <1>b, <1>TakeLock DEF TakeLock
<1>BeginWarm. ASSUME NEW t \in Tasks, BeginWarm(t) PROVE Good
  BY <1>b, <1>BeginWarm DEF BeginWarm
<1>BeginRecycle. ASSUME NEW t \in Tasks, BeginRecycle(t) PROVE Good
  BY <1>b, <1>BeginRecycle DEF BeginRecycle
<1>Inject. ASSUME NEW t \in Tasks, Inject(t) PROVE Good
  BY <1>b, <1>Inject DEF Inject
<1>Capture. ASSUME NEW t \in Tasks, Capture(t) PROVE Good
  BY <1>b, <1>Capture DEF Capture
<1>DrawFails. ASSUME NEW t \in Tasks, DrawFails(t) PROVE Good
  BY <1>b, <1>DrawFails DEF DrawFails, Fail, Drawing
<1>DropRender. ASSUME NEW t \in Tasks, DropRender(t) PROVE Good
  BY <1>b, <1>DropRender DEF DropRender, Drawing
<1>Chromium. ASSUME NEW p \in Procs, Listen(p) \/ Crash(p) PROVE Good
  BY <1>Chromium DEF Listen, Crash
<1>q. QED
  BY <1>FastPath, <1>CheckChild, <1>Exec, <1>SpawnFails, <1>StoreChild, <1>StartWaiting,
     <1>PortAnswers, <1>NotReady, <1>TearDown, <1>ResolveUrl, <1>SetUrl, <1>ConnectClient,
     <1>StoreClient, <1>TakeClient, <1>KillChild, <1>Disconnect, <1>ForgetUrl, <1>BeginRender,
     <1>TakeLock, <1>BeginWarm, <1>BeginRecycle, <1>Inject, <1>Confirm, <1>Capture, <1>DrawFails,
     <1>DropRender, <1>Chromium
  DEF Next, Begin, Ensure, Draw, Recycle, Tasks

\* Who starts or kills processes, and who writes to pages.
LEMMA Processes == ASSUME Placed, Next
  PROVE  \/ \E t \in Tasks : Exec(t) \/ StoreChild(t)
         \/ alive' \subseteq alive /\ \A p \in alive' : p = slot => slot' = p
<1>1. ASSUME NEW t \in Tasks, TearDown(t) \/ KillChild(t) \/ CheckChild(t)
      PROVE  alive' \subseteq alive /\ \A p \in alive' : p = slot => slot' = p
  BY <1>1 DEF TearDown, KillChild, CheckChild, Reap, os
<1>2. ASSUME NEW p \in Procs, Crash(p) \/ Listen(p) PROVE alive' \subseteq alive /\ slot' = slot
  BY <1>2 DEF Crash, Listen, slots
<1>3. CASE UNCHANGED <<alive, slot>>
  BY <1>3
<1>4. ASSUME NEW t \in Tasks,
             \/ FastPath(t) \/ SpawnFails(t) \/ StartWaiting(t) \/ PortAnswers(t) \/ NotReady(t)
             \/ ResolveUrl(t) \/ SetUrl(t) \/ ConnectClient(t) \/ StoreClient(t) \/ TakeClient(t)
             \/ Disconnect(t) \/ ForgetUrl(t) \/ BeginRender(t) \/ TakeLock(t) \/ BeginWarm(t)
             \/ BeginRecycle(t) \/ Draw(t) \/ DropRender(t)
      PROVE  UNCHANGED <<alive, slot>>
  BY <1>4 DEF FastPath, SpawnFails, StartWaiting, PortAnswers, NotReady, ResolveUrl, SetUrl,
     ConnectClient, StoreClient, TakeClient, Disconnect, ForgetUrl, BeginRender, TakeLock, BeginWarm,
     BeginRecycle, Draw, Inject, Confirm, Capture, DrawFails, DropRender, slots, os
<1>5. QED
  BY <1>1, <1>2, <1>3, <1>4 DEF Next, Begin, Ensure, Recycle, Tasks

\* A live Chromium is in the slot or on its way to it.
LEMMA OrphansStep == ASSUME Placed, NoOrphans, Next PROVE NoOrphans'
<1>t. pc \in [Tasks -> Labels] /\ mine \in [Tasks -> Procs \cup {None}]
  BY DEF Placed, TypeOK, Labels
<1>1. ASSUME NEW t \in Tasks, Exec(t) PROVE NoOrphans'
  <2>1. alive' = alive \cup {spawned'} /\ slot' = slot /\ pc'[t] = "store" /\ mine'[t] = spawned'
        /\ ~StoreChild(t)
    BY <1>t, <1>1 DEF Exec, Goto, StoreChild
  <2>2. \A u \in Tasks : pc[u] = "store" => pc'[u] = "store" /\ mine'[u] = mine[u]
    BY <1>t, <1>1 DEF Exec, Goto
  <2>3. QED
    BY <2>1, <2>2 DEF NoOrphans
<1>2. ASSUME NEW t \in Tasks, StoreChild(t) PROVE NoOrphans'
  <2>1. alive' = alive \ {slot} /\ slot' = mine[t] /\ pc[t] = "store"
    BY <1>2 DEF StoreChild, Reap
  <2>2. \A u \in Tasks \ {t} : pc'[u] = pc[u] /\ mine'[u] = mine[u]
    BY <1>t, <1>2 DEF StoreChild, Goto
  <2>3. QED
    BY <2>1, <2>2 DEF NoOrphans
<1>3. ASSUME alive' \subseteq alive, \A p \in alive' : p = slot => slot' = p,
             \A t \in Tasks : ~StoreChild(t)
      PROVE  NoOrphans'
  <2>1. \A u \in Tasks : pc[u] = "store" => pc'[u] = "store" /\ mine'[u] = mine[u]
    BY <1>3, Bystanders
  <2>2. QED
    BY <1>3, <2>1 DEF NoOrphans
<1>4. QED
  BY <1>1, <1>2, <1>3, Processes

\* Only an injection changes what a page shows, and only a capture looks.
LEMMA Pages == ASSUME Placed, Next
  PROVE  /\ page' = page \/ \E r \in Renders : Inject(r)
         /\ shot' = shot \/ \E r \in Renders : Capture(r)
<1>1. ASSUME NEW t \in Tasks, Ensure(t) \/ Recycle(t) PROVE page' = page /\ shot' = shot
  BY <1>1 DEF Ensure, Recycle, FastPath, CheckChild, Exec, SpawnFails, StoreChild, StartWaiting,
     PortAnswers, NotReady, TearDown, ResolveUrl, SetUrl, ConnectClient, StoreClient, TakeClient,
     KillChild, Disconnect, ForgetUrl, os
<1>2. ASSUME NEW r \in Renders, Draw(r) \/ DropRender(r)
      PROVE  (page' = page \/ Inject(r)) /\ (shot' = shot \/ Capture(r))
  BY <1>2 DEF Draw, DropRender, Inject, Confirm, Capture, DrawFails, os
<1>3. ASSUME Begin PROVE page' = page /\ shot' = shot
  BY <1>3 DEF Begin, BeginRender, TakeLock, BeginWarm, BeginRecycle, os
<1>4. ASSUME NEW p \in Procs, Listen(p) \/ Crash(p) PROVE page' = page /\ shot' = shot
  BY <1>4 DEF Listen, Crash
<1>5. QED
  BY <1>1, <1>2, <1>3, <1>4 DEF Next

\* What the marker query found stays on the page until the capture: another
\* render that injected would need the lock.
LEMMA ConfirmedStep == ASSUME Placed, Confirmed, Next PROVE Confirmed'
<1> SUFFICES ASSUME NEW r \in Renders, pc'[r] = "capture" PROVE page'[mine'[r]] = r
  BY DEF Confirmed
<1>r. r \in Tasks
  BY DEF Tasks
<1>1. CASE Confirm(r)
  BY <1>1 DEF Confirm, os
<1>2. CASE ~Confirm(r)
  <2>1. pc[r] = "capture" /\ mine'[r] = mine[r]
    BY <1>r, <1>2, Bystanders
  <2>2. page[mine[r]] = r /\ lock = r
    BY <2>1 DEF Confirmed, Placed, LockOwned, Attempting, Drawing
  <2>3. ASSUME NEW d \in Renders, Inject(d) PROVE FALSE
    <3>1. lock = d /\ pc[d] = "inject"
      BY <2>3 DEF Inject, Placed, LockOwned, Attempting, Drawing
    <3>2. QED
      BY <2>1, <2>2, <3>1
  <2>4. QED
    BY <2>1, <2>2, <2>3, Pages
<1>3. QED
  BY <1>1, <1>2

\* So the screenshot shows what its own render injected.
LEMMA CaptureStep == ASSUME Placed, Confirmed, CaptureIsOwn, Next PROVE CaptureIsOwn'
<1>1. shot \in [Renders -> Renders \cup {None}]
  BY DEF Placed, TypeOK
<1>2. ASSUME NEW r \in Renders, Capture(r) PROVE CaptureIsOwn'
  BY <1>1, <1>2 DEF Capture, Confirmed, CaptureIsOwn
<1>3. QED
  BY <1>2, Pages DEF CaptureIsOwn

-----------------------------------------------------------------------------
(* Recycles.                                                               *)

LEMMA NotBegunStep == ASSUME Placed, NotBegun, Next PROVE NotBegun'
<1>t. /\ pc \in [Tasks -> Labels] /\ attempt \in [Renders -> 0 .. 2] /\ Renders \subseteq Tasks
  BY DEF Placed, TypeOK, Labels, Tasks
<1> SUFFICES ASSUME NEW r \in Renders, attempt'[r] # attempt[r] PROVE pc'[r] # "idle"
  BY <1>t, Bystanders DEF NotBegun
<1>1. ASSUME NEW t \in Tasks, Ensure(t) PROVE FALSE
  BY <1>1 DEF Ensure, FastPath, CheckChild, Exec, SpawnFails, StoreChild, StartWaiting, PortAnswers,
     NotReady, TearDown, ResolveUrl, SetUrl, ConnectClient, StoreClient, TakeClient
<1>2. ASSUME NEW d \in Renders, Draw(d) \/ TakeLock(d) PROVE FALSE
  BY <1>2 DEF Draw, Inject, Confirm, Capture, DrawFails, TakeLock
<1>3. ASSUME NEW t \in Tasks, BeginWarm(t) \/ BeginRecycle(t) \/ KillChild(t) \/ Disconnect(t) PROVE FALSE
  BY <1>3 DEF BeginWarm, BeginRecycle, KillChild, Disconnect
<1>4. ASSUME NEW d \in Renders, BeginRender(d) \/ DropRender(d) PROVE pc'[r] # "idle"
  BY <1>t, <1>4 DEF BeginRender, DropRender, Leave, Goto
<1>5. ASSUME NEW t \in Tasks, ForgetUrl(t) PROVE pc'[r] # "idle"
  BY <1>t, <1>5 DEF ForgetUrl, Retries, GoOn, Goto
<1>6. ASSUME NEW p \in Procs, Listen(p) \/ Crash(p) PROVE FALSE
  BY <1>6 DEF Listen, Crash
<1>7. QED
  BY <1>1, <1>2, <1>3, <1>4, <1>5, <1>6 DEF Next, Begin, Recycle, Tasks

\* Who has recycled has, until something panics.
LEMMA RecycledStays == ASSUME Placed, NotBegun, Next, ~poisoned, NEW u \in Tasks, Recycled(u)
                       PROVE  Recycled(u)'
<1>t. /\ pc \in [Tasks -> Labels] /\ attempt \in [Renders -> 0 .. 2] /\ PartsOK
      /\ Renders \subseteq Tasks
  BY DEF Placed, TypeOK, Labels, Tasks
<1>d. Renders \cap Warmers = {} /\ Renders \cap Recyclers = {} /\ Warmers \cap Recyclers = {}
  BY BrowserAssumption
<1> USE DEF Recycled
<1>1. CASE UNCHANGED <<pc, attempt>>
  BY <1>1
<1>2. ASSUME NEW t \in Tasks, NEW l, pc' = [pc EXCEPT ![t] = l], attempt' = attempt,
             pc[t] \notin {"forget", "failed", "kill", "disconnect"}
      PROVE  Recycled(u)'
  BY <1>t, <1>2
<1>3. ASSUME NEW t \in Tasks, Ensure(t) PROVE Recycled(u)'
  <2>1. pc[t] \notin {"forget", "failed", "kill", "disconnect"} /\ attempt' = attempt
    BY <1>3 DEF Ensure, FastPath, CheckChild, Exec, SpawnFails, StoreChild, StartWaiting, PortAnswers,
       NotReady, TearDown, ResolveUrl, SetUrl, ConnectClient, StoreClient, TakeClient
  <2>2. PICK l : pc' = [pc EXCEPT ![t] = l]
    BY <1>3 DEF Ensure, FastPath, CheckChild, Exec, SpawnFails, StoreChild, StartWaiting, PortAnswers,
       NotReady, TearDown, ResolveUrl, SetUrl, ConnectClient, StoreClient, TakeClient, Connect, Panic,
       Fail, Leave, GoOn, Goto, StopWaiting
  <2>3. QED
    BY <1>2, <2>1, <2>2
<1>4. ASSUME NEW t \in Renders, Draw(t) \/ TakeLock(t) PROVE Recycled(u)'
  BY <1>2, <1>4, <1>t DEF Draw, Inject, Confirm, Capture, DrawFails, TakeLock, Drawing, Leave, Fail,
     Goto
<1>5. ASSUME NEW t \in Tasks, BeginWarm(t) \/ BeginRecycle(t) PROVE Recycled(u)'
  BY <1>2, <1>5 DEF BeginWarm, BeginRecycle, Goto
<1>6. ASSUME NEW t \in Renders, BeginRender(t) PROVE Recycled(u)'
  BY <1>t, <1>d, <1>6 DEF BeginRender, Goto, NotBegun
<1>7. ASSUME NEW t \in Renders, DropRender(t) PROVE Recycled(u)'
  BY <1>t, <1>7 DEF DropRender, Leave, Goto
<1>8. ASSUME NEW t \in Tasks, KillChild(t) PROVE Recycled(u)'
  BY <1>t, <1>8 DEF KillChild, Goto
<1>9. ASSUME NEW t \in Tasks, Disconnect(t) PROVE Recycled(u)'
  BY <1>t, <1>9 DEF Disconnect, GoOn, Goto
<1>10. ASSUME NEW t \in Tasks, ForgetUrl(t) PROVE Recycled(u)'
  BY <1>t, <1>10 DEF ForgetUrl, Retries, GoOn, Leave, Goto
<1>11. ASSUME NEW p \in Procs, Listen(p) \/ Crash(p) PROVE Recycled(u)'
  BY <1>1, <1>11 DEF Listen, Crash
<1>12. QED
  BY <1>3, <1>4, <1>5, <1>6, <1>7, <1>8, <1>9, <1>10, <1>11 DEF Next, Begin, Recycle, Tasks

\* The client is stored before it is taken; only the disconnect of another
\* task, which then has recycled, empties it in between.
LEMMA TakenStep == ASSUME Placed, NotBegun, TakenOrRecycled, Next PROVE TakenOrRecycled'
<1> SUFFICES ASSUME ~poisoned', NEW t \in Tasks, pc'[t] = "take", client' = None
             PROVE  \E u \in Tasks \ {t} : Recycled(u)'
  BY DEF TakenOrRecycled
<1>t. /\ pc \in [Tasks -> Labels] /\ mine \in [Tasks -> Procs \cup {None}] /\ poisoned \in BOOLEAN
      /\ PartsOK
  BY DEF Placed, TypeOK, Labels
<1>p. ~poisoned
  <2>1. poisoned => poisoned'
    BY <1>t DEF Next, Begin, Ensure, Recycle, Draw, BeginRender, TakeLock, BeginWarm, BeginRecycle,
       FastPath, CheckChild, Exec, SpawnFails, StoreChild, StartWaiting, PortAnswers, NotReady,
       TearDown, ResolveUrl, SetUrl, ConnectClient, StoreClient, TakeClient, KillChild, Disconnect,
       ForgetUrl, Inject, Confirm, Capture, DrawFails, DropRender, Listen, Crash, slots
  <2>2. QED
    BY <2>1
<1>1. CASE StoreClient(t)
  <2>1. client' = mine[t] /\ mine[t] # None
    BY <1>t, <1>p, <1>1 DEF StoreClient, Published, PartsOK
  <2>2. QED
    BY <2>1
<1>2. ASSUME NEW u \in Tasks, Disconnect(u) PROVE \E v \in Tasks \ {t} : Recycled(v)'
  <2>1. pc'[u] = "forget"
    BY <1>t, <1>p, <1>2 DEF Disconnect, GoOn, Goto
  <2>2. u \in Recyclers \cup Renders
    BY <1>t, <1>2 DEF Disconnect, PartsOK, Tasks, Idle, Ensuring
  <2>3. QED
    BY <2>1, <2>2 DEF Recycled, Tasks
<1>3. CASE ~StoreClient(t) /\ \A u \in Tasks : ~Disconnect(u)
  <2>1. pc[t] = "take"
    BY <1>t, <1>3 DEF Next, Begin, Ensure, Recycle, Draw, BeginRender, TakeLock, BeginWarm,
       BeginRecycle, FastPath, CheckChild, Exec, SpawnFails, StoreChild, StartWaiting, PortAnswers,
       NotReady, TearDown, ResolveUrl, SetUrl, ConnectClient, StoreClient, TakeClient, KillChild,
       ForgetUrl, Inject, Confirm, Capture, DrawFails, DropRender, Listen, Crash, Goto, GoOn, Leave,
       Panic, Fail, Connect, StopWaiting
  <2>2. client = None
    <3>1. ASSUME NEW v \in Tasks, StoreClient(v) PROVE FALSE
      BY <1>t, <1>p, <3>1 DEF StoreClient, Published, PartsOK
    <3>2. CASE client' = client
      BY <3>2
    <3>3. CASE client' # client
      BY <1>3, <3>1, <3>3 DEF Next, Begin, Ensure, Recycle, Draw, BeginRender, TakeLock, BeginWarm,
         BeginRecycle, FastPath, CheckChild, Exec, SpawnFails, StoreChild, StartWaiting, PortAnswers,
         NotReady, TearDown, ResolveUrl, SetUrl, ConnectClient, TakeClient, KillChild,
         ForgetUrl, Inject, Confirm, Capture, DrawFails, DropRender, Listen, Crash, slots
    <3>4. QED
      BY <3>2, <3>3
  <2>3. PICK u \in Tasks \ {t} : Recycled(u)
    BY <1>p, <2>1, <2>2 DEF TakenOrRecycled
  <2>4. Recycled(u)'
    BY <1>p, <2>3, RecycledStays
  <2>5. QED
    BY <2>3, <2>4
<1>4. QED
  BY <1>1, <1>2, <1>3

-----------------------------------------------------------------------------
LEMMA Inductive == IInv /\ [Next]_vars => IInv'
<1> SUFFICES ASSUME IInv, [Next]_vars PROVE IInv'
  OBVIOUS
<1>1. CASE UNCHANGED vars
  BY <1>1 DEF vars, slots, os, IInv, Placed, TypeOK, Started, PartsOK, LockOwned, Confirmed, NotBegun,
     TakenOrRecycled, Recycled, NoOrphans, CaptureIsOwn
<1>2. CASE Next
  BY <1>2, PlacedStep, ConfirmedStep, NotBegunStep, TakenStep, OrphansStep, CaptureStep DEF IInv
<1>3. QED
  BY <1>1, <1>2

THEOREM Invariance == Spec => []IInv
BY InitIInv, Inductive, PTL DEF Spec

\* Types, and the part of the code each kind of task stays in.
THEOREM TypeCorrect == Spec => []TypeOK
<1>1. IInv => TypeOK
  BY DEF IInv, Placed
<1>2. QED
  BY <1>1, Invariance, PTL

\* However tasks are dropped, time out, tear down and recycle side by side,
\* no Chromium is left running that nobody will kill.
THEOREM NoOrphanProcesses == Spec => []NoOrphans
BY Invariance, PTL DEF IInv

\* However renders and recyclers interleave, a render captures its own page.
THEOREM CapturesAreOwn == Spec => []CaptureIsOwn
BY Invariance, PTL DEF IInv

\* The unwrap under the client's lock fails only if another task recycled.
THEOREM PanicsHaveCauses == Spec => PanicsAreCaused
<1>1. ASSUME IInv, [Next]_vars, poisoned' # poisoned
      PROVE  \E t, u \in Tasks : t # u /\ pc[t] = "take" /\ pc'[t] = "panicked" /\ Recycled(u)
  <2>t. pc \in [Tasks -> Labels] /\ poisoned \in BOOLEAN
    BY <1>1 DEF IInv, Placed, TypeOK, Labels
  <2>1. PICK t \in Tasks : TakeClient(t)
    BY <1>1 DEF vars, slots, Next, Begin, Ensure, Recycle, Draw, BeginRender, TakeLock, BeginWarm,
       BeginRecycle, FastPath, CheckChild, Exec, SpawnFails, StoreChild, StartWaiting, PortAnswers,
       NotReady, TearDown, ResolveUrl, SetUrl, ConnectClient, StoreClient, KillChild, Disconnect,
       ForgetUrl, Inject, Confirm, Capture, DrawFails, DropRender, Listen, Crash
  <2>2. pc[t] = "take" /\ client = None /\ ~poisoned /\ pc'[t] = "panicked"
    BY <1>1, <2>t, <2>1 DEF TakeClient, Panic, Leave, Goto
  <2>3. PICK u \in Tasks \ {t} : Recycled(u)
    BY <1>1, <2>2 DEF IInv, TakenOrRecycled
  <2>4. QED
    BY <2>2, <2>3
<1>2. IInv /\ [Next]_vars =>
        [poisoned' # poisoned =>
          \E t, u \in Tasks : t # u /\ pc[t] = "take" /\ pc'[t] = "panicked"
                            /\ Recycled(u)]_vars
  BY <1>1
<1>3. QED
  BY <1>2, Invariance, PTL DEF Spec, PanicsAreCaused

-----------------------------------------------------------------------------
(* The stored handles.                                                     *)

\* What disturbs stays, so an undisturbed state comes from one; only renders
\* are in ensure_browser then, and no Chromium has crashed.
LEMMA Calm == ASSUME Placed, Next, Undisturbed'
  PROVE  /\ Undisturbed
         /\ \A t \in Tasks : Ensure(t) => t \in Renders
         /\ \A p \in Procs : ~Crash(p)
         /\ \A t \in Tasks : ~Panic(t)
<1>t. /\ pc \in [Tasks -> Labels] /\ crashed \in Nat /\ PartsOK
  BY BrowserAssumption DEF Placed, TypeOK, Labels
<1>1. \A p \in Procs : ~Crash(p)
  BY <1>t DEF Crash, Undisturbed
<1>2. crashed = 0
  BY <1>t, <1>1 DEF Undisturbed, os, Next, Begin, Ensure, Recycle, Draw, BeginRender, TakeLock, BeginWarm, BeginRecycle,
   FastPath, CheckChild, Exec, SpawnFails, StoreChild, StartWaiting, PortAnswers, NotReady,
   TearDown, ResolveUrl, SetUrl, ConnectClient, StoreClient, TakeClient, KillChild, Disconnect,
   ForgetUrl, Inject, Confirm, Capture, DrawFails, DropRender, Listen
<1>3. \A t \in Tasks : /\ pc'[t] = "absent" => pc[t] = "absent"
                       /\ pc'[t] = "idle" => pc[t] = "idle"
                       /\ pc[t] = "panicked" => pc'[t] = "panicked"
  BY <1>t DEF Goto, GoOn, Leave, Panic, Fail, Connect, StopWaiting, Drawing,
   Next, Begin, Ensure, Recycle, Draw, BeginRender, TakeLock, BeginWarm, BeginRecycle,
   FastPath, CheckChild, Exec, SpawnFails, StoreChild, StartWaiting, PortAnswers, NotReady,
   TearDown, ResolveUrl, SetUrl, ConnectClient, StoreClient, TakeClient, KillChild, Disconnect,
   ForgetUrl, Inject, Confirm, Capture, DrawFails, DropRender, Listen, Crash
<1>4. Undisturbed
  BY <1>2, <1>3, BrowserAssumption DEF Undisturbed, Tasks
<1>5. \A t \in Tasks : Ensure(t) => t \in Renders
  BY <1>t, <1>4 DEF PartsOK, Undisturbed, Tasks, Idle, Recycling, Ensure, FastPath, CheckChild, Exec,
     SpawnFails, StoreChild, StartWaiting, PortAnswers, NotReady, TearDown, ResolveUrl, SetUrl,
     ConnectClient, StoreClient, TakeClient
<1>6. \A t \in Tasks : ~Panic(t)
  BY <1>t DEF Panic, Leave, Goto, Undisturbed
<1>7. QED
  BY <1>1, <1>4, <1>5, <1>6

\* Who changes the slots.
LEMMA Writers == ASSUME Next
  PROVE  /\ slot' \in {slot, None} \/ \E t \in Tasks : StoreChild(t)
         /\ client' \in {client, None} \/ \E t \in Tasks : StoreClient(t)
         /\ url' \in {url, None} \/ \E t \in Tasks : SetUrl(t)
<1>1. slot' \in {slot, None} \/ \E t \in Tasks : StoreChild(t)
  BY DEF slots, Tasks, Next, Begin, Ensure, Recycle, Draw, BeginRender, TakeLock, BeginWarm, BeginRecycle,
   FastPath, CheckChild, Exec, SpawnFails, StartWaiting, PortAnswers, NotReady, TearDown,
   ResolveUrl, SetUrl, ConnectClient, StoreClient, TakeClient, KillChild, Disconnect,
   ForgetUrl, Inject, Confirm, Capture, DrawFails, DropRender, Listen, Crash
<1>2. client' \in {client, None} \/ \E t \in Tasks : StoreClient(t)
  BY DEF slots, Tasks, Next, Begin, Ensure, Recycle, Draw, BeginRender, TakeLock, BeginWarm, BeginRecycle,
   FastPath, CheckChild, Exec, SpawnFails, StoreChild, StartWaiting, PortAnswers, NotReady,
   TearDown, ResolveUrl, SetUrl, ConnectClient, TakeClient, KillChild, Disconnect, ForgetUrl,
   Inject, Confirm, Capture, DrawFails, DropRender, Listen, Crash
<1>3. url' \in {url, None} \/ \E t \in Tasks : SetUrl(t)
  BY DEF slots, Tasks, Forgotten, Next, Begin, Ensure, Recycle, Draw, BeginRender, TakeLock, BeginWarm, BeginRecycle,
   FastPath, CheckChild, Exec, SpawnFails, StoreChild, StartWaiting, PortAnswers, NotReady,
   TearDown, ResolveUrl, ConnectClient, StoreClient, TakeClient, KillChild, Disconnect,
   ForgetUrl, Inject, Confirm, Capture, DrawFails, DropRender, Listen, Crash
<1>4. QED
  BY <1>1, <1>2, <1>3

\* While children find an empty slot, only a teardown and a recycle end one.
LEMMA Survivors == ASSUME Placed, SlotEmpty, Next, Undisturbed'
  PROVE  \/ \E t \in Tasks : TearDown(t) \/ KillChild(t)
         \/ /\ alive \subseteq alive'
            /\ \A p \in alive' : p \in alive \/ p = spawned + 1
<1>1. ASSUME NEW t \in Tasks, StoreChild(t) PROVE alive' = alive
  <2>1. t \in Renders /\ slot = None
    BY <1>1, Calm DEF SlotEmpty, StoreChild, Ensure
  <2>2. None \notin alive
    BY DEF Placed, TypeOK, None
  <2>3. QED
    BY <1>1, <2>1, <2>2 DEF StoreChild, Reap
<1>2. ASSUME NEW t \in Tasks, Exec(t) PROVE alive' = alive \cup {spawned + 1}
  BY <1>2 DEF Exec
<1>3. CASE /\ \A t \in Tasks : ~StoreChild(t) /\ ~Exec(t) /\ ~TearDown(t) /\ ~KillChild(t)
           /\ \A p \in Procs : ~Crash(p)
  <2>1. alive' = alive
    BY <1>3 DEF os, Tasks, Next, Begin, Ensure, Recycle, Draw, BeginRender, TakeLock, BeginWarm, BeginRecycle,
   FastPath, CheckChild, SpawnFails, StartWaiting, PortAnswers, NotReady, ResolveUrl, SetUrl,
   ConnectClient, StoreClient, TakeClient, Disconnect, ForgetUrl, Inject, Confirm, Capture,
   DrawFails, DropRender, Listen
  <2>2. QED
    BY <2>1
<1>4. QED
  BY <1>1, <1>2, <1>3, Calm

\* How a task comes to start Chromium, and how one that will clear a handle
\* goes on.
Own(u) == \/ TakeClient(u) \/ ConnectClient(u) \/ StoreClient(u) \/ Recycle(u)
          \/ u \in Renders /\ (Draw(u) \/ DropRender(u))

LEMMA Paths == ASSUME Placed, Next
  PROVE  \A u \in Tasks :
            /\ pc'[u] \in {"spawn", "store"} => pc'[u] = pc[u] \/ CheckChild(u) \/ Exec(u)
            /\ pc[u] \in {"take", "connect", "publish"} \cup Recycling \cup Drawing =>
                  (pc'[u] = pc[u] /\ mine'[u] = mine[u]) \/ Own(u)
<1> DEFINE Good == \A u \in Tasks :
            /\ pc'[u] \in {"spawn", "store"} => pc'[u] = pc[u] \/ CheckChild(u) \/ Exec(u)
            /\ pc[u] \in {"take", "connect", "publish"} \cup Recycling \cup Drawing =>
                  (pc'[u] = pc[u] /\ mine'[u] = mine[u]) \/ Own(u)
           Other == {"take", "connect", "publish"} \cup Recycling \cup Drawing
<1>t. pc \in [Tasks -> Labels] /\ mine \in [Tasks -> Procs \cup {None}]
  BY DEF Placed, TypeOK, Labels
<1>o. /\ {"take", "connect", "publish"} \cap Recycling = {} /\ Renders \subseteq Tasks
      /\ Other = {"take", "connect", "publish", "kill", "disconnect", "forget", "inject", "confirm",
                  "capture"}
  BY DEF Recycling, Drawing, Tasks
<1> SUFFICES Good
  OBVIOUS
<1>a. ASSUME NEW t \in Tasks, NEW l, pc' = [pc EXCEPT ![t] = l], l \notin {"spawn", "store"},
             pc[t] \notin Other \/ Own(t), \A u \in Tasks \ {t} : mine'[u] = mine[u]
      PROVE  Good
  <2> HIDE DEF Own
  <2>1. QED
    BY <1>t, <1>a
<1>b. ASSUME NEW t \in Tasks, NEW l, Leave(t, l) \/ (Goto(t, l) /\ UNCHANGED mine),
             pc[t] \notin Other, l \notin {"spawn", "store"}
      PROVE  Good
  BY <1>a, <1>b, <1>t DEF Leave, Goto
<1>c. ASSUME NEW t \in Tasks, NEW l, NEW p, GoOn(t, l, p), pc[t] \notin Other, l \notin {"spawn", "store"}
      PROVE  Good
  BY <1>a, <1>c, <1>t DEF GoOn, Goto
<1>d. ASSUME NEW t \in Tasks, NEW l, Leave(t, l) \/ (Goto(t, l) /\ UNCHANGED mine),
             Own(t), l \notin {"spawn", "store"}
      PROVE  Good
  BY <1>a, <1>d, <1>t DEF Leave, Goto
<1>e. ASSUME NEW t \in Tasks, NEW l, NEW p, GoOn(t, l, p), Own(t), l \notin {"spawn", "store"}
      PROVE  Good
  BY <1>a, <1>e, <1>t DEF GoOn, Goto
<1>FastPath. ASSUME NEW t \in Tasks, FastPath(t) PROVE Good
  BY <1>b, <1>c, <1>o, <1>FastPath DEF FastPath, Panic, Connect
<1>SpawnFails. ASSUME NEW t \in Tasks, SpawnFails(t) PROVE Good
  BY <1>b, <1>o, <1>SpawnFails DEF SpawnFails, Fail
<1>StoreChild. ASSUME NEW t \in Tasks, StoreChild(t) PROVE Good
  BY <1>b, <1>o, <1>StoreChild DEF StoreChild
<1>StartWaiting. ASSUME NEW t \in Tasks, StartWaiting(t) PROVE Good
  BY <1>b, <1>o, <1>StartWaiting DEF StartWaiting
<1>PortAnswers. ASSUME NEW t \in Tasks, PortAnswers(t) PROVE Good
  BY <1>b, <1>o, <1>PortAnswers DEF PortAnswers, StopWaiting
<1>NotReady. ASSUME NEW t \in Tasks, NotReady(t) PROVE Good
  BY <1>b, <1>o, <1>NotReady DEF NotReady, StopWaiting
<1>TearDown. ASSUME NEW t \in Tasks, TearDown(t) PROVE Good
  BY <1>b, <1>o, <1>TearDown DEF TearDown, Fail
<1>ResolveUrl. ASSUME NEW t \in Tasks, ResolveUrl(t) PROVE Good
  BY <1>b, <1>c, <1>o, <1>ResolveUrl DEF ResolveUrl, Fail
<1>SetUrl. ASSUME NEW t \in Tasks, SetUrl(t) PROVE Good
  BY <1>b, <1>o, <1>SetUrl DEF SetUrl
<1>BeginRender. ASSUME NEW t \in Tasks, BeginRender(t) PROVE Good
  BY <1>b, <1>o, <1>BeginRender DEF BeginRender
<1>TakeLock. ASSUME NEW t \in Tasks, TakeLock(t) PROVE Good
  BY <1>b, <1>o, <1>TakeLock DEF TakeLock
<1>BeginWarm. ASSUME NEW t \in Tasks, BeginWarm(t) PROVE Good
  BY <1>b, <1>o, <1>BeginWarm DEF BeginWarm
<1>BeginRecycle. ASSUME NEW t \in Tasks, BeginRecycle(t) PROVE Good
  BY <1>b, <1>o, <1>BeginRecycle DEF BeginRecycle
<1>TakeClient. ASSUME NEW t \in Tasks, TakeClient(t) PROVE Good
  BY <1>d, <1>e, <1>TakeClient DEF TakeClient, Own, Panic, Connect, Tasks
<1>ConnectClient. ASSUME NEW t \in Tasks, ConnectClient(t) PROVE Good
  BY <1>d, <1>e, <1>ConnectClient DEF ConnectClient, Own, Fail, Tasks
<1>StoreClient. ASSUME NEW t \in Tasks, StoreClient(t) PROVE Good
  BY <1>d, <1>e, <1>StoreClient DEF StoreClient, Own, Panic, Tasks
<1>KillChild. ASSUME NEW t \in Tasks, KillChild(t) PROVE Good
  BY <1>d, <1>KillChild DEF KillChild, Own, Recycle, Tasks
<1>Disconnect. ASSUME NEW t \in Tasks, Disconnect(t) PROVE Good
  BY <1>d, <1>e, <1>Disconnect DEF Disconnect, Own, Recycle, Panic, Tasks
<1>ForgetUrl. ASSUME NEW t \in Tasks, ForgetUrl(t) PROVE Good
  BY <1>d, <1>e, <1>ForgetUrl DEF ForgetUrl, Own, Recycle, Tasks
<1>Inject. ASSUME NEW t \in Renders, Inject(t) PROVE Good
  <2>1. Own(t) /\ t \in Tasks
    BY <1>Inject DEF Own, Draw, Tasks
  <2>2. QED
    BY <1>d, <1>Inject, <2>1 DEF Inject
<1>Confirm. ASSUME NEW t \in Renders, Confirm(t) PROVE Good
  BY <1>d, <1>Confirm DEF Confirm, Own, Draw, Tasks
<1>Capture. ASSUME NEW t \in Renders, Capture(t) PROVE Good
  <2>1. Own(t) /\ t \in Tasks
    BY <1>Capture DEF Own, Draw, Tasks
  <2>2. QED
    BY <1>d, <1>Capture, <2>1 DEF Capture
<1>DrawFails. ASSUME NEW t \in Renders, DrawFails(t) PROVE Good
  BY <1>d, <1>DrawFails DEF DrawFails, Own, Draw, Fail, Tasks
<1>DropRender. ASSUME NEW t \in Renders, DropRender(t) PROVE Good
  <2>1. Own(t) /\ t \in Tasks
    BY <1>DropRender DEF Own, Tasks
  <2>2. QED
    BY <1>d, <1>DropRender, <2>1 DEF DropRender
<1>CheckChild. ASSUME NEW t \in Tasks, CheckChild(t) PROVE Good
  BY <1>t, <1>o, <1>CheckChild DEF CheckChild, Goto
<1>Exec. ASSUME NEW t \in Tasks, Exec(t) PROVE Good
  BY <1>t, <1>o, <1>Exec DEF Exec, Goto
<1>Chromium. ASSUME NEW p \in Procs, Listen(p) \/ Crash(p) PROVE Good
  BY <1>Chromium DEF Listen, Crash
<1>q. QED
  BY <1>FastPath, <1>SpawnFails, <1>StoreChild, <1>StartWaiting, <1>PortAnswers, <1>NotReady,
     <1>TearDown, <1>ResolveUrl, <1>SetUrl, <1>BeginRender, <1>TakeLock, <1>BeginWarm,
     <1>BeginRecycle, <1>TakeClient, <1>ConnectClient, <1>StoreClient, <1>KillChild,
     <1>Disconnect, <1>ForgetUrl, <1>Inject, <1>Confirm, <1>Capture, <1>DrawFails,
     <1>DropRender, <1>CheckChild, <1>Exec, <1>Chromium
  DEF Next, Begin, Ensure, Draw, Recycle, Tasks

LEMMA SlotStep == ASSUME Placed, SlotEmpty, Next, Undisturbed' PROVE SlotEmpty'
<1> SUFFICES ASSUME NEW r \in Renders, pc'[r] \in {"spawn", "store"} PROVE slot' = None
  BY DEF SlotEmpty
<1>t. pc \in [Tasks -> Labels] /\ r \in Tasks /\ None \notin alive /\ LockOwned
  BY DEF Placed, TypeOK, Labels, Tasks, None
<1>1. CASE CheckChild(r)
  BY <1>t, <1>1 DEF CheckChild, Goto
<1>2. CASE Exec(r)
  BY <1>2 DEF Exec, SlotEmpty
<1>3. CASE pc'[r] = pc[r]
  <2>1. slot = None
    BY <1>3 DEF SlotEmpty
  <2>2. ASSUME NEW t \in Tasks, StoreChild(t) PROVE FALSE
    <3>1. t \in Renders /\ pc[t] = "store" /\ pc'[t] = "ready"
      BY <1>t, <2>2, Calm DEF Ensure, StoreChild, Goto
    <3>2. lock = t /\ lock = r
      BY <1>t, <1>3, <3>1 DEF LockOwned, Attempting, Ensuring
    <3>3. QED
      BY <1>3, <3>1, <3>2
  <2>3. QED
    BY <2>1, <2>2, Writers
<1>4. QED
  BY <1>t, <1>1, <1>2, <1>3, Paths


\* What a task that clears handles does next, while nothing panics.
LEMMA ClearingClient ==
  ASSUME Placed, Next, Undisturbed', client' = client, client \notin alive \cup {None},
         \A p \in alive' : p \in alive \/ p = spawned + 1,
         NEW u \in Tasks, ClearsClient(u)
  PROVE  ClearsClient(u)'
<1>t. /\ pc \in [Tasks -> Labels] /\ mine \in [Tasks -> Procs \cup {None}]
      /\ mine[u] <= spawned /\ spawned \in Nat /\ mine[u] \in Int
  BY BrowserAssumption DEF Placed, TypeOK, Started, Labels, Procs, None
<1>1. CASE pc'[u] = pc[u] /\ mine'[u] = mine[u]
  <2>1. mine[u] \notin alive => mine[u] \notin alive'
    BY <1>t
  <2>2. QED
    BY <1>1, <2>1 DEF ClearsClient
<1>2. CASE TakeClient(u)
  <2>1. u \in Renders /\ ~Panic(u)
    BY <1>2, Calm DEF Ensure
  <2>2. pc'[u] = "inject" /\ mine'[u] = client
    BY <1>t, <1>2, <2>1 DEF TakeClient, Connect, GoOn, Goto
  <2>3. client \in Int /\ client <= spawned
    BY BrowserAssumption DEF Placed, TypeOK, Started, Procs, None
  <2>4. client \notin alive'
    BY <1>t, <2>3
  <2>5. QED
    BY <2>2, <2>4 DEF ClearsClient, Drawing
<1>3. CASE Recycle(u)
  <2>1. pc[u] \in {"kill", "disconnect"}
    BY <1>3 DEF ClearsClient, Recycle, KillChild, Disconnect, ForgetUrl, Drawing
  <2>2. CASE KillChild(u)
    BY <1>t, <2>2 DEF KillChild, Goto, ClearsClient
  <2>3. CASE Disconnect(u)
    BY <2>3, Calm DEF Disconnect
  <2>4. QED
    BY <1>3, <2>1, <2>2, <2>3 DEF Recycle, ForgetUrl
<1>4. CASE u \in Renders /\ (Draw(u) \/ DropRender(u))
  <2>1. pc[u] \in Drawing /\ mine[u] \notin alive
    BY <1>4 DEF ClearsClient, Draw, Inject, Confirm, Capture, DrawFails, DropRender, Drawing
  <2>2. CASE DrawFails(u)
    BY <1>t, <1>4, <2>2 DEF DrawFails, Fail, Leave, Goto, ClearsClient
  <2>3. CASE DropRender(u)
    BY <1>t, <2>3 DEF DropRender, Leave, Goto, ClearsClient
  <2>4. QED
    BY <1>4, <2>1, <2>2, <2>3 DEF Draw, Inject, Confirm, Capture
<1>5. pc[u] \in {"take", "connect", "publish"} \cup Recycling \cup Drawing
  BY DEF ClearsClient, Recycling
<1>6. ~ConnectClient(u) /\ ~StoreClient(u)
  BY DEF ClearsClient, ConnectClient, StoreClient, Drawing
<1>7. QED
  BY <1>1, <1>2, <1>3, <1>4, <1>5, <1>6, Paths DEF Own

\* A teardown and a recycle clear the client next.
LEMMA Ending ==
  ASSUME Placed, Next, Undisturbed', NEW t \in Tasks, TearDown(t) \/ KillChild(t)
  PROVE  pc'[t] \in {"kill", "disconnect"}
<1>t. pc \in [Tasks -> Labels]
  BY DEF Placed, TypeOK, Labels
<1>1. CASE TearDown(t)
  <2>1. t \in Renders
    BY <1>1, Calm DEF Ensure
  <2>2. QED
    BY <1>t, <1>1, <2>1 DEF TearDown, Fail, Leave, Goto
<1>2. QED
  BY <1>t, <1>1 DEF KillChild, Goto

LEMMA ClientStep ==
  ASSUME Placed, SlotEmpty, ClientCleared, Next, Undisturbed'
  PROVE  ClientCleared'
<1> SUFFICES ASSUME client' \notin alive' \cup {None}
             PROVE  \E u \in Tasks : ClearsClient(u)'
  BY DEF ClientCleared
<1>1. ASSUME NEW t \in Tasks, TearDown(t) \/ KillChild(t) PROVE ClearsClient(t)'
  BY <1>1, Ending DEF ClearsClient
<1>2. ASSUME NEW t \in Tasks, StoreClient(t) PROVE ClearsClient(t)'
  <2>1. pc'[t] = "take"
    BY <1>2, Calm DEF StoreClient, GoOn, Goto, Placed, TypeOK
  <2>2. QED
    BY <2>1 DEF ClearsClient
<1>3. CASE /\ client' = client
           /\ alive \subseteq alive' /\ \A p \in alive' : p \in alive \/ p = spawned + 1
  <2>1. client \notin alive \cup {None}
    BY <1>3
  <2>2. PICK u \in Tasks : ClearsClient(u)
    BY <2>1 DEF ClientCleared
  <2>3. QED
    BY <1>3, <2>1, <2>2, ClearingClient
<1>4. QED
  BY <1>1, <1>2, <1>3, Writers, Survivors

LEMMA ClearingUrl ==
  ASSUME Placed, Next, Undisturbed', url' = url, url # None,
         alive \subseteq alive', \A p \in alive' : p \in alive \/ p = spawned + 1,
         NEW u \in Tasks, ClearsUrl(u)
  PROVE  \E v \in Tasks : ClearsUrl(v)'
<1>t. /\ pc \in [Tasks -> Labels] /\ mine \in [Tasks -> Procs \cup {None}]
      /\ mine[u] <= spawned /\ spawned \in Nat /\ mine[u] \in Int
      /\ client \in Int /\ client <= spawned
      /\ None \notin alive' /\ listening \subseteq alive /\ LockOwned
  <2>1. None \notin alive /\ spawned + 1 # None
    BY BrowserAssumption DEF Placed, TypeOK, None
  <2>2. QED
    BY <2>1, BrowserAssumption DEF Placed, TypeOK, Started, Labels, Procs, None
<1>1. mine[u] \notin alive => mine[u] \notin alive'
  BY <1>t
<1>2. client \notin alive => client \notin alive'
  BY <1>t
<1>3. CASE pc'[u] = pc[u] /\ mine'[u] = mine[u]
  <2>1. ASSUME pc[u] = "take", NEW t \in Tasks, StoreClient(t) PROVE FALSE
    <3>1. t \in Renders /\ pc[t] = "publish" /\ pc'[t] # "publish"
      BY <1>t, <2>1, Calm DEF Ensure, StoreClient, GoOn, Goto
    <3>2. u \in Renders
      <4>1. PartsOK /\ Undisturbed
        BY Calm DEF Placed
      <4>2. QED
        BY <2>1, <4>1 DEF PartsOK, Undisturbed, Tasks, Idle, Recycling
    <3>3. QED
      BY <1>t, <2>1, <3>1, <3>2 DEF LockOwned, Attempting, Ensuring
  <2>2. pc[u] = "take" /\ client \notin alive => client' \notin alive'
    BY <1>t, <1>2, <2>1, Writers
  <2>3. ClearsUrl(u)'
    BY <1>1, <1>3, <2>2 DEF ClearsUrl
  <2>4. QED
    BY <2>3
<1>4. CASE TakeClient(u)
  <2>1. u \in Renders /\ ~Panic(u) /\ client \notin alive
    BY <1>4, Calm DEF Ensure, ClearsUrl, TakeClient, Recycling, Drawing
  <2>2. pc'[u] = "inject" /\ mine'[u] = client
    BY <1>t, <1>4, <2>1 DEF TakeClient, Connect, GoOn, Goto
  <2>3. QED
    BY <1>2, <2>1, <2>2 DEF ClearsUrl, Drawing
<1>5. CASE ConnectClient(u)
  <2>1. u \in Renders /\ mine[u] \notin alive
    BY <1>5, Calm DEF Ensure, ClearsUrl, ConnectClient, Recycling, Drawing
  <2>2. pc'[u] = "kill"
    BY <1>t, <1>5, <2>1 DEF ConnectClient, Fail, Leave, Goto
  <2>3. QED
    BY <2>2 DEF ClearsUrl, Recycling
<1>6. CASE StoreClient(u)
  <2>1. mine[u] \notin alive /\ ~Panic(u)
    BY <1>6, Calm DEF ClearsUrl, StoreClient, Recycling, Drawing
  <2>2. pc'[u] = "take" /\ client' = mine[u]
    BY <1>t, <1>6, <2>1 DEF StoreClient, Published, GoOn, Goto
  <2>3. QED
    BY <1>1, <2>1, <2>2 DEF ClearsUrl
<1>7. CASE Recycle(u)
  <2>1. CASE KillChild(u)
    BY <1>t, <2>1 DEF KillChild, Goto, ClearsUrl, Recycling
  <2>2. CASE Disconnect(u)
    <3>1. pc'[u] = "forget"
      BY <1>t, <2>2, Calm DEF Disconnect, GoOn, Goto
    <3>2. QED
      BY <3>1 DEF ClearsUrl, Recycling
  <2>3. CASE ForgetUrl(u)
    BY <2>3 DEF ForgetUrl, Forgotten
  <2>4. QED
    BY <1>7, <2>1, <2>2, <2>3 DEF Recycle
<1>8. CASE u \in Renders /\ (Draw(u) \/ DropRender(u))
  <2>1. CASE DrawFails(u)
    BY <1>t, <1>8, <2>1 DEF DrawFails, Fail, Leave, Goto, ClearsUrl, Recycling
  <2>2. CASE DropRender(u)
    BY <1>t, <2>2 DEF DropRender, Leave, Goto, ClearsUrl, Recycling
  <2>3. CASE Inject(u) \/ Confirm(u) \/ Capture(u)
    BY <2>3 DEF Inject, Confirm, Capture, ClearsUrl, Recycling
  <2>4. QED
    BY <1>8, <2>1, <2>2, <2>3 DEF Draw
<1>9. pc[u] \in {"take", "connect", "publish"} \cup Recycling \cup Drawing
  BY DEF ClearsUrl
<1>10. QED
  BY <1>3, <1>4, <1>5, <1>6, <1>7, <1>8, <1>9, Paths DEF Own

LEMMA UrlStep ==
  ASSUME Placed, SlotEmpty, UrlCleared, Next, Undisturbed'
  PROVE  UrlCleared'
<1> SUFFICES ASSUME url' \notin alive' \cup {None}
             PROVE  \E u \in Tasks : ClearsUrl(u)'
  BY DEF UrlCleared
<1>1. ASSUME NEW t \in Tasks, TearDown(t) \/ KillChild(t) PROVE ClearsUrl(t)'
  BY <1>1, Ending DEF ClearsUrl, Recycling
<1>2. ASSUME NEW t \in Tasks, SetUrl(t) PROVE ClearsUrl(t)'
  <2>1. pc'[t] = "connect" /\ mine'[t] = url'
    BY <1>2 DEF SetUrl, Goto, Placed, TypeOK
  <2>2. QED
    BY <2>1 DEF ClearsUrl
<1>3. CASE /\ url' = url
           /\ alive \subseteq alive' /\ \A p \in alive' : p \in alive \/ p = spawned + 1
  <2>1. url \notin alive \cup {None}
    BY <1>3
  <2>2. PICK u \in Tasks : ClearsUrl(u)
    BY <2>1 DEF UrlCleared
  <2>3. QED
    BY <1>3, <2>1, <2>2, ClearingUrl
<1>4. QED
  BY <1>1, <1>2, <1>3, Writers, Survivors

-----------------------------------------------------------------------------
\* Once every task has returned, no handle names a Chromium that is gone.
THEOREM HandlesAreLive == Spec => []NoStaleHandle
<1>1. Init => HandlesInv
  <2> SUFFICES ASSUME Init PROVE SlotEmpty /\ ClientCleared /\ UrlCleared
    BY DEF HandlesInv
  <2>1. QED
    BY DEF Init, SlotEmpty, ClientCleared, UrlCleared
<1>2. IInv /\ HandlesInv /\ [Next]_vars => HandlesInv'
  <2> SUFFICES ASSUME IInv, HandlesInv, [Next]_vars, Undisturbed'
               PROVE  (SlotEmpty /\ ClientCleared /\ UrlCleared)'
    BY DEF HandlesInv
  <2>1. CASE UNCHANGED vars
    BY <2>1 DEF vars, slots, os, HandlesInv, Undisturbed, SlotEmpty, ClientCleared, UrlCleared,
       ClearsClient, ClearsUrl
  <2>2. CASE Next
    BY <2>2, Calm, SlotStep, ClientStep, UrlStep DEF IInv, HandlesInv
  <2>3. QED
    BY <2>1, <2>2
<1>3. HandlesInv => NoStaleHandle
  BY DEF HandlesInv, NoStaleHandle, Undisturbed, ClientCleared, UrlCleared, ClearsClient, ClearsUrl,
     Drawing, Recycling
<1>4. QED
  BY <1>1, <1>2, <1>3, Invariance, PTL DEF Spec
=============================================================================
