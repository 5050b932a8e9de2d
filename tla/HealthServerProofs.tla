-------------------------- MODULE HealthServerProofs --------------------------
(***************************************************************************)
(* Theorems of QueueLocks and HealthServer, for every number of threads    *)
(* and of requests and every mix of the code paths: which threads wait for *)
(* each other, and what a report says.  And of the requests to the backend *)
(* that the previews of that server make (ApiClient, Endpoints), for every *)
(* number of operations, every lifetime and every timeout: the token, the  *)
(* wait for it, and which operations fail.                                 *)
(***************************************************************************)
EXTENDS HealthServer, Endpoints, SequenceTheorems, FiniteSetTheorems,
        WellFoundedInduction, TLAPS

(***************************************************************************)
(* The inductive invariant: how far a thread is on its path tells which    *)
(* guards it holds.                                                        *)
(***************************************************************************)

\* What is left of the paths between their ends.
ShareAtMap      == <<Take("state"), Give({"state"}), Give({"map"})>>
ShareAtState    == <<Give({"state"}), Give({"map"})>>
AtMap           == <<Give({"map"})>>
CompleteFirst   == <<Give({"state"}), Take("state"), Give({"state"}),
                     Take("map"), Give({"map"})>>
CompleteBetween == <<Take("state"), Give({"state"}), Take("map"), Give({"map"})>>
CompleteSecond  == <<Give({"state"}), Take("map"), Give({"map"})>>
AtStats         == <<Give({"stats"})>>
SnapshotAtStats == <<Take("state"), Take("map"), Give({"map"}), Give({"state"}),
                     Give({"stats"})>>
SnapshotAtState == <<Take("map"), Give({"map"}), Give({"state"}), Give({"stats"})>>
SnapshotAtMap   == <<Give({"map"}), Give({"state"}), Give({"stats"})>>
SnapshotLeaves  == <<Give({"state"}), Give({"stats"})>>

\* The guards held with each rest of a path.
OnPath(rest, held) ==
    \/ rest \in {<<>>, Share, Admit, Complete, CompleteBetween, Recover, Snapshot} /\ held = {}
    \/ rest \in {ShareAtMap, AtMap} /\ held = {"map"}
    \/ rest = ShareAtState /\ held = {"map", "state"}
    \/ rest \in {CompleteFirst, CompleteSecond} /\ held = {"state"}
    \/ rest \in {AtStats, SnapshotAtStats} /\ held = {"stats"}
    \/ rest \in {SnapshotAtState, SnapshotLeaves} /\ held = {"stats", "state"}
    \/ rest = SnapshotAtMap /\ held = Locks

LocksInv ==
    /\ todo \in [Threads -> Seq([op : {"take", "give"}, locks : SUBSET Locks])]
    /\ owner \in [Locks -> Threads \cup {Nobody}]
    /\ \A t \in Threads : OnPath(todo[t], Held(t))

-----------------------------------------------------------------------------
LEMMA InitLocks == Init => LocksInv
BY LocksAssumption DEF Init, LocksInv, OnPath, Held

LEMMA HeadLocks ==
  ASSUME LocksInv, NEW t \in Threads, todo[t] # <<>>  PROVE Head(todo[t]).locks \subseteq Locks
<1>1. Head(todo[t]) \in [op : {"take", "give"}, locks : SUBSET Locks]
  BY HeadTailProperties DEF LocksInv
<1>2. QED
  BY <1>1

\* Only whoever takes or gives a guard holds others afterwards.
LEMMA TakeMoves ==
  ASSUME LocksInv, NEW t \in Threads, Lock(t)
  PROVE /\ Held(t)' = Held(t) \cup Head(todo[t]).locks
        /\ \A u \in Threads \ {t} : Held(u)' = Held(u)
<1> DEFINE H == Head(todo[t]).locks
<1>1. owner' = [l \in Locks |-> IF l \in H THEN t ELSE owner[l]]
  BY DEF Lock, Advance
<1>2. H \subseteq Locks /\ \A l \in H : owner[l] = Nobody
  <2>1. H \subseteq Locks
    BY HeadLocks DEF Lock, Doing
  <2>2. QED
    BY <2>1 DEF Lock
<1> HIDE DEF H
<1>3. QED
  BY <1>1, <1>2, LocksAssumption DEF Held, H

LEMMA GiveMoves ==
  ASSUME LocksInv, NEW t \in Threads, Unlock(t), Head(todo[t]).locks \subseteq Held(t)
  PROVE /\ Held(t)' = Held(t) \ Head(todo[t]).locks
        /\ \A u \in Threads \ {t} : Held(u)' = Held(u)
  BY LocksAssumption DEF LocksInv, Unlock, Advance, Held, Doing

\* Each step of a thread leads along its path.
LEMMA PathStep ==
  ASSUME NEW rest, NEW held, OnPath(rest, held), rest # <<>>
  PROVE /\ Head(rest).op \in {"take", "give"}
        /\ Head(rest).op = "take" => OnPath(Tail(rest), held \cup Head(rest).locks)
        /\ Head(rest).op = "give" => /\ Head(rest).locks \subseteq held
                                     /\ OnPath(Tail(rest), held \ Head(rest).locks)
<1> USE DEF Take, Give, OnPath
<1>1. CASE rest = Share /\ held = {}
  BY <1>1 DEF Share, ShareAtMap
<1>2. CASE rest = ShareAtMap /\ held = {"map"}
  <2>1. Head(rest) = Take("state") /\ Tail(rest) = ShareAtState
    BY <1>2 DEF ShareAtMap, ShareAtState
  <2>2. held \cup Take("state").locks = {"map", "state"}
    BY <1>2
  <2>3. OnPath(ShareAtState, {"map", "state"})
    OBVIOUS
  <2>4. Head(rest).op = "take" /\ held \cup Head(rest).locks = {"map", "state"}
    BY <2>1, <2>2
  <2> HIDE DEF OnPath
  <2>5. QED
    BY <2>1, <2>3, <2>4
<1>3. CASE rest = ShareAtState /\ held = {"map", "state"}
  BY <1>3 DEF ShareAtState, AtMap
<1>4. CASE rest = Admit /\ held = {}
  BY <1>4 DEF Admit, AtMap
<1>5. CASE rest = AtMap /\ held = {"map"}
  BY <1>5 DEF AtMap
<1>6. CASE rest = Complete /\ held = {}
  BY <1>6 DEF Complete, CompleteFirst
<1>7. CASE rest = CompleteFirst /\ held = {"state"}
  BY <1>7 DEF CompleteFirst, CompleteBetween
<1>8. CASE rest = CompleteBetween /\ held = {}
  BY <1>8 DEF CompleteBetween, CompleteSecond
<1>9. CASE rest = CompleteSecond /\ held = {"state"}
  BY <1>9 DEF CompleteSecond, Admit
<1>10. CASE rest = Recover /\ held = {}
  BY <1>10 DEF Recover, AtStats
<1>11. CASE rest = AtStats /\ held = {"stats"}
  BY <1>11 DEF AtStats
<1>12. CASE rest = Snapshot /\ held = {}
  BY <1>12 DEF Snapshot, SnapshotAtStats
<1>13. CASE rest = SnapshotAtStats /\ held = {"stats"}
  BY <1>13 DEF SnapshotAtStats, SnapshotAtState
<1>14. CASE rest = SnapshotAtState /\ held = {"stats", "state"}
  <2>1. Head(rest) = Take("map") /\ Tail(rest) = SnapshotAtMap
    <3> HIDE DEF Take, Give, OnPath
    <3>1. QED
      BY <1>14 DEF SnapshotAtState, SnapshotAtMap
  <2>2. held \cup Take("map").locks = Locks
    BY <1>14 DEF Locks
  <2>3. OnPath(SnapshotAtMap, Locks)
    OBVIOUS
  <2>4. Head(rest).op = "take" /\ held \cup Head(rest).locks = Locks
    BY <2>1, <2>2
  <2> HIDE DEF OnPath
  <2>5. QED
    BY <2>1, <2>3, <2>4
<1>15. CASE rest = SnapshotAtMap /\ held = Locks
  BY <1>15 DEF SnapshotAtMap, SnapshotLeaves, Locks
<1>16. CASE rest = SnapshotLeaves /\ held = {"stats", "state"}
  BY <1>16 DEF SnapshotLeaves, AtStats
<1>q. QED
  BY <1>1, <1>2, <1>3, <1>4, <1>5, <1>6, <1>7, <1>8, <1>9, <1>10, <1>11, <1>12, <1>13, <1>14, <1>15, <1>16

LEMMA LocksStep == ASSUME LocksInv, NEW t \in Threads, Lock(t) \/ Unlock(t)  PROVE LocksInv'
<1> DEFINE S == [op : {"take", "give"}, locks : SUBSET Locks]
           H == Head(todo[t]).locks
<1>1. /\ todo[t] \in Seq(S) /\ todo[t] # <<>> /\ OnPath(todo[t], Held(t))
      /\ todo' = [todo EXCEPT ![t] = Tail(@)]
  BY DEF LocksInv, Lock, Unlock, Doing, Advance
<1>2. Tail(todo[t]) \in Seq(S)
  BY <1>1, HeadTailProperties
<1>3. owner' \in [Locks -> Threads \cup {Nobody}]
  BY DEF LocksInv, Lock, Unlock, Advance
<1>4. CASE Lock(t)
  <2>1. OnPath(Tail(todo[t]), Held(t) \cup H)
    BY <1>1, <1>4, PathStep DEF Lock, Doing
  <2>2. QED
    BY <1>1, <1>2, <1>3, <1>4, <2>1, TakeMoves DEF LocksInv
<1>5. CASE Unlock(t)
  <2>1. H \subseteq Held(t) /\ OnPath(Tail(todo[t]), Held(t) \ H)
    BY <1>1, <1>5, PathStep DEF Unlock, Doing
  <2>2. QED
    BY <1>1, <1>2, <1>3, <1>5, <2>1, GiveMoves DEF LocksInv
<1>6. QED
  BY <1>4, <1>5

\* A thread starts on a path with free hands.
LEMMA RunStep == ASSUME LocksInv, NEW t \in Threads, NEW j \in Paths, Run(t, j)  PROVE LocksInv'
<1>1. Held(t) = {}
  <2>1. OnPath(<<>>, Held(t))
    BY DEF LocksInv, Run
  <2>2. QED
    BY <2>1 DEF OnPath, ShareAtMap, AtMap, ShareAtState, CompleteFirst, CompleteSecond, AtStats,
       SnapshotAtStats, SnapshotAtState, SnapshotLeaves, SnapshotAtMap
<1>2. Path(j) \in {Share, Admit, Complete, Recover, Snapshot}
  BY DEF Paths, Path
<1>3. Path(j) \in Seq([op : {"take", "give"}, locks : SUBSET Locks])
  <2> DEFINE T == [op : {"take", "give"}, locks : SUBSET Locks]
  <2>1. \A l \in Locks : Take(l) \in T /\ Give({l}) \in T
    BY DEF Take, Give
  <2>2. {"stats", "state", "map"} \subseteq Locks
    BY DEF Locks
  <2> HIDE DEF T
  <2>3. Share \in Seq(T) /\ Admit \in Seq(T) /\ Recover \in Seq(T)
    BY <2>1, <2>2 DEF Share, Admit, Recover
  <2>4. Complete \in Seq(T)
    BY <2>1, <2>2 DEF Complete
  <2>5. Snapshot \in Seq(T)
    BY <2>1, <2>2 DEF Snapshot
  <2>6. QED
    BY <1>2, <2>3, <2>4, <2>5 DEF T
<1>4. /\ todo' = [todo EXCEPT ![t] = Path(j)]
      /\ \A u \in Threads : Held(u)' = Held(u)
      /\ owner' = owner
  BY DEF Run, Held
<1>5. OnPath(Path(j), {})
  BY <1>2 DEF OnPath
<1>6. QED
  BY <1>1, <1>3, <1>4, <1>5 DEF LocksInv

-----------------------------------------------------------------------------
\* A thread that holds guards and wants another one is at one of three places.
LEMMA Blocking ==
  ASSUME LocksInv, NEW t \in Threads, Doing(t, "take"), Held(t) # {}
  PROVE \/ todo[t] = ShareAtMap /\ Held(t) = {"map"} /\ Head(todo[t]).locks = {"state"}
        \/ Held(t) = {"stats"} /\ Head(todo[t]).locks = {"state"}
        \/ Held(t) = {"stats", "state"} /\ Head(todo[t]).locks = {"map"}
<1>1. OnPath(todo[t], Held(t)) /\ Head(todo[t]).op = "take"
  BY DEF LocksInv, Doing
<1>2. \A x \in {AtMap, ShareAtState, CompleteFirst, CompleteSecond, AtStats, SnapshotLeaves,
                SnapshotAtMap} : Head(x).op # "take"
  BY DEF AtMap, ShareAtState, CompleteFirst, CompleteSecond, AtStats, SnapshotLeaves,
     SnapshotAtMap, Give
<1>3. /\ Head(ShareAtMap).locks = {"state"} /\ Head(SnapshotAtStats).locks = {"state"}
      /\ Head(SnapshotAtState).locks = {"map"}
  BY DEF ShareAtMap, SnapshotAtStats, SnapshotAtState, Take
<1>4. QED
  BY <1>1, <1>2, <1>3 DEF OnPath

\* In a circle everybody blocks somebody: a snapshot that holds "stats" and
\* "state" waits for a call that holds "map", or the other way round.
LEMMA CirclesAreSnapshots == LocksInv => OnlySnapshotsBlock
<1> SUFFICES ASSUME LocksInv, NEW S \in SUBSET Threads, Circle(S)
             PROVE \E t, u \in S : /\ Held(t) = {"stats", "state"} /\ Held(u) = {"map"}
                                   /\ todo[u] = Tail(Share)
  BY DEF OnlySnapshotsBlock
<1> DEFINE Wanted(t) == Head(todo[t]).locks
<1>1. \A t \in S : Doing(t, "take") /\ \E u \in S : Held(u) \cap Wanted(t) # {}
  <2> SUFFICES ASSUME NEW t \in S
               PROVE Doing(t, "take") /\ \E u \in S : Held(u) \cap Wanted(t) # {}
    OBVIOUS
  <2>1. PICK u \in S : WaitsFor(t, u)
    BY DEF Circle
  <2>2. Wanted(t) \subseteq Locks
    BY <2>1, HeadLocks DEF WaitsFor, Doing
  <2>3. QED
    BY <2>1, <2>2 DEF WaitsFor, Held
<1>2. \A t \in S : Held(t) # {} =>
          \/ todo[t] = ShareAtMap /\ Held(t) = {"map"} /\ Wanted(t) = {"state"}
          \/ Held(t) = {"stats"} /\ Wanted(t) = {"state"}
          \/ Held(t) = {"stats", "state"} /\ Wanted(t) = {"map"}
  BY <1>1, Blocking
<1>3. \A t, u \in S : Held(t) \cap Held(u) # {} => t = u
  BY DEF Held
<1>4. Tail(Share) = ShareAtMap
  BY DEF Share, ShareAtMap
<1> HIDE DEF Wanted
<1>5. PICK t \in S : Held(t) # {}
  BY <1>1 DEF Circle
<1>6. PICK u \in S : Held(u) \cap Wanted(t) # {}
  BY <1>1
<1>8. CASE Held(t) = {"map"}
  <2>1. todo[t] = ShareAtMap /\ Wanted(t) = {"state"}
    BY <1>2, <1>8
  <2>2. "state" \in Held(u)
    BY <1>6, <2>1
  <2>3. Held(u) = {"stats", "state"}
    BY <1>2, <2>2
  <2>4. QED
    BY <1>4, <1>8, <2>1, <2>3
<1>9. CASE Held(t) = {"stats"}
  <2>1. "state" \in Held(u)
    BY <1>2, <1>6, <1>9
  <2>2. Held(u) = {"stats", "state"}
    BY <1>2, <2>1
  <2>3. t = u
    BY <1>3, <1>9, <2>2
  <2>4. QED
    BY <1>9, <2>2, <2>3
<1>10. CASE Held(t) = {"stats", "state"}
  <2>1. "map" \in Held(u)
    BY <1>2, <1>6, <1>10
  <2>2. Held(u) = {"map"} /\ todo[u] = ShareAtMap
    BY <1>2, <2>1
  <2>3. QED
    BY <1>4, <1>10, <2>2
<1>11. QED
  BY <1>2, <1>5, <1>8, <1>9, <1>10

-----------------------------------------------------------------------------
\* The mutexes' inductive invariant, for the threads by themselves and for
\* those that the HTTP server's handlers use.
THEOREM LocksInvariance == Spec => []LocksInv
<1>1. LocksInv /\ [Next]_vars => LocksInv'
  <2> SUFFICES ASSUME LocksInv, [Next]_vars PROVE LocksInv'
    OBVIOUS
  <2>1. ASSUME NEW t \in Threads, Begin(t) PROVE LocksInv'
    BY <2>1, RunStep, LocksAssumption DEF Begin
  <2>2. CASE UNCHANGED vars
    BY <2>2 DEF vars, LocksInv, Held
  <2>3. QED
    BY <2>1, <2>2, LocksStep DEF Next
<1>2. QED
  BY InitLocks, <1>1, PTL DEF Spec

THEOREM ServerLocksInvariance == ServerSpec => []LocksInv
<1>1. ServerInit => LocksInv
  BY InitLocks DEF ServerInit
<1>2. LocksInv /\ [ServerNext]_<<vars, serverVars>> => LocksInv'
  <2> SUFFICES ASSUME LocksInv, [ServerNext]_<<vars, serverVars>> PROVE LocksInv'
    OBVIOUS
  <2>1. CASE UNCHANGED vars
    BY <2>1 DEF vars, LocksInv, Held
  <2>2. ASSUME NEW r \in Requests, Handler(r) PROVE LocksInv'
    <3>1. CASE UNCHANGED vars
      BY <2>1, <3>1
    <3>2. CASE Health(r)
      BY <3>1, <3>2, RunStep DEF Health, Paths
    <3>3. QED
      BY <2>2, <3>1, <3>2 DEF Handler, ReadMetrics, Load, Report, Root, MatchImage, ImageReady,
         Preview, PreviewReady, HangUp, Count, Reply, Record
  <2>3. ASSUME NEW t \in Threads, Work(t) PROVE LocksInv'
    BY <2>3, RunStep, LocksStep, LocksAssumption DEF Work, Begin
  <2>4. QED
    BY <2>1, <2>2, <2>3 DEF ServerNext, vars
<1>3. QED
  BY <1>1, <1>2, PTL DEF ServerSpec

\* Who holds guards has what gives them up still before it.
LEMMA HeldIsOwed ==
  ASSUME NEW rest, NEW held, OnPath(rest, held)
  PROVE  \A l \in held : \E i \in DOMAIN rest : l \in rest[i].locks
<1>1. /\ 3 \in DOMAIN ShareAtMap /\ ShareAtMap[3].locks = {"map"}
      /\ 1 \in DOMAIN AtMap /\ AtMap[1].locks = {"map"}
  BY DEF ShareAtMap, AtMap, Take, Give
<1>2. /\ 1 \in DOMAIN ShareAtState /\ ShareAtState[1].locks = {"state"}
      /\ 2 \in DOMAIN ShareAtState /\ ShareAtState[2].locks = {"map"}
  BY DEF ShareAtState, Give
<1>3. /\ 1 \in DOMAIN CompleteFirst /\ CompleteFirst[1].locks = {"state"}
      /\ 1 \in DOMAIN CompleteSecond /\ CompleteSecond[1].locks = {"state"}
  BY DEF CompleteFirst, CompleteSecond, Take, Give
<1>4. /\ 1 \in DOMAIN AtStats /\ AtStats[1].locks = {"stats"}
      /\ 5 \in DOMAIN SnapshotAtStats /\ SnapshotAtStats[5].locks = {"stats"}
  BY DEF AtStats, SnapshotAtStats, Take, Give
<1>5. /\ 3 \in DOMAIN SnapshotAtState /\ SnapshotAtState[3].locks = {"state"}
      /\ 4 \in DOMAIN SnapshotAtState /\ SnapshotAtState[4].locks = {"stats"}
      /\ 1 \in DOMAIN SnapshotLeaves /\ SnapshotLeaves[1].locks = {"state"}
      /\ 2 \in DOMAIN SnapshotLeaves /\ SnapshotLeaves[2].locks = {"stats"}
  BY DEF SnapshotAtState, SnapshotLeaves, Take, Give
<1>6. /\ 1 \in DOMAIN SnapshotAtMap /\ SnapshotAtMap[1].locks = {"map"}
      /\ 2 \in DOMAIN SnapshotAtMap /\ SnapshotAtMap[2].locks = {"state"}
      /\ 3 \in DOMAIN SnapshotAtMap /\ SnapshotAtMap[3].locks = {"stats"}
  BY DEF SnapshotAtMap, Give
<1>7. QED
  BY <1>1, <1>2, <1>3, <1>4, <1>5, <1>6 DEF OnPath, Locks

\* Every variable keeps its type, and who holds a guard is on the way to give it up.
THEOREM LocksTypeCorrect == Spec => []TypeOK
<1>1. LocksInv => TypeOK
  BY HeldIsOwed DEF LocksInv, TypeOK
<1>2. QED
  BY <1>1, LocksInvariance, PTL

\* However many worker threads there are and whatever they do, those that
\* wait for one another's mutex in a circle include a health snapshot that
\* holds the counters and a deduplicated call that holds the map.
THEOREM OnlyThatCircle == Spec => []OnlySnapshotsBlock
BY LocksInvariance, CirclesAreSnapshots, PTL

THEOREM OnlyThatCircleInTheServer == ServerSpec => []OnlySnapshotsBlock
BY ServerLocksInvariance, CirclesAreSnapshots, PTL

-----------------------------------------------------------------------------
(* The counters of the server, and what a health report reads of them.     *)

Stages == {"none", "snapshot", "reading", "image", "preview", "recording", "replied"}

MetricsTyped ==
    /\ at \in [Requests -> Stages] /\ metric \in [Metrics -> Nat]
    /\ left \in [Requests -> SUBSET Metrics] /\ latency \in [Requests -> Nat \cup {Unmeasured}]
    /\ seen \in [Requests -> [Metrics -> Nat]] /\ before \in [Requests -> SUBSET Requests]

\* The handlers that record, and those of them that have counted in m.
Begun      == {r \in Requests : latency[r] # Unmeasured}
Counted(m) == {r \in Begun : m \notin left[r]}

Placed ==
    \A r \in Requests :
        /\ latency[r] # Unmeasured => at[r] \in {"recording", "replied"}
        /\ at[r] = "recording" => latency[r] # Unmeasured
        /\ left[r] # {} => at[r] \in {"recording", "reading"}
        /\ before[r] \subseteq Recorded

\* A latency of one in C, which nobody in D began after it was recorded.
IsLast(v, D, C) ==
    \/ D = {} /\ v = 0
    \/ \E r \in C : v = latency[r] /\ \A s \in D : r \notin before[s]

\* Each counter is that of the handlers which have come to it.
CountsExact ==
    /\ metric["commands_processed"] = Cardinality(Counted("commands_processed"))
    /\ metric["total_latency_ms"] = Total(Counted("total_latency_ms"))
    /\ IsLast(metric["last_latency_ms"], Counted("last_latency_ms"), Counted("last_latency_ms"))

\* What v says of m is true of those in D and some others that record.
Between(m, v, D) ==
    \E S \in SUBSET Begun :
        /\ D \subseteq S
        /\ m = "commands_processed" => v = Cardinality(S)
        /\ m = "total_latency_ms" => v = Total(S)
        /\ m = "last_latency_ms" => IsLast(v, D, S)

ReadsExact ==
    \A h \in Requests : at[h] = "reading" =>
        \A m \in Metrics \ left[h] : Between(m, seen[h][m], before[h])

MetricsInv == MetricsTyped /\ Placed /\ CountsExact /\ ReadsExact

\* One more handler adds its latency to the sum.
LEMMA TotalAdds ==
  ASSUME MetricsTyped, NEW S \in SUBSET Begun, NEW r \in Begun \ S
  PROVE  Total(S) \in Nat /\ Total(S \cup {r}) = Total(S) + latency[r]
<1> DEFINE Own(q) == {q} \X (1 .. latency[q])
           A      == UNION {Own(q) : q \in S}
<1>1. \A q \in Begun : IsFiniteSet(Own(q)) /\ Cardinality(Own(q)) = latency[q]
  <2> SUFFICES ASSUME NEW q \in Begun
               PROVE  IsFiniteSet(Own(q)) /\ Cardinality(Own(q)) = latency[q]
    OBVIOUS
  <2>1. latency[q] \in Nat
    BY DEF MetricsTyped, Begun
  <2>2. IsFiniteSet(1 .. latency[q]) /\ Cardinality(1 .. latency[q]) = latency[q]
    BY <2>1, FS_Interval, SMTT(30)
  <2>3. IsFiniteSet({q}) /\ Cardinality({q}) = 1
    BY FS_Singleton
  <2>4. IsFiniteSet(Own(q)) /\ Cardinality(Own(q)) = 1 * latency[q]
    BY <2>2, <2>3, FS_Product
  <2>5. QED
    BY <2>1, <2>4
<1>2. IsFiniteSet(A)
  <2> DEFINE T == {Own(q) : q \in S}
             f == [q \in S |-> Own(q)]
  <2> HIDE DEF Own
  <2>1. f \in Surjection(S, T)
    BY DEF Surjection
  <2>2. IsFiniteSet(S)
    BY HealthAssumption, FS_Subset DEF HealthAssumption, Begun
  <2>3. IsFiniteSet(T)
    BY <2>1, <2>2, FS_Surjection
  <2>4. \A t \in T : IsFiniteSet(t)
    BY <1>1
  <2>5. QED
    BY <2>3, <2>4, FS_UNION
<1>3. UNION {Own(q) : q \in S \cup {r}} = A \cup Own(r)
  OBVIOUS
<1>4. A \cap Own(r) = {}
  <2> SUFFICES ASSUME NEW q \in S, NEW x \in Own(q), x \in Own(r) PROVE FALSE
    OBVIOUS
  <2>1. x[1] = q /\ x[1] = r
    OBVIOUS
  <2>2. QED
    BY <2>1
<1>5. Total(S) = Cardinality(A) /\ Total(S \cup {r}) = Cardinality(A \cup Own(r))
  BY <1>3 DEF Total
<1> HIDE DEF Own, A
<1>6. Cardinality(A \cup Own(r)) = Cardinality(A) + Cardinality(Own(r)) - Cardinality(A \cap Own(r))
  BY <1>1, <1>2, FS_Union
<1>7. Cardinality(A \cap Own(r)) = 0 /\ Cardinality(A) \in Nat /\ latency[r] \in Nat
  BY <1>2, <1>4, FS_EmptySet, FS_CardinalityType DEF MetricsTyped, Begun
<1>8. QED
  BY <1>1, <1>5, <1>6, <1>7

LEMMA SameTotal ==
  ASSUME NEW S, \A r \in S : latency'[r] = latency[r]
  PROVE  Total(S)' = Total(S)
<1>1. {{r} \X (1 .. latency'[r]) : r \in S} = {{r} \X (1 .. latency[r]) : r \in S}
  OBVIOUS
<1>2. QED
  BY <1>1 DEF Total

\* What was read stays true while others record.
LEMMA BetweenKept ==
  ASSUME NEW m, NEW v, NEW D \in SUBSET Begun, Between(m, v, D), Begun \subseteq Begun',
         \A q \in Begun : latency'[q] = latency[q] /\ before'[q] = before[q]
  PROVE  Between(m, v, D)'
<1>1. PICK S \in SUBSET Begun :
        /\ D \subseteq S
        /\ m = "commands_processed" => v = Cardinality(S)
        /\ m = "total_latency_ms" => v = Total(S)
        /\ m = "last_latency_ms" => IsLast(v, D, S)
  BY DEF Between
<1>2. Total(S)' = Total(S)
  BY SameTotal
<1>3. IsLast(v, D, S) => IsLast(v, D, S)'
  BY DEF IsLast
<1>4. S \in SUBSET Begun'
  OBVIOUS
<1>5. QED
  BY <1>1, <1>2, <1>3, <1>4 DEF Between

LEMMA ReadsKept ==
  ASSUME MetricsInv, NEW r \in Requests, Begun \subseteq Begun',
         \A q \in Begun : latency'[q] = latency[q] /\ before'[q] = before[q],
         \A h \in Requests \ {r} : at'[h] = at[h] /\ left'[h] = left[h] /\ seen'[h] = seen[h] /\ before'[h] = before[h],
         at'[r] = "reading" => \A m \in Metrics \ left'[r] : Between(m, seen[r][m], before[r])'
  PROVE  ReadsExact'
<1> SUFFICES ASSUME NEW h \in Requests, at'[h] = "reading", NEW m \in Metrics \ left'[h]
             PROVE  Between(m, seen[h][m], before[h])'
  BY DEF ReadsExact
<1>1. CASE h = r
  BY <1>1
<1>2. CASE h # r
  <2>1. PICK v, D : v = seen[h][m] /\ D = before[h]
    OBVIOUS
  <2>2. Between(m, v, D) /\ D \in SUBSET Begun
    BY <1>2, <2>1 DEF MetricsInv, ReadsExact, MetricsTyped, Placed, Recorded, Begun
  <2>3. Between(m, v, D)'
    BY <2>2, BetweenKept
  <2>4. v = seen'[h][m] /\ D = before'[h]
    BY <1>2, <2>1
  <2>5. QED
    BY <2>3, <2>4 DEF Between, IsLast
<1>3. QED
  BY <1>1, <1>2

\* The handlers that have recorded in m stay, and so does what they recorded.
LEMMA CountsKept ==
  ASSUME MetricsInv, NEW m \in Metrics, Counted(m)' = Counted(m), metric'[m] = metric[m],
         \A q \in Begun : latency'[q] = latency[q] /\ before'[q] = before[q]
  PROVE  /\ m = "commands_processed" => metric'[m] = Cardinality(Counted(m)')
         /\ m = "total_latency_ms" => metric'[m] = Total(Counted(m))'
         /\ m = "last_latency_ms" => IsLast(metric[m], Counted(m), Counted(m))'
<1>1. PICK S : S = Counted(m)
  OBVIOUS
<1>2. S \subseteq Begun /\ Counted(m)' = S
  BY <1>1 DEF Counted
<1>3. Total(S)' = Total(S) /\ Total(Counted(m))' = Total(S)'
  BY <1>2, SameTotal DEF Total
<1>4. IsLast(metric[m], Counted(m), Counted(m)) => IsLast(metric[m], Counted(m), Counted(m))'
  BY <1>1, <1>2 DEF IsLast
<1>5. QED
  BY <1>1, <1>2, <1>3, <1>4 DEF MetricsInv, CountsExact

\* A handler goes elsewhere, and touches no counter.
LEMMA MoveKeepsMetrics ==
  ASSUME MetricsInv, NEW r \in Requests, at[r] \in {"none", "image", "preview"},
         NEW l \in Stages \ {"reading", "recording"}, at' = [at EXCEPT ![r] = l],
         UNCHANGED <<metric, left, latency, seen, before>>
  PROVE  MetricsInv'
<1>1. MetricsTyped'
  BY DEF MetricsInv, MetricsTyped
<1>2. Placed'
  BY DEF MetricsInv, MetricsTyped, Placed, Recorded
<1>3. CountsExact'
  BY DEF MetricsInv, CountsExact, Counted, Begun, Total, IsLast
<1>4. ReadsExact'
  <2>1. Begun' = Begun /\ at'[r] # "reading"
    BY DEF Begun, MetricsInv, MetricsTyped
  <2>2. \A h \in Requests \ {r} : at'[h] = at[h]
    BY DEF MetricsInv, MetricsTyped
  <2>3. QED
    BY <2>1, <2>2, ReadsKept
<1>5. QED
  BY <1>1, <1>2, <1>3, <1>4 DEF MetricsInv

\* A handler turns to the counters, with something to record or to read them.
LEMMA TouchKeepsMetrics ==
  ASSUME MetricsInv, NEW r \in Requests, latency[r] = Unmeasured, Touch(r), UNCHANGED <<metric, seen>>,
         \/ at' = [at EXCEPT ![r] = "reading"] /\ latency' = latency
         \/ /\ at' = [at EXCEPT ![r] = "recording"]
            /\ \E l \in Latencies : latency' = [latency EXCEPT ![r] = l]
  PROVE  MetricsInv'
<1>1. /\ left' = [left EXCEPT ![r] = Metrics] /\ before' = [before EXCEPT ![r] = Recorded]
      /\ MetricsTyped
  BY DEF Touch, MetricsInv
<1>2. Recorded \subseteq Requests /\ r \notin Begun /\ Begun \subseteq Begun'
  BY <1>1, HealthAssumption DEF Recorded, Begun, MetricsTyped, HealthAssumption
<1>3. MetricsTyped'
  BY <1>1, <1>2, HealthAssumption DEF MetricsTyped, Stages, HealthAssumption
<1>4. \A q \in Begun : latency'[q] = latency[q] /\ before'[q] = before[q]
  BY <1>1, <1>2 DEF Begun, MetricsTyped
<1>5. Recorded' = Recorded
  BY <1>1 DEF Recorded, MetricsTyped, Metrics
<1>6. Placed'
  <2>1. \A l \in Latencies : l # Unmeasured
    BY HealthAssumption DEF HealthAssumption, Unmeasured
  <2>2. QED
    BY <1>1, <1>5, <2>1 DEF MetricsInv, MetricsTyped, Placed
<1>7. \A m \in Metrics : Counted(m)' = Counted(m)
  BY <1>1, <1>2, <1>4 DEF Counted, Begun, MetricsTyped
<1>8. CountsExact'
  BY <1>4, <1>7, CountsKept DEF CountsExact, Metrics
<1>9. ReadsExact'
  <2>1. Metrics \ left'[r] = {}
    BY <1>1 DEF MetricsTyped
  <2>2. \A h \in Requests \ {r} : at'[h] = at[h] /\ left'[h] = left[h] /\ seen'[h] = seen[h] /\ before'[h] = before[h]
    BY <1>1 DEF MetricsTyped
  <2>3. QED
    BY <1>2, <1>4, <2>1, <2>2, ReadsKept
<1>10. QED
  BY <1>3, <1>6, <1>8, <1>9 DEF MetricsInv

\* What a report reads is that of those which have come to the counter.
LEMMA LoadKeepsMetrics == ASSUME MetricsInv, NEW r \in Requests, Load(r) PROVE MetricsInv'
<1>1. PICK m \in left[r] : /\ seen' = [seen EXCEPT ![r][m] = metric[m]]
                           /\ left' = [left EXCEPT ![r] = @ \ {m}]
  BY DEF Load
<1>2. /\ at[r] = "reading" /\ UNCHANGED <<at, metric, latency, before>>
      /\ MetricsTyped /\ m \in Metrics /\ latency[r] = Unmeasured
  BY DEF Load, MetricsInv, MetricsTyped, Placed
<1>3. MetricsTyped'
  BY <1>1, <1>2 DEF MetricsTyped
<1>4. Begun' = Begun /\ r \notin Begun
  BY <1>2 DEF Begun
<1>5. Placed'
  BY <1>1, <1>2 DEF MetricsInv, MetricsTyped, Placed, Recorded
<1>6. \A n \in Metrics : Counted(n)' = Counted(n)
  BY <1>1, <1>2, <1>4 DEF Counted, Begun, MetricsTyped
<1>7. CountsExact'
  BY <1>2, <1>6, CountsKept DEF CountsExact, Metrics
<1>8. Between(m, metric[m], before[r])
  <2>1. before[r] \subseteq Counted(m) /\ Counted(m) \in SUBSET Begun
    BY <1>2 DEF MetricsInv, Placed, Recorded, Counted, Begun
  <2>2. m = "commands_processed" => metric[m] = Cardinality(Counted(m))
    BY DEF MetricsInv, CountsExact
  <2>3. m = "total_latency_ms" => metric[m] = Total(Counted(m))
    BY DEF MetricsInv, CountsExact
  <2>4. m = "last_latency_ms" => IsLast(metric[m], before[r], Counted(m))
    BY <2>1 DEF MetricsInv, CountsExact, IsLast
  <2>5. QED
    BY <2>1, <2>2, <2>3, <2>4 DEF Between
<1>9. ReadsExact'
  <2>1. ASSUME NEW n \in Metrics \ left'[r] PROVE Between(n, seen[r][n], before[r])'
    <3>1. Between(n, seen'[r][n], before[r])
      <4>1. CASE n = m
        BY <1>1, <1>2, <1>8, <4>1 DEF MetricsTyped
      <4>2. CASE n # m
        <5>1. seen'[r][n] = seen[r][n] /\ n \in Metrics \ left[r]
          BY <1>1, <1>2, <4>2 DEF MetricsTyped
        <5>2. QED
          BY <1>2, <5>1 DEF MetricsInv, ReadsExact
      <4>3. QED
        BY <4>1, <4>2
    <3>2. PICK v, D : v = seen'[r][n] /\ D = before[r]
      OBVIOUS
    <3>3. D \in SUBSET Begun
      BY <1>2, <3>2 DEF MetricsInv, MetricsTyped, Placed, Recorded, Begun
    <3>4. Between(n, v, D)'
      BY <1>2, <1>4, <3>1, <3>2, <3>3, BetweenKept
    <3>5. QED
      BY <1>2, <3>2, <3>4
  <2>2. \A h \in Requests \ {r} : at'[h] = at[h] /\ left'[h] = left[h] /\ seen'[h] = seen[h] /\ before'[h] = before[h]
    BY <1>1, <1>2 DEF MetricsTyped
  <2>3. QED
    BY <1>2, <1>4, <2>1, <2>2, ReadsKept
<1>10. QED
  BY <1>3, <1>5, <1>7, <1>9 DEF MetricsInv

LEMMA ReportKeepsMetrics == ASSUME MetricsInv, NEW r \in Requests, Report(r) PROVE MetricsInv'
<1>1. /\ at[r] = "reading" /\ at' = [at EXCEPT ![r] = "replied"]
      /\ seen' = [seen EXCEPT ![r] = Zero] /\ before' = [before EXCEPT ![r] = {}]
      /\ UNCHANGED <<metric, left, latency>> /\ left[r] = {} /\ MetricsTyped /\ latency[r] = Unmeasured
  BY DEF Report, Goto, MetricsInv, MetricsTyped, Placed
<1>2. MetricsTyped'
  BY <1>1 DEF MetricsTyped, Stages, Zero
<1>3. Begun' = Begun /\ Recorded' = Recorded /\ r \notin Begun
  BY <1>1 DEF Begun, Recorded
<1>4. Placed'
  BY <1>1, <1>3 DEF MetricsInv, MetricsTyped, Placed
<1>5. \A q \in Begun : latency'[q] = latency[q] /\ before'[q] = before[q]
  BY <1>1, <1>3 DEF MetricsTyped, Begun
<1>6. \A n \in Metrics : Counted(n)' = Counted(n)
  BY <1>1, <1>3 DEF Counted
<1>7. CountsExact'
  BY <1>1, <1>5, <1>6, CountsKept DEF CountsExact, Metrics
<1>8. ReadsExact'
  <2>1. at'[r] # "reading"
    BY <1>1 DEF MetricsTyped
  <2>2. \A h \in Requests \ {r} : at'[h] = at[h] /\ left'[h] = left[h] /\ seen'[h] = seen[h] /\ before'[h] = before[h]
    BY <1>1 DEF MetricsTyped
  <2>3. QED
    BY <1>3, <1>5, <2>1, <2>2, ReadsKept
<1>9. QED
  BY <1>2, <1>4, <1>7, <1>8 DEF MetricsInv

\* A handler adds itself to a counter.
LEMMA CountKeepsMetrics == ASSUME MetricsInv, NEW r \in Requests, Count(r) PROVE MetricsInv'
<1>1. PICK m \in left[r] :
        /\ metric' = [metric EXCEPT ![m] = Applied(m, latency[r])]
        /\ left' = [left EXCEPT ![r] = @ \ {m}]
        /\ at' = IF left[r] = {m} THEN [at EXCEPT ![r] = "replied"] ELSE at
  BY DEF Count
<1>2. /\ at[r] = "recording" /\ UNCHANGED <<latency, seen, before>>
      /\ MetricsTyped /\ m \in Metrics /\ r \in Begun
  BY DEF Count, MetricsInv, MetricsTyped, Placed, Begun
<1> DEFINE C == Counted(m)
<1>3. C \in SUBSET Begun /\ r \notin C /\ Counted(m)' = C \cup {r} /\ Begun' = Begun
  BY <1>1, <1>2 DEF Counted, Begun, MetricsTyped
<1>4. metric'[m] = Applied(m, latency[r]) /\ Applied(m, latency[r]) \in Nat
  <2>1. latency[r] \in Nat
    BY <1>2 DEF MetricsTyped, Begun
  <2>2. QED
    BY <1>1, <1>2, <2>1 DEF MetricsTyped, Applied, Added, Metrics
<1>5. MetricsTyped'
  BY <1>1, <1>2, <1>4 DEF MetricsTyped, Stages
<1>6. Recorded \subseteq Recorded'
  BY <1>1, <1>2 DEF Recorded, MetricsTyped
<1>7. Placed'
  BY <1>1, <1>2, <1>6 DEF MetricsInv, MetricsTyped, Placed
<1>8. \A n \in Metrics \ {m} : Counted(n)' = Counted(n) /\ metric'[n] = metric[n]
  BY <1>1, <1>2, <1>3 DEF Counted, Begun, MetricsTyped
<1>9. m = "commands_processed" => metric'[m] = Cardinality(Counted(m)')
  <2>1. IsFiniteSet(C)
    BY <1>3, HealthAssumption, FS_Subset DEF HealthAssumption, Begun
  <2>2. Cardinality(C \cup {r}) = Cardinality(C) + 1
    BY <1>3, <2>1, FS_AddElement
  <2>3. QED
    BY <1>3, <1>4, <2>2 DEF Applied, MetricsInv, CountsExact
<1>10. m = "total_latency_ms" => metric'[m] = Total(Counted(m))'
  <2>1. Total(C \cup {r}) = Total(C) + latency[r]
    BY <1>2, <1>3, TotalAdds DEF Begun
  <2>2. Total(Counted(m))' = Total(C \cup {r})
    BY <1>2, <1>3 DEF Total
  <2>3. QED
    BY <1>4, <2>1, <2>2 DEF Applied, Added, MetricsInv, CountsExact
<1>11. m = "last_latency_ms" => IsLast(metric[m], Counted(m), Counted(m))'
  <2> SUFFICES ASSUME m = "last_latency_ms" PROVE IsLast(metric[m], Counted(m), Counted(m))'
    OBVIOUS
  <2>1. metric'[m] = latency'[r]
    BY <1>2, <1>4 DEF Applied
  <2>2. \A s \in Requests : r \notin before'[s]
    BY <1>1, <1>2 DEF MetricsInv, Placed, Recorded
  <2>3. r \in Counted(m)' /\ Counted(m)' \subseteq Requests
    BY <1>3 DEF Begun
  <2>4. QED
    BY <2>1, <2>2, <2>3 DEF IsLast
<1>12. \A n \in Metrics \ {m} :
          /\ n = "commands_processed" => metric'[n] = Cardinality(Counted(n)')
          /\ n = "total_latency_ms" => metric'[n] = Total(Counted(n))'
          /\ n = "last_latency_ms" => IsLast(metric[n], Counted(n), Counted(n))'
  BY <1>2, <1>8, CountsKept
<1>13. CountsExact'
  BY <1>9, <1>10, <1>11, <1>12 DEF CountsExact, Metrics
<1>14. ReadsExact'
  <2>1. at'[r] # "reading"
    BY <1>1, <1>2 DEF MetricsTyped
  <2>2. \A h \in Requests \ {r} : at'[h] = at[h] /\ left'[h] = left[h] /\ seen'[h] = seen[h] /\ before'[h] = before[h]
    BY <1>1, <1>2 DEF MetricsTyped
  <2>3. QED
    BY <1>2, <1>3, <2>1, <2>2, ReadsKept
<1>15. QED
  BY <1>5, <1>7, <1>13, <1>14 DEF MetricsInv

LEMMA InitMetrics == ServerInit => MetricsInv
<1> SUFFICES ASSUME ServerInit PROVE MetricsInv
  OBVIOUS
<1>1. MetricsTyped /\ Placed /\ ReadsExact /\ \A m \in Metrics : Counted(m) = {}
  BY DEF ServerInit, MetricsTyped, Placed, ReadsExact, Counted, Begun, Zero, Stages
<1>2. Total({}) = 0 /\ Cardinality({}) = 0
  <2>1. UNION {{r} \X (1 .. latency[r]) : r \in {}} = {}
    OBVIOUS
  <2>2. QED
    BY <2>1, FS_EmptySet DEF Total
<1>3. \A m \in Metrics : metric[m] = 0
  BY DEF ServerInit, Zero
<1>4. CountsExact
  BY <1>1, <1>2, <1>3 DEF CountsExact, IsLast, Metrics
<1>5. QED
  BY <1>1, <1>4 DEF MetricsInv

LEMMA MetricsStep ==
  ASSUME MetricsInv, [ServerNext]_<<vars, serverVars>>
  PROVE  MetricsInv'
<1>1. CASE UNCHANGED serverVars
  <2>1. UNCHANGED <<at, metric, left, latency, seen, before>>
    BY <1>1 DEF serverVars
  <2>2. MetricsTyped' /\ Placed'
    BY <2>1 DEF MetricsInv, MetricsTyped, Placed, Recorded
  <2>3. CountsExact'
    BY <2>1 DEF MetricsInv, CountsExact, Counted, Begun, IsLast, Total
  <2>4. Begun' = Begun
    BY <2>1 DEF Begun
  <2>5. ReadsExact'
    <3> SUFFICES ASSUME NEW h \in Requests, at[h] = "reading", NEW m \in Metrics \ left[h]
                 PROVE  Between(m, seen[h][m], before[h])'
      BY <2>1 DEF ReadsExact
    <3>1. PICK v, D : v = seen[h][m] /\ D = before[h]
      OBVIOUS
    <3>2. Between(m, v, D) /\ D \in SUBSET Begun
      BY <3>1 DEF MetricsInv, MetricsTyped, ReadsExact, Placed, Recorded, Begun
    <3>3. Between(m, v, D)'
      BY <2>1, <2>4, <3>2, BetweenKept
    <3>4. QED
      BY <2>1, <3>1, <3>3
  <2>6. QED
    BY <2>2, <2>3, <2>5 DEF MetricsInv
<1>2. ASSUME NEW r \in Requests, Handler(r) PROVE MetricsInv'
  <2>1. at[r] \in {"none", "snapshot", "image", "preview"} => latency[r] = Unmeasured
    BY DEF MetricsInv, Placed
  <2>2. ASSUME at[r] \in {"none", "image", "preview"},
               NEW l \in {"snapshot", "image", "preview", "replied"}, Goto(r, l),
               UNCHANGED <<metric, left, latency, seen, before>>
        PROVE  MetricsInv'
    BY <2>2, MoveKeepsMetrics DEF Goto, Stages
  <2>3. ASSUME at[r] \in {"none", "image", "preview"}, Record(r) PROVE MetricsInv'
    BY <2>1, <2>3, TouchKeepsMetrics DEF Record, Goto
  <2>4. ASSUME at[r] \in {"none", "image", "preview"}, Reply(r) PROVE MetricsInv'
    BY <2>2, <2>4 DEF Reply
  <2>5. CASE Health(r)
    BY <2>2, <2>5 DEF Health
  <2>6. CASE ReadMetrics(r)
    BY <2>1, <2>6, TouchKeepsMetrics DEF ReadMetrics, Goto
  <2>7. CASE Root(r) \/ HangUp(r)
    BY <2>4, <2>7 DEF Root, HangUp
  <2>8. CASE MatchImage(r)
    BY <2>2, <2>4, <2>8 DEF MatchImage
  <2>9. CASE ImageReady(r) \/ PreviewReady(r)
    BY <2>3, <2>4, <2>9 DEF ImageReady, PreviewReady
  <2>10. CASE Preview(r)
    BY <2>2, <2>3, <2>10 DEF Preview
  <2>11. CASE Load(r) \/ Report(r) \/ Count(r)
    BY <2>11, LoadKeepsMetrics, ReportKeepsMetrics, CountKeepsMetrics
  <2>12. QED
    BY <1>2, <2>5, <2>6, <2>7, <2>8, <2>9, <2>10, <2>11 DEF Handler
<1>3. QED
  BY <1>1, <1>2 DEF ServerNext, Work

THEOREM MetricsInvariance == ServerSpec => []MetricsInv
<1>1. MetricsInv /\ [ServerNext]_<<vars, serverVars>> => MetricsInv'
  BY MetricsStep
<1>2. QED
  BY InitMetrics, <1>1, PTL DEF ServerSpec

\* However many handlers count and read the three counters in any order, a
\* report leaves out none that had recorded before it began, counts none
\* twice, and its last latency is none that a later one had replaced by then.
THEOREM ReportsAreExact == ServerSpec => []MetricsExact
<1>1. MetricsInv => MetricsExact
  <2> SUFFICES ASSUME MetricsInv, NEW h \in Requests, at[h] = "reading", left[h] = {}
               PROVE  LET done  == before[h]
                          while == {r \in Requests : latency[r] # Unmeasured} \ done IN
                      /\ \E S \in SUBSET while : seen[h]["commands_processed"] = Cardinality(done \cup S)
                      /\ \E S \in SUBSET while : seen[h]["total_latency_ms"] = Total(done \cup S)
                      /\ \/ done = {} /\ seen[h]["last_latency_ms"] = 0
                         \/ \E r \in done \cup while :
                               /\ seen[h]["last_latency_ms"] = latency[r]
                               /\ \A s \in done : r \notin before[s]
    BY DEF MetricsExact
  <2> DEFINE while == {r \in Requests : latency[r] # Unmeasured} \ before[h]
  <2>1. \A m \in Metrics : Between(m, seen[h][m], before[h])
    BY DEF MetricsInv, ReadsExact
  <2>2. \A S \in SUBSET Begun : before[h] \subseteq S =>
           S \ before[h] \in SUBSET while /\ before[h] \cup (S \ before[h]) = S
    BY DEF Begun
  <2>3. \E S \in SUBSET while : seen[h]["commands_processed"] = Cardinality(before[h] \cup S)
    <3>1. PICK S \in SUBSET Begun : before[h] \subseteq S /\ seen[h]["commands_processed"] = Cardinality(S)
      BY <2>1 DEF Between, Metrics
    <3>2. QED
      BY <2>2, <3>1
  <2>4. \E S \in SUBSET while : seen[h]["total_latency_ms"] = Total(before[h] \cup S)
    <3>1. PICK S \in SUBSET Begun : before[h] \subseteq S /\ seen[h]["total_latency_ms"] = Total(S)
      BY <2>1 DEF Between, Metrics
    <3>2. before[h] \cup (S \ before[h]) = S /\ S \ before[h] \in SUBSET while
      BY <2>2, <3>1
    <3>3. Total(before[h] \cup (S \ before[h])) = Total(S)
      BY <3>2
    <3>4. QED
      BY <3>1, <3>2, <3>3
  <2>5. PICK S \in SUBSET Begun : IsLast(seen[h]["last_latency_ms"], before[h], S)
    BY <2>1 DEF Between, Metrics
  <2>6. S \subseteq before[h] \cup while
    BY DEF Begun
  <2>7. QED
    BY <2>3, <2>4, <2>5, <2>6 DEF IsLast
<1>2. QED
  BY <1>1, MetricsInvariance, PTL

-----------------------------------------------------------------------------
(* The requests of the previews, and the token they share.                 *)

Tokens == [expires : Nat, until : Nat]
Places == {"idle", "waiting", "minting", "issued", "sending", "backoff", "done"}

ApiTyped ==
    /\ clock \in Nat /\ cached \in Tokens
    /\ pc \in [Calls -> Places] /\ since \in [Calls -> Nat] /\ token \in [Calls -> Tokens]

\* Whoever mints has the mutex, found no usable token, and is in time.
MintsAlone ==
    \A c \in Calls : pc[c] \in {"minting", "issued"} =>
        /\ holder = c /\ cached.until <= clock
        /\ since[c] <= clock /\ clock <= since[c] + MintTimeout

\* A token that is on its way was issued after its mint began.
IssuedSince ==
    \A c \in Calls : pc[c] = "issued" =>
        /\ token[c].until > Margin
        /\ token[c].expires >= since[c] + token[c].until

\* A cached token outlives its use by the margin, less the mint's timeout.
CachedFresh == cached.until > 0 => cached.expires + MintTimeout >= cached.until + Margin

ApiInv == ApiTyped /\ MintsAlone /\ IssuedSince /\ CachedFresh

\* No request has begun.
LEMMA InitApiInv == OpInit => ApiInv
BY DEF OpInit, ApiInit, ApiInv, ApiTyped, MintsAlone, IssuedSince, CachedFresh, Tokens,
   Places, Token, NoToken

\* The requests in S end, and those in cs ask for the token.
LEMMA SwitchStep ==
  ASSUME ApiInv, NEW S, NEW cs, NEW once, Switch(S, cs, once)
  PROVE  ApiInv'
<1>1. /\ clock' = clock /\ cached' = cached
      /\ holder' = IF holder \in S THEN NoCall ELSE holder
      /\ pc' = [c \in Calls |-> IF c \in ToSet(cs) THEN "waiting"
                                ELSE IF c \in S THEN "idle" ELSE pc[c]]
      /\ since' = [c \in Calls |-> IF c \in S THEN 0 ELSE since[c]]
      /\ token' = [c \in Calls |-> IF c \in S THEN NoToken ELSE token[c]]
  BY DEF Switch, Released
<1>2. ApiTyped'
  BY <1>1 DEF ApiInv, ApiTyped, Places, Tokens, NoToken, Token
<1>3. \A c \in Calls : pc'[c] \in {"minting", "issued"} =>
         c \notin S /\ pc[c] = pc'[c] /\ since'[c] = since[c] /\ token'[c] = token[c]
  BY <1>1
<1>4. MintsAlone'
  BY <1>1, <1>3 DEF ApiInv, MintsAlone
<1>5. IssuedSince'
  BY <1>1, <1>3 DEF ApiInv, IssuedSince
<1>6. QED
  BY <1>1, <1>2, <1>4, <1>5 DEF ApiInv, CachedFresh

\* It sends nothing, and leaves the cached token alone.
LEMMA SwitchIsQuiet ==
  ASSUME NEW S, NEW cs, NEW once, Switch(S, cs, once)
  PROVE  cached' = cached /\ \A c \in Calls : pc'[c] = "sending" => pc[c] = "sending"
<1>1. /\ cached' = cached
      /\ pc' = [c \in Calls |-> IF c \in ToSet(cs) THEN "waiting"
                                ELSE IF c \in S THEN "idle" ELSE pc[c]]
  BY DEF Switch
<1>2. QED
  BY <1>1

\* So does whatever an operation does with its requests.
LEMMA OperationIsQuiet ==
  ASSUME NEW o \in Ops, Start(o) \/ Refuse(o) \/ Proceed(o) \/ Abandon(o)
  PROVE  cached' = cached /\ \A c \in Calls : pc'[c] = "sending" => pc[c] = "sending"
BY SwitchIsQuiet DEF Start, Refuse, Proceed, Abandon, Continue, Finish

-----------------------------------------------------------------------------
\* Steps that neither mint nor send.
LEMMA OtherSteps ==
  ASSUME ApiInv, NEW c \in Calls, Answered(c) \/ Retry(c)
  PROVE  ApiInv'
<1>1. /\ ApiTyped /\ UNCHANGED <<clock, holder, cached, since>>
      /\ \E l \in {"done", "backoff", "waiting"} : pc' = [pc EXCEPT ![c] = l]
      /\ token' = token \/ token' = [token EXCEPT ![c] = NoToken]
      /\ pc[c] \notin {"minting", "issued"}
  BY DEF ApiInv, Answered, Retry, End, Become, Set
<1>2. \A d \in Calls : pc'[d] \in {"minting", "issued"} =>
         d # c /\ pc[d] = pc'[d] /\ token'[d] = token[d]
  BY <1>1 DEF ApiTyped
<1>3. ApiTyped'
  BY <1>1 DEF ApiTyped, Places, Tokens, NoToken, Token
<1>4. QED
  BY <1>1, <1>2, <1>3 DEF ApiInv, MintsAlone, IssuedSince, CachedFresh

\* Nobody mints while the mutex is free.
LEMMA AcquireStep ==
  ASSUME ApiInv, NEW c \in Calls, Acquire(c)
  PROVE  ApiInv'
<1> USE ApiAssumption DEF ApiAssumption
<1>1. /\ ApiTyped /\ holder = NoCall /\ UNCHANGED <<clock, cached>>
      /\ \A d \in Calls : pc[d] \notin {"minting", "issued"}
  BY DEF ApiInv, Acquire, MintsAlone
<1>2. CASE cached.until > clock
  <2>1. /\ token' = [token EXCEPT ![c] = cached] /\ pc' = [pc EXCEPT ![c] = "sending"]
        /\ UNCHANGED <<holder, since>>
    BY <1>2 DEF Acquire, Set, Become
  <2>2. \A d \in Calls : pc'[d] \notin {"minting", "issued"}
    BY <1>1, <2>1 DEF ApiTyped
  <2>3. ApiTyped'
    BY <1>1, <2>1 DEF ApiTyped, Places
  <2>4. QED
    BY <1>1, <2>2, <2>3 DEF ApiInv, MintsAlone, IssuedSince, CachedFresh
<1>3. CASE ~(cached.until > clock)
  <2>1. /\ holder' = c /\ pc' = [pc EXCEPT ![c] = "minting"]
        /\ since' = [since EXCEPT ![c] = clock] /\ token' = token
    BY <1>3 DEF Acquire, Set, Become, Guarded
  <2>2. \A d \in Calls : pc'[d] \in {"minting", "issued"} =>
           d = c /\ pc'[d] = "minting" /\ since'[d] = clock
    BY <1>1, <2>1 DEF ApiTyped
  <2>3. ApiTyped'
    BY <1>1, <2>1 DEF ApiTyped, Places
  <2>4. cached.until <= clock
    BY <1>1, <1>3 DEF ApiTyped, Tokens
  <2>5. MintsAlone'
    BY <1>1, <2>1, <2>2, <2>4 DEF MintsAlone, ApiTyped
  <2>6. QED
    BY <1>1, <2>2, <2>3, <2>5 DEF ApiInv, IssuedSince, CachedFresh
<1>4. QED
  BY <1>2, <1>3

\* The provider counts from now, which is after the mint began.
LEMMA IssueStep ==
  ASSUME ApiInv, NEW c \in Calls, Issue(c)
  PROVE  ApiInv'
<1> USE ApiAssumption DEF ApiAssumption
<1>1. PICK l \in Lifetimes : token' = [token EXCEPT ![c] = Token(clock + l, l)]
  BY DEF Issue, Set
<1>2. l \in Nat /\ l > Margin /\ Token(clock + l, l) \in Tokens
  BY <1>1 DEF Token, Tokens, ApiInv, ApiTyped
<1>3. /\ ApiTyped /\ pc[c] = "minting" /\ UNCHANGED <<clock, holder, cached, since>>
      /\ pc' = [pc EXCEPT ![c] = "issued"]
  BY DEF ApiInv, Issue, Become
<1>4. ApiTyped'
  BY <1>1, <1>2, <1>3 DEF ApiTyped, Places
<1>5. MintsAlone'
  BY <1>3 DEF ApiInv, MintsAlone, ApiTyped
<1>6. IssuedSince'
  <2>1. since[c] <= clock
    BY <1>3 DEF ApiInv, MintsAlone
  <2>2. ASSUME NEW d \in Calls, pc'[d] = "issued"
        PROVE  token'[d].until > Margin /\ token'[d].expires >= since'[d] + token'[d].until
    <3>1. CASE d = c
      BY <1>1, <1>2, <1>3, <2>1, <3>1 DEF ApiTyped, Token
    <3>2. CASE d # c
      BY <1>1, <1>3, <2>2, <3>2 DEF ApiInv, ApiTyped, IssuedSince
    <3>3. QED
      BY <3>1, <3>2
  <2>3. QED
    BY <2>2 DEF IssuedSince
<1>7. QED
  BY <1>3, <1>4, <1>5, <1>6 DEF ApiInv, CachedFresh

\* The token that a mint brings is fresh: it was issued at most MintTimeout ago.
LEMMA MintedFresh ==
  ASSUME ApiInv, NEW c \in Calls, Minted(c)
  PROVE  /\ cached' \in Tokens /\ cached'.expires + MintTimeout >= cached'.until + Margin
         /\ cached'.expires >= clock + Margin + 1 - MintTimeout
<1> USE ApiAssumption DEF ApiAssumption
<1>1. pc[c] = "issued" /\ cached' = Token(token[c].expires, clock + token[c].until - Margin)
  BY DEF Minted, Usable
<1>2. /\ token[c] \in Tokens /\ clock \in Nat /\ since[c] \in Nat
      /\ token[c].until > Margin /\ token[c].expires >= since[c] + token[c].until
      /\ clock <= since[c] + MintTimeout
  BY <1>1 DEF ApiInv, ApiTyped, MintsAlone, IssuedSince
<1>3. QED
  BY <1>1, <1>2 DEF Token, Tokens

LEMMA MintedStep ==
  ASSUME ApiInv, NEW c \in Calls, Minted(c)
  PROVE  ApiInv'
<1>1. /\ ApiTyped /\ pc[c] = "issued" /\ clock' = clock
      /\ token' = [token EXCEPT ![c] = cached'] /\ since' = [since EXCEPT ![c] = 0]
      /\ pc' = [pc EXCEPT ![c] = "sending"]
  BY DEF ApiInv, Minted, Set, Forget, Become
<1>2. cached' \in Tokens /\ cached'.expires + MintTimeout >= cached'.until + Margin
  BY MintedFresh
<1>3. \A d \in Calls : pc'[d] \notin {"minting", "issued"}
  BY <1>1 DEF ApiInv, ApiTyped, MintsAlone
<1>4. ApiTyped'
  BY <1>1, <1>2 DEF ApiTyped, Places
<1>5. QED
  BY <1>2, <1>3, <1>4 DEF ApiInv, MintsAlone, IssuedSince, CachedFresh

LEMMA MintFailsStep == ASSUME ApiInv, NEW c \in Calls, MintFails(c) PROVE ApiInv'
<1>1. /\ ApiTyped /\ pc[c] \in {"minting", "issued"} /\ UNCHANGED <<clock, cached>>
      /\ token' = [token EXCEPT ![c] = NoToken] /\ since' = [since EXCEPT ![c] = 0]
      /\ pc' = [pc EXCEPT ![c] = "done"]
  BY DEF ApiInv, MintFails, End, Set, Forget, Become
<1>2. \A d \in Calls : pc'[d] \notin {"minting", "issued"}
  BY <1>1 DEF ApiInv, ApiTyped, MintsAlone
<1>3. ApiTyped'
  BY <1>1 DEF ApiTyped, Places, Tokens, NoToken, Token
<1>4. QED
  BY <1>1, <1>2, <1>3 DEF ApiInv, MintsAlone, IssuedSince, CachedFresh

LEMMA TickStep == ASSUME ApiInv, Tick PROVE ApiInv'
<1>1. /\ ApiTyped /\ clock' = clock + 1 /\ UNCHANGED <<holder, cached, pc, since, token>>
      /\ \A c \in Calls : pc[c] \in {"minting", "issued"} => clock < since[c] + MintTimeout
  BY ApiAssumption DEF ApiInv, ApiTyped, Tick, Late, ApiAssumption
<1>2. ApiTyped'
  BY <1>1 DEF ApiTyped
<1>3. MintsAlone'
  BY <1>1, ApiAssumption DEF ApiInv, MintsAlone, ApiTyped, ApiAssumption, Tokens
<1>4. QED
  BY <1>1, <1>2, <1>3 DEF ApiInv, IssuedSince, CachedFresh

LEMMA ApiStep ==
  ASSUME ApiInv, [OpNext]_<<apiVars, opVars>>
  PROVE  ApiInv'
<1>1. CASE UNCHANGED apiVars
  BY <1>1 DEF ApiInv, ApiTyped, MintsAlone, IssuedSince, CachedFresh, apiVars
<1>2. ASSUME NEW o \in Ops, Start(o) \/ Refuse(o) \/ Proceed(o) \/ Abandon(o)
      PROVE  ApiInv'
  BY <1>2, SwitchStep DEF Start, Refuse, Proceed, Abandon, Continue, Finish
<1>3. ASSUME NEW c \in Calls, Request(c) \/ Issue(c) PROVE ApiInv'
  BY <1>3, AcquireStep, IssueStep, MintedStep, MintFailsStep, OtherSteps DEF Request
<1>4. QED
  BY <1>1, <1>2, <1>3, TickStep DEF OpNext, Task, Lanes, RosterExpires, apiVars

-----------------------------------------------------------------------------
\* Everything above, in every state of the requests.
THEOREM ApiInvariance == OpSpec => []ApiInv
<1>1. ApiInv /\ [OpNext]_<<apiVars, opVars>> => ApiInv'
  BY ApiStep
<1>2. QED
  BY InitApiInv, <1>1, PTL DEF OpSpec

\* Every request to the backend goes out with a token that stays valid for the
\* margin, less the time its mint may have taken.
THEOREM TokensAreFresh == OpSpec => TokenFresh
<1> DEFINE A == \A c \in Calls : pc[c] # "sending" /\ pc'[c] = "sending" =>
                   token'[c].expires >= clock + Margin + 1 - MintTimeout
<1>1. ApiInv /\ [OpNext]_<<apiVars, opVars>> => [A]_apiVars
  <2> SUFFICES ASSUME ApiInv, [OpNext]_<<apiVars, opVars>>, ~UNCHANGED apiVars,
                      NEW c \in Calls, pc[c] # "sending", pc'[c] = "sending"
               PROVE  token'[c].expires >= clock + Margin + 1 - MintTimeout
    BY DEF apiVars
  <2> USE ApiAssumption DEF ApiAssumption
  <2>2. \A o \in Ops : ~(Start(o) \/ Refuse(o) \/ Proceed(o) \/ Abandon(o))
    BY OperationIsQuiet
  <2>3. ASSUME NEW d \in Calls, Answered(d) \/ Retry(d) \/ MintFails(d) \/ Issue(d)
        PROVE  FALSE
    BY <2>3 DEF Answered, Retry, MintFails, Issue, End, Become, ApiInv, ApiTyped
  <2>4. PICK d \in Calls : Acquire(d) \/ Minted(d)
    BY <2>2, <2>3 DEF OpNext, Task, Lanes, Request, Tick, RosterExpires, apiVars
  <2>5. d = c /\ token \in [Calls -> Tokens] /\ clock \in Nat
    BY <2>4 DEF Acquire, Minted, Become, ApiInv, ApiTyped
  <2>6. CASE Minted(d)
    <3>1. token'[c] = cached'
      BY <2>5, <2>6 DEF Minted, Set
    <3>2. QED
      BY <2>5, <2>6, <3>1, MintedFresh
  <2>7. CASE Acquire(d)
    <3>1. cached.until > clock /\ token'[c] = cached
      BY <2>5, <2>7 DEF Acquire, Set, Become, ApiInv, ApiTyped
    <3>2. QED
      BY <2>5, <3>1 DEF ApiInv, CachedFresh, ApiTyped, Tokens
  <2>8. QED
    BY <2>4, <2>6, <2>7
<1>2. OpSpec => []ApiInv
  BY ApiInvariance
<1>3. QED
  BY <1>1, <1>2, PTL DEF OpSpec, TokenFresh

\* The callers that find the token stale together mint one between them.
THEOREM NoMintIsWasted == OpSpec => NoStampede
<1> DEFINE A == cached' # cached => cached.until <= clock
<1>1. ApiInv /\ [OpNext]_<<apiVars, opVars>> => [A]_apiVars
  <2> SUFFICES ASSUME ApiInv, [OpNext]_<<apiVars, opVars>>, cached' # cached
               PROVE  cached.until <= clock
    BY DEF apiVars
  <2>1. PICK c \in Calls : Minted(c)
    BY OperationIsQuiet DEF OpNext, Task, Lanes, Request, Tick, RosterExpires, apiVars,
       Acquire, MintFails, Answered, Retry, Issue
  <2>2. QED
    BY <2>1 DEF Minted, ApiInv, MintsAlone
<1>2. OpSpec => []ApiInv
  BY ApiInvariance
<1>3. QED
  BY <1>1, <1>2, PTL DEF OpSpec, NoStampede

-----------------------------------------------------------------------------
(* The mutex of the token serves its waiters in order, and each of them    *)
(* has it for no longer than a mint may last.                              *)

InQueue(c) == pc[c] \in {"waiting", "minting", "issued"}

\* A waiter, those that it waits behind, and whoever has the mutex.
Before(c) == ahead[c] \cup {c} \cup ({holder} \ {NoCall})

\* How long the mint that is under way has lasted.
Spent == IF holder = NoCall THEN 0 ELSE clock - since[holder]

\* The time that the requests which are not in X would take to mint.
Room(X) == (Cardinality(Calls) - Cardinality(X)) * MintTimeout

QueueTyped  == ahead \in [Calls -> SUBSET Calls] /\ asked \in [Calls -> Nat]
HolderMints == holder # NoCall => holder \in Calls /\ pc[holder] \in {"minting", "issued"}

\* Of two waiters one is ahead of the other.
InTurn ==
    /\ \A c \in Calls : ahead[c] \subseteq Waiting /\ (pc[c] # "waiting" => ahead[c] = {})
    /\ \A c, d \in Waiting : c = d \/ c \in ahead[d] \/ d \in ahead[c]

\* Who waits has waited for the mints of others only, and for the one under way.
InTime ==
    \A c \in Calls : InQueue(c) => clock <= asked[c] + Room(Before(c)) + Spent

QueueInv == QueueTyped /\ HolderMints /\ InTurn /\ InTime

LEMMA TimesLess ==
  ASSUME NEW a \in Nat, NEW b \in Nat, NEW m \in Nat, a <= b
  PROVE  a * m \in Nat /\ b * m \in Nat /\ a * m <= b * m /\ (a < b => a * m + m <= b * m)
<1>1. a * m \in Nat /\ b * m \in Nat /\ (b - a) * m \in Nat /\ b * m = a * m + (b - a) * m
  OBVIOUS
<1>2. a < b => (b - a) * m >= m
  <2> SUFFICES ASSUME a < b PROVE (b - a) * m >= m
    OBVIOUS
  <2>1. PICK k \in Nat : b - a = k + 1
    <3>1. b - a - 1 \in Nat /\ b - a = (b - a - 1) + 1
      OBVIOUS
    <3>2. QED
      BY <3>1
  <2>2. (k + 1) * m = k * m + m /\ k * m \in Nat
    OBVIOUS
  <2>3. QED
    BY <2>1, <2>2
<1>3. QED
  BY <1>1, <1>2

\* The fewer there are before one, the longer it may have waited.
LEMMA RoomGrows ==
  ASSUME NEW X \in SUBSET Calls, NEW Y \in SUBSET X
  PROVE  /\ Room(X) \in Nat /\ Room(Y) \in Nat /\ Room(Y) >= Room(X)
         /\ Y # X => Room(Y) >= Room(X) + MintTimeout
<1>1. /\ IsFiniteSet(Calls) /\ IsFiniteSet(X) /\ MintTimeout \in Nat
      /\ Cardinality(Calls) \in Nat /\ Cardinality(X) \in Nat /\ Cardinality(Y) \in Nat
      /\ Cardinality(X) <= Cardinality(Calls) /\ Cardinality(Y) <= Cardinality(X)
      /\ Y # X => Cardinality(Y) < Cardinality(X)
  BY ApiAssumption, FS_Subset, FS_CardinalityType DEF ApiAssumption
<1> DEFINE x == Cardinality(Calls) - Cardinality(X)
           y == Cardinality(Calls) - Cardinality(Y)
<1>2. x \in Nat /\ y \in Nat /\ x <= y /\ (Y # X => x < y)
  BY <1>1
<1>3. Room(X) = x * MintTimeout /\ Room(Y) = y * MintTimeout
  BY DEF Room
<1> HIDE DEF x, y
<1>4. QED
  BY <1>1, <1>2, <1>3, TimesLess

\* A mint that is under way is in time.
LEMMA SpentBounded ==
  ASSUME ApiInv, HolderMints
  PROVE  Spent \in Nat /\ Spent <= MintTimeout
BY ApiAssumption DEF ApiAssumption, ApiInv, ApiTyped, MintsAlone, HolderMints, Spent

LEMMA BeforeTyped ==
  ASSUME QueueTyped, HolderMints, NEW c \in Calls
  PROVE  Before(c) \in SUBSET Calls
BY DEF QueueTyped, HolderMints, Before

\* No time passes, and whoever waited still has at most those before it.
LEMMA InTimeKept ==
  ASSUME ApiInv, QueueInv, ApiInv', QueueTyped', HolderMints', clock' = clock,
         \A c \in Calls : InQueue(c)' =>
            \/ asked'[c] = clock
            \/ /\ InQueue(c) /\ asked'[c] = asked[c] /\ Before(c)' \subseteq Before(c)
               /\ Spent' >= Spent \/ Before(c)' # Before(c)
  PROVE  InTime'
<1> SUFFICES ASSUME NEW c \in Calls, InQueue(c)'
             PROVE  clock' <= asked'[c] + Room(Before(c))' + Spent'
  BY DEF InTime
<1>1. Before(c) \in SUBSET Calls /\ Before(c)' \in SUBSET Calls
  BY BeforeTyped DEF QueueInv, QueueTyped, HolderMints, Before
<1>2. /\ Spent \in Nat /\ Spent <= MintTimeout /\ MintTimeout \in Nat
      /\ asked'[c] \in Nat /\ clock \in Nat
  BY SpentBounded, ApiAssumption DEF ApiAssumption, QueueInv, QueueTyped, ApiInv, ApiTyped
<1>3. Spent' \in Nat
  BY ApiAssumption DEF ApiAssumption, ApiInv, ApiTyped, MintsAlone, HolderMints, Spent
<1>4. Room(Before(c))' = Room(Before(c)')
  BY DEF Room
<1>5. Room(Before(c)') \in Nat
  BY <1>1, RoomGrows
<1>6. CASE asked'[c] = clock
  BY <1>2, <1>3, <1>4, <1>5, <1>6
<1>7. CASE /\ InQueue(c) /\ asked'[c] = asked[c] /\ Before(c)' \subseteq Before(c)
           /\ Spent' >= Spent \/ Before(c)' # Before(c)
  <2>1. clock <= asked[c] + Room(Before(c)) + Spent
    BY <1>7 DEF QueueInv, InTime
  <2>2. /\ Room(Before(c)) \in Nat /\ Room(Before(c)') >= Room(Before(c))
        /\ Before(c)' # Before(c) => Room(Before(c)') >= Room(Before(c)) + MintTimeout
    BY <1>1, <1>7, RoomGrows
  <2>3. QED
    BY <1>2, <1>3, <1>4, <1>5, <1>7, <2>1, <2>2
<1>8. QED
  BY <1>6, <1>7

LEMMA InitQueueInv == OpInit => QueueInv
BY DEF OpInit, ApiInit, QueueInv, QueueTyped, HolderMints, InTurn, InTime, InQueue, Waiting

\* The first in the queue is ahead of all the others, and leaves it.
LEMMA AcquireInTurn ==
  ASSUME ApiInv, QueueInv, NEW c \in Calls, Acquire(c)
  PROVE  QueueInv'
<1>1. /\ holder = NoCall /\ pc[c] = "waiting" /\ ahead[c] = {} /\ clock' = clock
      /\ ahead' = [d \in Calls |-> ahead[d] \ {c}]
      /\ \/ /\ pc' = [pc EXCEPT ![c] = "sending"] /\ asked' = [asked EXCEPT ![c] = 0]
            /\ UNCHANGED <<holder, since>>
         \/ /\ pc' = [pc EXCEPT ![c] = "minting"] /\ asked' = asked
            /\ holder' = c /\ since' = [since EXCEPT ![c] = clock]
  BY DEF Acquire, Set, Forget, Become, Guarded
<1>2. ApiInv'
  BY AcquireStep
<1>3. /\ pc \in [Calls -> Places] /\ since \in [Calls -> Nat] /\ clock \in Nat
      /\ QueueTyped /\ InTurn
  BY DEF ApiInv, ApiTyped, QueueInv
<1>4. QueueTyped'
  BY <1>1, <1>3 DEF QueueTyped
<1>5. HolderMints'
  BY <1>1, <1>3 DEF HolderMints
<1>6. Waiting' = Waiting \ {c}
  BY <1>1, <1>3 DEF Waiting
<1>7. InTurn'
  BY <1>1, <1>3, <1>6 DEF InTurn, Waiting, QueueTyped
<1>8. \A d \in Waiting' : c \in ahead[d]
  BY <1>1, <1>3, <1>6 DEF InTurn, Waiting
<1>9. ASSUME NEW d \in Calls, InQueue(d)'
      PROVE  InQueue(d) /\ asked'[d] = asked[d] /\ Before(d)' \subseteq Before(d) /\ Spent' >= Spent
  <2>1. Spent = 0 /\ Spent' = 0
    BY <1>1, <1>3, ApiAssumption DEF ApiAssumption, Spent
  <2>2. (pc'[d] = "waiting" /\ d # c) \/ (d = c /\ holder' = c /\ asked' = asked)
    <3>1. CASE d = c
      BY <1>1, <1>3, <1>9, <3>1 DEF InQueue
    <3>2. CASE d # c
      <4>1. pc'[d] = pc[d]
        BY <1>1, <1>3, <3>2
      <4>2. pc[d] \notin {"minting", "issued"}
        BY <1>1, ApiAssumption DEF ApiInv, MintsAlone, ApiAssumption
      <4>3. QED
        BY <1>9, <3>2, <4>1, <4>2 DEF InQueue
    <3>3. QED
      BY <3>1, <3>2
  <2>3. QED
    BY <1>1, <1>3, <1>6, <1>8, <2>1, <2>2 DEF InQueue, Before, Waiting, QueueTyped
<1>10. InTime'
  BY <1>1, <1>2, <1>4, <1>5, <1>9, InTimeKept
<1>11. QED
  BY <1>4, <1>5, <1>7, <1>10 DEF QueueInv

\* The mutex is free again: those that wait have one less before them.
LEMMA UnlockInTurn ==
  ASSUME ApiInv, QueueInv, NEW c \in Calls, Minted(c) \/ MintFails(c)
  PROVE  QueueInv'
<1>1. /\ pc[c] \in {"minting", "issued"} /\ holder = c /\ holder' = NoCall
      /\ UNCHANGED <<clock, ahead>> /\ asked' = [asked EXCEPT ![c] = 0]
      /\ \E l \in {"sending", "done"} : pc' = [pc EXCEPT ![c] = l]
  BY DEF Minted, MintFails, End, Set, Forget, Become, Unlocked, ApiInv, MintsAlone
<1>2. ApiInv'
  BY MintedStep, MintFailsStep
<1>3. pc \in [Calls -> Places] /\ QueueTyped /\ InTurn
  BY DEF ApiInv, ApiTyped, QueueInv
<1>4. QueueTyped' /\ HolderMints'
  BY <1>1, <1>3 DEF QueueTyped, HolderMints
<1>5. Waiting' = Waiting /\ c \notin Waiting
  BY <1>1, <1>3 DEF Waiting
<1>6. InTurn'
  BY <1>1, <1>3, <1>5 DEF InTurn, Waiting
<1>7. ASSUME NEW d \in Calls, InQueue(d)'
      PROVE  /\ InQueue(d) /\ asked'[d] = asked[d]
             /\ Before(d)' \subseteq Before(d) /\ Before(d)' # Before(d)
  <2>1. d # c /\ InQueue(d) /\ asked'[d] = asked[d]
    BY <1>1, <1>3, <1>7 DEF InQueue, QueueTyped
  <2>2. c \notin ahead[d] /\ c # NoCall
    BY <1>3, <1>5, ApiAssumption DEF InTurn, ApiAssumption
  <2>3. QED
    BY <1>1, <2>1, <2>2 DEF Before
<1>8. InTime'
  BY <1>1, <1>2, <1>4, <1>7, InTimeKept
<1>9. QED
  BY <1>4, <1>6, <1>8 DEF QueueInv

\* A request that tries again queues behind those that wait.
LEMMA RetryInTurn == ASSUME ApiInv, QueueInv, NEW c \in Calls, Retry(c) PROVE QueueInv'
<1>1. /\ pc[c] = "backoff" /\ pc' = [pc EXCEPT ![c] = "waiting"] /\ UNCHANGED <<clock, holder, since>>
      /\ ahead' = [ahead EXCEPT ![c] = Waiting] /\ asked' = [asked EXCEPT ![c] = clock]
  BY DEF Retry, Become, Set
<1>2. ApiInv'
  BY OtherSteps
<1>3. pc \in [Calls -> Places] /\ clock \in Nat /\ QueueTyped /\ HolderMints /\ InTurn
  BY DEF ApiInv, ApiTyped, QueueInv
<1>4. QueueTyped' /\ HolderMints'
  BY <1>1, <1>3 DEF QueueTyped, HolderMints, Waiting
<1>5. Waiting' = Waiting \cup {c} /\ c \notin Waiting
  BY <1>1, <1>3 DEF Waiting
<1>6. InTurn'
  BY <1>1, <1>3, <1>5 DEF InTurn, QueueTyped, Waiting
<1>7. ASSUME NEW d \in Calls, InQueue(d)', d # c
      PROVE  InQueue(d) /\ asked'[d] = asked[d] /\ Before(d)' = Before(d) /\ Spent' = Spent
  BY <1>1, <1>3, <1>7 DEF InQueue, Before, Spent, QueueTyped
<1>8. asked'[c] = clock
  BY <1>1, <1>3 DEF QueueTyped
<1>9. Spent \in Nat
  BY SpentBounded DEF QueueInv
<1>10. InTime'
  BY <1>1, <1>2, <1>4, <1>7, <1>8, <1>9, InTimeKept
<1>11. QED
  BY <1>4, <1>6, <1>10 DEF QueueInv

\* The answers change nothing for those that wait.
LEMMA QuietInTurn ==
  ASSUME ApiInv, QueueInv, NEW c \in Calls, Answered(c) \/ Issue(c)
  PROVE  QueueInv'
<1>1. /\ UNCHANGED <<clock, holder, ahead, asked, since>>
      /\ \/ pc[c] = "sending" /\ \E l \in {"done", "backoff"} : pc' = [pc EXCEPT ![c] = l]
         \/ pc[c] = "minting" /\ pc' = [pc EXCEPT ![c] = "issued"]
  BY DEF Answered, Issue, Become, End
<1>2. pc \in [Calls -> Places]
  BY DEF ApiInv, ApiTyped
<1>3. Waiting' = Waiting /\ \A d \in Calls : (InQueue(d)' <=> InQueue(d)) /\ (pc'[d] = "waiting" <=> pc[d] = "waiting")
  BY <1>1, <1>2 DEF Waiting, InQueue
<1>4. QueueTyped' /\ HolderMints' /\ InTurn'
  BY <1>1, <1>2, <1>3 DEF QueueInv, QueueTyped, HolderMints, InTurn
<1>5. InTime'
  BY <1>1, <1>3 DEF QueueInv, InTime, Before, Room, Spent
<1>6. QED
  BY <1>4, <1>5 DEF QueueInv

\* Time passes only while somebody mints, or nobody waits.
LEMMA TickInTurn == ASSUME ApiInv, QueueInv, Tick PROVE QueueInv'
<1>1. /\ clock' = clock + 1 /\ UNCHANGED <<holder, ahead, pc, asked, since>>
      /\ holder = NoCall => Waiting = {}
  BY DEF Tick
<1>2. QueueTyped' /\ HolderMints' /\ InTurn'
  BY <1>1 DEF QueueInv, QueueTyped, HolderMints, InTurn, Waiting
<1>3. ASSUME NEW c \in Calls, InQueue(c)'
      PROVE  clock' <= asked'[c] + Room(Before(c))' + Spent'
  <2>1. InQueue(c) /\ Before(c)' = Before(c) /\ Room(Before(c))' = Room(Before(c)) /\ asked'[c] = asked[c]
    BY <1>1, <1>3 DEF InQueue, Before, Room
  <2>2. holder # NoCall
    BY <1>1, <2>1, ApiAssumption DEF ApiInv, MintsAlone, InQueue, Waiting, ApiAssumption
  <2>3. /\ clock \in Nat /\ since[holder] \in Nat /\ asked[c] \in Nat
        /\ Spent = clock - since[holder] /\ Spent' = clock + 1 - since[holder]
    BY <1>1, <2>2 DEF ApiInv, ApiTyped, QueueInv, QueueTyped, HolderMints, Spent
  <2>4. Room(Before(c)) \in Nat /\ clock <= asked[c] + Room(Before(c)) + Spent
    BY <2>1, BeforeTyped, RoomGrows DEF QueueInv, InTime
  <2>5. QED
    BY <1>1, <2>1, <2>3, <2>4
<1>4. QED
  BY <1>2, <1>3 DEF QueueInv, InTime

\* Requests end wherever they are, and those that start queue in their order.
LEMMA SwitchInTurn ==
  ASSUME ApiInv, QueueInv, NEW S, NEW cs, NEW n \in Nat, DOMAIN cs = 1 .. n, NEW once, Switch(S, cs, once),
         \A c \in Calls : c \in ToSet(cs) => c \in S
  PROVE  QueueInv'
<1>1. /\ clock' = clock
      /\ holder' = IF holder \in S THEN NoCall ELSE holder
      /\ ahead' = [c \in Calls |-> IF c \in ToSet(cs) THEN (Waiting \ S) \cup Sooner(cs, c)
                                   ELSE (IF c \in S THEN {} ELSE ahead[c]) \ S]
      /\ pc' = [c \in Calls |-> IF c \in ToSet(cs) THEN "waiting"
                                ELSE IF c \in S THEN "idle" ELSE pc[c]]
      /\ since' = [c \in Calls |-> IF c \in S THEN 0 ELSE since[c]]
      /\ asked' = [c \in Calls |-> IF c \in ToSet(cs) THEN clock
                                   ELSE IF c \in S THEN 0 ELSE asked[c]]
  BY DEF Switch, Released
<1>2. ApiInv'
  BY SwitchStep
<1>3. /\ pc \in [Calls -> Places] /\ clock \in Nat /\ QueueTyped /\ HolderMints /\ InTurn
      /\ Waiting \subseteq Calls
  BY DEF ApiInv, ApiTyped, QueueInv, Waiting
<1>4. \A c \in Calls : Sooner(cs, c) \subseteq Calls /\ \A d \in Sooner(cs, c) : d \in ToSet(cs)
  BY DEF Sooner, ToSet
<1>5. QueueTyped'
  BY <1>1, <1>3, <1>4 DEF QueueTyped
<1>6. HolderMints'
  BY <1>1, <1>3 DEF HolderMints
<1>7. \A c \in Calls : c \in Waiting' <=> c \in ToSet(cs) \/ (c \in Waiting /\ c \notin S)
  BY <1>1 DEF Waiting
<1>8. InTurn'
  <2>1. ASSUME NEW c \in Calls
        PROVE  ahead'[c] \subseteq Waiting' /\ (pc'[c] # "waiting" => ahead'[c] = {})
    <3>1. CASE c \in ToSet(cs)
      BY <1>1, <1>3, <1>4, <1>7, <3>1
    <3>2. CASE c \notin ToSet(cs)
      BY <1>1, <1>3, <1>7, <3>2 DEF InTurn, QueueTyped
    <3>3. QED
      BY <3>1, <3>2
  <2>2. ASSUME NEW c \in Waiting', NEW d \in Waiting', c # d
        PROVE  c \in ahead'[d] \/ d \in ahead'[c]
    <3>1. c \in Calls /\ d \in Calls
      BY DEF Waiting
    <3>2. CASE c \in ToSet(cs) /\ d \in ToSet(cs)
      <4>1. PICK i \in DOMAIN cs, j \in DOMAIN cs : cs[i] = c /\ cs[j] = d
        BY <3>2 DEF ToSet
      <4>2. \A e, f \in Calls : \A k, l \in DOMAIN cs :
               cs[k] = e /\ cs[l] = f /\ k \in 1 .. l - 1 => e \in Sooner(cs, f)
        BY DEF Sooner
      <4>3. i \in 1 .. j - 1 \/ j \in 1 .. i - 1
        BY <2>2, <4>1
      <4>4. QED
        BY <1>1, <3>1, <3>2, <4>1, <4>2, <4>3
    <3>3. CASE c \in ToSet(cs) /\ d \notin ToSet(cs)
      BY <1>1, <1>7, <3>1, <3>3
    <3>4. CASE c \notin ToSet(cs) /\ d \in ToSet(cs)
      BY <1>1, <1>7, <3>1, <3>4
    <3>5. CASE c \notin ToSet(cs) /\ d \notin ToSet(cs)
      BY <1>1, <1>3, <1>7, <2>2, <3>1, <3>5 DEF InTurn
    <3>6. QED
      BY <3>2, <3>3, <3>4, <3>5
  <2>3. QED
    BY <2>1, <2>2 DEF InTurn
<1>9. ASSUME NEW c \in Calls, InQueue(c)'
      PROVE  \/ asked'[c] = clock
             \/ /\ InQueue(c) /\ asked'[c] = asked[c] /\ Before(c)' \subseteq Before(c)
                /\ Spent' >= Spent \/ Before(c)' # Before(c)
  <2>1. CASE c \in ToSet(cs)
    BY <1>1, <2>1
  <2>2. CASE c \notin ToSet(cs)
    <3>1. c \notin S /\ InQueue(c) /\ asked'[c] = asked[c] /\ Before(c)' \subseteq Before(c)
      BY <1>1, <1>9, <2>2 DEF InQueue, Before
    <3>2. CASE holder \in S /\ holder # NoCall
      <4>1. holder \notin Waiting /\ holder # c
        BY <1>3, <3>1, <3>2 DEF HolderMints, Waiting
      <4>2. holder \in Before(c) /\ holder \notin Before(c)'
        BY <1>1, <1>3, <2>2, <3>1, <3>2, <4>1 DEF InTurn, Before
      <4>3. QED
        BY <3>1, <4>2
    <3>3. CASE ~(holder \in S /\ holder # NoCall)
      <4>1. holder' = holder /\ (holder # NoCall => since'[holder] = since[holder])
        BY <1>1, <1>3, <3>3 DEF HolderMints
      <4>2. Spent' = Spent /\ Spent \in Nat
        BY <1>1, <4>1, SpentBounded DEF Spent, QueueInv
      <4>3. QED
        BY <3>1, <4>2
    <3>4. QED
      BY <3>2, <3>3
  <2>3. QED
    BY <2>1, <2>2
<1>10. InTime'
  BY <1>1, <1>2, <1>5, <1>6, <1>9, InTimeKept
<1>11. QED
  BY <1>5, <1>6, <1>8, <1>10 DEF QueueInv

-----------------------------------------------------------------------------
(* The operations that make those requests.                                *)

\* What is asked for, or found out.
Names == {"page", "overview", "written", "identity", "profile", "roster", "filter",
          "batch", "facts", "match", "moderation", "nobody"}
Steps == [asks : Seq(Names), need : SUBSET Names, once : BOOLEAN, unless : SUBSET Names]

\* A step needs what it asks for, or may take or leave it; the slow pipeline
\* is for a miss of the read model.
OkSteps ==
    {s \in Steps : /\ Len(s.asks) \in {1, 2}
                   /\ ToSet(s.asks) \ s.need \subseteq Supplements
                   /\ s.need \cap Supplements = {}
                   /\ s.asks = <<"match">> => s.unless = {"batch"}}

PlainSteps   == {s \in OkSteps : s.asks # <<"match">>}
AsksBatch(s) == s.asks = <<"batch", "facts">> /\ s.unless = {} /\ s.need = {}

\* The slow pipeline comes right after the read model in p, or after what X tells.
AfterBatch(p, X) ==
    \A i \in 1 .. Len(p) :
        p[i].asks = <<"match">> => "batch" \in X \/ (i > 1 /\ AsksBatch(p[i - 1]))

GoodPlans == {p \in Seq(OkSteps) : AfterBatch(p, {})}

\* All that the steps of the plans have in common.
LEMMA GetStep ==
  ASSUME NEW n \in Names
  PROVE  /\ Get(n) \in Steps /\ Len(Get(n).asks) \in {1, 2} /\ Get(n).asks[1] = n
         /\ Len(Get(n).asks) = 1 /\ ToSet(Get(n).asks) = {n} /\ Get(n).need = {n} /\ Get(n).unless = {}
<1>1. <<n>> \in Seq(Names) /\ Len(<<n>>) = 1 /\ <<n>>[1] = n /\ DOMAIN <<n>> = {1}
  OBVIOUS
<1>2. ToSet(<<n>>) = {n}
  BY <1>1 DEF ToSet
<1>3. QED
  BY <1>1, <1>2 DEF Steps, Get

LEMMA GetIsPlain ==
  ASSUME NEW n \in {"page", "written", "identity", "profile", "roster"}
  PROVE  /\ Get(n) \in PlainSteps /\ Send(n) \in PlainSteps
         /\ \A N \in SUBSET Names : Unless(Get(n), N) \in PlainSteps
<1>1. n \in Names /\ n \notin Supplements /\ n # "match"
  BY DEF Names, Supplements
<1>2. Get(n) \in PlainSteps
  BY <1>1, GetStep DEF PlainSteps, OkSteps
<1>3. Send(n) \in PlainSteps
  BY <1>2 DEF Send, PlainSteps, OkSteps, Steps
<1>4. \A N \in SUBSET Names : Unless(Get(n), N) \in PlainSteps
  BY <1>1, <1>2, GetStep DEF Unless, PlainSteps, OkSteps, Steps
<1>5. QED
  BY <1>2, <1>3, <1>4

LEMMA OptionalStep ==
  ASSUME NEW n \in Supplements
  PROVE  Optional(Get(n)) \in PlainSteps
<1>1. n \in Names /\ n # "match"
  BY DEF Names, Supplements
<1>2. /\ Get(n) \in Steps /\ Len(Get(n).asks) = 1 /\ ToSet(Get(n).asks) = {n}
      /\ Get(n).asks # <<"match">>
  BY <1>1, GetStep
<1>3. /\ Optional(Get(n)) \in Steps /\ Optional(Get(n)).asks = Get(n).asks
      /\ Optional(Get(n)).need = {}
  BY <1>2 DEF Optional, Steps
<1>4. QED
  BY <1>2, <1>3 DEF PlainSteps, OkSteps

LEMMA TryJoinStep ==
  ASSUME NEW m \in Names, NEW n \in Names
  PROVE  /\ TryJoin(m, n) \in Steps /\ TryJoin(m, n).asks = <<m, n>> /\ TryJoin(m, n).need = {m, n}
         /\ TryJoin(m, n).unless = {} /\ Len(<<m, n>>) = 2 /\ ToSet(<<m, n>>) = {m, n}
<1>1. <<m, n>> \in Seq(Names) /\ Len(<<m, n>>) = 2 /\ DOMAIN <<m, n>> = {1, 2}
  OBVIOUS
<1>2. ToSet(<<m, n>>) = {m, n}
  BY <1>1 DEF ToSet
<1>3. Get(m) \in Steps /\ Get(m).unless = {}
  BY GetStep
<1>4. /\ TryJoin(m, n) \in Steps /\ TryJoin(m, n).asks = <<m, n>> /\ TryJoin(m, n).need = {m, n}
      /\ TryJoin(m, n).unless = {}
  <2> DEFINE a == <<m, n>>
  <2> HIDE DEF a
  <2>1. [[Get(m) EXCEPT !.asks = a] EXCEPT !.need = {m, n}] \in Steps
    BY <1>1, <1>3 DEF a, Steps
  <2>2. QED
    BY <1>1, <1>3, <2>1 DEF TryJoin, Steps, a
<1>5. QED
  BY <1>1, <1>2, <1>4

\* A plan without the slow pipeline is good, and so are two of them in turn.
LEMMA PlainPlans ==
  /\ \A p \in Seq(PlainSteps) : p \in GoodPlans
  /\ \A p, q \in Seq(PlainSteps) : p \o q \in Seq(PlainSteps)
  /\ \A s \in PlainSteps : <<s>> \in Seq(PlainSteps)
<1>1. ASSUME NEW p \in Seq(PlainSteps) PROVE p \in GoodPlans
  <2>1. p \in Seq(OkSteps) /\ \A i \in 1 .. Len(p) : p[i] \in PlainSteps
    BY DEF PlainSteps
  <2>2. QED
    BY <2>1 DEF GoodPlans, AfterBatch, PlainSteps
<1>2. \A p, q \in Seq(PlainSteps) : p \o q \in Seq(PlainSteps)
  BY ConcatProperties
<1>3. QED
  BY <1>1, <1>2

\* The methods and the previews that never take the slow pipeline.
LEMMA PlainMethods == (Methods \cup Previews) \ {match_info} \subseteq Seq(PlainSteps)
<1> DEFINE P == Seq(PlainSteps)
<1>1. <<>> \in P /\ (\A p, q \in P : p \o q \in P) /\ \A s \in PlainSteps : <<s>> \in P
  BY PlainPlans
<1>2. /\ <<Get("page")>> \in P /\ <<Send("written")>> \in P /\ <<Get("identity")>> \in P
      /\ <<Get("profile")>> \in P /\ champion_names \in P
  BY <1>1, GetIsPlain DEF champion_names, Names
<1>3. Lookup \in P
  BY <1>1, OptionalStep DEF Lookup, Supplements
<1>4. activity \in P
  <2>1. "page" \in Names /\ "overview" \in Names
    BY DEF Names
  <2>2. /\ "page" \notin Supplements /\ "overview" \notin Supplements
        /\ <<"page", "overview">> # <<"match">>
    BY DEF Supplements
  <2>3. /\ TryJoin("page", "overview") \in Steps
        /\ TryJoin("page", "overview").asks = <<"page", "overview">>
        /\ TryJoin("page", "overview").need = {"page", "overview"}
        /\ Len(<<"page", "overview">>) = 2 /\ ToSet(<<"page", "overview">>) = {"page", "overview"}
    BY <2>1, TryJoinStep
  <2>4. TryJoin("page", "overview") \in OkSteps
    BY <2>2, <2>3 DEF OkSteps
  <2>5. QED
    BY <1>1, <2>2, <2>3, <2>4 DEF activity, PlainSteps
<1> HIDE DEF P
<1>5. resolve_player \in P /\ Profile \in P /\ player \in P /\ live_match \in P
  BY <1>1, <1>2 DEF resolve_player, Profile, player, live_match
<1>6. Methods \ {match_info} \subseteq P
  BY <1>2, <1>4, <1>5 DEF Methods, discord_player, saved_discord_player, champions, champion_id,
     player_champions, leaderboard, status, loadouts, loadouts_response, champion_page_data,
     ranked_maps, ranked_compositions, ranked_items, post_empty, refresh_loadouts,
     save_discord_player, forget_discord_player, player_history, latest_player_match
<1>7. Previews \ {match_info} \subseteq P
  <2>1. /\ preview_player \cup preview_history \cup preview_current \subseteq P
        /\ preview_champion \cup preview_loadout \cup preview_player_champions \subseteq P
    BY <1>1, <1>2, <1>3, <1>5 DEF preview_player, preview_history, preview_current, preview_champion,
       preview_loadout, preview_player_champions, player_history, loadouts, loadouts_response,
       champion_page_data, player_champions
  <2>2. /\ preview_maps \cup preview_composition \cup preview_items \cup preview_leaderboard \subseteq P
        /\ preview_activity \cup preview_status \cup preview_random \subseteq P
    BY <1>1, <1>2, <1>3, <1>4 DEF preview_maps, preview_composition, preview_items,
       preview_leaderboard, preview_activity, preview_status, preview_random, ranked_maps,
       ranked_compositions, ranked_items, leaderboard, status, champions
  <2>3. preview_match \ {match_info} \subseteq P
    BY <1>1 DEF preview_match
  <2>4. QED
    BY <2>1, <2>2, <2>3 DEF Previews
<1>8. QED
  BY <1>6, <1>7 DEF P

LEMMA MatchInfoGood == match_info \in GoodPlans
<1> DEFINE s1 == Join("batch", "facts")
           s2 == Unless(Get("match"), {"batch"})
           s3 == Unless(Facts, {"batch", "facts"})
           s4 == Unless(Optional(Get("moderation")), {"nobody"})
<1>1. {"batch", "facts", "match", "moderation", "nobody"} \subseteq Names
  BY DEF Names
<1>2. s1 \in OkSteps /\ AsksBatch(s1) /\ s1.asks # <<"match">>
  <2>1. /\ TryJoin("batch", "facts") \in Steps /\ TryJoin("batch", "facts").asks = <<"batch", "facts">>
        /\ TryJoin("batch", "facts").unless = {}
        /\ Len(<<"batch", "facts">>) = 2 /\ ToSet(<<"batch", "facts">>) = {"batch", "facts"}
    BY <1>1, TryJoinStep
  <2>2. /\ s1 \in Steps /\ s1.asks = <<"batch", "facts">> /\ s1.unless = {} /\ s1.need = {}
    BY <2>1 DEF Join, Optional, Steps
  <2>3. <<"batch", "facts">> # <<"match">>
    OBVIOUS
  <2> HIDE DEF s1
  <2>4. QED
    BY <2>1, <2>2, <2>3 DEF OkSteps, AsksBatch, Supplements
<1>3. s2 \in OkSteps
  <2>1. /\ Get("match") \in Steps /\ Len(Get("match").asks) = 1 /\ ToSet(Get("match").asks) = {"match"}
        /\ Get("match").need = {"match"}
    BY <1>1, GetStep
  <2>2. /\ s2 \in Steps /\ s2.asks = Get("match").asks /\ s2.need = {"match"} /\ s2.unless = {"batch"}
    BY <1>1, <2>1 DEF Unless, Steps
  <2> HIDE DEF s2
  <2>3. QED
    BY <2>1, <2>2 DEF OkSteps, Supplements
<1>4. s3 \in OkSteps /\ s3.asks # <<"match">>
  BY <1>1, OptionalStep DEF Facts, Unless, PlainSteps, OkSteps, Steps, Supplements
<1>5. s4 \in OkSteps /\ s4.asks # <<"match">>
  BY <1>1, OptionalStep DEF Unless, PlainSteps, OkSteps, Steps, Supplements
<1>6. match_info = <<s1, s2, s3, s4>>
  BY DEF match_info
<1> HIDE DEF s1, s2, s3, s4
<1>7. match_info \in Seq(OkSteps) /\ Len(match_info) = 4
  BY <1>2, <1>3, <1>4, <1>5, <1>6
<1>8. AfterBatch(match_info, {})
  BY <1>2, <1>4, <1>5, <1>6, <1>7 DEF AfterBatch
<1>9. QED
  BY <1>7, <1>8 DEF GoodPlans

LEMMA PlansGood == Methods \cup Previews \subseteq GoodPlans /\ champion_names \in GoodPlans
<1>1. champion_names \in Methods
  BY DEF Methods
<1>2. QED
  BY <1>1, PlainMethods, PlainPlans, MatchInfoGood

LEMMA MinIsLeast ==
  ASSUME NEW D \in SUBSET Nat, D # {}
  PROVE  Min(D) \in D /\ \A m \in D : Min(D) <= m
<1> DEFINE R == OpToRel(<, Nat)
<1>1. IsWellFoundedOn(R, Nat)
  BY NatLessThanWellFounded
<1>2. \A m, n \in Nat : m < n => <<m, n>> \in R
  BY DEF OpToRel
<1> HIDE DEF R
<1>3. D \subseteq Nat
  OBVIOUS
<1>4. PICK n \in D : \A m \in D : ~(<<m, n>> \in R)
  BY <1>1, <1>3, WFMin
<1>5. \A m \in D : n <= m
  <2>1. ASSUME NEW m \in D PROVE n <= m
    <3>1. m \in Nat /\ n \in Nat /\ ~(m < n)
      BY <1>2, <1>3, <1>4
    <3>2. QED
      BY <3>1
  <2>2. QED
    BY <2>1
<1>6. QED
  BY <1>5 DEF Min

\* What is left begins with a step that is due, after those that are not.
LEMMA RestProperties ==
  ASSUME NEW p \in Seq(OkSteps), NEW N, Rest(p, N) # <<>>
  PROVE  \E k \in 1 .. Len(p) :
            /\ Rest(p, N) \in Seq(OkSteps) /\ Len(Rest(p, N)) = Len(p) - k + 1
            /\ \A i \in 1 .. Len(p) - k + 1 : Rest(p, N)[i] = p[i + k - 1]
            /\ p[k].unless \cap N = {}
            /\ \A i \in 1 .. k - 1 : p[i].unless \cap N # {}
<1> DEFINE due == {i \in DOMAIN p : p[i].unless \cap N = {}}
           k   == Min(due)
<1>1. due # {} /\ Rest(p, N) = SubSeq(p, k, Len(p))
  BY DEF Rest
<1>2. due \in SUBSET Nat /\ Len(p) \in Nat /\ DOMAIN p = 1 .. Len(p)
  OBVIOUS
<1>3. k \in due /\ \A m \in due : k <= m
  BY <1>1, <1>2, MinIsLeast
<1>4. k \in 1 .. Len(p) /\ p[k].unless \cap N = {}
  BY <1>2, <1>3
<1>5. ASSUME NEW i \in 1 .. k - 1 PROVE p[i].unless \cap N # {}
  <2>1. i \in DOMAIN p /\ ~(k <= i)
    BY <1>2, <1>4
  <2>2. QED
    BY <1>3, <2>1
<1> HIDE DEF due, k
<1>6. /\ SubSeq(p, k, Len(p)) \in Seq(OkSteps) /\ Len(SubSeq(p, k, Len(p))) = Len(p) - k + 1
      /\ \A i \in 1 .. Len(p) - k + 1 : SubSeq(p, k, Len(p))[i] = p[i + k - 1]
  BY <1>2, <1>4, SubSeqProperties
<1>7. QED
  BY <1>1, <1>4, <1>5, <1>6

\* The read model is never skipped, so that the slow pipeline stays right after it.
LEMMA RestAfterBatch ==
  ASSUME NEW p \in Seq(OkSteps), NEW N, NEW X, AfterBatch(p, X)
  PROVE  /\ Rest(p, N) \in Seq(OkSteps) /\ AfterBatch(Rest(p, N), X)
         /\ Rest(p, N) # <<>> => Head(Rest(p, N)).unless \cap N = {}
<1>1. CASE Rest(p, N) = <<>>
  BY <1>1 DEF AfterBatch
<1>2. CASE Rest(p, N) # <<>>
  <2> DEFINE q == Rest(p, N)
  <2>1. PICK k \in 1 .. Len(p) :
            /\ q \in Seq(OkSteps) /\ Len(q) = Len(p) - k + 1
            /\ \A i \in 1 .. Len(p) - k + 1 : q[i] = p[i + k - 1]
            /\ p[k].unless \cap N = {}
            /\ \A i \in 1 .. k - 1 : p[i].unless \cap N # {}
    BY <1>2, RestProperties
  <2> HIDE DEF q
  <2>2. Len(p) \in Nat /\ k \in Nat /\ 1 <= k /\ k <= Len(p)
    OBVIOUS
  <2>3. ASSUME NEW i \in 1 .. Len(q), q[i].asks = <<"match">>, "batch" \notin X
        PROVE  i > 1 /\ AsksBatch(q[i - 1])
    <3> DEFINE j == i + k - 1
    <3>1. j \in 1 .. Len(p) /\ q[i] = p[j] /\ (i > 1 => i - 1 \in 1 .. Len(p) - k + 1 /\ j - 1 = (i - 1) + k - 1)
      BY <2>1, <2>2
    <3>2. j > 1 /\ AsksBatch(p[j - 1])
      BY <2>3, <3>1 DEF AfterBatch
    <3>3. i > 1
      <4> SUFFICES ASSUME i = 1 PROVE FALSE
        BY <2>1, <2>2
      <4>1. j - 1 \in 1 .. k - 1
        BY <2>2, <3>2
      <4>2. p[j - 1].unless \cap N # {}
        BY <2>1, <4>1
      <4>3. QED
        BY <3>2, <4>2 DEF AsksBatch
    <3>4. q[i - 1] = p[j - 1]
      BY <2>1, <3>1, <3>3
    <3>5. QED
      BY <3>2, <3>3, <3>4
  <2>4. Head(q) = p[k]
    <3>1. 1 \in 1 .. Len(p) - k + 1 /\ q[1] = p[k] /\ q # <<>>
      BY <2>1, <2>2
    <3>2. QED
      BY <2>1, <3>1
  <2>5. QED
    BY <2>1, <2>3, <2>4 DEF q, AfterBatch
<1>3. QED
  BY <1>1, <1>2

\* After the first step of a plan.
LEMMA TailAfterBatch ==
  ASSUME NEW p \in Seq(OkSteps), p # <<>>, NEW X, NEW Y, AfterBatch(p, X),
         "batch" \in X => "batch" \in Y, AsksBatch(Head(p)) => "batch" \in Y
  PROVE  Tail(p) \in Seq(OkSteps) /\ AfterBatch(Tail(p), Y)
<1>1. /\ Tail(p) \in Seq(OkSteps) /\ Len(Tail(p)) = Len(p) - 1 /\ Len(p) \in Nat /\ Head(p) = p[1]
      /\ \A i \in 1 .. Len(p) - 1 : Tail(p)[i] = p[i + 1]
  BY HeadTailProperties
<1>2. ASSUME NEW i \in 1 .. Len(Tail(p)), Tail(p)[i].asks = <<"match">>, "batch" \notin Y
      PROVE  i > 1 /\ AsksBatch(Tail(p)[i - 1])
  <2>1. i + 1 \in 1 .. Len(p) /\ p[i + 1].asks = <<"match">> /\ i \in Nat
    BY <1>1, <1>2
  <2>2. AsksBatch(p[(i + 1) - 1])
    BY <1>2, <2>1 DEF AfterBatch
  <2>3. (i + 1) - 1 = i /\ i # 1
    BY <1>1, <1>2, <2>1, <2>2
  <2>4. i > 1 /\ i - 1 \in 1 .. Len(p) - 1 /\ (i - 1) + 1 = i
    BY <1>1, <2>1, <2>3
  <2>5. QED
    BY <1>1, <2>2, <2>3, <2>4
<1>3. QED
  BY <1>1, <1>2 DEF AfterBatch


-----------------------------------------------------------------------------
OpTyped ==
    /\ plan \in [Ops -> Seq(OkSteps)] /\ got \in [Ops -> SUBSET Names]
    /\ lost \in [Ops -> SUBSET Names]
    /\ result \in [Ops -> {"none", "running", "ok", "error", "dropped"}]

\* While an operation runs it has lost nothing that it needs, it takes the
\* slow pipeline in its turn, and its requests are those of its step.
UnderWay(o) ==
    /\ plan[o] # <<>> /\ lost[o] \subseteq Supplements
    /\ Head(plan[o]).unless \cap got[o] = {}
    /\ AfterBatch(plan[o], got[o] \cup lost[o])
    /\ pc[<<o, 1>>] # "idle"
    /\ \A c \in Lanes(o) : pc[c] # "idle" => c[2] \in 1 .. Len(Head(plan[o]).asks)

Ended(o) ==
    /\ result[o] = "none" => lost[o] = {}
    /\ result[o] = "ok" => lost[o] \subseteq Supplements
    /\ result[o] = "error" => lost[o] \ Supplements # {}

OpInv == OpTyped /\ \A o \in Ops : Ended(o) /\ (Running(o) => UnderWay(o))

\* Every request is one of the two lanes of an operation.
LEMMA CallsAreLanes ==
  /\ \A c \in Calls : c[1] \in Ops /\ c[2] \in {1, 2} /\ c = <<c[1], c[2]>>
  /\ \A o \in Ops : <<o, 1>> \in Calls /\ <<o, 1>> \in Lanes(o)
BY EndpointsAssumption DEF EndpointsAssumption, Lanes

LEMMA HeadOk ==
  ASSUME NEW p \in Seq(OkSteps), p # <<>>
  PROVE  /\ Head(p) \in OkSteps /\ Head(p).asks \in Seq(Names) /\ Head(p) = p[1] /\ 1 \in 1 .. Len(p)
         /\ DOMAIN Head(p).asks = 1 .. Len(Head(p).asks) /\ Len(Head(p).asks) \in {1, 2}
<1>1. Head(p) \in OkSteps /\ Head(p) = p[1] /\ 1 \in 1 .. Len(p)
  OBVIOUS
<1>2. Head(p).asks \in Seq(Names) /\ Len(Head(p).asks) \in {1, 2}
  BY <1>1 DEF OkSteps, Steps
<1>3. QED
  BY <1>1, <1>2

\* What becomes of the requests when those of one operation are replaced.
LEMMA SwitchLanes ==
  ASSUME NEW o \in Ops, NEW cs, NEW once, Switch(Lanes(o), cs, once),
         \A c \in ToSet(cs) : c[1] = o
  PROVE  /\ \A c \in Calls : c[1] # o => pc'[c] = pc[c]
         /\ \A c \in Lanes(o) : pc'[c] = IF c \in ToSet(cs) THEN "waiting" ELSE "idle"
BY DEF Switch, Lanes

LEMMA OthersUnderWay ==
  ASSUME OpInv, NEW o \in Ops, NEW u \in Ops, u # o,
         plan'[u] = plan[u], got'[u] = got[u], lost'[u] = lost[u], result'[u] = result[u],
         \A c \in Calls : c[1] # o => pc'[c] = pc[c]
  PROVE  Ended(u)' /\ (Running(u)' => UnderWay(u)')
<1>1. \A c \in Lanes(u) : pc'[c] = pc[c]
  BY DEF Lanes
<1>2. pc'[<<u, 1>>] = pc[<<u, 1>>]
  BY <1>1, CallsAreLanes
<1>3. QED
  BY <1>1, <1>2 DEF OpInv, Ended, Running, UnderWay, AfterBatch, AsksBatch, Lanes

LEMMA FinishStep ==
  ASSUME OpInv, NEW o \in Ops, NEW r \in {"ok", "error", "dropped"}, NEW L \in SUBSET Names,
         lost' = [lost EXCEPT ![o] = L], Finish(o, r),
         r = "ok" => L \subseteq Supplements, r = "error" => L \ Supplements # {}
  PROVE  OpInv'
<1>1. /\ plan' = [plan EXCEPT ![o] = <<>>] /\ got' = [got EXCEPT ![o] = {}]
      /\ result' = [result EXCEPT ![o] = r] /\ Switch(Lanes(o), <<>>, FALSE)
  BY DEF Finish
<1>2. OpTyped
  BY DEF OpInv
<1>3. OpTyped'
  BY <1>1, <1>2 DEF OpTyped
<1>4. Ended(o)' /\ ~Running(o)'
  BY <1>1, <1>2 DEF OpTyped, Ended, Running
<1>5. \A c \in ToSet(<<>>) : c[1] = o
  BY DEF ToSet
<1>6. \A c \in Calls : c[1] # o => pc'[c] = pc[c]
  BY <1>1, <1>5, SwitchLanes
<1>7. ASSUME NEW u \in Ops, u # o PROVE Ended(u)' /\ (Running(u)' => UnderWay(u)')
  BY <1>1, <1>2, <1>6, <1>7, OthersUnderWay DEF OpTyped
<1>8. QED
  BY <1>3, <1>4, <1>7 DEF OpInv

LEMMA ContinueStep ==
  ASSUME OpInv, NEW o \in Ops, NEW p \in Seq(OkSteps), NEW N \in SUBSET Names,
         NEW L \in SUBSET Names, lost' = [lost EXCEPT ![o] = L], Continue(o, p, N),
         L \subseteq Supplements, AfterBatch(p, N \cup L),
         p # <<>> => Head(p).unless \cap N = {}
  PROVE  OpInv'
<1>1. CASE p = <<>>
  BY <1>1, FinishStep DEF Continue
<1>2. CASE p # <<>>
  <2> DEFINE cs == [i \in DOMAIN Head(p).asks |-> <<o, i>>]
  <2>1. /\ plan' = [plan EXCEPT ![o] = p] /\ got' = [got EXCEPT ![o] = N]
        /\ result' = [result EXCEPT ![o] = "running"] /\ Switch(Lanes(o), cs, Head(p).once)
    BY <1>2 DEF Continue
  <2>2. OpTyped
    BY DEF OpInv
  <2>3. OpTyped'
    BY <2>1, <2>2 DEF OpTyped
  <2>4. ASSUME NEW c \in ToSet(cs) PROVE c[1] = o /\ c[2] \in DOMAIN Head(p).asks
    <3>1. PICK i \in DOMAIN Head(p).asks : c = <<o, i>>
      BY DEF ToSet
    <3>2. QED
      BY <3>1
  <2>5. <<o, 1>> \in ToSet(cs)
    <3>1. 1 \in DOMAIN Head(p).asks /\ cs[1] = <<o, 1>>
      BY <1>2, HeadOk
    <3>2. QED
      BY <3>1 DEF ToSet
  <2> HIDE DEF cs
  <2>6. /\ \A c \in Calls : c[1] # o => pc'[c] = pc[c]
        /\ \A c \in Lanes(o) : pc'[c] = IF c \in ToSet(cs) THEN "waiting" ELSE "idle"
    BY <2>1, <2>4, SwitchLanes
  <2>7. plan'[o] = p /\ got'[o] = N /\ lost'[o] = L /\ result'[o] = "running"
    BY <2>1, <2>2 DEF OpTyped
  <2>8. Lanes(o)' = Lanes(o)
    BY DEF Lanes
  <2>9. UnderWay(o)'
    <3>1. pc'[<<o, 1>>] # "idle"
      BY <2>5, <2>6, CallsAreLanes
    <3>2. \A c \in Lanes(o) : pc'[c] # "idle" => c[2] \in 1 .. Len(Head(p).asks)
      BY <1>2, <2>4, <2>6, HeadOk
    <3>3. AfterBatch(plan[o], got[o] \cup lost[o])'
      BY <2>7 DEF AfterBatch, AsksBatch
    <3>4. QED
      BY <1>2, <2>7, <2>8, <3>1, <3>2, <3>3 DEF UnderWay
  <2>10. Ended(o)'
    BY <2>7 DEF Ended
  <2>11. ASSUME NEW u \in Ops, u # o PROVE Ended(u)' /\ (Running(u)' => UnderWay(u)')
    BY <2>1, <2>2, <2>6, <2>11, OthersUnderWay DEF OpTyped
  <2>12. QED
    BY <2>3, <2>9, <2>10, <2>11 DEF OpInv
<1>3. QED
  BY <1>1, <1>2

LEMMA InitOpInv == OpInit => OpInv
BY DEF OpInit, OpInv, OpTyped, Ended, Running

\* An operation starts with one of the plans, from its beginning.
LEMMA StartStep == ASSUME OpInv, NEW o \in Ops, Start(o) PROVE OpInv'
<1>1. PICK p \in Methods \cup Previews :
         Continue(o, Rest(p, IF roster THEN {"roster"} ELSE {}), {})
  <2>1. champion_names \in Methods
    BY DEF Methods
  <2>2. QED
    BY <2>1 DEF Start
<1> DEFINE q == Rest(p, IF roster THEN {"roster"} ELSE {})
<1>2. p \in Seq(OkSteps) /\ AfterBatch(p, {})
  BY PlansGood DEF GoodPlans
<1>3. q \in Seq(OkSteps) /\ AfterBatch(q, {})
  BY <1>2, RestAfterBatch
<1> HIDE DEF q
<1>4. /\ lost[o] = {} /\ lost' = [lost EXCEPT ![o] = {}] /\ {} \in SUBSET Names
  BY DEF Start, OpInv, Ended, OpTyped
<1>5. QED
  BY <1>1, <1>3, <1>4, ContinueStep DEF q

\* It asks for nothing, or nobody waits for it any more.
LEMMA RefuseStep == ASSUME OpInv, NEW o \in Ops, Refuse(o) PROVE OpInv'
<1>1. /\ {"identity"} \in SUBSET Names /\ {"identity"} \ Supplements # {}
  BY DEF Names, Supplements
<1>2. QED
  BY <1>1, FinishStep DEF Refuse

LEMMA AbandonStep == ASSUME OpInv, NEW o \in Ops, Abandon(o) PROVE OpInv'
<1>1. lost[o] \in SUBSET Names /\ lost' = [lost EXCEPT ![o] = lost[o]] /\ Finish(o, "dropped")
  BY DEF Abandon, OpInv, OpTyped
<1>2. QED
  BY <1>1, FinishStep


\* A step is over: whatever it lacks is lost, and the rest begins without it.
LEMMA ProceedStep == ASSUME OpInv, NEW o \in Ops, Proceed(o) PROVE OpInv'
<1> DEFINE step == Head(plan[o])
           done == {c \in Lanes(o) : pc[c] = "done"}
           Asked(C) == {step.asks[c[2]] : c \in C}
           ok == Asked({c \in done : answer[c] = "ok"})
           Outcome(new) ==
               LET all   == got[o] \cup (new \cap Noted)
                   not   == Asked(done) \ new
                   fails == not \cap step.need # {} IN
               /\ fails \/ \A c \in Lanes(o) : pc[c] \in {"idle", "done"}
               /\ lost' = [lost EXCEPT ![o] = @ \cup not]
               /\ IF fails THEN Finish(o, "error") ELSE Continue(o, Rest(Tail(plan[o]), all), all)
<1>1. PICK new : Outcome(new)
  BY DEF Proceed
<1> DEFINE all == got[o] \cup (new \cap Noted)
           not == Asked(done) \ new
           L   == lost[o] \cup not
<1>2. /\ OpTyped /\ UnderWay(o) /\ plan[o] \in Seq(OkSteps) /\ plan[o] # <<>>
      /\ got[o] \in SUBSET Names /\ lost[o] \in SUBSET Names
  BY DEF OpInv, OpTyped, Proceed, Running, UnderWay
<1>3. step \in OkSteps /\ step.asks \in Seq(Names) /\ DOMAIN step.asks = 1 .. Len(step.asks)
  BY <1>2, HeadOk
<1>4. \A c \in done : c[2] \in DOMAIN step.asks
  BY <1>2, <1>3 DEF UnderWay
<1>5. Asked(done) \subseteq ToSet(step.asks) /\ Asked(done) \subseteq Names
  BY <1>3, <1>4 DEF ToSet
<1>6. not \in SUBSET Names /\ L \in SUBSET Names /\ lost' = [lost EXCEPT ![o] = L]
  BY <1>1, <1>2, <1>5
<1>7. all \in SUBSET Names
  BY <1>2 DEF Noted, Names
<1>8. CASE not \cap step.need # {}
  <2>1. Finish(o, "error")
    BY <1>1, <1>8
  <2>2. L \ Supplements # {}
    BY <1>3, <1>8 DEF OkSteps
  <2> HIDE DEF L, not, step
  <2>3. QED
    BY <1>6, <2>1, <2>2, FinishStep
<1>9. CASE not \cap step.need = {}
  <2>1. /\ Continue(o, Rest(Tail(plan[o]), all), all)
        /\ \A c \in Lanes(o) : pc[c] \in {"idle", "done"}
    BY <1>1, <1>9
  <2>2. L \subseteq Supplements
    <3>1. not \subseteq ToSet(step.asks) \ step.need
      BY <1>5, <1>9
    <3>2. QED
      BY <1>2, <1>3, <3>1 DEF OkSteps, UnderWay
  <2>3. AsksBatch(step) => "batch" \in all \cup L
    <3> SUFFICES ASSUME AsksBatch(step) PROVE "batch" \in all \cup L
      OBVIOUS
    <3>1. <<o, 1>> \in done
      BY <1>2, <2>1, CallsAreLanes DEF UnderWay
    <3>2. step.asks[1] = "batch"
      BY DEF AsksBatch
    <3>3. "batch" \in Asked(done)
      BY <3>1, <3>2
    <3>4. "batch" \in new \/ "batch" \in not
      BY <3>3
    <3>5. QED
      BY <3>4 DEF Noted
  <2> DEFINE t == Tail(plan[o])
             X == got[o] \cup lost[o]
             Y == all \cup L
  <2>4. AfterBatch(plan[o], X) /\ X \subseteq Y
    BY <1>2 DEF UnderWay
  <2> HIDE DEF X, Y, all, L, not, done
  <2>5. t \in Seq(OkSteps) /\ AfterBatch(t, Y)
    BY <1>2, <2>3, <2>4, TailAfterBatch DEF Y
  <2>6. /\ Rest(t, all) \in Seq(OkSteps) /\ AfterBatch(Rest(t, all), Y)
        /\ Rest(t, all) # <<>> => Head(Rest(t, all)).unless \cap all = {}
    BY <2>5, RestAfterBatch
  <2> HIDE DEF t, step
  <2>7. QED
    BY <1>6, <1>7, <2>1, <2>2, <2>6, ContinueStep DEF t, Y
<1>10. QED
  BY <1>8, <1>9

\* A request goes its way in the operation that made it.
LEMMA RequestUnderWay ==
  ASSUME OpInv, NEW c \in Calls, Request(c) \/ Issue(c), UNCHANGED opVars, pc \in [Calls -> Places]
  PROVE  OpInv'
<1>1. pc[c] # "idle" /\ \E l \in Places \ {"idle"} : pc' = [pc EXCEPT ![c] = l]
  BY DEF Request, Issue, Acquire, Minted, MintFails, Answered, Retry, Become, End, Places
<1>2. \A d \in Calls : pc'[d] = "idle" <=> pc[d] = "idle"
  BY <1>1
<1>3. UNCHANGED <<plan, got, lost, result>>
  BY DEF opVars
<1>4. \A o \in Ops : UnderWay(o) => UnderWay(o)'
  BY <1>2, <1>3, CallsAreLanes DEF UnderWay, Lanes, AfterBatch, AsksBatch
<1>5. QED
  BY <1>3, <1>4 DEF OpInv, OpTyped, Ended, Running

\* Everything about the requests and about the operations that make them.
CallsInv == ApiInv /\ QueueInv /\ OpInv

\* Different requests of o, one after the other.
Queues(o, cs) ==
    /\ \E n \in Nat : DOMAIN cs = 1 .. n /\ \A i, j \in 1 .. n : cs[i] = cs[j] => i = j
    /\ \A c \in Calls : c \in ToSet(cs) => c \in Lanes(o)

\* An operation replaces its requests by others of its own.
LEMMA OperationSwitches ==
  ASSUME OpInv, NEW o \in Ops, Start(o) \/ Refuse(o) \/ Proceed(o) \/ Abandon(o)
  PROVE  \E cs, once : Switch(Lanes(o), cs, once) /\ Queues(o, cs)
<1>1. ASSUME NEW r, Finish(o, r)
      PROVE  \E cs, once : Switch(Lanes(o), cs, once) /\ Queues(o, cs)
  <2>1. Switch(Lanes(o), <<>>, FALSE)
    BY <1>1 DEF Finish
  <2>2. DOMAIN <<>> = 1 .. 0 /\ 0 \in Nat
    OBVIOUS
  <2>3. ToSet(<<>>) = {}
    BY DEF ToSet
  <2>4. Queues(o, <<>>)
    BY <2>2, <2>3 DEF Queues
  <2>5. QED
    BY <2>1, <2>4
<1>2. ASSUME NEW p \in Seq(OkSteps), NEW N, Continue(o, p, N)
      PROVE  \E cs, once : Switch(Lanes(o), cs, once) /\ Queues(o, cs)
  <2>1. CASE p = <<>>
    BY <1>1, <1>2, <2>1 DEF Continue
  <2>2. CASE p # <<>>
    <3> DEFINE cs == [i \in DOMAIN Head(p).asks |-> <<o, i>>]
    <3>1. Switch(Lanes(o), cs, Head(p).once)
      BY <1>2, <2>2 DEF Continue
    <3>2. DOMAIN cs = 1 .. Len(Head(p).asks) /\ Len(Head(p).asks) \in Nat
      BY <2>2, HeadOk
    <3>3. ASSUME NEW c \in Calls, c \in ToSet(cs) PROVE c \in Lanes(o)
      <4>1. PICK i \in DOMAIN Head(p).asks : c = <<o, i>>
        BY <3>3 DEF ToSet
      <4>2. QED
        BY <4>1 DEF Lanes
    <3>4. \A i, j \in DOMAIN cs : cs[i] = cs[j] => i = j
      OBVIOUS
    <3> HIDE DEF cs
    <3>5. QED
      BY <3>1, <3>2, <3>3, <3>4 DEF Queues
  <2>3. QED
    BY <2>1, <2>2
<1>3. CASE Start(o)
  <2>1. champion_names \in Methods
    BY DEF Methods
  <2>2. PICK p \in Methods \cup Previews :
           Continue(o, Rest(p, IF roster THEN {"roster"} ELSE {}), {})
    BY <1>3, <2>1 DEF Start
  <2>3. Rest(p, IF roster THEN {"roster"} ELSE {}) \in Seq(OkSteps)
    BY PlansGood, RestAfterBatch DEF GoodPlans
  <2>4. QED
    BY <1>2, <2>2, <2>3
<1>4. CASE Refuse(o) \/ Abandon(o)
  BY <1>1, <1>4 DEF Refuse, Abandon
<1>5. CASE Proceed(o)
  <2>1. /\ plan[o] \in Seq(OkSteps) /\ plan[o] # <<>>
        /\ AfterBatch(plan[o], got[o] \cup lost[o])
    BY <1>5 DEF OpInv, OpTyped, Proceed, UnderWay
  <2>2. Finish(o, "error") \/ \E N : Continue(o, Rest(Tail(plan[o]), N), N)
    BY <1>5 DEF Proceed
  <2>3. Tail(plan[o]) \in Seq(OkSteps)
    BY <2>1
  <2>4. AfterBatch(Tail(plan[o]), {"batch"})
    BY <2>1, TailAfterBatch
  <2>5. \A N : Rest(Tail(plan[o]), N) \in Seq(OkSteps)
    BY <2>3, <2>4, RestAfterBatch
  <2>6. QED
    BY <1>1, <1>2, <2>2, <2>5
<1>6. QED
  BY <1>3, <1>4, <1>5

LEMMA CallsStep ==
  ASSUME CallsInv, [OpNext]_<<apiVars, opVars>>
  PROVE  CallsInv'
<1> USE DEF CallsInv
<1>1. ApiInv'
  BY ApiStep
<1>2. CASE UNCHANGED <<apiVars, opVars>>
  <2>1. QueueInv'
    BY <1>2 DEF QueueInv, QueueTyped, HolderMints, InTurn, InTime, InQueue, Waiting, Before, Room,
       Spent, apiVars
  <2>2. OpInv'
    BY <1>2 DEF OpInv, OpTyped, Ended, Running, UnderWay, Lanes, AfterBatch, AsksBatch, apiVars, opVars
  <2>3. QED
    BY <1>1, <2>1, <2>2
<1>3. ASSUME NEW o \in Ops, Start(o) \/ Refuse(o) \/ Proceed(o) \/ Abandon(o)
      PROVE  QueueInv' /\ OpInv'
  <2>1. PICK cs, once : Switch(Lanes(o), cs, once) /\ Queues(o, cs)
    BY <1>3, OperationSwitches
  <2>2. QueueInv'
    BY <2>1, SwitchInTurn DEF Queues
  <2>3. QED
    BY <1>3, <2>2, StartStep, RefuseStep, ProceedStep, AbandonStep
<1>4. ASSUME NEW c \in Calls, Request(c) \/ Issue(c), UNCHANGED opVars
      PROVE  QueueInv' /\ OpInv'
  <2>1. QueueInv'
    BY <1>4, AcquireInTurn, UnlockInTurn, RetryInTurn, QuietInTurn DEF Request
  <2>2. QED
    BY <1>4, <2>1, RequestUnderWay DEF ApiInv, ApiTyped
<1>5. CASE Tick /\ UNCHANGED opVars
  <2>1. OpInv'
    BY <1>5 DEF OpInv, OpTyped, Ended, Running, UnderWay, Lanes, AfterBatch, AsksBatch, Tick, opVars
  <2>2. QED
    BY <1>1, <1>5, <2>1, TickInTurn
<1>6. CASE RosterExpires
  <2>1. UNCHANGED <<apiVars, plan, got, lost, result>>
    BY <1>6 DEF RosterExpires
  <2>2. QueueInv'
    BY <2>1 DEF QueueInv, QueueTyped, HolderMints, InTurn, InTime, InQueue, Waiting, Before, Room,
       Spent, apiVars
  <2>3. OpInv'
    BY <2>1 DEF OpInv, OpTyped, Ended, Running, UnderWay, Lanes, AfterBatch, AsksBatch, apiVars
  <2>4. QED
    BY <1>1, <2>2, <2>3
<1>7. QED
  BY <1>1, <1>2, <1>3, <1>4, <1>5, <1>6 DEF OpNext, Task, Lanes

\* Everything above, in every state of the requests and of the operations.
THEOREM CallsInvariance == OpSpec => []CallsInv
<1>1. OpInit => CallsInv
  BY InitApiInv, InitQueueInv, InitOpInv DEF CallsInv
<1>2. CallsInv /\ [OpNext]_<<apiVars, opVars>> => CallsInv'
  BY CallsStep
<1>3. QED
  BY <1>1, <1>2, PTL DEF OpSpec

-----------------------------------------------------------------------------
\* The waiters stand in a line: nobody waits behind itself, nor two behind each
\* other.
InLine ==
    /\ \A c, d \in Calls : c \in ahead[d] => d \notin ahead[c]
    /\ \A c, d, e \in Calls : c \in ahead[d] /\ d \in ahead[e] => c \in ahead[e]

\* Those that start together, one each, line up behind those that stay.
LEMMA SwitchKeepsLine ==
  ASSUME QueueInv, InLine, NEW S, NEW cs, NEW once, Switch(S, cs, once),
         NEW n \in Nat, DOMAIN cs = 1 .. n, \A i, j \in 1 .. n : cs[i] = cs[j] => i = j,
         \A c \in Calls : c \in ToSet(cs) => c \in S
  PROVE  InLine'
<1> DEFINE New(c) == c \in ToSet(cs)
<1>1. ahead' = [c \in Calls |-> IF New(c) THEN (Waiting \ S) \cup Sooner(cs, c)
                                ELSE (IF c \in S THEN {} ELSE ahead[c]) \ S]
  BY DEF Switch
<1>2. /\ \A c \in Calls : New(c) => c \in S
      /\ \A c \in Calls : ahead[c] \subseteq Waiting
      /\ Waiting \subseteq Calls
  BY DEF QueueInv, InTurn, Waiting
<1>3. \A c, d \in Calls : c \in Sooner(cs, d) => New(c) /\ New(d) /\ d \notin Sooner(cs, c)
  <2> SUFFICES ASSUME NEW c \in Calls, NEW d \in Calls, c \in Sooner(cs, d)
               PROVE  New(c) /\ New(d) /\ d \notin Sooner(cs, c)
    OBVIOUS
  <2>1. PICK i \in 1 .. n : cs[i] = d /\ \E j \in 1 .. i - 1 : cs[j] = c
    BY DEF Sooner
  <2>2. PICK j \in 1 .. i - 1 : cs[j] = c
    BY <2>1
  <2>3. New(c) /\ New(d)
    BY <2>1, <2>2 DEF ToSet
  <2>4. ASSUME d \in Sooner(cs, c) PROVE FALSE
    <3>1. PICK k \in 1 .. n : cs[k] = c /\ \E l \in 1 .. k - 1 : cs[l] = d
      BY <2>4 DEF Sooner
    <3>2. PICK l \in 1 .. k - 1 : cs[l] = d
      BY <3>1
    <3>3. k = j /\ l = i
      <4>1. j \in 1 .. n /\ l \in 1 .. n
        BY <2>2, <3>2
      <4>2. QED
        BY <2>1, <2>2, <3>1, <3>2, <4>1
    <3>4. QED
      BY <2>2, <3>2, <3>3
  <2>5. QED
    BY <2>3, <2>4
<1>4. \A c, d, e \in Calls : c \in Sooner(cs, d) /\ d \in Sooner(cs, e) => c \in Sooner(cs, e)
  <2> SUFFICES ASSUME NEW c \in Calls, NEW d \in Calls, NEW e \in Calls,
                      c \in Sooner(cs, d), d \in Sooner(cs, e)
               PROVE  c \in Sooner(cs, e)
    OBVIOUS
  <2>1. PICK i \in 1 .. n : cs[i] = e /\ \E j \in 1 .. i - 1 : cs[j] = d
    BY DEF Sooner
  <2>2. PICK j \in 1 .. i - 1 : cs[j] = d
    BY <2>1
  <2>3. PICK k \in 1 .. n : cs[k] = d /\ \E l \in 1 .. k - 1 : cs[l] = c
    BY DEF Sooner
  <2>4. PICK l \in 1 .. k - 1 : cs[l] = c
    BY <2>3
  <2>5. j \in 1 .. n
    BY <2>2
  <2>6. k = j
    BY <2>2, <2>3, <2>5
  <2>7. l \in 1 .. i - 1
    BY <2>2, <2>4, <2>6
  <2>8. QED
    BY <2>1, <2>4, <2>7 DEF Sooner
<1> HIDE DEF New
<1>5. ASSUME NEW c \in Calls, NEW d \in Calls, c \in ahead'[d] PROVE d \notin ahead'[c]
  <2>1. CASE New(c) /\ New(d)
    BY <1>1, <1>2, <1>3, <1>5, <2>1
  <2>2. CASE ~New(c) /\ New(d)
    BY <1>1, <1>2, <2>2
  <2>3. CASE ~New(d)
    <3>1. c \in ahead[d] /\ c \notin S /\ ~New(c)
      BY <1>1, <1>2, <1>5, <2>3
    <3>2. QED
      BY <1>1, <2>3, <3>1 DEF InLine
  <2>4. QED
    BY <2>1, <2>2, <2>3
<1>6. ASSUME NEW c \in Calls, NEW d \in Calls, NEW e \in Calls, c \in ahead'[d], d \in ahead'[e]
      PROVE  c \in ahead'[e]
  <2>1. CASE New(d)
    <3>1. d \in Sooner(cs, e) /\ New(e)
      BY <1>1, <1>2, <1>6, <2>1
    <3>2. c \in Waiting \ S \/ c \in Sooner(cs, d)
      BY <1>1, <1>6, <2>1
    <3>3. QED
      BY <1>1, <1>4, <3>1, <3>2
  <2>2. CASE ~New(d)
    <3>1. c \in ahead[d] /\ c \notin S
      BY <1>1, <1>6, <2>2
    <3>2. CASE New(e)
      BY <1>1, <1>2, <3>1, <3>2
    <3>3. CASE ~New(e)
      <4>1. d \in ahead[e] /\ e \notin S
        BY <1>1, <1>6, <3>3
      <4>2. c \in ahead[e]
        BY <3>1, <4>1 DEF InLine
      <4>3. QED
        BY <1>1, <3>1, <3>3, <4>1, <4>2
    <3>4. QED
      BY <3>2, <3>3
  <2>3. QED
    BY <2>1, <2>2
<1>7. QED
  BY <1>5, <1>6 DEF InLine

LEMMA RequestKeepsLine ==
  ASSUME QueueInv, InLine, NEW c \in Calls, Request(c) \/ Issue(c)
  PROVE  InLine'
<1> USE DEF QueueInv, QueueTyped, InLine
<1>1. CASE Acquire(c)
  <2>1. ahead' = [d \in Calls |-> ahead[d] \ {c}]
    BY <1>1 DEF Acquire
  <2>2. ahead[c] = {}
    BY <1>1 DEF Acquire
  <2>3. \A d, e \in Calls : d \in ahead'[e] <=> d \in ahead[e] /\ d # c
    BY <2>1
  <2>4. QED
    BY <2>3
<1>2. CASE Retry(c)
  <2>1. ahead' = [ahead EXCEPT ![c] = Waiting] /\ c \notin Waiting
    BY <1>2 DEF Retry, Set, Waiting
  <2>2. \A d \in Calls : ahead[d] \subseteq Waiting
    BY DEF InTurn
  <2>3. \A d \in Calls : c \notin ahead'[d]
    BY <2>1, <2>2
  <2>4. \A d, e \in Calls : d \in ahead'[e] => d # c /\ ahead'[d] = ahead[d]
    BY <2>1, <2>3
  <2>5. QED
    BY <2>1, <2>2, <2>3, <2>4
<1>3. CASE Minted(c) \/ MintFails(c) \/ Answered(c) \/ Issue(c)
  BY <1>3 DEF Minted, MintFails, Answered, Issue
<1>4. QED
  BY <1>1, <1>2, <1>3 DEF Request

\* In every state the requests that wait for the token stand in a line.
THEOREM LineInvariance == OpSpec => []InLine
<1>1. OpInit => InLine
  BY DEF OpInit, ApiInit, InLine
<1>2. CallsInv /\ InLine /\ [OpNext]_<<apiVars, opVars>> => InLine'
  <2> SUFFICES ASSUME CallsInv, InLine, [OpNext]_<<apiVars, opVars>> PROVE InLine'
    OBVIOUS
  <2>1. CASE UNCHANGED apiVars
    BY <2>1 DEF InLine, apiVars
  <2>2. ASSUME NEW o \in Ops, Start(o) \/ Refuse(o) \/ Proceed(o) \/ Abandon(o)
        PROVE  InLine'
    <3>1. PICK cs, once : /\ Switch(Lanes(o), cs, once) /\ Queues(o, cs)
      BY <2>2, OperationSwitches DEF CallsInv
    <3>2. QED
      BY <3>1, SwitchKeepsLine DEF CallsInv, Queues
  <2>3. CASE Tick
    BY <2>3 DEF Tick, InLine
  <2>4. QED
    BY <2>1, <2>2, <2>3, RequestKeepsLine
       DEF CallsInv, OpNext, Task, Lanes, RosterExpires, apiVars
<1>3. QED
  BY <1>1, <1>2, CallsInvariance, PTL DEF OpSpec

\* While requests wait for the token, one of them is next: the mutex is theirs as
\* soon as it is free, so that the clock never stands still for good and the bound
\* of TokenWaitsBounded is not an empty one.
THEOREM SomebodyIsNext ==
  OpSpec => [](Waiting # {} => \E c \in Waiting : ahead[c] = {})
<1>1. CallsInv /\ InLine => (Waiting # {} => \E c \in Waiting : ahead[c] = {})
  <2> SUFFICES ASSUME CallsInv, InLine, Waiting # {} PROVE \E c \in Waiting : ahead[c] = {}
    OBVIOUS
  <2> DEFINE Length(c) == Cardinality(ahead[c])
             Lengths   == {Length(c) : c \in Waiting}
  <2>1. \A c \in Calls : ahead[c] \subseteq Waiting
    BY DEF CallsInv, QueueInv, InTurn
  <2>2. Waiting \subseteq Calls
    BY DEF Waiting
  <2>3. \A c \in Waiting : IsFiniteSet(ahead[c]) /\ Length(c) \in Nat
    BY <2>1, <2>2, ApiAssumption, FS_Subset, FS_CardinalityType DEF ApiAssumption
  <2>4. Lengths \in SUBSET Nat /\ Lengths # {}
    BY <2>3
  <2>5. PICK c \in Waiting : \A d \in Waiting : Length(c) <= Length(d)
    <3> HIDE DEF Length
    <3>1. Min(Lengths) \in Lengths /\ \A m \in Lengths : Min(Lengths) <= m
      BY <2>4, MinIsLeast
    <3>2. PICK c \in Waiting : Min(Lengths) = Length(c)
      BY <3>1
    <3>3. QED
      BY <3>1, <3>2
  <2>6. ASSUME NEW d \in ahead[c] PROVE FALSE
    <3>1. d \in Waiting /\ d \in Calls /\ c \in Calls
      BY <2>1, <2>2
    <3>2. d \notin ahead[d] /\ ahead[d] \subseteq ahead[c] /\ ahead[d] # ahead[c]
      BY <2>1, <2>2, <3>1 DEF InLine
    <3>3. Length(d) < Length(c)
      <4>1. /\ IsFiniteSet(ahead[c]) /\ Length(c) \in Nat /\ Length(d) \in Nat
            /\ ahead[d] \in SUBSET ahead[c]
        BY <2>3, <3>1, <3>2
      <4>2. Cardinality(ahead[d]) <= Cardinality(ahead[c])
        BY <4>1, FS_Subset
      <4>3. Cardinality(ahead[d]) # Cardinality(ahead[c])
        BY <3>2, <4>1, FS_Subset
      <4>4. QED
        BY <4>1, <4>2, <4>3
    <3>4. Length(c) <= Length(d)
      BY <2>5, <3>1
    <3>5. QED
      BY <2>3, <3>1, <3>3, <3>4
  <2>7. QED
    BY <2>6
<1>2. QED
  BY <1>1, CallsInvariance, LineInvariance, PTL

-----------------------------------------------------------------------------
\* Who backs off has an attempt left, and the clock is one the model reaches.
TriesInv ==
    /\ clock \in 1 .. MaxClock
    /\ attempt \in [Calls -> 0 .. Delays - 1]
    /\ answer \in [Calls -> {"none", "ok", "error"}]
    /\ \A c \in Calls : pc[c] = "backoff" => attempt[c] + 1 < Delays

LEMMA SwitchKeepsTries ==
  ASSUME TriesInv, NEW S, NEW cs, NEW once, Switch(S, cs, once)
  PROVE  TriesInv'
<1>1. /\ clock' = clock
      /\ attempt' = [c \in Calls |-> IF c \in ToSet(cs) /\ once THEN Delays - 1
                                     ELSE IF c \in S THEN 0 ELSE attempt[c]]
      /\ answer' = [c \in Calls |-> IF c \in S THEN "none" ELSE answer[c]]
      /\ pc' = [c \in Calls |-> IF c \in ToSet(cs) THEN "waiting"
                                ELSE IF c \in S THEN "idle" ELSE pc[c]]
  BY DEF Switch
<1>2. Delays - 1 \in 0 .. Delays - 1 /\ 0 \in 0 .. Delays - 1
  BY ApiAssumption DEF ApiAssumption
<1>3. attempt' \in [Calls -> 0 .. Delays - 1] /\ answer' \in [Calls -> {"none", "ok", "error"}]
  BY <1>1, <1>2 DEF TriesInv
<1>4. ASSUME NEW c \in Calls, pc'[c] = "backoff" PROVE attempt'[c] + 1 < Delays
  <2>1. c \notin ToSet(cs) /\ c \notin S
    BY <1>1, <1>4
  <2>2. QED
    BY <1>1, <1>4, <2>1 DEF TriesInv
<1>5. QED
  BY <1>1, <1>3, <1>4 DEF TriesInv

LEMMA RequestKeepsTries ==
  ASSUME ApiInv, TriesInv, NEW c \in Calls, Request(c) \/ Issue(c)
  PROVE  TriesInv'
<1> USE ApiAssumption DEF ApiAssumption, TriesInv
<1>1. pc \in [Calls -> Places]
  BY DEF ApiInv, ApiTyped
<1>2. CASE Answered(c)
  <2>1. /\ clock' = clock /\ attempt' = attempt
        /\ \/ \E a \in {"ok", "error"} :
                 pc' = [pc EXCEPT ![c] = "done"] /\ answer' = [answer EXCEPT ![c] = a]
           \/ ~Exhausted(c) /\ pc' = [pc EXCEPT ![c] = "backoff"] /\ answer' = answer
    BY <1>2 DEF Answered, End, Become
  <2>2. QED
    BY <1>1, <2>1 DEF Exhausted
<1>3. CASE Retry(c)
  <2>1. /\ clock' = clock /\ answer' = answer /\ pc[c] = "backoff"
        /\ attempt' = [attempt EXCEPT ![c] = @ + 1] /\ pc' = [pc EXCEPT ![c] = "waiting"]
    BY <1>3 DEF Retry, Become
  <2>2. attempt[c] + 1 \in 0 .. Delays - 1
    BY <2>1
  <2>3. QED
    BY <1>1, <2>1, <2>2
<1>4. CASE Acquire(c) \/ Issue(c) \/ Minted(c)
  <2>1. /\ clock' = clock /\ answer' = answer /\ attempt' = attempt
        /\ \E l \in {"sending", "minting", "issued"} : pc' = [pc EXCEPT ![c] = l]
    BY <1>4 DEF Acquire, Issue, Minted, Become
  <2>2. QED
    BY <1>1, <2>1
<1>5. CASE MintFails(c)
  BY <1>1, <1>5 DEF MintFails, End, Become
<1>6. QED
  BY <1>2, <1>3, <1>4, <1>5 DEF Request

\* The variables of the requests keep their types, no request makes more
\* attempts than the array of delays has entries (get_json_impl), and nobody
\* holds the token's mutex but to mint.
THEOREM ApiTypeCorrect == OpSpec => []ApiTypeOK
<1>1. OpInit => TriesInv
  BY ApiAssumption DEF ApiAssumption, OpInit, ApiInit, TriesInv
<1>2. ApiInv /\ TriesInv /\ [OpNext]_<<apiVars, opVars>> => TriesInv'
  <2> SUFFICES ASSUME ApiInv, TriesInv, [OpNext]_<<apiVars, opVars>> PROVE TriesInv'
    OBVIOUS
  <2>1. CASE UNCHANGED apiVars
    BY <2>1 DEF TriesInv, apiVars
  <2>2. ASSUME NEW o \in Ops, Start(o) \/ Refuse(o) \/ Proceed(o) \/ Abandon(o)
        PROVE  TriesInv'
    BY <2>2, SwitchKeepsTries DEF Start, Refuse, Proceed, Abandon, Continue, Finish
  <2>3. CASE Tick
    <3>1. clock \in 1 .. MaxClock /\ clock < MaxClock /\ clock' = clock + 1 /\ MaxClock \in Nat
      BY <2>3, ApiAssumption DEF Tick, TriesInv, ApiAssumption
    <3>2. clock' \in 1 .. MaxClock
      BY <3>1
    <3>3. QED
      BY <2>3, <3>2 DEF Tick, TriesInv
  <2>4. QED
    BY <2>1, <2>2, <2>3, RequestKeepsTries
       DEF OpNext, Task, Lanes, RosterExpires, apiVars
<1>3. CallsInv /\ InLine /\ TriesInv => ApiTypeOK
  <2> SUFFICES ASSUME CallsInv, InLine, TriesInv PROVE ApiTypeOK
    OBVIOUS
  <2>1. /\ pc \in [Calls -> Places]
        /\ holder # NoCall => pc[holder] \in {"minting", "issued"}
    BY DEF CallsInv, ApiInv, ApiTyped, QueueInv, HolderMints
  <2>2. ASSUME NEW c \in Calls, ahead[c] # {}
        PROVE  pc[c] = "waiting" /\ ahead[c] \subseteq Waiting \ {c}
    BY <2>2 DEF CallsInv, QueueInv, InTurn, InLine
  <2>3. QED
    BY <2>1, <2>2 DEF ApiTypeOK, Places, TriesInv
<1>4. QED
  BY <1>1, <1>2, <1>3, ApiInvariance, CallsInvariance, LineInvariance, PTL DEF OpSpec

\* However many requests ask for the token together, none waits for it longer
\* than every other one's mint may last, be it that all of them fail.
THEOREM TokenWaitsBounded == OpSpec => []WaitBounded
<1>1. CallsInv => WaitBounded
  <2> SUFFICES ASSUME CallsInv, NEW c \in Calls, InQueue(c)
               PROVE  clock <= asked[c] + Cardinality(Calls) * MintTimeout
    BY DEF WaitBounded, InQueue
  <2> USE DEF CallsInv, QueueInv
  <2>1. clock <= asked[c] + Room(Before(c)) + Spent
    BY DEF InTime
  <2>2. Spent \in Nat /\ Spent <= MintTimeout /\ MintTimeout \in Nat
    BY SpentBounded, ApiAssumption DEF ApiAssumption
  <2>3. /\ Before(c) \in SUBSET Calls /\ {} \in SUBSET Before(c) /\ {} # Before(c)
    BY BeforeTyped DEF Before
  <2>4. /\ Room(Before(c)) \in Nat /\ Room({}) \in Nat
        /\ Room({}) >= Room(Before(c)) + MintTimeout
    BY <2>3, RoomGrows
  <2>5. Room({}) = Cardinality(Calls) * MintTimeout
    BY FS_EmptySet, FS_CardinalityType, ApiAssumption DEF Room, ApiAssumption
  <2>6. clock \in Nat /\ asked[c] \in Nat
    BY DEF ApiInv, ApiTyped, QueueTyped
  <2>7. QED
    BY <2>1, <2>2, <2>4, <2>5, <2>6
<1>2. QED
  BY <1>1, CallsInvariance, PTL

\* An operation fails exactly if it lost a request that it needs, and asks the
\* slow pipeline only on a miss of the read model: whatever the plans ask for
\* together, in whatever order the answers come and whatever else is running.
THEOREM FailuresAreRequired == OpSpec => []OnlyRequiredFail
<1>1. CallsInv => OnlyRequiredFail
  <2> SUFFICES ASSUME CallsInv, NEW o \in Ops, Running(o), Head(plan[o]).asks = <<"match">>
               PROVE  "batch" \in lost[o]
    BY DEF CallsInv, OpInv, Ended, OnlyRequiredFail
  <2>1. /\ plan[o] \in Seq(OkSteps) /\ plan[o] # <<>>
        /\ Head(plan[o]).unless \cap got[o] = {}
        /\ AfterBatch(plan[o], got[o] \cup lost[o])
    BY DEF CallsInv, OpInv, OpTyped, UnderWay
  <2>2. Head(plan[o]) \in OkSteps /\ Head(plan[o]) = plan[o][1] /\ 1 \in 1 .. Len(plan[o])
    BY <2>1, HeadOk
  <2>3. Head(plan[o]).unless = {"batch"}
    BY <2>2 DEF OkSteps
  <2>4. "batch" \in got[o] \cup lost[o]
    BY <2>1, <2>2 DEF AfterBatch
  <2>5. QED
    BY <2>1, <2>3, <2>4
<1>2. QED
  BY <1>1, CallsInvariance, PTL

===============================================================================
