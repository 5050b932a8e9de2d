--------------------------- MODULE RateLimitsProofs ---------------------------
(***************************************************************************)
(* Theorems of RateLimits, for every number of commands, users and guilds, *)
(* every limit, every window, every delay shorter than the window and      *)
(* every bound on the clock.                                               *)
(***************************************************************************)
EXTENDS RateLimits, FiniteSetTheorems, TLAPS

(***************************************************************************)
(* The inductive invariant.                                                *)
(***************************************************************************)
TypeOK ==
    /\ clock \in 0 .. MaxClock
    /\ user \in [Commands -> Users] /\ guild \in [Commands -> Guilds]
    /\ windows \in [Keys -> [started : Nat, count : Nat]]
    /\ pc \in [Commands -> {"idle", "user", "between", "guild", "decided"}]
    /\ now \in [Commands -> Nat]
    /\ granted \in [Commands -> SUBSET Keys]
    /\ at \in [Commands -> [Keys -> Nat]] /\ opened \in [Commands -> [Keys -> Nat]]

\* A claim's time is past, and at most Delay past while the claim waits.
OnTime ==
    \A c \in Commands :
        /\ now[c] <= clock
        /\ pc[c] \in {"user", "guild"} => clock <= now[c] + Delay

\* A command claims a place of its user first, then one of its guild.
OncePerKey ==
    \A c \in Commands, k \in Keys :
        k \in granted[c] => \/ k \in Users /\ pc[c] \in {"between", "guild", "decided"}
                            \/ k \in Guilds /\ pc[c] = "decided"

\* The places of one window of key k: the one that started at s.
PlacesIn(g, o, k, s) == {c \in Commands : k \in g[c] /\ o[c][k] = s}
Generation(k, s)     == PlacesIn(granted, opened, k, s)

\* A place is inside its window, or Delay before it, and the window has a
\* place at its start.
InWindow ==
    \A k \in Keys, c \in Commands :
        k \in granted[c] =>
            /\ at[c][k] <= clock
            /\ opened[c][k] <= at[c][k] + Delay /\ at[c][k] < opened[c][k] + Window
            /\ \E d \in Commands : /\ k \in granted[d] /\ opened[d][k] = opened[c][k]
                                  /\ at[d][k] = opened[c][k]

\* The places of a later window are Window - Delay after the start of an
\* earlier one.
Apart ==
    \A k \in Keys, c, d \in Commands :
        /\ k \in granted[c] /\ k \in granted[d]
        /\ opened[c][k] < opened[d][k]
        => opened[c][k] + Window <= at[d][k] + Delay

\* The window in the store counts the places granted in it, and the places
\* of the windows before it are over.
Counted ==
    \A k \in Keys :
        /\ windows[k].started <= clock /\ windows[k].count <= Limit(k)
        /\ windows[k].count > 0 =>
              windows[k].count = Cardinality(Generation(k, windows[k].started))

Over ==
    \A k \in Keys, c \in Commands :
        k \in granted[c] =>
            \/ windows[k].count > 0 /\ opened[c][k] = windows[k].started
            \/ /\ opened[c][k] + Window <= clock
               /\ windows[k].count > 0 => opened[c][k] < windows[k].started

WithinLimit ==
    \A k \in Keys, s \in Nat : Cardinality(Generation(k, s)) <= Limit(k)

Granted == InWindow /\ Apart /\ Counted /\ Over /\ WithinLimit

IInv == TypeOK /\ OnTime /\ OncePerKey /\ Granted

-----------------------------------------------------------------------------
LEMMA LimitType == \A k \in Keys : Limit(k) \in Nat \ {0}
BY RateAssumption DEF Limit

LEMMA GenerationFinite ==
  ASSUME NEW k, NEW s
  PROVE IsFiniteSet(Generation(k, s)) /\ Cardinality(Generation(k, s)) \in Nat
BY RateAssumption, FS_Subset, FS_CardinalityType DEF Generation, PlacesIn

LEMMA InitIInv == Init => IInv
<1> SUFFICES ASSUME Init PROVE IInv
  OBVIOUS
<1> USE RateAssumption DEF Init
<1>1. TypeOK /\ OnTime /\ OncePerKey
  BY DEF TypeOK, OnTime, OncePerKey, NoWindow
<1>2. InWindow /\ Apart /\ Over
  BY DEF InWindow, Apart, Over
<1>3. Counted
  BY LimitType DEF Counted, NoWindow
<1>4. WithinLimit
  <2>1. \A k \in Keys, s \in Nat : Generation(k, s) = {}
    BY DEF Generation, PlacesIn
  <2>2. SUFFICES ASSUME NEW k \in Keys, NEW s \in Nat
                 PROVE Cardinality(Generation(k, s)) <= Limit(k)
    BY DEF WithinLimit
  <2>3. Cardinality(Generation(k, s)) = 0
    BY <2>1, FS_EmptySet
  <2>4. QED
    BY <2>3, LimitType
<1>5. QED
  BY <1>1, <1>2, <1>3, <1>4 DEF IInv, Granted

\* Nothing about the places changes while no claim is decided.
LEMMA NoClaim ==
  ASSUME IInv, UNCHANGED <<windows, granted, at, opened>>, clock' \in Nat, clock <= clock'
  PROVE Granted'
<1> USE DEF IInv, Granted, TypeOK
<1>1. \A k, s : PlacesIn(granted', opened', k, s) = Generation(k, s)
  BY DEF Generation, PlacesIn
<1>2. InWindow' /\ Apart'
  BY <1>1 DEF InWindow, Apart
<1>3. Counted' /\ Over'
  BY <1>1, RateAssumption DEF Counted, Over, Generation
<1>4. WithinLimit'
  BY <1>1 DEF WithinLimit, Limit, Generation
<1>5. QED
  BY <1>2, <1>3, <1>4

\* What a claim leaves in the store: a window it drops has been over since
\* the time it read.
LEMMA KeptWindows ==
  ASSUME IInv, NEW S, NEW t \in Nat, t <= clock, NEW k \in Keys
  PROVE /\ Kept(S, t)[k] \in [started : Nat, count : Nat]
        /\ \/ Kept(S, t)[k] = windows[k]
           \/ /\ Kept(S, t)[k] = NoWindow
              /\ windows[k].count > 0 => windows[k].started + Window <= clock
BY RateAssumption DEF Kept, Live, Since, NoWindow, IInv, TypeOK

\* A claim joins its key's window, or starts one when all before it are over.
LEMMA EntryWindow ==
  ASSUME IInv, NEW t \in Nat, t <= clock, clock <= t + Delay, NEW k \in Keys
  PROVE /\ Entry(k, t) \in [started : Nat, count : Nat]
        /\ Entry(k, t).started <= t + Delay
        /\ t < Entry(k, t).started + Window
        /\ \/ /\ Entry(k, t) = windows[k] /\ windows[k].count > 0
           \/ /\ Entry(k, t) = [started |-> t, count |-> 0]
              /\ \A d \in Commands : k \in granted[d] => opened[d][k] + Window <= clock
<1> USE RateAssumption DEF IInv, TypeOK, Granted
<1>1. CASE Live(windows[k], t)
  BY <1>1 DEF Entry, Live, Since, Counted
<1>2. CASE ~Live(windows[k], t)
  <2>1. windows[k].count > 0 => windows[k].started + Window <= clock
    BY <1>2 DEF Live, Since
  <2>2. \A d \in Commands : k \in granted[d] => opened[d][k] + Window <= clock
    BY <2>1 DEF Over
  <2>3. QED
    BY <1>2, <2>2 DEF Entry
<1>3. QED
  BY <1>1, <1>2

-----------------------------------------------------------------------------
\* A refusal changes no place; the windows it leaves are as they were or
\* over.
LEMMA RefusalStep ==
  ASSUME IInv, NEW c \in Commands, NEW S, windows' = Kept(S, now[c]),
         UNCHANGED <<clock, granted, at, opened>>
  PROVE Granted' /\ windows' \in [Keys -> [started : Nat, count : Nat]]
<1> USE DEF IInv, Granted
<1>1. now[c] \in Nat /\ now[c] <= clock
  BY DEF TypeOK, OnTime
<1>2. \A k, s : PlacesIn(granted', opened', k, s) = Generation(k, s)
  BY DEF Generation, PlacesIn
<1>3. InWindow' /\ Apart'
  BY <1>2 DEF InWindow, Apart
<1>4. WithinLimit'
  BY <1>2 DEF WithinLimit, Limit, Generation
<1>5. \A k \in Keys :
        /\ windows'[k] \in [started : Nat, count : Nat]
        /\ \/ windows'[k] = windows[k]
           \/ /\ windows'[k] = NoWindow
              /\ windows[k].count > 0 => windows[k].started + Window <= clock
  BY <1>1, KeptWindows
<1>6. windows' \in [Keys -> [started : Nat, count : Nat]]
  BY <1>5 DEF Kept
<1>7. Counted'
  <2> SUFFICES ASSUME NEW k \in Keys
               PROVE /\ windows'[k].started <= clock /\ windows'[k].count <= Limit(k)
                     /\ windows'[k].count > 0 =>
                           windows'[k].count =
                              Cardinality(PlacesIn(granted', opened', k, windows'[k].started))
    BY DEF Counted, Limit, Generation
  <2>1. CASE windows'[k] = windows[k]
    BY <1>2, <2>1 DEF Counted
  <2>2. CASE windows'[k] = NoWindow
    BY <1>1, <2>2, LimitType DEF NoWindow, TypeOK
  <2>3. QED
    BY <1>5, <2>1, <2>2
<1>8. Over'
  BY <1>5, RateAssumption DEF Over, NoWindow, TypeOK
<1>9. QED
  BY <1>3, <1>4, <1>6, <1>7, <1>8

\* A grant adds a place to the window that Entry found or started.
LEMMA GrantStep ==
  ASSUME IInv, NEW c \in Commands, NEW S, NEW k \in Keys, k \notin granted[c],
         clock <= now[c] + Delay,
         Claim(c, S, k), Room(Entry(k, now[c]), k),
         UNCHANGED <<clock, now>>
  PROVE /\ Granted'
        /\ windows' \in [Keys -> [started : Nat, count : Nat]]
        /\ granted' = [granted EXCEPT ![c] = @ \cup {k}]
        /\ at' = [at EXCEPT ![c][k] = now[c]]
        /\ opened' \in [Commands -> [Keys -> Nat]]
<1> DEFINE t == now[c]
           w == Entry(k, t)
<1>1. /\ windows' = [Kept(S, t) EXCEPT ![k] = [w EXCEPT !.count = @ + 1]]
      /\ granted' = [granted EXCEPT ![c] = @ \cup {k}]
      /\ at' = [at EXCEPT ![c][k] = t]
      /\ opened' = [opened EXCEPT ![c][k] = w.started]
      /\ w.count < Limit(k)
  BY DEF Claim, Room
<1>2. t \in Nat /\ t <= clock /\ clock \in Nat
  BY RateAssumption DEF IInv, TypeOK, OnTime
<1>3. /\ w \in [started : Nat, count : Nat]
      /\ w.started <= t + Delay /\ t < w.started + Window
      /\ \/ w = windows[k] /\ windows[k].count > 0
         \/ /\ w = [started |-> t, count |-> 0]
            /\ \A d \in Commands : k \in granted[d] => opened[d][k] + Window <= clock
  BY <1>2, EntryWindow
<1> HIDE DEF w
<1>4. /\ windows' \in [Keys -> [started : Nat, count : Nat]]
      /\ windows'[k] = [started |-> w.started, count |-> w.count + 1]
      /\ \A j \in Keys \ {k} :
            \/ windows'[j] = windows[j]
            \/ /\ windows'[j] = NoWindow
               /\ windows[j].count > 0 => windows[j].started + Window <= clock
  <2>1. \A j \in Keys : /\ Kept(S, t)[j] \in [started : Nat, count : Nat]
                        /\ \/ Kept(S, t)[j] = windows[j]
                           \/ /\ Kept(S, t)[j] = NoWindow
                              /\ windows[j].count > 0 => windows[j].started + Window <= clock
    BY <1>2, KeptWindows
  <2>2. Kept(S, t) = [j \in Keys |-> Kept(S, t)[j]]
    BY DEF Kept
  <2>3. QED
    BY <1>1, <1>3, <2>1, <2>2
<1>5. /\ opened' \in [Commands -> [Keys -> Nat]]
      /\ granted'[c] = granted[c] \cup {k} /\ at'[c][k] = t /\ opened'[c][k] = w.started
      /\ \A d \in Commands, j \in Keys :
            d # c \/ j # k => /\ j \in granted'[d] <=> j \in granted[d]
                              /\ at'[d][j] = at[d][j] /\ opened'[d][j] = opened[d][j]
  BY <1>1, <1>3 DEF IInv, TypeOK
<1>6. \A j \in Keys \ {k} : \A s : PlacesIn(granted', opened', j, s) = Generation(j, s)
  BY <1>5 DEF Generation, PlacesIn
<1>7. /\ \A s : s # w.started => PlacesIn(granted', opened', k, s) = Generation(k, s)
      /\ PlacesIn(granted', opened', k, w.started) = Generation(k, w.started) \cup {c}
      /\ c \notin Generation(k, w.started)
  BY <1>5 DEF Generation, PlacesIn
<1>8. w.count = Cardinality(Generation(k, w.started))
  <2>1. CASE w = windows[k] /\ windows[k].count > 0
    BY <2>1 DEF IInv, Granted, Counted
  <2>2. CASE /\ w = [started |-> t, count |-> 0]
             /\ \A d \in Commands : k \in granted[d] => opened[d][k] + Window <= clock
    <3>1. Generation(k, w.started) = {}
      BY <1>2, <2>2, RateAssumption DEF Generation, PlacesIn, IInv, TypeOK
    <3>2. QED
      BY <2>2, <3>1, FS_EmptySet
  <2>3. QED
    BY <1>3, <2>1, <2>2
<1>9. Cardinality(PlacesIn(granted', opened', k, w.started)) = w.count + 1
  BY <1>7, <1>8, GenerationFinite, FS_AddElement
<1>10. \A d \in Commands :
         k \in granted[d] => \/ opened[d][k] = w.started /\ w = windows[k]
                             \/ /\ opened[d][k] + Window <= clock
                                /\ opened[d][k] < w.started
  <2>1. CASE w = windows[k] /\ windows[k].count > 0
    BY <2>1 DEF IInv, Granted, Over
  <2>2. CASE /\ w = [started |-> t, count |-> 0]
             /\ \A d \in Commands : k \in granted[d] => opened[d][k] + Window <= clock
    BY <1>2, <2>2, RateAssumption DEF IInv, TypeOK
  <2>3. QED
    BY <1>3, <2>1, <2>2
<1>11. InWindow'
  <2> SUFFICES ASSUME NEW j \in Keys, NEW d \in Commands, j \in granted'[d]
               PROVE /\ at'[d][j] <= clock
                     /\ opened'[d][j] <= at'[d][j] + Delay
                     /\ at'[d][j] < opened'[d][j] + Window
                     /\ \E e \in Commands : /\ j \in granted'[e]
                                             /\ opened'[e][j] = opened'[d][j]
                                             /\ at'[e][j] = opened'[d][j]
    BY DEF InWindow
  <2>1. CASE j # k \/ d # c
    <3>1. /\ at[d][j] <= clock
          /\ opened[d][j] <= at[d][j] + Delay /\ at[d][j] < opened[d][j] + Window
      BY <1>5, <2>1 DEF IInv, Granted, InWindow
    <3>2. PICK e \in Commands : /\ j \in granted[e] /\ opened[e][j] = opened[d][j]
                                /\ at[e][j] = opened[d][j]
      BY <1>5, <2>1 DEF IInv, Granted, InWindow
    <3>3. e = c => j # k
      BY <3>2
    <3>4. QED
      BY <1>5, <2>1, <3>1, <3>2, <3>3
  <2>2. CASE j = k /\ d = c
    <3>1. \E e \in Commands : /\ k \in granted'[e] /\ opened'[e][k] = w.started
                              /\ at'[e][k] = w.started
      <4>1. CASE w = windows[k] /\ windows[k].count > 0
        <5>1. Generation(k, w.started) # {}
          BY <1>8, <4>1, FS_EmptySet
        <5>2. PICK d0 \in Generation(k, w.started) : TRUE
          BY <5>1
        <5>3. d0 \in Commands /\ k \in granted[d0] /\ opened[d0][k] = w.started
          BY DEF Generation, PlacesIn
        <5>4. PICK e \in Commands : /\ k \in granted[e] /\ opened[e][k] = w.started
                                    /\ at[e][k] = w.started
          BY <5>3 DEF IInv, Granted, InWindow
        <5>5. QED
          BY <1>5, <5>4
      <4>2. CASE w = [started |-> t, count |-> 0]
        BY <1>5, <4>2
      <4>3. QED
        BY <1>3, <4>1, <4>2
    <3>2. QED
      BY <1>2, <1>3, <1>5, <2>2, <3>1
  <2>3. QED
    BY <2>1, <2>2
<1>12. Apart'
  <2> SUFFICES ASSUME NEW j \in Keys, NEW d \in Commands, NEW e \in Commands,
                      j \in granted'[d], j \in granted'[e], opened'[d][j] < opened'[e][j]
               PROVE opened'[d][j] + Window <= at'[e][j] + Delay
    BY DEF Apart
  <2>1. CASE j # k \/ (d # c /\ e # c)
    BY <1>5, <2>1 DEF IInv, Granted, Apart
  <2>2. CASE j = k /\ e = c /\ d # c
    <3>1. opened[d][k] + Window <= clock
      BY <1>3, <1>5, <1>10, <2>2 DEF IInv, TypeOK
    <3>2. QED
      BY <1>2, <1>5, <2>2, <3>1, RateAssumption DEF IInv, TypeOK
  <2>3. CASE j = k /\ d = c
    <3>1. e # c /\ k \in granted[e] /\ w.started < opened[e][k]
      BY <1>3, <1>5, <2>3
    <3>2. QED
      BY <1>3, <1>10, <3>1 DEF IInv, TypeOK
  <2>4. QED
    BY <2>1, <2>2, <2>3
<1>13. Counted'
  <2> SUFFICES ASSUME NEW j \in Keys
               PROVE /\ windows'[j].started <= clock /\ windows'[j].count <= Limit(j)
                     /\ windows'[j].count > 0 =>
                           windows'[j].count =
                              Cardinality(PlacesIn(granted', opened', j, windows'[j].started))
    BY DEF Counted, Limit, Generation, PlacesIn
  <2>1. CASE j # k /\ windows'[j] = windows[j]
    BY <1>6, <2>1 DEF IInv, Granted, Counted
  <2>2. CASE windows'[j] = NoWindow
    BY <1>2, <2>2, LimitType DEF NoWindow
  <2>3. CASE j = k
    <3>1. w.started <= clock
      BY <1>2, <1>3 DEF IInv, Granted, Counted
    <3>2. QED
      BY <1>1, <1>3, <1>4, <1>9, <2>3, <3>1, LimitType
  <2>4. QED
    BY <1>4, <2>1, <2>2, <2>3
<1>14. Over'
  <2> SUFFICES ASSUME NEW j \in Keys, NEW d \in Commands, j \in granted'[d]
               PROVE \/ windows'[j].count > 0 /\ opened'[d][j] = windows'[j].started
                     \/ /\ opened'[d][j] + Window <= clock
                        /\ windows'[j].count > 0 => opened'[d][j] < windows'[j].started
    BY DEF Over
  <2>1. CASE j # k
    <3>1. \/ windows[j].count > 0 /\ opened[d][j] = windows[j].started
          \/ /\ opened[d][j] + Window <= clock
             /\ windows[j].count > 0 => opened[d][j] < windows[j].started
      BY <1>5, <2>1 DEF IInv, Granted, Over
    <3>2. CASE windows'[j] = windows[j]
      BY <1>5, <2>1, <3>1, <3>2
    <3>3. CASE windows'[j] = NoWindow /\ (windows[j].count > 0 => windows[j].started + Window <= clock)
      BY <1>5, <2>1, <3>1, <3>3, SMTT(30) DEF NoWindow
    <3>4. QED
      BY <1>4, <2>1, <3>2, <3>3
  <2>2. CASE j = k /\ d # c
    BY <1>3, <1>4, <1>5, <1>10, <2>2, SMTT(30)
  <2>3. CASE j = k /\ d = c
    BY <1>3, <1>4, <1>5, <2>3
  <2>4. QED
    BY <2>1, <2>2, <2>3
<1>15. WithinLimit'
  <2> SUFFICES ASSUME NEW j \in Keys, NEW s \in Nat
               PROVE Cardinality(PlacesIn(granted', opened', j, s)) <= Limit(j)
    BY DEF WithinLimit, Limit, Generation, PlacesIn
  <2>1. CASE j # k \/ s # w.started
    BY <1>6, <1>7, <2>1 DEF IInv, Granted, WithinLimit
  <2>2. CASE j = k /\ s = w.started
    BY <1>1, <1>3, <1>9, <2>2, LimitType
  <2>3. QED
    BY <2>1, <2>2
<1>16. QED
  BY <1>1, <1>4, <1>5, <1>11, <1>12, <1>13, <1>14, <1>15 DEF Granted

-----------------------------------------------------------------------------
\* A claim, whether it is granted or refused.
LEMMA ClaimStep ==
  ASSUME IInv, NEW c \in Commands, NEW S, NEW k \in Keys, k \notin granted[c],
         clock <= now[c] + Delay, Claim(c, S, k), UNCHANGED <<clock, now>>
  PROVE /\ Granted'
        /\ windows' \in [Keys -> [started : Nat, count : Nat]]
        /\ at' \in [Commands -> [Keys -> Nat]] /\ opened' \in [Commands -> [Keys -> Nat]]
        /\ granted' \in [Commands -> SUBSET Keys]
        /\ \A d \in Commands : \A j \in granted'[d] : j \in granted[d] \/ (d = c /\ j = k)
<1>1. CASE Room(Entry(k, now[c]), k)
  <2>1. /\ Granted'
        /\ windows' \in [Keys -> [started : Nat, count : Nat]]
        /\ granted' = [granted EXCEPT ![c] = @ \cup {k}]
        /\ at' = [at EXCEPT ![c][k] = now[c]]
        /\ opened' \in [Commands -> [Keys -> Nat]]
    BY <1>1, GrantStep
  <2>2. at' \in [Commands -> [Keys -> Nat]]
    BY <2>1 DEF IInv, TypeOK
  <2>3. granted' \in [Commands -> SUBSET Keys]
    <3>1. granted[c] \cup {k} \in SUBSET Keys
      BY DEF IInv, TypeOK
    <3>2. QED
      BY <2>1, <3>1 DEF IInv, TypeOK
  <2>4. \A d \in Commands : \A j \in granted'[d] : j \in granted[d] \/ (d = c /\ j = k)
    <3>1. \A d \in Commands : granted'[d] = IF d = c THEN granted[c] \cup {k} ELSE granted[d]
      BY <2>1 DEF IInv, TypeOK
    <3>2. QED
      BY <3>1
  <2>5. QED
    BY <2>1, <2>2, <2>3, <2>4
<1>2. CASE ~Room(Entry(k, now[c]), k)
  <2>1. windows' = Kept(S, now[c]) /\ UNCHANGED <<granted, at, opened>>
    BY <1>2 DEF Claim
  <2>2. Granted' /\ windows' \in [Keys -> [started : Nat, count : Nat]]
    BY <2>1, RefusalStep
  <2>3. QED
    BY <2>1, <2>2 DEF IInv, TypeOK
<1>3. QED
  BY <1>1, <1>2

LEMMA StepIInv == IInv /\ [Next]_vars => IInv'
<1> SUFFICES ASSUME IInv, [Next]_vars PROVE IInv'
  OBVIOUS
<1> USE RateAssumption
<1>1. ASSUME NEW c \in Commands, NEW from, NEW to, ReadClock(c, from, to),
             <<from, to>> \in {<<"idle", "user">>, <<"between", "guild">>}
      PROVE IInv'
  <2> USE <1>1 DEF ReadClock
  <2>1. Granted'
    BY NoClaim DEF IInv, TypeOK
  <2>2. TypeOK' /\ OnTime'
    BY DEF IInv, TypeOK, OnTime
  <2>3. OncePerKey'
    BY DEF IInv, TypeOK, OncePerKey
  <2>4. QED
    BY <2>1, <2>2, <2>3 DEF IInv
<1>2. ASSUME NEW c \in Commands, ClaimUser(c)  PROVE IInv'
  <2> USE <1>2 DEF ClaimUser
  <2>1. /\ user[c] \in Keys /\ user[c] \in Users /\ user[c] \notin granted[c]
        /\ clock <= now[c] + Delay
    BY DEF IInv, TypeOK, OnTime, OncePerKey, Keys
  <2>2. /\ Granted'
        /\ windows' \in [Keys -> [started : Nat, count : Nat]]
        /\ at' \in [Commands -> [Keys -> Nat]] /\ opened' \in [Commands -> [Keys -> Nat]]
        /\ granted' \in [Commands -> SUBSET Keys]
        /\ \A d \in Commands : \A j \in granted'[d] : j \in granted[d] \/ (d = c /\ j = user[c])
    BY <2>1, ClaimStep
  <2>3. TypeOK' /\ OnTime'
    BY <2>2 DEF IInv, TypeOK, OnTime
  <2>4. OncePerKey'
    <3> SUFFICES ASSUME NEW d \in Commands, NEW k \in Keys, k \in granted'[d]
                 PROVE \/ k \in Users /\ pc'[d] \in {"between", "guild", "decided"}
                       \/ k \in Guilds /\ pc'[d] = "decided"
      BY DEF OncePerKey
    <3>1. k \in granted[d] \/ (d = c /\ k = user[c])
      BY <2>2
    <3>2. QED
      BY <2>1, <3>1 DEF IInv, TypeOK, OncePerKey
  <2>5. QED
    BY <2>2, <2>3, <2>4 DEF IInv
<1>3. ASSUME NEW c \in Commands, ClaimGuild(c)  PROVE IInv'
  <2> USE <1>3 DEF ClaimGuild
  <2>1. /\ guild[c] \in Keys /\ guild[c] \in Guilds /\ guild[c] \notin granted[c]
        /\ clock <= now[c] + Delay
    BY DEF IInv, TypeOK, OnTime, OncePerKey, Keys
  <2>2. /\ Granted'
        /\ windows' \in [Keys -> [started : Nat, count : Nat]]
        /\ at' \in [Commands -> [Keys -> Nat]] /\ opened' \in [Commands -> [Keys -> Nat]]
        /\ granted' \in [Commands -> SUBSET Keys]
        /\ \A d \in Commands : \A j \in granted'[d] : j \in granted[d] \/ (d = c /\ j = guild[c])
    BY <2>1, ClaimStep
  <2>3. TypeOK' /\ OnTime'
    BY <2>2 DEF IInv, TypeOK, OnTime
  <2>4. OncePerKey'
    <3> SUFFICES ASSUME NEW d \in Commands, NEW k \in Keys, k \in granted'[d]
                 PROVE \/ k \in Users /\ pc'[d] \in {"between", "guild", "decided"}
                       \/ k \in Guilds /\ pc'[d] = "decided"
      BY DEF OncePerKey
    <3>1. k \in granted[d] \/ (d = c /\ k = guild[c])
      BY <2>2
    <3>2. QED
      BY <2>1, <3>1 DEF IInv, TypeOK, OncePerKey
  <2>5. QED
    BY <2>2, <2>3, <2>4 DEF IInv
<1>4. CASE Tick
  <2> USE <1>4 DEF Tick
  <2>1. Granted'
    BY NoClaim DEF IInv, TypeOK
  <2>2. TypeOK' /\ OnTime' /\ OncePerKey'
    BY DEF IInv, TypeOK, OnTime, OncePerKey
  <2>3. QED
    BY <2>1, <2>2 DEF IInv
<1>5. CASE UNCHANGED vars
  <2> USE <1>5 DEF vars
  <2>1. Granted'
    BY NoClaim DEF IInv, TypeOK
  <2>2. TypeOK' /\ OnTime' /\ OncePerKey'
    BY DEF IInv, TypeOK, OnTime, OncePerKey
  <2>3. QED
    BY <2>1, <2>2 DEF IInv
<1>6. QED
  BY <1>1, <1>2, <1>3, <1>4, <1>5 DEF Next

\* Every state of claim_window's stores is one the places granted account for.
THEOREM Invariance == Spec => []IInv
BY InitIInv, StepIInv, PTL DEF Spec

-----------------------------------------------------------------------------
\* Two windows of a key that follow each other are Window - Delay apart.
LEMMA WindowsApart ==
  ASSUME IInv, NEW k \in Keys, NEW c \in Commands, NEW d \in Commands,
         k \in granted[c], k \in granted[d], opened[c][k] < opened[d][k]
  PROVE opened[c][k] + Window <= opened[d][k] + Delay
<1>1. PICK e \in Commands : /\ k \in granted[e] /\ opened[e][k] = opened[d][k]
                            /\ at[e][k] = opened[d][k]
  BY DEF IInv, Granted, InWindow
<1>2. QED
  BY <1>1 DEF IInv, Granted, Apart

\* The places of a stretch belong to two windows at most.
LEMMA TwoWindows ==
  ASSUME IInv, NEW k \in Keys, NEW t \in Nat,
         NEW b \in Places(k, t, t + Stretch), NEW c \in Places(k, t, t + Stretch),
         NEW d \in Places(k, t, t + Stretch)
  PROVE ~(opened[b][k] < opened[c][k] /\ opened[c][k] < opened[d][k])
<1> SUFFICES ASSUME opened[b][k] < opened[c][k], opened[c][k] < opened[d][k]
             PROVE FALSE
  OBVIOUS
<1>1. /\ {b, c, d} \subseteq Commands
      /\ k \in granted[b] /\ k \in granted[c] /\ k \in granted[d]
      /\ t <= at[b][k] /\ at[d][k] < t + Stretch
  BY DEF Places
<1>2. /\ opened[b][k] \in Nat /\ opened[c][k] \in Nat /\ opened[d][k] \in Nat
      /\ at[b][k] \in Nat /\ at[d][k] \in Nat
  BY <1>1 DEF IInv, TypeOK
<1>3. opened[b][k] + Window <= opened[c][k] + Delay
  BY <1>1, WindowsApart
<1>4. opened[c][k] + Window <= at[d][k] + Delay
  BY <1>1 DEF IInv, Granted, Apart
<1>5. at[b][k] < opened[b][k] + Window
  BY <1>1 DEF IInv, Granted, InWindow
<1>6. QED
  BY <1>1, <1>2, <1>3, <1>4, <1>5, RateAssumption DEF Stretch

\* How many places of one window a set can hold.
LEMMA OneWindowFits ==
  ASSUME IInv, NEW k \in Keys, NEW s \in Nat, NEW P, P \subseteq Generation(k, s)
  PROVE /\ IsFiniteSet(P) /\ Cardinality(P) \in Nat /\ Cardinality(P) <= Limit(k)
        /\ P # Generation(k, s) => Cardinality(P) < Limit(k)
<1>1. IsFiniteSet(Generation(k, s)) /\ Cardinality(Generation(k, s)) <= Limit(k)
  BY GenerationFinite DEF IInv, Granted, WithinLimit
<1>2. IsFiniteSet(P) /\ Cardinality(P) <= Cardinality(Generation(k, s))
  BY <1>1, FS_Subset
<1>3. Cardinality(Generation(k, s)) = Cardinality(P) => Generation(k, s) = P
  BY <1>1, FS_Subset
<1>4. Cardinality(P) \in Nat /\ Cardinality(Generation(k, s)) \in Nat /\ Limit(k) \in Nat
  BY <1>1, <1>2, FS_CardinalityType, LimitType
<1>5. QED
  BY <1>1, <1>2, <1>3, <1>4

\* A stretch that touches two windows misses the opening place of one.
LEMMA TwoWindowsFit ==
  ASSUME IInv, NEW k \in Keys, NEW t \in Nat,
         NEW b \in Places(k, t, t + Stretch), NEW c \in Places(k, t, t + Stretch),
         opened[b][k] < opened[c][k]
  PROVE Cardinality(Places(k, t, t + Stretch)) < 2 * Limit(k)
<1> DEFINE P == Places(k, t, t + Stretch)
           r == opened[b][k]
           s == opened[c][k]
           Pr == P \cap Generation(k, r)
           Ps == P \cap Generation(k, s)
<1>1. /\ b \in Commands /\ c \in Commands /\ k \in granted[b] /\ k \in granted[c]
      /\ r \in Nat /\ s \in Nat /\ P \subseteq Commands
      /\ \A d \in P : k \in granted[d] /\ opened[d][k] \in Nat
  BY DEF Places, IInv, TypeOK
<1>2. P = Pr \cup Ps
  <2>1. \A d \in P : opened[d][k] = r \/ opened[d][k] = s
    <3> SUFFICES ASSUME NEW d \in P, opened[d][k] # r, opened[d][k] # s PROVE FALSE
      OBVIOUS
    <3>1. opened[d][k] < r \/ (r < opened[d][k] /\ opened[d][k] < s) \/ s < opened[d][k]
      BY <1>1
    <3>2. QED
      BY <3>1, TwoWindows
  <2>2. QED
    BY <1>1, <2>1 DEF Generation, PlacesIn
<1>3. Pr # Generation(k, r) \/ Ps # Generation(k, s)
  <2> SUFFICES ASSUME Pr = Generation(k, r), Ps = Generation(k, s) PROVE FALSE
    OBVIOUS
  <2>1. PICK d \in Commands : k \in granted[d] /\ opened[d][k] = r /\ at[d][k] = r
    BY <1>1 DEF IInv, Granted, InWindow
  <2>2. PICK e \in Commands : k \in granted[e] /\ opened[e][k] = s /\ at[e][k] = s
    BY <1>1 DEF IInv, Granted, InWindow
  <2>3. d \in P /\ e \in P
    BY <2>1, <2>2 DEF Generation, PlacesIn
  <2>4. t <= r /\ s < t + Stretch
    BY <2>1, <2>2, <2>3 DEF Places
  <2>5. r + Window <= s + Delay
    BY <1>1, WindowsApart
  <2>6. QED
    BY <1>1, <2>4, <2>5, RateAssumption DEF Stretch
<1>4. /\ IsFiniteSet(Pr) /\ Cardinality(Pr) \in Nat /\ Cardinality(Pr) <= Limit(k)
      /\ Pr # Generation(k, r) => Cardinality(Pr) < Limit(k)
  BY <1>1, OneWindowFits
<1>5. /\ IsFiniteSet(Ps) /\ Cardinality(Ps) \in Nat /\ Cardinality(Ps) <= Limit(k)
      /\ Ps # Generation(k, s) => Cardinality(Ps) < Limit(k)
  BY <1>1, OneWindowFits
<1>6. Pr \cap Ps = {}
  BY <1>1 DEF Generation, PlacesIn
<1> HIDE DEF P, Pr, Ps
<1>7. Cardinality(Pr \cup Ps) = Cardinality(Pr) + Cardinality(Ps) - Cardinality(Pr \cap Ps)
  BY <1>4, <1>5, FS_Union, Zenon
<1>8. Cardinality(P) = Cardinality(Pr) + Cardinality(Ps)
  <2>1. Cardinality(Pr \cap Ps) = 0
    BY <1>6, FS_EmptySet
  <2>2. QED
    BY <1>2, <1>4, <1>5, <1>7, <2>1
<1>9. Cardinality(P) < 2 * Limit(k)
  BY <1>3, <1>4, <1>5, <1>8, LimitType
<1>10. QED
  BY <1>9 DEF P

LEMMA StretchFits ==
  ASSUME IInv, NEW k \in Keys, NEW t \in Nat
  PROVE Cardinality(Places(k, t, t + Stretch)) < 2 * Limit(k)
<1> DEFINE P == Places(k, t, t + Stretch)
<1>1. CASE P = {}
  BY <1>1, FS_EmptySet, LimitType
<1>2. CASE \E b, c \in P : opened[b][k] # opened[c][k]
  <2>1. PICK b \in P, c \in P : opened[b][k] # opened[c][k]
    BY <1>2
  <2>2. opened[b][k] \in Nat /\ opened[c][k] \in Nat
    BY DEF Places, IInv, TypeOK
  <2>3. opened[b][k] < opened[c][k] \/ opened[c][k] < opened[b][k]
    BY <2>1, <2>2
  <2>4. QED
    BY <2>3, TwoWindowsFit
<1>3. CASE P # {} /\ \A b, c \in P : opened[b][k] = opened[c][k]
  <2>1. PICK b \in P : TRUE
    BY <1>3
  <2>2. opened[b][k] \in Nat /\ P \subseteq Generation(k, opened[b][k])
    BY <1>3 DEF Places, IInv, TypeOK, Generation, PlacesIn
  <2>3. Cardinality(P) \in Nat /\ Cardinality(P) <= Limit(k)
    BY <2>2, OneWindowFits
  <2>4. QED
    BY <2>3, LimitType
<1>4. QED
  BY <1>1, <1>2, <1>3

\* claim_window lets through less than twice a user's or a guild's limit in
\* any stretch of a window less what late claims cost.
THEOREM BurstsAreBounded == Spec => []BurstBound
<1>1. IInv => BurstBound
  BY StretchFits, RateAssumption DEF BurstBound
<1>2. QED
  BY <1>1, Invariance, PTL

-----------------------------------------------------------------------------
\* A claim that leaves without its place met a live window that was full.
LEMMA FullWindow ==
  ASSUME IInv, NEW c \in Commands, NEW S, NEW k \in Keys, clock <= now[c] + Delay,
         Claim(c, S, k), k \notin granted'[c]
  PROVE Cardinality(Places(k, Since(now[c], Window + Delay - 1), MaxClock + 1)) >= Limit(k)
<1> DEFINE from == Since(now[c], Window + Delay - 1)
           G == Generation(k, windows[k].started)
<1>1. now[c] \in Nat /\ now[c] <= clock /\ clock \in 0 .. MaxClock
  BY DEF IInv, TypeOK, OnTime
<1>2. ~Room(Entry(k, now[c]), k)
  BY DEF Claim, IInv, TypeOK
<1>3. /\ Entry(k, now[c]) = windows[k] /\ windows[k].count > 0
      /\ now[c] < windows[k].started + Window
  <2>1. /\ now[c] < Entry(k, now[c]).started + Window
        /\ \/ Entry(k, now[c]) = windows[k] /\ windows[k].count > 0
           \/ Entry(k, now[c]) = [started |-> now[c], count |-> 0]
    BY <1>1, EntryWindow
  <2>2. QED
    BY <1>2, <2>1, LimitType DEF Room
<1>4. Cardinality(G) = Limit(k) /\ windows[k].started \in Nat
  <2>1. windows[k].count = Cardinality(G) /\ windows[k].count <= Limit(k)
    BY <1>3 DEF IInv, Granted, Counted
  <2>2. ~(windows[k].count < Limit(k))
    BY <1>2, <1>3 DEF Room
  <2>3. windows[k].count \in Nat /\ windows[k].started \in Nat
    BY DEF IInv, TypeOK
  <2> HIDE DEF G
  <2>4. QED
    BY <2>1, <2>2, <2>3, LimitType
<1>5. G \subseteq Places(k, from, MaxClock + 1)
  <2> SUFFICES ASSUME NEW d \in G PROVE d \in Places(k, from, MaxClock + 1)
    OBVIOUS
  <2>1. d \in Commands /\ k \in granted[d] /\ opened[d][k] = windows[k].started
    BY DEF Generation, PlacesIn
  <2>2. at[d][k] \in Nat /\ at[d][k] <= clock /\ windows[k].started <= at[d][k] + Delay
    BY <2>1 DEF IInv, TypeOK, Granted, InWindow
  <2>3. from <= at[d][k] /\ at[d][k] < MaxClock + 1
    BY <1>1, <1>3, <1>4, <2>2, RateAssumption DEF Since
  <2>4. QED
    BY <2>1, <2>3 DEF Places
<1>6. /\ IsFiniteSet(Places(k, from, MaxClock + 1))
      /\ Cardinality(Places(k, from, MaxClock + 1)) \in Nat
  BY RateAssumption, FS_Subset, FS_CardinalityType DEF Places
<1>7. Cardinality(G) <= Cardinality(Places(k, from, MaxClock + 1))
  BY <1>5, <1>6, FS_Subset
<1>8. QED
  BY <1>4, <1>6, <1>7, LimitType

\* claim_window refuses a command only when its limit was granted within a
\* window, and the delay, of the time it read.
THEOREM EveryRefusalIsEarned == Spec => RefusalsEarned
<1> DEFINE Decides(c, k) == \/ pc[c] = "user" /\ k = user[c]
                            \/ pc[c] = "guild" /\ k = guild[c]
           Full(c, k) ==
              Cardinality(Places(k, Since(now[c], Window + Delay - 1), MaxClock + 1)) >= Limit(k)
<1>1. ASSUME IInv, [Next]_vars, NEW c \in Commands, NEW k \in Keys,
             Decides(c, k), pc'[c] # pc[c], k \notin granted'[c]
      PROVE Full(c, k)
  <2> HIDE DEF Full
  <2>1. clock <= now[c] + Delay
    BY <1>1 DEF IInv, OnTime
  <2>2. \/ ClaimUser(c) /\ k = user[c]
        \/ ClaimGuild(c) /\ k = guild[c]
    BY <1>1 DEF Next, ReadClock, ClaimUser, ClaimGuild, Tick, vars, IInv, TypeOK
  <2>3. Claim(c, Users, k) \/ Claim(c, Guilds, k)
    BY <2>2 DEF ClaimUser, ClaimGuild
  <2>4. QED
    BY <1>1, <2>1, <2>3, FullWindow DEF Full
<1>2. IInv /\ [Next]_vars =>
        [\A c \in Commands, k \in Keys :
            LET decides == \/ pc[c] = "user" /\ k = user[c]
                           \/ pc[c] = "guild" /\ k = guild[c] IN
            decides /\ pc'[c] # pc[c] /\ k \notin granted'[c] =>
               Cardinality(Places(k, Since(now[c], Window + Delay - 1), MaxClock + 1)) >= Limit(k)
        ]_vars
  BY <1>1
<1>3. QED
  BY <1>2, Invariance, PTL DEF Spec, RefusalsEarned
===============================================================================
