---------------------------- MODULE SessionsProofs ----------------------------
(***************************************************************************)
(* Theorems of Sessions, for every number of users, menus and clicks,      *)
(* every lifetime of a session, every cooldown and every bound on the      *)
(* clock.                                                                  *)
(***************************************************************************)
EXTENDS Sessions, FiniteSetTheorems, TLAPS

(***************************************************************************)
(* The inductive invariant.                                                *)
(***************************************************************************)
Entries == [page : Nat, expires : Nat]
Acts    == Turns \cup {"match", "pick"}
Labels  == {"idle", "refused", "read", "checked", "claimed", "loading", "rendering",
            "fetching", "stored", "erring", "served", "failed"}

InputsOK ==
    /\ owner \in [Menus -> Users] /\ target \in [Clicks -> Menus] /\ act \in [Clicks -> Acts]
    /\ \A c \in Clicks : act[c] = "pick" <=> target[c] \in Loadouts

TypeOK ==
    /\ clock \in Nat \ {0}
    /\ InputsOK
    /\ opening \in [Menus -> {"no", "pruned", "open"}]
    /\ deadline \in [Menus -> Nat]
    /\ sessions \in [Menus -> Entries]
    /\ cooldowns \in [Users -> Nat]
    /\ pc \in [Clicks -> Labels] /\ copy \in [Clicks -> Entries]
    /\ shown \in [Menus -> SUBSET Nat]
    /\ raced \subseteq Menus /\ stale \subseteq Menus

\* A click is on a menu that was opened, and stays in its part of the code.
Ways ==
    \A c \in Clicks :
        /\ pc[c] # "idle" => opening[target[c]] = "open"
        /\ pc[c] = "claimed" => act[c] = "pick"
        /\ pc[c] = "loading" => act[c] = "match"
        /\ pc[c] \in {"checked", "rendering"} => act[c] \in {"pick", "match"}
        /\ pc[c] \in {"fetching", "stored", "erring"} => act[c] \in Turns

\* A session and its clones keep the time the menu was opened with.
Deadlines ==
    /\ \A m \in Menus : sessions[m] = Gone \/ sessions[m].expires = deadline[m]
    /\ \A c \in Clicks :
          pc[c] \in {"read", "fetching", "stored"} => copy[c].expires = deadline[target[c]]

\* The choice of a loadout menu that was accepted is the only one; a click
\* that may still be accepted meets the image cooldown of the first.
Chosen(m) ==
    /\ \A c, d \in Accepted(m) : c = d
    /\ \A c \in Accepted(m) :
          /\ \A d \in Clicks : target[d] = m /\ pc[d] \in {"read", "checked"} =>
                                   cooldowns[owner[m]] > clock
          /\ pc[c] = "claimed" => cooldowns[owner[m]] > clock
          /\ pc[c] # "claimed" => sessions[m] = Gone

OneChoice == \A m \in Loadouts : Chosen(m)

\* Turns of a history menu that are under way, if none met another, are one,
\* and the session holds what it stored.  Unless the menu is stale, its
\* session holds the page of a turn that is about to be shown, else the one
\* that is shown.
Paged(m) ==
    /\ opening[m] # "open" => shown[m] \subseteq {FirstPage}
    /\ m \in raced => m \in stale
    /\ m \notin raced => \A c \in Turning(m) :
          /\ \A d \in Turning(m) : c = d
          /\ pc[c] = "stored" /\ sessions[m] # Gone => sessions[m].page = copy[c].page
    /\ m \notin stale /\ sessions[m] # Gone =>
          \/ \E c \in Turning(m) : pc[c] = "stored"
          \/ shown[m] \subseteq {sessions[m].page}

OneTurn == \A m \in Histories : Paged(m)

IInv == TypeOK /\ Ways /\ Deadlines /\ OneChoice /\ MenuKept /\ OneTurn

-----------------------------------------------------------------------------
LEMMA InitIInv == Init => IInv
<1> SUFFICES ASSUME Init PROVE IInv
  OBVIOUS
<1> USE SessionAssumption DEF Init
<1>1. TypeOK
  BY DEF TypeOK, InputsOK, Acts, Entries, Labels, Gone
<1>2. Ways /\ Deadlines
  BY DEF Ways, Deadlines
<1>3. OneChoice /\ MenuKept /\ OneTurn
  BY DEF OneChoice, MenuKept, OneTurn, Chosen, Paged, Accepted, Turning, Menus
<1>4. QED
  BY <1>1, <1>2, <1>3 DEF IInv

LEMMA InputsStay == ASSUME InputsOK, UNCHANGED inputs PROVE InputsOK'
BY DEF InputsOK, inputs

LEMMA TypedStep == ASSUME TypeOK, Next PROVE TypeOK'
<1> USE SessionAssumption, InputsStay DEF TypeOK, Entries, Labels, Gone, pages
<1>1. ASSUME NEW m \in Menus, Prune(m) PROVE TypeOK'
  BY <1>1 DEF Prune
<1>2. ASSUME NEW m \in Menus, Open(m) PROVE TypeOK'
  BY <1>2 DEF Open, Session
<1>3. ASSUME NEW c \in Clicks, Read(c) PROVE TypeOK'
  <2>1. target[c] \in Menus /\ sessions[target[c]] \in Entries
    BY DEF InputsOK, Entries
  <2>2. copy' \in [Clicks -> Entries]
    BY <1>3, <2>1 DEF Read
  <2>3. pc' \in [Clicks -> Labels]
    BY <1>3 DEF Read, Goto
  <2>4. QED
    BY <1>3, <2>2, <2>3 DEF Read
<1>4. ASSUME NEW c \in Clicks, Check(c) PROVE TypeOK'
  <2>1. target[c] \in Menus /\ Gone \in Entries
    BY DEF InputsOK, Entries
  <2>2. sessions' \in [Menus -> Entries]
    BY <1>4, <2>1 DEF Check, Checked
  <2>3. pc' \in [Clicks -> Labels]
    BY <1>4 DEF Check, Goto
  <2>4. QED
    BY <1>4, <2>2, <2>3 DEF Check
<1>5. ASSUME NEW c \in Clicks, ClaimCooldown(c) PROVE TypeOK'
  <2>1. User(c) \in Users
    BY DEF User, InputsOK
  <2>2. cooldowns' \in [Users -> Nat]
    BY <1>5, <2>1 DEF ClaimCooldown
  <2>3. QED
    BY <1>5, <2>2 DEF ClaimCooldown, Goto
<1>6. ASSUME NEW c \in Clicks, Consume(c) PROVE TypeOK'
  BY <1>6 DEF Consume, Goto
<1>7. ASSUME NEW c \in Clicks, Loading(c) PROVE TypeOK'
  BY <1>7 DEF Loading, Put, Lost, Goto
<1>8. ASSUME NEW c \in Clicks, Deliver(c) PROVE TypeOK'
  BY <1>8 DEF Deliver, Put, Lost, Goto
<1>9. ASSUME NEW c \in Clicks, Turn(c) PROVE TypeOK'
  <2>1. Turned(copy[c].page, act[c]) \in Nat
    BY <1>9 DEF Turn, Turned, Turns, Prev
  <2>2. copy' \in [Clicks -> Entries]
    BY <1>9, <2>1 DEF Turn
  <2>3. raced' \subseteq Menus
    BY <1>9 DEF Turn, InputsOK
  <2>4. pc' \in [Clicks -> Labels]
    BY <1>9 DEF Turn, Goto
  <2>5. QED
    BY <1>9, <2>2, <2>3, <2>4 DEF Turn
<1>10. ASSUME NEW c \in Clicks, Fetched(c) PROVE TypeOK'
  <2>1. sessions' \in [Menus -> Entries]
    BY <1>10 DEF Fetched, Written
  <2>2. pc' \in [Clicks -> Labels]
    BY <1>10 DEF Fetched, Goto
  <2>3. QED
    BY <1>10, <2>1, <2>2 DEF Fetched
<1>11. ASSUME NEW c \in Clicks, Show(c) PROVE TypeOK'
  <2>1. shown' \in [Menus -> SUBSET Nat]
    BY <1>11 DEF Show, Put, Lost
  <2>2. stale' \subseteq Menus /\ pc' \in [Clicks -> Labels]
    BY <1>11 DEF Show, Goto, InputsOK
  <2>3. QED
    BY <1>11, <2>1, <2>2 DEF Show
<1>12. ASSUME NEW c \in Clicks, ShowError(c) PROVE TypeOK'
  BY <1>12 DEF ShowError, Put, Lost, Goto
<1>13. CASE Tick
  BY <1>13 DEF Tick
<1>14. QED
  BY <1>1, <1>2, <1>3, <1>4, <1>5, <1>6, <1>7, <1>8, <1>9, <1>10, <1>11, <1>12, <1>13
  DEF Next

\* A click goes through the states of what it does.
LEMMA WaysStep == ASSUME TypeOK, Ways, Next PROVE Ways'
<1> USE SessionAssumption DEF TypeOK, InputsOK, Acts, Labels, Ways, inputs, Turns, pages
<1>1. ASSUME NEW m \in Menus, Prune(m) PROVE Ways'
  BY <1>1 DEF Prune
<1>2. ASSUME NEW m \in Menus, Open(m) PROVE Ways'
  BY <1>2 DEF Open, Session
<1>3. ASSUME NEW c \in Clicks, Read(c) PROVE Ways'
  BY <1>3 DEF Read, Goto
<1>4. ASSUME NEW c \in Clicks, Check(c) PROVE Ways'
  BY <1>4 DEF Check, Checked, Expired, Goto
<1>5. ASSUME NEW c \in Clicks, ClaimCooldown(c) PROVE Ways'
  BY <1>5 DEF ClaimCooldown, User, Goto
<1>6. ASSUME NEW c \in Clicks, Consume(c) PROVE Ways'
  BY <1>6 DEF Consume, Goto
<1>7. ASSUME NEW c \in Clicks, Loading(c) PROVE Ways'
  BY <1>7 DEF Loading, Put, Lost, Goto
<1>8. ASSUME NEW c \in Clicks, Deliver(c) PROVE Ways'
  BY <1>8 DEF Deliver, Put, Lost, Goto
<1>9. ASSUME NEW c \in Clicks, Turn(c) PROVE Ways'
  BY <1>9 DEF Turn, Turned, Prev, Goto
<1>10. ASSUME NEW c \in Clicks, Fetched(c) PROVE Ways'
  BY <1>10 DEF Fetched, Written, Goto
<1>11. ASSUME NEW c \in Clicks, Show(c) PROVE Ways'
  BY <1>11 DEF Show, Put, Lost, Goto
<1>12. ASSUME NEW c \in Clicks, ShowError(c) PROVE Ways'
  BY <1>12 DEF ShowError, Put, Lost, Goto
<1>13. CASE Tick
  BY <1>13 DEF Tick
<1>14. QED
  BY <1>1, <1>2, <1>3, <1>4, <1>5, <1>6, <1>7, <1>8, <1>9, <1>10, <1>11, <1>12, <1>13
  DEF Next

\* A step that changes no session's end, and lets no click begin.
LEMMA DeadlinesStay ==
  ASSUME Deadlines, target' = target, deadline' = deadline,
         \A m \in Menus : \/ sessions'[m] \in {sessions[m], Gone}
                          \/ sessions'[m].expires = deadline[m],
         \A d \in Clicks : pc'[d] \in {"read", "fetching", "stored"} =>
            /\ pc[d] \in {"read", "fetching", "stored"}
            /\ copy'[d].expires = copy[d].expires
  PROVE  Deadlines'
<1>1. Gone' = Gone
  BY DEF Gone
<1>2. \A m \in Menus : sessions'[m] = Gone \/ sessions'[m].expires = deadline[m]
  BY DEF Deadlines
<1>3. QED
  BY <1>1, <1>2 DEF Deadlines

\* Nobody changes when a session ends.
LEMMA DeadlinesStep == ASSUME TypeOK, Ways, Deadlines, Next PROVE Deadlines'
<1> USE SessionAssumption DEF TypeOK, InputsOK, Entries, Labels, inputs, pages
<1>1. ASSUME NEW m \in Menus, Prune(m) PROVE Deadlines'
  BY <1>1, DeadlinesStay DEF Prune
<1>2. ASSUME NEW m \in Menus, Open(m) PROVE Deadlines'
  <2>1. UNCHANGED <<target, pc, copy>> /\ opening[m] = "pruned"
    BY <1>2 DEF Open
  <2>2. \A t \in Menus : \/ t = m /\ sessions'[t].expires = deadline'[t]
                         \/ t # m /\ sessions'[t] = sessions[t] /\ deadline'[t] = deadline[t]
    BY <1>2 DEF Open, Session
  <2>3. \A d \in Clicks : pc[d] # "idle" => target[d] # m
    BY <2>1 DEF Ways
  <2>4. \A d \in Clicks : pc[d] # "idle" => deadline'[target[d]] = deadline[target[d]]
    BY <2>2, <2>3
  <2>5. QED
    BY <2>1, <2>2, <2>4 DEF Deadlines, Gone
<1>3. ASSUME NEW c \in Clicks, Read(c) PROVE Deadlines'
  <2>1. UNCHANGED <<target, deadline, sessions>> /\ target[c] \in Menus
    BY <1>3 DEF Read
  <2>2. \A d \in Clicks \ {c} : pc'[d] = pc[d] /\ copy'[d] = copy[d]
    BY <1>3 DEF Read, Goto
  <2>3. \/ pc'[c] = "refused"
        \/ copy'[c] = sessions[target[c]] /\ sessions[target[c]] # Gone
    BY <1>3 DEF Read, Goto
  <2>4. QED
    BY <2>1, <2>2, <2>3 DEF Deadlines, Gone
<1>4. ASSUME NEW c \in Clicks, Check(c) PROVE Deadlines'
  <2>1. \A m \in Menus : sessions'[m] \in {sessions[m], Gone}
    BY <1>4 DEF Check, Checked
  <2>2. \A d \in Clicks : pc'[d] = pc[d] \/ pc'[d] \in {"checked", "refused"}
    BY <1>4 DEF Check, Goto
  <2>3. UNCHANGED <<target, deadline, copy>>
    BY <1>4 DEF Check
  <2>4. QED
    BY <2>1, <2>2, <2>3, DeadlinesStay
<1>5. ASSUME NEW c \in Clicks,
             \/ ClaimCooldown(c) \/ Consume(c) \/ Loading(c) \/ Deliver(c)
             \/ Show(c) \/ ShowError(c)
      PROVE  Deadlines'
  <2>1. UNCHANGED <<target, deadline, copy>>
    BY <1>5 DEF ClaimCooldown, Consume, Loading, Deliver, Show, ShowError
  <2>2. \A m \in Menus : sessions'[m] \in {sessions[m], Gone}
    BY <1>5 DEF ClaimCooldown, Consume, Loading, Deliver, Show, ShowError
  <2>3. PICK l \in Labels \ {"read", "fetching", "stored"} : Goto(c, l)
    BY <1>5 DEF ClaimCooldown, Consume, Loading, Deliver, Show, ShowError
  <2>4. \A d \in Clicks : pc'[d] = pc[d] \/ pc'[d] = l
    BY <2>3 DEF Goto
  <2>5. QED
    BY <2>1, <2>2, <2>3, <2>4, DeadlinesStay
<1>6. ASSUME NEW c \in Clicks, Turn(c) PROVE Deadlines'
  <2>1. UNCHANGED <<target, deadline, sessions>> /\ pc[c] = "read"
    BY <1>6 DEF Turn
  <2>2. \A d \in Clicks \ {c} : pc'[d] = pc[d]
    BY <1>6 DEF Turn, Goto
  <2>3. \A d \in Clicks : copy'[d].expires = copy[d].expires
    BY <1>6 DEF Turn
  <2>4. QED
    BY <2>1, <2>2, <2>3, DeadlinesStay
<1>7. ASSUME NEW c \in Clicks, Fetched(c) PROVE Deadlines'
  <2>1. target[c] \in Menus /\ copy[c].expires = deadline[target[c]]
    BY <1>7 DEF Fetched, Deadlines
  <2>2. \A m \in Menus : sessions'[m] = sessions[m] \/ (m = target[c] /\ sessions'[m] = copy[c])
    BY <1>7, <2>1 DEF Fetched, Written
  <2>3. \A m \in Menus : sessions'[m] = sessions[m] \/ sessions'[m].expires = deadline[m]
    BY <2>1, <2>2
  <2>4. \A d \in Clicks : pc'[d] \in {"read", "fetching", "stored"} =>
                               pc[d] \in {"read", "fetching", "stored"}
    BY <1>7 DEF Fetched, Goto
  <2>5. UNCHANGED <<target, deadline, copy>>
    BY <1>7 DEF Fetched
  <2>6. QED
    BY <2>3, <2>4, <2>5, DeadlinesStay
<1>8. CASE Tick
  BY <1>8, DeadlinesStay DEF Tick
<1>9. QED
  BY <1>1, <1>2, <1>3, <1>4, <1>5, <1>6, <1>7, <1>8 DEF Next

\* A step that accepts no click on a menu and lets none begin, while a claimed
\* cooldown still runs and a removed session stays so.
LEMMA ChosenStays ==
  ASSUME NEW m, Chosen(m), owner' = owner, Accepted(m)' \subseteq Accepted(m),
         \A c \in Accepted(m) : pc'[c] = "claimed" <=> pc[c] = "claimed",
         \A d \in Clicks : target'[d] = m /\ pc'[d] \in {"read", "checked"}
                           => target[d] = m /\ pc[d] \in {"read", "checked"},
         cooldowns[owner[m]] > clock => cooldowns'[owner[m]] > clock',
         sessions[m] = Gone => sessions'[m] = Gone
  PROVE  Chosen(m)'
<1> HIDE DEF Accepted
<1>1. Gone' = Gone
  BY DEF Gone
<1>2. QED
  BY <1>1 DEF Chosen

\* A click that moves from one label to another, neither of which counts for
\* the menu, disturbs no other click.
LEMMA OthersStay ==
  ASSUME TypeOK, NEW c \in Clicks, NEW l \in Labels, Goto(c, l), target' = target
  PROVE  /\ \A d \in Clicks \ {c} : pc'[d] = pc[d]
         /\ pc'[c] = l
         /\ \A m : \/ target[c] # m
                   \/ l \notin {"claimed", "rendering", "served", "failed"}
                   \/ c \in Accepted(m)
                   => Accepted(m)' \subseteq Accepted(m)
<1>1. (\A d \in Clicks \ {c} : pc'[d] = pc[d]) /\ pc'[c] = l
  BY DEF Goto, TypeOK
<1>2. QED
  BY <1>1 DEF Accepted

\* The cooldown that a choice claims outlasts every other click that could
\* still be accepted.
LEMMA ChoiceStep == ASSUME TypeOK, Ways, OneChoice, Next PROVE OneChoice'
<1> SUFFICES ASSUME NEW m \in Loadouts, Chosen(m) PROVE Chosen(m)'
  BY DEF OneChoice
<1> USE SessionAssumption DEF TypeOK, InputsOK, Acts, Entries, Labels, Turns, Menus, Ways, inputs, Gone, pages
<1>0. \A c \in Clicks : act[c] # "pick" => target[c] # m
  OBVIOUS
<1>1. ASSUME NEW t \in Menus, Prune(t) PROVE Chosen(m)'
  <2>1. UNCHANGED <<owner, target, pc, cooldowns, clock>> /\ Accepted(m)' = Accepted(m)
    BY <1>1 DEF Prune, Accepted
  <2>2. sessions[m] = Gone => sessions'[m] = Gone
    BY <1>1 DEF Prune
  <2>3. QED
    BY <2>1, <2>2, ChosenStays DEF Gone
<1>2. ASSUME NEW t \in Menus, Open(t) PROVE Chosen(m)'
  <2>1. UNCHANGED <<owner, target, pc, cooldowns, clock>> /\ Accepted(m)' = Accepted(m)
    BY <1>2 DEF Open, Accepted
  <2>2. CASE t = m
    <3>1. Accepted(m) = {}
      BY <1>2, <2>2 DEF Open, Accepted
    <3>2. QED
      BY <2>1, <3>1 DEF Chosen
  <2>3. CASE t # m
    <3>1. sessions'[m] = sessions[m]
      BY <1>2, <2>3 DEF Open
    <3>2. QED
      BY <2>1, <3>1, ChosenStays
  <2>4. QED
    BY <2>2, <2>3
<1>3. ASSUME NEW c \in Clicks, Read(c) PROVE Chosen(m)'
  <2>0. UNCHANGED <<owner, target, cooldowns, clock, sessions>> /\ pc[c] = "idle"
    BY <1>3 DEF Read
  <2>1. CASE target[c] # m \/ sessions[m] = Gone
    <3>1. PICK l \in {"refused", "read"} :
             Goto(c, l) /\ (l = "read" => sessions[target[c]] # Gone)
      BY <1>3 DEF Read
    <3>2. \A d \in Clicks \ {c} : pc'[d] = pc[d]
      BY <3>1, <2>0, OthersStay
    <3>3. pc'[c] = l /\ Accepted(m)' \subseteq Accepted(m)
      BY <3>1, <2>0, OthersStay
    <3>4. c \notin Accepted(m)
      BY <2>0 DEF Accepted
    <3>5. \A d \in Accepted(m) : pc'[d] = pc[d]
      BY <3>2, <3>4 DEF Accepted
    <3>6. \A d \in Clicks : target'[d] = m /\ pc'[d] \in {"read", "checked"}
                            => target[d] = m /\ pc[d] \in {"read", "checked"}
      BY <2>0, <2>1, <3>1, <3>2, <3>3
    <3>7. QED
      BY <2>0, <3>3, <3>5, <3>6, ChosenStays
  <2>2. CASE target[c] = m /\ sessions[m] # Gone
    <3>1. Goto(c, "read")
      BY <1>3, <2>2 DEF Read
    <3>2. (\A d \in Clicks \ {c} : pc'[d] = pc[d]) /\ pc'[c] = "read"
      BY <3>1, <2>0, OthersStay
    <3>3. Accepted(m)' = Accepted(m) /\ \A d \in Accepted(m) : pc'[d] = pc[d]
      BY <2>0, <3>2 DEF Accepted
    <3>4. Accepted(m) # {} => cooldowns[owner[m]] > clock
      BY <2>2 DEF Chosen
    <3>5. QED
      BY <2>0, <3>3, <3>4 DEF Chosen
  <2>3. QED
    BY <2>1, <2>2
<1>4. ASSUME NEW c \in Clicks, Check(c) PROVE Chosen(m)'
  <2>0. UNCHANGED <<owner, target, cooldowns, clock>> /\ pc[c] = "read"
    BY <1>4 DEF Check
  <2>1. PICK l \in {"checked", "refused"} : Goto(c, l)
    BY <1>4 DEF Check
  <2>2. \A d \in Clicks \ {c} : pc'[d] = pc[d]
    BY <2>0, <2>1, OthersStay
  <2>3. pc'[c] = l /\ Accepted(m)' \subseteq Accepted(m)
    BY <2>0, <2>1, OthersStay
  <2>4. \A d \in Accepted(m) : pc'[d] = pc[d]
    BY <2>0, <2>2 DEF Accepted
  <2>5. \A d \in Clicks : target'[d] = m /\ pc'[d] \in {"read", "checked"}
                          => target[d] = m /\ pc[d] \in {"read", "checked"}
    BY <2>0, <2>2
  <2>6. sessions'[m] \in {sessions[m], Gone}
    BY <1>4 DEF Check, Checked
  <2>7. QED
    BY <2>0, <2>3, <2>4, <2>5, <2>6, ChosenStays DEF Gone
<1>5. ASSUME NEW c \in Clicks, ClaimCooldown(c) PROVE Chosen(m)'
  <2>0. UNCHANGED <<owner, target, sessions, clock>> /\ pc[c] = "checked"
    BY <1>5 DEF ClaimCooldown
  <2>1. cooldowns[owner[m]] > clock => cooldowns'[owner[m]] > clock'
    BY <1>5 DEF ClaimCooldown, Cooled, User
  <2>2. CASE target[c] # m \/ Goto(c, "refused")
    <3>1. PICK l \in {"claimed", "loading", "refused"} :
             Goto(c, l) /\ (target[c] = m => l = "refused")
      BY <1>5, <2>2 DEF ClaimCooldown
    <3>2. \A d \in Clicks \ {c} : pc'[d] = pc[d]
      BY <2>0, <3>1, OthersStay
    <3>3. pc'[c] = l /\ Accepted(m)' \subseteq Accepted(m)
      BY <2>0, <3>1, OthersStay
    <3>4. \A d \in Accepted(m) : pc'[d] = pc[d]
      BY <2>0, <3>2 DEF Accepted
    <3>5. \A d \in Clicks : target'[d] = m /\ pc'[d] \in {"read", "checked"}
                            => target[d] = m /\ pc[d] \in {"read", "checked"}
      BY <2>0, <3>1, <3>2, <3>3
    <3>6. QED
      BY <2>0, <2>1, <3>3, <3>4, <3>5, ChosenStays
  <2>3. CASE target[c] = m /\ ~Goto(c, "refused")
    <3>1. Goto(c, "claimed") /\ cooldowns[owner[m]] <= clock /\ cooldowns'[owner[m]] > clock
      BY <1>5, <1>0, <2>3 DEF ClaimCooldown, Cooled, User
    <3>2. (\A d \in Clicks \ {c} : pc'[d] = pc[d]) /\ pc'[c] = "claimed"
      BY <2>0, <3>1, OthersStay
    <3>3. Accepted(m) = {}
      BY <2>0, <2>3, <3>1 DEF Chosen
    <3>4. Accepted(m)' = {c}
      BY <2>0, <2>3, <3>2, <3>3 DEF Accepted
    <3>5. QED
      BY <2>0, <3>1, <3>2, <3>4 DEF Chosen
  <2>4. QED
    BY <2>2, <2>3
<1>6. ASSUME NEW c \in Clicks, Consume(c) PROVE Chosen(m)'
  <2>0. UNCHANGED <<owner, target, cooldowns, clock>> /\ pc[c] = "claimed" /\ Goto(c, "rendering")
    BY <1>6 DEF Consume
  <2>1. (\A d \in Clicks \ {c} : pc'[d] = pc[d]) /\ pc'[c] = "rendering"
    BY <2>0, OthersStay
  <2>2. Accepted(m)' = Accepted(m)
    BY <2>0, <2>1 DEF Accepted
  <2>3. \A d \in Clicks : target'[d] = m /\ pc'[d] \in {"read", "checked"}
                          => target[d] = m /\ pc[d] \in {"read", "checked"}
    BY <2>0, <2>1
  <2>4. CASE target[c] # m
    <3>1. sessions'[m] = sessions[m]
      BY <1>6, <2>4 DEF Consume
    <3>2. \A d \in Accepted(m) : pc'[d] = pc[d]
      BY <2>1, <2>4 DEF Accepted
    <3>3. QED
      BY <2>0, <2>2, <2>3, <3>1, <3>2, ChosenStays
  <2>5. CASE target[c] = m
    <3>1. sessions'[m] = Gone /\ c \in Accepted(m)
      BY <1>6, <2>0, <2>5 DEF Consume, Accepted
    <3>2. \A d \in Accepted(m) : d = c
      BY <3>1 DEF Chosen
    <3>3. QED
      BY <2>0, <2>1, <2>2, <2>3, <3>1, <3>2 DEF Chosen
  <2>6. QED
    BY <2>4, <2>5
<1>7. ASSUME NEW c \in Clicks, Deliver(c) PROVE Chosen(m)'
  <2>0. UNCHANGED <<owner, target, cooldowns, clock, sessions>> /\ pc[c] = "rendering"
    BY <1>7 DEF Deliver
  <2>1. PICK l \in {"served", "failed"} : Goto(c, l)
    BY <1>7 DEF Deliver
  <2>2. (\A d \in Clicks \ {c} : pc'[d] = pc[d]) /\ pc'[c] = l
    BY <2>0, <2>1, OthersStay
  <2>3. Accepted(m)' \subseteq Accepted(m)
    BY <2>0, <2>2 DEF Accepted
  <2>4. \A d \in Accepted(m) : pc'[d] = "claimed" <=> pc[d] = "claimed"
    BY <2>0, <2>2 DEF Accepted
  <2>5. \A d \in Clicks : target'[d] = m /\ pc'[d] \in {"read", "checked"}
                          => target[d] = m /\ pc[d] \in {"read", "checked"}
    BY <2>0, <2>2
  <2>6. QED
    BY <2>0, <2>3, <2>4, <2>5, ChosenStays
<1>8. ASSUME NEW c \in Clicks,
             Loading(c) \/ Turn(c) \/ Fetched(c) \/ Show(c) \/ ShowError(c)
      PROVE  Chosen(m)'
  <2>0. UNCHANGED <<owner, target, cooldowns, clock>>
    BY <1>8 DEF Loading, Turn, Fetched, Show, ShowError
  <2>1. target[c] # m
    BY <1>8, <1>0 DEF Loading, Turn, Fetched, Show, ShowError
  <2>2. PICK l \in {"rendering", "refused", "fetching", "erring", "stored", "served", "failed"} :
           Goto(c, l)
    BY <1>8 DEF Loading, Turn, Fetched, Show, ShowError
  <2>3. \A d \in Clicks \ {c} : pc'[d] = pc[d]
    BY <2>0, <2>2, OthersStay
  <2>4. Accepted(m)' \subseteq Accepted(m)
    BY <2>0, <2>1, <2>2, OthersStay
  <2>5. \A d \in Accepted(m) : pc'[d] = pc[d]
    BY <2>1, <2>3 DEF Accepted
  <2>6. \A d \in Clicks : target'[d] = m /\ pc'[d] \in {"read", "checked"}
                          => target[d] = m /\ pc[d] \in {"read", "checked"}
    BY <2>0, <2>1, <2>3
  <2>7. sessions'[m] = sessions[m]
    BY <1>8, <2>1 DEF Loading, Turn, Fetched, Written, Show, ShowError
  <2>8. QED
    BY <2>0, <2>4, <2>5, <2>6, <2>7, ChosenStays
<1>9. CASE Tick
  <2>1. UNCHANGED <<owner, target, pc, sessions>> /\ Accepted(m)' = Accepted(m)
    BY <1>9 DEF Tick, Accepted
  <2>2. \A d \in Clicks : pc[d] \notin {"read", "checked", "claimed"}
    BY <1>9 DEF Tick, Synchronous
  <2>3. QED
    BY <2>1, <2>2 DEF Chosen, Accepted
<1>10. QED
  BY <1>1, <1>2, <1>3, <1>4, <1>5, <1>6, <1>7, <1>8, <1>9 DEF Next

\* A step that keeps the menu's session, or had none, and every choice.
LEMMA KeptStays ==
  ASSUME NEW m, opening[m] = "open" /\ sessions[m] = Gone
                    => Accepted(m) # {} \/ clock >= deadline[m],
         opening'[m] = opening[m], sessions'[m] = Gone => sessions[m] = Gone,
         Accepted(m) \subseteq Accepted(m)', clock' = clock, deadline' = deadline
  PROVE  opening'[m] = "open" /\ sessions'[m] = Gone
            => Accepted(m)' # {} \/ clock' >= deadline'[m]
<1> HIDE DEF Accepted
<1> QED
  OBVIOUS

LEMMA KeptStep == ASSUME TypeOK, Ways, Deadlines, MenuKept, Next PROVE MenuKept'
<1> DEFINE Kept(m) == opening[m] = "open" /\ sessions[m] = Gone =>
                         Accepted(m) # {} \/ clock >= deadline[m]
<1> SUFFICES ASSUME NEW m \in Loadouts, Kept(m) PROVE Kept(m)'
  BY DEF MenuKept
<1> USE SessionAssumption DEF TypeOK, InputsOK, Acts, Entries, Labels, Turns, Menus, Ways, inputs, Deadlines, pages
<1>0. Gone' = Gone
  BY DEF Gone
<1>1. ASSUME NEW t \in Menus, Prune(t) PROVE Kept(m)'
  BY <1>1 DEF Prune, Accepted, Gone
<1>2. ASSUME NEW t \in Menus, Open(t) PROVE Kept(m)'
  <2>1. CASE t = m
    BY <1>2, <2>1 DEF Open, Session, Gone
  <2>2. CASE t # m
    BY <1>2, <2>2 DEF Open, Accepted, Gone
  <2>3. QED
    BY <2>1, <2>2
<1>3. ASSUME NEW c \in Clicks, Check(c) PROVE Kept(m)'
  <2>0. UNCHANGED <<target, opening, deadline, clock>> /\ pc[c] = "read"
    BY <1>3 DEF Check
  <2>1. \A d \in Clicks \ {c} : pc'[d] = pc[d]
    BY <1>3 DEF Check, Goto
  <2>2. Accepted(m) \subseteq Accepted(m)'
    BY <2>0, <2>1 DEF Accepted
  <2>3. CASE sessions'[m] = sessions[m]
    BY <1>0, <2>0, <2>2, <2>3, KeptStays
  <2>4. CASE sessions'[m] # sessions[m]
    <3>1. target[c] = m /\ clock >= copy[c].expires
      BY <1>3, <2>4 DEF Check, Checked, Expired
    <3>2. clock' >= deadline'[m]
      BY <2>0, <3>1
    <3>3. QED
      BY <3>2
  <2>5. QED
    BY <2>3, <2>4
<1>4. ASSUME NEW c \in Clicks, Consume(c) PROVE Kept(m)'
  <2>0. UNCHANGED <<target, opening, deadline, clock>> /\ pc[c] = "claimed" /\ pc'[c] = "rendering"
    BY <1>4 DEF Consume, Goto
  <2>1. \A d \in Clicks \ {c} : pc'[d] = pc[d]
    BY <1>4 DEF Consume, Goto
  <2>2. CASE target[c] = m
    <3>1. c \in Accepted(m)'
      BY <2>0, <2>2 DEF Accepted
    <3>2. QED
      BY <3>1
  <2>3. CASE target[c] # m
    <3>1. sessions'[m] = sessions[m]
      BY <1>4, <2>3 DEF Consume
    <3>2. Accepted(m) \subseteq Accepted(m)'
      BY <2>0, <2>1 DEF Accepted
    <3>3. QED
      BY <1>0, <2>0, <3>1, <3>2, KeptStays
  <2>4. QED
    BY <2>2, <2>3
<1>5. ASSUME NEW c \in Clicks, Read(c) \/ ClaimCooldown(c) \/ Loading(c) \/ Deliver(c)
                                \/ Turn(c) \/ Fetched(c) \/ Show(c) \/ ShowError(c)
      PROVE  Kept(m)'
  <2>0. UNCHANGED <<target, opening, deadline, clock>>
    BY <1>5 DEF Read, ClaimCooldown, Loading, Deliver, Turn, Fetched, Show, ShowError
  <2>1. sessions'[m] = sessions[m]
    <3>1. CASE Fetched(c)
      <4>1. target[c] # m
        BY <3>1 DEF Fetched
      <4>2. QED
        BY <3>1, <4>1 DEF Fetched, Written
    <3>2. QED
      BY <1>5, <3>1 DEF Read, ClaimCooldown, Loading, Deliver, Turn, Show, ShowError
  <2>2. PICK l \in Labels : Goto(c, l) /\ (pc[c] = "rendering" => l \in {"served", "failed"})
    BY <1>5 DEF Read, ClaimCooldown, Loading, Deliver, Turn, Fetched, Show, ShowError
  <2>3. (\A d \in Clicks \ {c} : pc'[d] = pc[d]) /\ pc'[c] = l
    BY <2>0, <2>2, OthersStay
  <2>4. pc[c] \notin {"claimed", "served", "failed"}
    BY <1>5 DEF Read, ClaimCooldown, Loading, Deliver, Turn, Fetched, Show, ShowError
  <2>5. Accepted(m) \subseteq Accepted(m)'
    BY <2>0, <2>2, <2>3, <2>4 DEF Accepted
  <2>6. QED
    BY <1>0, <2>0, <2>1, <2>5, KeptStays
<1>6. CASE Tick
  <2>1. UNCHANGED <<opening, sessions, deadline>> /\ clock' = clock + 1 /\ Accepted(m)' = Accepted(m)
    BY <1>6 DEF Tick, Accepted
  <2>2. clock >= deadline[m] => clock' >= deadline'[m]
    BY <2>1
  <2>3. opening'[m] = opening[m] /\ sessions'[m] = sessions[m]
    BY <2>1
  <2> HIDE DEF Accepted
  <2>4. QED
    BY <1>0, <2>1, <2>2, <2>3
<1>7. QED
  BY <1>1, <1>2, <1>3, <1>4, <1>5, <1>6 DEF Next

\* A step that leaves a menu's turns and session alone, and shows no page.
LEMMA PageStays ==
  ASSUME NEW m, Paged(m), Turning(m)' = Turning(m),
         \A c \in Turning(m) : pc'[c] = pc[c] /\ copy'[c] = copy[c],
         sessions'[m] = sessions[m], shown'[m] \subseteq shown[m], opening'[m] = opening[m],
         m \in raced <=> m \in raced', m \in stale <=> m \in stale'
  PROVE  Paged(m)'
<1> HIDE DEF Turning
<1>1. Gone' = Gone
  BY DEF Gone
<1>2. QED
  BY <1>1 DEF Paged

LEMMA TurnStep == ASSUME TypeOK, Ways, OneTurn, Next PROVE OneTurn'
<1> SUFFICES ASSUME NEW m \in Histories, Paged(m) PROVE Paged(m)'
  BY DEF OneTurn
<1> USE SessionAssumption DEF TypeOK, InputsOK, Acts, Entries, Labels, Menus, Ways, inputs, Paged, Turning, Gone, pages
<1>1. ASSUME NEW t \in Menus, Prune(t) PROVE Paged(m)'
  <2>1. UNCHANGED <<target, pc, copy, shown, raced, stale>> /\ opening[t] = "no"
    BY <1>1 DEF Prune
  <2>2. opening[m] # "open" => opening'[m] # "open"
    BY <1>1 DEF Prune
  <2>3. opening[m] = "open" => opening'[m] = "open"
    BY <1>1 DEF Prune
  <2>4. sessions'[m] \in {sessions[m], Gone}
    BY <1>1 DEF Prune
  <2>5. QED
    BY <2>1, <2>2, <2>3, <2>4
<1>2. ASSUME NEW t \in Menus, Open(t) PROVE Paged(m)'
  <2>1. UNCHANGED <<target, pc, copy, shown, raced, stale>> /\ opening[t] = "pruned"
    BY <1>2 DEF Open
  <2>2. Turning(m)' = Turning(m)
    BY <2>1
  <2>3. CASE t = m
    <3>1. Turning(m) = {} /\ shown[m] \subseteq {FirstPage}
      BY <2>1, <2>3
    <3>2. sessions'[m].page = FirstPage /\ opening'[m] = "open"
      BY <1>2, <2>3 DEF Open, Session
    <3>3. QED
      BY <2>1, <2>2, <3>1, <3>2
  <2>4. CASE t # m
    <3>1. sessions'[m] = sessions[m] /\ opening'[m] = opening[m]
      BY <1>2, <2>4 DEF Open
    <3>2. QED
      BY <2>1, <2>2, <3>1, PageStays
  <2>5. QED
    BY <2>3, <2>4
<1>3. ASSUME NEW c \in Clicks, Read(c) PROVE Paged(m)'
  <2>1. UNCHANGED <<target, opening, sessions, shown, raced, stale>> /\ pc[c] = "idle"
    BY <1>3 DEF Read
  <2>2. \A d \in Clicks \ {c} : pc'[d] = pc[d] /\ copy'[d] = copy[d]
    BY <1>3 DEF Read, Goto
  <2>3. pc'[c] \in {"refused", "read"}
    BY <1>3 DEF Read, Goto
  <2>4. Turning(m)' = Turning(m) /\ c \notin Turning(m)
    BY <2>1, <2>2, <2>3
  <2>5. QED
    BY <2>1, <2>2, <2>4, PageStays
<1>4. ASSUME NEW c \in Clicks, Check(c) PROVE Paged(m)'
  <2>1. act[c] = "pick" => target[c] # m
    BY <1>4
  <2>2. sessions'[m] = sessions[m]
    BY <1>4, <2>1 DEF Check, Checked
  <2>3. Turning(m)' = Turning(m) /\ \A d \in Turning(m) : pc'[d] = pc[d]
    BY <1>4 DEF Check, Goto
  <2>4. QED
    BY <1>4, <2>2, <2>3, PageStays DEF Check
<1>5. ASSUME NEW c \in Clicks, ClaimCooldown(c) \/ Consume(c) PROVE Paged(m)'
  <2>1. /\ UNCHANGED <<target, opening, copy, shown, raced, stale>>
        /\ pc[c] \in {"checked", "claimed"}
    BY <1>5 DEF ClaimCooldown, Consume
  <2>2. sessions'[m] = sessions[m]
    <3>1. pc[c] = "claimed" => target[c] # m
      OBVIOUS
    <3>2. QED
      BY <1>5, <3>1 DEF ClaimCooldown, Consume
  <2>3. PICK l \in {"claimed", "loading", "refused", "rendering"} : Goto(c, l)
    BY <1>5 DEF ClaimCooldown, Consume
  <2>4. (\A d \in Clicks \ {c} : pc'[d] = pc[d]) /\ pc'[c] = l
    BY <2>3 DEF Goto
  <2>5. Turning(m)' = Turning(m) /\ c \notin Turning(m)
    BY <2>1, <2>4
  <2>6. QED
    BY <2>1, <2>2, <2>4, <2>5, PageStays
<1>6. ASSUME NEW c \in Clicks, Loading(c) \/ Deliver(c) PROVE Paged(m)'
  <2>1. Turning(m)' = Turning(m) /\ \A d \in Turning(m) : pc'[d] = pc[d]
    BY <1>6 DEF Loading, Deliver, Goto
  <2>2. shown'[m] \subseteq shown[m]
    BY <1>6 DEF Loading, Deliver, Put, Lost
  <2>3. QED
    BY <1>6, <2>1, <2>2, PageStays DEF Loading, Deliver
<1>7. ASSUME NEW c \in Clicks, Turn(c) PROVE Paged(m)'
  <2>0. UNCHANGED <<opening, shown, sessions>>
    BY <1>7 DEF Turn
  <2>1. CASE Goto(c, "refused") /\ UNCHANGED <<copy, raced, stale>>
    <3>1. Turning(m)' = Turning(m) /\ \A d \in Turning(m) : pc'[d] = pc[d]
      BY <1>7, <2>1 DEF Turn, Goto
    <3>2. QED
      BY <2>0, <2>1, <3>1, PageStays
  <2>2. CASE Goto(c, "fetching") /\ target[c] # m
    <3>1. Turning(m)' = Turning(m) /\ \A d \in Turning(m) : pc'[d] = pc[d] /\ copy'[d] = copy[d]
      BY <1>7, <2>2 DEF Turn, Goto
    <3>2. (m \in raced <=> m \in raced') /\ (m \in stale <=> m \in stale')
      BY <1>7, <2>2 DEF Turn
    <3>3. QED
      BY <2>0, <3>1, <3>2, PageStays
  <2>3. CASE Goto(c, "fetching") /\ target[c] = m /\ Turning(m) # {}
    <3>1. m \in raced' /\ m \in stale'
      BY <1>7, <2>3 DEF Turn, Goto
    <3>2. QED
      BY <2>0, <3>1
  <2>4. CASE Goto(c, "fetching") /\ target[c] = m /\ Turning(m) = {}
    <3>1. Turning(m)' = {c} /\ pc'[c] = "fetching"
      BY <1>7, <2>4 DEF Turn, Goto
    <3>2. m \notin raced' /\ stale' = stale
      BY <1>7, <2>4 DEF Turn, Goto
    <3>3. QED
      BY <2>0, <2>4, <3>1, <3>2
  <2>5. QED
    BY <1>7, <2>1, <2>2, <2>3, <2>4 DEF Turn
<1>8. ASSUME NEW c \in Clicks, Fetched(c) PROVE Paged(m)'
  <2>0. /\ UNCHANGED <<target, opening, copy, shown, raced, stale>> /\ pc[c] = "fetching"
        /\ \A d \in Clicks \ {c} : pc'[d] = pc[d]
    BY <1>8 DEF Fetched, Goto
  <2>1. CASE target[c] # m
    <3>1. Turning(m)' = Turning(m) /\ \A d \in Turning(m) : pc'[d] = pc[d]
      BY <1>8, <2>1 DEF Fetched, Goto
    <3>2. sessions'[m] = sessions[m]
      BY <1>8, <2>1 DEF Fetched, Written
    <3>3. QED
      BY <2>0, <3>1, <3>2, PageStays
  <2>2. CASE target[c] = m /\ Goto(c, "erring") /\ UNCHANGED sessions
    <3>1. Turning(m)' = Turning(m) \ {c}
      BY <2>0, <2>2 DEF Goto
    <3>2. QED
      BY <2>0, <2>2, <3>1
  <2>3. CASE target[c] = m /\ Goto(c, "stored") /\ sessions' = Written(c)
    <3>1. Turning(m)' = Turning(m) /\ c \in Turning(m) /\ pc'[c] = "stored"
      BY <2>0, <2>3 DEF Goto
    <3>2. sessions'[m] = copy[c]
      BY <2>3 DEF Written
    <3>3. QED
      BY <2>0, <3>1, <3>2
  <2>4. QED
    BY <1>8, <2>1, <2>2, <2>3 DEF Fetched
<1>9. ASSUME NEW c \in Clicks, Show(c) PROVE Paged(m)'
  <2>0. /\ UNCHANGED <<target, opening, copy, sessions, raced>> /\ pc[c] = "stored"
        /\ \A d \in Clicks \ {c} : pc'[d] = pc[d]
        /\ pc'[c] \in {"served", "failed"}
    BY <1>9 DEF Show, Goto
  <2>1. CASE target[c] # m
    <3>1. Turning(m)' = Turning(m) /\ \A d \in Turning(m) : pc'[d] = pc[d]
      BY <2>0, <2>1
    <3>2. shown'[m] = shown[m] /\ (m \in stale <=> m \in stale')
      BY <1>9, <2>1 DEF Show, Put, Lost
    <3>3. QED
      BY <2>0, <3>1, <3>2, PageStays
  <2>2. CASE target[c] = m
    <3>1. Turning(m)' = Turning(m) \ {c} /\ c \in Turning(m) /\ opening[m] = "open"
      BY <2>0, <2>2
    <3>2. CASE m \in raced
      <4>1. m \in stale'
        BY <1>9, <2>2, <3>2 DEF Show
      <4>2. QED
        BY <2>0, <3>1, <3>2, <4>1
    <3>3. CASE m \notin raced
      <4>1. Turning(m)' = {}
        BY <3>1, <3>3
      <4>2. m \in stale' \/ shown'[m] = {copy[c].page}
        BY <1>9, <2>2 DEF Show, Put
      <4>3. sessions[m] # Gone => sessions[m].page = copy[c].page
        BY <2>0, <3>1, <3>3
      <4>4. QED
        BY <2>0, <3>1, <3>3, <4>1, <4>2, <4>3
    <3>4. QED
      BY <3>2, <3>3
  <2>3. QED
    BY <2>1, <2>2
<1>10. ASSUME NEW c \in Clicks, ShowError(c) PROVE Paged(m)'
  <2>1. Turning(m)' = Turning(m) /\ \A d \in Turning(m) : pc'[d] = pc[d]
    BY <1>10 DEF ShowError, Goto
  <2>2. shown'[m] \subseteq shown[m]
    BY <1>10 DEF ShowError, Put, Lost
  <2>3. QED
    BY <1>10, <2>1, <2>2, PageStays DEF ShowError
<1>11. CASE Tick
  BY <1>11 DEF Tick, Synchronous
<1>12. QED
  BY <1>1, <1>2, <1>3, <1>4, <1>5, <1>6, <1>7, <1>8, <1>9, <1>10, <1>11
  DEF Next

-----------------------------------------------------------------------------
LEMMA Inductive == IInv /\ [Next]_vars => IInv'
<1> SUFFICES ASSUME IInv, [Next]_vars PROVE IInv'
  OBVIOUS
<1>1. CASE Next
  BY <1>1, TypedStep, WaysStep, DeadlinesStep, ChoiceStep, KeptStep, TurnStep DEF IInv
<1>2. CASE UNCHANGED vars
  BY <1>2 DEF vars, inputs, pages, IInv, TypeOK, InputsOK, Ways, Deadlines, OneChoice, Chosen, MenuKept,
     OneTurn, Paged, Accepted, Turning
<1>3. QED
  BY <1>1, <1>2

\* The menus' stores and their clicks stay in step.
THEOREM Invariance == Spec => []IInv
BY InitIInv, Inductive, PTL DEF Spec

\* Types of the two stores, the cooldowns and the clicks.
THEOREM TypeCorrect == Spec => []TypeOK
BY Invariance, PTL DEF IInv

\* However many clicks cloned a loadout menu's session, one is accepted at
\* most: the others meet its image cooldown.
THEOREM OneLoadoutPerMenu == Spec => []LoadoutUsedOnce
<1>1. IInv => LoadoutUsedOnce
  <2> SUFFICES ASSUME IInv, NEW m \in Loadouts PROVE Cardinality(Accepted(m)) <= 1
    BY DEF LoadoutUsedOnce
  <2>1. \A c, d \in Accepted(m) : c = d
    BY DEF IInv, OneChoice, Chosen
  <2>2. CASE Accepted(m) = {}
    BY <2>2, FS_EmptySet
  <2>3. CASE Accepted(m) # {}
    <3>1. PICK c \in Accepted(m) : Accepted(m) = {c}
      BY <2>1, <2>3
    <3>2. Cardinality({c}) = 1
      BY FS_Singleton
    <3>3. QED
      BY <3>1, <3>2
  <2>4. QED
    BY <2>2, <2>3
<1>2. QED
  BY <1>1, Invariance, PTL

\* A refused click never takes a loadout menu from its user.
THEOREM RefusedClicksKeepMenus == Spec => []MenuKept
BY Invariance, PTL DEF IInv

\* The session of a history menu follows what its message shows, whatever
\* answers of Discord are lost, but for a stale menu; and the next turn that
\* is shown and met no other ends its being stale.
THEOREM SessionsFollowPages == Spec => []PagesAgree
<1>1. IInv => PagesAgree
  BY DEF IInv, OneTurn, Paged, PagesAgree
<1>2. QED
  BY <1>1, Invariance, PTL
===============================================================================
