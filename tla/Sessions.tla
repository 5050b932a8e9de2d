------------------------------- MODULE Sessions -------------------------------
(***************************************************************************)
(* The menus of src/src/commands.rs: LOADOUT_SESSIONS, HISTORY_SESSIONS    *)
(* and IMAGE_COOLDOWNS, the commands that open a menu and the component    *)
(* interactions on it (handle_component), each a task of its own.          *)
(*                                                                         *)
(* Each access to a store is one step.  The clock ticks once per image     *)
(* cooldown, and only while no handler is between two statements with no   *)
(* await among them: such a stretch takes microseconds, not ten seconds.   *)
(* The user of an interaction is the menu's owner; anybody else is turned  *)
(* away at the first check, which the model leaves out.                    *)
(***************************************************************************)
EXTENDS Naturals, FiniteSets

CONSTANTS
    Users,
    Loadouts,       \* tokens of loadout menus
    Histories,      \* tokens of history menus
    Clicks,         \* component interactions
    TTL,            \* LOADOUT_SESSION_TTL_SECS, in cooldowns
    Cooldown,       \* IMAGE_COOLDOWN_MS
    FirstPage,      \* the page option of /history, less one
    MaxClock        \* bound of the model on the clock

Menus == Loadouts \cup Histories

ASSUME SessionAssumption ==
    /\ Loadouts \cap Histories = {}
    /\ TTL \in Nat \ {0} /\ Cooldown \in Nat \ {0}
    /\ FirstPage \in Nat /\ MaxClock \in Nat

VARIABLES
    clock,
    owner, target, act,     \* who opened a menu; what a click is on and does
    opening,        \* where the command that opens a menu is
    deadline,       \* the expires_at each menu was opened with
    sessions,       \* both stores: token -> session or Gone
    cooldowns,      \* IMAGE_COOLDOWNS: user -> expiry, 0 when absent
    pc, copy,       \* where each click is; its clone of the session
    shown,          \* the page the menu's message shows, {} for none
    raced,          \* menus on which turns under way overlapped
    stale           \* menus whose message may show another page

inputs == <<owner, target, act>>
vars   == <<clock, inputs, opening, deadline, sessions, cooldowns, pc, copy,
            shown, raced, stale>>
pages  == <<shown, raced, stale>>

Gone == [page |-> 0, expires |-> 0]
Session(p, e) == [page |-> p, expires |-> e]

Turns == {"next", "prev", "refresh", "stay"}

Init ==
    /\ clock = 1
    /\ owner \in [Menus -> Users]
    /\ target \in [Clicks -> Menus]
    /\ act \in [Clicks -> Turns \cup {"match", "pick"}]
    /\ \A c \in Clicks : act[c] = "pick" <=> target[c] \in Loadouts
    /\ opening = [m \in Menus |-> "no"]
    /\ deadline = [m \in Menus |-> 0]
    /\ sessions = [m \in Menus |-> Gone]
    /\ cooldowns = [u \in Users |-> 0]
    /\ pc = [c \in Clicks |-> "idle"]
    /\ copy = [c \in Clicks |-> Gone]
    /\ shown = [m \in Menus |-> {FirstPage}]
    /\ raced = {} /\ stale = {}

Goto(c, l) == pc' = [pc EXCEPT ![c] = l]
User(c)    == owner[target[c]]

-----------------------------------------------------------------------------
(* /loadout and /history, once their menu is known: prune, then insert.    *)

Prune(m) ==
    /\ opening[m] = "no"
    /\ opening' = [opening EXCEPT ![m] = "pruned"]
    /\ sessions' = [t \in Menus |-> IF sessions[t].expires > clock
                                    THEN sessions[t] ELSE Gone]
    /\ UNCHANGED <<clock, inputs, deadline, cooldowns, pc, copy, pages>>

Open(m) ==
    /\ opening[m] = "pruned"
    /\ opening' = [opening EXCEPT ![m] = "open"]
    /\ deadline' = [deadline EXCEPT ![m] = clock + TTL]
    /\ sessions' = [sessions EXCEPT ![m] = Session(FirstPage, clock + TTL)]
    /\ UNCHANGED <<clock, inputs, cooldowns, pc, copy, pages>>

-----------------------------------------------------------------------------
(* Every click clones the session out of its store first.                  *)

Turning(m) == {c \in Clicks : target[c] = m /\ pc[c] \in {"fetching", "stored"}}

Read(c) ==
    LET m == target[c] IN
    /\ pc[c] = "idle" /\ opening[m] = "open"
    /\ IF sessions[m] = Gone THEN Goto(c, "refused") /\ UNCHANGED copy
       ELSE Goto(c, "read") /\ copy' = [copy EXCEPT ![c] = sessions[m]]
    /\ UNCHANGED <<clock, inputs, opening, deadline, sessions, cooldowns, pages>>

-----------------------------------------------------------------------------
(* Picking a loadout, or a match of the history.                           *)

Expired(c) == clock >= copy[c].expires

Checked_Removes(c) == [sessions EXCEPT ![target[c]] = Gone]
Checked(c)         == sessions

\* Only the loadout menu looks at expires_at.  The choice may be unknown.
Check(c) ==
    /\ pc[c] = "read" /\ act[c] \in {"pick", "match"}
    /\ IF act[c] = "pick" /\ Expired(c)
       THEN /\ Goto(c, "refused")
            /\ sessions' = [sessions EXCEPT ![target[c]] = Gone]
       ELSE /\ Goto(c, "checked") \/ Goto(c, "refused")
            /\ sessions' = IF pc'[c] = "checked" THEN Checked(c) ELSE sessions
    /\ UNCHANGED <<clock, inputs, opening, deadline, cooldowns, copy, pages>>

Cooled_Always(u) == TRUE
Cooled(u)        == cooldowns[u] <= clock

\* claim_image_cooldown: one critical section.
ClaimCooldown(c) ==
    /\ pc[c] = "checked"
    /\ IF Cooled(User(c))
       THEN /\ cooldowns' = [cooldowns EXCEPT ![User(c)] = clock + Cooldown]
            /\ Goto(c, IF act[c] = "pick" THEN "claimed" ELSE "loading")
       ELSE Goto(c, "refused") /\ UNCHANGED cooldowns
    /\ UNCHANGED <<clock, inputs, opening, deadline, sessions, copy, pages>>

\* "Delete session only after the selection has been accepted."
Consume(c) ==
    /\ pc[c] = "claimed"
    /\ sessions' = [sessions EXCEPT ![target[c]] = Gone]
    /\ Goto(c, "rendering")
    /\ UNCHANGED <<clock, inputs, opening, deadline, cooldowns, copy, pages>>

\* What a request to Discord does to the message of m: it is put, or lost.
Put(m, page) == shown' = [shown EXCEPT ![m] = page]
Lost         == UNCHANGED shown

\* "Loading match" takes the place of the page and of its buttons.
Loading(c) ==
    /\ pc[c] = "loading"
    /\ Put(target[c], {}) \/ Lost
    /\ Goto(c, "rendering")
    /\ UNCHANGED <<clock, inputs, opening, deadline, sessions, cooldowns, copy,
                   raced, stale>>

\* An image, an embed or the text of an error does, or is lost.
Deliver(c) ==
    /\ pc[c] = "rendering"
    /\ \/ Goto(c, "served") /\ Put(target[c], {})
       \/ Goto(c, "failed") /\ Lost
    /\ UNCHANGED <<clock, inputs, opening, deadline, sessions, cooldowns, copy,
                   raced, stale>>

-----------------------------------------------------------------------------
(* Turning a page of the history.                                          *)

Prev(p) == IF p = 0 THEN 0 ELSE p - 1

Turned(p, a) == CASE a = "next" -> p + 1
                  [] a = "prev" -> Prev(p)
                  [] a = "refresh" -> 0
                  [] a = "stay" -> p

\* The command rate limit may refuse; else the turn is made on the clone.
Turn(c) ==
    LET m == target[c] IN
    /\ pc[c] = "read" /\ act[c] \in Turns
    /\ \/ Goto(c, "refused") /\ UNCHANGED <<copy, raced, stale>>
       \/ /\ Goto(c, "fetching")
          /\ copy' = [copy EXCEPT ![c].page = Turned(@, act[c])]
          /\ IF Turning(m) = {} THEN raced' = raced \ {m} /\ UNCHANGED stale
             ELSE raced' = raced \cup {m} /\ stale' = stale \cup {m}
    /\ UNCHANGED <<clock, inputs, opening, deadline, sessions, cooldowns, shown>>

Written_Forgets(c) == sessions
Written(c)         == [sessions EXCEPT ![target[c]] = copy[c]]

\* The backend answers, or fails.
Fetched(c) ==
    /\ pc[c] = "fetching"
    /\ \/ Goto(c, "erring") /\ UNCHANGED sessions
       \/ Goto(c, "stored") /\ sessions' = Written(c)
    /\ UNCHANGED <<clock, inputs, opening, deadline, cooldowns, copy, pages>>

\* The page is stored before it is shown, and stays so when the PATCH is
\* rejected or fails, which is only logged.
Show(c) ==
    LET m == target[c] IN
    /\ pc[c] = "stored"
    /\ \/ /\ Goto(c, "served") /\ Put(m, {copy[c].page})
          /\ stale' = IF m \in raced THEN stale ELSE stale \ {m}
       \/ Goto(c, "failed") /\ Lost /\ stale' = stale \cup {m}
    /\ UNCHANGED <<clock, inputs, opening, deadline, sessions, cooldowns, copy,
                   raced>>

\* The text of the error takes the place of the page.
ShowError(c) ==
    /\ pc[c] = "erring"
    /\ Put(target[c], {}) \/ Lost
    /\ Goto(c, "failed")
    /\ UNCHANGED <<clock, inputs, opening, deadline, sessions, cooldowns, copy,
                   raced, stale>>

-----------------------------------------------------------------------------
Synchronous == {"read", "checked", "claimed"}

Tick ==
    /\ clock < MaxClock
    /\ \A c \in Clicks : pc[c] \notin Synchronous
    /\ \A m \in Menus : opening[m] # "pruned"
    /\ clock' = clock + 1
    /\ UNCHANGED <<inputs, opening, deadline, sessions, cooldowns, pc, copy,
                   pages>>

Next == \/ \E m \in Menus : Prune(m) \/ Open(m)
        \/ \E c \in Clicks : \/ Read(c) \/ Check(c) \/ ClaimCooldown(c)
                             \/ Consume(c) \/ Loading(c) \/ Deliver(c)
                             \/ Turn(c) \/ Fetched(c) \/ Show(c) \/ ShowError(c)
        \/ Tick

Spec == Init /\ [][Next]_vars

-----------------------------------------------------------------------------
Accepted(m) == {c \in Clicks : /\ target[c] = m
                               /\ pc[c] \in {"claimed", "rendering", "served", "failed"}}

\* A loadout menu renders one choice at most, however many clicks cloned its
\* session before it was removed.  remove_session does not tell who removed
\* it: what keeps the second click out is the first one's image cooldown.
LoadoutUsedOnce == \A m \in Loadouts : Cardinality(Accepted(m)) <= 1

\* A loadout menu is alive until a choice was accepted or its time is over:
\* a click that was refused leaves it as it was.
MenuKept ==
    \A m \in Loadouts : opening[m] = "open" /\ sessions[m] = Gone =>
        Accepted(m) # {} \/ clock >= deadline[m]

\* The next turn of a menu starts from the page that its user sees, if the
\* message shows one.  A turn whose PATCH was lost after its page was stored,
\* or two turns that overlapped, may break this, but no longer than to the
\* next turn that is shown and met no other.
PagesAgree ==
    \A m \in Histories : sessions[m] # Gone /\ m \notin stale /\ Turning(m) = {} =>
        shown[m] \subseteq {sessions[m].page}
=============================================================================
