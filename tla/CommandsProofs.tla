---------------------------- MODULE CommandsProofs ----------------------------
(***************************************************************************)
(* Theorems of Commands, for every number of interactions and of users,    *)
(* and of Gateway, the other half of handle_event, for every number of     *)
(* events, users, channels and guilds.                                     *)
(***************************************************************************)
EXTENDS Commands, Gateway, FiniteSetTheorems, TLAPS

Labels == Requests \cup Responses \cup Locals \cup Edits

Typed ==
    /\ images \in BOOLEAN /\ link \subseteq Users
    /\ pc \in [Slots -> Labels] /\ cmd \in [Slots -> Inputs]
    /\ user \in [Slots -> Users] /\ owner \in [Slots -> Users]
    /\ args \in [Slots -> SUBSET {"player", "id", "champion"}]
    /\ claims \in [Slots -> 0 .. 1]
    /\ view \in [Slots -> Views \cup Edits]
    /\ private \in [Slots -> BOOLEAN] /\ lost \in [Slots -> BOOLEAN]

(***************************************************************************)
(* The inductive invariant, for each interaction i.                        *)
(***************************************************************************)

\* Before the first response nothing is shown and nothing was refused; after
\* it something is, or a call was; an ended task has shown its answer.
\* Choices are offered to an autocomplete only.
Responding(i) ==
    /\ pc[i] \in {"names", "choices"} => cmd[i] = "autocomplete"
    /\ pc[i] \in Responses \cup {"idle", "received", "names", "choices"} =>
           view[i] = "none" /\ ~lost[i]
    /\ pc[i] \in Requests \cup Edits \cup {"parse"} => view[i] # "none" \/ lost[i]
    /\ pc[i] = "done" /\ ~lost[i] => view[i] \in Edits \cup {"choices"}

\* What needs the cooldown comes after its claim, and the claim comes once.
Paying(i) ==
    /\ pc[i] \in {"idle", "received", "defer", "parse", "saved"} => claims[i] = 0
    /\ \/ pc[i] \in {"loading", "latest", "cached", "info", "render", "image"}
       \/ pc[i] = "update" /\ cmd[i] = "loadout:"
       \/ view[i] = "image"
       => claims[i] = 1

\* A stranger's press is turned away, and what touches a saved player is
\* shown to its owner alone.
Obeying(i) ==
    /\ cmd[i] \in Buttons /\ user[i] # owner[i] =>
           /\ pc[i] \in {"idle", "received", "whisper", "done"}
           /\ claims[i] = 0
           /\ view[i] # "none" => private[i]
    /\ cmd[i] \in {"save", "forget:"} /\ view[i] # "none" => private[i]

Good(i) == Responding(i) /\ Paying(i) /\ Obeying(i)

IInv == Typed /\ \A i \in Slots : Good(i)

-----------------------------------------------------------------------------
LEMMA InitIInv == Init => IInv
<1> SUFFICES ASSUME Init PROVE IInv
  OBVIOUS
<1> USE DEF Init
<1>1. Typed
  BY DEF Typed, Labels, Locals, Inputs, Slash, AccountCommands, Views
<1>2. ASSUME NEW i \in Slots PROVE Good(i)
  BY DEF Good, Responding, Paying, Obeying, Buttons, Requests, Responses, Edits
<1>3. QED
  BY <1>1, <1>2 DEF IInv

\* A step of interaction i disturbs no other.
LEMMA Others ==
  ASSUME NEW i \in Slots, IInv,
         \A j \in Slots \ {i} :
            /\ pc'[j] = pc[j] /\ claims'[j] = claims[j]
            /\ view'[j] = view[j] /\ private'[j] = private[j] /\ lost'[j] = lost[j]
            /\ cmd'[j] = cmd[j] /\ user'[j] = user[j] /\ owner'[j] = owner[j],
         Typed', Good(i)'
  PROVE  IInv'
BY DEF IInv, Good, Responding, Paying, Obeying

-----------------------------------------------------------------------------
(* The steps after the first response.                                     *)

Paid == {"latest", "cached", "info", "render", "image"}

\* Interaction i goes on to another request or to its answer; whatever needs
\* the cooldown follows something that did.
Asks(i) ==
    /\ pc[i] \in Requests
    /\ \E l \in (Requests \ {"saved"}) \cup Edits :
          /\ Goto(i, l)
          /\ l \in Paid => pc[i] \in Paid
    /\ UNCHANGED <<input, claims, shown>> /\ link' \subseteq Users

\* It claims the cooldown on its way to a match.
Pays(i) ==
    /\ pc[i] \in {"parse", "saved"}
    /\ cmd[i] = "match"
    /\ \/ /\ claims' = [claims EXCEPT ![i] = @ + 1]
          /\ \E l \in Paid \ {"image"} : Goto(i, l)
       \/ UNCHANGED claims /\ Goto(i, "text")
    /\ UNCHANGED <<input, shown, link>>

LEMMA AsksStep == ASSUME IInv, NEW i \in Slots, Asks(i) PROVE IInv'
<1>1. PICK l \in (Requests \ {"saved"}) \cup Edits : Goto(i, l) /\ (l \in Paid => pc[i] \in Paid)
  BY DEF Asks
<1>2. /\ Typed /\ pc[i] \in Requests /\ UNCHANGED <<input, claims, shown>> /\ link' \subseteq Users
      /\ pc' = [pc EXCEPT ![i] = l] /\ pc'[i] = l
  BY <1>1 DEF Asks, IInv, Goto, Typed
<1>3. Typed'
  BY <1>2 DEF Typed, input, shown, Labels
<1>4. Responding(i)'
  BY <1>2 DEF IInv, Good, Responding, shown, Requests, Responses, Edits
<1>5. Paying(i)'
  BY <1>1, <1>2 DEF IInv, Good, Paying, shown, input, Requests, Edits, Paid
<1>6. Obeying(i)'
  BY <1>2 DEF IInv, Good, Obeying, shown, input, Requests, Edits
<1>7. QED
  BY <1>2, <1>3, <1>4, <1>5, <1>6, Others DEF Good, shown, input, Typed

LEMMA PaysStep == ASSUME IInv, NEW i \in Slots, Pays(i) PROVE IInv'
<1>1. /\ Typed /\ pc[i] \in {"parse", "saved"} /\ cmd[i] = "match"
      /\ UNCHANGED <<input, shown, link>>
  BY DEF Pays, IInv
<1>2. claims[i] = 0
  BY <1>1 DEF IInv, Good, Paying
<1>3. PICK l \in Paid \cup {"text"} :
         /\ Goto(i, l)
         /\ \/ claims' = [claims EXCEPT ![i] = 1] /\ l \in Paid \ {"image"}
            \/ claims' = claims /\ l = "text"
  BY <1>2 DEF Pays
<1>4. /\ pc' = [pc EXCEPT ![i] = l] /\ pc'[i] = l
      /\ claims' \in [Slots -> 0 .. 1] /\ \A j \in Slots \ {i} : claims'[j] = claims[j]
  BY <1>1, <1>3 DEF Typed, Goto
<1>5. Typed'
  BY <1>1, <1>3, <1>4 DEF Typed, input, shown, Labels, Paid, Requests, Edits
<1>6. Responding(i)'
  BY <1>1, <1>4 DEF IInv, Good, Responding, shown, Requests, Responses, Edits, Paid
<1>7. Paying(i)'
  BY <1>1, <1>2, <1>3, <1>4 DEF IInv, Good, Paying, shown, input, Paid, Typed
<1>8. Obeying(i)'
  BY <1>1, <1>4 DEF IInv, Good, Obeying, shown, input, Buttons
<1>9. QED
  BY <1>1, <1>4, <1>5, <1>6, <1>7, <1>8, Others DEF Good, shown, input, Typed

-----------------------------------------------------------------------------
(* Responses and edits.                                                    *)

\* The first response, and what the task does next.
LEMMA RespondStep ==
  ASSUME IInv, NEW i \in Slots,
         NEW here \in Responses \cup {"choices"}, NEW w \in Views \cup Edits,
         NEW only \in BOOLEAN, NEW next \in Requests \cup Edits \cup {"parse", "done"},
         send_response(i, here, w, only, next),
         w # "none" /\ w # "image",
         next = "done" => w \in Edits \cup {"choices"},
         next \in Paid => here = "loading" \/ (here = "update" /\ cmd[i] = "loadout:"),
         next \in {"parse", "saved"} => here = "defer",
         cmd[i] \in Buttons /\ here = "whisper" => only /\ next = "done",
         cmd[i] \in {"save", "forget:"} => only
  PROVE  IInv'
<1>1. /\ Typed /\ pc[i] = here /\ UNCHANGED <<input, claims, link>>
      /\ pc' = [pc EXCEPT ![i] = next] /\ pc'[i] = next
  BY DEF send_response, Goto, IInv, Typed
<1>2. view[i] = "none" /\ ~lost[i]
  BY <1>1 DEF IInv, Good, Responding
<1>3. \/ /\ view' = [view EXCEPT ![i] = w] /\ private' = [private EXCEPT ![i] = only]
         /\ lost' = lost
      \/ lost' = [lost EXCEPT ![i] = TRUE] /\ UNCHANGED <<view, private>>
  BY <1>2 DEF send_response
<1>4. /\ view' \in [Slots -> Views \cup Edits] /\ private' \in [Slots -> BOOLEAN]
      /\ lost' \in [Slots -> BOOLEAN]
  <2>1. view' = view \/ view' = [view EXCEPT ![i] = w]
    BY <1>3
  <2>2. private' = private \/ private' = [private EXCEPT ![i] = only]
    BY <1>3
  <2>3. lost' = lost \/ lost' = [lost EXCEPT ![i] = TRUE]
    BY <1>3
  <2>4. view' \in [Slots -> Views \cup Edits]
    BY <1>1, <2>1 DEF Typed
  <2>5. private' \in [Slots -> BOOLEAN]
    BY <1>1, <2>2 DEF Typed
  <2>6. lost' \in [Slots -> BOOLEAN]
    BY <1>1, <2>3 DEF Typed
  <2>7. QED
    BY <2>4, <2>5, <2>6
<1>5. \A j \in Slots \ {i} :
         view'[j] = view[j] /\ private'[j] = private[j] /\ lost'[j] = lost[j]
  BY <1>1, <1>3 DEF Typed
<1>6. \/ view'[i] = w /\ private'[i] = only /\ lost'[i] = lost[i]
      \/ view'[i] = "none" /\ lost'[i] /\ private'[i] = private[i]
  BY <1>1, <1>2, <1>3 DEF Typed
<1>7. Typed'
  BY <1>1, <1>4 DEF Typed, input, Labels, Locals
<1>8. Responding(i)'
  BY <1>1, <1>6 DEF Responding, Requests, Responses, Edits
<1>9. Paying(i)'
  BY <1>1, <1>2, <1>6 DEF IInv, Good, Paying, input, Requests, Responses, Edits,
      Paid, Typed
<1>10. Obeying(i)'
  <2>1. cmd[i] \in Buttons /\ user[i] # owner[i] => here = "whisper"
    BY <1>1 DEF IInv, Good, Obeying, Responses
  <2>2. QED
    BY <1>1, <1>2, <1>6, <2>1 DEF IInv, Good, Obeying, input
<1>11. QED
  BY <1>1, <1>5, <1>7, <1>8, <1>9, <1>10, Others DEF Good, input, Typed

\* The answer replaces what was shown first.
LEMMA EditStep == ASSUME IInv, NEW i \in Slots, send_webhook(i) PROVE IInv'
<1>1. /\ Typed /\ pc[i] \in Edits /\ UNCHANGED <<input, claims, private, link>>
      /\ pc' = [pc EXCEPT ![i] = "done"] /\ pc'[i] = "done"
  BY DEF send_webhook, Goto, IInv, Typed
<1>2. view[i] # "none" \/ lost[i]
  BY <1>1 DEF IInv, Good, Responding
<1>3. /\ view' \in [Slots -> Views \cup Edits] /\ lost' \in [Slots -> BOOLEAN]
      /\ \A j \in Slots \ {i} : view'[j] = view[j] /\ lost'[j] = lost[j]
      /\ \/ view'[i] = pc[i] /\ view[i] # "none" /\ lost'[i] = lost[i]
         \/ view'[i] = view[i] /\ lost'[i]
  BY <1>1, <1>2 DEF send_webhook, Typed
<1>4. Typed'
  BY <1>1, <1>3 DEF Typed, input, Labels, Locals
<1>5. Responding(i)'
  BY <1>1, <1>3 DEF Responding, Requests, Responses, Edits
<1>6. Paying(i)'
  BY <1>1, <1>3 DEF IInv, Good, Paying, input
<1>7. Obeying(i)'
  BY <1>1, <1>3 DEF IInv, Good, Obeying, input, Edits
<1>8. QED
  BY <1>1, <1>3, <1>4, <1>5, <1>6, <1>7, Others DEF Good, input, Typed

\* From the delivery to the first response.
LEMMA FirstStep ==
  ASSUME IInv, NEW i \in Slots, pc[i] = "received",
         NEW l \in Responses, Goto(i, l), UNCHANGED <<input, shown, link>>,
         \/ /\ UNCHANGED claims
            /\ l # "loading" /\ (l = "update" => cmd[i] # "loadout:")
         \/ /\ claims' = [claims EXCEPT ![i] = @ + 1]
            /\ l \in {"loading", "update"},
         cmd[i] \in Buttons /\ user[i] # owner[i] => l = "whisper"
  PROVE  IInv'
<1>1. Typed /\ pc' = [pc EXCEPT ![i] = l] /\ pc'[i] = l
  BY DEF Goto, IInv, Typed
<1>2. claims[i] = 0 /\ view[i] = "none" /\ ~lost[i]
  BY DEF IInv, Good, Paying, Responding
<1>3. /\ claims' \in [Slots -> 0 .. 1] /\ \A j \in Slots \ {i} : claims'[j] = claims[j]
      /\ \/ claims'[i] = 0 /\ l # "loading" /\ (l = "update" => cmd[i] # "loadout:")
         \/ claims'[i] = 1 /\ l \in {"loading", "update"}
  BY <1>1, <1>2 DEF Typed
<1>4. Typed'
  BY <1>1, <1>3 DEF Typed, input, shown, Labels
<1>5. Responding(i)'
  BY <1>1, <1>2 DEF Responding, shown, Requests, Responses, Edits
<1>6. Paying(i)'
  BY <1>1, <1>2, <1>3 DEF Paying, shown, input, Responses
<1>7. Obeying(i)'
  BY <1>1, <1>2, <1>3 DEF Obeying, shown, input
<1>8. QED
  BY <1>1, <1>3, <1>4, <1>5, <1>6, <1>7, Others DEF Good, shown, input, Typed

-----------------------------------------------------------------------------
(* Every action is one of these steps.                                     *)

\* The delivery.
LEMMA ArriveStep == ASSUME IInv, NEW i \in Slots, handle_event(i) PROVE IInv'
<1>1. PICK c \in Inputs, u \in Users, o \in Users,
              given \in SUBSET {"player", "id", "champion"} :
         /\ c \notin Buttons => o = u
         /\ args' = [args EXCEPT ![i] = Required(c) \cup given]
         /\ cmd' = [cmd EXCEPT ![i] = c]
         /\ user' = [user EXCEPT ![i] = u]
         /\ owner' = [owner EXCEPT ![i] = o]
         /\ Goto(i, IF c = "autocomplete" THEN "names" ELSE "received")
  <2>1. \A c \in Inputs : Optional(c) \subseteq {"player", "id", "champion"}
    BY DEF Optional
  <2>2. QED
    BY <2>1 DEF handle_event
<1>2. PICK l \in {"names", "received"} :
         /\ pc' = [pc EXCEPT ![i] = l]
         /\ l = "names" => c = "autocomplete"
  BY <1>1 DEF Goto
<1>3. Typed /\ pc[i] = "idle" /\ UNCHANGED <<images, claims, shown, link>>
  BY DEF IInv, handle_event
<1>4. pc'[i] = l /\ cmd'[i] = c /\ user'[i] = u /\ owner'[i] = o
  BY <1>1, <1>2, <1>3 DEF Typed
<1>5. Required(c) \in SUBSET {"player", "id", "champion"}
  BY DEF Required
<1>6. Typed'
  <2>1. Required(c) \cup given \in SUBSET {"player", "id", "champion"}
    BY <1>5
  <2>2. args' \in [Slots -> SUBSET {"player", "id", "champion"}]
    BY <1>1, <1>3, <2>1 DEF Typed
  <2>3. pc' \in [Slots -> Labels]
    BY <1>2, <1>3 DEF Typed, Labels, Locals
  <2>4. QED
    BY <1>1, <1>3, <2>2, <2>3 DEF Typed, shown
<1>7. claims[i] = 0 /\ view[i] = "none" /\ ~lost[i]
  BY <1>3 DEF IInv, Good, Responding, Paying
<1>8. Responding(i)'
  BY <1>2, <1>3, <1>4, <1>7 DEF Responding, shown, Requests, Responses, Edits
<1>9. Paying(i)'
  BY <1>3, <1>4, <1>7 DEF Paying, shown
<1>10. Obeying(i)'
  BY <1>1, <1>2, <1>3, <1>4, <1>7 DEF Obeying, shown, Buttons
<1>11. QED
  BY <1>1, <1>2, <1>3, <1>6, <1>8, <1>9, <1>10, Others DEF Good, shown, Typed

\* The names of the champions are read before the choices are offered.
LEMMA NamesStep ==
  ASSUME IInv, NEW i \in Slots, pc[i] = "names", Goto(i, "choices"),
         UNCHANGED <<input, claims, shown, link>>
  PROVE  IInv'
<1>1. Typed /\ pc' = [pc EXCEPT ![i] = "choices"] /\ pc'[i] = "choices"
  BY DEF Goto, IInv, Typed
<1>2. cmd[i] = "autocomplete" /\ view[i] = "none" /\ ~lost[i]
  BY DEF IInv, Good, Responding
<1>3. Typed'
  BY <1>1 DEF Typed, input, shown, Labels, Locals
<1>4. Responding(i)'
  BY <1>1, <1>2 DEF Responding, input, shown, Requests, Responses, Edits
<1>5. Paying(i)'
  BY <1>1, <1>2 DEF Paying, input, shown
<1>6. Obeying(i)'
  BY <1>1, <1>2 DEF Obeying, input, shown, Buttons
<1>7. QED
  BY <1>1, <1>3, <1>4, <1>5, <1>6, Others DEF Good, input, shown, Typed

\* What the handlers of commands do once they are acknowledged.
LEMMA CommandStep ==
  ASSUME IInv, NEW i \in Slots,
         \/ player_input(i) \/ player(i) \/ history(i) \/ current(i) \/ loadout(i)
         \/ champion(i) \/ stats(i) \/ player_champions(i) \/ leaderboard(i)
         \/ activity(i) \/ status(i) \/ random(i) \/ user_context(i)
         \/ find_match(i) \/ render_match_scoreboard(i)
  PROVE  IInv'
<1>1. link \subseteq Users
  BY DEF IInv, Typed
<1> USE <1>1 DEF Asks, Ask, Step, Or, Requests, Edits, Paid
<1>2. player_input(i) \/ player(i) \/ current(i) => Asks(i)
  BY DEF player_input, player, current, Saved, AfterInput, FilterOr
<1>3. history(i) \/ loadout(i) \/ champion(i) \/ stats(i) \/ player_champions(i)
        => Asks(i)
  BY DEF history, loadout, champion, stats, player_champions, FilterOr
<1>4. leaderboard(i) \/ activity(i) \/ status(i) \/ random(i) \/ user_context(i)
        => Asks(i)
  BY DEF leaderboard, activity, status, random, user_context, Saved
<1>5. find_match(i) \/ render_match_scoreboard(i) => Asks(i)
  BY DEF find_match, render_match_scoreboard
<1> HIDE DEF Asks, Ask, Step, Or, Requests, Edits, Paid
<1>6. QED
  BY <1>2, <1>3, <1>4, <1>5, AsksStep

LEMMA MatchStep == ASSUME IInv, NEW i \in Slots, match_cmd(i) PROVE IInv'
<1>1. link \subseteq Users
  BY DEF IInv, Typed
<1>2. CASE pc[i] = "latest"
  <2>1. Asks(i)
    BY <1>1, <1>2 DEF match_cmd, Asks, Or, AfterLatest, Cached, Requests, Edits,
        Paid, shown
  <2>2. QED
    BY <2>1, AsksStep
<1>3. CASE pc[i] # "latest"
  <2>1. Pays(i)
    BY <1>3 DEF match_cmd, Pays, Claim, Cached, Paid
  <2>2. QED
    BY <2>1, PaysStep
<1>4. QED
  BY <1>2, <1>3

LEMMA SaveStep == ASSUME IInv, NEW i \in Slots, save(i) PROVE IInv'
<1>1. link \subseteq Users /\ user[i] \in Users
  BY DEF IInv, Typed
<1>2. Asks(i)
  BY <1>1 DEF save, Asks, Or, Requests, Edits, Paid, shown
<1>3. QED
  BY <1>2, AsksStep

\* The first response to a command.
LEMMA AcknowledgeStep ==
  ASSUME IInv, NEW i \in Slots,
         \/ handle_command(i) \/ defer_response(i) \/ help(i) \/ privacy(i)
         \/ reply_ephemeral_text(i)
  PROVE  IInv'
<1>1. Slash \cap Buttons = {}
  BY DEF Slash, AccountCommands, PlayerCommands, RankingCommands, ContextCommands,
         SocialCommands, Retired, Buttons
<1>2. CASE handle_command(i)
  <2>1. PICK l \in {"help", "privacy", "whisper", "defer"} : Goto(i, l)
    BY <1>2 DEF handle_command, Step, AfterRate
  <2>2. pc[i] = "received" /\ cmd[i] \notin Buttons /\ UNCHANGED <<input, claims, shown, link>>
    BY <1>1, <1>2 DEF handle_command, Step
  <2>3. l \in Responses /\ l # "loading" /\ l # "update" /\ UNCHANGED <<input, shown, link>>
    BY <2>1, <2>2 DEF Responses
  <2>4. QED
    BY <2>1, <2>2, <2>3, FirstStep
<1>3. CASE defer_response(i)
  <2>1. cmd[i] \notin Buttons
    BY <1>1, <1>3 DEF defer_response
  <2>2. Entry(i) \in (Requests \ Paid) \cup {"menu", "text", "parse"}
    BY DEF Entry, PlayerOr, FilterOr, forget, teams, Requests, Paid
  <2>3. send_response(i, "defer", Deferred(Ephemeral(cmd[i])), Ephemeral(cmd[i]), Entry(i))
    BY <1>3 DEF defer_response
  <2>4. /\ Entry(i) \in Requests \cup Edits \cup {"parse", "done"}
        /\ Entry(i) \notin Paid /\ Entry(i) # "done"
    BY <2>2 DEF Edits, Paid, Requests
  <2>5. /\ Deferred(Ephemeral(cmd[i])) \in Views
        /\ Deferred(Ephemeral(cmd[i])) # "none" /\ Deferred(Ephemeral(cmd[i])) # "image"
    BY DEF Deferred, Views
  <2>6. /\ Ephemeral(cmd[i]) \in BOOLEAN
        /\ cmd[i] \in {"save", "forget:"} => Ephemeral(cmd[i])
    BY <2>1 DEF Ephemeral, Buttons
  <2>7. QED
    BY <2>1, <2>3, <2>4, <2>5, <2>6, RespondStep DEF Responses
<1>4. CASE help(i)
  BY <1>4, RespondStep DEF help, Responses, Edits, Paid
<1>5. CASE privacy(i)
  BY <1>5, RespondStep DEF privacy, Responses, Edits, Paid
<1>6. CASE reply_ephemeral_text(i)
  BY <1>6, RespondStep DEF reply_ephemeral_text, Responses, Edits, Paid
<1>7. QED
  BY <1>2, <1>3, <1>4, <1>5, <1>6

\* Past the acknowledgement a button is its owner's.
LEMMA Owned ==
  ASSUME IInv, NEW i \in Slots, cmd[i] \in Buttons,
         pc[i] \in Requests \cup {"update", "loading"}
  PROVE  user[i] = owner[i]
BY DEF IInv, Good, Obeying, Requests

LEMMA ForgetStep == ASSUME IInv, NEW i \in Slots, forget_button(i) PROVE IInv'
<1>1. CASE pc[i] = "received"
  <2>1. PICK l \in {"update", "whisper"} :
           Goto(i, l) /\ (user[i] # owner[i] => l = "whisper")
    BY <1>1 DEF forget_button, MayConfirm
  <2>2. /\ cmd[i] = "forget:" /\ UNCHANGED <<input, shown, link, claims>>
        /\ l \in Responses /\ l # "loading"
    BY <1>1, <2>1 DEF forget_button, Responses, shown
  <2>3. QED
    BY <1>1, <2>1, <2>2, FirstStep
<1>2. CASE pc[i] = "fetch"
  <2>1. link \subseteq Users
    BY DEF IInv, Typed
  <2>2. Asks(i)
    BY <1>2, <2>1 DEF forget_button, Asks, Requests, Edits, Paid, shown
  <2>3. QED
    BY <2>2, AsksStep
<1>3. QED
  BY <1>1, <1>2 DEF forget_button

LEMMA PageStep == ASSUME IInv, NEW i \in Slots, history_button(i) PROVE IInv'
<1>1. CASE pc[i] = "received"
  <2>1. PICK l \in {"update", "whisper"} :
           Goto(i, l) /\ (user[i] # owner[i] => l = "whisper")
    BY <1>1 DEF history_button, MayTurn, Ask, Step
  <2>2. /\ cmd[i] = "history:" /\ UNCHANGED <<input, shown, link, claims>>
        /\ l \in Responses /\ l # "loading"
    BY <1>1, <2>1 DEF history_button, Ask, Step, Responses
  <2>3. QED
    BY <1>1, <2>1, <2>2, FirstStep
<1>2. CASE pc[i] = "fetch"
  <2>1. link \subseteq Users
    BY DEF IInv, Typed
  <2>2. Asks(i)
    BY <1>2, <2>1 DEF history_button, Ask, Step, Or, Asks, Requests, Edits, Paid
  <2>3. QED
    BY <2>2, AsksStep
<1>3. QED
  BY <1>1, <1>2 DEF history_button, Ask, Step

LEMMA SelectStep == ASSUME IInv, NEW i \in Slots, history_match(i) PROVE IInv'
<1>1. cmd[i] = "history-match:" /\ cmd[i] \in Buttons
  BY DEF history_match, Buttons
<1>2. CASE pc[i] = "received" /\ UNCHANGED <<input, shown, link>> /\ MaySelect(i)
           /\ Claim(i, "loading", "whisper")
  BY <1>1, <1>2, FirstStep DEF Claim, MaySelect, Responses
<1>3. CASE pc[i] = "received" /\ UNCHANGED <<input, shown, link>>
           /\ UNCHANGED claims /\ Goto(i, "whisper")
  BY <1>1, <1>3, FirstStep DEF Responses
<1>4. CASE send_response(i, "loading", "loading", FALSE, Cached(i))
  <2>1. Cached(i) \in {"cached", "info"}
    BY DEF Cached
  <2>2. /\ Cached(i) \in Requests \cup Edits \cup {"parse", "done"}
        /\ Cached(i) # "done" /\ Cached(i) \notin {"parse", "saved"}
    BY <2>1 DEF Requests
  <2>3. "loading" \in Responses \cup {"choices"} /\ "loading" \in Views \cup Edits
    BY DEF Responses, Views
  <2>4. QED
    BY <1>1, <1>4, <2>2, <2>3, RespondStep
<1>5. QED
  BY <1>2, <1>3, <1>4 DEF history_match

LEMMA ChooseStep == ASSUME IInv, NEW i \in Slots, loadout_menu(i) PROVE IInv'
<1>1. cmd[i] = "loadout:" /\ cmd[i] \in Buttons
  BY DEF loadout_menu, Step, Buttons
<1>2. CASE pc[i] = "received" /\ UNCHANGED <<input, shown, link>> /\ MayChoose(i)
           /\ Claim(i, "update", "whisper")
  BY <1>1, <1>2, FirstStep DEF Claim, MayChoose, Responses
<1>3. CASE pc[i] = "received" /\ UNCHANGED <<input, shown, link>>
           /\ UNCHANGED claims /\ Goto(i, "whisper")
  BY <1>1, <1>3, FirstStep DEF Responses
<1>4. CASE Step(i, {"loadout:"}, "render",
                \E next \in {"image", "embed"} : Goto(i, next))
  <2>1. link \subseteq Users
    BY DEF IInv, Typed
  <2>2. Asks(i)
    BY <1>4, <2>1 DEF Step, Asks, Requests, Edits, Paid
  <2>3. QED
    BY <2>2, AsksStep
<1>5. QED
  BY <1>2, <1>3, <1>4 DEF loadout_menu

LEMMA UpdateStep == ASSUME IInv, NEW i \in Slots, defer_update(i) PROVE IInv'
<1>1. PICK next \in {"render", "embed", "fetch"} :
         /\ send_response(i, "update", "unchanged", cmd[i] = "forget:", next)
         /\ next = "render" => cmd[i] = "loadout:"
  BY DEF defer_update
<1>2. PICK only \in BOOLEAN :
         /\ only = (cmd[i] = "forget:")
         /\ send_response(i, "update", "unchanged", only, next)
  BY <1>1
<1>3. cmd[i] \in Buttons
  BY DEF defer_update
<1>4. cmd[i] \in {"save", "forget:"} => only
  BY <1>2, <1>3 DEF Buttons
<1>5. /\ next \in Requests \cup Edits \cup {"parse", "done"}
      /\ next # "done" /\ next \notin {"parse", "saved"}
      /\ next \in Paid => cmd[i] = "loadout:"
  BY <1>1 DEF Requests, Edits, Paid
<1>6. "update" \in Responses \cup {"choices"} /\ "unchanged" \in Views \cup Edits
  BY DEF Responses, Views
<1>7. QED
  BY <1>2, <1>4, <1>5, <1>6, RespondStep

LEMMA ChoicesStep == ASSUME IInv, NEW i \in Slots, handle_autocomplete(i) PROVE IInv'
<1>1. CASE Step(i, {"autocomplete"}, "names", Goto(i, "choices"))
  BY <1>1, NamesStep DEF Step
<1>2. CASE send_response(i, "choices", "choices", FALSE, "done")
  <2>1. cmd[i] = "autocomplete"
    BY <1>2 DEF send_response, IInv, Good, Responding
  <2>2. "choices" \in Views
    BY DEF Views
  <2>3. QED
    BY <1>2, <2>1, <2>2, RespondStep DEF Paid
<1>3. QED
  BY <1>1, <1>2 DEF handle_autocomplete

LEMMA StepIInv == IInv /\ [Next]_vars => IInv'
<1> SUFFICES ASSUME IInv, [Next]_vars PROVE IInv'
  OBVIOUS
<1>1. CASE UNCHANGED vars
  BY <1>1 DEF IInv, Typed, Good, Responding, Paying, Obeying, vars, input, shown
<1>2. ASSUME NEW i \in Slots, command(i) PROVE IInv'
  BY <1>2, AcknowledgeStep, CommandStep, MatchStep, SaveStep DEF command
<1>3. ASSUME NEW i \in Slots, handle_component(i) PROVE IInv'
  BY <1>3, ForgetStep, PageStep, SelectStep, ChooseStep, UpdateStep DEF handle_component
<1>4. QED
  BY <1>1, <1>2, <1>3, ArriveStep, AcknowledgeStep, CommandStep, ChoicesStep, EditStep
  DEF Next

-----------------------------------------------------------------------------
\* Everything above, in every state of the interactions.
THEOREM Invariance == Spec => []IInv
BY InitIInv, StepIInv, PTL DEF Spec

\* Every variable keeps its type; no task claims a cooldown twice.
THEOREM TypeCorrect == Spec => []TypeOK
<1>1. IInv => TypeOK
  BY DEF IInv, Typed, TypeOK, Labels
<1>2. QED
  BY <1>1, Invariance, PTL

\* No task of handle_event ends with its user left waiting, unless Discord
\* refused what it sent.
THEOREM EveryoneIsAnswered == Spec => []Answered
<1>1. IInv => Answered
  BY DEF IInv, Good, Responding, Answered
<1>2. QED
  BY <1>1, Invariance, PTL

\* Every command is acknowledged before the backend is asked, and once.
THEOREM AcknowledgedFirst == Spec => []AckFirst
<1>1. IInv => AckFirst
  BY DEF IInv, Good, Responding, AckFirst
<1>2. QED
  BY <1>1, Invariance, PTL

\* Every image of /match, /history and /loadout was paid for with exactly
\* one cooldown.
THEOREM EveryImageIsPaid == Spec => []ImagePaid
<1>1. IInv => ImagePaid
  BY DEF IInv, Good, Paying, ImagePaid
<1>2. QED
  BY <1>1, Invariance, PTL

\* A stranger's press on a button or a menu is turned away in private.
THEOREM StrangersAreTurnedAway == Spec => []MenusObeyOwner
<1>1. IInv => MenusObeyOwner
  BY DEF IInv, Good, Obeying, MenusObeyOwner
<1>2. QED
  BY <1>1, Invariance, PTL

\* /save and the confirmation of /forget change the player of their own user
\* only, and only in private.
THEOREM OwnPlayerOnly == Spec => OnlyOwnersLink
<1> DEFINE A == \A u \in Users : (u \in link) # (u \in link') =>
                   \E i \in Slots : /\ user[i] = u /\ pc[i] # pc'[i]
                                    /\ cmd[i] \in {"save", "forget:"}
                                    /\ private[i] \/ lost[i]
<1>1. IInv /\ [Next]_vars => [A]_vars
  <2> SUFFICES ASSUME IInv, NEW u \in Users, (u \in link) # (u \in link'), Next
               PROVE  \E i \in Slots : /\ user[i] = u /\ pc[i] # pc'[i]
                                       /\ cmd[i] \in {"save", "forget:"}
                                       /\ private[i] \/ lost[i]
    OBVIOUS
  <2>1. PICK i \in Slots :
           \/ save(i) /\ pc[i] = "store" /\ link' \in {link, link \cup {user[i]}}
           \/ forget_button(i) /\ pc[i] = "fetch" /\ link' \in {link, link \ {owner[i]}}
    BY DEF Next, command, handle_component, handle_event, handle_command,
           defer_response, handle_autocomplete, find_match, render_match_scoreboard,
           reply_ephemeral_text, send_webhook, send_response, help, privacy, save,
           player_input, player, match_cmd, history, current, loadout, champion,
           stats, player_champions, leaderboard, activity, status, random,
           user_context, forget_button, history_match, history_button,
           loadout_menu, defer_update, Step, Ask
  <2>2. pc'[i] = "text" /\ pc[i] \in Requests /\ pc[i] # "text"
    BY <2>1 DEF save, forget_button, Goto, IInv, Typed, Requests
  <2>3. /\ cmd[i] \in {"save", "forget:"}
        /\ cmd[i] = "forget:" => user[i] = owner[i]
    BY <2>1, Owned DEF save, forget_button, Buttons, Requests
  <2>4. user[i] = u
    BY <2>1, <2>3 DEF save, forget_button
  <2>5. private[i] \/ lost[i]
    BY <2>2, <2>3 DEF IInv, Good, Responding, Obeying
  <2>6. QED
    BY <2>2, <2>3, <2>4, <2>5
<1>2. QED
  BY <1>1, Invariance, PTL DEF Spec, OnlyOwnersLink

-----------------------------------------------------------------------------
(* The events that are not interactions (Gateway).                         *)

Seats  == Channels \cup {Nowhere}
Events == [kind : {"ready", "guild", "delete", "voice"},
           seats : UNION {[S -> Seats] : S \in SUBSET Members}]
Places == {"spawned"} \cup Registering \cup Ended

GatewayTyped ==
    /\ social \in BOOLEAN /\ devGuild \in Guilds \cup {NoGuild}
    /\ stream \in {"open", "backoff"}
    /\ attempts \in Nat /\ (stream = "backoff" => attempts > 0)
    /\ events \in Seq(Events) /\ at \in Seq(Places) /\ Len(at) = Len(events)
    /\ \A n \in Ids : events[n].kind \in Intents
    /\ home \in [Members -> Guilds] /\ away \subseteq Guilds
    /\ truth \in [Members -> Seats] /\ cache \in [Members -> Seats]
    /\ started \in BOOLEAN /\ adrift \subseteq Members
    /\ global \in {"none", "old", "new"}
    /\ override \in [Guilds -> {"none", "old", "new"}]
    /\ cleared \subseteq Guilds /\ failed \subseteq Guilds \ cleared

Registrant(n) == at[n] \in Registering \cup {"registered", "error"}

\* The flag is set before the first registration, and one task only found it
\* unset.
Claimed ==
    /\ \A n \in Ids : Registrant(n) => started
    /\ \A m, n \in Ids : Registrant(m) /\ Registrant(n) => m = n

\* Where a registration is tells which sets it has replaced.
Replaced ==
    /\ \A n \in Ids :
          /\ at[n] \in {"global", "clear"} => devGuild = NoGuild
          /\ at[n] = "guild" => devGuild # NoGuild
          /\ at[n] = "clear" => global = "new"
          /\ at[n] = "registered" /\ devGuild = NoGuild =>
                 global = "new" /\ Guilds = cleared \cup failed
    /\ devGuild = NoGuild => \A g \in cleared : override[g] = "none"

\* An event about u that is not handled yet.
Pending(n, u) == Concerns(events[n], u) /\ at[n] = "spawned"

\* Of a user who is not adrift, every such event tells where the user is now;
\* if none names the user, the cache knows.
Follows ==
    social => \A u \in Members \ adrift :
        /\ \A n \in Ids : Pending(n, u) => events[n].seats[u] = truth[u]
        /\ (\E n \in Ids : Pending(n, u) /\ Names(events[n], u)) \/ cache[u] = truth[u]

GatewayInv == GatewayTyped /\ Claimed /\ Replaced /\ Follows

-----------------------------------------------------------------------------
LEMMA InitGatewayInv == GatewayInit => GatewayInv
<1> SUFFICES ASSUME GatewayInit PROVE GatewayInv
  OBVIOUS
<1> USE DEF GatewayInit, Ids
<1>1. /\ \A n \in Ids : FALSE
      /\ Len(at) = Len(events) /\ events \in Seq(Events) /\ at \in Seq(Places)
  OBVIOUS
<1>2. GatewayTyped
  <2>1. /\ truth \in [Members -> Seats] /\ cache = truth
        /\ override \in [Guilds -> {"none", "old", "new"}]
    BY DEF Seats
  <2>2. QED
    BY <1>1, <2>1 DEF GatewayTyped
<1>3. Claimed /\ Replaced /\ Follows
  BY <1>1 DEF Claimed, Replaced, Follows
<1>4. QED
  BY <1>2, <1>3 DEF GatewayInv

\* An event that is read is the last one.
LEMMA Spawning ==
  ASSUME GatewayTyped, NEW e \in Events, Read(e)
  PROVE  /\ Ids' = Ids \cup {Len(events) + 1} /\ Len(events) + 1 \notin Ids
         /\ events' \in Seq(Events) /\ at' \in Seq(Places) /\ Len(at') = Len(events')
         /\ events'[Len(events) + 1] = e /\ at'[Len(events) + 1] = "spawned"
         /\ \A n \in Ids : events'[n] = events[n] /\ at'[n] = at[n]
<1>1. /\ events \in Seq(Events) /\ at \in Seq(Places) /\ Len(at) = Len(events)
      /\ events' = Append(events, e) /\ at' = Append(at, "spawned")
  BY DEF GatewayTyped, Read, Spawn
<1>2. "spawned" \in Places
  BY DEF Places
<1>3. QED
  BY <1>1, <1>2 DEF Ids

\* What an event tells is true when it is read, unless it takes a guild away, and
\* nobody moves whom it does not name.
Truthful(e) ==
    \A u \in Members : /\ Concerns(e, u) /\ e.kind # "delete" => e.seats[u] = truth'[u]
                       /\ ~Names(e, u) => truth'[u] = truth[u]

LEMMA ReadStep ==
  ASSUME GatewayInv, NEW e \in Events, e.kind \in Intents, Read(e), Truthful(e),
         UNCHANGED <<loop, cache, started, commands>>,
         away' \subseteq Guilds, truth' \in [Members -> Seats]
  PROVE  GatewayInv'
<1>1. GatewayTyped
  BY DEF GatewayInv
<1>2. PICK k : /\ Ids' = Ids \cup {k} /\ k \notin Ids
               /\ events' \in Seq(Events) /\ at' \in Seq(Places)
               /\ Len(at') = Len(events')
               /\ events'[k] = e /\ at'[k] = "spawned"
               /\ \A n \in Ids : events'[n] = events[n] /\ at'[n] = at[n]
  BY <1>1, Spawning
<1>3. Intents' = Intents /\ adrift' \subseteq Members
  BY DEF Intents, loop, config, Read
<1>4. GatewayTyped'
  BY <1>1, <1>2, <1>3 DEF GatewayTyped, loop, config, commands
<1>5. Claimed'
  BY <1>1, <1>2 DEF GatewayInv, Claimed, Registrant, Registering
<1>6. Replaced'
  BY <1>1, <1>2 DEF GatewayInv, Replaced, loop, config, commands
<1>7. Follows'
  <2> SUFFICES ASSUME social, NEW v \in Members \ adrift'
               PROVE  /\ \A n \in Ids' : Pending(n, v)' => events'[n].seats[v] = truth'[v]
                      /\ \/ \E n \in Ids' : Pending(n, v)' /\ Names(events'[n], v)
                         \/ cache'[v] = truth'[v]
    BY DEF Follows, loop, config, Names, Concerns
  <2>1. /\ ~(Concerns(e, v) /\ \E n \in Ids : Pending(n, v))
        /\ Concerns(e, v) => e.kind # "delete"
        /\ Names(e, v) \/ v \notin adrift
    BY DEF Read, UnderWay, Pending
  <2>2. /\ Pending(k, v)' <=> Concerns(e, v)
        /\ \A n \in Ids : Pending(n, v)' <=> Pending(n, v)
    BY <1>2 DEF Pending, Concerns
  <2>3. v \notin adrift =>
           /\ \A n \in Ids : Pending(n, v) => events[n].seats[v] = truth[v]
           /\ (\E n \in Ids : Pending(n, v) /\ Names(events[n], v)) \/ cache[v] = truth[v]
    BY DEF GatewayInv, Follows
  <2>4. CASE Concerns(e, v)
    <3>1. \A n \in Ids' : Pending(n, v)' => n = k
      BY <1>2, <2>1, <2>2, <2>4
    <3>2. e.seats[v] = truth'[v]
      BY <2>1, <2>4 DEF Truthful
    <3>3. CASE Names(e, v)
      BY <1>2, <2>2, <2>4, <3>1, <3>2, <3>3
    <3>4. CASE ~Names(e, v)
      <4>1. truth'[v] = truth[v] /\ v \notin adrift
        BY <2>1, <3>4 DEF Truthful
      <4>2. cache[v] = truth[v]
        BY <2>1, <2>3, <2>4, <4>1
      <4>3. QED
        BY <1>2, <3>1, <3>2, <4>1, <4>2
    <3>5. QED
      BY <3>3, <3>4
  <2>5. CASE ~Concerns(e, v)
    <3>1. v \notin adrift /\ truth'[v] = truth[v]
      BY <2>1, <2>5 DEF Names, Truthful
    <3>2. QED
      BY <1>2, <2>2, <2>3, <2>5, <3>1
  <2>6. QED
    BY <2>4, <2>5
<1>8. QED
  BY <1>4, <1>5, <1>6, <1>7 DEF GatewayInv

\* A session begins, and a guild is listed or taken away.
LEMMA SessionStep ==
  ASSUME GatewayInv, ReadReady \/ \E g \in Guilds : ReadGuild(g) \/ ReadGuildDelete(g)
  PROVE  GatewayInv'
<1>0. GatewayTyped
  BY DEF GatewayInv
<1>1. CASE ReadReady
  <2>1. Ready \in Events /\ Ready.kind \in Intents
    <3>1. /\ Ready.kind = "ready" /\ Ready.seats \in [{} -> Seats]
          /\ {} \in SUBSET Members
      BY DEF Ready
    <3>2. QED
      BY <3>1 DEF Ready, Events, Intents
  <2>2. Truthful(Ready)
    BY <1>1 DEF ReadReady, Truthful, Ready, Concerns
  <2>3. QED
    BY <1>0, <1>1, <2>1, <2>2, ReadStep DEF ReadReady, GatewayTyped
<1>2. ASSUME NEW g \in Guilds, ReadGuild(g) PROVE GatewayInv'
  <2>1. /\ Listed(g, truth).kind = "guild" /\ Listed(g, truth).seats \in [Of(g) -> Seats]
        /\ DOMAIN Listed(g, truth).seats = Of(g) /\ Of(g) \subseteq Members
        /\ \A u \in Of(g) : Listed(g, truth).seats[u] = truth[u]
    BY <1>0 DEF Listed, Of, GatewayTyped
  <2>2. Listed(g, truth) \in Events /\ Listed(g, truth).kind \in Intents
    BY <2>1 DEF Listed, Events, Intents
  <2>3. truth' = truth /\ away' \subseteq Guilds
    BY <1>0, <1>2 DEF ReadGuild, GatewayTyped
  <2>4. Truthful(Listed(g, truth))
    BY <2>1, <2>3 DEF Truthful, Concerns
  <2>5. QED
    BY <1>0, <1>2, <2>2, <2>3, <2>4, ReadStep DEF ReadGuild, GatewayTyped
<1>3. ASSUME NEW g \in Guilds, ReadGuildDelete(g) PROVE GatewayInv'
  <2>1. /\ Removed(g).kind = "delete" /\ Removed(g).seats \in [Of(g) -> Seats]
        /\ DOMAIN Removed(g).seats = Of(g) /\ Of(g) \subseteq Members
        /\ \A u \in Of(g) : Removed(g).seats[u] = Nowhere
    BY DEF Removed, Of, Seats
  <2>2. Removed(g) \in Events /\ Removed(g).kind \in Intents
    BY <2>1 DEF Removed, Events, Intents
  <2>3. truth' = truth /\ away' \subseteq Guilds
    BY <1>0, <1>3 DEF ReadGuildDelete, GatewayTyped
  <2>4. Truthful(Removed(g))
    BY <2>1, <2>3 DEF Truthful
  <2>5. QED
    BY <1>0, <1>3, <2>2, <2>3, <2>4, ReadStep DEF ReadGuildDelete, GatewayTyped
<1>4. QED
  BY <1>1, <1>2, <1>3

LEMMA MoveStep ==
  ASSUME GatewayInv, NEW u \in Members, NEW c \in Channels \cup {Nowhere}, Move(u, c)
  PROVE  GatewayInv'
<1>1. /\ GatewayTyped /\ truth' = [truth EXCEPT ![u] = c]
      /\ UNCHANGED <<loop, away, cache, started, commands>>
      /\ truth' \in [Members -> Seats]
  BY DEF GatewayInv, GatewayTyped, Move, Seats
<1>2. CASE Read(Moved(u, c)) /\ "voice" \in Intents
  <2>1. /\ Moved(u, c).kind = "voice" /\ Moved(u, c).seats \in [{u} -> Seats]
        /\ DOMAIN Moved(u, c).seats = {u} /\ Moved(u, c).seats[u] = c
    BY DEF Moved, Seats
  <2>2. Moved(u, c) \in Events /\ {u} \subseteq Members
    BY <2>1 DEF Moved, Events
  <2>3. Truthful(Moved(u, c))
    BY <1>1, <2>1 DEF Truthful, Concerns, Names, GatewayTyped
  <2>4. QED
    BY <1>1, <1>2, <2>1, <2>2, <2>3, ReadStep DEF GatewayTyped
<1>3. CASE UNCHANGED <<events, at>> /\ adrift' \in {adrift, adrift \cup {u}}
           /\ (social => u \in adrift')
  <2>1. Ids' = Ids /\ Intents' = Intents
    BY <1>1, <1>3 DEF Ids, Intents, loop, config
  <2>2. GatewayTyped'
    BY <1>1, <1>3, <2>1 DEF GatewayTyped, loop, config, commands
  <2>3. (Claimed /\ Replaced)'
    BY <1>1, <1>3, <2>1 DEF GatewayInv, Claimed, Registrant, Replaced, loop, config, commands
  <2>4. Follows'
    <3> SUFFICES ASSUME social, NEW v \in Members \ adrift'
                 PROVE  /\ \A n \in Ids : Pending(n, v) => events[n].seats[v] = truth'[v]
                        /\ \/ \E n \in Ids : Pending(n, v) /\ Names(events[n], v)
                           \/ cache[v] = truth'[v]
      BY <1>1, <1>3, <2>1 DEF Follows, Pending, Names, Concerns, loop, config
    <3>1. v \notin adrift /\ truth'[v] = truth[v]
      BY <1>1, <1>3 DEF GatewayTyped
    <3>2. QED
      BY <3>1 DEF GatewayInv, Follows
  <2>5. QED
    BY <2>2, <2>3, <2>4 DEF GatewayInv
<1>4. QED
  BY <1>1, <1>2, <1>3 DEF Move, Intents

\* The stream ends and is opened again; the tasks do not notice.
LEMMA StreamStep == ASSUME GatewayInv, StreamEnds \/ Reconnect PROVE GatewayInv'
<1>1. /\ GatewayTyped
      /\ UNCHANGED <<config, events, at, truth, cache, adrift, started, commands>>
      /\ away' \subseteq Guilds /\ stream' \in {"open", "backoff"} /\ attempts' \in Nat
      /\ stream' = "backoff" => attempts' > 0
  BY DEF GatewayInv, GatewayTyped, StreamEnds, Reconnect, voice
<1>2. Ids' = Ids /\ Intents' = Intents
  BY <1>1 DEF Ids, Intents, config
<1>3. GatewayTyped'
  BY <1>1, <1>2 DEF GatewayTyped, config, commands
<1>4. QED
  BY <1>1, <1>2, <1>3 DEF GatewayInv, Claimed, Registrant, Replaced, Follows, Pending, Names,
     Concerns, config, commands

-----------------------------------------------------------------------------
(* The steps of the task of event n.                                       *)

LEMMA TaskTyped ==
  ASSUME GatewayInv, NEW n \in Ids, Task(n)
  PROVE  GatewayTyped' /\ Ids' = Ids /\ \A m \in Ids \ {n} : at'[m] = at[m]
<1> USE DEF GatewayInv
<1>1. UNCHANGED <<loop, events, away, truth, adrift>> /\ Ids' = Ids /\ Intents' = Intents
  BY DEF Task, handle_session_event, register_and_clear_guilds, clear_guild_commands,
     Registered, register_guild_commands, voice, Ids, Intents, loop, config
<1>2. at' = at \/ \E l \in Places : at' = [at EXCEPT ![n] = l]
  BY DEF Task, handle_session_event, register_and_clear_guilds, clear_guild_commands,
     Registered, register_guild_commands, Pass, Primary, Places, Registering, Ended
<1>3. /\ at' \in Seq(Places) /\ Len(at') = Len(at)
      /\ \A m \in Ids \ {n} : at'[m] = at[m]
  <2>1. at \in Seq(Places) /\ Ids = 1 .. Len(at)
    BY DEF GatewayTyped, Ids
  <2>2. CASE at' = at
    BY <2>1, <2>2
  <2>3. CASE \E l \in Places : at' = [at EXCEPT ![n] = l]
    BY <2>1, <2>3
  <2>4. QED
    BY <1>2, <2>2, <2>3
<1>4. cache' \in [Members -> Seats]
  <2>1. CASE cache' = cache
    BY <2>1 DEF GatewayTyped
  <2>2. ASSUME NEW kept, cache' = Updated(events[n], kept) PROVE cache' \in [Members -> Seats]
    <3>1. events[n] \in Events
      BY DEF GatewayTyped, Ids
    <3>2. \A u \in DOMAIN events[n].seats : events[n].seats[u] \in Seats
      BY <3>1 DEF Events
    <3>3. QED
      BY <2>2, <3>2 DEF GatewayTyped, Updated, Concerns
  <2>3. QED
    BY <2>1, <2>2 DEF Task, handle_session_event, register_and_clear_guilds,
       clear_guild_commands, Registered, register_guild_commands, voice
<1>5. /\ started' \in BOOLEAN /\ global' \in {"none", "old", "new"}
  BY DEF GatewayTyped, Task, handle_session_event, register_and_clear_guilds,
     clear_guild_commands, Registered, register_guild_commands, claim_registration,
     commands
<1>6. /\ override' \in [Guilds -> {"none", "old", "new"}]
      /\ cleared' \subseteq Guilds /\ failed' \subseteq Guilds \ cleared'
  <2>1. CASE UNCHANGED <<override, cleared, failed>>
    BY <2>1 DEF GatewayTyped
  <2>2. CASE clear_guild_commands(n)
    BY <2>2 DEF GatewayTyped, clear_guild_commands, Counted
  <2>3. CASE register_guild_commands(n)
    BY <2>3 DEF GatewayTyped, register_guild_commands
  <2>4. QED
    BY <2>1, <2>2, <2>3 DEF Task, handle_session_event, register_and_clear_guilds,
       Registered, commands
<1>7. QED
  BY <1>1, <1>3, <1>4, <1>5, <1>6 DEF GatewayTyped, loop, config

LEMMA Goes ==
  ASSUME GatewayTyped, NEW n \in Ids, NEW l, Pass(n, l)
  PROVE  at'[n] = l
BY DEF GatewayTyped, Ids, Pass

\* What the task of event n does to the command sets, and when.
LEMMA TaskClaims == ASSUME GatewayInv, NEW n \in Ids, Task(n) PROVE Claimed'
<1>0. GatewayTyped /\ Ids' = Ids /\ \A m \in Ids \ {n} : at'[m] = at[m]
  BY TaskTyped DEF GatewayInv
<1>1. CASE started' = started /\ (Registrant(n)' => Registrant(n))
  BY <1>0, <1>1 DEF GatewayInv, Claimed, Registrant
<1>2. CASE ~started /\ started'
  BY <1>0, <1>2 DEF GatewayInv, Claimed, Registrant
<1>3. CASE handle_session_event(n) /\ ~(~started /\ started')
  <2>1. Pass(n, "done") /\ UNCHANGED started
    BY <1>3 DEF handle_session_event, claim_registration
  <2>2. at'[n] = "done"
    BY <1>0, <2>1, Goes
  <2>3. QED
    BY <1>1, <2>1, <2>2 DEF Registrant, Registering
<1>4. CASE ~handle_session_event(n)
  <2>1. started' = started /\ at[n] \in Registering
    BY <1>4 DEF Task, register_and_clear_guilds, clear_guild_commands, Registered,
       register_guild_commands, Registering, commands
  <2>2. QED
    BY <1>1, <2>1 DEF Registrant
<1>5. QED
  BY <1>2, <1>3, <1>4

LEMMA TaskReplaces == ASSUME GatewayInv, NEW n \in Ids, Task(n) PROVE Replaced'
<1>0. /\ GatewayTyped /\ Ids' = Ids /\ \A m \in Ids \ {n} : at'[m] = at[m]
      /\ devGuild' = devGuild /\ Claimed /\ Replaced
  BY TaskTyped DEF GatewayInv, Task, handle_session_event, register_and_clear_guilds,
     clear_guild_commands, Registered, register_guild_commands, loop, config
<1>1. CASE handle_session_event(n)
  <2>1. PICK l \in {"done", Primary} : Pass(n, l)
    BY <1>1 DEF handle_session_event
  <2>2. at'[n] = l /\ UNCHANGED commands
    BY <1>0, <1>1, <2>1, Goes DEF handle_session_event
  <2>3. QED
    BY <1>0, <2>2 DEF Replaced, commands, Primary
<1>2. CASE register_and_clear_guilds(n)
  <2>1. /\ at[n] = "global" /\ UNCHANGED <<override, cleared, failed>>
        /\ \/ global' = "new" /\ at'[n] = "clear"
           \/ global' = global /\ at'[n] = "error"
    BY <1>0, <1>2, Goes DEF register_and_clear_guilds
  <2>2. QED
    BY <1>0, <2>1 DEF Replaced
<1>3. CASE clear_guild_commands(n)
  <2>1. PICK g \in Guilds \ (cleared \cup failed), done \in BOOLEAN :
           /\ override' = [override EXCEPT ![g] = IF done THEN "none" ELSE @]
           /\ Counted(g, done)
    BY <1>3 DEF clear_guild_commands
  <2>2. at[n] = "clear" /\ at' = at /\ global' = global
    BY <1>3 DEF clear_guild_commands
  <2>3. \A m \in Ids : at[m] # "registered"
    BY <1>0, <2>2 DEF Claimed, Registrant, Registering
  <2>4. \A h \in cleared' : override'[h] = "none" \/ (h \in cleared /\ override'[h] = override[h])
    BY <1>0, <2>1 DEF Counted, GatewayTyped
  <2>5. QED
    BY <1>0, <2>2, <2>3, <2>4 DEF Replaced
<1>4. CASE Registered(n)
  <2>1. /\ at[n] = "clear" /\ at'[n] = "registered" /\ UNCHANGED commands
        /\ Guilds = cleared \cup failed
    BY <1>0, <1>4, Goes DEF Registered
  <2>2. QED
    BY <1>0, <2>1 DEF Replaced, commands
<1>5. CASE register_guild_commands(n)
  <2>1. /\ at[n] = "guild" /\ at'[n] \in {"registered", "error"}
        /\ UNCHANGED <<global, cleared, failed>>
    BY <1>0, <1>5, Goes DEF register_guild_commands
  <2>2. devGuild # NoGuild
    BY <1>0, <2>1 DEF Replaced
  <2>3. QED
    BY <1>0, <2>1, <2>2 DEF Replaced
<1>6. QED
  BY <1>1, <1>2, <1>3, <1>4, <1>5 DEF Task

LEMMA TaskFollows == ASSUME GatewayInv, NEW n \in Ids, Task(n) PROVE Follows'
<1>0. /\ GatewayTyped /\ Ids' = Ids /\ \A m \in Ids \ {n} : at'[m] = at[m]
      /\ UNCHANGED <<social, events, truth, adrift>> /\ Follows
  BY TaskTyped DEF GatewayInv, Task, handle_session_event, register_and_clear_guilds,
     clear_guild_commands, Registered, register_guild_commands, loop, config, voice
<1>1. at'[n] # "spawned"
  <2>1. CASE clear_guild_commands(n)
    BY <2>1 DEF clear_guild_commands
  <2>2. CASE ~clear_guild_commands(n)
    <3>1. PICK l \in Places \ {"spawned"} : Pass(n, l)
      BY <2>2 DEF Task, handle_session_event, register_and_clear_guilds, Registered,
         register_guild_commands, Primary, Places, Registering, Ended
    <3>2. QED
      BY <1>0, <3>1, Goes
  <2>3. QED
    BY <2>1, <2>2
<1>2. \A m \in Ids, u \in Members : Pending(m, u)' <=> Pending(m, u) /\ m # n
  BY <1>0, <1>1 DEF Pending, Concerns
<1>3. ASSUME NEW u \in Members \ adrift, social
      PROVE  \/ \E m \in Ids : Pending(m, u)' /\ Names(events[m], u)
             \/ cache'[u] = truth[u]
  <2>0. /\ \A m \in Ids : Pending(m, u) => events[m].seats[u] = truth[u]
        /\ (\E m \in Ids : Pending(m, u) /\ Names(events[m], u)) \/ cache[u] = truth[u]
    BY <1>0, <1>3 DEF Follows
  <2>1. CASE Pending(n, u)
    <3>1. PICK kept \in SUBSET Unnamed(events[n]) : cache' = Updated(events[n], kept)
      BY <2>1 DEF Pending, Task, handle_session_event, register_and_clear_guilds,
         clear_guild_commands, Registered, register_guild_commands
    <3>2. events[n].seats[u] = truth[u]
      BY <2>0, <2>1
    <3>3. CASE u \notin kept
      BY <2>1, <3>1, <3>2, <3>3 DEF Updated, Pending
    <3>4. CASE u \in kept
      <4>1. ~Names(events[n], u) /\ cache'[u] = cache[u]
        BY <3>1, <3>4 DEF Unnamed, Updated
      <4>2. QED
        BY <1>2, <2>0, <4>1
    <3>5. QED
      BY <3>3, <3>4
  <2>2. CASE ~Pending(n, u)
    <3>1. cache'[u] = cache[u]
      BY <1>0, <2>2 DEF Pending, Task, handle_session_event, register_and_clear_guilds,
         clear_guild_commands, Registered, register_guild_commands, voice, Updated,
         GatewayTyped
    <3>2. QED
      BY <1>2, <2>0, <2>2, <3>1
  <2>3. QED
    BY <2>1, <2>2
<1>4. QED
  BY <1>0, <1>2, <1>3 DEF Follows, Names, Concerns

LEMMA GatewayStep == GatewayInv /\ [GatewayNext]_gatewayVars => GatewayInv'
<1> SUFFICES ASSUME GatewayInv, [GatewayNext]_gatewayVars PROVE GatewayInv'
  OBVIOUS
<1>1. CASE UNCHANGED gatewayVars
  BY <1>1 DEF GatewayInv, GatewayTyped, Claimed, Registrant, Replaced, Follows, Pending,
     Names, Concerns, Ids, Intents, gatewayVars, loop, config, voice, commands
<1>2. ASSUME NEW n \in Ids, Task(n) PROVE GatewayInv'
  BY <1>2, TaskTyped, TaskClaims, TaskReplaces, TaskFollows DEF GatewayInv
<1>3. QED
  BY <1>1, <1>2, SessionStep, StreamStep, MoveStep DEF GatewayNext

-----------------------------------------------------------------------------
\* Everything above, in every state of the gateway.
THEOREM GatewayInvariance == GatewaySpec => []GatewayInv
BY InitGatewayInv, GatewayStep, PTL DEF GatewaySpec

\* Every variable keeps its type.
THEOREM GatewayTypeCorrect == GatewaySpec => []GatewayTypeOK
<1>1. GatewayInv => GatewayTypeOK
  <2> SUFFICES ASSUME GatewayInv PROVE GatewayTypeOK
    OBVIOUS
  <2>1. stream = "backoff" => Backoff \in 2 .. 16
    BY DEF GatewayInv, GatewayTyped, Backoff
  <2>2. \A n \in Ids : at[n] \in {"spawned"} \cup Registering \cup Ended
    BY DEF GatewayInv, GatewayTyped, Ids, Places, Seats
  <2>3. QED
    BY <2>1, <2>2 DEF GatewayInv, GatewayTyped, GatewayTypeOK, Seats
<1>2. QED
  BY <1>1, GatewayInvariance, PTL

\* However many Readys there are, at most one of them registers.
THEOREM OneRegistration == GatewaySpec => []RegisteredOnce
<1>1. GatewayInv => RegisteredOnce
  <2> SUFFICES ASSUME GatewayInv PROVE RegisteredOnce
    OBVIOUS
  <2> DEFINE S == {n \in Ids : at[n] \in Registering \cup {"registered", "error"}}
  <2>1. \A m, n \in S : m = n
    BY DEF GatewayInv, Claimed, Registrant
  <2>2. CASE S = {}
    <3>1. Cardinality(S) = 0
      BY <2>2, FS_EmptySet
    <3>2. QED
      BY <3>1 DEF RegisteredOnce
  <2>3. CASE S # {}
    <3>1. PICK n : S = {n}
      BY <2>1, <2>3
    <3>2. Cardinality({n}) = 1
      BY FS_Singleton
    <3>3. QED
      BY <3>1, <3>2 DEF RegisteredOnce
  <2>4. QED
    BY <2>2, <2>3
<1>2. QED
  BY <1>1, GatewayInvariance, PTL

\* The result that a registration logs is true of Discord.
THEOREM ReportsAreTrue == GatewaySpec => []ReportTrue
<1>1. GatewayInv => ReportTrue
  BY DEF GatewayInv, Replaced, ReportTrue
<1>2. QED
  BY <1>1, GatewayInvariance, PTL

\* Once every event is handled, /teams sees every user where the user is, but
\* for the adrift, whom the next event that names them and meets no other
\* brings back.
THEOREM TheCacheFollows == GatewaySpec => []CacheFollows
<1>1. GatewayInv => CacheFollows
  BY DEF GatewayInv, Follows, Pending, CacheFollows
<1>2. QED
  BY <1>1, GatewayInvariance, PTL

\* A registration never leaves a guild that has commands without any.
THEOREM NoGuildIsLeftBare == GatewaySpec => NoGap
<1> DEFINE A == \A g \in Guilds : Offers(g) => Offers(g)'
<1>1. GatewayInv /\ [GatewayNext]_gatewayVars => [A]_gatewayVars
  <2> SUFFICES ASSUME GatewayInv, GatewayNext, NEW g \in Guilds, Offers(g) PROVE Offers(g)'
    OBVIOUS
  <2>1. CASE UNCHANGED <<global, override>>
    BY <2>1 DEF Offers
  <2>2. ASSUME NEW n \in Ids, register_and_clear_guilds(n) PROVE Offers(g)'
    BY <2>2 DEF register_and_clear_guilds, Offers
  <2>3. ASSUME NEW n \in Ids, clear_guild_commands(n) PROVE Offers(g)'
    BY <2>3 DEF clear_guild_commands, GatewayInv, Replaced, Offers
  <2>4. ASSUME NEW n \in Ids, register_guild_commands(n) PROVE Offers(g)'
    BY <2>4 DEF register_guild_commands, GatewayInv, GatewayTyped, Offers
  <2>5. QED
    BY <2>1, <2>2, <2>3, <2>4
    DEF GatewayNext, Task, ReadReady, ReadGuild, ReadGuildDelete, StreamEnds, Reconnect, Move,
        handle_session_event, Registered, commands
<1>2. QED
  BY <1>1, GatewayInvariance, PTL DEF GatewaySpec, NoGap
===============================================================================
