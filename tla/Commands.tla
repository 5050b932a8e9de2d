------------------------------- MODULE Commands -------------------------------
(***************************************************************************)
(* The interactions of src/src/commands.rs: handle_event spawns one task   *)
(* per interaction, which acknowledges it, asks the backend and the image  *)
(* service, and answers.  What a user can call is what                     *)
(* src/src/register.rs registers.                                          *)
(*                                                                         *)
(* A step lasts from one await to the next.  Each slot is the task of one  *)
(* interaction.  The answers of the backend, of the image service, of the  *)
(* rate windows, of the cooldown and of the session stores are arbitrary   *)
(* here: ApiClient, ImageService, RateLimits and Sessions model them.  pc  *)
(* names the request a task awaits or the message it is about to send, and *)
(* view what Discord shows for the interaction.  Texts, embeds and the     *)
(* options that only select or sort data are left out.                     *)
(***************************************************************************)
EXTENDS Naturals

CONSTANTS Slots, Users

VARIABLES
    images,         \* whether image_service is Some
    pc,             \* where each task is
    cmd, user,      \* its command or button, and who sent it
    owner,          \* whom the button's custom_id or session names
    args,           \* the options given, of those that select a path
    claims,         \* how often it claimed the user's image cooldown
    view,           \* what Discord shows for the interaction
    private,        \* whether only the user sees it
    lost,           \* whether Discord or the network refused a call of it
    link            \* the users with a saved primary player, at the backend

input == <<images, cmd, user, owner, args>>
shown == <<view, private, lost>>
vars  == <<input, pc, claims, shown, link>>

-----------------------------------------------------------------------------
(* What can be called (register.rs).                                       *)

AccountCommands == {"help", "save", "forget", "privacy"}
PlayerCommands  == {"profile", "player", "match", "history", "current",
                    "loadout", "champions"}
RankingCommands == {"leaderboard", "activity", "status", "champion", "maps",
                    "composition", "items"}
ContextCommands == {"Paladins Profile", "Paladins History",
                    "Paladins Current"}
SocialCommands  == {"random", "teams"}

\* A set that an earlier deployment registered stays until the first Ready.
Retired == {"retired"}

Slash == AccountCommands \cup PlayerCommands \cup RankingCommands
         \cup ContextCommands \cup SocialCommands \cup Retired

\* The options that decide which requests a command makes.
Required(c) == IF c = "save" THEN {"player"}
               ELSE IF c \in {"loadout", "champion"} THEN {"champion"} ELSE {}
Optional(c) == CASE c = "match" -> {"id"}
                 [] c = "history" -> {"player", "champion"}
                 [] c \in PlayerCommands -> {"player"}
                 [] c = "leaderboard" -> {"champion"}
                 [] OTHER -> {}

Buttons == {"forget:", "history-match:", "history:", "loadout:"}

Inputs == Slash \cup Buttons \cup {"autocomplete"}

-----------------------------------------------------------------------------
Goto(i, l) == pc' = [pc EXCEPT ![i] = l]
Has(i, o)  == o \in args[i]

\* Mutant: a failure ends the task without a word.
Or_Silent(i, l) == \E next \in {l, "done"} : Goto(i, next)

\* The task moves on to l, or tells the user in words why it does not.
Or(i, l)   == \E next \in {l, "text"} : Goto(i, next)

\* A step that only chooses where to go on.
Step(i, cs, here, move) ==
    /\ cmd[i] \in cs /\ pc[i] = here
    /\ move
    /\ UNCHANGED <<input, claims, shown, link>>

\* A request to the backend: ok is where its answer leads, any error of it
\* is told to the user.
Ask(i, cs, here, ok) == Step(i, cs, here, Or(i, ok))

-----------------------------------------------------------------------------
(* What a handler sends to Discord.  The first response of an interaction  *)
(* counts, and only a responded interaction has a message to edit.         *)

\* create_response of the message w, visible to the user alone if only.
send_response(i, here, w, only, next) ==
    /\ pc[i] = here
    /\ \/ /\ view' = [view EXCEPT ![i] = IF @ = "none" THEN w ELSE @]
          /\ private' = [private EXCEPT ![i] = only]
          /\ UNCHANGED lost
       \/ lost' = [lost EXCEPT ![i] = TRUE] /\ UNCHANGED <<view, private>>
    /\ Goto(i, next)
    /\ UNCHANGED <<input, claims, link>>

Edits == {"text", "embed", "image", "menu"}

\* The PATCH of @original, whose failures are only logged.
send_webhook(i) ==
    /\ pc[i] \in Edits
    /\ \/ /\ view' = [view EXCEPT ![i] = IF @ = "none" THEN @ ELSE pc[i]]
          /\ UNCHANGED lost
       \/ lost' = [lost EXCEPT ![i] = TRUE] /\ UNCHANGED view
    /\ Goto(i, "done")
    /\ UNCHANGED <<input, claims, private, link>>

reply_ephemeral_text(i) == send_response(i, "whisper", "text", TRUE, "done")

-----------------------------------------------------------------------------
(* Acknowledging a command, and what it starts with.                       *)

Deferred(only) == IF only THEN "thinking in private" ELSE "thinking"
Ephemeral(c)   == c \in {"save", "forget"}

\* player_input asks for the saved player only when no player is given.
PlayerOr(i, given) == IF Has(i, "player") THEN given ELSE "input"

\* The champion filter is looked up only when it is given.
FilterOr(i, next)  == IF Has(i, "champion") THEN "filter" ELSE next

\* The prompt of /forget needs no request, nor do the teams: whatever the
\* voice states say, they are told in words.
forget == "menu"
teams  == "text"

\* handle_command's match: the first request of each handler.
Entry(i) ==
    CASE cmd[i] \in {"player", "profile", "current"} -> PlayerOr(i, "fetch")
      [] cmd[i] \in {"history", "champions", "loadout"} ->
             PlayerOr(i, "resolve")
      [] cmd[i] = "match" -> IF Has(i, "id") THEN "parse" ELSE "saved"
      [] cmd[i] = "save" -> "resolve"
      [] cmd[i] = "forget" -> forget
      [] cmd[i] = "leaderboard" -> FilterOr(i, "fetch")
      [] cmd[i] \in ContextCommands -> "target"
      [] cmd[i] = "teams" -> teams
      [] cmd[i] \in Retired -> "text"
      [] OTHER -> "fetch"

\* Mutant: a command believed to be fast is not acknowledged.
AfterRate_Fast(i) == IF cmd[i] = "status" THEN "fetch" ELSE "defer"

\* Every other command is acknowledged before it asks the backend.
AfterRate(i) == "defer"

\* The commands that are answered in memory do without the rate windows.
handle_command(i) ==
    Step(i, Slash, "received",
         IF cmd[i] \in {"help", "privacy"} THEN Goto(i, cmd[i])
         ELSE \E next \in {"whisper", AfterRate(i)} : Goto(i, next))

defer_response(i) ==
    /\ cmd[i] \in Slash
    /\ send_response(i, "defer", Deferred(Ephemeral(cmd[i])),
                     Ephemeral(cmd[i]), Entry(i))

help(i)    == send_response(i, "help", "embed", TRUE, "done")
privacy(i) == send_response(i, "privacy", "text", TRUE, "done")

-----------------------------------------------------------------------------
(* The players a command is about.                                         *)

\* saved_discord_player: a missing link is told like any other failure.
Saved(i, u, next) == IF u \in link THEN Or(i, next) ELSE Goto(i, "text")

AfterInput(i) == CASE cmd[i] = "history" -> FilterOr(i, "fetch")
                   [] cmd[i] = "loadout" -> "loadouts"
                   [] OTHER -> "fetch"

player_input(i) ==
    Step(i, PlayerCommands, "input", Saved(i, user[i], AfterInput(i)))

player(i) == Ask(i, {"player", "profile"}, "fetch", "embed")

current(i) == Ask(i, {"current"}, "fetch", "embed")

\* A champion_id that fails only drops the filter.
history(i) ==
    \/ Ask(i, {"history"}, "resolve", FilterOr(i, "fetch"))
    \/ Step(i, {"history"}, "filter", Goto(i, "fetch"))
    \/ Ask(i, {"history"}, "fetch", "menu")

player_champions(i) ==
    \/ Ask(i, {"champions"}, "resolve", "fetch")
    \/ Ask(i, {"champions"}, "fetch", "embed")

\* The cached decks are refreshed only when none is of the champion.
loadout(i) ==
    \/ Step(i, {"loadout"}, "resolve",
            \E next \in {"loadouts", "embed", "text"} : Goto(i, next))
    \/ Step(i, {"loadout"}, "loadouts",
            \E next \in {"menu", "refresh", "text"} : Goto(i, next))
    \/ Step(i, {"loadout"}, "refresh",
            \E next \in {"menu", "embed", "text"} : Goto(i, next))

-----------------------------------------------------------------------------
(* Match images, from /match and from the menu of /history.                *)

Matches == {"match", "history-match:"}
Cached(i) == IF images THEN "cached" ELSE "info"

\* claim_image_cooldown: a refusal ends at refused.
Claim(i, next, refused) ==
    \/ claims' = [claims EXCEPT ![i] = @ + 1] /\ Goto(i, next)
    \/ UNCHANGED claims /\ Goto(i, refused)

\* Mutant: cooldown_claimed is forgotten.
AfterLatest_Again(i) == "parse"

\* cooldown_claimed: the latest match was paid for before it was asked for.
AfterLatest(i) == Cached(i)

\* A given id is claimed for when it is valid, the latest match of the saved
\* player before it is known.
match_cmd(i) ==
    /\ cmd[i] = "match"
    /\ \/ pc[i] = "parse" /\ Claim(i, Cached(i), "text")
       \/ pc[i] = "parse" /\ Goto(i, "text") /\ UNCHANGED claims
       \/ pc[i] = "saved" /\ user[i] \in link /\ Claim(i, "latest", "text")
       \/ pc[i] = "saved" /\ Goto(i, "text") /\ UNCHANGED claims
       \/ pc[i] = "latest" /\ Or(i, AfterLatest(i)) /\ UNCHANGED claims
    /\ UNCHANGED <<input, shown, link>>

\* cached_match and match_info.
find_match(i) ==
    \/ Step(i, Matches, "cached", \E next \in {"image", "info"} : Goto(i, next))
    \/ Ask(i, Matches, "info", IF images THEN "render" ELSE "embed")

\* A render that fails, or that RENDER_TIMEOUT cuts, leaves the embed.
render_match_scoreboard(i) ==
    Step(i, Matches, "render", \E next \in {"image", "embed"} : Goto(i, next))

-----------------------------------------------------------------------------
(* Rankings, statistics and the context menu.                              *)

champion(i) == Ask(i, {"champion"}, "fetch", "embed")

stats(i) == Ask(i, {"maps", "composition", "items"}, "fetch", "embed")

leaderboard(i) ==
    \/ Step(i, {"leaderboard"}, "filter", Goto(i, "fetch"))
    \/ Ask(i, {"leaderboard"}, "fetch", "embed")

activity(i) == Ask(i, {"activity"}, "fetch", "embed")

status(i) == Ask(i, {"status"}, "fetch", "embed")

random(i) == Ask(i, {"random"}, "fetch", "text")

\* The selected member is anybody.
user_context(i) ==
    \/ \E u \in Users :
           Step(i, ContextCommands, "target", Saved(i, u, "fetch"))
    \/ Ask(i, ContextCommands, "fetch", "embed")

-----------------------------------------------------------------------------
(* The saved player.  A request that fails may have taken effect.          *)

save(i) ==
    /\ cmd[i] = "save"
    /\ \/ pc[i] = "resolve" /\ Or(i, "store") /\ UNCHANGED link
       \/ /\ pc[i] = "store" /\ Goto(i, "text")
          /\ link' \in {link, link \cup {user[i]}}
    /\ UNCHANGED <<input, claims, shown>>

\* Mutant: the owner in the custom_id is not compared with the user.
MayConfirm_Anyone(i) == TRUE

MayConfirm(i) == user[i] = owner[i]

\* The prompt of /forget names its owner.
forget_button(i) ==
    /\ cmd[i] = "forget:"
    /\ \/ /\ pc[i] = "received"
          /\ Goto(i, IF MayConfirm(i) THEN "update" ELSE "whisper")
          /\ UNCHANGED link
       \/ /\ pc[i] = "fetch" /\ Goto(i, "text")
          /\ link' \in {link, link \ {owner[i]}}
    /\ UNCHANGED <<input, claims, shown>>

-----------------------------------------------------------------------------
(* The other buttons and menus; an expired session is told in private.     *)

MayTurn(i) == user[i] = owner[i]

\* The page turn also needs a place in the rate windows.
history_button(i) ==
    \/ Step(i, {"history:"}, "received",
            \E next \in {"whisper"} \cup (IF MayTurn(i) THEN {"update"} ELSE {}) :
                Goto(i, next))
    \/ Ask(i, {"history:"}, "fetch", "menu")

\* Mutant: the session is not compared with the user.
MaySelect_Anyone(i) == TRUE

MaySelect(i) == user[i] = owner[i]

history_match(i) ==
    /\ cmd[i] = "history-match:"
    /\ \/ /\ pc[i] = "received"
          /\ \/ MaySelect(i) /\ Claim(i, "loading", "whisper")
             \/ UNCHANGED claims /\ Goto(i, "whisper")
          /\ UNCHANGED <<input, shown, link>>
       \/ send_response(i, "loading", "loading", FALSE, Cached(i))

MayChoose(i) == user[i] = owner[i]

loadout_menu(i) ==
    \/ /\ cmd[i] = "loadout:" /\ pc[i] = "received"
       /\ \/ MayChoose(i) /\ Claim(i, "update", "whisper")
          \/ UNCHANGED claims /\ Goto(i, "whisper")
       /\ UNCHANGED <<input, shown, link>>
    \/ Step(i, {"loadout:"}, "render",
            \E next \in {"image", "embed"} : Goto(i, next))

\* A press keeps the message that it is on until the answer replaces it.
defer_update(i) ==
    /\ cmd[i] \in Buttons
    /\ send_response(i, "update", "unchanged", cmd[i] = "forget:",
                     CASE cmd[i] = "loadout:" /\ images -> "render"
                       [] cmd[i] = "loadout:" -> "embed"
                       [] OTHER -> "fetch")

\* champion_names that fail offer no choices.
handle_autocomplete(i) ==
    \/ Step(i, {"autocomplete"}, "names", Goto(i, "choices"))
    \/ send_response(i, "choices", "choices", FALSE, "done")

-----------------------------------------------------------------------------
\* Discord delivers an interaction; handle_event spawns its task.
handle_event(i) ==
    /\ pc[i] = "idle"
    /\ \E c \in Inputs, u \in Users, o \in Users :
          /\ c \notin Buttons => o = u
          /\ \E given \in SUBSET Optional(c) :
                args' = [args EXCEPT ![i] = Required(c) \cup given]
          /\ cmd' = [cmd EXCEPT ![i] = c]
          /\ user' = [user EXCEPT ![i] = u]
          /\ owner' = [owner EXCEPT ![i] = o]
          /\ Goto(i, IF c = "autocomplete" THEN "names" ELSE "received")
    /\ UNCHANGED <<images, claims, shown, link>>

Init ==
    /\ images \in BOOLEAN
    /\ pc = [i \in Slots |-> "idle"]
    /\ cmd = [i \in Slots |-> "help"]
    /\ user \in [Slots -> Users]
    /\ owner = user
    /\ args = [i \in Slots |-> {}]
    /\ claims = [i \in Slots |-> 0]
    /\ view = [i \in Slots |-> "none"]
    /\ private = [i \in Slots |-> FALSE]
    /\ lost = [i \in Slots |-> FALSE]
    /\ link \in SUBSET Users

handle_component(i) ==
    \/ forget_button(i) \/ history_match(i) \/ history_button(i)
    \/ loadout_menu(i) \/ defer_update(i)

command(i) ==
    \/ help(i) \/ privacy(i) \/ save(i) \/ player_input(i) \/ player(i)
    \/ match_cmd(i) \/ history(i) \/ current(i) \/ loadout(i)
    \/ champion(i) \/ stats(i) \/ player_champions(i) \/ leaderboard(i)
    \/ activity(i) \/ status(i) \/ random(i) \/ user_context(i)

Next == \E i \in Slots :
    \/ handle_event(i)
    \/ handle_command(i) \/ defer_response(i) \/ command(i)
    \/ handle_component(i)
    \/ handle_autocomplete(i)
    \/ find_match(i) \/ render_match_scoreboard(i)
    \/ reply_ephemeral_text(i) \/ send_webhook(i)

Spec == Init /\ [][Next]_vars

-----------------------------------------------------------------------------
\* The awaits of a task on the backend, the images or the stores.
Requests == {"input", "resolve", "filter", "fetch", "loadouts", "refresh",
             "saved", "latest", "cached", "info", "render", "target",
             "store"}
Responses == {"help", "privacy", "whisper", "defer", "update", "loading"}
Locals    == {"idle", "received", "parse", "done", "names", "choices"}
Views     == {"none", "thinking", "thinking in private", "unchanged",
              "loading", "choices"}

\* Every variable keeps its type, and no task claims a cooldown twice.
TypeOK ==
    /\ images \in BOOLEAN /\ link \subseteq Users
    /\ \A i \in Slots :
          /\ pc[i] \in Requests \cup Responses \cup Locals \cup Edits
          /\ cmd[i] \in Inputs /\ user[i] \in Users /\ owner[i] \in Users
          /\ args[i] \in SUBSET {"player", "id", "champion"}
          /\ view[i] \in Views \cup Edits
          /\ private[i] \in BOOLEAN /\ lost[i] \in BOOLEAN
          /\ claims[i] \in 0 .. 1

\* No task ends while its user is left with nothing, with "thinking...",
\* with "Loading match" or with the message pressed on, unless Discord did
\* not take what it sent.
Answered ==
    \A i \in Slots :
        pc[i] = "done" /\ ~lost[i] => view[i] \in Edits \cup {"choices"}

\* "acknowledge every potentially slow command before doing any backend
\* lookup" (commands.rs:349), respond once, and edit only what was responded.
AckFirst ==
    \A i \in Slots :
        /\ pc[i] \in Requests \cup Edits => view[i] # "none" \/ lost[i]
        /\ pc[i] \in Responses => view[i] = "none" /\ ~lost[i]

\* Whoever gets a match or loadout image, or has it rendered, paid for it
\* with exactly one cooldown, whichever way led there.
ImagePaid ==
    \A i \in Slots :
        \/ pc[i] \in {"latest", "cached", "info", "render", "image"}
        \/ view[i] = "image"
        => claims[i] = 1

\* Somebody else's press on a menu changes neither the menu nor anything
\* behind it, costs no cooldown and is answered in private.
MenusObeyOwner ==
    \A i \in Slots :
        cmd[i] \in Buttons /\ user[i] # owner[i] =>
            /\ pc[i] \in {"idle", "received", "whisper", "done"}
            /\ claims[i] = 0
            /\ view[i] # "none" => private[i]

\* A link is saved or deleted only by a task of the user whose it is, and
\* only after that user was asked for it or gave the player.
OnlyOwnersLink ==
    [][\A u \in Users : (u \in link) # (u \in link') =>
          \E i \in Slots : /\ user[i] = u /\ pc[i] # pc'[i]
                           /\ cmd[i] \in {"save", "forget:"}
                           /\ private[i] \/ lost[i]]_vars

=============================================================================
