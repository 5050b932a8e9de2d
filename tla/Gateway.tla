------------------------------- MODULE Gateway -------------------------------
(***************************************************************************)
(* The gateway loop of src/src/main.rs, the part of handle_event           *)
(* (src/src/commands.rs) that is not an interaction, and the registration  *)
(* of src/src/register.rs.                                                 *)
(*                                                                         *)
(* The loop reads the events of a shard in order and spawns a task for     *)
(* each; the tasks run on several threads, in any order.  Every task first *)
(* updates the cache that /teams reads; the task of a Ready may then       *)
(* register the commands.  Discord is external: it opens and ends          *)
(* sessions, sends Ready whenever one starts anew and then lists its       *)
(* guilds, takes guilds away and lists them again, moves users between     *)
(* voice channels, and holds the command sets.  The cache is external too: *)
(* of an event it takes the voice states.                                  *)
(*                                                                         *)
(* Events that are errors, which the loop only logs, are left out.         *)
(* APPLICATION_ID is set: without it nothing is registered.                *)
(***************************************************************************)
EXTENDS Naturals, Sequences, FiniteSets

CONSTANTS
    Members,            \* the users, once for each guild they are in
    Channels, Guilds,
    Nowhere,            \* the channel of a user who is in none
    NoGuild,            \* no development_guild_id
    MaxEvents,          \* bound: events that are read
    MaxEnds             \* bound: streams that end

ASSUME GatewayAssumption ==
    /\ Nowhere \notin Channels /\ NoGuild \notin Guilds
    /\ MaxEvents \in Nat /\ MaxEnds \in Nat

VARIABLES
    social,             \* social_commands_enabled
    devGuild,           \* development_guild_id, or NoGuild
    home,               \* the guild of each user
    stream, attempts,   \* the loop: reading, or backing off; streams ended
    events, at,         \* events read so far; where the task of each is
    away,               \* guilds that Discord has not listed, or took away
    truth, cache,       \* the channel of each user: at Discord, in discord_cache
    started,            \* registration_started
    global, override,   \* command sets of the application and of each guild
    cleared, failed,    \* guilds whose override was, and was not, cleared
    adrift              \* users of whom the cache may be wrong

config      == <<social, devGuild, home>>
loop        == <<config, stream, attempts>>
voice       == <<away, truth, cache, adrift>>
commands    == <<global, override, cleared, failed>>
gatewayVars == <<loop, events, at, voice, started, commands>>

Ids == 1 .. Len(events)

Of(g) == {u \in Members : home[u] = g}

\* An event and the voice states it carries.
Ready        == [kind |-> "ready", seats |-> [u \in {} |-> Nowhere]]
Moved(u, c)  == [kind |-> "voice", seats |-> [v \in {u} |-> c]]
Listed(g, f) == [kind |-> "guild", seats |-> [u \in Of(g) |-> f[u]]]
Removed(g)   == [kind |-> "delete", seats |-> [u \in Of(g) |-> Nowhere]]

GatewayInit ==
    /\ social \in BOOLEAN /\ devGuild \in Guilds \cup {NoGuild}
    /\ home \in [Members -> Guilds]
    /\ stream = "open" /\ attempts = 0
    /\ events = <<>> /\ at = <<>>
    /\ away = Guilds
    /\ truth = [u \in Members |-> Nowhere] /\ cache = truth
    /\ started = FALSE
    /\ global \in {"none", "old"}
    /\ override \in [Guilds -> {"none", "old"}]
    /\ cleared = {} /\ failed = {} /\ adrift = {}

-----------------------------------------------------------------------------
(* The loop: next_event, and a task for what it returns.                   *)

Spawn(e) ==
    /\ stream = "open" /\ Len(events) < MaxEvents
    /\ events' = Append(events, e)
    /\ at' = Append(at, "spawned")

\* Mutant: the voice states are never subscribed to.
Intents_Guilds == {"ready", "guild", "delete"}

\* GUILD_VOICE_STATES is asked for only when something reads it.
Intents == {"ready", "guild", "delete"} \cup (IF social THEN {"voice"} ELSE {})

Concerns(e, u) == u \in DOMAIN e.seats

\* A guild's list names those who are in a channel.  Whether the cache drops
\* its entries of the others, and of a guild that is taken away, is up to its
\* library.
Names(e, u) == /\ Concerns(e, u) /\ e.kind # "delete"
               /\ e.kind = "guild" => e.seats[u] # Nowhere

UnderWay(u) == \E n \in Ids : Concerns(events[n], u) /\ at[n] = "spawned"

\* The task of an event is not ordered with those that are under way: the
\* cache may be wrong of whoever they concern too, and of whoever's guild is
\* taken away, until an event names the user and meets no other.
Read(e) ==
    /\ Spawn(e)
    /\ adrift' = {u \in Members : \/ u \in adrift /\ ~Names(e, u)
                                  \/ Concerns(e, u) /\ (UnderWay(u) \/ e.kind = "delete")}

\* A session starts anew, and lists its guilds from here on.
ReadReady ==
    /\ Read(Ready)
    /\ away' = Guilds
    /\ UNCHANGED <<loop, truth, cache, started, commands>>

\* GuildCreate.
ReadGuild(g) ==
    /\ g \in away
    /\ Read(Listed(g, truth))
    /\ away' = away \ {g}
    /\ UNCHANGED <<loop, truth, cache, started, commands>>

\* GuildDelete: an outage, or the bot was removed.
ReadGuildDelete(g) ==
    /\ g \notin away
    /\ Read(Removed(g))
    /\ away' = away \cup {g}
    /\ UNCHANGED <<loop, truth, cache, started, commands>>

\* A move is not told while no session is open, or the guild is away.
Move(u, c) ==
    /\ truth[u] # c
    /\ truth' = [truth EXCEPT ![u] = c]
    /\ IF stream # "open" \/ home[u] \in away
       THEN adrift' = adrift \cup {u} /\ UNCHANGED <<events, at>>
       ELSE IF "voice" \in Intents THEN Read(Moved(u, c))
       ELSE UNCHANGED <<events, at, adrift>>
    /\ UNCHANGED <<loop, away, cache, started, commands>>

\* None: a fatal close code, or a session that was lost.
StreamEnds ==
    /\ stream = "open" /\ attempts < MaxEnds
    /\ stream' = "backoff" /\ attempts' = attempts + 1
    /\ away' = Guilds
    /\ UNCHANGED <<config, events, at, truth, cache, adrift, started, commands>>

\* Seconds; attempts is never reset.
Backoff == 2 * (IF attempts < 8 THEN attempts ELSE 8)

Reconnect ==
    /\ stream = "backoff"
    /\ stream' = "open"
    /\ UNCHANGED <<config, attempts, events, at, voice, started, commands>>

-----------------------------------------------------------------------------
(* The tasks.                                                              *)

Pass(n, l) == at' = [at EXCEPT ![n] = l]

\* Mutant: the flag is set by the registration that succeeded.
Claim_Late == UNCHANGED started

\* swap(true): whoever finds FALSE registers.
claim_registration == started' = TRUE

\* Mutant: the overrides are cleared before the global set replaces them.
Primary_Last == "clear"

\* What a registration does first.
Primary == IF devGuild = NoGuild THEN "global" ELSE "guild"

\* discord_cache.update(&event), which may keep whom the event does not name.
Updated(e, kept) ==
    [u \in Members |-> IF Concerns(e, u) /\ u \notin kept THEN e.seats[u] ELSE cache[u]]

Unnamed(e) == {u \in Members : Concerns(e, u) /\ ~Names(e, u)}

\* The arms of handle_event that are not interactions.
handle_session_event(n) ==
    /\ at[n] = "spawned"
    /\ \E kept \in SUBSET Unnamed(events[n]) : cache' = Updated(events[n], kept)
    /\ IF events[n].kind = "ready" /\ ~started
       THEN claim_registration /\ Pass(n, Primary)
       ELSE Pass(n, "done") /\ UNCHANGED started
    /\ UNCHANGED <<loop, events, away, truth, adrift, commands>>

\* set_global_commands; its error ends the registration.
register_and_clear_guilds(n) ==
    /\ at[n] = "global"
    /\ \/ global' = "new" /\ Pass(n, "clear")
       \/ UNCHANGED global /\ Pass(n, "error")
    /\ UNCHANGED <<loop, events, voice, started, override, cleared, failed>>

\* Mutant: a guild whose request failed is counted as cleared.
Counted_Cleared(g, done) == cleared' = cleared \cup {g} /\ UNCHANGED failed

\* A failed request is counted, and the loop goes on with the next guild.
Counted(g, done) ==
    /\ cleared' = IF done THEN cleared \cup {g} ELSE cleared
    /\ failed' = IF done THEN failed ELSE failed \cup {g}

clear_guild_commands(n) ==
    /\ at[n] = "clear"
    /\ \E g \in Guilds \ (cleared \cup failed), done \in BOOLEAN :
          /\ override' = [override EXCEPT ![g] = IF done THEN "none" ELSE @]
          /\ Counted(g, done)
    /\ UNCHANGED <<loop, events, at, voice, started, global>>

Registered(n) ==
    /\ at[n] = "clear" /\ Guilds = cleared \cup failed
    /\ Pass(n, "registered")
    /\ UNCHANGED <<loop, events, voice, started, commands>>

\* A development guild gets the set alone.
register_guild_commands(n) ==
    /\ at[n] = "guild"
    /\ \/ /\ override' = [override EXCEPT ![devGuild] = "new"]
          /\ Pass(n, "registered")
       \/ UNCHANGED override /\ Pass(n, "error")
    /\ UNCHANGED <<loop, events, voice, started, global, cleared, failed>>

Task(n) == \/ handle_session_event(n) \/ register_and_clear_guilds(n)
           \/ clear_guild_commands(n) \/ Registered(n)
           \/ register_guild_commands(n)

GatewayNext ==
    \/ ReadReady \/ StreamEnds \/ Reconnect
    \/ \E g \in Guilds : ReadGuild(g) \/ ReadGuildDelete(g)
    \/ \E u \in Members, c \in Channels \cup {Nowhere} : Move(u, c)
    \/ \E n \in Ids : Task(n)

GatewaySpec == GatewayInit /\ [][GatewayNext]_gatewayVars

-----------------------------------------------------------------------------
Registering == {"global", "guild", "clear"}
Ended       == {"done", "registered", "error"}

\* Every variable keeps its type; the loop waits 2 to 16 seconds.
GatewayTypeOK ==
    /\ social \in BOOLEAN /\ devGuild \in Guilds \cup {NoGuild}
    /\ stream \in {"open", "backoff"}
    /\ stream = "backoff" => Backoff \in 2 .. 16
    /\ Len(at) = Len(events)
    /\ \A n \in Ids :
          /\ events[n].kind \in Intents
          /\ at[n] \in {"spawned"} \cup Registering \cup Ended
    /\ {truth, cache} \subseteq [Members -> Channels \cup {Nowhere}]
    /\ home \in [Members -> Guilds] /\ away \subseteq Guilds
    /\ started \in BOOLEAN /\ adrift \subseteq Members
    /\ global \in {"none", "old", "new"}
    /\ override \in [Guilds -> {"none", "old", "new"}]
    /\ cleared \subseteq Guilds /\ failed \subseteq Guilds \ cleared

\* "The registration flag prevents duplicate startup registration": however
\* many Readys there are, and however their tasks interleave, at most one of
\* them registers.
RegisteredOnce ==
    Cardinality({n \in Ids : at[n] \in Registering \cup {"registered", "error"}})
        <= 1

Offers(g) == global # "none" \/ override[g] # "none"

\* Registration replaces command sets: no guild that has commands is left
\* without any, not even between two of the requests, or after one failed.
NoGap == [][\A g \in Guilds : Offers(g) => Offers(g)']_gatewayVars

\* The result of a registration is true: a guild shows a stale override next
\* to the global commands only if it was counted as failed.
ReportTrue ==
    \A n \in Ids : at[n] = "registered" /\ devGuild = NoGuild =>
        /\ global = "new"
        /\ \A g \in Guilds : override[g] # "none" => g \in failed

\* Once all events are handled, /teams sees every user where the user is,
\* except the adrift: the tasks of two events are not ordered, and a list of
\* a new session need not undo what an old one told.  Nobody is adrift for
\* longer than to the next event that names him while no other is handled.
CacheFollows ==
    social /\ (\A n \in Ids : at[n] # "spawned") =>
        \A u \in Members \ adrift : cache[u] = truth[u]
=============================================================================
