------------------------------ MODULE Endpoints ------------------------------
(***************************************************************************)
(* The methods of ApiClient (src/src/api.rs) and the chains of them that a *)
(* preview of src/src/health.rs makes.  An operation is a sequence of      *)
(* steps; a step makes one request, or two together (join!, try_join!).    *)
(* Which requests an operation needs, which it only takes if it can get    *)
(* them and which it makes only when another failed is all that a plan     *)
(* tells: URLs and the shape of the JSON are left out, so that most        *)
(* methods are one and the same plan.                                      *)
(***************************************************************************)
EXTENDS ApiClient

CONSTANTS
    Ops,            \* operations that run side by side
    Simple,         \* bound of the model: those that ask for champion_names
    Droppable       \* those whose caller may go away

ASSUME EndpointsAssumption ==
    /\ Calls = ((Ops \ Simple) \X (1 .. 2)) \cup (Simple \X {1})
    /\ Simple \subseteq Ops /\ Droppable \subseteq Ops

VARIABLES
    plan,           \* the steps an operation still has to make
    got,            \* what they found already that later steps look at
    lost,           \* its requests that did not bring what was asked for
    result,
    roster          \* whether response_cache holds the champion list

opVars == <<plan, got, lost, result, roster>>

-----------------------------------------------------------------------------
(* Steps.  A request is named for what is asked of it.                     *)

Get(n)       == [asks |-> <<n>>, need |-> {n}, once |-> FALSE, unless |-> {}]
Send(n)      == [Get(n) EXCEPT !.once = TRUE]
Unless(s, N) == [s EXCEPT !.unless = N]
Optional(s)  == [s EXCEPT !.need = {}]
TryJoin(m, n) == [Get(m) EXCEPT !.asks = <<m, n>>, !.need = {m, n}]
Join(m, n)    == Optional(TryJoin(m, n))

-----------------------------------------------------------------------------
(* The methods of ApiClient.                                               *)

discord_player       == <<Get("page")>>
saved_discord_player == <<Get("page")>>
champions            == <<Get("page")>>
champion_id          == <<Get("page")>>
player_champions     == <<Get("page")>>
leaderboard          == <<Get("page")>>
status               == <<Get("page")>>
loadouts_response    == <<Get("page")>>
loadouts             == loadouts_response
champion_page_data   == <<Get("page")>>
ranked_maps          == <<Get("page")>>
ranked_compositions  == <<Get("page")>>
ranked_items         == <<Get("page")>>

post_empty            == <<Send("written")>>
refresh_loadouts      == post_empty
save_discord_player   == <<Send("written")>>
forget_discord_player == <<Send("written")>>
player_history        == <<Send("written")>>
latest_player_match   == player_history

resolve_player == <<Get("identity")>>
player         == resolve_player \o <<Get("page")>>
live_match     == resolve_player \o <<Get("page")>>

activity == <<TryJoin("page", "overview")>>

champion_names == <<Unless(Get("roster"), {"roster"})>>

\* The durable read model first; the slow pipeline only on a miss, and then
\* the facts again unless they are there.  Moderation needs a player.
Facts == Optional(Get("facts"))

match_info_FactsNeeded ==
    <<Join("batch", "facts"),
      Unless(Get("match"), {"batch"}),
      Unless(Get("facts"), {"batch", "facts"}),
      Unless(Optional(Get("moderation")), {"nobody"})>>

match_info ==
    <<Join("batch", "facts"),
      Unless(Get("match"), {"batch"}),
      Unless(Facts, {"batch", "facts"}),
      Unless(Optional(Get("moderation")), {"nobody"})>>

-----------------------------------------------------------------------------
(* The previews, as a set of plans: what they ask depends on the query     *)
(* parameters.  One that misses a required parameter asks for nothing.     *)

Lookup  == <<Optional(Get("filter"))>>              \* champion_id, if it works
Profile == resolve_player \o <<Get("profile")>>     \* player, and the id in it

preview_player   == {<<>>, player}
preview_match    == {<<>>, match_info}
preview_history  == 
    {<<>>, Profile \o player_history, Profile \o Lookup \o player_history}
preview_current  == {<<>>, live_match}
preview_champion == {champion_page_data, champion_names}
preview_loadout  == {<<>>, Profile \o loadouts}
preview_maps        == {ranked_maps}
preview_composition == {ranked_compositions}
preview_items       == {ranked_items}
preview_player_champions == {<<>>, resolve_player \o player_champions}
preview_leaderboard == {leaderboard, Lookup \o leaderboard}
preview_activity    == {activity}
preview_status      == {status}
preview_random      == {ranked_maps, champions}

Previews ==
    UNION {preview_player, preview_match, preview_history, preview_current,
           preview_champion, preview_loadout, preview_maps, preview_composition,
           preview_items, preview_player_champions, preview_leaderboard,
           preview_activity, preview_status, preview_random}

Methods ==
    {discord_player, saved_discord_player, save_discord_player,
     forget_discord_player, player, resolve_player, match_info, champion_names,
     champions, champion_id, player_history, latest_player_match,
     player_champions, leaderboard, activity, status, live_match, loadouts,
     loadouts_response, refresh_loadouts, champion_page_data, ranked_maps,
     ranked_compositions, ranked_items}

-----------------------------------------------------------------------------
OpInit ==
    /\ ApiInit
    /\ plan = [o \in Ops |-> <<>>]
    /\ got = [o \in Ops |-> {}]
    /\ lost = [o \in Ops |-> {}]
    /\ result = [o \in Ops |-> "none"]
    /\ roster = FALSE

Lanes(o)   == {c \in Calls : c[1] = o}
Running(o) == result[o] = "running"

\* What is left to do of p once the requests in N brought what was asked for.
Rest(p, N) ==
    LET due == {i \in DOMAIN p : p[i].unless \cap N = {}} IN
    IF due = {} THEN <<>> ELSE SubSeq(p, Min(due), Len(p))

\* Return.
Finish(o, r) ==
    /\ plan' = [plan EXCEPT ![o] = <<>>]
    /\ got' = [got EXCEPT ![o] = {}]
    /\ result' = [result EXCEPT ![o] = r]
    /\ Switch(Lanes(o), <<>>, FALSE)

\* Make the next step of p, which no await comes before, or return.
Continue(o, p, N) ==
    IF p = <<>> THEN Finish(o, "ok")
    ELSE /\ plan' = [plan EXCEPT ![o] = p]
         /\ got' = [got EXCEPT ![o] = N]
         /\ result' = [result EXCEPT ![o] = "running"]
         /\ Switch(Lanes(o), [i \in DOMAIN Head(p).asks |-> <<o, i>>], Head(p).once)

Start(o) ==
    /\ result[o] = "none"
    /\ \E p \in IF o \in Simple THEN {champion_names} ELSE Methods \cup Previews :
          Continue(o, Rest(p, IF roster THEN {"roster"} ELSE {}), {})
    /\ UNCHANGED <<lost, roster>>

\* resolve_player does not ask for an empty name.
Refuse(o) ==
    /\ result[o] = "none" /\ o \notin Simple
    /\ Finish(o, "error")
    /\ lost' = [lost EXCEPT ![o] = {"identity"}]
    /\ UNCHANGED roster

\* A response without the match, or without the player's id, brings nothing;
\* that of a match may list no players.
Checked == {"batch", "identity", "profile"}
Extra(N) == IF N \cap {"batch", "match"} = {} THEN {{}} ELSE {{}, {"nobody"}}

\* What a later step looks at.
Noted == {"batch", "facts", "nobody"}

\* The step's requests are answered, or one it needs has failed, in which
\* case the other is dropped.
Proceed(o) ==
    LET step == Head(plan[o])
        done == {c \in Lanes(o) : pc[c] = "done"}
        Names(C) == {step.asks[c[2]] : c \in C}
        ok == Names({c \in done : answer[c] = "ok"}) IN
    /\ Running(o) /\ done # {}
    /\ \E bad \in SUBSET (ok \cap Checked) : \E extra \in Extra(ok \ bad) :
          LET new   == (ok \ bad) \cup extra
              all   == got[o] \cup (new \cap Noted)
              not   == Names(done) \ new
              fails == not \cap step.need # {} IN
          /\ fails \/ \A c \in Lanes(o) : pc[c] \in {"idle", "done"}
          /\ lost' = [lost EXCEPT ![o] = @ \cup not]
          /\ roster' = (roster \/ "roster" \in new)
          /\ IF fails THEN Finish(o, "error")
             ELSE Continue(o, Rest(Tail(plan[o]), all), all)

\* The caller's future is dropped, as when the client of a preview hangs up.
Abandon(o) ==
    /\ o \in Droppable /\ Running(o)
    /\ Finish(o, "dropped")
    /\ UNCHANGED <<lost, roster>>

\* Its time to live is over.
RosterExpires == roster /\ roster' = FALSE /\ UNCHANGED <<apiVars, plan, got, lost, result>>

Ready(o) == Running(o) /\ \A c \in Lanes(o) : pc[c] \in {"idle", "done"}

\* A step of the task that runs operation o: join! polls both requests in it.
Task(o) == Proceed(o) \/ \E c \in Lanes(o) : Request(c) /\ UNCHANGED opVars

OpNext ==
    \/ \E o \in Ops : Start(o) \/ Refuse(o) \/ Task(o) \/ Abandon(o)
    \/ \E c \in Calls : Issue(c) /\ UNCHANGED opVars
    \/ Tick /\ (\A o \in Ops : ~Ready(o)) /\ UNCHANGED opVars
    \/ RosterExpires

\* A task that can go on does: mints and backend requests have timeouts,
\* backoffs end, and the runtime polls what was woken.
OpSpec ==
    /\ OpInit /\ [][OpNext]_<<apiVars, opVars>>
    /\ \A o \in Ops : WF_<<apiVars, opVars>>(Task(o))

-----------------------------------------------------------------------------
\* "Supplemental failures are tolerated; required fallback HTTP/auth/JSON
\* failures return ApiError" (api.rs:738): an operation fails exactly if it
\* lost a request that it needs, whatever became of the others and whichever
\* came first; and the slow pipeline runs only on a miss of the read model.
Supplements == {"batch", "facts", "moderation", "filter"}

OnlyRequiredFail ==
    \A o \in Ops :
        /\ result[o] = "error" => lost[o] \ Supplements # {}
        /\ result[o] = "ok" => lost[o] \subseteq Supplements
        /\ Running(o) /\ Head(plan[o]).asks = <<"match">> => "batch" \in lost[o]

\* Every operation ends, also when a request it waits for shares the token's
\* mutex with one that fails, or that is dropped in the middle of a mint.
OperationsEnd == \A o \in Ops : []<>~Running(o)
=============================================================================
