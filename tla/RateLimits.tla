------------------------------ MODULE RateLimits ------------------------------
(***************************************************************************)
(* claim_window and claim_command_rate of src/src/commands.rs: each command *)
(* claims a place in its user's window and then in its guild's, and runs   *)
(* if it got both.  claim_window reads the clock before it takes the lock  *)
(* of the store, so a claim may use a time that is up to Delay past, and   *)
(* may come after one that used a later time.                              *)
(*                                                                         *)
(* USER_RATE_LIMITS and GUILD_RATE_LIMITS are two stores of one kind; they *)
(* are told apart by their keys.                                           *)
(***************************************************************************)
EXTENDS Integers, FiniteSets

CONSTANTS
    Commands,       \* interactions, each with its user and its guild
    Users, Guilds,
    UserLimit, GuildLimit,
    Window,         \* ten seconds
    Delay,          \* how long a claim waits for its lock at most
    MaxClock        \* bound of the model on the clock

Keys     == Users \cup Guilds
Limit(k) == IF k \in Users THEN UserLimit ELSE GuildLimit

ASSUME RateAssumption ==
    /\ IsFiniteSet(Commands)
    /\ Users \cap Guilds = {}
    /\ UserLimit \in Nat \ {0} /\ GuildLimit \in Nat \ {0}
    /\ Window \in Nat \ {0} /\ Delay \in 0 .. Window - 1 /\ MaxClock \in Nat

VARIABLES
    clock,
    user, guild,    \* of each command
    windows,        \* key -> window, NoWindow when absent
    pc, now,        \* where each command is, and the time it read
    granted,        \* command -> the keys that granted it a place
    at,             \* command -> key -> the time a place was granted for
    opened          \* command -> key -> the start of the window it is a place of

vars == <<clock, user, guild, windows, pc, now, granted, at, opened>>

NoWindow == [started |-> 0, count |-> 0]

Init ==
    /\ clock = 0
    /\ user \in [Commands -> Users]
    /\ guild \in [Commands -> Guilds]
    /\ windows = [k \in Keys |-> NoWindow]
    /\ pc = [c \in Commands |-> "idle"]
    /\ now = [c \in Commands |-> 0]
    /\ granted = [c \in Commands |-> {}]
    /\ at = [c \in Commands |-> [k \in Keys |-> 0]]
    /\ opened = at

-----------------------------------------------------------------------------
\* Instant::duration_since saturates.
Since(t, s) == IF t > s THEN t - s ELSE 0

Live_Inclusive(w, t) == w.count > 0 /\ Since(t, w.started) <= Window
Live(w, t)           == w.count > 0 /\ Since(t, w.started) < Window

\* retain keeps the live windows of the whole store, then the key's is
\* looked up or started.
Kept(S, t) == [k \in Keys |-> IF k \in S /\ ~Live(windows[k], t) THEN NoWindow
                              ELSE windows[k]]

Entry(k, t) == IF Live(windows[k], t) THEN windows[k] ELSE [started |-> t, count |-> 0]

Room_OneMore(w, k) == w.count <= Limit(k)
Room(w, k)         == w.count < Limit(k)

\* Under the write lock of store S.
Claim(c, S, k) ==
    LET w == Entry(k, now[c]) IN
    IF Room(w, k)
    THEN /\ windows' = [Kept(S, now[c]) EXCEPT ![k] = [w EXCEPT !.count = @ + 1]]
         /\ granted' = [granted EXCEPT ![c] = @ \cup {k}]
         /\ at' = [at EXCEPT ![c][k] = now[c]]
         /\ opened' = [opened EXCEPT ![c][k] = w.started]
    ELSE windows' = Kept(S, now[c]) /\ UNCHANGED <<granted, at, opened>>

ReadClock(c, from, to) ==
    /\ pc[c] = from
    /\ now' = [now EXCEPT ![c] = clock]
    /\ pc' = [pc EXCEPT ![c] = to]
    /\ UNCHANGED <<clock, user, guild, windows, granted, at, opened>>

ClaimUser(c) ==
    /\ pc[c] = "user"
    /\ Claim(c, Users, user[c])
    /\ pc' = [pc EXCEPT ![c] = "between"]
    /\ UNCHANGED <<clock, user, guild, now>>

\* Also when the user's window refused.
ClaimGuild(c) ==
    /\ pc[c] = "guild"
    /\ Claim(c, Guilds, guild[c])
    /\ pc' = [pc EXCEPT ![c] = "decided"]
    /\ UNCHANGED <<clock, user, guild, now>>

Tick ==
    /\ clock < MaxClock
    /\ \A c \in Commands : pc[c] \in {"user", "guild"} => clock < now[c] + Delay
    /\ clock' = clock + 1
    /\ UNCHANGED <<user, guild, windows, pc, now, granted, at, opened>>

Next == \/ \E c \in Commands : \/ ReadClock(c, "idle", "user") \/ ClaimUser(c)
                               \/ ReadClock(c, "between", "guild") \/ ClaimGuild(c)
        \/ Tick

Spec == Init /\ [][Next]_vars

-----------------------------------------------------------------------------
Places(k, from, to) ==
    {c \in Commands : k \in granted[c] /\ at[c][k] >= from /\ at[c][k] < to}

\* Two windows that follow each other start Window - Delay apart at least: a
\* claim that waited for its lock may come after another key's claim dropped
\* the window it would have joined, and then starts one of its own.  So a
\* stretch shorter than that misses the opening place of one of any two, and
\* one of Window + 1 - 2 * Delay cannot touch three.
Stretch == IF Delay = 0 THEN Window ELSE Window + 1 - 2 * Delay

\* Fixed windows let through less than twice the limit in any such stretch.
BurstBound ==
    \A k \in Keys, t \in 0 .. MaxClock :
        Cardinality(Places(k, t, t + Stretch)) < 2 * Limit(k)

\* A refusal is earned: when a key refuses a command, as many places as its
\* limit were granted within a window, and the delay, of the time it was
\* refused for.
RefusalsEarned ==
    [][\A c \in Commands, k \in Keys :
          LET decides == \/ pc[c] = "user" /\ k = user[c]
                         \/ pc[c] = "guild" /\ k = guild[c] IN
          decides /\ pc'[c] # pc[c] /\ k \notin granted'[c] =>
             Cardinality(Places(k, Since(now[c], Window + Delay - 1), MaxClock + 1)) >= Limit(k)
      ]_vars
=============================================================================
