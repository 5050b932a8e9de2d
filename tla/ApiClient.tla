------------------------------ MODULE ApiClient ------------------------------
(***************************************************************************)
(* Requests of ApiClient (src/src/api.rs) and the bearer token they share  *)
(* (ServiceTokenProvider of src/src/service_auth.rs).  A request asks for  *)
(* the token before each of its attempts; the token is minted under an     *)
(* async mutex, which serves its waiters in order; only the 429 of a GET   *)
(* is retried.  Endpoints makes requests for the methods of ApiClient.     *)
(*                                                                         *)
(* The clock counts in units of which MintTimeout is the HTTP timeout of a *)
(* mint; whatever needs no waiting happens between two ticks.  A backend   *)
(* request and a backoff may take any time.                                *)
(***************************************************************************)
EXTENDS Naturals, Sequences, FiniteSets, SequencesExt

CONSTANTS
    Calls, NoCall,
    Lifetimes,      \* the expires_in values the provider accepts
    Margin,         \* usable_until is this much before the expiry
    MintTimeout,    \* of the token client
    Delays,         \* the array of backoff delays
    MaxClock        \* bound of the model on the clock

ASSUME ApiAssumption ==
    /\ NoCall \notin Calls /\ IsFiniteSet(Calls)
    /\ Margin \in Nat /\ MintTimeout \in 1 .. Margin
    /\ Lifetimes \subseteq {n \in Nat : n > Margin}
    /\ Delays \in Nat \ {0} /\ MaxClock \in Nat \ {0}

VARIABLES
    clock,
    holder,         \* of the async mutex of the token cache
    ahead,          \* its FIFO queue: the waiters before each waiter
    cached,         \* the cached token
    pc,             \* where each request is
    attempt,        \* how many attempts came before this one
    since,          \* when it asked for the token, or began to mint
    asked,          \* when it asked for the token
    token,          \* the token it holds
    answer

apiVars == <<clock, holder, ahead, cached, pc, attempt, since, asked, token, answer>>

\* A token, its real expiry and the time until which the cache serves it.
Token(e, u) == [expires |-> e, until |-> u]
NoToken     == Token(0, 0)

ApiInit ==
    /\ clock = 1
    /\ holder = NoCall /\ ahead = [c \in Calls |-> {}]
    /\ cached = NoToken
    /\ pc = [c \in Calls |-> "idle"]
    /\ attempt = [c \in Calls |-> 0]
    /\ since = [c \in Calls |-> 0]
    /\ asked = [c \in Calls |-> 0]
    /\ token = [c \in Calls |-> NoToken]
    /\ answer = [c \in Calls |-> "none"]

Become(c, l) == pc' = [pc EXCEPT ![c] = l]
End(c, a)    == Become(c, "done") /\ answer' = [answer EXCEPT ![c] = a]

\* What goes out of scope is reset.
Set(f, c, v) == f' = [f EXCEPT ![c] = v]
Forget(f, c) == f' = [f EXCEPT ![c] = 0]

-----------------------------------------------------------------------------
(* token().                                                                *)

\* One that is dropped before its answer gives up its place in the queue, or
\* the mutex.
Released_Kept(S) == holder
Released(S)      == IF holder \in S THEN NoCall ELSE holder

Waiting == {c \in Calls : pc[c] = "waiting"}

\* The requests that come before c in cs.
Sooner(cs, c) == {d \in Calls : \E i \in DOMAIN cs : cs[i] = c /\ \E j \in 1 .. i - 1 : cs[j] = d}

\* The futures in S end, and the requests cs start together; what is sent once
\* has its last attempt only.
Switch(S, cs, once) ==
    LET Started(c) == c \in ToSet(cs)
        Renew(f, v) == [c \in Calls |-> IF c \in S THEN v ELSE f[c]] IN
    /\ ahead' = [c \in Calls |-> IF Started(c) THEN (Waiting \ S) \cup Sooner(cs, c)
                                 ELSE Renew(ahead, {})[c] \ S]
    /\ holder' = Released(S)
    /\ pc' = [c \in Calls |-> IF Started(c) THEN "waiting" ELSE Renew(pc, "idle")[c]]
    /\ asked' = [c \in Calls |-> IF Started(c) THEN clock ELSE Renew(asked, 0)[c]]
    /\ attempt' = [c \in Calls |->
          IF Started(c) /\ once THEN Delays - 1 ELSE Renew(attempt, 0)[c]]
    /\ since' = Renew(since, 0)
    /\ token' = Renew(token, NoToken)
    /\ answer' = Renew(answer, "none")
    /\ UNCHANGED <<clock, cached>>

Guarded_Never(c) == NoCall
Guarded(c)       == c

\* The mutex is ours: return the cached token while it is usable, or mint.
Acquire(c) ==
    /\ holder = NoCall /\ pc[c] = "waiting" /\ ahead[c] = {}
    /\ ahead' = [d \in Calls |-> ahead[d] \ {c}]
    /\ IF cached.until > clock
       THEN /\ Set(token, c, cached)
            /\ Forget(asked, c)
            /\ Become(c, "sending")
            /\ UNCHANGED <<holder, since>>
       ELSE /\ holder' = Guarded(c)
            /\ Set(since, c, clock)
            /\ Become(c, "minting")
            /\ UNCHANGED <<token, asked>>
    /\ UNCHANGED <<clock, cached, attempt, answer>>

\* The identity provider issues a token; its response is on the way.
Issue(c) ==
    /\ pc[c] = "minting"
    /\ \E l \in Lifetimes : Set(token, c, Token(clock + l, l))
    /\ Become(c, "issued")
    /\ UNCHANGED <<clock, holder, ahead, cached, attempt, since, asked, answer>>

Usable_ToTheEnd(l) == clock + l
Usable(l)          == clock + l - Margin

Minted(c) ==
    LET t == Token(token[c].expires, Usable(token[c].until)) IN
    /\ pc[c] = "issued"
    /\ cached' = t
    /\ Set(token, c, t)
    /\ holder' = NoCall
    /\ Forget(since, c) /\ Forget(asked, c)
    /\ Become(c, "sending")
    /\ UNCHANGED <<clock, ahead, attempt, answer>>

Unlocked == NoCall

\* The mint is refused, or its response is invalid, lost or late.
MintFails(c) ==
    /\ pc[c] \in {"minting", "issued"}
    /\ holder' = Unlocked
    /\ End(c, "error")
    /\ Set(token, c, NoToken)
    /\ Forget(since, c) /\ Forget(asked, c)
    /\ UNCHANGED <<clock, ahead, cached, attempt>>

-----------------------------------------------------------------------------
(* get_json_impl.                                                          *)

Exhausted(c) == attempt[c] + 1 >= Delays

Answered(c) ==
    /\ pc[c] = "sending"
    /\ \/ \E a \in {"ok", "error"} : End(c, a)
       \/ ~Exhausted(c) /\ Become(c, "backoff") /\ UNCHANGED answer
    /\ Set(token, c, NoToken)
    /\ UNCHANGED <<clock, holder, ahead, cached, attempt, since, asked>>

Retry(c) ==
    /\ pc[c] = "backoff"
    /\ attempt' = [attempt EXCEPT ![c] = @ + 1]
    /\ ahead' = [ahead EXCEPT ![c] = Waiting]
    /\ Set(asked, c, clock)
    /\ Become(c, "waiting")
    /\ UNCHANGED <<clock, holder, cached, since, token, answer>>

-----------------------------------------------------------------------------
Late_Never(c) == FALSE
Late(c)       == clock >= since[c] + MintTimeout

\* The token client gives up a mint in time.
Tick ==
    /\ clock < MaxClock
    /\ holder = NoCall => Waiting = {}
    /\ \A c \in Calls : pc[c] \in {"minting", "issued"} => ~Late(c)
    /\ clock' = clock + 1
    /\ UNCHANGED <<holder, ahead, cached, pc, attempt, since, asked, token, answer>>

\* A step of request c.
Request(c) == \/ Acquire(c) \/ Minted(c) \/ MintFails(c) \/ Answered(c) \/ Retry(c)

-----------------------------------------------------------------------------
\* Every variable keeps its type, no request makes more attempts than there
\* are delays, and the mutex is held by one who mints only.
ApiTypeOK ==
    /\ clock \in 1 .. MaxClock
    /\ holder # NoCall => pc[holder] \in {"minting", "issued"}
    /\ \A c \in Calls : ahead[c] # {} => pc[c] = "waiting" /\ ahead[c] \subseteq Waiting \ {c}
    /\ pc \in [Calls -> {"idle", "waiting", "minting", "issued", "sending",
                         "backoff", "done"}]
    /\ attempt \in [Calls -> 0 .. Delays - 1]
    /\ answer \in [Calls -> {"none", "ok", "error"}]

\* A request goes out with a token that stays valid for at least the margin,
\* less the time its mint's response may have travelled: the cache counts
\* from the response, the provider from the issue.
TokenFresh ==
    [][\A c \in Calls : pc[c] # "sending" /\ pc'[c] = "sending" =>
          token'[c].expires >= clock + Margin + 1 - MintTimeout]_apiVars

\* Callers that find the token stale together do not each mint one: a mint
\* never replaces a token that could still be served.
NoStampede == [][cached' # cached => cached.until <= clock]_apiVars

\* Nobody waits for the token longer than everybody's mint can last in turn,
\* also when the identity provider fails each of them at its timeout.
WaitBounded ==
    \A c \in Calls : pc[c] \in {"waiting", "minting", "issued"} =>
        clock <= asked[c] + Cardinality(Calls) * MintTimeout
=============================================================================
