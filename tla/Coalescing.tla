----------------------------- MODULE Coalescing ------------------------------
(***************************************************************************)
(* What a bounded, deduplicating queue promises its callers, with none of  *)
(* its machinery.  A flight is named by the call that leads it.  A call    *)
(* leads a flight, joins the open flight of its key, or is refused because *)
(* Capacity flights are open.  A flight settles once, with one verdict, and *)
(* every call of the flight is answered with that verdict; the leader is   *)
(* the last to leave the open set.  A call whose future is dropped is not  *)
(* answered, and a flight whose leader was dropped before it settled never *)
(* settles.                                                                *)
(***************************************************************************)
EXTENDS Naturals, FiniteSets

CONSTANTS Calls, NoCall, Capacity, Kinds, Droppable

VARIABLES
    key,        \* the key each call carries
    phase,      \* "idle", "waiting", "answered" or "dropped"
    leader,     \* the flight of each call
    open,       \* the leaders of the flights calls can join
    verdict,    \* by leader
    answer      \* what each call was told

vars == <<key, phase, leader, open, verdict, answer>>

NoAnswer == [kind |-> "none", by |-> NoCall]
Busy     == [kind |-> "busy", by |-> NoCall]
Verdict(l) == [kind |-> verdict[l], by |-> l]

Init ==
    /\ phase = [c \in Calls |-> "idle"]
    /\ leader = [c \in Calls |-> NoCall]
    /\ open = {}
    /\ verdict = [c \in Calls |-> "none"]
    /\ answer = [c \in Calls |-> NoAnswer]

Flight(c) == {l \in open : key[l] = key[c]}

Lead(c) ==
    /\ phase[c] = "idle" /\ Flight(c) = {}
    /\ Cardinality(open) < Capacity
    /\ phase' = [phase EXCEPT ![c] = "waiting"]
    /\ leader' = [leader EXCEPT ![c] = c]
    /\ open' = open \cup {c}
    /\ UNCHANGED <<key, verdict, answer>>

Follow(c) ==
    /\ phase[c] = "idle"
    /\ \E l \in Flight(c) : leader' = [leader EXCEPT ![c] = l]
    /\ phase' = [phase EXCEPT ![c] = "waiting"]
    /\ UNCHANGED <<key, open, verdict, answer>>

Refuse(c) ==
    /\ phase[c] = "idle" /\ Flight(c) = {}
    /\ Cardinality(open) >= Capacity
    /\ phase' = [phase EXCEPT ![c] = "answered"]
    /\ answer' = [answer EXCEPT ![c] = Busy]
    /\ UNCHANGED <<key, leader, open, verdict>>

Settle(l) ==
    /\ l \in open /\ phase[l] = "waiting" /\ verdict[l] = "none"
    /\ \E v \in Kinds : verdict' = [verdict EXCEPT ![l] = v]
    /\ UNCHANGED <<key, phase, leader, open, answer>>

\* The leader closes its flight as it leaves; a follower just leaves.
Answer(c) ==
    /\ phase[c] = "waiting" /\ verdict[leader[c]] # "none"
    /\ phase' = [phase EXCEPT ![c] = "answered"]
    /\ answer' = [answer EXCEPT ![c] = Verdict(leader[c])]
    /\ open' = open \ {c}
    /\ UNCHANGED <<key, leader, verdict>>

Abandon(c) ==
    /\ c \in Droppable
    /\ phase[c] = "waiting"
    /\ phase' = [phase EXCEPT ![c] = "dropped"]
    /\ UNCHANGED <<key, leader, open, verdict, answer>>

Next == \E c \in Calls : \/ Lead(c) \/ Follow(c) \/ Refuse(c)
                         \/ Settle(c) \/ Answer(c) \/ Abandon(c)

Spec == Init /\ [][Next]_vars
=============================================================================
