------------------------------- MODULE Gallery -------------------------------
(***************************************************************************)
(* What an image service promises the commands that ask it for images,     *)
(* with neither semaphore, page nor retries.  A command is shown the image *)
(* on the shelf, if there is one of its key; otherwise it asks for one,    *)
(* and the calls that ask are those of Coalescing: one flight per key, one *)
(* verdict per flight, no more flights than Capacity.  Who is told "ok" is *)
(* shown the image of its flight, which is then put on the shelf; any      *)
(* other verdict is told to its own flight only and leaves nothing there.  *)
(* A command may give up before it asks, while it waits, and after it was  *)
(* told but before anything came of that: then nothing goes on the shelf.  *)
(***************************************************************************)
EXTENDS Coalescing

CONSTANT Keys

VARIABLES
    stage,      \* "new", "asking", "served", "refused" or "gone"
    shelf,      \* key -> the call whose flight brought the image
    shown       \* the call whose flight brought what a command was shown

galleryVars == <<vars, stage, shelf, shown>>

GalleryInit ==
    /\ Init
    /\ stage = [c \in Calls |-> "new"]
    /\ shelf = [k \in Keys |-> NoCall]
    /\ shown = [c \in Calls |-> NoCall]

Enter(c, l) == stage' = [stage EXCEPT ![c] = l]
Show(c, p)  == Enter(c, "served") /\ shown' = [shown EXCEPT ![c] = p]

Find(c) ==
    /\ stage[c] = "new" /\ shelf[key[c]] # NoCall
    /\ Show(c, shelf[key[c]])
    /\ UNCHANGED <<vars, shelf>>

Ask(c) ==
    /\ stage[c] = "new" /\ shelf[key[c]] = NoCall
    /\ Enter(c, "asking")
    /\ UNCHANGED <<vars, shelf, shown>>

\* The flights go on, by those who ask and do not give up.
Fly ==
    /\ Next
    /\ \A c \in Calls : phase'[c] # phase[c] => stage[c] = "asking" /\ phase'[c] # "dropped"
    /\ UNCHANGED <<stage, shelf, shown>>

Told(c) == stage[c] = "asking" /\ phase[c] = "answered"

Deliver(c) ==
    /\ Told(c) /\ answer[c].kind = "ok"
    /\ Show(c, answer[c].by)
    /\ shelf' = [shelf EXCEPT ![key[c]] = answer[c].by]
    /\ UNCHANGED vars

Deny(c) ==
    /\ Told(c) /\ answer[c].kind # "ok"
    /\ Enter(c, "refused")
    /\ UNCHANGED <<vars, shelf, shown>>

GiveUp(c) ==
    /\ \/ stage[c] = "asking" /\ Abandon(c)
       \/ stage[c] = "new" /\ c \in Droppable /\ UNCHANGED vars
       \/ Told(c) /\ c \in Droppable /\ UNCHANGED vars
    /\ Enter(c, "gone")
    /\ UNCHANGED <<shelf, shown>>

Remove(k) ==
    /\ shelf[k] # NoCall
    /\ shelf' = [shelf EXCEPT ![k] = NoCall]
    /\ UNCHANGED <<vars, stage, shown>>

GalleryNext ==
    \/ \E c \in Calls : Find(c) \/ Ask(c) \/ Deliver(c) \/ Deny(c) \/ GiveUp(c)
    \/ Fly
    \/ \E k \in Keys : Remove(k)

GallerySpec == GalleryInit /\ [][GalleryNext]_galleryVars
=============================================================================
