------------------------------- MODULE CdpClient -------------------------------
(***************************************************************************)
(* CdpClient of src/src/image/cdp_client.rs: requests draw an id, register *)
(* in the pending map they share with the reader task, and pass their text *)
(* through a bounded channel to the writer task; the reader hands each     *)
(* reply to the request registered under its id.                           *)
(*                                                                         *)
(* An element of Requests is one call of send_timeout.  The future of one  *)
(* in Droppable may be dropped at an await, as the work timeout of the     *)
(* render queue does.  Chromium and the socket are external: a command may *)
(* never be answered, answers come in any order, the connection may break. *)
(***************************************************************************)
EXTENDS Naturals, Sequences, FiniteSets

CONSTANTS
    Requests,       \* the calls of send_timeout
    NoRequest,      \* "no entry", "no reply"
    ChannelSize,    \* messages the channel buffers (64 in the code)
    Droppable       \* requests whose future may be dropped

Ids == 0 .. Cardinality(Requests)   \* u64: never wraps in a process's life

ASSUME CdpAssumption ==
    /\ IsFiniteSet(Requests) /\ NoRequest \notin Requests
    /\ ChannelSize \in Nat \ {0}
    /\ Droppable \subseteq Requests

VARIABLES
    pc,             \* where each request is in send_timeout
    id, nextId,     \* the id a request drew; the next one
    pending,        \* id -> request whose oneshot sender is registered
    reply,          \* what a request's oneshot holds: the command replied to
    chan,           \* mpsc channel to the writer task
    wire,           \* commands Chromium received and did not answer
    incoming,       \* replies that the reader has not read
    reader, writer, \* the tasks still run
    open,           \* the WebSocket is connected
    closing         \* close() was called

request == <<pc, id, nextId>>
tasks   == <<reader, writer, open>>
vars    == <<request, pending, reply, chan, wire, incoming, tasks, closing>>

\* A command as it travels: its id, and who sent it.
Command(r) == [id |-> id[r], by |-> r]
EmptyText  == [id |-> 0, by |-> NoRequest]      \* what close() sends
Commands   == [id : Ids, by : Requests]

Ended == {"answered", "failed", "dropped"}

Init ==
    /\ pc = [r \in Requests |-> "idle"]
    /\ id = [r \in Requests |-> 0] /\ nextId = 0
    /\ pending = [i \in Ids |-> NoRequest]
    /\ reply = [r \in Requests |-> NoRequest]
    /\ chan = <<>> /\ wire = {} /\ incoming = <<>>
    /\ reader = TRUE /\ writer = TRUE /\ open = TRUE /\ closing = FALSE

Goto(r, l) == pc' = [pc EXCEPT ![r] = l]

-----------------------------------------------------------------------------
(* send_timeout.                                                           *)

DrawId(r) ==
    /\ pc[r] = "idle"
    /\ id' = [id EXCEPT ![r] = nextId]
    /\ nextId' = nextId + 1
    /\ Goto(r, "drawn")
    /\ UNCHANGED <<pending, reply, chan, wire, incoming, tasks, closing>>

Register(r) ==
    /\ pc[r] = "drawn"
    /\ pending' = [pending EXCEPT ![id[r]] = r]
    /\ Goto(r, "registered")
    /\ UNCHANGED <<id, nextId, reply, chan, wire, incoming, tasks, closing>>

HasRoom == Len(chan) < ChannelSize

\* The channel takes the text when it has room; it is closed once the
\* writer ended.  The deadline starts when the text is in the channel.
Enqueue(r) ==
    /\ pc[r] = "registered"
    /\ \/ /\ writer /\ HasRoom
          /\ chan' = Append(chan, Command(r))
          /\ Goto(r, "waiting")
       \/ ~writer /\ Goto(r, "givingup") /\ UNCHANGED chan
    /\ UNCHANGED <<id, nextId, pending, reply, wire, incoming, tasks, closing>>

TakeReply(r) ==
    /\ pc[r] = "waiting"
    /\ reply[r] # NoRequest
    /\ Goto(r, "answered")
    /\ UNCHANGED <<id, nextId, pending, reply, chan, wire, incoming, tasks,
                   closing>>

Deadline_Missing == FALSE
Deadline         == TRUE

\* The deadline passes while the oneshot is empty; its receiver is dropped.
Expire(r) ==
    /\ pc[r] = "waiting"
    /\ reply[r] = NoRequest /\ Deadline
    /\ Goto(r, "givingup")
    /\ UNCHANGED <<id, nextId, pending, reply, chan, wire, incoming, tasks,
                   closing>>

GiveUp_Leaks(r) == pending
WithoutEntry(r) == [pending EXCEPT ![id[r]] = NoRequest]

GiveUp(r) ==
    /\ pc[r] = "givingup"
    /\ pending' = WithoutEntry(r)
    /\ Goto(r, "failed")
    /\ UNCHANGED <<id, nextId, reply, chan, wire, incoming, tasks, closing>>

\* Nothing in send_timeout is undone when its future is dropped.
Drop(r) ==
    /\ r \in Droppable
    /\ pc[r] \in {"drawn", "registered", "waiting", "givingup"}
    /\ Goto(r, "dropped")
    /\ UNCHANGED <<id, nextId, pending, reply, chan, wire, incoming, tasks,
                   closing>>

\* close(): an empty text, no close frame; the tasks are not joined.
Close ==
    /\ ~closing /\ closing' = TRUE
    /\ chan' = IF writer THEN Append(chan, EmptyText) ELSE chan
    /\ writer => HasRoom
    /\ UNCHANGED <<request, pending, reply, wire, incoming, tasks>>

-----------------------------------------------------------------------------
(* The two tasks.                                                          *)

Write ==
    /\ writer /\ chan # <<>>
    /\ chan' = Tail(chan)
    /\ wire' = IF open /\ Head(chan) # EmptyText
               THEN wire \cup {Head(chan)} ELSE wire
    /\ UNCHANGED <<request, pending, reply, incoming, tasks, closing>>

\* The sink refuses the text: the task ends and drops what is queued.
WriterStops ==
    /\ writer /\ chan # <<>> /\ ~open
    /\ writer' = FALSE /\ chan' = <<>>
    /\ UNCHANGED <<request, pending, reply, wire, incoming, reader, open, closing>>

\* The entry is removed and its oneshot filled under the map's lock; a reply
\* that nobody registered for is ignored, and a dropped receiver ignores it.
Read_InOrder(i) == CHOOSE j \in Ids : /\ pending[j] # NoRequest
                                      /\ \A k \in 0 .. j - 1 : pending[k] = NoRequest
Addressee(i)    == i

Read ==
    /\ reader /\ incoming # <<>>
    /\ incoming' = Tail(incoming)
    /\ LET a == Head(incoming)
           r == pending[a.id]
       IN IF r = NoRequest THEN UNCHANGED <<pending, reply>>
          ELSE LET i == Addressee(a.id) IN
               /\ pending' = [pending EXCEPT ![i] = NoRequest]
               /\ reply' = IF pc[pending[i]] \in {"givingup"} \cup Ended THEN reply
                           ELSE [reply EXCEPT ![pending[i]] = a.by]
    /\ UNCHANGED <<request, chan, wire, tasks, closing>>

\* The end of the stream, or an error, ends the reader.  The entries stay.
ReaderStops ==
    /\ reader /\ incoming = <<>> /\ ~open
    /\ reader' = FALSE
    /\ UNCHANGED <<request, pending, reply, chan, wire, incoming, writer, open,
                   closing>>

-----------------------------------------------------------------------------
(* Chromium and the socket.                                                *)

Answer(a) ==
    /\ open /\ a \in wire
    /\ wire' = wire \ {a}
    /\ incoming' = Append(incoming, a)
    /\ UNCHANGED <<request, pending, reply, chan, tasks, closing>>

Disconnect ==
    /\ open /\ open' = FALSE
    /\ wire' = {}
    /\ UNCHANGED <<request, pending, reply, chan, incoming, reader, writer, closing>>

\* A close or binary frame ends the reader as well, though the connection is
\* there and commands still go out over it.
OtherFrame ==
    /\ reader /\ incoming = <<>> /\ open
    /\ reader' = FALSE
    /\ UNCHANGED <<request, pending, reply, chan, wire, incoming, writer, open,
                   closing>>

-----------------------------------------------------------------------------
Send(r)  == \/ DrawId(r) \/ Register(r) \/ Enqueue(r) \/ TakeReply(r)
            \/ Expire(r) \/ GiveUp(r)
Tasks    == Write \/ WriterStops \/ Read \/ ReaderStops
External == (\E a \in Commands : Answer(a)) \/ Disconnect \/ OtherFrame

Next == \/ \E r \in Requests : Send(r) \/ Drop(r)
        \/ Close \/ Tasks \/ External

\* Requests and the reader are polled and deadlines come.  Neither Chromium
\* nor the socket owes anything, so the writer may be stuck in its send.
Fairness == /\ \A r \in Requests : WF_vars(Send(r))
            /\ WF_vars(Read) /\ WF_vars(ReaderStops)

Spec     == Init /\ [][Next]_vars
FairSpec == Spec /\ Fairness

-----------------------------------------------------------------------------
TypeOK ==
    /\ pc \in [Requests -> {"idle", "drawn", "registered", "waiting",
                            "givingup"} \cup Ended]
    /\ id \in [Requests -> Ids] /\ nextId \in Ids
    /\ pending \in [Ids -> Requests \cup {NoRequest}]
    /\ reply \in [Requests -> Requests \cup {NoRequest}]
    /\ chan \in Seq(Commands \cup {EmptyText}) /\ Len(chan) <= ChannelSize
    /\ wire \subseteq Commands
    /\ incoming \in Seq(Commands)
    /\ {reader, writer, open, closing} \subseteq BOOLEAN

\* A reply goes to the request that sent the command, whatever the order of
\* the answers and however late they are ("correlates_request_responses_by_id").
AnswersOwn == \A r \in Requests : reply[r] \in {NoRequest, r}

\* The pending map and the requests agree.  An entry belongs to a request
\* that is still awaited, or whose future was dropped: one that timed out or
\* was answered has left nothing (cdp_client.rs:171-172).  And a request that
\* is waiting can still be answered: its entry is there or its reply is.
PendingExact ==
    /\ \A i \in Ids : pending[i] # NoRequest =>
          /\ id[pending[i]] = i
          /\ pc[pending[i]] \in {"registered", "waiting", "givingup", "dropped"}
    /\ \A r \in Requests : pc[r] \in {"registered", "waiting"} =>
          pending[id[r]] = r \/ reply[r] # NoRequest

\* Each request whose text got into the channel ends, also when Chromium
\* hangs, the socket breaks or the reader is gone.
WaitsEnd == \A r \in Requests : pc[r] = "waiting" ~> pc[r] \in Ended
=============================================================================
