---------------------------- MODULE CdpClientProofs ----------------------------
(***************************************************************************)
(* Theorems of CdpClient, for every number of requests, every size of the  *)
(* channel and every choice of droppable requests.                         *)
(***************************************************************************)
EXTENDS CdpClient, FiniteSetTheorems, SequenceTheorems, TLAPS

(***************************************************************************)
(* The inductive invariant.                                                *)
(***************************************************************************)

\* The requests that have an id.
Drawn == {r \in Requests : pc[r] # "idle"}

\* Ids are drawn one after the other, so no two requests share one.
IdsDistinct ==
    /\ nextId = Cardinality(Drawn)
    /\ \A r \in Drawn : id[r] < nextId
    /\ \A r, s \in Drawn : id[r] = id[s] => r = s

\* What travels to Chromium or back carries the id of the one who sent it.
Messages == {a \in Commands : a.by \in Drawn /\ id[a.by] = a.id}

MessagesTrue ==
    /\ chan \in Seq(Messages \cup {EmptyText})
    /\ wire \subseteq Messages
    /\ incoming \in Seq(Messages)

\* A request never has both its entry and its reply, and before it registers
\* it has neither.
EntryOrReply ==
    \A r \in Requests :
        /\ reply[r] # NoRequest => pending[id[r]] # r
        /\ pc[r] \in {"idle", "drawn"} => reply[r] = NoRequest

IInv == /\ TypeOK
        /\ IdsDistinct /\ MessagesTrue /\ EntryOrReply
        /\ AnswersOwn /\ PendingExact

-----------------------------------------------------------------------------
LEMMA InitIInv == Init => IInv
<1> SUFFICES ASSUME Init PROVE IInv
  OBVIOUS
<1>1. Drawn = {} /\ Cardinality({}) = 0 /\ Cardinality(Requests) \in Nat
  BY CdpAssumption, FS_EmptySet, FS_CardinalityType DEF Init, Drawn
<1>2. TypeOK
  BY <1>1, CdpAssumption DEF Init, TypeOK, Ids, Ended
<1>3. QED
  BY <1>1, <1>2, CdpAssumption DEF Init, IInv, IdsDistinct, MessagesTrue, EntryOrReply,
     AnswersOwn, PendingExact

\* Messages stay true when their senders keep their ids.
LEMMA StillTrue ==
  ASSUME MessagesTrue, Messages \subseteq Messages', UNCHANGED <<chan, wire, incoming>>
  PROVE MessagesTrue'
<1>1. EmptyText' = EmptyText
  BY DEF EmptyText
<1>2. Messages \cup {EmptyText} \subseteq Messages' \cup {EmptyText}
  OBVIOUS
<1>3. chan \in Seq(Messages' \cup {EmptyText}) /\ incoming \in Seq(Messages')
  BY <1>2, SeqMonotonic DEF MessagesTrue
<1>4. QED
  BY <1>1, <1>3 DEF MessagesTrue

\* The ids stay distinct when nobody draws one.
LEMMA OldIds ==
  ASSUME IInv, UNCHANGED <<id, nextId>>, Drawn' = Drawn
  PROVE IdsDistinct' /\ Messages' = Messages
BY DEF IInv, IdsDistinct, Messages, Commands, Ids

LEMMA DrawStep == ASSUME IInv, NEW r \in Requests, DrawId(r)  PROVE IInv'
<1> USE CdpAssumption DEF IInv, TypeOK, DrawId, Goto, Drawn, Ids, Ended, tasks
<1>1. /\ IsFiniteSet(Drawn) /\ r \notin Drawn
      /\ Drawn' = Drawn \cup {r} /\ Drawn' \subseteq Requests
  BY FS_Subset
<1>2. Cardinality(Drawn') = Cardinality(Drawn) + 1
  BY <1>1, FS_AddElement
<1>3. Cardinality(Drawn') <= Cardinality(Requests) /\ Cardinality(Requests) \in Nat
  BY <1>1, FS_Subset, FS_CardinalityType
<1>4. nextId = Cardinality(Drawn) /\ nextId' = nextId + 1
  BY DEF IdsDistinct
<1>5. \A s \in Drawn : id'[s] = id[s] /\ id[s] < nextId
  BY <1>1 DEF IdsDistinct
<1>6. TypeOK'
  BY <1>2, <1>3, <1>4 DEF Commands, EmptyText
<1>7. IdsDistinct'
  <2>1. id'[r] = nextId /\ nextId \in Nat /\ id \in [Requests -> Nat]
    OBVIOUS
  <2>a. \A s \in Drawn : id[s] \in Nat
    OBVIOUS
  <2>b. \A s, t \in Drawn : id[s] = id[t] => s = t
    BY DEF IdsDistinct
  <2> HIDE DEF IInv, TypeOK, DrawId, Drawn
  <2>2. \A s \in Drawn' : id'[s] < nextId'
    BY <2>a, <1>1, <1>4, <1>5, <2>1
  <2>3. \A s, t \in Drawn' : id'[s] = id'[t] => s = t
    BY <1>1, <1>5, <2>1, <2>b
  <2>4. QED
    BY <1>2, <1>4, <2>2, <2>3 DEF IdsDistinct
<1>8. MessagesTrue'
  <2>1. Messages \subseteq Messages'
    BY <1>1, <1>5 DEF Messages, Commands
  <2>2. QED
    BY <2>1, StillTrue
<1>9. (EntryOrReply /\ AnswersOwn /\ PendingExact)'
  BY <1>4 DEF EntryOrReply, AnswersOwn, PendingExact, IdsDistinct
<1>10. QED
  BY <1>6, <1>7, <1>8, <1>9 DEF IInv

LEMMA SendStep == ASSUME IInv, NEW r \in Requests, Send(r) \/ Drop(r)  PROVE IInv'
<1> USE CdpAssumption DEF IInv, TypeOK, Goto, Drawn, Ended, tasks
<1>1. CASE DrawId(r)
  BY <1>1, DrawStep
<1>2. CASE Register(r)
  <2> USE <1>2 DEF Register
  <2>1. TypeOK'
    BY DEF Commands, EmptyText
  <2>2. IdsDistinct' /\ MessagesTrue'
    BY OldIds, StillTrue
  <2>3. (EntryOrReply /\ AnswersOwn /\ PendingExact)'
    BY <2>2 DEF EntryOrReply, AnswersOwn, PendingExact, IdsDistinct
  <2>4. QED
    BY <2>1, <2>2, <2>3 DEF IInv
<1>3. CASE Enqueue(r)
  <2> USE <1>3 DEF Enqueue
  <2>1. Drawn' = Drawn
    OBVIOUS
  <2>2. IdsDistinct' /\ Messages' = Messages /\ EmptyText' = EmptyText
    BY <2>1, OldIds DEF EmptyText
  <2>3. Command(r) \in Messages /\ Messages \subseteq Commands
    BY DEF Command, Messages, Commands
  <2>4. /\ chan' \in Seq(Messages \cup {EmptyText})
        /\ chan' \in Seq(Commands \cup {EmptyText}) /\ Len(chan') <= ChannelSize
    <3>1. CASE chan' = chan
      BY <3>1 DEF MessagesTrue
    <3>2. CASE chan' = Append(chan, Command(r)) /\ HasRoom
      <4>1. Len(chan') = Len(chan) + 1 /\ Len(chan) \in Nat /\ Len(chan) < ChannelSize
        BY <3>2 DEF HasRoom
      <4> HIDE DEF Enqueue, IInv
      <4>2. QED
        BY <2>3, <3>2, <4>1 DEF MessagesTrue, IInv
    <3>3. QED
      BY <3>1, <3>2
  <2>5. TypeOK'
    BY <2>2, <2>4
  <2>6. MessagesTrue'
    BY <2>2, <2>4 DEF MessagesTrue
  <2>7. (EntryOrReply /\ AnswersOwn /\ PendingExact)'
    BY DEF EntryOrReply, AnswersOwn, PendingExact
  <2>8. QED
    BY <2>2, <2>5, <2>6, <2>7 DEF IInv
<1>4. CASE TakeReply(r) \/ Expire(r) \/ Drop(r)
  <2> USE <1>4 DEF TakeReply, Expire, Drop
  <2>1. TypeOK'
    BY SMTT(30) DEF Commands, EmptyText
  <2>2. IdsDistinct' /\ MessagesTrue'
    BY OldIds, StillTrue
  <2>3. (EntryOrReply /\ AnswersOwn /\ PendingExact)'
    BY DEF EntryOrReply, AnswersOwn, PendingExact
  <2>4. QED
    BY <2>1, <2>2, <2>3 DEF IInv
<1>5. CASE GiveUp(r)
  <2> USE <1>5 DEF GiveUp, WithoutEntry
  <2>1. TypeOK'
    BY DEF Commands, EmptyText
  <2>2. IdsDistinct' /\ MessagesTrue'
    BY OldIds, StillTrue
  <2>3. (EntryOrReply /\ AnswersOwn /\ PendingExact)'
    BY DEF EntryOrReply, AnswersOwn, PendingExact, IdsDistinct
  <2>4. QED
    BY <2>1, <2>2, <2>3 DEF IInv
<1>6. QED
  BY <1>1, <1>2, <1>3, <1>4, <1>5 DEF Send

\* The reader hands a reply to nobody but its sender: an entry's id and a
\* reply's id are each drawn by one request, which is the same.
LEMMA ReadStep == ASSUME IInv, Read  PROVE IInv'
<1> USE CdpAssumption DEF IInv, TypeOK, Addressee, Ended, request, tasks
<1> DEFINE a == Head(incoming)
           s == a.by
<1>1. a \in Messages /\ Tail(incoming) \in Seq(Messages) /\ Tail(incoming) \in Seq(Commands)
  BY HeadTailProperties DEF Read, MessagesTrue
<1>2. s \in Requests /\ a.id = id[s] /\ id[s] \in Ids /\ s \in Drawn
  BY <1>1 DEF Messages, Commands, Drawn
<1>3. pending[id[s]] # NoRequest => pending[id[s]] = s
  BY <1>2 DEF PendingExact, IdsDistinct, Drawn
<1>4. /\ UNCHANGED <<pc, id, nextId, chan, wire, reader, writer, open, closing>>
      /\ incoming' = Tail(incoming)
      /\ \/ pending[id[s]] = NoRequest /\ UNCHANGED <<pending, reply>>
         \/ /\ pending[id[s]] = s
            /\ pending' = [pending EXCEPT ![id[s]] = NoRequest]
            /\ reply' = IF pc[s] \in {"givingup"} \cup Ended THEN reply
                        ELSE [reply EXCEPT ![s] = s]
  BY <1>2, <1>3 DEF Read
<1>5. pending[id[s]] = s => pc[s] \in {"registered", "waiting", "givingup", "dropped"}
  BY <1>2 DEF PendingExact
<1>6. \A r \in Requests : pc[r] # "idle" /\ id[r] = id[s] => r = s
  BY <1>2 DEF IdsDistinct, Drawn
<1> HIDE DEF a, s
<1>7. TypeOK'
  BY <1>1, <1>2, <1>4 DEF Commands, EmptyText
<1>8. IdsDistinct' /\ MessagesTrue'
  <2>1. Drawn' = Drawn
    BY <1>4 DEF Drawn
  <2>2. IdsDistinct' /\ Messages' = Messages
    BY <1>4, <2>1, OldIds
  <2>3. QED
    BY <1>1, <1>4, <2>2 DEF MessagesTrue, EmptyText, a
<1>9. EntryOrReply' /\ AnswersOwn'
  BY <1>2, <1>4, <1>5 DEF EntryOrReply, AnswersOwn
<1>10. PendingExact'
  BY <1>2, <1>4, <1>5, <1>6 DEF PendingExact
<1>11. QED
  BY <1>7, <1>8, <1>9, <1>10 DEF IInv

\* The writer, the ends of the tasks, close() and Chromium move messages only.
LEMMA TransportStep ==
  ASSUME IInv, Close \/ Write \/ WriterStops \/ ReaderStops \/ External  PROVE IInv'
<1> USE CdpAssumption DEF IInv, TypeOK, request, tasks
<1>1. UNCHANGED <<pc, id, nextId, pending, reply>> /\ Drawn' = Drawn
  BY DEF Close, Write, WriterStops, ReaderStops, External, Answer, Disconnect, OtherFrame, Drawn
<1>2. IdsDistinct' /\ Messages' = Messages
  BY <1>1, OldIds
<1>3. (EntryOrReply /\ AnswersOwn /\ PendingExact)'
  BY <1>1 DEF EntryOrReply, AnswersOwn, PendingExact
<1>4. TypeOK' /\ MessagesTrue'
  <2> DEFINE Texts == Messages \cup {EmptyText}
  <2> USE <1>1, <1>2
  <2>1. EmptyText' = EmptyText /\ EmptyText \in Texts /\ Messages \subseteq Commands
    BY DEF EmptyText, Messages
  <2>2. /\ chan' \in Seq(Texts) /\ Len(chan') <= ChannelSize
    <3> chan \in Seq(Texts) /\ Len(chan) \in Nat
      BY DEF MessagesTrue
    <3> HIDE DEF Texts
    <3>1. CASE Close
      BY <2>1, <3>1 DEF Close, HasRoom
    <3>2. CASE Write
      BY <3>2, HeadTailProperties DEF Write
    <3>3. CASE WriterStops
      BY <3>3, EmptySeq DEF WriterStops
    <3>4. CASE ReaderStops \/ External
      BY <3>4 DEF ReaderStops, External, Answer, Disconnect, OtherFrame
    <3>5. QED
      BY <3>1, <3>2, <3>3, <3>4
  <2>3. wire' \subseteq Messages
    <3>1. CASE Write
      <4>1. Head(chan) \in Texts
        BY <3>1, HeadTailProperties DEF Write, MessagesTrue
      <4>2. QED
        BY <3>1, <4>1 DEF Write, MessagesTrue
    <3>2. CASE Close \/ WriterStops \/ ReaderStops \/ External
      BY <3>2 DEF Close, WriterStops, ReaderStops, External, Answer, Disconnect, OtherFrame, MessagesTrue
    <3>3. QED
      BY <3>1, <3>2
  <2>4. incoming' \in Seq(Messages)
    <3>1. ASSUME NEW b \in Commands, Answer(b) PROVE incoming' \in Seq(Messages)
      BY <3>1 DEF Answer, MessagesTrue
    <3>2. CASE Close \/ Write \/ WriterStops \/ ReaderStops \/ Disconnect \/ OtherFrame
      BY <3>2 DEF Close, Write, WriterStops, ReaderStops, Disconnect, OtherFrame, MessagesTrue
    <3>3. QED
      BY <3>1, <3>2 DEF External
  <2>5. chan' \in Seq(Commands \cup {EmptyText}) /\ incoming' \in Seq(Commands)
    BY <2>1, <2>2, <2>4, SeqMonotonic
  <2>6. {reader', writer', open', closing'} \subseteq BOOLEAN
    BY DEF Close, Write, WriterStops, ReaderStops, External, Answer, Disconnect, OtherFrame
  <2>7. QED
    BY <2>1, <2>2, <2>3, <2>4, <2>5, <2>6 DEF MessagesTrue
<1>5. QED
  BY <1>2, <1>3, <1>4

\* The inductive invariant holds in every state of the client.
THEOREM Invariance == Spec => []IInv
<1>1. IInv /\ [Next]_vars => IInv'
  <2> SUFFICES ASSUME IInv, [Next]_vars PROVE IInv'
    OBVIOUS
  <2>1. CASE Next
    BY <2>1, SendStep, ReadStep, TransportStep DEF Next, Tasks
  <2>2. CASE UNCHANGED vars
    <3>1. Drawn' = Drawn
      BY <2>2 DEF Drawn, vars, request
    <3>2. IdsDistinct' /\ MessagesTrue'
      BY <2>2, <3>1, OldIds, StillTrue DEF IInv, vars, request
    <3>3. QED
      BY <2>2, <3>2 DEF vars, request, tasks, IInv, TypeOK, EntryOrReply, AnswersOwn,
         PendingExact, Commands, EmptyText
  <2>3. QED
    BY <2>1, <2>2
<1>2. QED
  BY InitIInv, <1>1, PTL DEF Spec
-----------------------------------------------------------------------------
\* Every variable keeps its type, and the channel its size.
THEOREM TypeCorrect == Spec => []TypeOK
BY Invariance, PTL DEF IInv

\* send_timeout returns the answer to the command it sent, in whatever order
\* Chromium answers, and whoever gave up or was dropped meanwhile.
THEOREM RepliesReachTheirSenders == Spec => []AnswersOwn
BY Invariance, PTL DEF IInv

\* The pending map holds no entry of a request that timed out or was answered,
\* and loses none of a request that waits.
THEOREM PendingMapIsExact == Spec => []PendingExact
BY Invariance, PTL DEF IInv
=============================================================================
