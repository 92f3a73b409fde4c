----------------------------- MODULE Messaging ------------------------------
(***************************************************************************)
(* One conversation: sending a message to every member's box, and reading. *)
(*                                                                         *)
(* A handler of the msg service (Requests) takes the message's numbers and *)
(* publishes one event for each member to the member's Kafka partition;    *)
(* the inbox consumer of the partition, one event after the other, writes  *)
(* the member's copy and then its dialog, by separate calls.  A client     *)
(* that gets no answer repeats the request with the same random id, which  *)
(* DoIdempotent recognizes.  Reading goes the same way: an event to the    *)
(* reader's own partition, computed from the dialog as the handler saw it, *)
(* and one to the partition of the message's sender.                       *)
(*                                                                         *)
(* Every member's partition is a partition of its own here: events of      *)
(* others in between are not modelled.  Numbers and rows of                *)
(* user_pts_updates are the subject of PtsLog.                             *)
(***************************************************************************)
EXTENDS Integers, Sequences, FiniteSets

CONSTANTS
    Members,       \* of the conversation
    Messages,      \* the messages clients send, by random id
    Sender,        \* [Messages -> Members]
    PeerTypes,     \* of the conversation, a subset of {"user", "chat"}
    Requests,      \* bound: requests in progress at a time
    Failures,      \* which failures happen, a subset of FailureKinds
    MaxCopies,     \* bound: attempts that go past DoIdempotent
    MaxReads,      \* bound: readHistory requests, [PeerTypes -> Nat]
    MaxEvents,     \* bound: events of a partition
    MaxFaults      \* bound: failures altogether

FailureKinds == {
    "publish",     \* Kafka does not take an event
    "request",     \* the process of a handler ends
    "expire",      \* the lock or the answer of DoIdempotent expires
    "consumer",    \* a consumer restarts, or its partition moves
    "write",       \* the database refuses a write of a consumer
    "count" }      \* the database does not count what was read

\* The answer of DoIdempotent: none, an empty one, or the copy it tells of.
Nothing == -1
Empty == 0
Answers == { Nothing, Empty } \cup (1 .. MaxCopies)

Free == "free"
Idle == [pc |-> "idle"]

ASSUME ConstantsAssumption ==
    /\ IsFiniteSet(Members)
    /\ Sender \in [Messages -> Members]
    /\ PeerTypes \subseteq {"user", "chat"}
    /\ "user" \in PeerTypes => Cardinality(Members) = 2
    /\ Free \notin Requests
    /\ Failures \subseteq FailureKinds
    /\ MaxReads \in [PeerTypes -> Nat]
    /\ MaxCopies \in Nat /\ MaxEvents \in Nat /\ MaxFaults \in Nat

VARIABLES
    PeerType,      \* between two users or in a chat
    request,       \* [Requests -> what the handler is doing]
    lock,          \* [Messages -> the request that holds the lock, or Free]
    cached,        \* [Messages -> the answer that DoIdempotent keeps]
    told,          \* history: [Messages -> the answers its client was given]
    copies,        \* the last dialogMessageId
    boxId,         \* [Members -> the last message id of the member's box]
    rows,          \* the table messages
    dialogs,       \* [Members -> the member's dialog with the others]
    events,        \* [Members -> Seq(events)], what Kafka keeps
    next,          \* [Members -> index of the event to handle next]
    committed,     \* [Members -> the offset that was committed last, as far
                   \*             as a consumer has started after it]
    written,       \* [Members -> id of the copy whose dialog is due, or 0]
    reads,         \* how many readHistory requests there were
    readBy,        \* history: [Members -> copies the member has read up to]
    faults, failed \* how many failures, and of which kinds

idempotent == << lock, cached, told >>
ids == << copies, boxId >>
kafka == << next, committed >>
history == << reads, readBy >>
failures == << faults, failed >>
vars == << PeerType, request, lock, cached, told, copies, boxId, rows, dialogs, events,
           next, committed, written, reads, readBy, faults, failed >>

Init ==
    /\ PeerType \in PeerTypes
    /\ request = [r \in Requests |-> Idle]
    /\ lock = [m \in Messages |-> Free]
    /\ cached = [m \in Messages |-> Nothing]
    /\ told = [m \in Messages |-> {}]
    /\ copies = 0 /\ boxId = [u \in Members |-> 0]
    /\ rows = {}
    /\ dialogs = [u \in Members |->
                    [top |-> 0, unread |-> 0, readInbox |-> 0, readOutbox |-> 0]]
    /\ events = [u \in Members |-> << >>]
    /\ next = [u \in Members |-> 1] /\ committed = [u \in Members |-> 0]
    /\ written = [u \in Members |-> 0]
    /\ reads = 0 /\ readBy = [u \in Members |-> {}]
    /\ faults = 0 /\ failed = {}

Fail(k) ==
    /\ k \in Failures /\ faults < MaxFaults
    /\ faults' = faults + 1 /\ failed' = failed \cup {k}

Publish(u, e) ==
    /\ Len(events[u]) < MaxEvents
    /\ events' = [events EXCEPT ![u] = Append(@, e)]

-----------------------------------------------------------------------------
(***************************************************************************)
(* Sending: msg.sendMessageV2 for one message.                             *)
(***************************************************************************)

\* A mutant: who finds the lock taken does not mind.
StartWithoutLock(r, m) == cached[m] = Nothing

\* DoIdempotent lets the attempt through.  Who finds the lock taken gets an
\* error and changes nothing.
Start(r, m) == cached[m] = Nothing /\ lock[m] = Free

\* The attempt takes a dialogMessageId and an id of the sender's box.
Send(r, m) ==
    /\ request[r].pc = "idle"
    /\ Start(r, m)
    /\ copies < MaxCopies
    /\ copies' = copies + 1
    /\ boxId' = [boxId EXCEPT ![Sender[m]] = @ + 1]
    /\ request' = [request EXCEPT ![r] =
            [pc |-> "sending", msg |-> m, copy |-> copies + 1,
             id |-> boxId[Sender[m]] + 1, left |-> Members]]
    /\ lock' = [lock EXCEPT ![m] = r]
    /\ UNCHANGED << PeerType, cached, told, rows, dialogs, events, kafka,
                    written, history, failures >>

\* A repeated request finds the answer.
SendAgain(r, m) ==
    /\ request[r].pc = "idle" /\ cached[m] # Nothing
    /\ told' = [told EXCEPT ![m] = @ \cup {cached[m]}]
    /\ UNCHANGED << PeerType, request, lock, cached, ids, rows, dialogs,
                    events, kafka, written, history, failures >>

\* One event for each member; between two users the sender's own goes first,
\* in a chat they go in the order of the participants.
PublishMessage(r, u) ==
    /\ request[r].pc = "sending" /\ u \in request[r].left
    /\ LET q == request[r]
           sender == Sender[q.msg]
       IN  /\ PeerType = "user" /\ sender \in q.left => u = sender
           /\ Publish(u, [kind |-> IF u = sender THEN "out" ELSE "in",
                          msg |-> q.msg, from |-> sender, copy |-> q.copy,
                          id |-> q.id])
    /\ request' = [request EXCEPT ![r].left = @ \ {u}]
    /\ UNCHANGED << PeerType, idempotent, ids, rows, dialogs, kafka, written,
                    history, failures >>

\* The lock is released only by who holds it.
Released(r, m) == IF lock[m] = r THEN [lock EXCEPT ![m] = Free] ELSE lock

\* A mutant: the answer is given and not kept.
AnswerNotKept(r) ==
    /\ request[r].pc = "sending" /\ request[r].left = {}
    /\ LET m == request[r].msg IN
         /\ told' = [told EXCEPT ![m] = @ \cup {request[r].copy}]
         /\ lock' = Released(r, m)
    /\ request' = [request EXCEPT ![r] = Idle]
    /\ UNCHANGED << PeerType, cached, ids, rows, dialogs, events, kafka,
                    written, history, failures >>

Answer(r) ==
    /\ request[r].pc = "sending" /\ request[r].left = {}
    /\ LET m == request[r].msg IN
         /\ cached' = [cached EXCEPT ![m] = request[r].copy]
         /\ told' = [told EXCEPT ![m] = @ \cup {request[r].copy}]
         /\ lock' = Released(r, m)
    /\ request' = [request EXCEPT ![r] = Idle]
    /\ UNCHANGED << PeerType, ids, rows, dialogs, events, kafka, written,
                    history, failures >>

\* Between users the error goes to the client and nothing is kept.  In a chat
\* the callback returns another variable, which is nil: the attempt counts as
\* successful and its answer is empty.
PublishFails(r) ==
    /\ request[r].pc = "sending" /\ request[r].left # {}
    /\ Fail("publish")
    /\ LET m == request[r].msg IN
         /\ lock' = Released(r, m)
         /\ \/ PeerType = "user" /\ UNCHANGED << cached, told >>
            \/ /\ PeerType = "chat"
               /\ cached' = [cached EXCEPT ![m] = Empty]
               /\ told' = [told EXCEPT ![m] = @ \cup {Empty}]
    /\ request' = [request EXCEPT ![r] = Idle]
    /\ UNCHANGED << PeerType, ids, rows, dialogs, events, kafka, written,
                    history >>

\* The process of a handler ends, while sending or reading.
CrashRequest(r) ==
    /\ request[r].pc # "idle"
    /\ Fail("request")
    /\ request' = [request EXCEPT ![r] = Idle]
    /\ UNCHANGED << PeerType, idempotent, ids, rows, dialogs, events, kafka,
                    written, history >>

\* Whoever holds the lock is still at it.
Busy(m) ==
    /\ lock[m] # Free
    /\ request[lock[m]].pc = "sending" /\ request[lock[m]].msg = m

\* After 5 s, whatever its holder is doing.
LockExpires(m) ==
    /\ lock[m] # Free
    /\ lock' = [lock EXCEPT ![m] = Free]
    /\ \/ Busy(m) /\ Fail("expire")
       \/ ~Busy(m) /\ UNCHANGED failures
    /\ UNCHANGED << PeerType, request, cached, told, ids, rows, dialogs,
                    events, kafka, written, history >>

\* After 90 s.
CacheExpires(m) ==
    /\ cached[m] # Nothing
    /\ Fail("expire")
    /\ cached' = [cached EXCEPT ![m] = Nothing]
    /\ UNCHANGED << PeerType, request, lock, told, ids, rows, dialogs, events,
                    kafka, written, history >>

-----------------------------------------------------------------------------
(***************************************************************************)
(* Reading: msg.readHistoryV2.                                             *)
(***************************************************************************)

\* A dialog is there once a message or a mark was written to it.
Exists(d) == d.top > 0 \/ d.readOutbox > 0

\* The handler reads the dialog; the client asks for a message it has heard
\* of, or for the top message.
Read(r, u) ==
    /\ request[r].pc = "idle"
    /\ reads < MaxReads[PeerType] /\ reads' = reads + 1
    /\ LET d == dialogs[u] IN
         /\ Exists(d)
         /\ \E maxId \in d.readInbox + 1 .. boxId[u] :
              request' = [request EXCEPT ![r] =
                 [pc |-> "reading", user |-> u, maxId |-> maxId,
                  unread |-> d.unread, readInbox |-> d.readInbox]]
    /\ UNCHANGED << PeerType, idempotent, ids, rows, dialogs, events, kafka,
                    written, readBy, failures >>

RowsWith(u, id) == { x \in rows : x.owner = u /\ x.id = id }

\* The message is not in the reader's box (yet).
NoSuchMessage(r) ==
    /\ request[r].pc = "reading"
    /\ RowsWith(request[r].user, request[r].maxId) = {}
    /\ request' = [request EXCEPT ![r] = Idle]
    /\ UNCHANGED << PeerType, idempotent, ids, rows, dialogs, events, kafka,
                    written, history, failures >>

\* The event for the reader's own dialog; that it is not published is ignored.
PublishReadInbox(r) ==
    /\ request[r].pc = "reading"
    /\ LET q == request[r] IN
       \E x \in RowsWith(q.user, q.maxId) :
         /\ \/ /\ Publish(q.user,
                     [kind |-> "readInbox", maxId |-> q.maxId,
                      unread |-> q.unread, readInbox |-> q.readInbox])
               /\ UNCHANGED failures
            \/ Fail("publish") /\ UNCHANGED events
         /\ request' = [request EXCEPT ![r] =
               [pc |-> "telling", user |-> q.user,
                from |-> x.from, copy |-> x.copy]]
         /\ readBy' = [readBy EXCEPT ![q.user] = @ \cup {x.copy}]
    /\ UNCHANGED << PeerType, idempotent, ids, rows, dialogs, kafka, written,
                    reads >>

\* The event for the dialog of the message's sender, who may be the reader.
PublishReadOutbox(r) ==
    /\ request[r].pc = "telling"
    /\ LET q == request[r] IN
         \/ /\ Publish(q.from, [kind |-> "readOutbox", reader |-> q.user,
                                copy |-> q.copy])
            /\ UNCHANGED failures
         \/ Fail("publish") /\ UNCHANGED events
    /\ request' = [request EXCEPT ![r] = Idle]
    /\ UNCHANGED << PeerType, idempotent, ids, rows, dialogs, kafka, written,
                    history >>

-----------------------------------------------------------------------------
(***************************************************************************)
(* The inbox consumer of a member's partition.                             *)
(***************************************************************************)
HasEvent(u, k) == next[u] <= Len(events[u]) /\ events[u][next[u]].kind = k

Current(u) == events[u][next[u]]

CopyOfStored(u, id) ==
    [owner |-> u, id |-> id, msg |-> Current(u).msg, copy |-> Current(u).copy,
     from |-> Current(u).from]

\* A mutant: a copy that is there is not inserted again, but counted again.
InsertInboxOnce(u) ==
    /\ HasEvent(u, "in") /\ written[u] = 0
    /\ boxId' = [boxId EXCEPT ![u] = @ + 1]
    /\ rows' = IF \E x \in rows : x.owner = u /\ x.copy = Current(u).copy
               THEN rows ELSE rows \cup {CopyOfStored(u, boxId[u] + 1)}
    /\ written' = [written EXCEPT ![u] = boxId[u] + 1]
    /\ UNCHANGED << PeerType, request, idempotent, copies, dialogs, events,
                    kafka, history, failures >>

\* The recipient's copy takes a new id each time the event is handled.
InsertInbox(u) ==
    /\ HasEvent(u, "in") /\ written[u] = 0
    /\ boxId' = [boxId EXCEPT ![u] = @ + 1]
    /\ rows' = rows \cup {CopyOfStored(u, boxId[u] + 1)}
    /\ written' = [written EXCEPT ![u] = boxId[u] + 1]
    /\ UNCHANGED << PeerType, request, idempotent, copies, dialogs, events,
                    kafka, history, failures >>

\* The sender's copy has its id from the handler; a copy that is there stays.
InsertOutbox(u) ==
    /\ HasEvent(u, "out") /\ written[u] = 0
    /\ \/ /\ rows' = IF RowsWith(u, Current(u).id) # {} THEN rows
                     ELSE rows \cup {CopyOfStored(u, Current(u).id)}
          /\ UNCHANGED failures
       \/ Fail("write") /\ UNCHANGED rows
    /\ written' = [written EXCEPT ![u] = Current(u).id]
    /\ UNCHANGED << PeerType, request, idempotent, ids, dialogs, events, kafka,
                    history >>

\* The handler ends, well or not; the next event follows.
Handled(u) == next' = [next EXCEPT ![u] = @ + 1] /\ UNCHANGED committed

\* The dialog is written, or the write fails, which is logged only.
Write(u, d) ==
    \/ dialogs' = [dialogs EXCEPT ![u] = d] /\ UNCHANGED failures
    \/ Fail("write") /\ UNCHANGED dialogs

\* A received message counts as unread.
CountUnread(u) ==
    /\ HasEvent(u, "in") /\ written[u] # 0
    /\ Write(u, [dialogs[u] EXCEPT !.top = written[u], !.unread = @ + 1])
    /\ written' = [written EXCEPT ![u] = 0]
    /\ Handled(u)
    /\ UNCHANGED << PeerType, request, idempotent, ids, rows, events,
                    history >>

\* Who sends a message has read the others'.
ClearUnread(u) ==
    /\ HasEvent(u, "out") /\ written[u] # 0
    /\ Write(u, [dialogs[u] EXCEPT !.top = written[u], !.unread = 0])
    /\ written' = [written EXCEPT ![u] = 0]
    /\ Handled(u)
    /\ UNCHANGED << PeerType, request, idempotent, ids, rows, events,
                    history >>

\* The copy of a received message is not written; its handler gives up.
InsertInboxFails(u) ==
    /\ HasEvent(u, "in") /\ written[u] = 0
    /\ Fail("write")
    /\ Handled(u)
    /\ UNCHANGED << PeerType, request, idempotent, ids, rows, dialogs, events,
                    written, history >>

\* Messages of others that u has, with ids after one and up to another.
FromOthers(u, first, last) ==
    { x \in rows : x.owner = u /\ x.from # u /\ first < x.id /\ x.id <= last }

\* A mutant: the difference may be negative.
StillUnreadOrLess(u, e) ==
    e.unread - Cardinality(FromOthers(u, e.readInbox, e.maxId))

\* What is still unread after reading up to maxId.
StillUnread(u, e) ==
    LET n == Cardinality(FromOthers(u, e.readInbox, e.maxId))
    IN  IF n < e.unread THEN e.unread - n ELSE 0

ReadUpTo(u, e, unread) ==
    [dialogs[u] EXCEPT !.readInbox = e.maxId, !.unread = unread]

\* CalcSizeByWhere returns no error: a query that fails counts nothing, and
\* the count as the handler saw it is written with the new mark.
HandleReadInbox(u) ==
    /\ HasEvent(u, "readInbox")
    /\ LET e == Current(u) IN
         \/ Write(u, ReadUpTo(u, e, StillUnread(u, e)))
         \/ /\ Fail("count")
            /\ dialogs' = [dialogs EXCEPT ![u] = ReadUpTo(u, e, e.unread)]
    /\ Handled(u)
    /\ UNCHANGED << PeerType, request, idempotent, ids, rows, events, written,
                    history >>

\* A mutant: the copy is looked for in the reader's box.
MarkedByReaderId(u, e) ==
    { x \in rows : x.owner = e.reader /\ x.copy = e.copy /\ e.reader # u }

\* The sender's own id of the message becomes the mark; only in a chat it has
\* to be later than the one that is there.  Between two users a message that
\* the reader sent itself concerns the dialog of the reader with itself.
Marked(u, e) ==
    { x \in rows : /\ x.owner = u /\ x.copy = e.copy
                   /\ \/ PeerType = "user" /\ e.reader # u
                      \/ PeerType = "chat" /\ dialogs[u].readOutbox < x.id }

HandleReadOutbox(u) ==
    /\ HasEvent(u, "readOutbox")
    /\ LET e == Current(u) IN
       \/ \E x \in Marked(u, e) :
            Write(u, [dialogs[u] EXCEPT !.readOutbox = x.id])
       \/ Marked(u, e) = {} /\ UNCHANGED << dialogs, failures >>
    /\ Handled(u)
    /\ UNCHANGED << PeerType, request, idempotent, ids, rows, events, written,
                    history >>

\* A mutant: the offset of the event in progress may be committed, too.
CrashConsumerEarly(u) ==
    /\ Fail("consumer")
    /\ \E k \in committed[u] .. next[u] :
         committed' = [committed EXCEPT ![u] = k] /\ next' = [next EXCEPT ![u] = k + 1]
    /\ written' = [written EXCEPT ![u] = 0]
    /\ UNCHANGED << PeerType, request, idempotent, ids, rows, dialogs, events,
                    history >>

\* A consumer starts again after the offset committed last, which may be that
\* of any event handled since the last time.
CrashConsumer(u) ==
    /\ Fail("consumer")
    /\ \E k \in committed[u] .. next[u] - 1 :
         committed' = [committed EXCEPT ![u] = k] /\ next' = [next EXCEPT ![u] = k + 1]
    /\ written' = [written EXCEPT ![u] = 0]
    /\ UNCHANGED << PeerType, request, idempotent, ids, rows, dialogs, events,
                    history >>

-----------------------------------------------------------------------------
Next ==
    \/ \E r \in Requests :
         \/ \E m \in Messages : Send(r, m) \/ SendAgain(r, m)
         \/ \E u \in Members : PublishMessage(r, u) \/ Read(r, u)
         \/ Answer(r) \/ PublishFails(r) \/ CrashRequest(r)
         \/ NoSuchMessage(r) \/ PublishReadInbox(r) \/ PublishReadOutbox(r)
    \/ \E m \in Messages : LockExpires(m) \/ CacheExpires(m)
    \/ \E u \in Members :
         \/ InsertInbox(u) \/ InsertInboxFails(u) \/ CountUnread(u)
         \/ InsertOutbox(u) \/ ClearUnread(u)
         \/ HandleReadInbox(u) \/ HandleReadOutbox(u)
         \/ CrashConsumer(u)

Spec == Init /\ [][Next]_vars

-----------------------------------------------------------------------------
(***************************************************************************)
(* Properties.                                                             *)
(***************************************************************************)
Copies == 1 .. MaxCopies

SendingType == [pc : {"sending"}, msg : Messages, copy : Copies,
                id : Nat \ {0}, left : SUBSET Members]
ReadingType == [pc : {"reading"}, user : Members, maxId : Nat \ {0},
                unread : Nat, readInbox : Nat]
TellingType == [pc : {"telling"}, user : Members, from : Members,
                copy : Copies]
RequestType == {Idle} \cup SendingType \cup ReadingType \cup TellingType

MessageEventType == [kind : {"out", "in"}, msg : Messages, from : Members,
                     copy : Copies, id : Nat \ {0}]
ReadInboxType == [kind : {"readInbox"}, maxId : Nat \ {0}, unread : Nat,
                  readInbox : Nat]
ReadOutboxType == [kind : {"readOutbox"}, reader : Members, copy : Copies]
EventType == MessageEventType \cup ReadInboxType \cup ReadOutboxType

RowType == [owner : Members, id : Nat \ {0}, msg : Messages, copy : Copies,
            from : Members]

\* Every variable has its type; no counter of a dialog is negative.
TypeOK ==
    /\ PeerType \in PeerTypes
    /\ request \in [Requests -> RequestType]
    /\ lock \in [Messages -> Requests \cup {Free}]
    /\ cached \in [Messages -> Answers]
    /\ told \in [Messages -> SUBSET (Answers \ {Nothing})]
    /\ copies \in Nat /\ copies <= MaxCopies
    /\ boxId \in [Members -> Nat]
    /\ rows \subseteq RowType
    /\ dialogs \in [Members -> [top : Nat, unread : Nat, readInbox : Nat,
                                readOutbox : Nat]]
    /\ events \in [Members -> Seq(EventType)]
    /\ next \in [Members -> Nat \ {0}] /\ committed \in [Members -> Nat]
    /\ written \in [Members -> Nat]
    /\ reads \in Nat /\ readBy \in [Members -> SUBSET Copies]
    /\ faults \in Nat /\ failed \subseteq FailureKinds

CopiesIn(u, m) == { x \in rows : x.owner = u /\ x.msg = m }

\* However often a client repeats a message, also while an earlier attempt is
\* going on, there is one copy of it in the sender's box unless an attempt
\* broke off or its lock or answer expired; a consumer that handles events
\* again does not add one.  There is one in each recipient's box, too, unless
\* a consumer did that ("TODO: process duplicate").
OneCopy ==
    \A m \in Messages :
        /\ failed \cap {"publish", "request", "expire"} = {} =>
                Cardinality(CopiesIn(Sender[m], m)) <= 1
        /\ failed \cap {"publish", "request", "expire", "consumer"} = {} =>
                \A u \in Members : Cardinality(CopiesIn(u, m)) <= 1

\* A client that repeats a request gets the answer it would have got, also
\* after attempts that failed half way, as long as no lock or answer expires.
SameAnswer ==
    \A m \in Messages : "expire" \notin failed => Cardinality(told[m]) <= 1

\* Messages that u has from others and that its read mark does not cover.
Unseen(u, mark) == { x \in rows : x.owner = u /\ x.from # u /\ mark < x.id }

\* A dialog never claims more unread messages than there are after its read
\* mark, although the count is carried through an event that other messages,
\* own messages, other reads and repetitions overtake, unless the consumer's
\* query of what was read failed (inbox.readInboxHistory_handler.go:42-47).
UnreadNotTooHigh ==
    "count" \in failed \/
        \A u \in Members :
            dialogs[u].unread <= Cardinality(Unseen(u, dialogs[u].readInbox))

\* The mark up to which others have read a member's messages is the member's
\* own id of one of its messages, which a member has read up to; between two
\* users it is the other.
ReadMarkReal ==
    \A u \in Members :
        dialogs[u].readOutbox # 0 =>
            \E x \in RowsWith(u, dialogs[u].readOutbox) :
                /\ x.from = u
                /\ \E v \in Members :
                     /\ PeerType = "user" => v # u
                     /\ x.copy \in readBy[v]

\* A copy that u has, or that an event not handled yet brings.
Has(u, c) == \E x \in rows : x.owner = u /\ x.copy = c

OnItsWay(u, c) ==
    \E i \in next[u] .. Len(events[u]) :
        events[u][i].kind \in {"in", "out"} /\ events[u][i].copy = c

\* A message that its client was told is sent is in every member's box or on
\* its way to it, whatever consumers restart and wherever, unless the database
\* refused a write.  (The empty answer of a chat tells of no message.)
NotLost ==
    \A m \in Messages : \A c \in told[m] \ {Empty} : \A u \in Members :
        "write" \in failed \/ Has(u, c) \/ OnItsWay(u, c)
=============================================================================
