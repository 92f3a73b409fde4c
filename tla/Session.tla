------------------------------- MODULE Session -------------------------------
(***************************************************************************)
(* One MTProto session of the session service                              *)
(* (app/interface/session/internal/sess): the inbound window that          *)
(* de-duplicates client messages, the outgoing queue that keeps answers    *)
(* and pushes until the client acknowledges them, the queue of deferred    *)
(* RPC results, and the two goroutines that work on them: runLoop, which   *)
(* handles one event at a time, and rpcRunLoop, which executes the         *)
(* requests runLoop hands to it.                                           *)
(*                                                                         *)
(* runLoop handles a client packet to its end before it takes another      *)
(* event.  A packet may carry several messages (a container), so its       *)
(* handler is a run of actions: OnSessionData, one action per message,     *)
(* EndOfPacket.  While handling is TRUE only these and rpcRunLoop move.    *)
(*                                                                         *)
(* The client is arbitrary: it may send any packet of Packets again, in    *)
(* any order, and may acknowledge any server message that reached it.      *)
(***************************************************************************)
EXTENDS Integers, Sequences, FiniteSets

CONSTANTS
    MsgIds,        \* client msg_ids, in the order of their creation
    Kind,          \* Kind[id]: what the message with that msg_id asks for
    Packets,       \* what the client may send: [outer, container, inner]
    Deferred,      \* requests whose RPC may answer NOTRETURN_CLIENT
    Gateways,      \* gateway servers
    NoGateway,     \* the empty gatewayId
    FirstMid,      \* the first server msg_id
    MaxQueueSize,  \* maxQueueSize, 400 in the code
    Split,         \* messages per container sent to the gateway, 16 in the code
    MaxInputs      \* bound: packets, pushes and connection events

Kinds == { "ack",            \* msgs_ack
           "service",        \* answered at once by a message that needs no ack
           "answerNow",      \* answered at once by an rpc_result
           "ignored",        \* nothing happens but the registration of the id
           "allInfo",        \* msgs_all_info
           "resendReq",      \* msg_resend_req
           "bind",           \* auth.bindTempAuthKey
           "getDifference",  \* updates.getState / getDifference
           "api" }           \* every other RPC request

RpcKinds == { "bind", "getDifference", "api" }

\* Kinds whose answer is an rpc_result, which the client must acknowledge.
ResultKinds == RpcKinds \cup { "answerNow" }

Packet == [outer : MsgIds, container : BOOLEAN, inner : Seq(MsgIds)]

ASSUME MsgIdsAssumption ==
    /\ FirstMid \in Nat
    /\ MsgIds \subseteq 1 .. FirstMid - 1

ASSUME KindAssumption == Kind \in [MsgIds -> Kinds]

\* checkContainer refuses a container with an id at or above its own.
ASSUME PacketsAssumption ==
    /\ Packets \subseteq Packet
    /\ \A p \in Packets : IF p.container
                          THEN \A i \in 1 .. Len(p.inner) : p.inner[i] < p.outer
                          ELSE p.inner = << p.outer >>

ASSUME BoundsAssumption ==
    /\ NoGateway \notin Gateways
    /\ Deferred \subseteq MsgIds
    /\ MaxQueueSize \in Nat \ {0}
    /\ Split \in Nat \ {0}
    /\ MaxInputs \in Nat

VARIABLES
    inQueue,        \* sessionInboundQueue: the state of each stored msg_id
    minMsgId, maxMsgId,  \* its bounds
    outQueue,       \* sessionOutgoingQueue, oldest first by mid
    pendingQueue,   \* how often each id waits in sessionRpcResultWaitingQueue
    gatewayId, connState, sessionState, firstMsgId, canSync,
    listState,      \* SessionList.state
    handling,       \* runLoop is inside onSessionMessageData
    todo,           \* the messages of that packet not handled yet
    tmpRpcApiMessageList,
    rpcQueue,       \* from runLoop to rpcRunLoop
    rpcDataChan,    \* from rpcRunLoop to runLoop
    late,           \* deferred results another service still has to push
    nextMid,        \* nextMessageId
    inputs,         \* events taken from outside, bounded by MaxInputs
    \* History of the session; no action reads it.
    dispatched,     \* how often each request was handed to rpcRunLoop
    answers,        \* how many answers each message was given
    acked,          \* ids with an answer that the client acknowledged
    shed,           \* ids with an answer that outQueue dropped when full
    forgotten,      \* ids that inQueue dropped when full
    deferred        \* requests that answered NOTRETURN_CLIENT

inq   == << inQueue, minMsgId, maxMsgId >>
conn  == << gatewayId, connState >>
sess  == << sessionState, firstMsgId >>
sync  == << canSync, listState >>
rpc   == << rpcQueue, rpcDataChan, late >>
hist  == << dispatched, answers, acked, shed, forgotten, deferred >>
vars  == << inq, outQueue, pendingQueue, conn, sess, sync, handling, todo,
            tmpRpcApiMessageList, rpc, nextMid, inputs, hist >>

-----------------------------------------------------------------------------
(* sessionInboundQueue.  The list is sorted by msg_id and holds each id     *)
(* once, so a function from the ids to their states is all there is to it;  *)
(* an id that is not in the list is ABSENT.                                 *)

\* The state byte of a stored message; a comment gives the bits.
InStates == { "NONE",          \* 0
              "NO_ACK",        \* RECEIVED | NEED_NO_ACK
              "PROCESSING",    \* RECEIVED | RPC_PROCESSING
              "GENERATED",     \* RECEIVED | RESPONSE_GENERATED
              "ACKNOWLEDGED",  \* RECEIVED | ACKNOWLEDGED
              "RESPONSE_ACKNOWLEDGED" }

Stored == { id \in MsgIds : inQueue[id] # "ABSENT" }

\* AddMsgId, after which the handler gives the message state s.
AddMsgId(id, s) ==
    /\ inQueue' = [inQueue EXCEPT ![id] = s]
    /\ minMsgId' = IF id \notin Stored /\ id < minMsgId THEN id ELSE minMsgId
    /\ maxMsgId' = IF id \notin Stored /\ id > maxMsgId THEN id ELSE maxMsgId

\* The state AddMsgId leaves a message in that its handler does not touch.
Untouched(id) == IF id \in Stored THEN inQueue[id] ELSE "NONE"

ChangeAckReceived(ids) ==
    inQueue' = [id \in MsgIds |-> IF id \in ids \cap Stored
                                  THEN "RESPONSE_ACKNOWLEDGED" ELSE inQueue[id]]

\* The ids Shrink pops: all but the MaxQueueSize largest.
Evicted ==
    { id \in Stored : Cardinality({ j \in Stored : j > id }) >= MaxQueueSize }

\* Ids are popped in ascending order; the last one becomes the minimum.
ShrinkIn ==
    /\ inQueue' = [id \in MsgIds |-> IF id \in Evicted THEN "ABSENT"
                                     ELSE inQueue[id]]
    /\ minMsgId' = IF Evicted = {} THEN minMsgId
                   ELSE CHOOSE m \in Evicted : \A j \in Evicted : j <= m
    /\ UNCHANGED maxMsgId

\* The status byte that msgs_state_req reports for an id.
StateInfo(id) ==
    IF id < minMsgId THEN "UNKNOWN"
    ELSE IF id > maxMsgId THEN "NOT_RECEIVED_SURE"
    ELSE IF id \notin Stored THEN "NOT_RECEIVED"
    ELSE inQueue[id]

-----------------------------------------------------------------------------
(* sessionOutgoingQueue.  Entries are appended with a fresh server msg_id,  *)
(* so a set ordered by mid is the list.  id is the client msg_id that is    *)
(* answered, or 0 for a push or a notification (whose own id is fresh and   *)
(* below 2^31).  sent is the time of the last confirmed sending: none, less *)
(* than waitMsgAcksTimeout ago, or longer ago.  reached tells whether a     *)
(* copy has reached the client, which no code of the server knows.          *)

OutboxMsg == [mid : Nat, id : MsgIds \cup {0}, ack : BOOLEAN,
              sent : {"no", "waiting", "expired"}, reached : BOOLEAN]

Entry(mid, id, ack) ==
    [mid |-> mid, id |-> id, ack |-> ack, sent |-> "no", reached |-> FALSE]

Lookup(q, id) == { o \in q : o.id = id }

ShrinkOut(q) ==
    { o \in q : Cardinality({ p \in q : p.mid > o.mid }) < MaxQueueSize }

AddRpcResultMsg(q, id) ==
    IF Lookup(q, id) # {} THEN q ELSE q \cup { Entry(nextMid, id, TRUE) }

AddNotifyMsg(q, id, confirm) == q \cup { Entry(nextMid, id, confirm) }

\* A mutant of OnMsgsAckQueue: an acknowledgement is taken for everything
\* that was sent before.
OnMsgsAckCumulative(q, mids) == { o \in q : \A mid \in mids : o.mid > mid }

\* What is left of q once the client acknowledged the server messages mids.
OnMsgsAckQueue(q, mids) == { o \in q : o.mid \notin mids }

\* Remove deletes the oldest entry with the id it is given, once for every
\* entry of batch that needs no acknowledgement.
Removed(q, batch) ==
    { o \in q : Cardinality({ p \in q : p.id = o.id /\ p.mid < o.mid })
                  < Cardinality({ m \in batch : m.id = o.id /\ ~m.ack }) }

\* A mutant of updatePendingStates: what was sent is done.
updateByRemoving(q, batch) == q \ batch

updatePendingStates(q, batch) ==
    { IF o \in batch /\ o.ack THEN [o EXCEPT !.sent = "waiting"] ELSE o
        : o \in q \ Removed(q, batch) }

-----------------------------------------------------------------------------
(* Sending.                                                                 *)

\* Pushes wait for the difference only while the list is in state Normal.
HeldBack(o, maysync) == ~maysync /\ o.id = 0 /\ listState = "Normal"

Pendings(q, maysync) ==
    { o \in q : o.sent # "waiting" /\ ~HeldBack(o, maysync) }

\* The number of the container that o travels in.
BatchOf(pending, o) == Cardinality({ p \in pending : p.mid < o.mid }) \div Split

InBatches(pending, bs) == { p \in pending : BatchOf(pending, p) \in bs }

\* q once the entries arrived have reached the client and the gateway has
\* confirmed the entries ok.  It confirms as soon as it has submitted the
\* write: what is confirmed may be lost, and an entry that needs no
\* acknowledgement is removed all the same.
Sent(q, arrived, ok) ==
    { IF \E p \in arrived : p.mid = o.mid
      THEN [o EXCEPT !.reached = TRUE] ELSE o : o \in updatePendingStates(q, ok) }

\* What sending may make of q.  A container reaches the client or not, and,
\* whether it does or not, the gateway confirms it or the call fails; the
\* entries are updated only if it is confirmed.
sendQueueToGateway(q, maysync) ==
    LET pending == Pendings(q, maysync)
        batches == { BatchOf(pending, o) : o \in pending }
    IN  IF gatewayId = NoGateway \/ connState # "Online" THEN { q }
        ELSE { Sent(q, InBatches(pending, through), InBatches(pending, ok)) :
                 through \in SUBSET batches, ok \in SUBSET batches }

-----------------------------------------------------------------------------
Init ==
    /\ inQueue = [id \in MsgIds |-> "ABSENT"]
    /\ minMsgId = 0
    /\ maxMsgId = 0
    /\ outQueue = {}
    /\ pendingQueue = [id \in MsgIds |-> 0]
    /\ gatewayId = NoGateway
    /\ connState = "New"
    /\ sessionState = "New"
    /\ firstMsgId = 0
    /\ canSync = FALSE
    /\ listState = "None"
    /\ handling = FALSE
    /\ todo = << >>
    /\ tmpRpcApiMessageList = << >>
    /\ rpcQueue = << >>
    /\ rpcDataChan = << >>
    /\ late = {}
    /\ nextMid = FirstMid
    /\ inputs = 0
    /\ dispatched = [id \in MsgIds |-> 0]
    /\ answers = [id \in MsgIds |-> 0]
    /\ acked = {}
    /\ shed = {}
    /\ forgotten = {}
    /\ deferred = {}

\* runLoop takes an event from outside.
TakeInput == /\ ~handling
             /\ inputs < MaxInputs
             /\ inputs' = inputs + 1

onSessionConnNew(g) == gatewayId' = g /\ connState' = "Online"

\* The gateway reports a connection of this session.
OnSessionNew(g) ==
    /\ TakeInput
    /\ onSessionConnNew(g)
    /\ sessionState' = "New"
    /\ UNCHANGED << inq, outQueue, pendingQueue, firstMsgId, sync, handling,
                    todo, tmpRpcApiMessageList, rpc, nextMid, hist >>

\* The gateway reports that a connection is gone.
OnSessionClosed(g) ==
    /\ TakeInput
    /\ IF gatewayId = g
       THEN gatewayId' = NoGateway /\ connState' = "Offline"
       ELSE UNCHANGED conn
    /\ UNCHANGED << inq, outQueue, pendingQueue, sess, sync, handling, todo,
                    tmpRpcApiMessageList, rpc, nextMid, hist >>

\* A packet with a bad salt or a bad outer msg_id is only answered directly.
OnSessionDataRefused(g) ==
    /\ TakeInput
    /\ onSessionConnNew(g)
    /\ UNCHANGED << inq, outQueue, pendingQueue, sess, sync, handling, todo,
                    tmpRpcApiMessageList, rpc, nextMid, hist >>

\* A mutant of EnqueueAndShrink: two messages get the same server msg_id.
EnqueueWithSameMid(q) ==
    /\ UNCHANGED nextMid
    /\ shed' = shed \cup { o.id : o \in q \ ShrinkOut(q) }

\* The entries ShrinkOut drops from q are answers that are lost for good.
EnqueueAndShrink(q) ==
    /\ nextMid' = nextMid + 1
    /\ shed' = shed \cup { o.id : o \in q \ ShrinkOut(q) }

MinMsgId(p) ==
    LET ids == { p.outer } \cup { p.inner[i] : i \in 1 .. Len(p.inner) }
    IN  CHOOSE m \in ids : \A j \in ids : m <= j

\* An accepted packet arrives: its handler starts.  new_session_created is
\* sent at once and also queued, as not sent yet.
OnSessionData(g, p) ==
    /\ TakeInput
    /\ onSessionConnNew(g)
    /\ IF p.container THEN AddMsgId(p.outer, Untouched(p.outer)) ELSE UNCHANGED inq
    /\ IF sessionState = "New" \/ firstMsgId = 0 \/ MinMsgId(p) < firstMsgId
       THEN /\ sessionState' = "Created"
            /\ firstMsgId' = MinMsgId(p)
            /\ \E r \in BOOLEAN :
                 LET q == outQueue \cup
                            { [Entry(nextMid, 0, TRUE) EXCEPT !.reached = r] }
                 IN  outQueue' = ShrinkOut(q) /\ EnqueueAndShrink(q)
       ELSE UNCHANGED << sess, outQueue, nextMid, shed >>
    /\ handling' = TRUE
    /\ todo' = p.inner
    /\ UNCHANGED << pendingQueue, sync, tmpRpcApiMessageList, rpc, dispatched,
                    answers, acked, forgotten, deferred >>

-----------------------------------------------------------------------------
(* The messages of a packet.                                                *)

\* The next message of the packet passes the checks of the loop.
Current(id) == /\ handling
               /\ todo # << >>
               /\ id = Head(todo)
               /\ id >= firstMsgId
               /\ todo' = Tail(todo)

\* A message below firstMsgId, or too old for a window that has moved past it.
SkipMessage ==
    /\ handling
    /\ todo # << >>
    /\ \E low \in { firstMsgId, minMsgId } : Head(todo) < low
    /\ todo' = Tail(todo)
    /\ UNCHANGED << inq, outQueue, pendingQueue, conn, sess, sync, handling,
                    tmpRpcApiMessageList, rpc, nextMid, inputs, hist >>

\* A message that was handled before is not handled again (a large answer is
\* announced by msg_detailed_info, which is sent directly).
DuplicateMessage(id) ==
    /\ Current(id)
    /\ Kind[id] # "ack"
    /\ inQueue[id] \notin { "ABSENT", "NONE" }
    /\ UNCHANGED << inq, outQueue, pendingQueue, conn, sess, sync, handling,
                    tmpRpcApiMessageList, rpc, nextMid, inputs, hist >>

\* A mutant of Fresh: the state of the message is not looked at.
FreshOrNot(id) == Current(id)

\* The message is new to the window: processMsg.
Fresh(id) == /\ Current(id)
             /\ inQueue[id] \in { "ABSENT", "NONE" }

\* The client acknowledges some of the server messages it got.
OnMsgsAck(id) ==
    /\ Current(id)
    /\ Kind[id] = "ack"
    /\ \E got \in SUBSET { o \in outQueue : o.reached } :
         LET ids == { o.id : o \in got } \ {0}
         IN  /\ outQueue' = OnMsgsAckQueue(outQueue, { o.mid : o \in got })
             /\ ChangeAckReceived(ids)
             /\ acked' = acked \cup ids
    /\ UNCHANGED << minMsgId, maxMsgId, pendingQueue, conn, sess, sync, handling,
                    tmpRpcApiMessageList, rpc, nextMid, inputs, dispatched,
                    answers, shed, forgotten, deferred >>

\* A message that cannot be decoded, or whose handler fails: its id stays in
\* the window in state NONE.
OnIgnored(id) ==
    /\ Fresh(id)
    /\ Kind[id] = "ignored"
    /\ AddMsgId(id, "NONE")
    /\ UNCHANGED << outQueue, pendingQueue, conn, sess, sync, handling,
                    tmpRpcApiMessageList, rpc, nextMid, inputs, hist >>

\* ping, ping_delay_disconnect, destroy_session, get_future_salts and
\* msgs_state_req: the reply needs no acknowledgement.
OnServiceMessage(id) ==
    /\ Fresh(id)
    /\ Kind[id] = "service"
    /\ LET q == AddNotifyMsg(outQueue, id, FALSE)
       IN  outQueue' = ShrinkOut(q) /\ EnqueueAndShrink(q)
    /\ AddMsgId(id, "NO_ACK")
    /\ UNCHANGED << pendingQueue, conn, sess, sync, handling,
                    tmpRpcApiMessageList, rpc, inputs, dispatched, answers,
                    acked, forgotten, deferred >>

\* One more answer to id is queued, unless one is queued already.
sendRpcResultToQueue(id) ==
    /\ EnqueueAndShrink(AddRpcResultMsg(outQueue, id))
    /\ answers' = [answers EXCEPT ![id] =
                     IF Lookup(outQueue, id) # {} THEN @ ELSE @ + 1]

\* rpc_drop_answer and destroy_auth_key.
OnAnswerNow(id) ==
    /\ Fresh(id)
    /\ Kind[id] = "answerNow"
    /\ sendRpcResultToQueue(id)
    /\ outQueue' = ShrinkOut(AddRpcResultMsg(outQueue, id))
    /\ AddMsgId(id, "ACKNOWLEDGED")
    /\ UNCHANGED << pendingQueue, conn, sess, sync, handling,
                    tmpRpcApiMessageList, rpc, inputs, dispatched, acked,
                    forgotten, deferred >>

\* A mutant of OnRpcRequestDenied: it goes on after the error.
OnRpcRequestDeniedGoesOn(id) ==
    /\ Fresh(id)
    /\ Kind[id] \in RpcKinds
    /\ canSync' = (canSync /\ Kind[id] # "getDifference")
    /\ sendRpcResultToQueue(id)
    /\ outQueue' = ShrinkOut(AddRpcResultMsg(outQueue, id))
    /\ AddMsgId(id, "PROCESSING")
    /\ tmpRpcApiMessageList' = Append(tmpRpcApiMessageList, id)
    /\ dispatched' = [dispatched EXCEPT ![id] = @ + 1]
    /\ UNCHANGED << pendingQueue, conn, sess, listState, handling, rpc, inputs,
                    acked, forgotten, deferred >>

\* A request that the authorization state does not allow.
OnRpcRequestDenied(id) ==
    /\ Fresh(id)
    /\ Kind[id] \in RpcKinds
    /\ canSync' = (canSync /\ Kind[id] # "getDifference")
    /\ sendRpcResultToQueue(id)
    /\ outQueue' = ShrinkOut(AddRpcResultMsg(outQueue, id))
    /\ AddMsgId(id, "GENERATED")
    /\ UNCHANGED << pendingQueue, conn, sess, listState, handling,
                    tmpRpcApiMessageList, rpc, inputs, dispatched, acked,
                    forgotten, deferred >>

\* A request that is handed to rpcRunLoop at the end of the packet.
OnRpcRequest(id) ==
    /\ Fresh(id)
    /\ Kind[id] \in RpcKinds
    /\ canSync' = (canSync /\ Kind[id] # "getDifference")
    /\ AddMsgId(id, "PROCESSING")
    /\ tmpRpcApiMessageList' = Append(tmpRpcApiMessageList, id)
    /\ dispatched' = [dispatched EXCEPT ![id] = @ + 1]
    /\ UNCHANGED << outQueue, pendingQueue, conn, sess, listState, handling,
                    rpc, nextMid, inputs, answers, acked, shed, forgotten,
                    deferred >>

Resent(q, arrived, ok) ==
    { [o EXCEPT !.sent = IF o \in ok THEN "waiting" ELSE @,
                !.reached = @ \/ o \in arrived] : o \in q }

\* What q may become when the client asks for ids: Lookup finds the newest
\* entry that answers an id; it is sent, and updated if the gateway confirms.
Resend(q, ids) ==
    LET found == { o \in q : /\ o.id \in ids
                             /\ \A p \in Lookup(q, o.id) : p.mid <= o.mid }
    IN  { Resent(q, through, ok) : through \in SUBSET found, ok \in SUBSET found }

\* The client tells which server messages it got and which are missing.
OnMsgsAllInfo(id) ==
    /\ Fresh(id)
    /\ Kind[id] = "allInfo"
    /\ AddMsgId(id, "NO_ACK")
    /\ \E got \in SUBSET { o \in outQueue : o.reached } :
       \E missing \in SUBSET (outQueue \ got) :
         LET mids == { o.mid : o \in missing }
         IN  /\ outQueue' \in Resend(
                   OnMsgsAckQueue(outQueue, { o.mid : o \in got }), mids)
             /\ acked' = acked \cup ({ o.id : o \in got } \ {0})
    /\ UNCHANGED << pendingQueue, conn, sess, sync, handling,
                    tmpRpcApiMessageList, rpc, nextMid, inputs, dispatched,
                    answers, shed, forgotten, deferred >>

\* The client asks for messages again: by the msg_id of one of its own
\* messages it is sent the answer again, by any other it is told the status.
OnMsgResendReq(id) ==
    /\ Fresh(id)
    /\ Kind[id] = "resendReq"
    /\ \E asked \in MsgIds \cup { o.mid : o \in outQueue } :
         IF asked \in Stored \cup {id}
         THEN /\ outQueue' \in Resend(outQueue, {asked})
              /\ AddMsgId(id, "NONE")
              /\ UNCHANGED << nextMid, shed >>
         ELSE LET out == AddNotifyMsg(outQueue, id, FALSE) IN
              /\ outQueue' = ShrinkOut(out)
              /\ EnqueueAndShrink(out)
              /\ AddMsgId(id, "NO_ACK")
    /\ UNCHANGED << pendingQueue, conn, sess, sync, handling,
                    tmpRpcApiMessageList, rpc, inputs, dispatched, answers,
                    acked, forgotten, deferred >>

\* The deferred part of onSessionMessageData.
EndOfPacket ==
    /\ handling
    /\ todo = << >>
    /\ rpcQueue' = rpcQueue \o tmpRpcApiMessageList
    /\ tmpRpcApiMessageList' = << >>
    /\ outQueue' \in sendQueueToGateway(outQueue, canSync)
    /\ ShrinkIn
    /\ forgotten' = forgotten \cup Evicted
    /\ handling' = FALSE
    /\ UNCHANGED << pendingQueue, conn, sess, sync, todo, rpcDataChan, late,
                    nextMid, inputs, dispatched, answers, acked, shed, deferred >>

-----------------------------------------------------------------------------
(* RPC results.                                                             *)

\* rpcRunLoop executes the next request.  A service that answers
\* NOTRETURN_CLIENT pushes the result itself, later.
RpcRunLoop ==
    /\ rpcQueue # << >>
    /\ rpcQueue' = Tail(rpcQueue)
    /\ LET id == Head(rpcQueue) IN
       \/ /\ rpcDataChan' = Append(rpcDataChan, [id |-> id, notReturn |-> FALSE])
          /\ UNCHANGED late
       \/ /\ id \in Deferred
          /\ rpcDataChan' = Append(rpcDataChan, [id |-> id, notReturn |-> TRUE])
          /\ late' = late \cup {id}
    /\ UNCHANGED << inq, outQueue, pendingQueue, conn, sess, sync, handling,
                    todo, tmpRpcApiMessageList, nextMid, inputs, hist >>

\* An answer to an id that the window has dropped is dropped too.
sendRpcResult(id) ==
    IF id \in Stored
    THEN sendRpcResultToQueue(id) /\ AddMsgId(id, "ACKNOWLEDGED")
    ELSE UNCHANGED << inq, nextMid, answers, shed >>

\* What sendRpcResult may make of outQueue: the queue is sent at once.
QueuesAfterResult(id) ==
    IF id \in Stored
    THEN sendQueueToGateway(ShrinkOut(AddRpcResultMsg(outQueue, id)), canSync)
    ELSE { outQueue }

\* A mutant of OnRpcResultNotReturn: nobody waits for the result.
OnRpcResultNotReturnDropped ==
    /\ ~handling
    /\ rpcDataChan # << >>
    /\ Head(rpcDataChan).notReturn
    /\ rpcDataChan' = Tail(rpcDataChan)
    /\ deferred' = deferred \cup { Head(rpcDataChan).id }
    /\ UNCHANGED << inq, outQueue, pendingQueue, conn, sess, sync, handling, todo,
                    tmpRpcApiMessageList, rpcQueue, late, nextMid, inputs,
                    dispatched, answers, acked, shed, forgotten >>

\* runLoop takes a result that says the real one comes later.
OnRpcResultNotReturn ==
    /\ ~handling
    /\ rpcDataChan # << >>
    /\ Head(rpcDataChan).notReturn
    /\ rpcDataChan' = Tail(rpcDataChan)
    /\ pendingQueue' = [pendingQueue EXCEPT ![Head(rpcDataChan).id] = @ + 1]
    /\ deferred' = deferred \cup { Head(rpcDataChan).id }
    /\ UNCHANGED << inq, outQueue, conn, sess, sync, handling, todo,
                    tmpRpcApiMessageList, rpcQueue, late, nextMid, inputs,
                    dispatched, answers, acked, shed, forgotten >>

\* runLoop takes a result.  After the difference the queue is sent once more.
OnRpcResult ==
    /\ ~handling
    /\ rpcDataChan # << >>
    /\ ~Head(rpcDataChan).notReturn
    /\ rpcDataChan' = Tail(rpcDataChan)
    /\ LET id == Head(rpcDataChan).id IN
       /\ canSync' = (canSync \/ Kind[id] = "getDifference")
       /\ listState' \in IF Kind[id] = "bind" THEN { listState, "PermBound" }
                         ELSE { listState }
       /\ sendRpcResult(id)
       /\ \E q \in QueuesAfterResult(id) :
            outQueue' \in IF Kind[id] = "getDifference"
                          THEN sendQueueToGateway(q, TRUE) ELSE { q }
    /\ UNCHANGED << pendingQueue, conn, sess, handling, todo,
                    tmpRpcApiMessageList, rpcQueue, late, inputs, dispatched,
                    acked, forgotten, deferred >>

\* A mutant of OnSyncRpcResultData: the result is expected to be waited for.
OnSyncRpcResultDataAwaited(id) ==
    /\ ~handling
    /\ id \in late
    /\ late' = late \ {id}
    /\ pendingQueue' = [pendingQueue EXCEPT ![id] = @ - 1]
    /\ sendRpcResultToQueue(id)
    /\ outQueue' = ShrinkOut(AddRpcResultMsg(outQueue, id))
    /\ UNCHANGED << inq, conn, sess, sync, handling, todo,
                    tmpRpcApiMessageList, rpcQueue, rpcDataChan, inputs,
                    dispatched, acked, forgotten, deferred >>

\* The pushed result of a deferred request arrives.  It is queued without a
\* look at inQueue, and sent with the next sending.
OnSyncRpcResultData(id) ==
    /\ ~handling
    /\ id \in late
    /\ late' = late \ {id}
    /\ pendingQueue' = [pendingQueue EXCEPT ![id] = IF @ > 0 THEN @ - 1 ELSE @]
    /\ sendRpcResultToQueue(id)
    /\ outQueue' = ShrinkOut(AddRpcResultMsg(outQueue, id))
    /\ UNCHANGED << inq, conn, sess, sync, handling, todo,
                    tmpRpcApiMessageList, rpcQueue, rpcDataChan, inputs,
                    dispatched, acked, forgotten, deferred >>

-----------------------------------------------------------------------------
(* Pushes and time.                                                         *)

\* An update for this session is queued and, if possible, sent.
OnSyncData ==
    /\ TakeInput
    /\ LET q == AddNotifyMsg(outQueue, 0, TRUE)
       IN  /\ EnqueueAndShrink(q)
           /\ outQueue' \in sendQueueToGateway(ShrinkOut(q), canSync)
    /\ UNCHANGED << inq, pendingQueue, conn, sess, sync, handling, todo,
                    tmpRpcApiMessageList, rpc, dispatched, answers, acked,
                    forgotten, deferred >>

\* A mutant of EndOfTick: an online session sends nothing.
EndOfTickSilent(q) ==
    /\ outQueue' = q
    /\ connState' \in IF connState = "Online" THEN { "Online", "Offline" }
                      ELSE { connState, "Close" }

\* The end of a tick: an online session sends its queue q once more, or goes
\* offline for lack of traffic; an offline one closes after a longer time.
EndOfTick(q) ==
    \/ /\ connState = "Online"
       /\ outQueue' \in sendQueueToGateway(q, canSync)
       /\ UNCHANGED connState
    \/ /\ connState = "Online"
       /\ outQueue' = q
       /\ connState' = "Offline"
    \/ /\ connState # "Online"
       /\ outQueue' = q
       /\ connState' \in { connState, "Close" }

\* The ticker.
OnTimer ==
    /\ ~handling
    /\ EndOfTick(outQueue)
    /\ UNCHANGED << inq, pendingQueue, gatewayId, sess, sync, handling, todo,
                    tmpRpcApiMessageList, rpc, nextMid, inputs, hist >>

\* The same tick when the 30 seconds of a deferred result are over: the
\* request is answered by an error.  Several such results are several ticks.
OnTimerTimeout(id) ==
    /\ ~handling
    /\ pendingQueue[id] > 0
    /\ pendingQueue' = [pendingQueue EXCEPT ![id] = @ - 1]
    /\ sendRpcResult(id)
    /\ \E q \in QueuesAfterResult(id) : EndOfTick(q)
    /\ UNCHANGED << gatewayId, sess, sync, handling, todo, tmpRpcApiMessageList,
                    rpc, inputs, dispatched, acked, forgotten, deferred >>

\* waitMsgAcksTimeout has passed since the entry o was sent.
AckWaitElapses(o) ==
    /\ o.sent = "waiting"
    /\ outQueue' = (outQueue \ {o}) \cup { [o EXCEPT !.sent = "expired"] }
    /\ UNCHANGED << inq, pendingQueue, conn, sess, sync, handling, todo,
                    tmpRpcApiMessageList, rpc, nextMid, inputs, hist >>

-----------------------------------------------------------------------------
HandleMessage ==
    \/ SkipMessage
    \/ \E id \in MsgIds :
         \/ DuplicateMessage(id)
         \/ OnMsgsAck(id)
         \/ OnIgnored(id)
         \/ OnServiceMessage(id)
         \/ OnAnswerNow(id)
         \/ OnRpcRequestDenied(id)
         \/ OnRpcRequest(id)
         \/ OnMsgsAllInfo(id)
         \/ OnMsgResendReq(id)

TakeEvent ==
    \/ \E g \in Gateways :
         \/ OnSessionNew(g)
         \/ OnSessionClosed(g)
         \/ OnSessionDataRefused(g)
         \/ \E p \in Packets : OnSessionData(g, p)
    \/ OnSyncData

TakeResult == OnRpcResultNotReturn \/ OnRpcResult

Next ==
    \/ TakeEvent
    \/ HandleMessage
    \/ EndOfPacket
    \/ RpcRunLoop
    \/ TakeResult
    \/ \E id \in MsgIds : OnSyncRpcResultData(id) \/ OnTimerTimeout(id)
    \/ OnTimer
    \/ \E o \in outQueue : AckWaitElapses(o)

Spec == Init /\ [][Next]_vars

(* Fairness.  A packet's handler and rpcRunLoop run on.  The select of      *)
(* runLoop chooses at random among the channels that are ready, so neither  *)
(* a waiting result nor the ticker is passed over for ever; the clock makes *)
(* every deferred result time out.                                          *)
Fairness ==
    /\ WF_vars(HandleMessage)
    /\ WF_vars(EndOfPacket)
    /\ WF_vars(RpcRunLoop)
    /\ SF_vars(TakeResult)
    /\ \A id \in MsgIds : SF_vars(OnTimerTimeout(id))

FairSpec == Spec /\ Fairness

\* o has waited longest of what the client must acknowledge and has not got.
FirstUndelivered(o) ==
    /\ o.ack /\ ~o.reached
    /\ \A p \in outQueue : p.ack /\ ~p.reached => o.mid <= p.mid

(* The clock, and a link that may lose what is sent and confirmed, but not  *)
(* every copy of an entry that the ticker sends again and again.            *)
FairLink ==
    /\ WF_vars(\E o \in outQueue : FirstUndelivered(o) /\ AckWaitElapses(o))
    /\ SF_vars(\E o \in outQueue : /\ FirstUndelivered(o)
                                   /\ OnTimer
                                   /\ \E p \in outQueue' : p.mid = o.mid /\ p.reached)

LiveSpec == FairSpec /\ FairLink

-----------------------------------------------------------------------------
(* Properties.                                                              *)

\* Every variable of the session keeps its type, and the queue of answers
\* stays finite.
TypeOK ==
    /\ inQueue \in [MsgIds -> InStates \cup { "ABSENT" }]
    /\ minMsgId \in Nat
    /\ maxMsgId \in Nat
    /\ outQueue \in SUBSET OutboxMsg
    /\ IsFiniteSet(outQueue)
    /\ pendingQueue \in [MsgIds -> Nat]
    /\ gatewayId \in Gateways \cup { NoGateway }
    /\ connState \in { "New", "Online", "Offline", "Close" }
    /\ sessionState \in { "New", "Created" }
    /\ firstMsgId \in MsgIds \cup {0}
    /\ canSync \in BOOLEAN
    /\ listState \in { "None", "PermBound" }
    /\ handling \in BOOLEAN
    /\ todo \in Seq(MsgIds)
    /\ tmpRpcApiMessageList \in Seq(MsgIds)
    /\ rpcQueue \in Seq(MsgIds)
    /\ rpcDataChan \in Seq([id : MsgIds, notReturn : BOOLEAN])
    /\ late \in SUBSET MsgIds
    /\ nextMid \in Nat
    /\ inputs \in Nat
    /\ dispatched \in [MsgIds -> Nat]
    /\ answers \in [MsgIds -> Nat]
    /\ acked \in SUBSET MsgIds
    /\ shed \in SUBSET (MsgIds \cup {0})
    /\ forgotten \in SUBSET MsgIds
    /\ deferred \in SUBSET MsgIds

\* However often the client repeats a request, and whatever happens between
\* the copies, onRpcRequest hands it to rpcRunLoop a second time only if the
\* inbound window had dropped its id (Shrink) before the copy came.
ExecutedOnce == \A id \in MsgIds : dispatched[id] > 1 => id \in forgotten

\* An answer, once queued, is in outQueue until the client acknowledges it:
\* no sending, failed sending, reconnection or timeout loses it.  The only
\* other way out is a queue above maxQueueSize.
AnswerKept ==
    \A id \in MsgIds : answers[id] > 0 =>
        Lookup(outQueue, id) # {} \/ id \in acked \cup shed

\* Some part of the server still holds the request and will come back to it.
InFlight(id) ==
    \/ \E i \in DOMAIN tmpRpcApiMessageList : tmpRpcApiMessageList[i] = id
    \/ \E i \in DOMAIN rpcQueue : rpcQueue[i] = id
    \/ \E i \in DOMAIN rpcDataChan : rpcDataChan[i].id = id
    \/ pendingQueue[id] > 0

\* A request that the window says is being processed, and whose repetitions
\* are therefore ignored, is not lost: it is on its way through the RPC
\* queues, waits for a deferred result, or has been answered.
NoOrphanRequest ==
    \A id \in MsgIds :
        inQueue[id] = "PROCESSING" => InFlight(id) \/ answers[id] > 0

\* A request gets a second answer only if the window forgot it or its result
\* was deferred (then the pushed result and the Timeout error may both be
\* delivered: the client acknowledges one before the other is queued).
OneAnswer ==
    \A id \in MsgIds : answers[id] > 1 => id \in forgotten \cup deferred

\* The codes 2 and 3 of msgs_state_req (session_inbound_queue.go:80-83): "the
\* other party has certainly not received a message like that".  An id that
\* was received, and that the window may have forgotten, is not reported so.
StatusHonest ==
    \A id \in Stored \cup forgotten :
        StateInfo(id) \notin { "NOT_RECEIVED", "NOT_RECEIVED_SURE" }

\* Every request that was handed to rpcRunLoop is answered, whether its
\* service answers, defers the result for ever, or the client goes away;
\* unless the window forgot it meanwhile.
RequestAnswered ==
    \A id \in MsgIds :
        dispatched[id] > 0 ~> answers[id] > 0 \/ id \in forgotten

\* If the session stays online, everything in its queue that the client must
\* acknowledge reaches it, pushes that were queued while it was away included,
\* although sendings fail, or are confirmed by the gateway and lost.
QueueDelivered ==
    <>[](connState = "Online") =>
        \A id \in MsgIds \cup {0} :
            (\E o \in Lookup(outQueue, id) : o.ack /\ ~o.reached)
                ~> (\A o \in Lookup(outQueue, id) : o.ack => o.reached)

-----------------------------------------------------------------------------
(* The inductive invariant.                                                 *)

\* Only requests travel through the RPC queues.
RpcOnly ==
    /\ \A i \in DOMAIN tmpRpcApiMessageList :
          Kind[tmpRpcApiMessageList[i]] \in RpcKinds
    /\ \A i \in DOMAIN rpcQueue : Kind[rpcQueue[i]] \in RpcKinds
    /\ \A i \in DOMAIN rpcDataChan : Kind[rpcDataChan[i].id] \in RpcKinds
    /\ \A id \in late : Kind[id] \in RpcKinds
    /\ \A id \in MsgIds : pendingQueue[id] > 0 => Kind[id] \in RpcKinds

\* outQueue keeps exactly the rpc_results for acknowledgement, and each of
\* them is an answer that was counted.
QueuedAnswers ==
    /\ \A o \in outQueue :
          o.id # 0 => /\ o.ack <=> Kind[o.id] \in ResultKinds
                      /\ o.ack => answers[o.id] > 0
    /\ \A id \in MsgIds : answers[id] > 0 => Kind[id] \in ResultKinds

\* A server msg_id names one entry of outQueue, so that an acknowledgement
\* cannot take another answer with it.
UniqueMids ==
    \A o \in outQueue : /\ o.mid < nextMid
                        /\ \A p \in outQueue : p.mid = o.mid => p.id = o.id

\* A request that was handed to rpcRunLoop stays registered as such.
Registered ==
    \A id \in MsgIds :
        dispatched[id] > 0 => \/ id \in forgotten
                              \/ inQueue[id] \notin { "ABSENT", "NONE" }

\* The bounds of the window enclose its ids; the upper one has passed every
\* id that was ever dropped.
WindowBounds ==
    /\ \A id \in Stored : minMsgId <= id /\ id <= maxMsgId
    /\ \A id \in forgotten : id <= maxMsgId

\* What every step of the session preserves, and what the safety properties
\* follow from.
IndInv ==
    /\ TypeOK
    /\ RpcOnly
    /\ QueuedAnswers
    /\ UniqueMids
    /\ Registered
    /\ ExecutedOnce
    /\ WindowBounds
    /\ AnswerKept
    /\ NoOrphanRequest

=============================================================================
