---------------------------- MODULE SessionProofs ----------------------------
(***************************************************************************)
(* Proofs about module Session, for every set of msg_ids, every assignment *)
(* of kinds, every set of packets and every size of the two queues.        *)
(***************************************************************************)
EXTENDS Session, TLAPS, FiniteSetTheorems, FunctionTheorems, SequenceTheorems,
        WellFoundedInduction

-----------------------------------------------------------------------------
(* Finite sets.                                                             *)

\* A finite set stays finite when each of its members is replaced.
LEMMA ImageFinite ==
    ASSUME NEW S, IsFiniteSet(S), NEW T, NEW f \in [S -> T],
           \A t \in T : \E s \in S : f[s] = t
    PROVE  IsFiniteSet(T)
  <1>1. f \in Surjection(S, T)
    BY DEF Surjection
  <1> QED BY <1>1, FS_Surjection

\* A nonempty set of naturals has a smallest member.
LEMMA SmallestMember ==
    ASSUME NEW T, T \subseteq Nat, T # {}
    PROVE  \E x \in T : \A y \in T : x <= y
  <1>1. PICK x \in T : \A y \in T : ~ (<< y, x >> \in OpToRel(<, Nat))
    BY WFMin, NatLessThanWellFounded
  <1>2. ASSUME NEW y \in T PROVE x <= y
    <2>1. << y, x >> \notin { ss \in Nat \X Nat : ss[1] < ss[2] }
      BY <1>1 DEF OpToRel
    <2> QED BY <2>1
  <1> QED BY <1>2

\* A nonempty set of msg_ids has a largest member.
LEMMA LargestMsgId ==
    ASSUME NEW S \in SUBSET MsgIds, S # {}
    PROVE  \E m \in S : \A j \in S : j <= m
  <1>1. /\ FirstMid \in Nat
        /\ \A s \in S : s \in Nat /\ s < FirstMid
    BY MsgIdsAssumption
  <1> DEFINE T == { FirstMid - s : s \in S }
  <1>2. T \subseteq Nat
    BY <1>1
  <1>3. T # {}
    OBVIOUS
  <1>4. PICK x \in T : \A y \in T : x <= y
    <2> HIDE DEF T
    <2> QED BY <1>2, <1>3, SmallestMember
  <1>5. PICK m \in S : x = FirstMid - m
    OBVIOUS
  <1>6. ASSUME NEW j \in S PROVE j <= m
    <2>1. x <= FirstMid - j
      BY <1>4
    <2> QED BY <2>1, <1>1, <1>5
  <1> QED BY <1>6

\* The window is finite.
LEMMA MsgIdsFinite == IsFiniteSet(MsgIds)
  <1>1. FirstMid - 1 \in Int /\ MsgIds \in SUBSET (1 .. FirstMid - 1)
    BY MsgIdsAssumption
  <1>2. IsFiniteSet(1 .. FirstMid - 1)
    BY <1>1, FS_Interval
  <1> QED BY <1>1, <1>2, FS_Subset

-----------------------------------------------------------------------------
(* What the operations on outQueue do to its entries.                       *)

OutQueueOK(q) == q \in SUBSET OutboxMsg /\ IsFiniteSet(q)

\* The entries of r are entries of q, with the same ids and ack bits, and r
\* keeps one for every id all of whose entries wait for an ack.
KeepsAnswers(q, r) ==
    /\ \A x \in r : \E o \in q : x.id = o.id /\ x.ack = o.ack /\ x.mid = o.mid
    /\ \A o \in q : (\A m \in q : m.id = o.id => m.ack)
                       => \E x \in r : x.id = o.id

\* Keeping the answers is transitive.
LEMMA KeepsTransitive ==
    ASSUME NEW q, NEW r, NEW s, KeepsAnswers(q, r), KeepsAnswers(r, s)
    PROVE  KeepsAnswers(q, s)
  BY DEF KeepsAnswers

\* Changing entries one by one, but not their ids and ack bits.
LEMMA MapKeeps ==
    ASSUME NEW q, OutQueueOK(q), NEW f \in [q -> OutboxMsg],
           \A o \in q : f[o].id = o.id /\ f[o].ack = o.ack /\ f[o].mid = o.mid
    PROVE  LET r == { f[o] : o \in q }
           IN  OutQueueOK(r) /\ KeepsAnswers(q, r)
  <1> DEFINE r == { f[o] : o \in q }
  <1>1. r \in SUBSET OutboxMsg
    OBVIOUS
  <1>2. IsFiniteSet(r)
    <2>1. f \in [q -> r] /\ \A t \in r : \E o \in q : f[o] = t
      OBVIOUS
    <2> QED BY <2>1, ImageFinite DEF OutQueueOK
  <1>3. KeepsAnswers(q, r)
    BY DEF KeepsAnswers
  <1> QED BY <1>1, <1>2, <1>3 DEF OutQueueOK

\* Remove never takes an entry for an id all of whose entries wait for an ack.
LEMMA RemovedNotAcked ==
    ASSUME NEW q, OutQueueOK(q), NEW batch \in SUBSET q, NEW o \in q,
           \A m \in q : m.id = o.id => m.ack
    PROVE  o \notin Removed(q, batch)
  <1>1. { m \in batch : m.id = o.id /\ ~m.ack } = {}
    OBVIOUS
  <1> DEFINE older == { p \in q : p.id = o.id /\ p.mid < o.mid }
  <1>2. IsFiniteSet(older)
    BY FS_Subset DEF OutQueueOK
  <1>3. Cardinality(older) \in Nat
    BY <1>2, FS_CardinalityType
  <1>4. ~ (Cardinality(older) < Cardinality({ m \in batch : m.id = o.id /\ ~m.ack }))
    BY <1>1, <1>3, FS_EmptySet
  <1> QED BY <1>4 DEF Removed

\* updatePendingStates keeps every answer and the mids.
LEMMA UpdateKeeps ==
    ASSUME NEW q, OutQueueOK(q), NEW batch \in SUBSET q
    PROVE  LET r == updatePendingStates(q, batch)
           IN  OutQueueOK(r) /\ KeepsAnswers(q, r)
  <1> DEFINE s == q \ Removed(q, batch)
             f == [o \in s |-> IF o \in batch /\ o.ack
                               THEN [o EXCEPT !.sent = "waiting"] ELSE o]
             r == { f[o] : o \in s }
  <1>1. OutQueueOK(s)
    BY FS_Subset DEF OutQueueOK
  <1>2. KeepsAnswers(q, s)
    BY RemovedNotAcked DEF KeepsAnswers
  <1>3. /\ f \in [s -> OutboxMsg]
        /\ \A o \in s : f[o].id = o.id /\ f[o].ack = o.ack /\ f[o].mid = o.mid
    BY <1>1 DEF OutQueueOK, OutboxMsg
  <1>4. OutQueueOK(r) /\ KeepsAnswers(s, r)
    <2> HIDE DEF s, f
    <2> QED BY <1>1, <1>3, MapKeeps
  <1>5. updatePendingStates(q, batch) = r
    BY DEF updatePendingStates
  <1>6. KeepsAnswers(q, r)
    BY <1>2, <1>4, KeepsTransitive
  <1> QED BY <1>4, <1>5, <1>6

\* So does the delivery of some of the entries.
LEMMA SentKeeps ==
    ASSUME NEW q, OutQueueOK(q), NEW arrived, NEW ok \in SUBSET q
    PROVE  OutQueueOK(Sent(q, arrived, ok)) /\ KeepsAnswers(q, Sent(q, arrived, ok))
  <1> DEFINE u == updatePendingStates(q, ok)
             f == [o \in u |-> IF \E p \in arrived : p.mid = o.mid
                               THEN [o EXCEPT !.reached = TRUE] ELSE o]
             r == { f[o] : o \in u }
  <1>1. OutQueueOK(u) /\ KeepsAnswers(q, u)
    BY UpdateKeeps
  <1>2. Sent(q, arrived, ok) = r
    BY DEF Sent
  <1> HIDE DEF u
  <1>3. ASSUME NEW o \in u
        PROVE  f[o] \in OutboxMsg /\ f[o].id = o.id /\ f[o].ack = o.ack /\ f[o].mid = o.mid
    <2>1. o \in OutboxMsg
      BY <1>1 DEF OutQueueOK
    <2>2. f[o] = o \/ f[o] = [o EXCEPT !.reached = TRUE]
      OBVIOUS
    <2> HIDE DEF f
    <2> QED BY <2>1, <2>2 DEF OutboxMsg
  <1>4. f \in [u -> OutboxMsg]
    BY <1>3
  <1>5. OutQueueOK(r) /\ KeepsAnswers(u, r)
    <2> HIDE DEF f
    <2> QED BY <1>1, <1>3, <1>4, MapKeeps
  <1> QED BY <1>1, <1>2, <1>5, KeepsTransitive

\* sendQueueToGateway loses no answer, whatever becomes of its calls.
LEMMA SendKeeps ==
    ASSUME NEW q, OutQueueOK(q), NEW maysync,
           NEW r \in sendQueueToGateway(q, maysync)
    PROVE  OutQueueOK(r) /\ KeepsAnswers(q, r)
  <1> DEFINE pending == Pendings(q, maysync)
             batches == { BatchOf(pending, o) : o \in pending }
  <1>1. CASE r = q
    BY <1>1 DEF KeepsAnswers
  <1>2. CASE r # q
    <2>1. gatewayId # NoGateway /\ connState = "Online"
      BY <1>2 DEF sendQueueToGateway
    <2>2. PICK through \in SUBSET batches, ok \in SUBSET batches :
            r = Sent(q, InBatches(pending, through), InBatches(pending, ok))
      BY <2>1 DEF sendQueueToGateway
    <2>3. InBatches(pending, ok) \in SUBSET q
      BY DEF Pendings, InBatches
    <2> QED BY <2>2, <2>3, SentKeeps
  <1> QED BY <1>1, <1>2

\* Sending messages again loses no answer either.
LEMMA ResendKeeps ==
    ASSUME NEW q, OutQueueOK(q), NEW ids, NEW r \in Resend(q, ids)
    PROVE  OutQueueOK(r) /\ KeepsAnswers(q, r)
  <1>1. PICK through, ok : r = Resent(q, through, ok)
    BY DEF Resend
  <1> DEFINE f == [o \in q |->
                    [o EXCEPT !.sent = IF o \in ok THEN "waiting" ELSE @,
                              !.reached = @ \/ o \in through]]
  <1>2. r = { f[o] : o \in q }
    BY <1>1 DEF Resent
  <1>3. ASSUME NEW o \in q
        PROVE  f[o] \in OutboxMsg /\ f[o].id = o.id /\ f[o].ack = o.ack /\ f[o].mid = o.mid
    BY DEF OutQueueOK, OutboxMsg
  <1>4. f \in [q -> OutboxMsg]
    BY <1>3
  <1> QED
    <2> HIDE DEF f
    <2> QED BY <1>2, <1>3, <1>4, MapKeeps

\* Shrink only drops entries.
LEMMA ShrinkOutSubset ==
    ASSUME NEW q, OutQueueOK(q)
    PROVE  OutQueueOK(ShrinkOut(q)) /\ ShrinkOut(q) \subseteq q
  <1>1. ShrinkOut(q) \in SUBSET q
    BY DEF ShrinkOut
  <1> QED BY <1>1, FS_Subset DEF OutQueueOK

\* One more entry.
LEMMA AddEntry ==
    ASSUME NEW q, OutQueueOK(q), NEW e \in OutboxMsg
    PROVE  OutQueueOK(q \cup { e })
  BY FS_AddElement DEF OutQueueOK

\* A new entry has the type of an entry.
LEMMA EntryType ==
    ASSUME NEW mid \in Nat, NEW id \in MsgIds \cup {0}, NEW ack \in BOOLEAN
    PROVE  Entry(mid, id, ack) \in OutboxMsg
  BY DEF Entry, OutboxMsg

-----------------------------------------------------------------------------
(* Types.                                                                   *)

\* msg_ids are naturals.
LEMMA MsgIdsAreNat == MsgIds \subseteq Nat
  BY MsgIdsAssumption

\* outQueue is a finite set of entries.
LEMMA TypeOutQueue ==
    ASSUME TypeOK
    PROVE  OutQueueOK(outQueue)
  BY DEF TypeOK, OutQueueOK

\* AddMsgId keeps the types of the window.
LEMMA TypeAddMsgId ==
    ASSUME TypeOK, NEW id \in MsgIds, NEW s \in InStates \cup { "ABSENT" },
           AddMsgId(id, s)
    PROVE  /\ inQueue' \in [MsgIds -> InStates \cup { "ABSENT" }]
           /\ minMsgId' \in Nat
           /\ maxMsgId' \in Nat
  BY MsgIdsAreNat DEF TypeOK, AddMsgId

\* AddRpcResultMsg yields a queue.
LEMMA TypeAddRpcResultMsg ==
    ASSUME TypeOK, NEW id \in MsgIds
    PROVE  OutQueueOK(AddRpcResultMsg(outQueue, id))
  <1>1. Entry(nextMid, id, TRUE) \in OutboxMsg
    BY EntryType DEF TypeOK
  <1> QED BY <1>1, AddEntry, TypeOutQueue DEF AddRpcResultMsg

\* AddNotifyMsg yields a queue.
LEMMA TypeAddNotifyMsg ==
    ASSUME TypeOK, NEW id \in MsgIds \cup {0}, NEW confirm \in BOOLEAN
    PROVE  OutQueueOK(AddNotifyMsg(outQueue, id, confirm))
  <1>1. Entry(nextMid, id, confirm) \in OutboxMsg
    BY EntryType DEF TypeOK
  <1> QED BY <1>1, AddEntry, TypeOutQueue DEF AddNotifyMsg

\* Enqueueing keeps the types of what it counts.
LEMMA TypeEnqueue ==
    ASSUME TypeOK, NEW q, OutQueueOK(q), EnqueueAndShrink(q)
    PROVE  nextMid' \in Nat /\ shed' \in SUBSET (MsgIds \cup {0})
  <1>1. { o.id : o \in q \ ShrinkOut(q) } \subseteq MsgIds \cup {0}
    BY DEF OutQueueOK, OutboxMsg
  <1> QED BY <1>1 DEF EnqueueAndShrink, TypeOK

\* sendRpcResultToQueue keeps the types of what it counts.
LEMMA TypeResultToQueue ==
    ASSUME TypeOK, NEW id \in MsgIds, sendRpcResultToQueue(id)
    PROVE  /\ nextMid' \in Nat
           /\ shed' \in SUBSET (MsgIds \cup {0})
           /\ answers' \in [MsgIds -> Nat]
  <1>1. nextMid' \in Nat /\ shed' \in SUBSET (MsgIds \cup {0})
    BY TypeAddRpcResultMsg, TypeEnqueue DEF sendRpcResultToQueue
  <1>2. answers' \in [MsgIds -> Nat]
    BY DEF sendRpcResultToQueue, TypeOK
  <1> QED BY <1>1, <1>2

\* sendRpcResult keeps the types.
LEMMA TypeRpcResult ==
    ASSUME TypeOK, NEW id \in MsgIds, sendRpcResult(id)
    PROVE  /\ inQueue' \in [MsgIds -> InStates \cup { "ABSENT" }]
           /\ minMsgId' \in Nat
           /\ maxMsgId' \in Nat
           /\ nextMid' \in Nat
           /\ shed' \in SUBSET (MsgIds \cup {0})
           /\ answers' \in [MsgIds -> Nat]
  <1>1. CASE id \in Stored
    <2>1. sendRpcResultToQueue(id) /\ AddMsgId(id, "ACKNOWLEDGED")
      BY <1>1 DEF sendRpcResult
    <2>2. "ACKNOWLEDGED" \in InStates \cup { "ABSENT" }
      BY DEF InStates
    <2> QED BY <2>1, <2>2, TypeResultToQueue, TypeAddMsgId
  <1>2. CASE id \notin Stored
    BY <1>2 DEF sendRpcResult, inq, TypeOK
  <1> QED BY <1>1, <1>2

\* sendRpcResult leaves a queue, whatever was sent.
LEMMA TypeQueuesAfterResult ==
    ASSUME TypeOK, NEW id \in MsgIds, NEW q \in QueuesAfterResult(id)
    PROVE  OutQueueOK(q)
  <1>1. OutQueueOK(ShrinkOut(AddRpcResultMsg(outQueue, id)))
    BY TypeAddRpcResultMsg, ShrinkOutSubset
  <1>2. CASE id \in Stored
    BY <1>1, <1>2, SendKeeps DEF QueuesAfterResult
  <1>3. CASE id \notin Stored
    BY <1>3, TypeOutQueue DEF QueuesAfterResult
  <1> QED BY <1>2, <1>3

\* The end of a tick keeps the types.
LEMMA TypeEndOfTick ==
    ASSUME TypeOK, NEW q, OutQueueOK(q), EndOfTick(q)
    PROVE  /\ OutQueueOK(outQueue')
           /\ connState' \in { "New", "Online", "Offline", "Close" }
  <1>1. OutQueueOK(outQueue')
    BY SendKeeps DEF EndOfTick
  <1>2. connState' \in { "New", "Online", "Offline", "Close" }
    BY DEF EndOfTick, TypeOK
  <1> QED BY <1>1, <1>2

\* The smallest msg_id of a packet is a msg_id.
LEMMA MinMsgIdOf ==
    ASSUME NEW p \in Packets
    PROVE  MinMsgId(p) \in MsgIds
  <1> DEFINE ids == { p.outer } \cup { p.inner[i] : i \in 1 .. Len(p.inner) }
  <1>1. ids \subseteq MsgIds /\ ids # {}
    BY PacketsAssumption DEF Packet
  <1>2. \E m \in ids : \A j \in ids : m <= j
    BY <1>1, MsgIdsAreNat, SmallestMember
  <1> QED BY <1>1, <1>2 DEF MinMsgId

\* Shrink keeps the types of the window.
LEMMA TypeShrinkIn ==
    ASSUME TypeOK, ShrinkIn
    PROVE  /\ inQueue' \in [MsgIds -> InStates \cup { "ABSENT" }]
           /\ minMsgId' \in Nat
           /\ maxMsgId' \in Nat
  <1>1. Evicted \in SUBSET MsgIds
    BY DEF Evicted, Stored
  <1>2. minMsgId' \in Nat
    BY <1>1, LargestMsgId, MsgIdsAreNat DEF ShrinkIn, TypeOK
  <1> QED BY <1>2 DEF ShrinkIn, TypeOK

\* A result names a msg_id.
LEMMA TypeResults ==
    ASSUME TypeOK, rpcDataChan # << >>
    PROVE  /\ Head(rpcDataChan).id \in MsgIds
           /\ Tail(rpcDataChan) \in Seq([id : MsgIds, notReturn : BOOLEAN])
  <1>1. rpcDataChan \in Seq([id : MsgIds, notReturn : BOOLEAN])
    BY DEF TypeOK
  <1>2. /\ Head(rpcDataChan) \in [id : MsgIds, notReturn : BOOLEAN]
        /\ Tail(rpcDataChan) \in Seq([id : MsgIds, notReturn : BOOLEAN])
    BY <1>1, HeadTailProperties
  <1> QED BY <1>2

\* The next message of a packet has a msg_id.
LEMMA TypeCurrent ==
    ASSUME TypeOK, NEW id, Current(id)
    PROVE  id \in MsgIds /\ todo' \in Seq(MsgIds)
  BY HeadTailProperties DEF TypeOK, Current

\* Every step keeps the types.
LEMMA TypeStep ==
    ASSUME TypeOK, [Next]_vars
    PROVE  TypeOK'
  <1> USE DEF inq, conn, sess, sync, rpc, hist
  <1>1. ASSUME NEW g \in Gateways,
               OnSessionNew(g) \/ OnSessionClosed(g) \/ OnSessionDataRefused(g)
        PROVE  TypeOK'
    <2>1. /\ gatewayId' \in Gateways \cup { NoGateway }
          /\ connState' \in { "New", "Online", "Offline", "Close" }
          /\ sessionState' \in { "New", "Created" }
          /\ inputs' \in Nat
      BY SMTT(30), <1>1 DEF TypeOK, OnSessionNew, OnSessionClosed,
                  OnSessionDataRefused, TakeInput, onSessionConnNew
    <2>2. UNCHANGED << inq, outQueue, pendingQueue, firstMsgId, sync, handling,
                       todo, tmpRpcApiMessageList, rpc, nextMid, hist >>
      BY <1>1 DEF OnSessionNew, OnSessionClosed, OnSessionDataRefused
    <2> QED BY <2>1, <2>2 DEF TypeOK
  <1>2. ASSUME NEW g \in Gateways, NEW p \in Packets, OnSessionData(g, p)
        PROVE  TypeOK'
    <2>1. /\ inQueue' \in [MsgIds -> InStates \cup { "ABSENT" }]
          /\ minMsgId' \in Nat
          /\ maxMsgId' \in Nat
      <3>1. p.outer \in MsgIds
        BY PacketsAssumption DEF Packet
      <3>2. Untouched(p.outer) \in InStates \cup { "ABSENT" }
        BY <3>1 DEF Untouched, TypeOK, InStates
      <3>3. AddMsgId(p.outer, Untouched(p.outer)) \/ UNCHANGED inq
        BY <1>2 DEF OnSessionData
      <3> QED BY <3>1, <3>2, <3>3, TypeAddMsgId DEF TypeOK
    <2>2. /\ OutQueueOK(outQueue')
          /\ nextMid' \in Nat
          /\ shed' \in SUBSET (MsgIds \cup {0})
      <3>1. CASE UNCHANGED << sess, outQueue, nextMid, shed >>
        BY <3>1 DEF TypeOK, OutQueueOK
      <3>2. CASE ~ UNCHANGED << sess, outQueue, nextMid, shed >>
        <4> DEFINE e(r) == [Entry(nextMid, 0, TRUE) EXCEPT !.reached = r]
        <4>1. PICK r \in BOOLEAN : /\ outQueue' = ShrinkOut(outQueue \cup { e(r) })
                                   /\ EnqueueAndShrink(outQueue \cup { e(r) })
          BY <1>2, <3>2 DEF OnSessionData
        <4>2. e(r) \in OutboxMsg
          BY DEF Entry, OutboxMsg, TypeOK
        <4>3. OutQueueOK(outQueue \cup { e(r) })
          <5> HIDE DEF e
          <5> QED BY <4>2, AddEntry, TypeOutQueue
        <4> HIDE DEF e
        <4> QED BY <4>1, <4>3, ShrinkOutSubset, TypeEnqueue
      <3> QED BY <3>1, <3>2
    <2>3. todo' \in Seq(MsgIds)
      <3>1. p \in Packet
        BY PacketsAssumption
      <3>2. p.inner \in Seq(MsgIds)
        BY <3>1 DEF Packet
      <3> QED BY <1>2, <3>2 DEF OnSessionData
    <2>4. /\ sessionState' \in { "New", "Created" }
          /\ firstMsgId' \in MsgIds \cup {0}
      BY <1>2, MinMsgIdOf DEF OnSessionData, TypeOK
    <2>5. /\ gatewayId' \in Gateways \cup { NoGateway }
          /\ connState' \in { "New", "Online", "Offline", "Close" }
          /\ inputs' \in Nat
      BY <1>2 DEF OnSessionData, TakeInput, onSessionConnNew, TypeOK
    <2>6. UNCHANGED << pendingQueue, sync, tmpRpcApiMessageList, rpc, dispatched,
                       answers, acked, forgotten, deferred >>
      BY <1>2 DEF OnSessionData
    <2>7. handling' \in BOOLEAN
      <3>1. handling' = TRUE
        BY <1>2 DEF OnSessionData
      <3> QED BY <3>1, Zenon
    <2> QED BY <2>1, <2>2, <2>3, <2>4, <2>5, <2>6, <2>7 DEF TypeOK, OutQueueOK
  <1>3. CASE OnSyncData
    <2> DEFINE q == AddNotifyMsg(outQueue, 0, TRUE)
    <2>1. OutQueueOK(q)
      BY TypeAddNotifyMsg
    <2>2. /\ EnqueueAndShrink(q)
          /\ outQueue' \in sendQueueToGateway(ShrinkOut(q), canSync)
      BY <1>3 DEF OnSyncData
    <2>3. /\ OutQueueOK(outQueue')
          /\ nextMid' \in Nat
          /\ shed' \in SUBSET (MsgIds \cup {0})
      <3> HIDE DEF q
      <3> QED BY <2>1, <2>2, ShrinkOutSubset, SendKeeps, TypeEnqueue
    <2>4. /\ inputs' \in Nat
          /\ UNCHANGED << inq, pendingQueue, conn, sess, sync, handling, todo,
                          tmpRpcApiMessageList, rpc, dispatched, answers, acked,
                          forgotten, deferred >>
      BY <1>3 DEF TypeOK, OnSyncData, TakeInput
    <2> QED BY <2>3, <2>4 DEF TypeOK, OutQueueOK
  <1>4. CASE SkipMessage
    <2>1. todo' \in Seq(MsgIds)
      BY <1>4, HeadTailProperties DEF TypeOK, SkipMessage
    <2>2. UNCHANGED << inq, outQueue, pendingQueue, conn, sess, sync, handling,
                       tmpRpcApiMessageList, rpc, nextMid, inputs, hist >>
      BY <1>4 DEF SkipMessage
    <2> QED BY <2>1, <2>2 DEF TypeOK
  <1>5. ASSUME NEW id \in MsgIds, DuplicateMessage(id)
        PROVE  TypeOK'
    <2>1. Current(id) /\ UNCHANGED << inq, outQueue, pendingQueue, conn, sess, sync,
             handling, tmpRpcApiMessageList, rpc, nextMid, inputs, hist >>
      BY <1>5 DEF DuplicateMessage
    <2> QED BY <2>1, TypeCurrent DEF TypeOK
  <1>6. ASSUME NEW id \in MsgIds, OnMsgsAck(id)
        PROVE  TypeOK'
    <2>1. PICK got \in SUBSET outQueue :
            /\ outQueue' = OnMsgsAckQueue(outQueue, { o.mid : o \in got })
            /\ ChangeAckReceived({ o.id : o \in got } \ {0})
            /\ acked' = acked \cup ({ o.id : o \in got } \ {0})
      BY <1>6 DEF OnMsgsAck
    <2>2. OutQueueOK(outQueue')
      <3>1. outQueue' \in SUBSET outQueue
        BY <2>1 DEF OnMsgsAckQueue
      <3> QED BY <3>1, FS_Subset DEF OutQueueOK, TypeOK
    <2>3. { o.id : o \in got } \ {0} \subseteq MsgIds
      BY DEF TypeOK, OutboxMsg
    <2>4. inQueue' \in [MsgIds -> InStates \cup { "ABSENT" }]
      BY <2>1 DEF ChangeAckReceived, TypeOK, InStates
    <2>5. /\ Current(id)
          /\ UNCHANGED << minMsgId, maxMsgId, pendingQueue, conn, sess, sync, handling,
                          tmpRpcApiMessageList, rpc, nextMid, inputs, dispatched,
                          answers, shed, forgotten, deferred >>
      BY <1>6 DEF OnMsgsAck
    <2>6. acked' \in SUBSET MsgIds
      BY <2>1, <2>3 DEF TypeOK
    <2> QED BY <2>2, <2>4, <2>5, <2>6, TypeCurrent DEF TypeOK, OutQueueOK
  <1>7. ASSUME NEW id \in MsgIds, OnIgnored(id)
        PROVE  TypeOK'
    <2>1. AddMsgId(id, "NONE") /\ "NONE" \in InStates \cup { "ABSENT" }
      BY <1>7 DEF OnIgnored, InStates
    <2>2. /\ Current(id)
          /\ UNCHANGED << outQueue, pendingQueue, conn, sess, sync, handling,
                          tmpRpcApiMessageList, rpc, nextMid, inputs, hist >>
      BY <1>7 DEF OnIgnored, Fresh
    <2>3. /\ inQueue' \in [MsgIds -> InStates \cup { "ABSENT" }]
          /\ minMsgId' \in Nat
          /\ maxMsgId' \in Nat
      BY <2>1, TypeAddMsgId
    <2> QED BY <2>2, <2>3, TypeCurrent DEF TypeOK
  <1>8. ASSUME NEW id \in MsgIds, OnServiceMessage(id)
        PROVE  TypeOK'
    <2> DEFINE q == AddNotifyMsg(outQueue, id, FALSE)
    <2>1. AddMsgId(id, "NO_ACK") /\ "NO_ACK" \in InStates \cup { "ABSENT" }
      BY <1>8 DEF OnServiceMessage, InStates
    <2>2. OutQueueOK(q)
      BY TypeAddNotifyMsg
    <2>3. outQueue' = ShrinkOut(q) /\ EnqueueAndShrink(q)
      BY <1>8 DEF OnServiceMessage
    <2>4. /\ OutQueueOK(outQueue')
          /\ nextMid' \in Nat
          /\ shed' \in SUBSET (MsgIds \cup {0})
      <3> HIDE DEF q
      <3> QED BY <2>2, <2>3, ShrinkOutSubset, TypeEnqueue
    <2>5. /\ inQueue' \in [MsgIds -> InStates \cup { "ABSENT" }]
          /\ minMsgId' \in Nat
          /\ maxMsgId' \in Nat
      BY <2>1, TypeAddMsgId
    <2>6. /\ Current(id)
          /\ UNCHANGED << pendingQueue, conn, sess, sync, handling,
                          tmpRpcApiMessageList, rpc, inputs, dispatched, answers,
                          acked, forgotten, deferred >>
      BY <1>8 DEF OnServiceMessage, Fresh
    <2> QED BY <2>4, <2>5, <2>6, TypeCurrent DEF TypeOK, OutQueueOK
  <1>9. ASSUME NEW id \in MsgIds, OnAnswerNow(id) \/ OnRpcRequestDenied(id)
        PROVE  TypeOK'
    <2>1. PICK s \in { "ACKNOWLEDGED", "GENERATED" } : AddMsgId(id, s)
      BY <1>9 DEF OnAnswerNow, OnRpcRequestDenied
    <2>2. s \in InStates \cup { "ABSENT" }
      BY DEF InStates
    <2>3. /\ inQueue' \in [MsgIds -> InStates \cup { "ABSENT" }]
          /\ minMsgId' \in Nat
          /\ maxMsgId' \in Nat
      BY <2>1, <2>2, TypeAddMsgId
    <2>4. /\ sendRpcResultToQueue(id)
          /\ outQueue' = ShrinkOut(AddRpcResultMsg(outQueue, id))
      BY <1>9 DEF OnAnswerNow, OnRpcRequestDenied
    <2>5. OutQueueOK(outQueue')
      BY <2>4, TypeAddRpcResultMsg, ShrinkOutSubset
    <2>6. /\ nextMid' \in Nat
          /\ shed' \in SUBSET (MsgIds \cup {0})
          /\ answers' \in [MsgIds -> Nat]
      BY <2>4, TypeResultToQueue
    <2>7. /\ Current(id)
          /\ UNCHANGED << pendingQueue, conn, sess, listState, handling,
                          tmpRpcApiMessageList, rpc, inputs, dispatched, acked,
                          forgotten, deferred >>
      BY <1>9 DEF OnAnswerNow, OnRpcRequestDenied, Fresh
    <2>8. canSync' \in BOOLEAN
      BY <1>9, Zenon DEF OnAnswerNow, OnRpcRequestDenied, TypeOK
    <2> QED BY <2>3, <2>5, <2>6, <2>7, <2>8, TypeCurrent DEF TypeOK, OutQueueOK
  <1>10. ASSUME NEW id \in MsgIds, OnRpcRequest(id)
         PROVE  TypeOK'
    <2>1. AddMsgId(id, "PROCESSING") /\ "PROCESSING" \in InStates \cup { "ABSENT" }
      BY <1>10 DEF OnRpcRequest, InStates
    <2>2. /\ inQueue' \in [MsgIds -> InStates \cup { "ABSENT" }]
          /\ minMsgId' \in Nat
          /\ maxMsgId' \in Nat
      BY <2>1, TypeAddMsgId
    <2>3. /\ Current(id)
          /\ UNCHANGED << outQueue, pendingQueue, conn, sess, listState, handling,
                          rpc, nextMid, inputs, answers, acked, shed, forgotten,
                          deferred >>
      BY <1>10 DEF OnRpcRequest, Fresh
    <2>4. /\ tmpRpcApiMessageList' \in Seq(MsgIds)
          /\ dispatched' \in [MsgIds -> Nat]
      BY <1>10 DEF OnRpcRequest, TypeOK
    <2>5. canSync' \in BOOLEAN
      BY <1>10, Zenon DEF OnRpcRequest, TypeOK
    <2> QED BY <2>2, <2>3, <2>4, <2>5, TypeCurrent DEF TypeOK
  <1>11. ASSUME NEW id \in MsgIds, OnMsgsAllInfo(id)
         PROVE  TypeOK'
    <2>1. AddMsgId(id, "NO_ACK") /\ "NO_ACK" \in InStates \cup { "ABSENT" }
      BY <1>11 DEF OnMsgsAllInfo, InStates
    <2>2. PICK got \in SUBSET outQueue, missing \in SUBSET outQueue :
            LET mids == { o.mid : o \in missing }
            IN  /\ outQueue' \in Resend(
                     OnMsgsAckQueue(outQueue, { o.mid : o \in got }), mids)
                /\ acked' = acked \cup ({ o.id : o \in got } \ {0})
      BY <1>11 DEF OnMsgsAllInfo
    <2> DEFINE q == OnMsgsAckQueue(outQueue, { o.mid : o \in got })
    <2>3. OutQueueOK(outQueue')
      <3>1. q \in SUBSET outQueue
        BY DEF OnMsgsAckQueue
      <3>2. OutQueueOK(q)
        BY <3>1, FS_Subset DEF OutQueueOK, TypeOK
      <3> HIDE DEF q
      <3> QED BY <2>2, <3>2, ResendKeeps DEF q
    <2>4. acked' \in SUBSET MsgIds
      BY <2>2 DEF TypeOK, OutboxMsg
    <2>5. /\ inQueue' \in [MsgIds -> InStates \cup { "ABSENT" }]
          /\ minMsgId' \in Nat
          /\ maxMsgId' \in Nat
      BY <2>1, TypeAddMsgId
    <2>6. /\ Current(id)
          /\ UNCHANGED << pendingQueue, conn, sess, sync, handling,
                          tmpRpcApiMessageList, rpc, nextMid, inputs, dispatched,
                          answers, shed, forgotten, deferred >>
      BY <1>11 DEF OnMsgsAllInfo, Fresh
    <2> QED BY <2>3, <2>4, <2>5, <2>6, TypeCurrent DEF TypeOK, OutQueueOK
  <1>12. ASSUME NEW id \in MsgIds, OnMsgResendReq(id)
         PROVE  TypeOK'
    <2> DEFINE q == AddNotifyMsg(outQueue, id, FALSE)
    <2>1. PICK s \in { "NONE", "NO_ACK" } : AddMsgId(id, s)
      BY <1>12 DEF OnMsgResendReq
    <2>2. s \in InStates \cup { "ABSENT" }
      BY DEF InStates
    <2>3. \/ \E ids : outQueue' \in Resend(outQueue, ids) /\ UNCHANGED << nextMid, shed >>
          \/ outQueue' = ShrinkOut(q) /\ EnqueueAndShrink(q)
      BY <1>12 DEF OnMsgResendReq
    <2>4. OutQueueOK(q)
      BY TypeAddNotifyMsg
    <2>5. /\ OutQueueOK(outQueue')
          /\ nextMid' \in Nat
          /\ shed' \in SUBSET (MsgIds \cup {0})
      <3> HIDE DEF q
      <3> QED BY <2>3, <2>4, ShrinkOutSubset, TypeEnqueue, ResendKeeps, TypeOutQueue
              DEF TypeOK
    <2>6. /\ inQueue' \in [MsgIds -> InStates \cup { "ABSENT" }]
          /\ minMsgId' \in Nat
          /\ maxMsgId' \in Nat
      BY <2>1, <2>2, TypeAddMsgId
    <2>7. /\ Current(id)
          /\ UNCHANGED << pendingQueue, conn, sess, sync, handling,
                          tmpRpcApiMessageList, rpc, inputs, dispatched, answers,
                          acked, forgotten, deferred >>
      BY <1>12 DEF OnMsgResendReq, Fresh
    <2> QED BY <2>5, <2>6, <2>7, TypeCurrent DEF TypeOK, OutQueueOK
  <1>13. CASE EndOfPacket
    <2>1. OutQueueOK(outQueue')
      BY <1>13, SendKeeps, TypeOutQueue DEF EndOfPacket
    <2>2. forgotten' \in SUBSET MsgIds
      BY <1>13 DEF EndOfPacket, Evicted, Stored, TypeOK
    <2>3. ShrinkIn
      BY <1>13 DEF EndOfPacket
    <2>4. /\ inQueue' \in [MsgIds -> InStates \cup { "ABSENT" }]
          /\ minMsgId' \in Nat
          /\ maxMsgId' \in Nat
      BY <2>3, TypeShrinkIn
    <2>5. /\ rpcQueue' \in Seq(MsgIds)
          /\ tmpRpcApiMessageList' \in Seq(MsgIds)
          /\ handling' \in BOOLEAN
      <3>1. /\ rpcQueue' = rpcQueue \o tmpRpcApiMessageList
            /\ tmpRpcApiMessageList' = << >>
        BY <1>13 DEF EndOfPacket
      <3>2. rpcQueue' \in Seq(MsgIds) /\ tmpRpcApiMessageList' \in Seq(MsgIds)
        BY <3>1, ConcatProperties DEF TypeOK
      <3>3. handling' = FALSE
        BY <1>13 DEF EndOfPacket
      <3> QED BY <3>2, <3>3, Zenon
    <2>6. UNCHANGED << pendingQueue, conn, sess, sync, todo, rpcDataChan, late,
                       nextMid, inputs, dispatched, answers, acked, shed, deferred >>
      BY <1>13 DEF EndOfPacket
    <2> QED BY <2>1, <2>2, <2>4, <2>5, <2>6 DEF TypeOK, OutQueueOK
  <1>14. CASE RpcRunLoop
    <2>1. Head(rpcQueue) \in MsgIds /\ rpcQueue' \in Seq(MsgIds)
      BY <1>14, HeadTailProperties DEF RpcRunLoop, TypeOK
    <2>2. late' \in SUBSET MsgIds
      BY <1>14, <2>1 DEF RpcRunLoop, TypeOK
    <2>3. PICK b \in BOOLEAN :
            rpcDataChan' = Append(rpcDataChan, [id |-> Head(rpcQueue), notReturn |-> b])
      BY <1>14 DEF RpcRunLoop
    <2>4. rpcDataChan' \in Seq([id : MsgIds, notReturn : BOOLEAN])
      BY <2>1, <2>3, AppendProperties DEF TypeOK
    <2>5. UNCHANGED << inq, outQueue, pendingQueue, conn, sess, sync, handling,
                       todo, tmpRpcApiMessageList, nextMid, inputs, hist >>
      BY <1>14 DEF RpcRunLoop
    <2> QED BY <2>1, <2>2, <2>4, <2>5 DEF TypeOK
  <1>15. CASE OnRpcResultNotReturn
    <2>1. rpcDataChan # << >>
      BY <1>15 DEF OnRpcResultNotReturn
    <2>2. Head(rpcDataChan).id \in MsgIds
      BY <2>1, TypeResults
    <2>3. rpcDataChan' \in Seq([id : MsgIds, notReturn : BOOLEAN])
      BY <1>15, <2>1, TypeResults DEF OnRpcResultNotReturn
    <2>4. pendingQueue' \in [MsgIds -> Nat] /\ deferred' \in SUBSET MsgIds
      <3> DEFINE id == Head(rpcDataChan).id
      <3>1. /\ pendingQueue' = [pendingQueue EXCEPT ![id] = @ + 1]
            /\ deferred' = deferred \cup { id }
        BY <1>15 DEF OnRpcResultNotReturn
      <3> HIDE DEF id
      <3> QED BY <2>2, <3>1 DEF TypeOK, id
    <2>5. UNCHANGED << inq, outQueue, conn, sess, sync, handling, todo,
                       tmpRpcApiMessageList, rpcQueue, late, nextMid, inputs,
                       dispatched, answers, acked, shed, forgotten >>
      BY <1>15 DEF OnRpcResultNotReturn
    <2> QED BY <2>3, <2>4, <2>5 DEF TypeOK
  <1>16. CASE OnRpcResult
    <2> DEFINE id == Head(rpcDataChan).id
    <2>1. id \in MsgIds
      BY <1>16, TypeResults DEF OnRpcResult
    <2>2. sendRpcResult(id)
      BY <1>16 DEF OnRpcResult
    <2>3. PICK q \in QueuesAfterResult(id) :
             outQueue' = q \/ outQueue' \in sendQueueToGateway(q, TRUE)
      BY <1>16 DEF OnRpcResult
    <2>4. OutQueueOK(outQueue')
      BY <2>1, <2>3, TypeQueuesAfterResult, SendKeeps
    <2>5. rpcDataChan' \in Seq([id : MsgIds, notReturn : BOOLEAN])
      BY <1>16, TypeResults DEF OnRpcResult
    <2>6. canSync' \in BOOLEAN
      BY <1>16, Zenon DEF OnRpcResult, TypeOK
    <2>7. listState' \in { "None", "PermBound" }
      BY <1>16 DEF OnRpcResult, TypeOK
    <2>8. UNCHANGED << pendingQueue, conn, sess, handling, todo,
                       tmpRpcApiMessageList, rpcQueue, late, inputs, dispatched,
                       acked, forgotten, deferred >>
      BY <1>16 DEF OnRpcResult
    <2> HIDE DEF id
    <2>9. /\ inQueue' \in [MsgIds -> InStates \cup { "ABSENT" }]
          /\ minMsgId' \in Nat
          /\ maxMsgId' \in Nat
          /\ nextMid' \in Nat
          /\ shed' \in SUBSET (MsgIds \cup {0})
          /\ answers' \in [MsgIds -> Nat]
      BY <2>1, <2>2, TypeRpcResult
    <2> QED BY <2>4, <2>5, <2>6, <2>7, <2>8, <2>9 DEF TypeOK, OutQueueOK
  <1>17. ASSUME NEW id \in MsgIds, OnSyncRpcResultData(id)
         PROVE  TypeOK'
    <2>1. /\ sendRpcResultToQueue(id)
          /\ outQueue' = ShrinkOut(AddRpcResultMsg(outQueue, id))
      BY <1>17 DEF OnSyncRpcResultData
    <2>2. OutQueueOK(outQueue')
      BY <2>1, TypeAddRpcResultMsg, ShrinkOutSubset
    <2>3. pendingQueue' \in [MsgIds -> Nat] /\ late' \in SUBSET MsgIds
      BY <1>17 DEF OnSyncRpcResultData, TypeOK
    <2>4. /\ nextMid' \in Nat
          /\ shed' \in SUBSET (MsgIds \cup {0})
          /\ answers' \in [MsgIds -> Nat]
      BY <2>1, TypeResultToQueue
    <2>5. UNCHANGED << inq, conn, sess, sync, handling, todo,
                       tmpRpcApiMessageList, rpcQueue, rpcDataChan, inputs,
                       dispatched, acked, forgotten, deferred >>
      BY <1>17 DEF OnSyncRpcResultData
    <2> QED BY <2>2, <2>3, <2>4, <2>5 DEF TypeOK, OutQueueOK
  <1>18. ASSUME NEW id \in MsgIds, OnTimerTimeout(id)
         PROVE  TypeOK'
    <2>1. PICK q \in QueuesAfterResult(id) : EndOfTick(q)
      BY <1>18 DEF OnTimerTimeout
    <2>2. /\ OutQueueOK(outQueue')
          /\ connState' \in { "New", "Online", "Offline", "Close" }
      BY <2>1, TypeQueuesAfterResult, TypeEndOfTick
    <2>3. sendRpcResult(id)
      BY <1>18 DEF OnTimerTimeout
    <2>4. /\ inQueue' \in [MsgIds -> InStates \cup { "ABSENT" }]
          /\ minMsgId' \in Nat
          /\ maxMsgId' \in Nat
          /\ nextMid' \in Nat
          /\ shed' \in SUBSET (MsgIds \cup {0})
          /\ answers' \in [MsgIds -> Nat]
      BY <2>3, TypeRpcResult
    <2>5. pendingQueue' \in [MsgIds -> Nat]
      BY <1>18 DEF OnTimerTimeout, TypeOK
    <2>6. UNCHANGED << gatewayId, sess, sync, handling, todo, tmpRpcApiMessageList,
                       rpc, inputs, dispatched, acked, forgotten, deferred >>
      BY <1>18 DEF OnTimerTimeout
    <2> QED BY <2>2, <2>4, <2>5, <2>6 DEF TypeOK, OutQueueOK
  <1>19. CASE OnTimer
    <2>1. /\ OutQueueOK(outQueue')
          /\ connState' \in { "New", "Online", "Offline", "Close" }
      BY <1>19, TypeOutQueue, TypeEndOfTick DEF OnTimer
    <2> QED BY <1>19, <2>1 DEF TypeOK, OnTimer, OutQueueOK
  <1>20. CASE \E o \in outQueue : AckWaitElapses(o)
    <2>1. PICK o \in outQueue :
            outQueue' = (outQueue \ {o}) \cup { [o EXCEPT !.sent = "expired"] }
      BY <1>20 DEF AckWaitElapses
    <2>2. [o EXCEPT !.sent = "expired"] \in OutboxMsg
      BY DEF TypeOK, OutboxMsg
    <2>3. OutQueueOK(outQueue \ {o})
      BY FS_Subset DEF TypeOK, OutQueueOK
    <2>4. OutQueueOK(outQueue')
      BY <2>1, <2>2, <2>3, AddEntry
    <2> QED BY <1>20, <2>4 DEF TypeOK, AckWaitElapses, OutQueueOK
  <1>21. CASE UNCHANGED vars
    BY <1>21 DEF vars, TypeOK
  <1> QED
    BY <1>1, <1>2, <1>3, <1>4, <1>5, <1>6, <1>7, <1>8, <1>9, <1>10, <1>11, <1>12,
       <1>13, <1>14, <1>15, <1>16, <1>17, <1>18, <1>19, <1>20, <1>21
       DEF Next, TakeEvent, HandleMessage, TakeResult

\* Init has the types.
LEMMA InitType ==
    ASSUME Init
    PROVE  TypeOK
  <1>1. nextMid \in Nat /\ IsFiniteSet(outQueue)
    BY FS_EmptySet, MsgIdsAssumption DEF Init
  <1>2. handling \in BOOLEAN /\ canSync \in BOOLEAN
    BY Zenon DEF Init
  <1>3. /\ inQueue \in [MsgIds -> InStates \cup { "ABSENT" }]
        /\ pendingQueue \in [MsgIds -> Nat]
        /\ dispatched \in [MsgIds -> Nat]
        /\ answers \in [MsgIds -> Nat]
    BY DEF Init
  <1>4. /\ todo \in Seq(MsgIds)
        /\ tmpRpcApiMessageList \in Seq(MsgIds)
        /\ rpcQueue \in Seq(MsgIds)
        /\ rpcDataChan \in Seq([id : MsgIds, notReturn : BOOLEAN])
    BY DEF Init
  <1>5. /\ outQueue \in SUBSET OutboxMsg
        /\ late \in SUBSET MsgIds
        /\ acked \in SUBSET MsgIds
        /\ shed \in SUBSET (MsgIds \cup {0})
        /\ forgotten \in SUBSET MsgIds
        /\ deferred \in SUBSET MsgIds
    BY DEF Init
  <1>6. /\ minMsgId \in Nat
        /\ maxMsgId \in Nat
        /\ gatewayId \in Gateways \cup { NoGateway }
        /\ connState \in { "New", "Online", "Offline", "Close" }
        /\ sessionState \in { "New", "Created" }
        /\ firstMsgId \in MsgIds \cup {0}
        /\ listState \in { "None", "PermBound" }
        /\ inputs \in Nat
    BY DEF Init
  <1> QED BY <1>1, <1>2, <1>3, <1>4, <1>5, <1>6 DEF TypeOK

\* Every variable keeps its type.
THEOREM TypeCorrect == Spec => []TypeOK
  <1>1. Init => TypeOK
    BY InitType
  <1>2. TypeOK /\ [Next]_vars => TypeOK'
    BY TypeStep
  <1> QED BY <1>1, <1>2, PTL DEF Spec

-----------------------------------------------------------------------------
(* Answers.  What IndInv says of outQueue, for any queue q.                 *)

AnswersOK(q, ans, ackd, shd, mid) ==
    /\ \A o \in q : o.id # 0 => /\ o.ack <=> Kind[o.id] \in ResultKinds
                                /\ o.ack => ans[o.id] > 0
    /\ \A id \in MsgIds : ans[id] > 0 => Kind[id] \in ResultKinds
    /\ \A o \in q : /\ o.mid < mid
                    /\ \A p \in q : p.mid = o.mid => p.id = o.id
    /\ \A id \in MsgIds : ans[id] > 0 => \/ \E o \in q : o.id = id
                                         \/ id \in ackd
                                         \/ id \in shd

\* AnswersOK of the session's variables is the three invariants.
LEMMA AnswersOKIsInvariant ==
    QueuedAnswers /\ UniqueMids /\ AnswerKept
      <=> AnswersOK(outQueue, answers, acked, shed, nextMid)
  BY DEF QueuedAnswers, UniqueMids, AnswerKept, AnswersOK, Lookup

\* Sending keeps the answers.
LEMMA AnswersOKKeeps ==
    ASSUME NEW q, NEW r, NEW ans, NEW ackd, NEW shd, NEW mid,
           AnswersOK(q, ans, ackd, shd, mid), KeepsAnswers(q, r), 0 \notin MsgIds
    PROVE  AnswersOK(r, ans, ackd, shd, mid)
  <1>1. ASSUME NEW x \in r
        PROVE  /\ x.id # 0 => /\ x.ack <=> Kind[x.id] \in ResultKinds
                              /\ x.ack => ans[x.id] > 0
               /\ x.mid < mid
               /\ \A y \in r : y.mid = x.mid => y.id = x.id
    BY DEF AnswersOK, KeepsAnswers
  <1>2. ASSUME NEW id \in MsgIds, ans[id] > 0
        PROVE  (\E o \in r : o.id = id) \/ id \in ackd \/ id \in shd
    <2>1. CASE \E o \in q : o.id = id
      <3>1. PICK o \in q : o.id = id
        BY <2>1
      <3>2. Kind[id] \in ResultKinds
        BY <1>2 DEF AnswersOK
      <3>3. \A m \in q : m.id = o.id => m.ack
        BY <3>1, <3>2 DEF AnswersOK
      <3> QED BY <3>1, <3>3 DEF KeepsAnswers
    <2>2. CASE ~ \E o \in q : o.id = id
      BY <1>2, <2>2 DEF AnswersOK
    <2> QED BY <2>1, <2>2
  <1> QED BY <1>1, <1>2 DEF AnswersOK

\* What Shrink drops is accounted for.
LEMMA AnswersOKShrink ==
    ASSUME NEW q, NEW ans, NEW ackd, NEW shd, NEW mid,
           AnswersOK(q, ans, ackd, shd, mid)
    PROVE  AnswersOK(ShrinkOut(q), ans, ackd,
                     shd \cup { o.id : o \in q \ ShrinkOut(q) }, mid)
  <1>1. ShrinkOut(q) \subseteq q
    BY DEF ShrinkOut
  <1> QED BY <1>1 DEF AnswersOK

\* An entry that answers no request.
LEMMA AnswersOKNotify ==
    ASSUME TypeOK, AnswersOK(outQueue, answers, acked, shed, nextMid),
           NEW e, e.mid = nextMid,
           e.id # 0 => ~e.ack /\ Kind[e.id] \notin ResultKinds
    PROVE  AnswersOK(outQueue \cup { e }, answers, acked, shed, nextMid + 1)
  <1> DEFINE q == outQueue \cup { e }
  <1>1. nextMid \in Nat /\ \A o \in outQueue : o.mid \in Nat
    BY DEF TypeOK, OutboxMsg
  <1>2. \A o \in q : o.id # 0 => /\ o.ack <=> Kind[o.id] \in ResultKinds
                                 /\ o.ack => answers[o.id] > 0
    BY DEF AnswersOK
  <1>3. \A o \in q : /\ o.mid < nextMid + 1
                     /\ \A p \in q : p.mid = o.mid => p.id = o.id
    BY <1>1 DEF AnswersOK
  <1> QED BY <1>2, <1>3 DEF AnswersOK

\* A push, or a reply that needs no acknowledgement, takes no answer away.
LEMMA AnswersOKAddNotify ==
    ASSUME TypeOK, AnswersOK(outQueue, answers, acked, shed, nextMid),
           NEW id, NEW confirm,
           id # 0 => ~confirm /\ Kind[id] \notin ResultKinds
    PROVE  AnswersOK(AddNotifyMsg(outQueue, id, confirm),
                     answers, acked, shed, nextMid + 1)
  <1> DEFINE e == Entry(nextMid, id, confirm)
  <1>1. e.id = id /\ e.ack = confirm /\ e.mid = nextMid
    BY DEF Entry
  <1>2. AddNotifyMsg(outQueue, id, confirm) = outQueue \cup { e }
    BY DEF AddNotifyMsg
  <1> HIDE DEF e
  <1> QED BY <1>1, <1>2, AnswersOKNotify

\* A new answer is queued, or there was one.
LEMMA AnswersOKResult ==
    ASSUME TypeOK, AnswersOK(outQueue, answers, acked, shed, nextMid),
           NEW id \in MsgIds, Kind[id] \in ResultKinds, sendRpcResultToQueue(id),
           0 \notin MsgIds
    PROVE  /\ AnswersOK(AddRpcResultMsg(outQueue, id), answers', acked, shed, nextMid')
           /\ answers'[id] > 0
           /\ \A j \in MsgIds : answers'[j] >= answers[j]
  <1> DEFINE e == Entry(nextMid, id, TRUE)
  <1>1. e.id = id /\ e.ack = TRUE /\ e.mid = nextMid
    BY DEF Entry
  <1>2. /\ nextMid \in Nat
        /\ \A o \in outQueue : o.mid \in Nat
        /\ answers \in [MsgIds -> Nat]
    BY DEF TypeOK, OutboxMsg
  <1>3. nextMid' = nextMid + 1
    BY DEF sendRpcResultToQueue, EnqueueAndShrink
  <1>4. CASE Lookup(outQueue, id) # {}
    <2>1. answers' = answers
      BY <1>2, <1>4 DEF sendRpcResultToQueue
    <2>2. AddRpcResultMsg(outQueue, id) = outQueue
      BY <1>4 DEF AddRpcResultMsg
    <2>3. answers[id] > 0
      BY <1>4 DEF AnswersOK, Lookup
    <2> QED BY <1>2, <1>3, <2>1, <2>2, <2>3 DEF AnswersOK
  <1>5. CASE Lookup(outQueue, id) = {}
    <2>1. answers' = [answers EXCEPT ![id] = @ + 1]
      BY <1>5 DEF sendRpcResultToQueue
    <2>2. AddRpcResultMsg(outQueue, id) = outQueue \cup { e }
      BY <1>5 DEF AddRpcResultMsg
    <2>3. \A j \in MsgIds : answers'[j] = IF j = id THEN answers[j] + 1 ELSE answers[j]
      BY <1>2, <2>1
    <2>4. \A o \in outQueue : o.id # 0 => o.id \in MsgIds
      BY DEF TypeOK, OutboxMsg
    <2> HIDE DEF e
    <2> QED BY <1>1, <1>2, <1>3, <2>2, <2>3, <2>4 DEF AnswersOK
  <1> QED BY <1>4, <1>5

\* The client acknowledges the entries got.
LEMMA AnswersOKAck ==
    ASSUME NEW q, NEW ans, NEW ackd, NEW shd, NEW mid,
           AnswersOK(q, ans, ackd, shd, mid), NEW got \in SUBSET q, 0 \notin MsgIds
    PROVE  AnswersOK(OnMsgsAckQueue(q, { o.mid : o \in got }), ans,
                     ackd \cup ({ o.id : o \in got } \ {0}), shd, mid)
  <1>1. ASSUME NEW id \in MsgIds, NEW o \in q, o.id = id
        PROVE  \/ o \in OnMsgsAckQueue(q, { p.mid : p \in got })
               \/ id \in { p.id : p \in got } \ {0}
    <2>1. CASE o.mid \in { p.mid : p \in got }
      <3>1. PICK p \in got : p.mid = o.mid
        BY <2>1
      <3>2. p.id = id
        BY <1>1, <3>1 DEF AnswersOK
      <3> QED BY <3>2
    <2>2. CASE o.mid \notin { p.mid : p \in got }
      BY <2>2 DEF OnMsgsAckQueue
    <2> QED BY <2>1, <2>2
  <1>2. OnMsgsAckQueue(q, { o.mid : o \in got }) \subseteq q
    BY DEF OnMsgsAckQueue
  <1> QED BY <1>1, <1>2 DEF AnswersOK

\* Pushes, whose id is 0, are no answers.
LEMMA ZeroIsNoMsgId == 0 \notin MsgIds
  BY MsgIdsAssumption

\* Shrinking the queue after an entry was added.
LEMMA AnswersOKEnqueue ==
    ASSUME NEW q, AnswersOK(q, answers, acked, shed, nextMid + 1), EnqueueAndShrink(q)
    PROVE  AnswersOK(ShrinkOut(q), answers, acked, shed', nextMid')
  BY AnswersOKShrink DEF EnqueueAndShrink

\* The queue after an rpc_result was added and the queue was shrunk.
LEMMA AnswersOKResultShrink ==
    ASSUME TypeOK, AnswersOK(outQueue, answers, acked, shed, nextMid),
           NEW id \in MsgIds, Kind[id] \in ResultKinds, sendRpcResultToQueue(id)
    PROVE  /\ AnswersOK(ShrinkOut(AddRpcResultMsg(outQueue, id)),
                        answers', acked, shed', nextMid')
           /\ answers'[id] > 0
           /\ \A j \in MsgIds : answers'[j] >= answers[j]
  <1> DEFINE q == AddRpcResultMsg(outQueue, id)
  <1>1. /\ AnswersOK(q, answers', acked, shed, nextMid')
        /\ answers'[id] > 0
        /\ \A j \in MsgIds : answers'[j] >= answers[j]
    BY AnswersOKResult, ZeroIsNoMsgId
  <1>2. shed' = shed \cup { o.id : o \in q \ ShrinkOut(q) }
    BY DEF sendRpcResultToQueue, EnqueueAndShrink
  <1> HIDE DEF q
  <1>3. AnswersOK(ShrinkOut(q), answers', acked, shed', nextMid')
    BY <1>1, <1>2, AnswersOKShrink
  <1> QED BY <1>1, <1>3 DEF q

\* sendRpcResult: the answer is queued unless the window has dropped its id.
LEMMA AnswersOKRpcResult ==
    ASSUME TypeOK, AnswersOK(outQueue, answers, acked, shed, nextMid),
           NEW id \in MsgIds, Kind[id] \in RpcKinds, sendRpcResult(id),
           NEW q \in QueuesAfterResult(id)
    PROVE  /\ OutQueueOK(q)
           /\ AnswersOK(q, answers', acked, shed', nextMid')
           /\ \A j \in MsgIds : answers'[j] >= answers[j]
  <1>1. OutQueueOK(q)
    BY TypeQueuesAfterResult
  <1>2. CASE id \in Stored
    <2> DEFINE r == ShrinkOut(AddRpcResultMsg(outQueue, id))
    <2>1. sendRpcResultToQueue(id) /\ q \in sendQueueToGateway(r, canSync)
      BY <1>2 DEF sendRpcResult, QueuesAfterResult
    <2>2. Kind[id] \in ResultKinds
      BY DEF ResultKinds
    <2>3. OutQueueOK(r)
      BY TypeAddRpcResultMsg, ShrinkOutSubset
    <2>4. /\ AnswersOK(r, answers', acked, shed', nextMid')
          /\ \A j \in MsgIds : answers'[j] >= answers[j]
      BY <2>1, <2>2, AnswersOKResultShrink
    <2> HIDE DEF r
    <2>5. KeepsAnswers(r, q)
      BY <2>1, <2>3, SendKeeps
    <2>6. AnswersOK(q, answers', acked, shed', nextMid')
      BY <2>4, <2>5, AnswersOKKeeps, ZeroIsNoMsgId
    <2> QED BY <1>1, <2>4, <2>6
  <1>3. CASE id \notin Stored
    <2>1. q = outQueue /\ UNCHANGED << nextMid, answers, shed >>
      BY <1>3 DEF sendRpcResult, QueuesAfterResult
    <2>2. \A j \in MsgIds : answers[j] \in Nat
      BY DEF TypeOK
    <2> QED BY <1>1, <2>1, <2>2
  <1> QED BY <1>2, <1>3

\* The end of a tick keeps the answers.
LEMMA AnswersOKEndOfTick ==
    ASSUME NEW q, OutQueueOK(q), AnswersOK(q, answers', acked, shed', nextMid'),
           EndOfTick(q)
    PROVE  AnswersOK(outQueue', answers', acked, shed', nextMid')
  <1>1. outQueue' = q \/ outQueue' \in sendQueueToGateway(q, canSync)
    BY DEF EndOfTick
  <1> QED BY <1>1, SendKeeps, AnswersOKKeeps, ZeroIsNoMsgId

\* No step loses an answer, and none takes one back.
LEMMA AnswersStep ==
    ASSUME TypeOK, RpcOnly, AnswersOK(outQueue, answers, acked, shed, nextMid),
           [Next]_vars
    PROVE  /\ AnswersOK(outQueue', answers', acked', shed', nextMid')
           /\ \A id \in MsgIds : answers'[id] >= answers[id]
  <1> DEFINE Goal == /\ AnswersOK(outQueue', answers', acked', shed', nextMid')
                     /\ \A id \in MsgIds : answers'[id] >= answers[id]
  <1> SUFFICES Goal
    OBVIOUS
  <1> USE DEF inq, conn, sess, sync, rpc, hist
  <1>t. \A id \in MsgIds : answers[id] \in Nat
    BY DEF TypeOK
  <1>u. UNCHANGED << outQueue, answers, acked, shed, nextMid >> => Goal
    BY <1>t
  <1>1. ASSUME NEW g \in Gateways, NEW p \in Packets, OnSessionData(g, p)
        PROVE  Goal
    <2>1. UNCHANGED << answers, acked >>
      BY <1>1 DEF OnSessionData
    <2>2. CASE UNCHANGED << outQueue, nextMid, shed >>
      BY <1>u, <2>1, <2>2
    <2>3. CASE ~ UNCHANGED << outQueue, nextMid, shed >>
      <3> DEFINE e(r) == [Entry(nextMid, 0, TRUE) EXCEPT !.reached = r]
      <3>1. PICK r \in BOOLEAN : /\ outQueue' = ShrinkOut(outQueue \cup { e(r) })
                                 /\ EnqueueAndShrink(outQueue \cup { e(r) })
        BY <1>1, <2>3 DEF OnSessionData
      <3>2. e(r).mid = nextMid /\ e(r).id = 0
        BY DEF Entry
      <3> HIDE DEF e
      <3>3. AnswersOK(outQueue \cup { e(r) }, answers, acked, shed, nextMid + 1)
        BY <3>2, AnswersOKNotify
      <3>4. AnswersOK(outQueue', answers, acked, shed', nextMid')
        BY <3>1, <3>3, AnswersOKEnqueue
      <3> QED BY <1>t, <2>1, <3>4
    <2> QED BY <2>2, <2>3
  <1>2. CASE OnSyncData
    <2> DEFINE q == AddNotifyMsg(outQueue, 0, TRUE)
    <2>1. /\ EnqueueAndShrink(q)
          /\ outQueue' \in sendQueueToGateway(ShrinkOut(q), canSync)
          /\ UNCHANGED << answers, acked >>
      BY <1>2 DEF OnSyncData
    <2>2. OutQueueOK(q)
      BY TypeAddNotifyMsg
    <2>3. AnswersOK(q, answers, acked, shed, nextMid + 1)
      BY AnswersOKAddNotify
    <2> HIDE DEF q
    <2>4. AnswersOK(ShrinkOut(q), answers, acked, shed', nextMid')
      BY <2>1, <2>3, AnswersOKEnqueue
    <2>5. KeepsAnswers(ShrinkOut(q), outQueue')
      BY <2>1, <2>2, ShrinkOutSubset, SendKeeps
    <2>6. AnswersOK(outQueue', answers, acked, shed', nextMid')
      BY <2>4, <2>5, AnswersOKKeeps, ZeroIsNoMsgId
    <2> QED BY <1>t, <2>1, <2>6
  <1>3. ASSUME NEW id \in MsgIds, OnMsgsAck(id)
        PROVE  Goal
    <2>1. PICK got \in SUBSET outQueue :
            /\ outQueue' = OnMsgsAckQueue(outQueue, { o.mid : o \in got })
            /\ acked' = acked \cup ({ o.id : o \in got } \ {0})
      BY <1>3 DEF OnMsgsAck
    <2>2. UNCHANGED << answers, shed, nextMid >>
      BY <1>3 DEF OnMsgsAck
    <2>3. AnswersOK(outQueue', answers, acked', shed, nextMid)
      BY <2>1, AnswersOKAck, ZeroIsNoMsgId
    <2> QED BY <1>t, <2>2, <2>3
  <1>4. ASSUME NEW id \in MsgIds, OnServiceMessage(id)
        PROVE  Goal
    <2> DEFINE q == AddNotifyMsg(outQueue, id, FALSE)
    <2>1. /\ Kind[id] = "service"
          /\ EnqueueAndShrink(q)
          /\ outQueue' = ShrinkOut(q)
          /\ UNCHANGED << answers, acked >>
      BY <1>4 DEF OnServiceMessage
    <2>2. AnswersOK(q, answers, acked, shed, nextMid + 1)
      BY <2>1, AnswersOKAddNotify DEF ResultKinds, RpcKinds
    <2> HIDE DEF q
    <2>3. AnswersOK(outQueue', answers, acked, shed', nextMid')
      BY <2>1, <2>2, AnswersOKEnqueue
    <2> QED BY <1>t, <2>1, <2>3
  <1>5. ASSUME NEW id \in MsgIds, OnAnswerNow(id) \/ OnRpcRequestDenied(id)
        PROVE  Goal
    <2>1. /\ Kind[id] \in ResultKinds
          /\ sendRpcResultToQueue(id)
          /\ outQueue' = ShrinkOut(AddRpcResultMsg(outQueue, id))
          /\ UNCHANGED acked
      BY <1>5 DEF OnAnswerNow, OnRpcRequestDenied, ResultKinds
    <2> QED BY <2>1, AnswersOKResultShrink
  <1>6. ASSUME NEW id \in MsgIds, OnMsgsAllInfo(id)
        PROVE  Goal
    <2>1. PICK got \in SUBSET outQueue, missing \in SUBSET outQueue :
            /\ outQueue' \in Resend(
                 OnMsgsAckQueue(outQueue, { o.mid : o \in got }),
                 { o.mid : o \in missing })
            /\ acked' = acked \cup ({ o.id : o \in got } \ {0})
      BY <1>6 DEF OnMsgsAllInfo
    <2>2. UNCHANGED << answers, shed, nextMid >>
      BY <1>6 DEF OnMsgsAllInfo
    <2> DEFINE q == OnMsgsAckQueue(outQueue, { o.mid : o \in got })
    <2>3. AnswersOK(q, answers, acked', shed, nextMid)
      BY <2>1, AnswersOKAck, ZeroIsNoMsgId
    <2>4. OutQueueOK(q)
      <3>1. q \in SUBSET outQueue
        BY DEF OnMsgsAckQueue
      <3> QED BY <3>1, FS_Subset DEF OutQueueOK, TypeOK
    <2>5. outQueue' \in Resend(q, { o.mid : o \in missing })
      BY <2>1
    <2> HIDE DEF q
    <2>6. AnswersOK(outQueue', answers, acked', shed, nextMid)
      BY <2>3, <2>4, <2>5, ResendKeeps, AnswersOKKeeps, ZeroIsNoMsgId
    <2> QED BY <1>t, <2>2, <2>6
  <1>7. ASSUME NEW id \in MsgIds, OnMsgResendReq(id)
        PROVE  Goal
    <2> DEFINE q == AddNotifyMsg(outQueue, id, FALSE)
    <2>1. \/ \E ids : outQueue' \in Resend(outQueue, ids) /\ UNCHANGED << nextMid, shed >>
          \/ outQueue' = ShrinkOut(q) /\ EnqueueAndShrink(q)
      BY <1>7 DEF OnMsgResendReq
    <2>2. UNCHANGED << answers, acked >>
      BY <1>7 DEF OnMsgResendReq
    <2>3. CASE \E ids : outQueue' \in Resend(outQueue, ids) /\ UNCHANGED << nextMid, shed >>
      <3>1. AnswersOK(outQueue', answers, acked, shed, nextMid)
        BY <2>3, ResendKeeps, TypeOutQueue, AnswersOKKeeps, ZeroIsNoMsgId
      <3> QED BY <1>t, <2>2, <2>3, <3>1
    <2>4. CASE outQueue' = ShrinkOut(q) /\ EnqueueAndShrink(q)
      <3>1. Kind[id] = "resendReq"
        BY <1>7 DEF OnMsgResendReq
      <3>2. AnswersOK(q, answers, acked, shed, nextMid + 1)
        BY <3>1, AnswersOKAddNotify DEF ResultKinds, RpcKinds
      <3> HIDE DEF q
      <3>3. AnswersOK(outQueue', answers, acked, shed', nextMid')
        BY <2>4, <3>2, AnswersOKEnqueue
      <3> QED BY <1>t, <2>2, <3>3
    <2> QED BY <2>1, <2>3, <2>4
  <1>8. CASE EndOfPacket
    <2>1. /\ outQueue' \in sendQueueToGateway(outQueue, canSync)
          /\ UNCHANGED << answers, acked, shed, nextMid >>
      BY <1>8 DEF EndOfPacket
    <2>2. AnswersOK(outQueue', answers, acked, shed, nextMid)
      BY <2>1, SendKeeps, TypeOutQueue, AnswersOKKeeps, ZeroIsNoMsgId
    <2> QED BY <1>t, <2>1, <2>2
  <1>9. CASE OnRpcResult
    <2> DEFINE id == Head(rpcDataChan).id
    <2>1. rpcDataChan # << >> /\ id \in MsgIds
      BY <1>9, TypeResults DEF OnRpcResult
    <2>2. Kind[id] \in RpcKinds
      <3>1. rpcDataChan \in Seq([id : MsgIds, notReturn : BOOLEAN])
        BY DEF TypeOK
      <3> QED BY <2>1, <3>1 DEF RpcOnly
    <2>3. sendRpcResult(id) /\ UNCHANGED acked
      BY <1>9 DEF OnRpcResult
    <2>4. PICK q \in QueuesAfterResult(id) :
             outQueue' = q \/ outQueue' \in sendQueueToGateway(q, TRUE)
      BY <1>9 DEF OnRpcResult
    <2> HIDE DEF id
    <2>5. /\ OutQueueOK(q)
          /\ AnswersOK(q, answers', acked, shed', nextMid')
          /\ \A j \in MsgIds : answers'[j] >= answers[j]
      BY <2>1, <2>2, <2>3, AnswersOKRpcResult
    <2>6. AnswersOK(outQueue', answers', acked, shed', nextMid')
      BY <2>4, <2>5, SendKeeps, AnswersOKKeeps, ZeroIsNoMsgId
    <2> QED BY <2>3, <2>5, <2>6
  <1>10. ASSUME NEW id \in MsgIds, OnSyncRpcResultData(id)
         PROVE  Goal
    <2>1. /\ id \in late
          /\ sendRpcResultToQueue(id)
          /\ outQueue' = ShrinkOut(AddRpcResultMsg(outQueue, id))
          /\ UNCHANGED acked
      BY <1>10 DEF OnSyncRpcResultData
    <2>2. Kind[id] \in ResultKinds
      BY <2>1 DEF RpcOnly, ResultKinds
    <2> QED BY <2>1, <2>2, AnswersOKResultShrink
  <1>11. ASSUME NEW id \in MsgIds, OnTimerTimeout(id)
         PROVE  Goal
    <2>1. PICK q \in QueuesAfterResult(id) : EndOfTick(q)
      BY <1>11 DEF OnTimerTimeout
    <2>2. pendingQueue[id] > 0 /\ sendRpcResult(id) /\ UNCHANGED acked
      BY <1>11 DEF OnTimerTimeout
    <2>3. Kind[id] \in RpcKinds
      BY <2>2 DEF RpcOnly
    <2>4. /\ OutQueueOK(q)
          /\ AnswersOK(q, answers', acked, shed', nextMid')
          /\ \A j \in MsgIds : answers'[j] >= answers[j]
      BY <2>1, <2>2, <2>3, AnswersOKRpcResult
    <2>5. AnswersOK(outQueue', answers', acked, shed', nextMid')
      BY <2>1, <2>4, AnswersOKEndOfTick
    <2> QED BY <2>2, <2>4, <2>5
  <1>12. CASE OnTimer
    <2>1. EndOfTick(outQueue) /\ UNCHANGED << answers, acked, shed, nextMid >>
      BY <1>12 DEF OnTimer
    <2>2. AnswersOK(outQueue', answers', acked, shed', nextMid')
      BY <2>1, TypeOutQueue, AnswersOKEndOfTick
    <2> QED BY <1>t, <2>1, <2>2
  <1>13. CASE \E o \in outQueue : AckWaitElapses(o)
    <2>1. PICK o \in outQueue :
            outQueue' = (outQueue \ {o}) \cup { [o EXCEPT !.sent = "expired"] }
      BY <1>13 DEF AckWaitElapses
    <2> DEFINE e == [o EXCEPT !.sent = "expired"]
    <2>2. e.id = o.id /\ e.ack = o.ack /\ e.mid = o.mid
      BY DEF TypeOK, OutboxMsg
    <2>3. outQueue' = (outQueue \ {o}) \cup { e }
      BY <2>1
    <2> HIDE DEF e
    <2>4. KeepsAnswers(outQueue, outQueue')
      BY <2>2, <2>3 DEF KeepsAnswers
    <2>5. UNCHANGED << answers, acked, shed, nextMid >>
      BY <1>13 DEF AckWaitElapses
    <2>6. AnswersOK(outQueue', answers, acked, shed, nextMid)
      BY <2>4, AnswersOKKeeps, ZeroIsNoMsgId
    <2> QED BY <1>t, <2>5, <2>6
  <1>14. ASSUME NEW g \in Gateways,
                OnSessionNew(g) \/ OnSessionClosed(g) \/ OnSessionDataRefused(g)
         PROVE  Goal
    <2>1. UNCHANGED << outQueue, answers, acked, shed, nextMid >>
      BY <1>14 DEF OnSessionNew, OnSessionClosed, OnSessionDataRefused
    <2> HIDE DEF Goal
    <2> QED BY <1>u, <2>1
  <1>15. ASSUME NEW id \in MsgIds,
                DuplicateMessage(id) \/ OnIgnored(id) \/ OnRpcRequest(id)
         PROVE  Goal
    <2>1. UNCHANGED << outQueue, answers, acked, shed, nextMid >>
      BY <1>15 DEF DuplicateMessage, OnIgnored, OnRpcRequest
    <2> HIDE DEF Goal
    <2> QED BY <1>u, <2>1
  <1>16. CASE SkipMessage \/ RpcRunLoop \/ OnRpcResultNotReturn \/ UNCHANGED vars
    <2>1. UNCHANGED << outQueue, answers, acked, shed, nextMid >>
      BY <1>16 DEF SkipMessage, RpcRunLoop, OnRpcResultNotReturn, vars
    <2> HIDE DEF Goal
    <2> QED BY <1>u, <2>1
  <1> QED
    <2> HIDE DEF Goal
    <2> QED BY <1>1, <1>2, <1>3, <1>4, <1>5, <1>6, <1>7, <1>8, <1>9, <1>10, <1>11,
               <1>12, <1>13, <1>14, <1>15, <1>16
            DEF Next, TakeEvent, HandleMessage, TakeResult

-----------------------------------------------------------------------------
(* The window.                                                              *)

\* What a step may do to the window and to the requests counted in dispatched.
WindowEffect ==
    \/ UNCHANGED << inq, forgotten, dispatched >>
    \/ \E id \in MsgIds, s \in InStates :
         /\ AddMsgId(id, s)
         /\ s = "NONE" => inQueue[id] \in { "ABSENT", "NONE" }
         /\ s = "PROCESSING" => inQueue[id] = "PROCESSING"
         /\ UNCHANGED << forgotten, dispatched >>
    \/ \E id \in MsgIds :
         /\ AddMsgId(id, "PROCESSING")
         /\ inQueue[id] \in { "ABSENT", "NONE" }
         /\ dispatched' = [dispatched EXCEPT ![id] = @ + 1]
         /\ UNCHANGED forgotten
         /\ tmpRpcApiMessageList' = Append(tmpRpcApiMessageList, id)
    \/ /\ \E ids : ChangeAckReceived(ids)
       /\ UNCHANGED << minMsgId, maxMsgId, forgotten, dispatched >>
    \/ /\ ShrinkIn
       /\ forgotten' = forgotten \cup Evicted
       /\ UNCHANGED dispatched

\* Every step has one of those effects on the window.
LEMMA WindowStep ==
    ASSUME TypeOK, [Next]_vars
    PROVE  WindowEffect
  <1> USE DEF inq, conn, sess, sync, rpc, hist
  <1> DEFINE Added(id, s) ==
               /\ AddMsgId(id, s)
               /\ s \in InStates
               /\ s = "NONE" => inQueue[id] \in { "ABSENT", "NONE" }
               /\ s = "PROCESSING" => inQueue[id] = "PROCESSING"
               /\ UNCHANGED << forgotten, dispatched >>
  <1>a. ASSUME NEW id \in MsgIds, NEW s, Added(id, s)
        PROVE  WindowEffect
    BY <1>a, Zenon DEF WindowEffect
  <1>1. ASSUME NEW g \in Gateways, NEW p \in Packets, OnSessionData(g, p)
        PROVE  WindowEffect
    <2>1. p.outer \in MsgIds
      BY PacketsAssumption DEF Packet
    <2>2. UNCHANGED << forgotten, dispatched >>
      BY <1>1 DEF OnSessionData
    <2>3. CASE UNCHANGED inq
      BY <2>2, <2>3 DEF WindowEffect
    <2>4. CASE AddMsgId(p.outer, Untouched(p.outer))
      <3>1. Added(p.outer, Untouched(p.outer))
        BY <2>1, <2>2, <2>4 DEF Untouched, Stored, InStates, TypeOK
      <3> HIDE DEF Added
      <3> QED BY <1>a, <2>1, <3>1
    <2> QED BY <1>1, <2>3, <2>4 DEF OnSessionData
  <1>2. ASSUME NEW id \in MsgIds, OnMsgsAck(id)
        PROVE  WindowEffect
    <2>1. /\ \E ids : ChangeAckReceived(ids)
          /\ UNCHANGED << minMsgId, maxMsgId, forgotten, dispatched >>
      BY <1>2 DEF OnMsgsAck
    <2> QED BY <2>1, Zenon DEF WindowEffect
  <1>3. ASSUME NEW id \in MsgIds, OnIgnored(id)
        PROVE  WindowEffect
    <2>1. Added(id, "NONE")
      BY <1>3 DEF OnIgnored, Fresh, InStates
    <2> HIDE DEF Added
    <2> QED BY <1>a, <2>1
  <1>4. ASSUME NEW id \in MsgIds, OnServiceMessage(id) \/ OnMsgsAllInfo(id)
        PROVE  WindowEffect
    <2>1. Added(id, "NO_ACK")
      BY <1>4 DEF OnServiceMessage, OnMsgsAllInfo, InStates
    <2> HIDE DEF Added
    <2> QED BY <1>a, <2>1
  <1>5. ASSUME NEW id \in MsgIds, OnAnswerNow(id)
        PROVE  WindowEffect
    <2>1. Added(id, "ACKNOWLEDGED")
      BY <1>5 DEF OnAnswerNow, InStates
    <2> HIDE DEF Added
    <2> QED BY <1>a, <2>1
  <1>6. ASSUME NEW id \in MsgIds, OnRpcRequestDenied(id)
        PROVE  WindowEffect
    <2>1. Added(id, "GENERATED")
      BY <1>6 DEF OnRpcRequestDenied, InStates
    <2> HIDE DEF Added
    <2> QED BY <1>a, <2>1
  <1>7. ASSUME NEW id \in MsgIds, OnRpcRequest(id)
        PROVE  WindowEffect
    <2>1. /\ AddMsgId(id, "PROCESSING")
          /\ inQueue[id] \in { "ABSENT", "NONE" }
          /\ dispatched' = [dispatched EXCEPT ![id] = @ + 1]
          /\ UNCHANGED forgotten
          /\ tmpRpcApiMessageList' = Append(tmpRpcApiMessageList, id)
      BY <1>7 DEF OnRpcRequest, Fresh
    <2> QED BY <2>1, Zenon DEF WindowEffect
  <1>8. ASSUME NEW id \in MsgIds, OnMsgResendReq(id)
        PROVE  WindowEffect
    <2>1. /\ AddMsgId(id, "NONE") \/ AddMsgId(id, "NO_ACK")
          /\ inQueue[id] \in { "ABSENT", "NONE" }
          /\ UNCHANGED << forgotten, dispatched >>
      BY <1>8 DEF OnMsgResendReq, Fresh
    <2>2. Added(id, "NONE") \/ Added(id, "NO_ACK")
      BY <2>1 DEF InStates
    <2> HIDE DEF Added
    <2> QED BY <1>a, <2>2
  <1>9. CASE EndOfPacket
    BY <1>9 DEF EndOfPacket, WindowEffect
  <1>10. ASSUME NEW id \in MsgIds, sendRpcResult(id), UNCHANGED << forgotten, dispatched >>
         PROVE  WindowEffect
    <2>1. CASE id \in Stored
      <3>1. Added(id, "ACKNOWLEDGED")
        BY <1>10, <2>1 DEF sendRpcResult, InStates
      <3> HIDE DEF Added
      <3> QED BY <1>a, <3>1
    <2>2. CASE id \notin Stored
      BY <1>10, <2>2 DEF sendRpcResult, WindowEffect
    <2> QED BY <2>1, <2>2
  <1>11. CASE OnRpcResult
    <2>1. /\ sendRpcResult(Head(rpcDataChan).id)
          /\ UNCHANGED << forgotten, dispatched >>
      BY <1>11 DEF OnRpcResult
    <2>2. Head(rpcDataChan).id \in MsgIds
      BY <1>11, TypeResults DEF OnRpcResult
    <2> QED BY <1>10, <2>1, <2>2
  <1>12. ASSUME NEW id \in MsgIds, OnTimerTimeout(id)
         PROVE  WindowEffect
    <2>1. sendRpcResult(id) /\ UNCHANGED << forgotten, dispatched >>
      BY <1>12 DEF OnTimerTimeout
    <2> QED BY <1>10, <2>1
  <1>13. ASSUME NEW id \in MsgIds, DuplicateMessage(id) \/ OnSyncRpcResultData(id)
         PROVE  WindowEffect
    BY <1>13 DEF DuplicateMessage, OnSyncRpcResultData, WindowEffect
  <1>14. ASSUME NEW g \in Gateways,
                OnSessionNew(g) \/ OnSessionClosed(g) \/ OnSessionDataRefused(g)
         PROVE  WindowEffect
    BY <1>14 DEF OnSessionNew, OnSessionClosed, OnSessionDataRefused, WindowEffect
  <1>15. CASE \/ SkipMessage
              \/ RpcRunLoop
              \/ OnRpcResultNotReturn
              \/ OnSyncData
              \/ OnTimer
              \/ \E o \in outQueue : AckWaitElapses(o)
              \/ UNCHANGED vars
    <2>1. UNCHANGED << inq, forgotten, dispatched >>
      BY <1>15 DEF SkipMessage, RpcRunLoop, OnRpcResultNotReturn, OnSyncData, OnTimer,
                   AckWaitElapses, vars
    <2> QED BY <2>1 DEF WindowEffect
  <1> HIDE DEF Added
  <1> QED BY <1>1, <1>2, <1>3, <1>4, <1>5, <1>6, <1>7, <1>8, <1>9, <1>11, <1>12, <1>13,
             <1>14, <1>15
          DEF Next, TakeEvent, HandleMessage, TakeResult

\* AddMsgId moves the bounds so that they enclose the new id.
LEMMA BoundsAdd ==
    ASSUME TypeOK, WindowBounds, NEW id \in MsgIds, NEW s \in InStates,
           AddMsgId(id, s), UNCHANGED forgotten
    PROVE  WindowBounds'
  <1>1. \A j \in MsgIds : j \in Nat
    BY MsgIdsAreNat
  <1>2. /\ inQueue \in [MsgIds -> InStates \cup { "ABSENT" }]
        /\ minMsgId \in Nat
        /\ maxMsgId \in Nat
        /\ forgotten \in SUBSET MsgIds
    BY DEF TypeOK
  <1>3. /\ \A j \in MsgIds : inQueue'[j] = IF j = id THEN s ELSE inQueue[j]
        /\ minMsgId' = IF id \notin Stored /\ id < minMsgId THEN id ELSE minMsgId
        /\ maxMsgId' = IF id \notin Stored /\ id > maxMsgId THEN id ELSE maxMsgId
    BY <1>2 DEF AddMsgId
  <1>4. \A j \in Stored' : j \in Stored \cup { id }
    BY <1>3 DEF Stored
  <1>5. Stored \subseteq MsgIds
    BY DEF Stored
  <1>6. /\ \A j \in Stored : minMsgId <= j /\ j <= maxMsgId
        /\ \A j \in forgotten : j <= maxMsgId
    BY DEF WindowBounds
  <1>7. /\ \A j \in Stored' : minMsgId' <= j /\ j <= maxMsgId'
        /\ \A j \in forgotten' : j <= maxMsgId'
    BY <1>1, <1>2, <1>3, <1>4, <1>5, <1>6
  <1> QED BY <1>7 DEF WindowBounds

\* Shrink drops the lowest ids: what stays is above everything it drops.
LEMMA EvictedBelow ==
    ASSUME NEW id \in Evicted, NEW j \in Stored \ Evicted
    PROVE  id < j
  <1> DEFINE Above(k) == { i \in Stored : i > k }
  <1>1. Stored \in SUBSET MsgIds /\ id \in Stored
    BY DEF Stored, Evicted
  <1>2. id \in Nat /\ j \in Nat /\ \A i \in Stored : i \in Nat
    BY <1>1, MsgIdsAreNat
  <1>3. IsFiniteSet(Stored)
    BY <1>1, MsgIdsFinite, FS_Subset
  <1>4. IsFiniteSet(Above(j)) /\ IsFiniteSet(Above(id))
    BY <1>3, FS_Subset
  <1>5. SUFFICES ASSUME j <= id PROVE FALSE
    BY <1>2
  <1>6. Above(id) \in SUBSET Above(j)
    <2>1. \A i \in Stored : i > id => i > j
      BY <1>2, <1>5
    <2> QED BY <2>1
  <1>7. Cardinality(Above(id)) <= Cardinality(Above(j))
    BY <1>4, <1>6, FS_Subset
  <1>8. Cardinality(Above(id)) \in Nat /\ Cardinality(Above(j)) \in Nat
    BY <1>4, FS_CardinalityType
  <1>9. Cardinality(Above(id)) >= MaxQueueSize /\ ~ (Cardinality(Above(j)) >= MaxQueueSize)
    BY DEF Evicted
  <1>10. MaxQueueSize \in Nat
    BY BoundsAssumption
  <1> HIDE DEF Above
  <1> QED BY <1>7, <1>8, <1>9, <1>10

\* Shrink keeps the window's ids within its bounds.
LEMMA BoundsShrink ==
    ASSUME TypeOK, WindowBounds, ShrinkIn, forgotten' = forgotten \cup Evicted
    PROVE  WindowBounds'
  <1>1. /\ \A j \in MsgIds : j \in Nat
        /\ Evicted \in SUBSET MsgIds
        /\ Evicted \subseteq Stored
        /\ Stored \subseteq MsgIds
    BY MsgIdsAreNat DEF Evicted, Stored
  <1>2. maxMsgId' = maxMsgId
    BY DEF ShrinkIn
  <1>3. Stored' = Stored \ Evicted
    BY DEF ShrinkIn, Stored
  <1>4. minMsgId' = minMsgId \/ minMsgId' \in Evicted
    BY <1>1, LargestMsgId DEF ShrinkIn
  <1>5. ASSUME NEW j \in Stored'
        PROVE  minMsgId' <= j
    <2>1. j \in Stored \ Evicted /\ j \in Nat
      BY <1>1, <1>3
    <2>2. CASE minMsgId' = minMsgId
      BY <2>1, <2>2 DEF WindowBounds
    <2>3. CASE minMsgId' \in Evicted
      <3>1. minMsgId' < j
        BY <2>1, <2>3, EvictedBelow
      <3> QED BY <1>1, <2>1, <2>3, <3>1
    <2> QED BY <1>4, <2>2, <2>3
  <1>6. /\ \A j \in Stored' : j <= maxMsgId'
        /\ \A j \in forgotten' : j <= maxMsgId'
    BY <1>1, <1>2, <1>3 DEF WindowBounds
  <1> QED BY <1>5, <1>6 DEF WindowBounds

\* Every step keeps the window's ids within its bounds.
LEMMA BoundsStep ==
    ASSUME TypeOK, WindowBounds, WindowEffect
    PROVE  WindowBounds'
  <1>1. CASE UNCHANGED << inq, forgotten, dispatched >>
    BY <1>1 DEF inq, WindowBounds, Stored
  <1>2. ASSUME NEW id \in MsgIds, NEW s \in InStates, AddMsgId(id, s), UNCHANGED forgotten
        PROVE  WindowBounds'
    BY <1>2, BoundsAdd
  <1>3. "PROCESSING" \in InStates
    BY DEF InStates
  <1>4. ASSUME NEW ids, ChangeAckReceived(ids), UNCHANGED << minMsgId, maxMsgId, forgotten >>
        PROVE  WindowBounds'
    <2>1. Stored' = Stored
      BY <1>4 DEF ChangeAckReceived, Stored
    <2> QED BY <1>4, <2>1 DEF WindowBounds
  <1>5. CASE ShrinkIn /\ forgotten' = forgotten \cup Evicted
    BY <1>5, BoundsShrink
  <1> QED BY <1>1, <1>2, <1>3, <1>4, <1>5 DEF WindowEffect

\* Every step keeps the requests that were dispatched registered, and
\* dispatches no request that still is.
LEMMA RegisteredStep ==
    ASSUME TypeOK, Registered, ExecutedOnce, WindowEffect
    PROVE  Registered' /\ ExecutedOnce'
  <1>1. CASE UNCHANGED << inq, forgotten, dispatched >>
    BY <1>1 DEF inq, Registered, ExecutedOnce
  <1>2. ASSUME NEW id \in MsgIds, NEW s \in InStates, AddMsgId(id, s),
               s = "NONE" => inQueue[id] \in { "ABSENT", "NONE" },
               UNCHANGED << forgotten, dispatched >>
        PROVE  Registered' /\ ExecutedOnce'
    <2>1. \A j \in MsgIds : inQueue'[j] = IF j = id THEN s ELSE inQueue[j]
      BY <1>2 DEF AddMsgId, TypeOK
    <2>2. s # "ABSENT"
      BY DEF InStates
    <2> QED BY <1>2, <2>1, <2>2 DEF Registered, ExecutedOnce
  <1>3. ASSUME NEW id \in MsgIds, AddMsgId(id, "PROCESSING"),
               inQueue[id] \in { "ABSENT", "NONE" },
               dispatched' = [dispatched EXCEPT ![id] = @ + 1],
               UNCHANGED forgotten
        PROVE  Registered' /\ ExecutedOnce'
    <2>1. \A j \in MsgIds :
            inQueue'[j] = IF j = id THEN "PROCESSING" ELSE inQueue[j]
      BY <1>3 DEF AddMsgId, TypeOK
    <2>2. \A j \in MsgIds :
            /\ dispatched[j] \in Nat
            /\ dispatched'[j] = IF j = id THEN dispatched[j] + 1 ELSE dispatched[j]
      BY <1>3 DEF TypeOK
    <2>3. dispatched[id] > 0 => id \in forgotten
      BY <1>3 DEF Registered
    <2> QED BY <1>3, <2>1, <2>2, <2>3 DEF Registered, ExecutedOnce
  <1>4. ASSUME NEW ids, ChangeAckReceived(ids), UNCHANGED << forgotten, dispatched >>
        PROVE  Registered' /\ ExecutedOnce'
    BY <1>4 DEF ChangeAckReceived, Stored, Registered, ExecutedOnce
  <1>5. ASSUME ShrinkIn, forgotten' = forgotten \cup Evicted, UNCHANGED dispatched
        PROVE  Registered' /\ ExecutedOnce'
    BY <1>5 DEF ShrinkIn, Registered, ExecutedOnce
  <1> QED BY <1>1, <1>2, <1>3, <1>4, <1>5 DEF WindowEffect

-----------------------------------------------------------------------------
(* The RPC queues.                                                          *)

\* What a step may do to the RPC queues: take one request one step further.
RpcEffect ==
    \/ UNCHANGED << tmpRpcApiMessageList, rpcQueue, rpcDataChan, late, pendingQueue >>
    \/ \E id \in MsgIds :
         /\ OnRpcRequest(id)
         /\ UNCHANGED << rpcQueue, rpcDataChan, late, pendingQueue >>
    \/ /\ rpcQueue' = rpcQueue \o tmpRpcApiMessageList
       /\ tmpRpcApiMessageList' = << >>
       /\ UNCHANGED << rpcDataChan, late, pendingQueue >>
    \/ RpcRunLoop
    \/ OnRpcResultNotReturn
    \/ OnRpcResult
    \/ \E id \in MsgIds : OnSyncRpcResultData(id) \/ OnTimerTimeout(id)

\* Every step has one of those effects on the RPC queues.
LEMMA RpcStep ==
    ASSUME [Next]_vars
    PROVE  RpcEffect
  <1> USE DEF inq, conn, sess, sync, rpc, hist
  <1> DEFINE Idle == UNCHANGED << tmpRpcApiMessageList, rpcQueue, rpcDataChan, late,
                                  pendingQueue >>
  <1>1. ASSUME NEW g \in Gateways,
               \/ OnSessionNew(g) \/ OnSessionClosed(g) \/ OnSessionDataRefused(g)
               \/ \E p \in Packets : OnSessionData(g, p)
        PROVE  Idle
    BY <1>1 DEF OnSessionNew, OnSessionClosed, OnSessionDataRefused, OnSessionData
  <1>2. ASSUME NEW id \in MsgIds,
               \/ DuplicateMessage(id) \/ OnMsgsAck(id) \/ OnIgnored(id)
               \/ OnServiceMessage(id) \/ OnAnswerNow(id) \/ OnRpcRequestDenied(id)
               \/ OnMsgsAllInfo(id) \/ OnMsgResendReq(id)
        PROVE  Idle
    BY <1>2 DEF DuplicateMessage, OnMsgsAck, OnIgnored, OnServiceMessage, OnAnswerNow,
                OnRpcRequestDenied, OnMsgsAllInfo, OnMsgResendReq
  <1>3. ASSUME \/ SkipMessage \/ OnSyncData \/ OnTimer \/ UNCHANGED vars
               \/ \E o \in outQueue : AckWaitElapses(o)
        PROVE  Idle
    BY <1>3 DEF SkipMessage, OnSyncData, OnTimer, AckWaitElapses, vars
  <1>4. ASSUME NEW id \in MsgIds, OnRpcRequest(id)
        PROVE  RpcEffect
    <2>1. UNCHANGED << rpcQueue, rpcDataChan, late, pendingQueue >>
      BY <1>4 DEF OnRpcRequest
    <2> QED BY <1>4, <2>1, Zenon DEF RpcEffect
  <1>5. CASE EndOfPacket
    <2>1. /\ rpcQueue' = rpcQueue \o tmpRpcApiMessageList
          /\ tmpRpcApiMessageList' = << >>
          /\ UNCHANGED << rpcDataChan, late, pendingQueue >>
      BY <1>5 DEF EndOfPacket
    <2> QED BY <2>1, Zenon DEF RpcEffect
  <1>6. Idle => RpcEffect
    BY Zenon DEF RpcEffect
  <1>7. ASSUME \/ RpcRunLoop \/ OnRpcResultNotReturn \/ OnRpcResult
               \/ \E id \in MsgIds : OnSyncRpcResultData(id) \/ OnTimerTimeout(id)
        PROVE  RpcEffect
    BY <1>7, Zenon DEF RpcEffect
  <1> HIDE DEF Idle
  <1> QED BY <1>1, <1>2, <1>3, <1>4, <1>5, <1>6, <1>7
          DEF Next, TakeEvent, HandleMessage, TakeResult

\* A result leaves rpcDataChan: every other one stays.
LEMMA ResultTaken ==
    ASSUME TypeOK, rpcDataChan # << >>
    PROVE  /\ \A i \in DOMAIN Tail(rpcDataChan) :
                 \E k \in DOMAIN rpcDataChan : Tail(rpcDataChan)[i] = rpcDataChan[k]
           /\ \A k \in DOMAIN rpcDataChan :
                 \/ rpcDataChan[k] = Head(rpcDataChan)
                 \/ \E i \in DOMAIN Tail(rpcDataChan) : Tail(rpcDataChan)[i] = rpcDataChan[k]
           /\ \E k \in DOMAIN rpcDataChan : rpcDataChan[k] = Head(rpcDataChan)
  <1> DEFINE R == [id : MsgIds, notReturn : BOOLEAN]
  <1>1. rpcDataChan \in Seq(R)
    BY DEF TypeOK
  <1> HIDE DEF R
  <1>2. /\ Len(rpcDataChan) \in Nat
        /\ Len(rpcDataChan) > 0
        /\ DOMAIN rpcDataChan = 1 .. Len(rpcDataChan)
        /\ Tail(rpcDataChan) \in Seq(R)
        /\ Len(Tail(rpcDataChan)) = Len(rpcDataChan) - 1
        /\ DOMAIN Tail(rpcDataChan) = 1 .. Len(rpcDataChan) - 1
        /\ \A i \in 1 .. Len(rpcDataChan) - 1 : Tail(rpcDataChan)[i] = rpcDataChan[i + 1]
        /\ Head(rpcDataChan) = rpcDataChan[1]
    BY <1>1
  <1>3. ASSUME NEW k \in DOMAIN rpcDataChan, k # 1
        PROVE  \E i \in DOMAIN Tail(rpcDataChan) : Tail(rpcDataChan)[i] = rpcDataChan[k]
    <2>1. k - 1 \in 1 .. Len(rpcDataChan) - 1 /\ (k - 1) + 1 = k
      BY <1>2, <1>3
    <2> QED BY <1>2, <2>1
  <1>4. ASSUME NEW i \in DOMAIN Tail(rpcDataChan)
        PROVE  \E k \in DOMAIN rpcDataChan : Tail(rpcDataChan)[i] = rpcDataChan[k]
    BY <1>2
  <1> QED BY <1>2, <1>3, <1>4

\* Only requests enter the RPC queues.
LEMMA RpcOnlyStep ==
    ASSUME TypeOK, RpcOnly, RpcEffect
    PROVE  RpcOnly'
  <1> USE DEF rpc
  <1>1. CASE UNCHANGED << tmpRpcApiMessageList, rpcQueue, rpcDataChan, late, pendingQueue >>
    BY <1>1 DEF RpcOnly
  <1>2. ASSUME NEW id \in MsgIds, OnRpcRequest(id),
               UNCHANGED << rpcQueue, rpcDataChan, late, pendingQueue >>
        PROVE  RpcOnly'
    <2>1. /\ Kind[id] \in RpcKinds
          /\ tmpRpcApiMessageList' = Append(tmpRpcApiMessageList, id)
          /\ tmpRpcApiMessageList \in Seq(MsgIds)
      BY <1>2 DEF OnRpcRequest, TypeOK
    <2>2. \A i \in DOMAIN tmpRpcApiMessageList' :
             Kind[tmpRpcApiMessageList'[i]] \in RpcKinds
      BY <2>1 DEF RpcOnly
    <2> QED BY <1>2, <2>2 DEF RpcOnly
  <1>3. ASSUME rpcQueue' = rpcQueue \o tmpRpcApiMessageList,
               tmpRpcApiMessageList' = << >>,
               UNCHANGED << rpcDataChan, late, pendingQueue >>
        PROVE  RpcOnly'
    <2>1. rpcQueue \in Seq(MsgIds) /\ tmpRpcApiMessageList \in Seq(MsgIds)
      BY DEF TypeOK
    <2>2. \A i \in DOMAIN rpcQueue' : Kind[rpcQueue'[i]] \in RpcKinds
      BY <1>3, <2>1 DEF RpcOnly
    <2> QED BY <1>3, <2>2 DEF RpcOnly
  <1>4. CASE RpcRunLoop
    <2> DEFINE id == Head(rpcQueue)
    <2>1. rpcQueue \in Seq(MsgIds) /\ rpcQueue # << >> /\ rpcQueue' = Tail(rpcQueue)
      BY <1>4 DEF RpcRunLoop, TypeOK
    <2>2. id \in MsgIds /\ Kind[id] \in RpcKinds
      BY <2>1 DEF RpcOnly
    <2>3. \A i \in DOMAIN rpcQueue' : Kind[rpcQueue'[i]] \in RpcKinds
      BY <2>1 DEF RpcOnly
    <2>4. PICK b \in BOOLEAN :
            rpcDataChan' = Append(rpcDataChan, [id |-> id, notReturn |-> b])
      BY <1>4 DEF RpcRunLoop
    <2>5. UNCHANGED << tmpRpcApiMessageList, pendingQueue >> /\ late' \subseteq late \cup { id }
      BY <1>4 DEF RpcRunLoop
    <2> HIDE DEF id
    <2>6. [id |-> id, notReturn |-> b] \in [id : MsgIds, notReturn : BOOLEAN]
      BY <2>2
    <2>7. \A i \in DOMAIN rpcDataChan' : Kind[rpcDataChan'[i].id] \in RpcKinds
      <3> DEFINE e == [id |-> id, notReturn |-> b]
                 R == [id : MsgIds, notReturn : BOOLEAN]
      <3>1. e.id = id
        OBVIOUS
      <3>2. rpcDataChan \in Seq(R) /\ e \in R /\ rpcDataChan' = Append(rpcDataChan, e)
        BY <2>4, <2>6 DEF TypeOK
      <3> HIDE DEF e, R
      <3>3. \A i \in DOMAIN rpcDataChan' :
              rpcDataChan'[i] = e \/ (i \in DOMAIN rpcDataChan /\ rpcDataChan'[i] = rpcDataChan[i])
        BY <3>2
      <3> QED BY <2>2, <3>1, <3>3 DEF RpcOnly
    <2> QED BY <2>2, <2>3, <2>5, <2>7 DEF RpcOnly
  <1>5. CASE OnRpcResultNotReturn
    <2> DEFINE id == Head(rpcDataChan).id
    <2>1. /\ rpcDataChan # << >>
          /\ rpcDataChan' = Tail(rpcDataChan)
          /\ pendingQueue' = [pendingQueue EXCEPT ![id] = @ + 1]
          /\ UNCHANGED << tmpRpcApiMessageList, rpcQueue, late >>
      BY <1>5 DEF OnRpcResultNotReturn
    <2>2. id \in MsgIds /\ Kind[id] \in RpcKinds
      BY <2>1, ResultTaken, TypeResults DEF RpcOnly
    <2>3. \A i \in DOMAIN rpcDataChan' : Kind[rpcDataChan'[i].id] \in RpcKinds
      BY <2>1, ResultTaken DEF RpcOnly
    <2> HIDE DEF id
    <2>4. \A j \in MsgIds : pendingQueue'[j] > 0 => Kind[j] \in RpcKinds
      BY <2>1, <2>2 DEF RpcOnly, TypeOK
    <2> QED BY <2>1, <2>3, <2>4 DEF RpcOnly
  <1>6. CASE OnRpcResult
    <2>1. /\ rpcDataChan # << >>
          /\ rpcDataChan' = Tail(rpcDataChan)
          /\ UNCHANGED << tmpRpcApiMessageList, rpcQueue, late, pendingQueue >>
      BY <1>6 DEF OnRpcResult
    <2>2. \A i \in DOMAIN rpcDataChan' : Kind[rpcDataChan'[i].id] \in RpcKinds
      BY <2>1, ResultTaken DEF RpcOnly
    <2> QED BY <2>1, <2>2 DEF RpcOnly
  <1>7. ASSUME NEW id \in MsgIds, OnSyncRpcResultData(id) \/ OnTimerTimeout(id)
        PROVE  RpcOnly'
    <2>1. /\ UNCHANGED << tmpRpcApiMessageList, rpcQueue, rpcDataChan >>
          /\ late' \subseteq late
          /\ \A j \in MsgIds : pendingQueue'[j] > 0 => pendingQueue[j] > 0
      BY <1>7 DEF OnSyncRpcResultData, OnTimerTimeout, TypeOK
    <2> QED BY <2>1 DEF RpcOnly
  <1> QED BY <1>1, <1>2, <1>3, <1>4, <1>5, <1>6, <1>7 DEF RpcEffect

\* A request comes to be registered as being processed only when it is handed
\* over.
LEMMA ProcessingStep ==
    ASSUME TypeOK, WindowEffect, NEW id \in MsgIds, inQueue'[id] = "PROCESSING"
    PROVE  \/ inQueue[id] = "PROCESSING"
           \/ tmpRpcApiMessageList' = Append(tmpRpcApiMessageList, id)
  <1>1. CASE UNCHANGED << inq, forgotten, dispatched >>
    BY <1>1 DEF inq
  <1>2. ASSUME NEW j \in MsgIds, NEW s \in InStates, AddMsgId(j, s),
               s = "PROCESSING" => inQueue[j] = "PROCESSING"
        PROVE  inQueue[id] = "PROCESSING"
    BY <1>2 DEF AddMsgId, TypeOK
  <1>3. ASSUME NEW j \in MsgIds, AddMsgId(j, "PROCESSING"),
               tmpRpcApiMessageList' = Append(tmpRpcApiMessageList, j)
        PROVE  \/ inQueue[id] = "PROCESSING"
               \/ tmpRpcApiMessageList' = Append(tmpRpcApiMessageList, id)
    BY <1>3 DEF AddMsgId, TypeOK
  <1>4. ASSUME NEW ids, ChangeAckReceived(ids)
        PROVE  inQueue[id] = "PROCESSING"
    BY <1>4 DEF ChangeAckReceived
  <1>5. CASE ShrinkIn
    BY <1>5 DEF ShrinkIn
  <1> QED BY <1>1, <1>2, <1>3, <1>4, <1>5 DEF WindowEffect

\* sendRpcResult ends the processing of a request that the window knows.
LEMMA ResultEndsProcessing ==
    ASSUME TypeOK, NEW id \in MsgIds, inQueue[id] = "PROCESSING", sendRpcResult(id)
    PROVE  inQueue'[id] # "PROCESSING"
  <1>1. id \in Stored
    BY DEF Stored
  <1> QED BY <1>1 DEF sendRpcResult, AddMsgId, TypeOK

\* A request that is on its way stays on its way until it is answered.
LEMMA InFlightStep ==
    ASSUME TypeOK, RpcOnly, AnswersOK(outQueue, answers, acked, shed, nextMid),
           RpcEffect, NEW id \in MsgIds, InFlight(id),
           inQueue[id] = "PROCESSING", inQueue'[id] = "PROCESSING"
    PROVE  InFlight(id)' \/ answers'[id] > 0
  <1> USE DEF rpc
  <1> DEFINE InTmp == \E i \in DOMAIN tmpRpcApiMessageList : tmpRpcApiMessageList[i] = id
             InRpc == \E i \in DOMAIN rpcQueue : rpcQueue[i] = id
             InChan == \E i \in DOMAIN rpcDataChan : rpcDataChan[i].id = id
  <1>0. InTmp \/ InRpc \/ InChan \/ pendingQueue[id] > 0
    BY DEF InFlight
  <1>1. CASE UNCHANGED << tmpRpcApiMessageList, rpcQueue, rpcDataChan, late, pendingQueue >>
    BY <1>1 DEF InFlight
  <1>2. ASSUME NEW j \in MsgIds, OnRpcRequest(j),
               UNCHANGED << rpcQueue, rpcDataChan, late, pendingQueue >>
        PROVE  InFlight(id)'
    <2>1. /\ tmpRpcApiMessageList' = Append(tmpRpcApiMessageList, j)
          /\ tmpRpcApiMessageList \in Seq(MsgIds)
      BY <1>2 DEF OnRpcRequest, TypeOK
    <2>2. InTmp => InTmp'
      BY <2>1
    <2> QED BY <1>0, <1>2, <2>2 DEF InFlight
  <1>3. ASSUME rpcQueue' = rpcQueue \o tmpRpcApiMessageList,
               UNCHANGED << rpcDataChan, late, pendingQueue >>
        PROVE  InFlight(id)'
    <2>1. rpcQueue \in Seq(MsgIds) /\ tmpRpcApiMessageList \in Seq(MsgIds)
      BY DEF TypeOK
    <2>2. InRpc => InRpc'
      BY <1>3, <2>1
    <2>3. ASSUME NEW i \in DOMAIN tmpRpcApiMessageList, tmpRpcApiMessageList[i] = id
          PROVE  InRpc'
      <3>1. /\ Len(rpcQueue) + i \in DOMAIN rpcQueue'
            /\ rpcQueue'[Len(rpcQueue) + i] = id
        BY <1>3, <2>1, <2>3
      <3> QED BY <3>1
    <2> QED BY <1>0, <1>3, <2>2, <2>3 DEF InFlight
  <1>4. CASE RpcRunLoop
    <2> DEFINE h == Head(rpcQueue)
               R == [id : MsgIds, notReturn : BOOLEAN]
    <2>1. /\ rpcQueue \in Seq(MsgIds)
          /\ rpcQueue # << >>
          /\ rpcQueue' = Tail(rpcQueue)
          /\ UNCHANGED << tmpRpcApiMessageList, pendingQueue >>
      BY <1>4 DEF RpcRunLoop, TypeOK
    <2>2. InRpc => h = id \/ InRpc'
      <3>1. ASSUME NEW i \in DOMAIN rpcQueue, i # 1, rpcQueue[i] = id
            PROVE  InRpc'
        <4>1. i - 1 \in DOMAIN Tail(rpcQueue) /\ Tail(rpcQueue)[i - 1] = id
          BY <2>1, <3>1
        <4> QED BY <2>1, <4>1
      <3> QED BY <2>1, <3>1
    <2>3. PICK b \in BOOLEAN : rpcDataChan' = Append(rpcDataChan, [id |-> h, notReturn |-> b])
      BY <1>4 DEF RpcRunLoop
    <2> DEFINE e == [id |-> h, notReturn |-> b]
    <2>4. h \in MsgIds
      BY <2>1
    <2>5. e \in R /\ e.id = h /\ rpcDataChan \in Seq(R) /\ rpcDataChan' = Append(rpcDataChan, e)
      BY <2>3, <2>4 DEF TypeOK
    <2> HIDE DEF h, e, R
    <2>6. InChan => InChan'
      BY <2>5
    <2>7. h = id => InChan'
      <3>1. /\ Len(rpcDataChan) + 1 \in DOMAIN rpcDataChan'
            /\ rpcDataChan'[Len(rpcDataChan) + 1] = e
        BY <2>5
      <3> QED BY <2>5, <3>1
    <2> QED BY <1>0, <2>1, <2>2, <2>6, <2>7 DEF InFlight
  <1>5. CASE OnRpcResultNotReturn
    <2> DEFINE h == Head(rpcDataChan).id
    <2>1. /\ rpcDataChan # << >>
          /\ rpcDataChan' = Tail(rpcDataChan)
          /\ pendingQueue' = [pendingQueue EXCEPT ![h] = @ + 1]
          /\ UNCHANGED << tmpRpcApiMessageList, rpcQueue >>
      BY <1>5 DEF OnRpcResultNotReturn
    <2>2. h \in MsgIds
      BY <2>1, TypeResults
    <2>3. InChan => h = id \/ InChan'
      BY <2>1, ResultTaken
    <2> HIDE DEF h
    <2>4. (h = id \/ pendingQueue[id] > 0) => pendingQueue'[id] > 0
      <3>1. pendingQueue \in [MsgIds -> Nat]
        BY DEF TypeOK
      <3>2. pendingQueue'[id] = IF id = h THEN pendingQueue[id] + 1 ELSE pendingQueue[id]
        BY <2>1, <2>2, <3>1
      <3>3. pendingQueue[id] \in Nat
        BY <3>1
      <3> QED BY <3>2, <3>3
    <2> QED BY <1>0, <2>1, <2>3, <2>4 DEF InFlight
  <1>6. CASE OnRpcResult
    <2> DEFINE h == Head(rpcDataChan).id
    <2>1. /\ rpcDataChan # << >>
          /\ rpcDataChan' = Tail(rpcDataChan)
          /\ sendRpcResult(h)
          /\ UNCHANGED << tmpRpcApiMessageList, rpcQueue, pendingQueue >>
      BY <1>6 DEF OnRpcResult
    <2>2. InChan => h = id \/ InChan'
      BY <2>1, ResultTaken
    <2> HIDE DEF h
    <2>3. h # id
      BY <2>1, ResultEndsProcessing
    <2> QED BY <1>0, <2>1, <2>2, <2>3 DEF InFlight
  <1>7. ASSUME NEW j \in MsgIds, OnSyncRpcResultData(j)
        PROVE  InFlight(id)' \/ answers'[id] > 0
    <2>1. /\ j \in late
          /\ sendRpcResultToQueue(j)
          /\ pendingQueue' = [pendingQueue EXCEPT ![j] = IF @ > 0 THEN @ - 1 ELSE @]
          /\ UNCHANGED << tmpRpcApiMessageList, rpcQueue, rpcDataChan >>
      BY <1>7 DEF OnSyncRpcResultData
    <2>2. CASE j = id
      <3>1. Kind[id] \in ResultKinds
        BY <2>1, <2>2 DEF RpcOnly, ResultKinds
      <3> QED BY <2>1, <2>2, <3>1, AnswersOKResultShrink
    <2>3. CASE j # id
      <3>1. pendingQueue'[id] = pendingQueue[id]
        BY <2>1, <2>3 DEF TypeOK
      <3> QED BY <1>0, <2>1, <3>1 DEF InFlight
    <2> QED BY <2>2, <2>3
  <1>8. ASSUME NEW j \in MsgIds, OnTimerTimeout(j)
        PROVE  InFlight(id)'
    <2>1. /\ sendRpcResult(j)
          /\ pendingQueue' = [pendingQueue EXCEPT ![j] = @ - 1]
          /\ UNCHANGED << tmpRpcApiMessageList, rpcQueue, rpcDataChan >>
      BY <1>8 DEF OnTimerTimeout
    <2>2. j # id
      BY <2>1, ResultEndsProcessing
    <2>3. pendingQueue'[id] = pendingQueue[id]
      BY <2>1, <2>2 DEF TypeOK
    <2> QED BY <1>0, <2>1, <2>3 DEF InFlight
  <1> HIDE DEF InTmp, InRpc, InChan
  <1> QED BY <1>1, <1>2, <1>3, <1>4, <1>5, <1>6, <1>7, <1>8 DEF RpcEffect

\* No step loses a request.
LEMMA NoOrphanStep ==
    ASSUME TypeOK, RpcOnly, AnswersOK(outQueue, answers, acked, shed, nextMid),
           NoOrphanRequest, [Next]_vars
    PROVE  NoOrphanRequest'
  <1> SUFFICES ASSUME NEW id \in MsgIds, inQueue'[id] = "PROCESSING"
               PROVE  InFlight(id)' \/ answers'[id] > 0
    BY DEF NoOrphanRequest
  <1>1. CASE inQueue[id] = "PROCESSING"
    <2>1. InFlight(id) \/ answers[id] > 0
      BY <1>1 DEF NoOrphanRequest
    <2>2. CASE InFlight(id)
      BY <1>1, <2>2, RpcStep, InFlightStep
    <2>3. CASE answers[id] > 0
      <3>1. answers'[id] >= answers[id]
        BY AnswersStep
      <3>2. answers[id] \in Nat /\ answers'[id] \in Nat
        BY TypeStep DEF TypeOK
      <3> QED BY <2>3, <3>1, <3>2
    <2> QED BY <2>1, <2>2, <2>3
  <1>2. CASE tmpRpcApiMessageList' = Append(tmpRpcApiMessageList, id)
    <2>1. tmpRpcApiMessageList \in Seq(MsgIds)
      BY DEF TypeOK
    <2>2. /\ Len(tmpRpcApiMessageList) + 1 \in DOMAIN tmpRpcApiMessageList'
          /\ tmpRpcApiMessageList'[Len(tmpRpcApiMessageList) + 1] = id
      BY <1>2, <2>1
    <2> QED BY <2>2 DEF InFlight
  <1> QED BY <1>1, <1>2, WindowStep, ProcessingStep

-----------------------------------------------------------------------------
(* One answer to a request.                                                 *)

\* An answer to id is still owed at one place: its request waits to be
\* executed, its result waits for runLoop, or another service has to push it.
Owes(id, place, i) ==
    \/ /\ place = "tmpRpcApiMessageList"
       /\ i \in DOMAIN tmpRpcApiMessageList /\ tmpRpcApiMessageList[i] = id
    \/ place = "rpcQueue" /\ i \in DOMAIN rpcQueue /\ rpcQueue[i] = id
    \/ /\ place = "rpcDataChan" /\ i \in DOMAIN rpcDataChan
       /\ rpcDataChan[i].id = id /\ ~rpcDataChan[i].notReturn
    \/ place = "late" /\ i = 0 /\ id \in late

Owed(id) == \E place, i : Owes(id, place, i)

OwedOnce(id) ==
    \A p, i, q, j : Owes(id, p, i) /\ Owes(id, q, j) => p = q /\ i = j

\* The window knows id as a message it need not handle again.
Known(id) == inQueue[id] \notin { "ABSENT", "NONE" }

\* An answer is owed once, and none is when it was given; either way the
\* window lets no copy of the request through.
AnswerSettled(id) ==
    /\ OwedOnce(id)
    /\ answers[id] <= 1
    /\ Owed(id) => answers[id] = 0
    /\ Owed(id) \/ answers[id] > 0 => Known(id)

\* What OneAnswer follows from.
AnsweredOnce ==
    \A id \in MsgIds :
        /\ pendingQueue[id] > 0 => id \in deferred
        /\ id \notin forgotten \cup deferred => AnswerSettled(id)

\* What the window knows, it knows until Shrink drops it.
LEMMA StaysKnown ==
    ASSUME TypeOK, WindowEffect, NEW id \in MsgIds, Known(id)
    PROVE  Known(id)' \/ id \in forgotten'
  <1>1. CASE UNCHANGED << inq, forgotten, dispatched >>
    BY <1>1 DEF inq, Known
  <1>2. ASSUME NEW j \in MsgIds, NEW s \in InStates, AddMsgId(j, s),
               s = "NONE" => inQueue[j] \in { "ABSENT", "NONE" }
        PROVE  Known(id)'
    <2>1. inQueue'[id] = IF id = j THEN s ELSE inQueue[id]
      BY <1>2 DEF AddMsgId, TypeOK
    <2>2. s # "ABSENT"
      BY DEF InStates
    <2> QED BY <1>2, <2>1, <2>2 DEF Known
  <1>3. ASSUME NEW j \in MsgIds, AddMsgId(j, "PROCESSING")
        PROVE  Known(id)'
    BY <1>3 DEF AddMsgId, TypeOK, Known
  <1>4. ASSUME NEW ids, ChangeAckReceived(ids)
        PROVE  Known(id)'
    BY <1>4 DEF ChangeAckReceived, Known
  <1>5. CASE ShrinkIn /\ forgotten' = forgotten \cup Evicted
    BY <1>5 DEF ShrinkIn, Known
  <1> QED BY <1>1, <1>2, <1>3, <1>4, <1>5 DEF WindowEffect

\* What was forgotten or deferred stays so, and only a deferred request waits
\* in pendingQueue.
LEMMA HistoryStep ==
    ASSUME TypeOK, [Next]_vars
    PROVE  /\ forgotten \subseteq forgotten' /\ deferred \subseteq deferred'
           /\ \A id \in MsgIds :
                pendingQueue'[id] > 0 => pendingQueue[id] > 0 \/ id \in deferred'
  <1> USE DEF hist
  <1>1. forgotten \subseteq forgotten'
    <2>1. WindowEffect
      BY WindowStep
    <2> QED BY <2>1, Zenon DEF WindowEffect
  <1>2. CASE OnRpcResultNotReturn
    <2> DEFINE h == Head(rpcDataChan).id
    <2>1. /\ pendingQueue' = [pendingQueue EXCEPT ![h] = @ + 1]
          /\ deferred' = deferred \cup { h }
      BY <1>2 DEF OnRpcResultNotReturn
    <2> HIDE DEF h
    <2> QED BY <1>1, <2>1 DEF TypeOK
  <1>3. ASSUME NEW j \in MsgIds, OnSyncRpcResultData(j) \/ OnTimerTimeout(j)
        PROVE  /\ deferred' = deferred
               /\ \A id \in MsgIds : pendingQueue'[id] > 0 => pendingQueue[id] > 0
    BY <1>3 DEF OnSyncRpcResultData, OnTimerTimeout, TypeOK
  <1>4. ASSUME NEW g \in Gateways,
               \/ OnSessionNew(g) \/ OnSessionClosed(g) \/ OnSessionDataRefused(g)
               \/ \E p \in Packets : OnSessionData(g, p)
        PROVE  UNCHANGED << deferred, pendingQueue >>
    BY <1>4 DEF OnSessionNew, OnSessionClosed, OnSessionDataRefused, OnSessionData
  <1>5. ASSUME NEW id \in MsgIds,
               \/ DuplicateMessage(id) \/ OnMsgsAck(id) \/ OnIgnored(id)
               \/ OnServiceMessage(id) \/ OnAnswerNow(id) \/ OnRpcRequestDenied(id)
               \/ OnRpcRequest(id) \/ OnMsgsAllInfo(id) \/ OnMsgResendReq(id)
        PROVE  UNCHANGED << deferred, pendingQueue >>
    BY <1>5 DEF DuplicateMessage, OnMsgsAck, OnIgnored, OnServiceMessage, OnAnswerNow,
                OnRpcRequestDenied, OnRpcRequest, OnMsgsAllInfo, OnMsgResendReq
  <1>6. ASSUME \/ SkipMessage \/ OnSyncData \/ OnTimer \/ EndOfPacket
               \/ (\E o \in outQueue : AckWaitElapses(o))
               \/ RpcRunLoop \/ OnRpcResult \/ UNCHANGED vars
        PROVE  UNCHANGED << deferred, pendingQueue >>
    BY <1>6 DEF SkipMessage, OnSyncData, OnTimer, AckWaitElapses, EndOfPacket, RpcRunLoop,
                OnRpcResult, vars
  <1> QED BY <1>1, <1>2, <1>3, <1>4, <1>5, <1>6
          DEF Next, TakeEvent, HandleMessage, TakeResult

\* What gives an answer to id.
Answering(id) ==
    \/ OnAnswerNow(id) \/ OnRpcRequestDenied(id)
    \/ OnRpcResult /\ Head(rpcDataChan).id = id
    \/ OnSyncRpcResultData(id) \/ OnTimerTimeout(id)

\* Nothing else changes the number of its answers, and these add one at most.
LEMMA NewAnswer ==
    ASSUME TypeOK, [Next]_vars, NEW id \in MsgIds
    PROVE  answers'[id] = answers[id] \/ (Answering(id) /\ answers'[id] = answers[id] + 1)
  <1> USE DEF hist
  <1>1. ASSUME NEW j, sendRpcResultToQueue(j)
        PROVE  answers'[id] = answers[id] \/ (j = id /\ answers'[id] = answers[id] + 1)
    BY <1>1 DEF sendRpcResultToQueue, TypeOK
  <1>2. ASSUME NEW j, sendRpcResult(j)
        PROVE  answers'[id] = answers[id] \/ (j = id /\ answers'[id] = answers[id] + 1)
    BY <1>1, <1>2 DEF sendRpcResult
  <1>3. ASSUME NEW j \in MsgIds, OnAnswerNow(j) \/ OnRpcRequestDenied(j)
                                 \/ OnSyncRpcResultData(j)
        PROVE  answers'[id] = answers[id] \/ (Answering(id) /\ answers'[id] = answers[id] + 1)
    <2>1. sendRpcResultToQueue(j)
      BY <1>3 DEF OnAnswerNow, OnRpcRequestDenied, OnSyncRpcResultData
    <2>2. j = id => Answering(id)
      BY <1>3, Zenon DEF Answering
    <2> QED BY <1>1, <2>1, <2>2
  <1>4. ASSUME NEW j \in MsgIds, OnTimerTimeout(j)
        PROVE  answers'[id] = answers[id] \/ (Answering(id) /\ answers'[id] = answers[id] + 1)
    <2>1. sendRpcResult(j)
      BY <1>4 DEF OnTimerTimeout
    <2>2. j = id => Answering(id)
      BY <1>4, Zenon DEF Answering
    <2> QED BY <1>2, <2>1, <2>2
  <1>5. CASE OnRpcResult
    <2>1. sendRpcResult(Head(rpcDataChan).id)
      BY <1>5 DEF OnRpcResult
    <2>2. Head(rpcDataChan).id = id => Answering(id)
      BY <1>5, Zenon DEF Answering
    <2> QED BY <1>2, <2>1, <2>2
  <1>6. ASSUME NEW g \in Gateways,
               \/ OnSessionNew(g) \/ OnSessionClosed(g) \/ OnSessionDataRefused(g)
               \/ \E p \in Packets : OnSessionData(g, p)
        PROVE  UNCHANGED answers
    BY <1>6 DEF OnSessionNew, OnSessionClosed, OnSessionDataRefused, OnSessionData
  <1>7. ASSUME NEW j \in MsgIds,
               \/ DuplicateMessage(j) \/ OnMsgsAck(j) \/ OnIgnored(j)
               \/ OnServiceMessage(j) \/ OnRpcRequest(j) \/ OnMsgsAllInfo(j)
               \/ OnMsgResendReq(j)
        PROVE  UNCHANGED answers
    BY <1>7 DEF DuplicateMessage, OnMsgsAck, OnIgnored, OnServiceMessage, OnRpcRequest,
                OnMsgsAllInfo, OnMsgResendReq
  <1>8. ASSUME \/ SkipMessage \/ OnSyncData \/ OnTimer \/ EndOfPacket
               \/ (\E o \in outQueue : AckWaitElapses(o))
               \/ RpcRunLoop \/ OnRpcResultNotReturn \/ UNCHANGED vars
        PROVE  UNCHANGED answers
    BY <1>8 DEF SkipMessage, OnSyncData, OnTimer, AckWaitElapses, EndOfPacket, RpcRunLoop,
                OnRpcResultNotReturn, vars
  <1> QED BY <1>3, <1>4, <1>5, <1>6, <1>7, <1>8
          DEF Next, TakeEvent, HandleMessage, TakeResult

\* A step moves what is owed to id from place to place, but does not copy it;
\* only onRpcRequest adds to it.
LEMMA OwesMoves ==
    ASSUME TypeOK, [Next]_vars, NEW id \in MsgIds, OwedOnce(id)
    PROVE  OnRpcRequest(id) \/ (OwedOnce(id)' /\ (Owed(id)' => Owed(id)))
  <1> DEFINE Goal == OnRpcRequest(id) \/ (OwedOnce(id)' /\ (Owed(id)' => Owed(id)))
  <1> SUFFICES Goal
    OBVIOUS
  <1> USE DEF rpc
  <1>a. /\ \A p, i, q, j : Owes(id, p, i) /\ Owes(id, q, j) => p = q /\ i = j
        /\ \A p, i : Owes(id, p, i) => Owed(id)
    BY DEF OwedOnce, Owed
  <1>b. ASSUME \A p, i : Owes(id, p, i)' => Owes(id, p, i)
        PROVE  Goal
    <2>1. \A p, i, q, j : Owes(id, p, i)' /\ Owes(id, q, j)' => p = q /\ i = j
      BY <1>a, <1>b
    <2>2. (\E p, i : Owes(id, p, i)') => Owed(id)
      BY <1>a, <1>b
    <2> QED BY <2>1, <2>2 DEF OwedOnce, Owed
  <1>1. CASE UNCHANGED << tmpRpcApiMessageList, rpcQueue, rpcDataChan, late, pendingQueue >>
    BY <1>1, <1>b DEF Owes
  <1>2. ASSUME NEW j \in MsgIds, OnRpcRequest(j), j # id,
               UNCHANGED << rpcQueue, rpcDataChan, late, pendingQueue >>
        PROVE  Goal
    <2>1. /\ tmpRpcApiMessageList' = Append(tmpRpcApiMessageList, j)
          /\ tmpRpcApiMessageList \in Seq(MsgIds)
      BY <1>2 DEF OnRpcRequest, TypeOK
    <2>2. \A i \in DOMAIN tmpRpcApiMessageList' :
            tmpRpcApiMessageList'[i] = id =>
              i \in DOMAIN tmpRpcApiMessageList /\ tmpRpcApiMessageList[i] = id
      BY <1>2, <2>1
    <2> QED BY <1>2, <1>b, <2>2 DEF Owes
  <1>3. ASSUME rpcQueue' = rpcQueue \o tmpRpcApiMessageList,
               tmpRpcApiMessageList' = << >>,
               UNCHANGED << rpcDataChan, late, pendingQueue >>
        PROVE  Goal
    <2> DEFINE n == Len(rpcQueue)
    <2>1. /\ rpcQueue \in Seq(MsgIds) /\ tmpRpcApiMessageList \in Seq(MsgIds)
          /\ n \in Nat
      BY DEF TypeOK
    <2>2. \A i \in DOMAIN rpcQueue' : rpcQueue'[i] = id =>
            \/ i \in DOMAIN rpcQueue /\ rpcQueue[i] = id
            \/ /\ i \in Int /\ i - n \in DOMAIN tmpRpcApiMessageList
               /\ tmpRpcApiMessageList[i - n] = id
      BY <1>3, <2>1
    <2> HIDE DEF n
    <2>3. ASSUME NEW p, NEW i, Owes(id, p, i)'
          PROVE  \/ Owes(id, p, i)
                 \/ p = "rpcQueue" /\ i \in Int /\ Owes(id, "tmpRpcApiMessageList", i - n)
      BY <1>3, <2>2, <2>3 DEF Owes
    <2>4. \A p, i, q, j : Owes(id, p, i)' /\ Owes(id, q, j)' => p = q /\ i = j
      <3>1. SUFFICES ASSUME NEW p, NEW i, NEW q, NEW j, Owes(id, p, i)', Owes(id, q, j)'
                     PROVE  p = q /\ i = j
        OBVIOUS
      <3>2. CASE Owes(id, p, i) /\ Owes(id, q, j)
        BY <1>a, <3>2
      <3>3. ASSUME NEW k \in Int, Owes(id, "tmpRpcApiMessageList", k - n), NEW r, NEW l,
                   Owes(id, r, l)'
            PROVE  r = "rpcQueue" /\ l = k
        <4>1. CASE r = "rpcQueue" /\ l \in Int /\ Owes(id, "tmpRpcApiMessageList", l - n)
          <5>1. k - n = l - n
            BY <1>a, <3>3, <4>1
          <5> QED BY <2>1, <4>1, <5>1
        <4>2. CASE Owes(id, r, l)
          <5>1. r = "tmpRpcApiMessageList"
            BY <1>a, <3>3, <4>2
          <5> QED BY <1>3, <3>3, <5>1 DEF Owes
        <4> QED BY <2>3, <3>3, <4>1, <4>2
      <3> QED BY <2>3, <3>1, <3>2, <3>3
    <2>5. (\E p, i : Owes(id, p, i)') => Owed(id)
      BY <1>a, <2>3
    <2> QED BY <2>4, <2>5 DEF OwedOnce, Owed
  <1>4. CASE RpcRunLoop
    <2> DEFINE h == Head(rpcQueue)
               n == Len(rpcDataChan)
               R == [id : MsgIds, notReturn : BOOLEAN]
    <2>1. /\ rpcQueue \in Seq(MsgIds)
          /\ rpcQueue # << >>
          /\ rpcQueue' = Tail(rpcQueue)
          /\ UNCHANGED << tmpRpcApiMessageList, pendingQueue >>
      BY <1>4 DEF RpcRunLoop, TypeOK
    <2>2. /\ 1 \in DOMAIN rpcQueue /\ rpcQueue[1] = h /\ h \in MsgIds
          /\ \A i \in DOMAIN rpcQueue' : /\ i \in Int /\ i # 0 /\ i + 1 \in DOMAIN rpcQueue
                                         /\ rpcQueue'[i] = rpcQueue[i + 1]
      BY <2>1
    <2>3. PICK b \in BOOLEAN :
             /\ rpcDataChan' = Append(rpcDataChan, [id |-> h, notReturn |-> b])
             /\ b => late' = late \cup { h }
             /\ ~b => late' = late
      BY <1>4 DEF RpcRunLoop
    <2> DEFINE e == [id |-> h, notReturn |-> b]
    <2>4. e.id = h /\ e.notReturn = b
      OBVIOUS
    <2>5. e \in R /\ rpcDataChan \in Seq(R) /\ rpcDataChan' = Append(rpcDataChan, e) /\ n \in Nat
      BY <2>2, <2>3 DEF TypeOK
    <2> HIDE DEF h, e, R
    <2>6. \A i \in DOMAIN rpcDataChan' :
            \/ i \in DOMAIN rpcDataChan /\ rpcDataChan'[i] = rpcDataChan[i]
            \/ i = n + 1 /\ rpcDataChan'[i] = e
      BY <2>5
    <2>7. n + 1 \notin DOMAIN rpcDataChan
      BY <2>5
    <2> HIDE DEF n
    \* The place of the head's result.
    <2> DEFINE New(p, i) == IF b THEN p = "late" /\ i = 0 ELSE p = "rpcDataChan" /\ i = n + 1
    <2>8. ASSUME NEW p, NEW i, Owes(id, p, i)'
          PROVE  \/ p # "rpcQueue" /\ Owes(id, p, i)
                 \/ p = "rpcQueue" /\ i \in Int /\ i # 0 /\ Owes(id, "rpcQueue", i + 1)
                 \/ New(p, i) /\ Owes(id, "rpcQueue", 1)
      <3>1. CASE p = "tmpRpcApiMessageList"
        BY <2>1, <2>8, <3>1 DEF Owes
      <3>2. CASE p = "rpcQueue"
        BY <2>2, <2>8, <3>2 DEF Owes
      <3>3. CASE p = "rpcDataChan"
        <4>1. i \in DOMAIN rpcDataChan' /\ rpcDataChan'[i].id = id
              /\ ~rpcDataChan'[i].notReturn
          BY <2>8, <3>3 DEF Owes
        <4>2. CASE i \in DOMAIN rpcDataChan /\ rpcDataChan'[i] = rpcDataChan[i]
          BY <3>3, <4>1, <4>2 DEF Owes
        <4>3. CASE i = n + 1 /\ rpcDataChan'[i] = e
          BY <2>2, <2>4, <3>3, <4>1, <4>3 DEF Owes
        <4> QED BY <2>6, <4>1, <4>2, <4>3
      <3>4. CASE p = "late"
        BY <2>2, <2>3, <2>8, <3>4 DEF Owes
      <3> QED BY <2>8, <3>1, <3>2, <3>3, <3>4 DEF Owes
    <2>9. \A p, i, q, j : Owes(id, p, i)' /\ Owes(id, q, j)' => p = q /\ i = j
      <3>1. SUFFICES ASSUME NEW p, NEW i, NEW q, NEW j, Owes(id, p, i)', Owes(id, q, j)'
                     PROVE  p = q /\ i = j
        OBVIOUS
      <3>2. CASE Owes(id, "rpcQueue", 1)
        <4>1. ASSUME NEW r, NEW l, Owes(id, r, l)'
              PROVE  New(r, l)
          BY <1>a, <2>8, <3>2, <4>1
        <4> QED BY <3>1, <4>1
      <3>3. CASE ~Owes(id, "rpcQueue", 1)
        <4>1. ASSUME NEW r, NEW l, Owes(id, r, l)'
              PROVE  \/ r # "rpcQueue" /\ Owes(id, r, l)
                     \/ r = "rpcQueue" /\ l \in Int /\ Owes(id, "rpcQueue", l + 1)
          BY <2>8, <3>3, <4>1
        <4> HIDE DEF New
        <4>2. (p = "rpcQueue" <=> q = "rpcQueue")
          BY <1>a, <3>1, <4>1
        <4>3. CASE p = "rpcQueue"
          <5>1. i \in Int /\ j \in Int /\ i + 1 = j + 1
            BY <1>a, <3>1, <4>1, <4>2, <4>3
          <5> QED BY <4>2, <4>3, <5>1
        <4>4. CASE p # "rpcQueue"
          BY <1>a, <3>1, <4>1, <4>2, <4>4
        <4> QED BY <4>3, <4>4
      <3> QED BY <3>2, <3>3
    <2>10. (\E p, i : Owes(id, p, i)') => Owed(id)
      BY <1>a, <2>8
    <2> QED BY <2>9, <2>10 DEF OwedOnce, Owed
  <1>5. ASSUME rpcDataChan # << >>, rpcDataChan' = Tail(rpcDataChan),
               UNCHANGED << tmpRpcApiMessageList, rpcQueue, late >>
        PROVE  Goal
    <2> DEFINE R == [id : MsgIds, notReturn : BOOLEAN]
    <2>1. rpcDataChan \in Seq(R)
      BY DEF TypeOK
    <2> HIDE DEF R
    <2>2. \A i \in DOMAIN rpcDataChan' : /\ i \in Int /\ i + 1 \in DOMAIN rpcDataChan
                                         /\ rpcDataChan'[i] = rpcDataChan[i + 1]
      BY <1>5, <2>1
    <2>3. ASSUME NEW p, NEW i, Owes(id, p, i)'
          PROVE  \/ p # "rpcDataChan" /\ Owes(id, p, i)
                 \/ p = "rpcDataChan" /\ i \in Int /\ Owes(id, "rpcDataChan", i + 1)
      BY <1>5, <2>2, <2>3 DEF Owes
    <2>4. \A p, i, q, j : Owes(id, p, i)' /\ Owes(id, q, j)' => p = q /\ i = j
      <3>1. SUFFICES ASSUME NEW p, NEW i, NEW q, NEW j, Owes(id, p, i)', Owes(id, q, j)'
                     PROVE  p = q /\ i = j
        OBVIOUS
      <3>2. p = "rpcDataChan" <=> q = "rpcDataChan"
        BY <1>a, <2>3, <3>1
      <3>3. CASE p = "rpcDataChan"
        <4>1. i \in Int /\ j \in Int /\ i + 1 = j + 1
          BY <1>a, <2>3, <3>1, <3>2, <3>3
        <4> QED BY <3>2, <3>3, <4>1
      <3>4. CASE p # "rpcDataChan"
        BY <1>a, <2>3, <3>1, <3>2, <3>4
      <3> QED BY <3>3, <3>4
    <2>5. (\E p, i : Owes(id, p, i)') => Owed(id)
      BY <1>a, <2>3
    <2> QED BY <2>4, <2>5 DEF OwedOnce, Owed
  <1>6. CASE OnRpcResultNotReturn \/ OnRpcResult
    BY <1>5, <1>6 DEF OnRpcResultNotReturn, OnRpcResult
  <1>7. ASSUME NEW j \in MsgIds, OnSyncRpcResultData(j) \/ OnTimerTimeout(j)
        PROVE  Goal
    <2>1. UNCHANGED << tmpRpcApiMessageList, rpcQueue, rpcDataChan >> /\ late' \subseteq late
      BY <1>7 DEF OnSyncRpcResultData, OnTimerTimeout
    <2> QED BY <1>b, <2>1 DEF Owes
  <1>8. RpcEffect
    BY RpcStep
  <1>9. OnRpcRequest(id) => Goal
    OBVIOUS
  <1> HIDE DEF Goal
  <1> QED BY <1>1, <1>2, <1>3, <1>4, <1>6, <1>7, <1>8, <1>9 DEF RpcEffect

\* The result that runLoop takes, and the one that is pushed, were owed, and
\* are not any more.
LEMMA OwedUntilGiven ==
    ASSUME TypeOK, NEW id \in MsgIds, OwedOnce(id),
           \/ OnRpcResult /\ Head(rpcDataChan).id = id
           \/ OnSyncRpcResultData(id)
    PROVE  Owed(id) /\ ~Owed(id)'
  <1> USE DEF rpc
  <1>a. /\ \A p, i, q, j : Owes(id, p, i) /\ Owes(id, q, j) => p = q /\ i = j
        /\ \A p, i : Owes(id, p, i) => Owed(id)
    BY DEF OwedOnce, Owed
  <1>1. CASE OnSyncRpcResultData(id)
    <2>1. /\ UNCHANGED << tmpRpcApiMessageList, rpcQueue, rpcDataChan >>
          /\ id \in late /\ late' = late \ { id }
      BY <1>1 DEF OnSyncRpcResultData
    <2>2. Owes(id, "late", 0)
      BY <2>1 DEF Owes
    <2>3. ASSUME NEW p, NEW i, Owes(id, p, i)'
          PROVE  Owes(id, p, i) /\ p # "late"
      BY <2>1, <2>3 DEF Owes
    <2>4. ~ \E p, i : Owes(id, p, i)'
      BY <1>a, <2>2, <2>3
    <2> QED BY <1>a, <2>2, <2>4 DEF Owed
  <1>2. CASE OnRpcResult /\ Head(rpcDataChan).id = id
    <2> DEFINE R == [id : MsgIds, notReturn : BOOLEAN]
    <2>1. /\ rpcDataChan # << >> /\ rpcDataChan' = Tail(rpcDataChan)
          /\ Head(rpcDataChan).id = id /\ ~Head(rpcDataChan).notReturn
          /\ UNCHANGED << tmpRpcApiMessageList, rpcQueue, late >>
      BY <1>2 DEF OnRpcResult
    <2>2. rpcDataChan \in Seq(R)
      BY DEF TypeOK
    <2> HIDE DEF R
    <2>3. /\ 1 \in DOMAIN rpcDataChan /\ rpcDataChan[1] = Head(rpcDataChan)
          /\ \A i \in DOMAIN rpcDataChan' : /\ i \in Int /\ i # 0
                                            /\ i + 1 \in DOMAIN rpcDataChan
                                            /\ rpcDataChan'[i] = rpcDataChan[i + 1]
      BY <2>1, <2>2
    <2>4. Owes(id, "rpcDataChan", 1)
      BY <2>1, <2>3 DEF Owes
    <2>5. ASSUME NEW p, NEW i, Owes(id, p, i)'
          PROVE  FALSE
      <3>1. CASE p = "rpcDataChan"
        <4>1. Owes(id, "rpcDataChan", i + 1) /\ i \in Int /\ i # 0
          BY <2>3, <2>5, <3>1 DEF Owes
        <4>2. i + 1 = 1
          BY <1>a, <2>4, <4>1
        <4> QED BY <4>1, <4>2
      <3>2. CASE p # "rpcDataChan"
        <4>1. Owes(id, p, i)
          BY <2>1, <2>5, <3>2 DEF Owes
        <4> QED BY <1>a, <2>4, <3>2, <4>1
      <3> QED BY <3>1, <3>2
    <2> QED BY <1>a, <2>4, <2>5 DEF Owed
  <1> QED BY <1>1, <1>2

\* A request that is new to the window comes to be owed an answer once.
LEMMA OwedByRequest ==
    ASSUME TypeOK, NEW id \in MsgIds, ~Owed(id), OnRpcRequest(id)
    PROVE  OwedOnce(id)' /\ Known(id)'
  <1> USE DEF rpc
  <1>1. /\ tmpRpcApiMessageList' = Append(tmpRpcApiMessageList, id)
        /\ tmpRpcApiMessageList \in Seq(MsgIds)
        /\ UNCHANGED << rpcQueue, rpcDataChan, late >>
        /\ AddMsgId(id, "PROCESSING")
    BY DEF OnRpcRequest, TypeOK
  <1>2. \A i \in DOMAIN tmpRpcApiMessageList' :
          \/ i = Len(tmpRpcApiMessageList) + 1
          \/ i \in DOMAIN tmpRpcApiMessageList
             /\ tmpRpcApiMessageList'[i] = tmpRpcApiMessageList[i]
    BY <1>1
  <1>3. ASSUME NEW p, NEW i, Owes(id, p, i)'
        PROVE  p = "tmpRpcApiMessageList" /\ i = Len(tmpRpcApiMessageList) + 1
    <2>1. ~Owes(id, p, i)
      BY DEF Owed
    <2> QED BY <1>1, <1>2, <1>3, <2>1 DEF Owes
  <1>4. \A p, i, q, j : Owes(id, p, i)' /\ Owes(id, q, j)' => p = q /\ i = j
    BY <1>3
  <1>5. Known(id)'
    BY <1>1 DEF AddMsgId, TypeOK, Known
  <1> QED BY <1>4, <1>5 DEF OwedOnce

\* Every step keeps what OneAnswer follows from.
LEMMA AnsweredOnceStep ==
    ASSUME TypeOK, AnsweredOnce, [Next]_vars
    PROVE  AnsweredOnce'
  <1> SUFFICES ASSUME NEW id \in MsgIds
               PROVE  /\ pendingQueue'[id] > 0 => id \in deferred'
                      /\ id \notin forgotten' \cup deferred' => AnswerSettled(id)'
    BY DEF AnsweredOnce
  <1>1. pendingQueue'[id] > 0 => id \in deferred'
    BY HistoryStep DEF AnsweredOnce
  <1>2. ASSUME id \notin forgotten' \cup deferred'
        PROVE  AnswerSettled(id)'
    <2>1. id \notin forgotten \cup deferred
      BY <1>2, HistoryStep
    <2>2. /\ OwedOnce(id) /\ answers[id] <= 1 /\ pendingQueue[id] \in Nat
          /\ pendingQueue[id] = 0
          /\ Owed(id) => answers[id] = 0
          /\ Owed(id) \/ answers[id] > 0 => Known(id)
      BY <2>1 DEF AnsweredOnce, AnswerSettled, TypeOK
    <2>3. answers[id] \in Nat
      BY DEF TypeOK
    <2>4. Known(id) => Known(id)'
      BY <1>2, WindowStep, StaysKnown
    <2>5. CASE OnRpcRequest(id)
      <3>1. ~Known(id)
        BY <2>5 DEF OnRpcRequest, Fresh, Known
      <3>2. ~Owed(id) /\ answers[id] = 0
        BY <2>2, <2>3, <3>1
      <3>3. answers' = answers
        BY <2>5 DEF OnRpcRequest
      <3>4. OwedOnce(id)' /\ Known(id)'
        BY <2>5, <3>2, OwedByRequest
      <3> QED BY <3>2, <3>3, <3>4 DEF AnswerSettled
    <2>6. CASE ~OnRpcRequest(id)
      <3>1. OwedOnce(id)' /\ (Owed(id)' => Owed(id))
        BY <2>2, <2>6, OwesMoves
      <3>2. CASE answers'[id] = answers[id]
        BY <2>2, <2>4, <3>1, <3>2 DEF AnswerSettled
      <3>3. ASSUME answers'[id] = answers[id] + 1,
                   OnAnswerNow(id) \/ OnRpcRequestDenied(id)
            PROVE  AnswerSettled(id)'
        <4>1. ~Known(id)
          BY <3>3 DEF OnAnswerNow, OnRpcRequestDenied, Fresh, Known
        <4>2. ~Owed(id) /\ answers[id] = 0
          BY <2>2, <2>3, <4>1
        <4>3. AddMsgId(id, "ACKNOWLEDGED") \/ AddMsgId(id, "GENERATED")
          BY <3>3 DEF OnAnswerNow, OnRpcRequestDenied
        <4>4. Known(id)'
          BY <4>3 DEF AddMsgId, TypeOK, Known
        <4> QED BY <3>1, <3>3, <4>2, <4>4 DEF AnswerSettled
      <3>4. ASSUME answers'[id] = answers[id] + 1,
                   \/ OnRpcResult /\ Head(rpcDataChan).id = id
                   \/ OnSyncRpcResultData(id)
            PROVE  AnswerSettled(id)'
        <4>1. Owed(id) /\ ~Owed(id)'
          BY <2>2, <3>4, OwedUntilGiven
        <4>2. answers'[id] = 1 /\ Known(id)'
          BY <2>2, <2>4, <3>4, <4>1
        <4> QED BY <3>1, <4>1, <4>2 DEF AnswerSettled
      <3>5. ~OnTimerTimeout(id)
        BY <2>2 DEF OnTimerTimeout
      <3> QED BY <3>2, <3>3, <3>4, <3>5, NewAnswer DEF Answering
    <2> QED BY <2>5, <2>6
  <1> QED BY <1>1, <1>2

-----------------------------------------------------------------------------
(* The theorems.                                                            *)

\* IndInv is inductive.
THEOREM Invariance == Spec => []IndInv
  <1>1. Init => IndInv
    <2> SUFFICES ASSUME Init PROVE IndInv
      OBVIOUS
    <2>1. TypeOK
      BY InitType
    <2>2. RpcOnly /\ QueuedAnswers /\ UniqueMids /\ AnswerKept
      BY DEF Init, RpcOnly, QueuedAnswers, UniqueMids, AnswerKept
    <2>3. Registered /\ ExecutedOnce /\ WindowBounds /\ NoOrphanRequest
      BY DEF Init, Registered, ExecutedOnce, WindowBounds, NoOrphanRequest, Stored
    <2> QED BY <2>1, <2>2, <2>3 DEF IndInv
  <1>2. IndInv /\ [Next]_vars => IndInv'
    <2> SUFFICES ASSUME IndInv, [Next]_vars PROVE IndInv'
      OBVIOUS
    <2>1. TypeOK'
      BY TypeStep DEF IndInv
    <2>2. AnswersOK(outQueue, answers, acked, shed, nextMid)
      BY AnswersOKIsInvariant DEF IndInv
    <2>3. AnswersOK(outQueue', answers', acked', shed', nextMid')
      BY <2>2, AnswersStep DEF IndInv
    <2>4. QueuedAnswers' /\ UniqueMids' /\ AnswerKept'
      BY <2>3 DEF QueuedAnswers, UniqueMids, AnswerKept, AnswersOK, Lookup
    <2>5. WindowEffect /\ RpcEffect
      BY WindowStep, RpcStep DEF IndInv
    <2>6. WindowBounds' /\ Registered' /\ ExecutedOnce'
      BY <2>5, BoundsStep, RegisteredStep DEF IndInv
    <2>7. RpcOnly'
      BY <2>5, RpcOnlyStep DEF IndInv
    <2>8. NoOrphanRequest'
      BY <2>2, NoOrphanStep DEF IndInv
    <2> QED BY <2>1, <2>4, <2>6, <2>7, <2>8 DEF IndInv
  <1> QED BY <1>1, <1>2, PTL DEF Spec

\* However often the client repeats a request, onRpcRequest hands it over a
\* second time only after the window has dropped its id.
THEOREM RequestsExecutedOnce == Spec => []ExecutedOnce
  <1>1. IndInv => ExecutedOnce
    BY DEF IndInv
  <1> QED BY <1>1, Invariance, PTL

\* No failed, partial or repeated sending, no timeout and no reconnection
\* loses an answer before the client acknowledges it.
THEOREM AnswersKept == Spec => []AnswerKept
  <1>1. IndInv => AnswerKept
    BY DEF IndInv
  <1> QED BY <1>1, Invariance, PTL

\* A request that the window reports as being processed is never lost between
\* the queues of the two goroutines.
THEOREM RequestsNotLost == Spec => []NoOrphanRequest
  <1>1. IndInv => NoOrphanRequest
    BY DEF IndInv
  <1> QED BY <1>1, Invariance, PTL

\* However often a request is repeated, and whatever becomes of its result, it
\* is answered once unless the window forgot it or the result was deferred.
THEOREM AnsweredOnlyOnce == Spec => []OneAnswer
  <1>1. Init => AnsweredOnce
    <2> SUFFICES ASSUME Init PROVE AnsweredOnce
      OBVIOUS
    <2>1. /\ tmpRpcApiMessageList = << >> /\ rpcQueue = << >> /\ rpcDataChan = << >>
          /\ late = {}
          /\ \A id \in MsgIds : pendingQueue[id] = 0 /\ answers[id] = 0
      BY DEF Init
    <2>2. \A id, p, i : ~Owes(id, p, i)
      BY <2>1 DEF Owes
    <2> QED BY <2>1, <2>2 DEF AnsweredOnce, AnswerSettled, OwedOnce, Owed
  <1>2. TypeOK /\ AnsweredOnce /\ [Next]_vars => AnsweredOnce'
    BY AnsweredOnceStep
  <1>3. TypeOK /\ AnsweredOnce => OneAnswer
    BY DEF TypeOK, AnsweredOnce, AnswerSettled, OneAnswer
  <1> QED BY <1>1, <1>2, <1>3, TypeCorrect, PTL DEF Spec

=============================================================================
