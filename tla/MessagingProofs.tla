--------------------------- MODULE MessagingProofs --------------------------
(***************************************************************************)
(* One conversation, for every number of members, messages, requests and   *)
(* failures: no dialog claims more unread messages than there are, no      *)
(* message that its client was told is sent gets lost, and a request that  *)
(* is repeated gets one answer.                                            *)
(***************************************************************************)
EXTENDS Messaging, FiniteSetTheorems, TLAPS

-----------------------------------------------------------------------------
(***************************************************************************)
(* Types.                                                                  *)
(***************************************************************************)

\* What TypeOK says of single variables.
LEMMA BoxTypes ==
    ASSUME TypeOK
    PROVE  /\ cached \in [Messages -> Answers]
           /\ told \in [Messages -> SUBSET (Answers \ {Nothing})]
           /\ boxId \in [Members -> Nat]
           /\ rows \subseteq RowType
           /\ dialogs \in [Members -> [top : Nat, unread : Nat, readInbox : Nat,
                                      readOutbox : Nat]]
           /\ faults \in Nat /\ failed \subseteq FailureKinds
BY Zenon DEF TypeOK

\* What a handler is doing tells the fields of its request.
LEMMA RequestCases ==
    ASSUME TypeOK, NEW r \in Requests
    PROVE  /\ request[r].pc = "idle" => request[r] = Idle
           /\ request[r].pc = "sending" => request[r] \in SendingType
           /\ request[r].pc = "reading" => request[r] \in ReadingType
           /\ request[r].pc = "telling" => request[r] \in TellingType
<1>1. request[r] \in RequestType
  BY Zenon DEF TypeOK
<1>. QED  BY <1>1 DEF RequestType, Idle, SendingType, ReadingType, TellingType

\* The kind of an event tells its fields.
LEMMA EventCases ==
    ASSUME TypeOK, NEW u \in Members, NEW i \in 1 .. Len(events[u])
    PROVE  /\ events[u][i] \in EventType
           /\ events[u][i].kind \in {"out", "in"} =>
                    events[u][i] \in MessageEventType
           /\ events[u][i].kind = "readInbox" => events[u][i] \in ReadInboxType
           /\ events[u][i].kind = "readOutbox" => events[u][i] \in ReadOutboxType
<1>1. events[u] \in Seq(EventType)
  BY DEF TypeOK
<1>2. events[u][i] \in EventType
  BY <1>1
<1>. QED  BY <1>2 DEF EventType, MessageEventType, ReadInboxType, ReadOutboxType

\* The event a consumer handles is one of its partition.
LEMMA CurrentCases ==
    ASSUME TypeOK, NEW u \in Members, NEW k, HasEvent(u, k)
    PROVE  /\ next[u] \in 1 .. Len(events[u])
           /\ Current(u).kind = k
           /\ k \in {"out", "in"} => Current(u) \in MessageEventType
           /\ k = "readInbox" => Current(u) \in ReadInboxType
           /\ k = "readOutbox" => Current(u) \in ReadOutboxType
<1>1. next[u] \in Nat \ {0} /\ Len(events[u]) \in Nat
  BY DEF TypeOK
<1>2. next[u] \in 1 .. Len(events[u])
  BY <1>1 DEF HasEvent
<1>. QED  BY <1>2, EventCases DEF HasEvent, Current

LEMMA FailKeepsType ==
    ASSUME TypeOK, NEW k \in FailureKinds, Fail(k)
    PROVE  faults' \in Nat /\ failed' \subseteq FailureKinds
BY DEF TypeOK, Fail

LEMMA PublishKeepsType ==
    ASSUME TypeOK, NEW u \in Members, NEW e \in EventType, Publish(u, e)
    PROVE  events' \in [Members -> Seq(EventType)]
BY DEF TypeOK, Publish

Inv1 == TypeOK /\ IsFiniteSet(rows)

LEMMA OthersFinite ==
    ASSUME Inv1, NEW u, NEW first, NEW last
    PROVE  /\ IsFiniteSet(FromOthers(u, first, last))
           /\ Cardinality(FromOthers(u, first, last)) \in Nat
<1>1. FromOthers(u, first, last) \in SUBSET rows
  BY DEF FromOthers
<1>. QED  BY <1>1, FS_Subset, FS_CardinalityType DEF Inv1

LEMMA StillUnreadType ==
    ASSUME Inv1, NEW u, NEW e \in ReadInboxType
    PROVE  StillUnread(u, e) \in Nat
<1>. DEFINE n == Cardinality(FromOthers(u, e.readInbox, e.maxId))
<1>1. n \in Nat
  BY OthersFinite
<1>2. e.unread \in Nat
  BY DEF ReadInboxType
<1>. HIDE DEF n
<1>3. (IF n < e.unread THEN e.unread - n ELSE 0) \in Nat
  BY <1>1, <1>2
<1>. QED  BY <1>3 DEF StillUnread, n

\* A handled read event moves the mark and writes a count, or does nothing.
LEMMA ReadInboxEffect ==
    ASSUME Inv1, NEW u \in Members, HandleReadInbox(u)
    PROVE  /\ Current(u) \in ReadInboxType
           /\ dialogs' \in [Members -> [top : Nat, unread : Nat,
                                        readInbox : Nat, readOutbox : Nat]]
           /\ faults' \in Nat /\ failed' \subseteq FailureKinds
           /\ \A v \in Members :
                /\ dialogs'[v].readOutbox = dialogs[v].readOutbox
                /\ \/ dialogs'[v] = dialogs[v]
                   \/ v = u /\ dialogs'[v].readInbox = Current(u).maxId
<1>. USE DEF Inv1
<1>. DEFINE e == Current(u)
<1>1. e \in ReadInboxType
  BY CurrentCases DEF HandleReadInbox
<1>2. StillUnread(u, e) \in Nat /\ e.unread \in Nat /\ e.maxId \in Nat
  BY <1>1, StillUnreadType DEF ReadInboxType
<1>3. \/ Write(u, ReadUpTo(u, e, StillUnread(u, e)))
      \/ /\ Fail("count")
         /\ dialogs' = [dialogs EXCEPT ![u] = ReadUpTo(u, e, e.unread)]
  BY DEF HandleReadInbox
<1>. HIDE DEF e
<1>4. faults' \in Nat /\ failed' \subseteq FailureKinds
  <2>1. ASSUME NEW k \in {"write", "count"}, Fail(k)
        PROVE  <1>4
    BY <2>1, FailKeepsType DEF FailureKinds
  <2>2. CASE UNCHANGED failures
    BY <2>2, BoxTypes DEF failures
  <2>. QED  BY <1>3, <2>1, <2>2 DEF Write
<1>5. ASSUME NEW n \in Nat
      PROVE  /\ ReadUpTo(u, e, n) \in [top : Nat, unread : Nat, readInbox : Nat,
                                       readOutbox : Nat]
             /\ ReadUpTo(u, e, n).readInbox = e.maxId
             /\ ReadUpTo(u, e, n).readOutbox = dialogs[u].readOutbox
  BY <1>2, BoxTypes DEF ReadUpTo
<1>6. \/ dialogs' = dialogs
      \/ \E n \in Nat : dialogs' = [dialogs EXCEPT ![u] = ReadUpTo(u, e, n)]
  BY <1>2, <1>3 DEF Write
<1>7. ASSUME NEW n \in Nat, dialogs' = [dialogs EXCEPT ![u] = ReadUpTo(u, e, n)]
      PROVE  /\ dialogs' \in [Members -> [top : Nat, unread : Nat,
                                          readInbox : Nat, readOutbox : Nat]]
             /\ dialogs'[u] = ReadUpTo(u, e, n)
             /\ \A v \in Members : v # u => dialogs'[v] = dialogs[v]
  BY <1>5, <1>7, BoxTypes
<1>. QED  BY <1>1, <1>4, <1>5, <1>6, <1>7, BoxTypes DEF e

LEMMA InitInv1 ==
    ASSUME Init  PROVE  Inv1
<1>1. IsFiniteSet(rows)
  BY FS_EmptySet DEF Init
<1>2. Idle \in RequestType /\ Nothing \in Answers
  BY DEF RequestType, Answers
<1>3. 0 <= MaxCopies
  BY ConstantsAssumption
<1>. QED  BY <1>1, <1>2, <1>3 DEF Init, Inv1, TypeOK

\* One step per action.
LEMMA NextInv1 ==
    ASSUME Inv1, [Next]_vars  PROVE  Inv1'
<1>. USE DEF Inv1
<1>1. ASSUME NEW r \in Requests, NEW m \in Messages, Send(r, m)
      PROVE  Inv1'
  <2>1. Sender[m] \in Members
    BY ConstantsAssumption
  <2>2. boxId[Sender[m]] \in Nat /\ boxId' \in [Members -> Nat]
    BY <1>1, <2>1, BoxTypes DEF Send
  <2>3. copies' \in Nat /\ copies' <= MaxCopies /\ copies + 1 \in Copies
    BY <1>1, ConstantsAssumption DEF TypeOK, Send, Copies
  <2>4. [pc |-> "sending", msg |-> m, copy |-> copies + 1,
         id |-> boxId[Sender[m]] + 1, left |-> Members] \in SendingType
    BY <1>1, <2>2, <2>3 DEF SendingType
  <2>5. request' \in [Requests -> RequestType]
    BY <1>1, <2>4 DEF TypeOK, Send, RequestType
  <2>6. lock' \in [Messages -> Requests \cup {Free}]
    BY <1>1 DEF TypeOK, Send
  <2>. QED  BY <1>1, <2>2, <2>3, <2>5, <2>6
            DEF TypeOK, Send, history, failures, kafka
<1>2. ASSUME NEW r \in Requests, NEW m \in Messages, SendAgain(r, m)
      PROVE  Inv1'
  <2>1. told' \in [Messages -> SUBSET (Answers \ {Nothing})]
    BY <1>2 DEF TypeOK, SendAgain
  <2>. QED  BY <1>2, <2>1 DEF TypeOK, SendAgain, ids, history, failures, kafka
<1>3. ASSUME NEW r \in Requests, NEW u \in Members, PublishMessage(r, u)
      PROVE  Inv1'
  <2>. DEFINE q == request[r]
              e == [kind |-> IF u = Sender[q.msg] THEN "out" ELSE "in",
                    msg |-> q.msg, from |-> Sender[q.msg], copy |-> q.copy,
                    id |-> q.id]
  <2>1. q \in SendingType
    BY <1>3, RequestCases DEF PublishMessage
  <2>2. q.msg \in Messages /\ q.copy \in Copies /\ q.id \in Nat \ {0}
        /\ q.left \in SUBSET Members /\ Sender[q.msg] \in Members
    BY <2>1, ConstantsAssumption DEF SendingType
  <2>3. e \in EventType
    BY <2>2 DEF EventType, MessageEventType
  <2>4. Publish(u, e)
    BY <1>3 DEF PublishMessage
  <2>5. events' \in [Members -> Seq(EventType)]
    BY <2>3, <2>4, PublishKeepsType
  <2>6. [q EXCEPT !.left = @ \ {u}] \in SendingType
    BY <2>1 DEF SendingType
  <2>7. request' = [request EXCEPT ![r] = [q EXCEPT !.left = @ \ {u}]]
    BY <1>3 DEF PublishMessage
  <2>8. request' \in [Requests -> RequestType]
    BY <2>6, <2>7 DEF TypeOK, RequestType
  <2>. QED  BY <1>3, <2>5, <2>8
            DEF TypeOK, PublishMessage, idempotent, ids, history, failures, kafka
<1>4. ASSUME NEW r \in Requests, Answer(r)
      PROVE  Inv1'
  <2>1. request[r].msg \in Messages /\ request[r].copy \in Copies
    BY <1>4, RequestCases DEF Answer, SendingType
  <2>2. request[r].copy \in Answers \ {Nothing}
    BY <2>1, ConstantsAssumption DEF Copies, Answers, Nothing
  <2>3. request' \in [Requests -> RequestType]
    BY <1>4 DEF TypeOK, Answer, RequestType
  <2>4. lock' \in [Messages -> Requests \cup {Free}]
    BY <1>4, <2>1 DEF TypeOK, Answer, Released
  <2>5. /\ cached' \in [Messages -> Answers]
        /\ told' \in [Messages -> SUBSET (Answers \ {Nothing})]
    BY <1>4, <2>1, <2>2 DEF TypeOK, Answer
  <2>. QED  BY <1>4, <2>3, <2>4, <2>5
            DEF TypeOK, Answer, ids, history, failures, kafka
<1>5. ASSUME NEW r \in Requests, PublishFails(r)
      PROVE  Inv1'
  <2>1. request[r].msg \in Messages
    BY <1>5, RequestCases DEF PublishFails, SendingType
  <2>2. faults' \in Nat /\ failed' \subseteq FailureKinds
    BY <1>5, FailKeepsType DEF PublishFails, FailureKinds
  <2>3. request' \in [Requests -> RequestType]
    BY <1>5 DEF TypeOK, PublishFails, RequestType
  <2>4. lock' \in [Messages -> Requests \cup {Free}]
    BY <1>5, <2>1 DEF TypeOK, PublishFails, Released
  <2>5. Empty \in Answers \ {Nothing}
    BY DEF Answers, Empty, Nothing
  <2>6. \/ UNCHANGED << cached, told >>
        \/ /\ cached' = [cached EXCEPT ![request[r].msg] = Empty]
           /\ told' = [told EXCEPT ![request[r].msg] = @ \cup {Empty}]
    BY <1>5 DEF PublishFails
  <2>7. cached' \in [Messages -> Answers]
    BY <2>1, <2>5, <2>6, BoxTypes
  <2>8. told' \in [Messages -> SUBSET (Answers \ {Nothing})]
    BY <2>1, <2>5, <2>6, BoxTypes
  <2>. QED  BY <1>5, <2>2, <2>3, <2>4, <2>7, <2>8
            DEF TypeOK, PublishFails, ids, history, kafka
<1>6. ASSUME NEW r \in Requests, CrashRequest(r)
      PROVE  Inv1'
  <2>1. faults' \in Nat /\ failed' \subseteq FailureKinds
    BY <1>6, FailKeepsType DEF CrashRequest, FailureKinds
  <2>2. request' \in [Requests -> RequestType]
    BY <1>6 DEF TypeOK, CrashRequest, RequestType
  <2>. QED  BY <1>6, <2>1, <2>2
            DEF TypeOK, CrashRequest, idempotent, ids, history, kafka
<1>7. ASSUME NEW m \in Messages, LockExpires(m)
      PROVE  Inv1'
  <2>1. faults' \in Nat /\ failed' \subseteq FailureKinds
    BY <1>7, FailKeepsType DEF LockExpires, FailureKinds, failures, TypeOK
  <2>2. lock' \in [Messages -> Requests \cup {Free}]
    BY <1>7 DEF TypeOK, LockExpires
  <2>. QED  BY <1>7, <2>1, <2>2 DEF TypeOK, LockExpires, ids, history, kafka
<1>8. ASSUME NEW m \in Messages, CacheExpires(m)
      PROVE  Inv1'
  <2>1. faults' \in Nat /\ failed' \subseteq FailureKinds
    BY <1>8, FailKeepsType DEF CacheExpires, FailureKinds
  <2>2. cached' \in [Messages -> Answers]
    BY <1>8 DEF TypeOK, CacheExpires, Answers
  <2>. QED  BY <1>8, <2>1, <2>2 DEF TypeOK, CacheExpires, ids, history, kafka
<1>9. ASSUME NEW r \in Requests, NEW u \in Members, Read(r, u)
      PROVE  Inv1'
  <2>1. PICK maxId \in dialogs[u].readInbox + 1 .. boxId[u] :
           request' = [request EXCEPT ![r] =
                 [pc |-> "reading", user |-> u, maxId |-> maxId,
                  unread |-> dialogs[u].unread,
                  readInbox |-> dialogs[u].readInbox]]
    BY <1>9 DEF Read
  <2>2. dialogs[u].readInbox \in Nat /\ dialogs[u].unread \in Nat
        /\ boxId[u] \in Nat
    BY DEF TypeOK
  <2>3. maxId \in Nat \ {0}
    BY <2>1, <2>2
  <2>4. request' \in [Requests -> RequestType]
    BY <2>1, <2>2, <2>3 DEF TypeOK, RequestType, ReadingType
  <2>5. reads' \in Nat
    BY <1>9 DEF TypeOK, Read
  <2>. QED  BY <1>9, <2>4, <2>5 DEF TypeOK, Read, idempotent, ids, failures, kafka
<1>10. ASSUME NEW r \in Requests, NoSuchMessage(r)
      PROVE  Inv1'
  <2>1. request' \in [Requests -> RequestType]
    BY <1>10 DEF TypeOK, NoSuchMessage, RequestType
  <2>. QED  BY <1>10, <2>1
            DEF TypeOK, NoSuchMessage, idempotent, ids, history, failures, kafka
<1>11. ASSUME NEW r \in Requests, PublishReadInbox(r)
      PROVE  Inv1'
  <2>. DEFINE q == request[r]
              e == [kind |-> "readInbox", maxId |-> q.maxId,
                    unread |-> q.unread, readInbox |-> q.readInbox]
  <2>1. q \in ReadingType
    BY <1>11, RequestCases DEF PublishReadInbox
  <2>2. e \in EventType /\ q.user \in Members
    BY <2>1 DEF ReadingType, EventType, ReadInboxType
  <2>3. PICK x \in RowsWith(q.user, q.maxId) :
           /\ \/ Publish(q.user, e) /\ UNCHANGED failures
              \/ Fail("publish") /\ UNCHANGED events
           /\ request' = [request EXCEPT ![r] =
                 [pc |-> "telling", user |-> q.user,
                  from |-> x.from, copy |-> x.copy]]
           /\ readBy' = [readBy EXCEPT ![q.user] = @ \cup {x.copy}]
    BY <1>11 DEF PublishReadInbox
  <2>4. x \in RowType
    BY <2>3 DEF RowsWith, TypeOK
  <2>5. x.from \in Members /\ x.copy \in Copies
    BY <2>4 DEF RowType
  <2>6. request' \in [Requests -> RequestType]
    BY <2>2, <2>3, <2>5 DEF TypeOK, RequestType, TellingType
  <2>7. events' \in [Members -> Seq(EventType)]
    BY <2>2, <2>3, PublishKeepsType DEF TypeOK
  <2>8. faults' \in Nat /\ failed' \subseteq FailureKinds
    BY <2>3, FailKeepsType DEF failures, TypeOK, FailureKinds
  <2>9. readBy' \in [Members -> SUBSET Copies]
    BY <2>2, <2>3, <2>5 DEF TypeOK
  <2>. QED  BY <1>11, <2>6, <2>7, <2>8, <2>9
            DEF TypeOK, PublishReadInbox, idempotent, ids, kafka
<1>12. ASSUME NEW r \in Requests, PublishReadOutbox(r)
      PROVE  Inv1'
  <2>. DEFINE q == request[r]
              e == [kind |-> "readOutbox", reader |-> q.user, copy |-> q.copy]
  <2>1. q \in TellingType
    BY <1>12, RequestCases DEF PublishReadOutbox
  <2>2. e \in EventType /\ q.from \in Members
    BY <2>1 DEF TellingType, EventType, ReadOutboxType
  <2>3. \/ Publish(q.from, e) /\ UNCHANGED failures
        \/ Fail("publish") /\ UNCHANGED events
    BY <1>12 DEF PublishReadOutbox
  <2>4. events' \in [Members -> Seq(EventType)]
    BY <2>2, <2>3, PublishKeepsType DEF TypeOK
  <2>5. faults' \in Nat /\ failed' \subseteq FailureKinds
    BY <2>3, FailKeepsType DEF failures, TypeOK, FailureKinds
  <2>6. request' \in [Requests -> RequestType]
    BY <1>12 DEF TypeOK, PublishReadOutbox, RequestType
  <2>. QED  BY <1>12, <2>4, <2>5, <2>6
            DEF TypeOK, PublishReadOutbox, idempotent, ids, history, kafka
<1>13. ASSUME NEW u \in Members, InsertInbox(u)
      PROVE  Inv1'
  <2>1. Current(u) \in MessageEventType
    BY <1>13, CurrentCases DEF InsertInbox
  <2>2. boxId[u] \in Nat
    BY DEF TypeOK
  <2>3. CopyOfStored(u, boxId[u] + 1) \in RowType
    BY <2>1, <2>2 DEF CopyOfStored, RowType, MessageEventType
  <2>4. rows' \subseteq RowType /\ IsFiniteSet(rows')
    BY <1>13, <2>3, FS_AddElement DEF InsertInbox, TypeOK
  <2>5. boxId' \in [Members -> Nat] /\ written' \in [Members -> Nat]
    BY <1>13, <2>2 DEF InsertInbox, TypeOK
  <2>. QED  BY <1>13, <2>4, <2>5
            DEF TypeOK, InsertInbox, idempotent, history, failures, kafka
<1>14. ASSUME NEW u \in Members, InsertOutbox(u)
      PROVE  Inv1'
  <2>1. Current(u) \in MessageEventType
    BY <1>14, CurrentCases DEF InsertOutbox
  <2>2. Current(u).id \in Nat \ {0}
    BY <2>1 DEF MessageEventType
  <2>3. CopyOfStored(u, Current(u).id) \in RowType
    BY <2>1, <2>2 DEF CopyOfStored, RowType, MessageEventType
  <2>4. rows' = rows \/ rows' = rows \cup {CopyOfStored(u, Current(u).id)}
    BY <1>14 DEF InsertOutbox
  <2>8. IsFiniteSet(rows \cup {CopyOfStored(u, Current(u).id)})
    BY FS_AddElement
  <2>9. IsFiniteSet(rows')
    BY <2>4, <2>8
  <2>7. rows' \subseteq RowType
    BY <2>3, <2>4 DEF TypeOK
  <2>5. written' \in [Members -> Nat]
    BY <1>14, <2>2 DEF InsertOutbox, TypeOK
  <2>6. faults' \in Nat /\ failed' \subseteq FailureKinds
    BY <1>14, FailKeepsType DEF InsertOutbox, failures, TypeOK, FailureKinds
  <2>. QED  BY <1>14, <2>5, <2>6, <2>7, <2>9
            DEF TypeOK, InsertOutbox, idempotent, ids, history, kafka
<1>15. ASSUME NEW u \in Members, NEW d, Write(u, d),
              d \in [top : Nat, unread : Nat, readInbox : Nat, readOutbox : Nat]
      PROVE  /\ dialogs' \in [Members -> [top : Nat, unread : Nat,
                                          readInbox : Nat, readOutbox : Nat]]
             /\ faults' \in Nat /\ failed' \subseteq FailureKinds
  BY <1>15, BoxTypes, FailKeepsType DEF Write, failures, FailureKinds
<1>16. ASSUME NEW u \in Members, Handled(u)
      PROVE  next' \in [Members -> Nat \ {0}] /\ committed' \in [Members -> Nat]
  BY <1>16 DEF Handled, TypeOK
<1>17. ASSUME NEW u \in Members, CountUnread(u)
      PROVE  Inv1'
  <2>3. dialogs[u].unread + 1 \in Nat /\ written[u] \in Nat
    BY DEF TypeOK
  <2>1. [dialogs[u] EXCEPT !.top = written[u], !.unread = @ + 1]
           \in [top : Nat, unread : Nat, readInbox : Nat, readOutbox : Nat]
    BY <2>3, BoxTypes
  <2>2. written' \in [Members -> Nat]
    BY <1>17 DEF CountUnread, TypeOK
  <2>. QED  BY <1>17, <2>1, <2>2, <1>15, <1>16
            DEF TypeOK, CountUnread, idempotent, ids, history
<1>18. ASSUME NEW u \in Members, ClearUnread(u)
      PROVE  Inv1'
  <2>1. [dialogs[u] EXCEPT !.top = written[u], !.unread = 0]
           \in [top : Nat, unread : Nat, readInbox : Nat, readOutbox : Nat]
    <3>1. written[u] \in Nat
      BY DEF TypeOK
    <3>. QED  BY <3>1, BoxTypes
  <2>2. written' \in [Members -> Nat]
    BY <1>18 DEF ClearUnread, TypeOK
  <2>. QED  BY <1>18, <2>1, <2>2, <1>15, <1>16
            DEF TypeOK, ClearUnread, idempotent, ids, history
<1>19. ASSUME NEW u \in Members, InsertInboxFails(u)
      PROVE  Inv1'
  <2>1. faults' \in Nat /\ failed' \subseteq FailureKinds
    BY <1>19, FailKeepsType DEF InsertInboxFails, FailureKinds
  <2>. QED  BY <1>19, <2>1, <1>16
            DEF TypeOK, InsertInboxFails, idempotent, ids, history
<1>20. ASSUME NEW u \in Members, HandleReadInbox(u)
      PROVE  Inv1'
  BY <1>20, ReadInboxEffect, <1>16
     DEF TypeOK, HandleReadInbox, idempotent, ids, history
<1>21. ASSUME NEW u \in Members, HandleReadOutbox(u)
      PROVE  Inv1'
  <2>1. /\ dialogs' \in [Members -> [top : Nat, unread : Nat,
                                     readInbox : Nat, readOutbox : Nat]]
        /\ faults' \in Nat /\ failed' \subseteq FailureKinds
    <3>1. CASE UNCHANGED << dialogs, failures >>
      BY <3>1 DEF TypeOK, failures
    <3>2. ASSUME NEW x \in Marked(u, Current(u)),
                 Write(u, [dialogs[u] EXCEPT !.readOutbox = x.id])
          PROVE  <2>1!1 /\ <2>1!2
      <4>1. x.id \in Nat
        BY DEF Marked, TypeOK, RowType
      <4>. QED  BY <4>1, <3>2, <1>15 DEF TypeOK
    <3>. QED  BY <1>21, <3>1, <3>2 DEF HandleReadOutbox
  <2>. QED  BY <1>21, <2>1, <1>16
            DEF TypeOK, HandleReadOutbox, idempotent, ids, history
<1>22. ASSUME NEW u \in Members, CrashConsumer(u)
      PROVE  Inv1'
  <2>1. PICK k \in committed[u] .. next[u] - 1 :
           committed' = [committed EXCEPT ![u] = k]
           /\ next' = [next EXCEPT ![u] = k + 1]
    BY <1>22 DEF CrashConsumer
  <2>2. k \in Nat
    BY DEF TypeOK
  <2>3. next' \in [Members -> Nat \ {0}] /\ committed' \in [Members -> Nat]
    BY <2>1, <2>2 DEF TypeOK
  <2>4. faults' \in Nat /\ failed' \subseteq FailureKinds
    BY <1>22, FailKeepsType DEF CrashConsumer, FailureKinds
  <2>5. written' \in [Members -> Nat]
    BY <1>22 DEF CrashConsumer, TypeOK
  <2>. QED  BY <1>22, <2>3, <2>4, <2>5
            DEF TypeOK, CrashConsumer, idempotent, ids, history
<1>23. CASE UNCHANGED vars
  BY <1>23 DEF TypeOK, vars
<1>. QED  BY <1>1, <1>2, <1>3, <1>4, <1>5, <1>6, <1>7, <1>8, <1>9, <1>10, <1>11,
             <1>12, <1>13, <1>14, <1>17, <1>18, <1>19, <1>20, <1>21, <1>22, <1>23
          DEF Next

\* Every variable keeps its type, and no counter of a dialog becomes negative.
THEOREM TypeCorrect == Spec => []TypeOK
<1>1. Init => Inv1
  BY InitInv1
<1>2. Inv1 /\ [Next]_vars => Inv1'
  BY NextInv1
<1>3. Inv1 => TypeOK
  BY DEF Inv1
<1>. QED  BY <1>1, <1>2, <1>3, PTL DEF Spec

-----------------------------------------------------------------------------
(***************************************************************************)
(* The steps by what they change.                                          *)
(***************************************************************************)

\* Steps of a handler that touch neither boxes nor dialogs nor events.
Quiet ==
    /\ UNCHANGED << rows, events, next, written, dialogs, boxId >>
    /\ \A r \in Requests : request'[r] = request[r] \/ request'[r] = Idle

LEMMA StepCases ==
    ASSUME Inv1, [Next]_vars
    PROVE  \/ Quiet
           \/ \E r \in Requests :
                \/ \E m \in Messages : Send(r, m)
                \/ \E u \in Members : PublishMessage(r, u) \/ Read(r, u)
                \/ PublishReadInbox(r) \/ PublishReadOutbox(r)
           \/ \E u \in Members :
                \/ InsertInbox(u) \/ InsertInboxFails(u) \/ CountUnread(u)
                \/ InsertOutbox(u) \/ ClearUnread(u)
                \/ HandleReadInbox(u) \/ HandleReadOutbox(u)
                \/ CrashConsumer(u)
<1>1. ASSUME NEW r \in Requests, NEW m \in Messages, SendAgain(r, m)
      PROVE  Quiet
  BY <1>1 DEF SendAgain, Quiet, kafka, ids
<1>2. ASSUME NEW r \in Requests, Answer(r)  PROVE  Quiet
  BY <1>2 DEF Answer, Quiet, kafka, ids, Inv1, TypeOK
<1>3. ASSUME NEW r \in Requests, PublishFails(r)  PROVE  Quiet
  BY <1>3 DEF PublishFails, Quiet, kafka, ids, Inv1, TypeOK
<1>4. ASSUME NEW r \in Requests, CrashRequest(r)  PROVE  Quiet
  BY <1>4 DEF CrashRequest, Quiet, kafka, ids, Inv1, TypeOK
<1>5. ASSUME NEW r \in Requests, NoSuchMessage(r)  PROVE  Quiet
  BY <1>5 DEF NoSuchMessage, Quiet, kafka, ids, Inv1, TypeOK
<1>6. ASSUME NEW m \in Messages, LockExpires(m)  PROVE  Quiet
  BY <1>6 DEF LockExpires, Quiet, kafka, ids
<1>7. ASSUME NEW m \in Messages, CacheExpires(m)  PROVE  Quiet
  BY <1>7 DEF CacheExpires, Quiet, kafka, ids
<1>8. CASE UNCHANGED vars
  BY <1>8 DEF vars, Quiet
<1>. QED  BY <1>1, <1>2, <1>3, <1>4, <1>5, <1>6, <1>7, <1>8 DEF Next

\* An event that is published comes last, the others stay what they are.
LEMMA PublishEffect ==
    ASSUME TypeOK, NEW u \in Members, NEW e \in EventType, Publish(u, e)
    PROVE  \A v \in Members :
             /\ \A i \in 1 .. Len(events[v]) :
                   i \in 1 .. Len(events'[v]) /\ events'[v][i] = events[v][i]
             /\ \A i \in 1 .. Len(events'[v]) :
                   \/ i \in 1 .. Len(events[v])
                   \/ v = u /\ events'[v][i] = e
<1>1. TAKE v \in Members
<1>2. events[v] \in Seq(EventType) /\ events[u] \in Seq(EventType)
  BY DEF TypeOK
<1>3. events'[v] = IF v = u THEN Append(events[u], e) ELSE events[v]
  BY DEF Publish, TypeOK
<1>. QED  BY <1>2, <1>3

\* The event in progress is the same after one was published.
LEMMA PublishKeepsCurrent ==
    ASSUME TypeOK, NEW u \in Members, NEW e \in EventType, Publish(u, e),
           UNCHANGED next
    PROVE  \A v \in Members : next[v] \in 1 .. Len(events[v]) =>
             /\ next'[v] \in 1 .. Len(events'[v])
             /\ events'[v][next'[v]] = events[v][next[v]]
BY PublishEffect

\* A dialog is written whole, or not at all.
LEMMA WriteEffect ==
    ASSUME TypeOK, NEW u \in Members, NEW d, Write(u, d)
    PROVE  \A v \in Members :
             dialogs'[v] = dialogs[v] \/ (v = u /\ dialogs'[v] = d)
BY DEF Write, TypeOK

\* Who has an event in progress.
LEMMA HasEventIndex ==
    ASSUME TypeOK, NEW u \in Members, NEW k
    PROVE  HasEvent(u, k) <=> /\ next[u] \in 1 .. Len(events[u])
                              /\ events[u][next[u]].kind = k
<1>1. next[u] \in Nat \ {0} /\ Len(events[u]) \in Nat
  BY DEF TypeOK
<1>. QED  BY <1>1 DEF HasEvent

-----------------------------------------------------------------------------
(***************************************************************************)
(* Ids: no box has an id that was not handed out.                          *)
(***************************************************************************)
IdsHandedOut ==
    /\ \A x \in rows : x.id <= boxId[x.owner]
    /\ \A r \in Requests :
         /\ request[r].pc = "sending" =>
                request[r].id <= boxId[Sender[request[r].msg]]
         /\ request[r].pc = "reading" =>
                request[r].maxId <= boxId[request[r].user]
    /\ \A u \in Members : \A i \in 1 .. Len(events[u]) :
         /\ events[u][i].kind = "in" => events[u][i].from # u
         /\ events[u][i].kind = "out" => events[u][i].id <= boxId[u]
         /\ events[u][i].kind = "readInbox" => events[u][i].maxId <= boxId[u]
    /\ \A u \in Members : dialogs[u].readInbox <= boxId[u]

\* The consumer has written a copy only while it handles a message.
WrittenCurrent ==
    \A u \in Members : written[u] # 0 => HasEvent(u, "in") \/ HasEvent(u, "out")

Inv2 == Inv1 /\ IdsHandedOut /\ WrittenCurrent

LEMMA InitInv2 == ASSUME Init  PROVE  Inv2
BY InitInv1 DEF Init, Inv2, IdsHandedOut, WrittenCurrent, Idle

\* The ids handed out only grow, and what a consumer does to its own partition
\* leaves the others as they are.
LEMMA NextIds ==
    ASSUME Inv2, [Next]_vars  PROVE  IdsHandedOut'
<1>. USE DEF Inv2, Inv1
<1>0. TypeOK /\ TypeOK'
  BY NextInv1
<1>1. CASE Quiet
  BY <1>1 DEF Quiet, IdsHandedOut, Idle
<1>2. ASSUME NEW r \in Requests, NEW m \in Messages, Send(r, m)
      PROVE  IdsHandedOut'
  <2>. DEFINE q == [pc |-> "sending", msg |-> m, copy |-> copies + 1,
                    id |-> boxId[Sender[m]] + 1, left |-> Members]
  <2>1. request' = [request EXCEPT ![r] = q]
        /\ boxId' = [boxId EXCEPT ![Sender[m]] = @ + 1]
        /\ UNCHANGED << rows, events, dialogs >>
    BY <1>2 DEF Send
  <2>2. Sender[m] \in Members /\ boxId \in [Members -> Nat]
    BY ConstantsAssumption DEF TypeOK
  <2>3. \A v \in Members : boxId[v] <= boxId'[v] /\ boxId[v] \in Nat
                           /\ boxId'[v] \in Nat
    BY <2>1, <2>2
  <2>4. \A x \in rows' : x.id <= boxId'[x.owner]
    BY <2>1, <2>3, BoxTypes DEF IdsHandedOut, RowType
  <2>5. ASSUME NEW s \in Requests
        PROVE  /\ request'[s].pc = "sending" =>
                    request'[s].id <= boxId'[Sender[request'[s].msg]]
               /\ request'[s].pc = "reading" =>
                    request'[s].maxId <= boxId'[request'[s].user]
    <3>1. CASE s = r
      <4>1. request'[s] = q
        BY <2>1, <3>1 DEF TypeOK
      <4>2. boxId'[Sender[m]] = boxId[Sender[m]] + 1
        BY <2>1, <2>2
      <4>. QED  BY <4>1, <4>2, <2>3, <2>2
    <3>2. CASE s # r
      <4>1. request'[s] = request[s]
        BY <2>1, <3>2 DEF TypeOK
      <4>2. request[s].pc = "sending" =>
              Sender[request[s].msg] \in Members /\ request[s].id \in Nat
        BY RequestCases, ConstantsAssumption DEF SendingType
      <4>3. request[s].pc = "reading" =>
              request[s].user \in Members /\ request[s].maxId \in Nat
        BY RequestCases DEF ReadingType
      <4>. QED  BY <4>1, <4>2, <4>3, <2>3 DEF IdsHandedOut
    <3>. QED  BY <3>1, <3>2
  <2>6. ASSUME NEW u \in Members, NEW i \in 1 .. Len(events'[u])
        PROVE  /\ events'[u][i].kind = "in" => events'[u][i].from # u
               /\ events'[u][i].kind = "out" => events'[u][i].id <= boxId'[u]
               /\ events'[u][i].kind = "readInbox" =>
                        events'[u][i].maxId <= boxId'[u]
    <3>1. events' = events /\ i \in 1 .. Len(events[u])
      BY <2>1
    <3>2. /\ events[u][i].kind = "out" => events[u][i].id \in Nat
          /\ events[u][i].kind = "readInbox" => events[u][i].maxId \in Nat
      BY <3>1, EventCases DEF MessageEventType, ReadInboxType
    <3>. QED  BY <3>1, <3>2, <2>3 DEF IdsHandedOut
  <2>7. \A u \in Members : dialogs'[u].readInbox <= boxId'[u]
    BY <2>1, <2>3, BoxTypes DEF IdsHandedOut
  <2>. QED  BY <2>4, <2>5, <2>6, <2>7 DEF IdsHandedOut
<1>3. ASSUME NEW r \in Requests, NEW u \in Members, PublishMessage(r, u)
      PROVE  IdsHandedOut'
  <2>. DEFINE q == request[r]
              e == [kind |-> IF u = Sender[q.msg] THEN "out" ELSE "in",
                    msg |-> q.msg, from |-> Sender[q.msg], copy |-> q.copy,
                    id |-> q.id]
  <2>1. q \in SendingType /\ q.pc = "sending"
    BY <1>3, RequestCases DEF PublishMessage
  <2>2. q.msg \in Messages /\ q.copy \in Copies /\ q.id \in Nat \ {0}
        /\ Sender[q.msg] \in Members
    BY <2>1, ConstantsAssumption DEF SendingType
  <2>3. e \in EventType
    BY <2>2 DEF EventType, MessageEventType
  <2>4. Publish(u, e) /\ UNCHANGED << rows, boxId, dialogs >>
    BY <1>3 DEF PublishMessage, ids
  <2>5. /\ e.kind = "in" => e.from # u
        /\ e.kind = "out" => e.id <= boxId[u]
        /\ e.kind # "readInbox"
    BY <2>1 DEF IdsHandedOut
  <2>6. ASSUME NEW s \in Requests
        PROVE  /\ request'[s].pc = "sending" =>
                    request'[s].id <= boxId'[Sender[request'[s].msg]]
               /\ request'[s].pc = "reading" =>
                    request'[s].maxId <= boxId'[request'[s].user]
    <3>1. \/ request'[s] = request[s]
          \/ s = r /\ request'[s] = [q EXCEPT !.left = @ \ {u}]
      BY <1>3 DEF PublishMessage, TypeOK
    <3>2. [q EXCEPT !.left = @ \ {u}].pc = "sending"
          /\ [q EXCEPT !.left = @ \ {u}].id = q.id
          /\ [q EXCEPT !.left = @ \ {u}].msg = q.msg
      BY <2>1 DEF SendingType
    <3>. QED  BY <3>1, <3>2, <2>1, <2>4 DEF IdsHandedOut
  <2>7. \A v \in Members : \A i \in 1 .. Len(events'[v]) :
               \/ i \in 1 .. Len(events[v]) /\ events'[v][i] = events[v][i]
               \/ v = u /\ events'[v][i] = e
    BY <2>3, <2>4, PublishEffect
  <2>. HIDE DEF e, q
  <2>. QED  BY <2>4, <2>5, <2>6, <2>7 DEF IdsHandedOut
<1>4. ASSUME NEW r \in Requests, NEW u \in Members, Read(r, u)
      PROVE  IdsHandedOut'
  <2>1. PICK maxId \in dialogs[u].readInbox + 1 .. boxId[u] :
           request' = [request EXCEPT ![r] =
                 [pc |-> "reading", user |-> u, maxId |-> maxId,
                  unread |-> dialogs[u].unread,
                  readInbox |-> dialogs[u].readInbox]]
    BY <1>4 DEF Read
  <2>2. maxId <= boxId[u]
    BY <2>1 DEF TypeOK
  <2>3. UNCHANGED << rows, boxId, events, dialogs >>
    BY <1>4 DEF Read, ids
  <2>. QED  BY <2>1, <2>2, <2>3 DEF IdsHandedOut, TypeOK
<1>5. ASSUME NEW r \in Requests, PublishReadInbox(r)
      PROVE  IdsHandedOut'
  <2>. DEFINE q == request[r]
              e == [kind |-> "readInbox", maxId |-> q.maxId,
                    unread |-> q.unread, readInbox |-> q.readInbox]
  <2>1. q \in ReadingType /\ q.pc = "reading"
    BY <1>5, RequestCases DEF PublishReadInbox
  <2>2. e \in EventType /\ q.user \in Members
    BY <2>1 DEF ReadingType, EventType, ReadInboxType
  <2>3. Publish(q.user, e) \/ UNCHANGED events
    BY <1>5 DEF PublishReadInbox
  <2>4. \A v \in Members : \A i \in 1 .. Len(events'[v]) :
               \/ i \in 1 .. Len(events[v]) /\ events'[v][i] = events[v][i]
               \/ v = q.user /\ events'[v][i] = e
    BY <2>2, <2>3, PublishEffect
  <2>5. e.kind = "readInbox" /\ e.maxId <= boxId[q.user]
    BY <2>1 DEF IdsHandedOut
  <2>6. \A s \in Requests :
            request'[s] = request[s] \/ request'[s].pc = "telling"
    BY <1>5 DEF PublishReadInbox, TypeOK
  <2>7. UNCHANGED << rows, boxId, dialogs >>
    BY <1>5 DEF PublishReadInbox, ids
  <2>. HIDE DEF e, q
  <2>. QED  BY <2>4, <2>5, <2>6, <2>7 DEF IdsHandedOut
<1>6. ASSUME NEW r \in Requests, PublishReadOutbox(r)
      PROVE  IdsHandedOut'
  <2>. DEFINE q == request[r]
              e == [kind |-> "readOutbox", reader |-> q.user, copy |-> q.copy]
  <2>1. q \in TellingType
    BY <1>6, RequestCases DEF PublishReadOutbox
  <2>2. e \in EventType /\ q.from \in Members
    BY <2>1 DEF TellingType, EventType, ReadOutboxType
  <2>3. Publish(q.from, e) \/ UNCHANGED events
    BY <1>6 DEF PublishReadOutbox
  <2>4. \A v \in Members : \A i \in 1 .. Len(events'[v]) :
               \/ i \in 1 .. Len(events[v]) /\ events'[v][i] = events[v][i]
               \/ events'[v][i] = e
    BY <2>2, <2>3, PublishEffect
  <2>5. e.kind = "readOutbox"
    OBVIOUS
  <2>6. \A s \in Requests : request'[s] = request[s] \/ request'[s] = Idle
    BY <1>6 DEF PublishReadOutbox, TypeOK
  <2>7. UNCHANGED << rows, boxId, dialogs >>
    BY <1>6 DEF PublishReadOutbox, ids
  <2>. HIDE DEF e, q
  <2>. QED  BY <2>4, <2>5, <2>6, <2>7 DEF IdsHandedOut, Idle
<1>7. ASSUME NEW u \in Members, InsertInbox(u)
      PROVE  IdsHandedOut'
  <2>1. /\ boxId' = [boxId EXCEPT ![u] = @ + 1]
        /\ rows' = rows \cup {CopyOfStored(u, boxId[u] + 1)}
        /\ UNCHANGED << request, events, dialogs >>
    BY <1>7 DEF InsertInbox
  <2>2. \A v \in Members : boxId[v] <= boxId'[v] /\ boxId[v] \in Nat
                           /\ boxId'[v] \in Nat
    BY <2>1, BoxTypes
  <2>3. \A x \in rows' : x.id <= boxId'[x.owner]
    <3>1. TAKE x \in rows'
    <3>2. CASE x \in rows
      <4>1. x.owner \in Members /\ x.id \in Nat
        BY <3>2 DEF TypeOK, RowType
      <4>2. x.id <= boxId[x.owner]
        BY <3>2 DEF IdsHandedOut
      <4>. QED  BY <4>1, <4>2, <2>2
    <3>3. CASE x = CopyOfStored(u, boxId[u] + 1)
      <4>1. x.owner = u /\ x.id = boxId[u] + 1 /\ boxId'[u] = boxId[u] + 1
        BY <3>3, <2>1 DEF CopyOfStored, TypeOK
      <4>. QED  BY <4>1, <2>2
    <3>. QED  BY <3>1, <3>2, <3>3, <2>1
  <2>4. ASSUME NEW s \in Requests
        PROVE  /\ request[s].pc = "sending" =>
                    request[s].id <= boxId'[Sender[request[s].msg]]
               /\ request[s].pc = "reading" =>
                    request[s].maxId <= boxId'[request[s].user]
    <3>1. request[s].pc = "sending" =>
              Sender[request[s].msg] \in Members /\ request[s].id \in Nat
      BY RequestCases, ConstantsAssumption DEF SendingType
    <3>2. request[s].pc = "reading" =>
              request[s].user \in Members /\ request[s].maxId \in Nat
      BY RequestCases DEF ReadingType
    <3>. QED  BY <3>1, <3>2, <2>2 DEF IdsHandedOut
  <2>5. ASSUME NEW v \in Members, NEW i \in 1 .. Len(events[v])
        PROVE  /\ events[v][i].kind = "in" => events[v][i].from # v
               /\ events[v][i].kind = "out" => events[v][i].id <= boxId'[v]
               /\ events[v][i].kind = "readInbox" =>
                        events[v][i].maxId <= boxId'[v]
    <3>1. /\ events[v][i].kind = "out" => events[v][i].id \in Nat
          /\ events[v][i].kind = "readInbox" => events[v][i].maxId \in Nat
      BY EventCases DEF MessageEventType, ReadInboxType
    <3>. QED  BY <3>1, <2>2 DEF IdsHandedOut
  <2>6. \A v \in Members : dialogs[v].readInbox <= boxId'[v]
    BY <2>2, BoxTypes DEF IdsHandedOut
  <2>. QED  BY <2>1, <2>3, <2>4, <2>5, <2>6 DEF IdsHandedOut
<1>8. ASSUME NEW u \in Members, InsertOutbox(u)
      PROVE  IdsHandedOut'
  <2>1. Current(u) \in MessageEventType /\ Current(u).kind = "out"
        /\ next[u] \in 1 .. Len(events[u])
    BY <1>8, CurrentCases DEF InsertOutbox
  <2>2. Current(u).id <= boxId[u]
    BY <2>1 DEF IdsHandedOut, Current
  <2>3. rows' = rows \/ rows' = rows \cup {CopyOfStored(u, Current(u).id)}
    BY <1>8 DEF InsertOutbox
  <2>4. CopyOfStored(u, Current(u).id).id = Current(u).id
        /\ CopyOfStored(u, Current(u).id).owner = u
    BY DEF CopyOfStored
  <2>5. UNCHANGED << request, boxId, events, dialogs >>
    BY <1>8 DEF InsertOutbox, ids
  <2>. QED  BY <2>2, <2>3, <2>4, <2>5 DEF IdsHandedOut
<1>9. ASSUME NEW u \in Members, HandleReadInbox(u)
      PROVE  IdsHandedOut'
  <2>1. next[u] \in 1 .. Len(events[u]) /\ Current(u).kind = "readInbox"
    BY <1>9, CurrentCases DEF HandleReadInbox
  <2>2. Current(u).maxId <= boxId[u]
    BY <2>1 DEF IdsHandedOut, Current
  <2>3. \A v \in Members : \/ dialogs'[v].readInbox = dialogs[v].readInbox
                           \/ v = u /\ dialogs'[v].readInbox = Current(u).maxId
    BY <1>9, ReadInboxEffect
  <2>4. UNCHANGED << request, boxId, events, rows >>
    BY <1>9 DEF HandleReadInbox, ids
  <2>. QED  BY <2>2, <2>3, <2>4 DEF IdsHandedOut
<1>10. ASSUME NEW u \in Members,
              CountUnread(u) \/ ClearUnread(u) \/ InsertInboxFails(u)
                  \/ HandleReadOutbox(u) \/ CrashConsumer(u)
      PROVE  IdsHandedOut'
  <2>1. UNCHANGED << request, boxId, events, rows >>
    BY <1>10 DEF CountUnread, ClearUnread, InsertInboxFails, HandleReadOutbox,
                 CrashConsumer, ids
  <2>2. \A v \in Members : dialogs'[v].readInbox = dialogs[v].readInbox
    <3>1. CASE CountUnread(u)
      <4>. DEFINE d == [dialogs[u] EXCEPT !.top = written[u], !.unread = @ + 1]
      <4>1. Write(u, d)
        BY <3>1 DEF CountUnread
      <4>2. d.readInbox = dialogs[u].readInbox
        BY DEF TypeOK
      <4>. HIDE DEF d
      <4>. QED  BY <4>1, <4>2, WriteEffect
    <3>2. CASE ClearUnread(u)
      <4>. DEFINE d == [dialogs[u] EXCEPT !.top = written[u], !.unread = 0]
      <4>1. Write(u, d)
        BY <3>2 DEF ClearUnread
      <4>2. d.readInbox = dialogs[u].readInbox
        BY DEF TypeOK
      <4>. HIDE DEF d
      <4>. QED  BY <4>1, <4>2, WriteEffect
    <3>3. CASE InsertInboxFails(u) \/ CrashConsumer(u)
      BY <3>3 DEF InsertInboxFails, CrashConsumer
    <3>4. CASE HandleReadOutbox(u)
      <4>1. CASE UNCHANGED dialogs
        BY <4>1
      <4>2. ASSUME NEW x \in Marked(u, Current(u)),
                   Write(u, [dialogs[u] EXCEPT !.readOutbox = x.id])
            PROVE  \A v \in Members :
                      dialogs'[v].readInbox = dialogs[v].readInbox
        <5>. DEFINE d == [dialogs[u] EXCEPT !.readOutbox = x.id]
        <5>1. d.readInbox = dialogs[u].readInbox
          BY DEF TypeOK
        <5>2. Write(u, d)
          BY <4>2
        <5>. HIDE DEF d
        <5>. QED  BY <5>1, <5>2, WriteEffect
      <4>. QED  BY <3>4, <4>1, <4>2 DEF HandleReadOutbox
    <3>. QED  BY <1>10, <3>1, <3>2, <3>3, <3>4
  <2>. QED  BY <2>1, <2>2 DEF IdsHandedOut
<1>. QED  BY <1>1, <1>2, <1>3, <1>4, <1>5, <1>6, <1>7, <1>8, <1>9, <1>10,
             StepCases

\* A consumer that has written a copy goes on with the same event.
LEMMA NextWritten ==
    ASSUME Inv2, [Next]_vars  PROVE  WrittenCurrent'
<1>. USE DEF Inv2, Inv1
<1>0. TypeOK /\ TypeOK'
  BY NextInv1
<1>1. ASSUME UNCHANGED << events, next, written >>  PROVE  WrittenCurrent'
  BY <1>1 DEF WrittenCurrent, HasEvent
<1>2. ASSUME NEW u \in Members, NEW e \in EventType, Publish(u, e),
             UNCHANGED << next, written >>
      PROVE  WrittenCurrent'
  <2>1. ASSUME NEW v \in Members, written'[v] # 0
        PROVE  HasEvent(v, "in")' \/ HasEvent(v, "out")'
    <3>1. HasEvent(v, "in") \/ HasEvent(v, "out")
      BY <1>2, <2>1 DEF WrittenCurrent
    <3>2. next[v] \in 1 .. Len(events[v])
      BY <3>1, HasEventIndex
    <3>3. next'[v] \in 1 .. Len(events'[v])
          /\ events'[v][next'[v]] = events[v][next[v]]
      BY <1>2, <3>2, PublishKeepsCurrent
    <3>. QED  BY <3>1, <3>3 DEF HasEvent
  <2>. QED  BY <2>1 DEF WrittenCurrent
<1>3. ASSUME NEW u \in Members, UNCHANGED events,
             \A v \in Members : v # u =>
                 next'[v] = next[v] /\ written'[v] = written[v],
             written'[u] = 0
      PROVE  WrittenCurrent'
  BY <1>3 DEF WrittenCurrent, HasEvent
<1>4. CASE Quiet
  BY <1>4, <1>1 DEF Quiet
<1>5. ASSUME NEW r \in Requests, NEW m \in Messages, Send(r, m)
      PROVE  WrittenCurrent'
  BY <1>5, <1>1 DEF Send, kafka
<1>6. ASSUME NEW r \in Requests, NEW u \in Members, PublishMessage(r, u)
      PROVE  WrittenCurrent'
  <2>. DEFINE q == request[r]
              e == [kind |-> IF u = Sender[q.msg] THEN "out" ELSE "in",
                    msg |-> q.msg, from |-> Sender[q.msg], copy |-> q.copy,
                    id |-> q.id]
  <2>1. q \in SendingType
    BY <1>6, RequestCases DEF PublishMessage
  <2>2. e \in EventType
    BY <2>1, ConstantsAssumption DEF SendingType, EventType, MessageEventType
  <2>3. Publish(u, e) /\ UNCHANGED << next, written >>
    BY <1>6 DEF PublishMessage, kafka
  <2>. QED  BY <2>2, <2>3, <1>2
<1>7. ASSUME NEW r \in Requests, NEW u \in Members, Read(r, u)
      PROVE  WrittenCurrent'
  BY <1>7, <1>1 DEF Read, kafka
<1>8. ASSUME NEW r \in Requests, PublishReadInbox(r)
      PROVE  WrittenCurrent'
  <2>. DEFINE q == request[r]
              e == [kind |-> "readInbox", maxId |-> q.maxId,
                    unread |-> q.unread, readInbox |-> q.readInbox]
  <2>1. q \in ReadingType
    BY <1>8, RequestCases DEF PublishReadInbox
  <2>2. e \in EventType /\ q.user \in Members
    BY <2>1 DEF ReadingType, EventType, ReadInboxType
  <2>3. Publish(q.user, e) \/ UNCHANGED events
    BY <1>8 DEF PublishReadInbox
  <2>4. UNCHANGED << next, written >>
    BY <1>8 DEF PublishReadInbox, kafka
  <2>. QED  BY <2>2, <2>3, <2>4, <1>1, <1>2
<1>9. ASSUME NEW r \in Requests, PublishReadOutbox(r)
      PROVE  WrittenCurrent'
  <2>. DEFINE q == request[r]
              e == [kind |-> "readOutbox", reader |-> q.user, copy |-> q.copy]
  <2>1. q \in TellingType
    BY <1>9, RequestCases DEF PublishReadOutbox
  <2>2. e \in EventType /\ q.from \in Members
    BY <2>1 DEF TellingType, EventType, ReadOutboxType
  <2>3. Publish(q.from, e) \/ UNCHANGED events
    BY <1>9 DEF PublishReadOutbox
  <2>4. UNCHANGED << next, written >>
    BY <1>9 DEF PublishReadOutbox, kafka
  <2>. QED  BY <2>2, <2>3, <2>4, <1>1, <1>2
<1>10. ASSUME NEW u \in Members, InsertInbox(u) \/ InsertOutbox(u)
      PROVE  WrittenCurrent'
  <2>1. UNCHANGED << events, next >>
    BY <1>10 DEF InsertInbox, InsertOutbox, kafka
  <2>2. HasEvent(u, "in") \/ HasEvent(u, "out")
    BY <1>10 DEF InsertInbox, InsertOutbox
  <2>3. \A v \in Members : v # u => written'[v] = written[v]
    BY <1>10 DEF InsertInbox, InsertOutbox, TypeOK
  <2>. QED  BY <2>1, <2>2, <2>3 DEF WrittenCurrent, HasEvent
<1>11. ASSUME NEW u \in Members, CountUnread(u) \/ ClearUnread(u)
      PROVE  WrittenCurrent'
  BY <1>11, <1>3 DEF CountUnread, ClearUnread, Handled, TypeOK
<1>12. ASSUME NEW u \in Members, InsertInboxFails(u)
      PROVE  WrittenCurrent'
  BY <1>12, <1>3 DEF InsertInboxFails, Handled, TypeOK
<1>13. ASSUME NEW u \in Members, HandleReadInbox(u) \/ HandleReadOutbox(u)
      PROVE  WrittenCurrent'
  <2>1. HasEvent(u, "readInbox") \/ HasEvent(u, "readOutbox")
    BY <1>13 DEF HandleReadInbox, HandleReadOutbox
  <2>2. written[u] = 0
    BY <2>1 DEF WrittenCurrent, HasEvent
  <2>. QED  BY <1>13, <2>2, <1>3
            DEF HandleReadInbox, HandleReadOutbox, Handled, TypeOK
<1>14. ASSUME NEW u \in Members, CrashConsumer(u)
      PROVE  WrittenCurrent'
  BY <1>14, <1>3 DEF CrashConsumer, TypeOK
<1>. QED  BY <1>4, <1>5, <1>6, <1>7, <1>8, <1>9, <1>10, <1>11, <1>12, <1>13,
             <1>14, StepCases

LEMMA NextInv2 == ASSUME Inv2, [Next]_vars  PROVE  Inv2'
BY NextInv1, NextIds, NextWritten DEF Inv2

-----------------------------------------------------------------------------
(***************************************************************************)
(* Counting what a mark does not cover.                                    *)
(***************************************************************************)
After(S, u, mark) == { x \in S : x.owner = u /\ x.from # u /\ mark < x.id }
Count(S, u, mark) == Cardinality(After(S, u, mark))

LEMMA CountType ==
    ASSUME NEW S, IsFiniteSet(S), NEW u, NEW mark
    PROVE  IsFiniteSet(After(S, u, mark)) /\ Count(S, u, mark) \in Nat
<1>1. After(S, u, mark) \in SUBSET S
  BY DEF After
<1>. QED  BY <1>1, FS_Subset, FS_CardinalityType DEF Count

\* More messages, more that the mark does not cover.
LEMMA CountGrows ==
    ASSUME NEW S, NEW T, IsFiniteSet(T), S \subseteq T, NEW u, NEW mark
    PROVE  Count(S, u, mark) <= Count(T, u, mark)
<1>1. After(S, u, mark) \in SUBSET After(T, u, mark)
  BY DEF After
<1>. QED  BY <1>1, CountType, FS_Subset DEF Count

\* A new message of another adds one.
LEMMA CountNew ==
    ASSUME NEW S, IsFiniteSet(S), NEW u, NEW mark, NEW x, x \notin S,
           x.owner = u, x.from # u, mark < x.id
    PROVE  Count(S \cup {x}, u, mark) = Count(S, u, mark) + 1
<1>1. After(S \cup {x}, u, mark) = After(S, u, mark) \cup {x}
  BY DEF After
<1>2. x \notin After(S, u, mark)
  BY DEF After
<1>3. IsFiniteSet(After(S, u, mark))
  BY CountType
<1>4. Cardinality(After(S, u, mark) \cup {x}) =
        IF x \in After(S, u, mark) THEN Cardinality(After(S, u, mark))
                                   ELSE Cardinality(After(S, u, mark)) + 1
  BY <1>3, FS_AddElement
<1>. QED  BY <1>1, <1>2, <1>4 DEF Count

\* What an earlier mark does not cover is what lies between the two marks and
\* what the later one does not cover.
LEMMA CountSplit ==
    ASSUME NEW S, IsFiniteSet(S), \A x \in S : x.id \in Nat, NEW u,
           NEW first \in Nat, NEW last \in Nat, first < last
    PROVE  Count(S, u, first) =
             Count(S, u, last)
             + Cardinality({ x \in S : /\ x.owner = u /\ x.from # u
                                       /\ first < x.id /\ x.id <= last })
<1>. DEFINE B == { x \in S : /\ x.owner = u /\ x.from # u
                             /\ first < x.id /\ x.id <= last }
            A == After(S, u, last)
<1>1. After(S, u, first) = A \cup B
  BY DEF After
<1>2. A \cap B = {}
  BY DEF After
<1>3. B \in SUBSET S /\ A \in SUBSET S
  BY DEF After
<1>4. IsFiniteSet(A) /\ IsFiniteSet(B)
  BY <1>3, FS_Subset
<1>. HIDE DEF A, B
<1>5. Cardinality(A \cup B)
        = Cardinality(A) + Cardinality(B) - Cardinality(A \cap B)
  BY <1>4, FS_Union
<1>6. Cardinality(A) \in Nat /\ Cardinality(B) \in Nat
  BY <1>4, FS_CardinalityType
<1>7. Cardinality(A \cap B) = 0
  BY <1>2, FS_EmptySet
<1>. QED  BY <1>1, <1>5, <1>6, <1>7 DEF Count, A, B

-----------------------------------------------------------------------------
(***************************************************************************)
(* Unread messages.                                                        *)
(***************************************************************************)

\* What a request or an event carries was true of the dialog, and messages are
\* only added; a copy that was written and not counted yet is one more.
Honest ==
    /\ \A r \in Requests : request[r].pc = "reading" =>
         /\ request[r].readInbox < request[r].maxId
         /\ request[r].unread
               <= Count(rows, request[r].user, request[r].readInbox)
    /\ \A u \in Members : \A i \in 1 .. Len(events[u]) :
         events[u][i].kind = "readInbox" =>
            /\ events[u][i].readInbox < events[u][i].maxId
            /\ events[u][i].unread <= Count(rows, u, events[u][i].readInbox)
    /\ \A u \in Members :
         /\ dialogs[u].unread <= Count(rows, u, dialogs[u].readInbox)
         /\ HasEvent(u, "in") /\ written[u] # 0 =>
              dialogs[u].unread + 1 <= Count(rows, u, dialogs[u].readInbox)

\* After a query of the consumer failed nothing is claimed of the counts.
Inv3 == Inv2 /\ ("count" \in failed \/ Honest)

LEMMA InitInv3 == ASSUME Init  PROVE  Inv3
<1>1. Inv2
  BY InitInv2
<1>2. ASSUME NEW u \in Members
      PROVE  /\ dialogs[u].unread = 0 /\ dialogs[u].readInbox = 0
             /\ written[u] = 0 /\ Len(events[u]) = 0
  BY DEF Init
<1>3. ASSUME NEW u \in Members  PROVE  Count(rows, u, 0) \in Nat
  BY CountType, FS_EmptySet DEF Init
<1>4. \A r \in Requests : request[r] = Idle
  BY DEF Init
<1>. QED  BY <1>1, <1>2, <1>3, <1>4 DEF Inv3, Honest, Idle

\* What has failed is remembered.
LEMMA FailedGrows ==
    ASSUME [Next]_vars  PROVE  failed \subseteq failed'
<1>1. ASSUME NEW k, Fail(k)  PROVE  failed \subseteq failed'
  BY <1>1 DEF Fail
<1>2. ASSUME NEW u, NEW d, Write(u, d)  PROVE  failed \subseteq failed'
  BY <1>1, <1>2 DEF Write, failures
<1>3. ASSUME NEW r \in Requests,
             \/ \E m \in Messages : Send(r, m) \/ SendAgain(r, m)
             \/ \E u \in Members : PublishMessage(r, u) \/ Read(r, u)
             \/ Answer(r) \/ NoSuchMessage(r)
      PROVE  failed \subseteq failed'
  BY <1>3 DEF Send, SendAgain, PublishMessage, Read, Answer, NoSuchMessage,
              failures
<1>4. ASSUME NEW r \in Requests, PublishFails(r) \/ CrashRequest(r)
             \/ PublishReadInbox(r) \/ PublishReadOutbox(r)
      PROVE  failed \subseteq failed'
  BY <1>1, <1>4 DEF PublishFails, CrashRequest, PublishReadInbox,
                    PublishReadOutbox, failures
<1>5. ASSUME NEW m \in Messages, LockExpires(m) \/ CacheExpires(m)
      PROVE  failed \subseteq failed'
  BY <1>1, <1>5 DEF LockExpires, CacheExpires, failures
<1>6. ASSUME NEW u \in Members, InsertInbox(u) \/ InsertOutbox(u)
             \/ InsertInboxFails(u) \/ CrashConsumer(u)
      PROVE  failed \subseteq failed'
  BY <1>1, <1>6 DEF InsertInbox, InsertOutbox, InsertInboxFails, CrashConsumer,
                    failures
<1>7. ASSUME NEW u \in Members, CountUnread(u) \/ ClearUnread(u)
             \/ HandleReadInbox(u) \/ HandleReadOutbox(u)
      PROVE  failed \subseteq failed'
  BY <1>1, <1>2, <1>7 DEF CountUnread, ClearUnread, HandleReadInbox,
                    HandleReadOutbox, failures
<1>8. CASE UNCHANGED vars
  BY <1>8 DEF vars
<1>. QED  BY <1>3, <1>4, <1>5, <1>6, <1>7, <1>8 DEF Next

\* The messages a consumer writes stay.
LEMMA RowsGrow ==
    ASSUME Inv1, [Next]_vars  PROVE  rows \subseteq rows'
<1>1. CASE Quiet
  BY <1>1 DEF Quiet
<1>2. ASSUME NEW r \in Requests, NEW m \in Messages, Send(r, m)
      PROVE  rows' = rows
  BY <1>2 DEF Send
<1>3. ASSUME NEW r \in Requests, NEW u \in Members,
             PublishMessage(r, u) \/ Read(r, u)
      PROVE  rows' = rows
  BY <1>3 DEF PublishMessage, Read
<1>4. ASSUME NEW r \in Requests, PublishReadInbox(r) \/ PublishReadOutbox(r)
      PROVE  rows' = rows
  BY <1>4 DEF PublishReadInbox, PublishReadOutbox
<1>5. ASSUME NEW u \in Members, InsertInbox(u) \/ InsertOutbox(u)
      PROVE  rows \subseteq rows'
  BY <1>5 DEF InsertInbox, InsertOutbox
<1>6. ASSUME NEW u \in Members, InsertInboxFails(u) \/ CountUnread(u)
             \/ ClearUnread(u) \/ HandleReadInbox(u) \/ HandleReadOutbox(u)
             \/ CrashConsumer(u)
      PROVE  rows' = rows
  BY <1>6 DEF InsertInboxFails, CountUnread, ClearUnread, HandleReadInbox,
              HandleReadOutbox, CrashConsumer
<1>. QED  BY <1>1, <1>2, <1>3, <1>4, <1>5, <1>6, StepCases

LEMMA NextHonest ==
    ASSUME Inv2, Honest, [Next]_vars, "count" \notin failed'
    PROVE  Honest'
<1>. USE DEF Inv2, Inv1
<1>0. TypeOK /\ Inv2' /\ TypeOK' /\ IsFiniteSet(rows') /\ rows \subseteq rows'
  BY NextInv2, RowsGrow
<1>a. ASSUME NEW u, NEW mark
      PROVE  /\ Count(rows, u, mark) \in Nat /\ Count(rows', u, mark) \in Nat
             /\ Count(rows, u, mark) <= Count(rows', u, mark)
  BY <1>0, CountType, CountGrows

\* What is carried stays true.
<1>b. ASSUME NEW r \in Requests, request'[r] = request[r],
             request'[r].pc = "reading"
      PROVE  /\ request'[r].readInbox < request'[r].maxId
             /\ request'[r].unread
                   <= Count(rows', request'[r].user, request'[r].readInbox)
  <2>1. request[r] \in ReadingType
    BY <1>0, <1>b, RequestCases
  <2>2. request[r].unread \in Nat
    BY <2>1 DEF ReadingType
  <2>. QED  BY <1>a, <1>b, <2>2 DEF Honest
<1>c. ASSUME NEW u \in Members, NEW i \in 1 .. Len(events[u]),
             events'[u][i] = events[u][i], events'[u][i].kind = "readInbox"
      PROVE  /\ events'[u][i].readInbox < events'[u][i].maxId
             /\ events'[u][i].unread <= Count(rows', u, events'[u][i].readInbox)
  <2>1. events[u][i] \in ReadInboxType
    BY <1>0, <1>c, EventCases
  <2>2. events[u][i].unread \in Nat
    BY <2>1 DEF ReadInboxType
  <2>. QED  BY <1>a, <1>c, <2>2 DEF Honest
<1>d. ASSUME NEW u \in Members, dialogs'[u].unread = dialogs[u].unread,
             dialogs'[u].readInbox = dialogs[u].readInbox,
             HasEvent(u, "in")' /\ written'[u] # 0 =>
                 HasEvent(u, "in") /\ written[u] # 0
      PROVE  /\ dialogs'[u].unread <= Count(rows', u, dialogs'[u].readInbox)
             /\ HasEvent(u, "in")' /\ written'[u] # 0 =>
                  dialogs'[u].unread + 1
                     <= Count(rows', u, dialogs'[u].readInbox)
  <2>1. dialogs[u].unread \in Nat /\ dialogs[u].readInbox \in Nat
    BY <1>0 DEF TypeOK
  <2>. QED  BY <1>a, <1>d, <2>1 DEF Honest

\* Steps of handlers leave the dialogs alone.
<1>e. ASSUME UNCHANGED << dialogs, next, written >>,
             UNCHANGED events \/
                \E u \in Members : \E e \in EventType : Publish(u, e)
      PROVE  \A u \in Members :
             /\ dialogs'[u].unread <= Count(rows', u, dialogs'[u].readInbox)
             /\ HasEvent(u, "in")' /\ written'[u] # 0 =>
                  dialogs'[u].unread + 1
                     <= Count(rows', u, dialogs'[u].readInbox)
  <2>1. TAKE u \in Members
  <2>2. ASSUME HasEvent(u, "in")', written'[u] # 0
        PROVE  HasEvent(u, "in") /\ written[u] # 0
    <3>1. written[u] # 0
      BY <1>e, <2>2
    <3>2. HasEvent(u, "in") \/ HasEvent(u, "out")
      BY <3>1 DEF WrittenCurrent
    <3>3. next[u] \in 1 .. Len(events[u])
      BY <1>0, <3>2, HasEventIndex
    <3>4. events'[u][next'[u]] = events[u][next[u]]
      BY <1>0, <1>e, <3>3, PublishKeepsCurrent
    <3>. QED  BY <2>2, <3>1, <3>2, <3>4 DEF HasEvent
  <2>. QED  BY <1>d, <1>e, <2>2
\* Steps of a consumer leave the others' dialogs alone.
<1>f. ASSUME NEW u \in Members, UNCHANGED << request, events >>,
             \A v \in Members : v # u =>
                 /\ dialogs'[v] = dialogs[v]
                 /\ next'[v] = next[v] /\ written'[v] = written[v],
             dialogs'[u].unread <= Count(rows', u, dialogs'[u].readInbox),
             HasEvent(u, "in")' /\ written'[u] # 0 =>
                 dialogs'[u].unread + 1 <= Count(rows', u, dialogs'[u].readInbox)
      PROVE  Honest'
  <2>1. ASSUME NEW v \in Members, v # u
        PROVE  /\ dialogs'[v].unread <= Count(rows', v, dialogs'[v].readInbox)
               /\ HasEvent(v, "in")' /\ written'[v] # 0 =>
                    dialogs'[v].unread + 1
                       <= Count(rows', v, dialogs'[v].readInbox)
    BY <1>d, <1>f, <2>1 DEF HasEvent
  <2>. QED  BY <1>b, <1>c, <1>f, <2>1 DEF Honest

<1>1. CASE Quiet
  <2>1. \A r \in Requests : request'[r] = request[r] \/ request'[r] = Idle
    BY <1>1 DEF Quiet
  <2>2. events' = events
    BY <1>1 DEF Quiet
  <2>3. UNCHANGED << dialogs, next, written >>
    BY <1>1 DEF Quiet
  <2>. QED  BY <1>b, <1>c, <1>e, <2>1, <2>2, <2>3 DEF Honest, Idle
<1>2. ASSUME NEW r \in Requests, NEW m \in Messages, Send(r, m)
      PROVE  Honest'
  <2>1. \A s \in Requests : request'[s] = request[s] \/ request'[s].pc = "sending"
    BY <1>0, <1>2 DEF Send, TypeOK
  <2>2. events' = events
    BY <1>2 DEF Send
  <2>3. UNCHANGED << dialogs, next, written >>
    BY <1>2 DEF Send, kafka
  <2>. QED  BY <1>b, <1>c, <1>e, <2>1, <2>2, <2>3 DEF Honest
<1>3. ASSUME NEW r \in Requests, NEW u \in Members, PublishMessage(r, u)
      PROVE  Honest'
  <2>. DEFINE q == request[r]
              e == [kind |-> IF u = Sender[q.msg] THEN "out" ELSE "in",
                    msg |-> q.msg, from |-> Sender[q.msg], copy |-> q.copy,
                    id |-> q.id]
  <2>1. q \in SendingType
    BY <1>0, <1>3, RequestCases DEF PublishMessage
  <2>2. e \in EventType
    BY <2>1, ConstantsAssumption DEF SendingType, EventType, MessageEventType
  <2>3. Publish(u, e) /\ UNCHANGED << dialogs, next, written >>
    BY <1>3 DEF PublishMessage, kafka
  <2>4. \A s \in Requests :
            \/ request'[s] = request[s]
            \/ request'[s] = [q EXCEPT !.left = @ \ {u}]
    BY <1>0, <1>3 DEF PublishMessage, TypeOK
  <2>5. [q EXCEPT !.left = @ \ {u}].pc = "sending"
    BY <2>1 DEF SendingType
  <2>6. e.kind # "readInbox"
    OBVIOUS
  <2>7. \A v \in Members : \A i \in 1 .. Len(events'[v]) :
               \/ i \in 1 .. Len(events[v]) /\ events'[v][i] = events[v][i]
               \/ events'[v][i] = e
    BY <1>0, <2>2, <2>3, PublishEffect
  <2>. HIDE DEF e
  <2>8. \A v \in Members :
             /\ dialogs'[v].unread <= Count(rows', v, dialogs'[v].readInbox)
             /\ HasEvent(v, "in")' /\ written'[v] # 0 =>
                  dialogs'[v].unread + 1
                     <= Count(rows', v, dialogs'[v].readInbox)
    BY <1>e, <2>2, <2>3
  <2>. QED  BY <1>b, <1>c, <2>4, <2>5, <2>6, <2>7, <2>8 DEF Honest
<1>4. ASSUME NEW r \in Requests, NEW u \in Members, Read(r, u)
      PROVE  Honest'
  <2>1. PICK maxId \in dialogs[u].readInbox + 1 .. boxId[u] :
           request' = [request EXCEPT ![r] =
                 [pc |-> "reading", user |-> u, maxId |-> maxId,
                  unread |-> dialogs[u].unread,
                  readInbox |-> dialogs[u].readInbox]]
    BY <1>4 DEF Read
  <2>2. dialogs[u].readInbox \in Nat /\ boxId[u] \in Nat
    BY <1>0 DEF TypeOK
  <2>3. dialogs[u].readInbox < maxId
    BY <2>1, <2>2
  <2>4. UNCHANGED << dialogs, next, written, events, rows >>
    BY <1>4 DEF Read, kafka
  <2>5. dialogs[u].unread <= Count(rows, u, dialogs[u].readInbox)
    BY DEF Honest
  <2>6. \A s \in Requests :
            \/ request'[s] = request[s]
            \/ request'[s] = [pc |-> "reading", user |-> u, maxId |-> maxId,
                              unread |-> dialogs[u].unread,
                              readInbox |-> dialogs[u].readInbox]
    BY <1>0, <2>1 DEF TypeOK
  <2>. QED  BY <1>b, <1>c, <1>e, <2>3, <2>4, <2>5, <2>6 DEF Honest
<1>5. ASSUME NEW r \in Requests, PublishReadInbox(r)
      PROVE  Honest'
  <2>. DEFINE q == request[r]
              e == [kind |-> "readInbox", maxId |-> q.maxId,
                    unread |-> q.unread, readInbox |-> q.readInbox]
  <2>1. q \in ReadingType /\ q.pc = "reading"
    BY <1>0, <1>5, RequestCases DEF PublishReadInbox
  <2>2. e \in EventType /\ q.user \in Members
    BY <2>1 DEF ReadingType, EventType, ReadInboxType
  <2>3. Publish(q.user, e) \/ UNCHANGED events
    BY <1>5 DEF PublishReadInbox
  <2>4. \A v \in Members : \A i \in 1 .. Len(events'[v]) :
               \/ i \in 1 .. Len(events[v]) /\ events'[v][i] = events[v][i]
               \/ v = q.user /\ events'[v][i] = e
    BY <1>0, <2>2, <2>3, PublishEffect
  <2>5. UNCHANGED << dialogs, next, written, rows >>
    BY <1>5 DEF PublishReadInbox, kafka
  <2>6. \A s \in Requests :
            request'[s] = request[s] \/ request'[s].pc = "telling"
    BY <1>0, <1>5 DEF PublishReadInbox, TypeOK
  <2>7. e.readInbox < e.maxId /\ e.unread <= Count(rows', q.user, e.readInbox)
    BY <2>1, <2>5 DEF Honest
  <2>. HIDE DEF e
  <2>8. \A v \in Members :
             /\ dialogs'[v].unread <= Count(rows', v, dialogs'[v].readInbox)
             /\ HasEvent(v, "in")' /\ written'[v] # 0 =>
                  dialogs'[v].unread + 1
                     <= Count(rows', v, dialogs'[v].readInbox)
    BY <1>e, <2>2, <2>3, <2>5
  <2>. HIDE DEF q
  <2>. QED  BY <1>b, <1>c, <2>4, <2>6, <2>7, <2>8 DEF Honest
<1>6. ASSUME NEW r \in Requests, PublishReadOutbox(r)
      PROVE  Honest'
  <2>. DEFINE q == request[r]
              e == [kind |-> "readOutbox", reader |-> q.user, copy |-> q.copy]
  <2>1. q \in TellingType
    BY <1>0, <1>6, RequestCases DEF PublishReadOutbox
  <2>2. e \in EventType /\ q.from \in Members
    BY <2>1 DEF TellingType, EventType, ReadOutboxType
  <2>3. Publish(q.from, e) \/ UNCHANGED events
    BY <1>6 DEF PublishReadOutbox
  <2>4. \A v \in Members : \A i \in 1 .. Len(events'[v]) :
               \/ i \in 1 .. Len(events[v]) /\ events'[v][i] = events[v][i]
               \/ events'[v][i] = e
    BY <1>0, <2>2, <2>3, PublishEffect
  <2>5. UNCHANGED << dialogs, next, written >>
    BY <1>6 DEF PublishReadOutbox, kafka
  <2>6. \A s \in Requests : request'[s] = request[s] \/ request'[s] = Idle
    BY <1>0, <1>6 DEF PublishReadOutbox, TypeOK
  <2>7. e.kind # "readInbox"
    OBVIOUS
  <2>. HIDE DEF e
  <2>8. \A v \in Members :
             /\ dialogs'[v].unread <= Count(rows', v, dialogs'[v].readInbox)
             /\ HasEvent(v, "in")' /\ written'[v] # 0 =>
                  dialogs'[v].unread + 1
                     <= Count(rows', v, dialogs'[v].readInbox)
    BY <1>e, <2>2, <2>3, <2>5
  <2>. QED  BY <1>b, <1>c, <2>4, <2>6, <2>7, <2>8 DEF Honest, Idle
<1>7. ASSUME NEW u \in Members, InsertInbox(u)
      PROVE  Honest'
  <2>. DEFINE x == CopyOfStored(u, boxId[u] + 1)
  <2>1. rows' = rows \cup {x} /\ UNCHANGED << request, events, dialogs, next >>
    BY <1>7 DEF InsertInbox, kafka
  <2>2. HasEvent(u, "in") /\ written[u] = 0
    BY <1>7 DEF InsertInbox
  <2>3. next[u] \in 1 .. Len(events[u]) /\ events[u][next[u]].kind = "in"
    BY <1>0, <2>2, HasEventIndex
  <2>4. x.owner = u /\ x.from # u /\ x.id = boxId[u] + 1
    BY <2>3 DEF CopyOfStored, Current, IdsHandedOut
  <2>5. boxId[u] \in Nat /\ dialogs[u].readInbox \in Nat
        /\ dialogs[u].unread \in Nat
    BY <1>0 DEF TypeOK
  <2>6. dialogs[u].readInbox < x.id
    BY <2>4, <2>5 DEF IdsHandedOut
  <2>7. x \notin rows
    <3>1. SUFFICES ASSUME x \in rows  PROVE  FALSE
      OBVIOUS
    <3>2. x.id <= boxId[x.owner]
      BY <3>1 DEF IdsHandedOut
    <3>. HIDE DEF x
    <3>. QED  BY <3>2, <2>4, <2>5
  <2>. HIDE DEF x
  <2>8. Count(rows', u, dialogs[u].readInbox)
          = Count(rows, u, dialogs[u].readInbox) + 1
    BY <2>1, <2>4, <2>6, <2>7, CountNew
  <2>9. dialogs[u].unread <= Count(rows, u, dialogs[u].readInbox)
    BY DEF Honest
  <2>10. \A v \in Members : v # u => written'[v] = written[v]
    BY <1>0, <1>7 DEF InsertInbox, TypeOK
  <2>11. dialogs'[u].unread <= Count(rows', u, dialogs'[u].readInbox)
         /\ dialogs'[u].unread + 1 <= Count(rows', u, dialogs'[u].readInbox)
    BY <2>1, <2>5, <2>8, <2>9, <1>a
  <2>. QED  BY <1>f, <2>1, <2>10, <2>11
<1>8. ASSUME NEW u \in Members, InsertOutbox(u)
      PROVE  Honest'
  <2>1. UNCHANGED << request, events, dialogs, next >>
    BY <1>8 DEF InsertOutbox, kafka
  <2>2. \A v \in Members : v # u => written'[v] = written[v]
    BY <1>0, <1>8 DEF InsertOutbox, TypeOK
  <2>3. ~ HasEvent(u, "in")'
    BY <1>8, <2>1 DEF InsertOutbox, HasEvent
  <2>. QED  BY <1>d, <1>f, <2>1, <2>2, <2>3
\* The event in progress is done with: nothing is due.
<1>g. ASSUME NEW u \in Members, written'[u] = 0, Handled(u) \/ CrashConsumer(u),
             UNCHANGED << request, events, rows >>,
             \A v \in Members : v # u =>
                 dialogs'[v] = dialogs[v] /\ written'[v] = written[v],
             dialogs'[u].unread <= Count(rows', u, dialogs'[u].readInbox)
      PROVE  Honest'
  <2>1. \A v \in Members : v # u => next'[v] = next[v]
    BY <1>0, <1>g DEF Handled, CrashConsumer, TypeOK
  <2>. QED  BY <1>f, <1>g, <2>1
<1>9. ASSUME NEW u \in Members, CountUnread(u)
      PROVE  Honest'
  <2>. DEFINE d == [dialogs[u] EXCEPT !.top = written[u], !.unread = @ + 1]
  <2>1. Write(u, d) /\ Handled(u) /\ UNCHANGED << request, events, rows >>
        /\ HasEvent(u, "in") /\ written[u] # 0
    BY <1>9 DEF CountUnread
  <2>2. d.unread = dialogs[u].unread + 1 /\ d.readInbox = dialogs[u].readInbox
    BY <1>0 DEF TypeOK
  <2>. HIDE DEF d
  <2>3. \A v \in Members : dialogs'[v] = dialogs[v] \/ (v = u /\ dialogs'[v] = d)
    BY <1>0, <2>1, WriteEffect
  <2>4. dialogs'[u].unread <= Count(rows', u, dialogs'[u].readInbox)
    BY <2>1, <2>2, <2>3 DEF Honest
  <2>5. written'[u] = 0 /\ \A v \in Members : v # u => written'[v] = written[v]
    BY <1>0, <1>9 DEF CountUnread, TypeOK
  <2>. QED  BY <1>g, <2>1, <2>3, <2>4, <2>5
<1>10. ASSUME NEW u \in Members, ClearUnread(u)
      PROVE  Honest'
  <2>. DEFINE d == [dialogs[u] EXCEPT !.top = written[u], !.unread = 0]
  <2>1. Write(u, d) /\ Handled(u) /\ UNCHANGED << request, events, rows >>
    BY <1>10 DEF ClearUnread
  <2>2. d.unread = 0
    BY <1>0 DEF TypeOK
  <2>. HIDE DEF d
  <2>3. \A v \in Members : dialogs'[v] = dialogs[v] \/ (v = u /\ dialogs'[v] = d)
    BY <1>0, <2>1, WriteEffect
  <2>4. dialogs'[u].unread <= Count(rows', u, dialogs'[u].readInbox)
    <3>1. CASE dialogs'[u] = dialogs[u]
      BY <3>1, <2>1 DEF Honest
    <3>2. CASE dialogs'[u] = d
      <4>1. Count(rows', u, dialogs'[u].readInbox) \in Nat
        BY <1>a
      <4>. QED  BY <3>2, <4>1, <2>2
    <3>. QED  BY <2>3, <3>1, <3>2
  <2>5. written'[u] = 0 /\ \A v \in Members : v # u => written'[v] = written[v]
    BY <1>0, <1>10 DEF ClearUnread, TypeOK
  <2>. QED  BY <1>g, <2>1, <2>3, <2>4, <2>5
<1>11. ASSUME NEW u \in Members, InsertInboxFails(u)
      PROVE  Honest'
  <2>1. Handled(u) /\ UNCHANGED << request, events, rows, dialogs, written >>
        /\ written[u] = 0
    BY <1>11 DEF InsertInboxFails
  <2>2. dialogs'[u].unread <= Count(rows', u, dialogs'[u].readInbox)
    BY <2>1 DEF Honest
  <2>. QED  BY <1>g, <2>1, <2>2
<1>12. ASSUME NEW u \in Members, HandleReadInbox(u)
      PROVE  Honest'
  <2>. DEFINE e == Current(u)
              d == ReadUpTo(u, e, StillUnread(u, e))
              n == Cardinality(FromOthers(u, e.readInbox, e.maxId))
  <2>1. Write(u, d) /\ Handled(u)
        /\ UNCHANGED << request, events, rows, written >>
    BY <1>12 DEF HandleReadInbox, Fail
  <2>2. HasEvent(u, "readInbox")
    BY <1>12 DEF HandleReadInbox
  <2>3. written[u] = 0
    BY <2>2 DEF WrittenCurrent, HasEvent
  <2>4. e \in ReadInboxType /\ next[u] \in 1 .. Len(events[u])
        /\ e.kind = "readInbox"
    BY <1>0, <2>2, CurrentCases
  <2>5. e.maxId \in Nat /\ e.unread \in Nat /\ e.readInbox \in Nat
    BY <2>4 DEF ReadInboxType
  <2>6. e.readInbox < e.maxId /\ e.unread <= Count(rows, u, e.readInbox)
    BY <2>4 DEF Honest, Current
  <2>7. \A x \in rows : x.id \in Nat
    BY <1>0 DEF TypeOK, RowType
  <2>8. Count(rows, u, e.readInbox) = Count(rows, u, e.maxId) + n
    BY <2>5, <2>6, <2>7, CountSplit DEF FromOthers
  <2>9. n \in Nat /\ Count(rows, u, e.maxId) \in Nat
    BY OthersFinite, <1>a
  <2>10. StillUnread(u, e) <= Count(rows, u, e.maxId)
    <3>. HIDE DEF n, e
    <3>1. (IF n < e.unread THEN e.unread - n ELSE 0) <= Count(rows, u, e.maxId)
      BY <2>5, <2>6, <2>8, <2>9
    <3>. QED  BY <3>1 DEF StillUnread, n
  <2>11. d.unread = StillUnread(u, e) /\ d.readInbox = e.maxId
    BY <1>0 DEF TypeOK, ReadUpTo
  <2>. HIDE DEF d
  <2>12. \A v \in Members : dialogs'[v] = dialogs[v] \/ (v = u /\ dialogs'[v] = d)
    BY <1>0, <2>1, WriteEffect
  <2>13. dialogs'[u].unread <= Count(rows', u, dialogs'[u].readInbox)
    <3>1. CASE dialogs'[u] = dialogs[u]
      BY <3>1, <2>1 DEF Honest
    <3>2. CASE dialogs'[u] = d
      BY <3>2, <2>1, <2>10, <2>11
    <3>. QED  BY <2>12, <3>1, <3>2
  <2>. QED  BY <1>g, <2>1, <2>3, <2>12, <2>13
<1>13. ASSUME NEW u \in Members, HandleReadOutbox(u)
      PROVE  Honest'
  <2>1. Handled(u) /\ UNCHANGED << request, events, rows, written >>
    BY <1>13 DEF HandleReadOutbox
  <2>2. HasEvent(u, "readOutbox")
    BY <1>13 DEF HandleReadOutbox
  <2>3. written[u] = 0
    BY <2>2 DEF WrittenCurrent, HasEvent
  <2>4. \A v \in Members : /\ v # u => dialogs'[v] = dialogs[v]
                           /\ dialogs'[v].unread = dialogs[v].unread
                           /\ dialogs'[v].readInbox = dialogs[v].readInbox
    <3>1. CASE UNCHANGED dialogs
      BY <3>1
    <3>2. ASSUME NEW x \in Marked(u, Current(u)),
                 Write(u, [dialogs[u] EXCEPT !.readOutbox = x.id])
          PROVE  <2>4
      <4>. DEFINE d == [dialogs[u] EXCEPT !.readOutbox = x.id]
      <4>1. d.readInbox = dialogs[u].readInbox /\ d.unread = dialogs[u].unread
        BY <1>0 DEF TypeOK
      <4>2. Write(u, d)
        BY <3>2
      <4>. HIDE DEF d
      <4>. QED  BY <1>0, <4>1, <4>2, WriteEffect
    <3>. QED  BY <1>13, <3>1, <3>2 DEF HandleReadOutbox
  <2>5. dialogs'[u].unread <= Count(rows', u, dialogs'[u].readInbox)
    BY <2>1, <2>4 DEF Honest
  <2>. QED  BY <1>g, <2>1, <2>3, <2>4, <2>5
<1>14. ASSUME NEW u \in Members, CrashConsumer(u)
      PROVE  Honest'
  <2>1. UNCHANGED << request, events, rows, dialogs >> /\ written'[u] = 0
        /\ \A v \in Members : v # u => written'[v] = written[v]
    BY <1>0, <1>14 DEF CrashConsumer, TypeOK
  <2>2. dialogs'[u].unread <= Count(rows', u, dialogs'[u].readInbox)
    BY <2>1 DEF Honest
  <2>. QED  BY <1>14, <1>g, <2>1, <2>2
<1>. QED  BY <1>1, <1>2, <1>3, <1>4, <1>5, <1>6, <1>7, <1>8, <1>9, <1>10, <1>11,
             <1>12, <1>13, <1>14, StepCases

\* No dialog claims more unread messages than there are after its read mark,
\* with any number of members, messages, concurrent reads, redeliveries, failed
\* writes and lost events, as long as no query of what was read has failed:
\* what readHistory sends along was true when it was read, and the consumer of
\* the reader's partition does one thing after the other.
THEOREM UnreadIsNotTooHigh == Spec => []UnreadNotTooHigh
<1>1. Init => Inv3
  BY InitInv3
<1>2. Inv3 /\ [Next]_vars => Inv3'
  BY NextInv2, NextHonest, FailedGrows DEF Inv3
<1>3. Inv3 => UnreadNotTooHigh
  BY DEF Inv3, Honest, UnreadNotTooHigh, Unseen, Count, After
<1>. QED  BY <1>1, <1>2, <1>3, PTL DEF Spec

-----------------------------------------------------------------------------
(***************************************************************************)
(* An id of a box stands for one copy.                                     *)
(***************************************************************************)
KnownRows(u) == { << x.id, x.copy >> : x \in { y \in rows : y.owner = u } }
KnownEvents(u) ==
    { << events[u][i].id, events[u][i].copy >> :
         i \in { j \in 1 .. Len(events[u]) : events[u][j].kind = "out" } }
KnownRequests(u) ==
    { << request[r].id, request[r].copy >> :
         r \in { s \in Requests : /\ request[s].pc = "sending"
                                  /\ Sender[request[s].msg] = u } }
Known(u) == KnownRows(u) \cup KnownEvents(u) \cup KnownRequests(u)

Unambiguous ==
    \A u \in Members : \A p, q \in Known(u) : p[1] = q[1] => p[2] = q[2]

\* Known ids were handed out.
LEMMA KnownHandedOut ==
    ASSUME Inv2, NEW u \in Members, NEW p \in Known(u)
    PROVE  p[1] \in Nat /\ p[1] <= boxId[u]
<1>. USE DEF Inv2, Inv1
<1>1. CASE p \in KnownRows(u)
  BY <1>1 DEF KnownRows, IdsHandedOut, TypeOK, RowType
<1>2. CASE p \in KnownEvents(u)
  BY <1>2, EventCases DEF KnownEvents, IdsHandedOut, MessageEventType
<1>3. CASE p \in KnownRequests(u)
  BY <1>3, RequestCases DEF KnownRequests, IdsHandedOut, SendingType
<1>. QED  BY <1>1, <1>2, <1>3 DEF Known

\* A step makes no id known but the next one of a box, for one copy.
LEMMA NextUnambiguous ==
    ASSUME Inv2, Unambiguous, [Next]_vars  PROVE  Unambiguous'
<1>. USE DEF Inv2, Inv1
<1>0. TypeOK /\ TypeOK'
  BY NextInv1
<1>a. ASSUME NEW c,
             \A u \in Members :
                Known(u)' \subseteq Known(u) \cup {<< boxId[u] + 1, c >>}
      PROVE  Unambiguous'
  <2>1. SUFFICES ASSUME NEW u \in Members, NEW p \in Known(u)',
                        NEW q \in Known(u)', p[1] = q[1]
                 PROVE  p[2] = q[2]
    BY DEF Unambiguous
  <2>2. p \in Known(u) \/ p = << boxId[u] + 1, c >>
    BY <1>a
  <2>3. q \in Known(u) \/ q = << boxId[u] + 1, c >>
    BY <1>a
  <2>4. boxId[u] \in Nat
    BY <1>0 DEF TypeOK
  <2>5. p \in Known(u) => p[1] \in Nat /\ p[1] <= boxId[u]
    BY KnownHandedOut
  <2>6. q \in Known(u) => q[1] \in Nat /\ q[1] <= boxId[u]
    BY KnownHandedOut
  <2>. QED  BY <2>1, <2>2, <2>3, <2>4, <2>5, <2>6 DEF Unambiguous
<1>b. ASSUME \A u \in Members : Known(u)' \subseteq Known(u)
      PROVE  Unambiguous'
  BY <1>b DEF Unambiguous
<1>c. ASSUME UNCHANGED << rows, events >>,
             \A r \in Requests :
                request'[r] = request[r] \/ request'[r].pc # "sending"
      PROVE  Unambiguous'
  BY <1>b, <1>c DEF Known, KnownRows, KnownEvents, KnownRequests
<1>d. ASSUME NEW w \in Members, NEW e \in EventType,
             Publish(w, e) \/ UNCHANGED events, e.kind \notin {"in", "out"},
             UNCHANGED rows,
             \A r \in Requests :
                request'[r] = request[r] \/ request'[r].pc # "sending"
      PROVE  Unambiguous'
  <2>1. \A v \in Members : \A i \in 1 .. Len(events'[v]) :
               \/ i \in 1 .. Len(events[v]) /\ events'[v][i] = events[v][i]
               \/ events'[v][i] = e
    BY <1>0, <1>d, PublishEffect
  <2>2. \A u \in Members : KnownEvents(u)' \subseteq KnownEvents(u)
    BY <1>d, <2>1 DEF KnownEvents
  <2>. QED  BY <1>b, <1>d, <2>2 DEF Known, KnownRows, KnownRequests
<1>1. CASE Quiet
  BY <1>1, <1>c DEF Quiet, Idle
<1>2. ASSUME NEW r \in Requests, NEW m \in Messages, Send(r, m)
      PROVE  Unambiguous'
  <2>. DEFINE q == [pc |-> "sending", msg |-> m, copy |-> copies + 1,
                    id |-> boxId[Sender[m]] + 1, left |-> Members]
  <2>1. request' = [request EXCEPT ![r] = q] /\ UNCHANGED << rows, events >>
    BY <1>2 DEF Send
  <2>2. \A s \in Requests :
            request'[s] = request[s] \/ request'[s] = q
    BY <1>0, <2>1 DEF TypeOK
  <2>3. q.msg = m /\ << q.id, q.copy >> = << boxId[Sender[m]] + 1, copies + 1 >>
    OBVIOUS
  <2>. HIDE DEF q
  <2>4. \A u \in Members : KnownRequests(u)' \subseteq
            KnownRequests(u) \cup {<< boxId[u] + 1, copies + 1 >>}
    BY <2>2, <2>3 DEF KnownRequests
  <2>. QED  BY <1>a, <2>1, <2>4 DEF Known, KnownRows, KnownEvents
<1>3. ASSUME NEW r \in Requests, NEW u \in Members, PublishMessage(r, u)
      PROVE  Unambiguous'
  <2>. DEFINE q == request[r]
              e == [kind |-> IF u = Sender[q.msg] THEN "out" ELSE "in",
                    msg |-> q.msg, from |-> Sender[q.msg], copy |-> q.copy,
                    id |-> q.id]
              z == [q EXCEPT !.left = @ \ {u}]
  <2>1. q \in SendingType /\ q.pc = "sending"
    BY <1>0, <1>3, RequestCases DEF PublishMessage
  <2>2. e \in EventType
    BY <2>1, ConstantsAssumption DEF SendingType, EventType, MessageEventType
  <2>3. Publish(u, e) /\ UNCHANGED rows
    BY <1>3 DEF PublishMessage
  <2>4. \A s \in Requests :
            request'[s] = request[s] \/ (s = r /\ request'[s] = z)
    BY <1>0, <1>3 DEF PublishMessage, TypeOK
  <2>5. z.pc = "sending" /\ z.id = q.id /\ z.copy = q.copy /\ z.msg = q.msg
    BY <2>1 DEF SendingType
  <2>6. \A v \in Members : \A i \in 1 .. Len(events'[v]) :
               \/ i \in 1 .. Len(events[v]) /\ events'[v][i] = events[v][i]
               \/ v = u /\ events'[v][i] = e
    BY <1>0, <2>2, <2>3, PublishEffect
  <2>7. e.kind = "out" => u = Sender[q.msg] /\ e.id = q.id /\ e.copy = q.copy
    OBVIOUS
  <2>. HIDE DEF e, z
  <2>8. \A v \in Members : KnownRequests(v)' \subseteq KnownRequests(v)
    BY <2>1, <2>4, <2>5 DEF KnownRequests
  <2>9. e.kind = "out" => << e.id, e.copy >> \in KnownRequests(u)
    BY <2>1, <2>7 DEF KnownRequests
  <2>10. \A v \in Members :
            KnownEvents(v)' \subseteq KnownEvents(v) \cup KnownRequests(v)
    BY <2>6, <2>9 DEF KnownEvents
  <2>. QED  BY <1>b, <2>3, <2>8, <2>10 DEF Known, KnownRows
<1>4. ASSUME NEW r \in Requests, NEW u \in Members, Read(r, u)
      PROVE  Unambiguous'
  <2>1. UNCHANGED << rows, events >> /\ \A s \in Requests :
            request'[s] = request[s] \/ request'[s].pc = "reading"
    BY <1>0, <1>4 DEF Read, TypeOK
  <2>. QED  BY <1>c, <2>1
<1>5. ASSUME NEW r \in Requests, PublishReadInbox(r)
      PROVE  Unambiguous'
  <2>. DEFINE q == request[r]
              e == [kind |-> "readInbox", maxId |-> q.maxId,
                    unread |-> q.unread, readInbox |-> q.readInbox]
  <2>1. q \in ReadingType
    BY <1>0, <1>5, RequestCases DEF PublishReadInbox
  <2>2. e \in EventType /\ q.user \in Members /\ e.kind = "readInbox"
    BY <2>1 DEF ReadingType, EventType, ReadInboxType
  <2>3. (Publish(q.user, e) \/ UNCHANGED events) /\ UNCHANGED rows
    BY <1>5 DEF PublishReadInbox
  <2>4. \A s \in Requests :
            request'[s] = request[s] \/ request'[s].pc = "telling"
    BY <1>0, <1>5 DEF PublishReadInbox, TypeOK
  <2>. HIDE DEF e, q
  <2>. QED  BY <1>d, <2>2, <2>3, <2>4
<1>6. ASSUME NEW r \in Requests, PublishReadOutbox(r)
      PROVE  Unambiguous'
  <2>. DEFINE q == request[r]
              e == [kind |-> "readOutbox", reader |-> q.user, copy |-> q.copy]
  <2>1. q \in TellingType
    BY <1>0, <1>6, RequestCases DEF PublishReadOutbox
  <2>2. e \in EventType /\ q.from \in Members /\ e.kind = "readOutbox"
    BY <2>1 DEF TellingType, EventType, ReadOutboxType
  <2>3. (Publish(q.from, e) \/ UNCHANGED events) /\ UNCHANGED rows
    BY <1>6 DEF PublishReadOutbox
  <2>4. \A s \in Requests :
            request'[s] = request[s] \/ request'[s].pc # "sending"
    BY <1>0, <1>6 DEF PublishReadOutbox, TypeOK, Idle
  <2>. HIDE DEF e, q
  <2>. QED  BY <1>d, <2>2, <2>3, <2>4
<1>7. ASSUME NEW u \in Members, InsertInbox(u)
      PROVE  Unambiguous'
  <2>. DEFINE x == CopyOfStored(u, boxId[u] + 1)
  <2>1. rows' = rows \cup {x} /\ UNCHANGED << request, events >>
    BY <1>7 DEF InsertInbox
  <2>2. x.owner = u /\ << x.id, x.copy >> = << boxId[u] + 1, Current(u).copy >>
    BY DEF CopyOfStored
  <2>. HIDE DEF x
  <2>3. \A v \in Members : KnownRows(v)' \subseteq
            KnownRows(v) \cup {<< boxId[v] + 1, Current(u).copy >>}
    BY <2>1, <2>2 DEF KnownRows
  <2>4. \A v \in Members : UNCHANGED << KnownEvents(v), KnownRequests(v) >>
    BY <2>1 DEF KnownEvents, KnownRequests
  <2>. QED  BY <1>a, <2>3, <2>4 DEF Known
<1>8. ASSUME NEW u \in Members, InsertOutbox(u)
      PROVE  Unambiguous'
  <2>. DEFINE x == CopyOfStored(u, Current(u).id)
  <2>1. (rows' = rows \/ rows' = rows \cup {x}) /\ UNCHANGED << request, events >>
    BY <1>8 DEF InsertOutbox
  <2>2. x.owner = u /\ << x.id, x.copy >> = << Current(u).id, Current(u).copy >>
    BY DEF CopyOfStored
  <2>3. << Current(u).id, Current(u).copy >> \in KnownEvents(u)
    BY <1>0, <1>8, HasEventIndex DEF InsertOutbox, KnownEvents, Current
  <2>. HIDE DEF x
  <2>4. \A v \in Members :
            KnownRows(v)' \subseteq KnownRows(v) \cup KnownEvents(v)
    BY <2>1, <2>2, <2>3 DEF KnownRows
  <2>5. \A v \in Members : UNCHANGED << KnownEvents(v), KnownRequests(v) >>
    BY <2>1 DEF KnownEvents, KnownRequests
  <2>. QED  BY <1>b, <2>4, <2>5 DEF Known
<1>9. ASSUME NEW u \in Members, InsertInboxFails(u) \/ CountUnread(u)
             \/ ClearUnread(u) \/ HandleReadInbox(u) \/ HandleReadOutbox(u)
             \/ CrashConsumer(u)
      PROVE  Unambiguous'
  <2>1. UNCHANGED << request, events, rows >>
    BY <1>9 DEF InsertInboxFails, CountUnread, ClearUnread, HandleReadInbox,
                HandleReadOutbox, CrashConsumer
  <2>. QED  BY <1>c, <2>1
<1>. QED  BY <1>1, <1>2, <1>3, <1>4, <1>5, <1>6, <1>7, <1>8, <1>9, StepCases

-----------------------------------------------------------------------------
(***************************************************************************)
(* Nothing that was told is lost.                                          *)
(***************************************************************************)
Published(u, c) ==
    \E i \in 1 .. Len(events[u]) :
        events[u][i].kind \in {"in", "out"} /\ events[u][i].copy = c

\* Whoever is told of a copy is told of one that was published to everybody.
ToldPublished ==
    /\ \A r \in Requests : request[r].pc = "sending" =>
          \A u \in Members \ request[r].left : Published(u, request[r].copy)
    /\ \A m \in Messages : cached[m] \notin {Nothing, Empty} =>
          \A u \in Members : Published(u, cached[m])
    /\ \A m \in Messages : \A c \in told[m] \ {Empty} :
          \A u \in Members : Published(u, c)

\* Unless a write failed, the copy of every event that was handled, or whose
\* dialog is due, is there.
HandledStored ==
    /\ \A u \in Members : next[u] <= Len(events[u]) + 1
    /\ "write" \notin failed =>
         \A u \in Members : \A i \in 1 .. Len(events[u]) :
            /\ events[u][i].kind \in {"in", "out"}
            /\ i < next[u] \/ (i = next[u] /\ written[u] # 0)
            => Has(u, events[u][i].copy)

Inv4 == Inv2 /\ Unambiguous /\ ToldPublished /\ HandledStored

LEMMA InitInv4 == ASSUME Init  PROVE  Inv4
<1>1. Inv2
  BY InitInv2
<1>2. \A u \in Members : Known(u) = {}
  BY DEF Init, Idle, Known, KnownRows, KnownEvents, KnownRequests
<1>3. Unambiguous
  BY <1>2 DEF Unambiguous
<1>4. ToldPublished /\ HandledStored
  BY DEF Init, Idle, ToldPublished, HandledStored
<1>. QED  BY <1>1, <1>3, <1>4 DEF Inv4

\* What was published stays in the log.
LEMMA EventsGrow ==
    ASSUME Inv1, [Next]_vars
    PROVE  \A v \in Members : \A i \in 1 .. Len(events[v]) :
              i \in 1 .. Len(events'[v]) /\ events'[v][i] = events[v][i]
<1>. USE DEF Inv1
<1>1. CASE UNCHANGED events
  BY <1>1
<1>2. ASSUME NEW r \in Requests, NEW u \in Members, PublishMessage(r, u)
      PROVE  \E e \in EventType : Publish(u, e)
  <2>. DEFINE q == request[r]
              e == [kind |-> IF u = Sender[q.msg] THEN "out" ELSE "in",
                    msg |-> q.msg, from |-> Sender[q.msg], copy |-> q.copy,
                    id |-> q.id]
  <2>1. q \in SendingType
    BY <1>2, RequestCases DEF PublishMessage
  <2>2. e \in EventType
    BY <2>1, ConstantsAssumption DEF SendingType, EventType, MessageEventType
  <2>3. Publish(u, e)
    BY <1>2 DEF PublishMessage
  <2>. QED  BY <2>2, <2>3
<1>3. ASSUME NEW r \in Requests, PublishReadInbox(r)
      PROVE  UNCHANGED events \/ \E u \in Members : \E e \in EventType : Publish(u, e)
  <2>. DEFINE q == request[r]
              e == [kind |-> "readInbox", maxId |-> q.maxId,
                    unread |-> q.unread, readInbox |-> q.readInbox]
  <2>1. q \in ReadingType
    BY <1>3, RequestCases DEF PublishReadInbox
  <2>2. e \in EventType /\ q.user \in Members
    BY <2>1 DEF ReadingType, EventType, ReadInboxType
  <2>3. Publish(q.user, e) \/ UNCHANGED events
    BY <1>3 DEF PublishReadInbox
  <2>. QED  BY <2>2, <2>3
<1>4. ASSUME NEW r \in Requests, PublishReadOutbox(r)
      PROVE  UNCHANGED events \/ \E u \in Members : \E e \in EventType : Publish(u, e)
  <2>. DEFINE q == request[r]
              e == [kind |-> "readOutbox", reader |-> q.user, copy |-> q.copy]
  <2>1. q \in TellingType
    BY <1>4, RequestCases DEF PublishReadOutbox
  <2>2. e \in EventType /\ q.from \in Members
    BY <2>1 DEF TellingType, EventType, ReadOutboxType
  <2>3. Publish(q.from, e) \/ UNCHANGED events
    BY <1>4 DEF PublishReadOutbox
  <2>. QED  BY <2>2, <2>3
<1>5. UNCHANGED events \/ \E u \in Members : \E e \in EventType : Publish(u, e)
  <2>1. Quiet => UNCHANGED events
    BY DEF Quiet
  <2>2. ASSUME NEW r \in Requests, NEW m \in Messages, Send(r, m)
        PROVE  UNCHANGED events
    BY <2>2 DEF Send
  <2>3. ASSUME NEW r \in Requests, NEW u \in Members, Read(r, u)
        PROVE  UNCHANGED events
    BY <2>3 DEF Read
  <2>4. ASSUME NEW u \in Members, InsertInbox(u) \/ InsertOutbox(u)
               \/ InsertInboxFails(u) \/ CountUnread(u) \/ ClearUnread(u)
               \/ HandleReadInbox(u) \/ HandleReadOutbox(u) \/ CrashConsumer(u)
        PROVE  UNCHANGED events
    BY <2>4 DEF InsertInbox, InsertOutbox, InsertInboxFails, CountUnread,
                ClearUnread, HandleReadInbox, HandleReadOutbox, CrashConsumer
  <2>. QED  BY <1>2, <1>3, <1>4, <2>1, <2>2, <2>3, <2>4, StepCases
<1>. QED  BY <1>1, <1>5, PublishEffect

LEMMA NextToldPublished ==
    ASSUME Inv1, ToldPublished, [Next]_vars  PROVE  ToldPublished'
<1>. USE DEF Inv1
<1>0. \A u \in Members : \A c : Published(u, c) => Published(u, c)'
  BY EventsGrow DEF Published
<1>a. ASSUME \A r \in Requests : \/ request'[r] = request[r]
                                 \/ request'[r].pc # "sending",
             \A m \in Messages :
                cached'[m] \in {cached[m], Nothing, Empty},
             \A m \in Messages :
                told'[m] \subseteq told[m] \cup {cached[m], Empty},
             \A m \in Messages : Nothing \notin told'[m]
      PROVE  ToldPublished'
  BY <1>0, <1>a DEF ToldPublished
<1>1. ASSUME NEW r \in Requests, NEW m \in Messages, Send(r, m)
      PROVE  ToldPublished'
  <2>. DEFINE q == [pc |-> "sending", msg |-> m, copy |-> copies + 1,
                    id |-> boxId[Sender[m]] + 1, left |-> Members]
  <2>1. \A s \in Requests : request'[s] = request[s] \/ request'[s] = q
    BY <1>1 DEF Send, TypeOK
  <2>2. q.left = Members
    OBVIOUS
  <2>3. UNCHANGED << cached, told >>
    BY <1>1 DEF Send
  <2>. HIDE DEF q
  <2>. QED  BY <1>0, <2>1, <2>2, <2>3 DEF ToldPublished
<1>2. ASSUME NEW r \in Requests, NEW m \in Messages, SendAgain(r, m)
      PROVE  ToldPublished'
  BY <1>2, <1>a DEF SendAgain, TypeOK
<1>3. ASSUME NEW r \in Requests, NEW u \in Members, PublishMessage(r, u)
      PROVE  ToldPublished'
  <2>. DEFINE q == request[r]
              e == [kind |-> IF u = Sender[q.msg] THEN "out" ELSE "in",
                    msg |-> q.msg, from |-> Sender[q.msg], copy |-> q.copy,
                    id |-> q.id]
              z == [q EXCEPT !.left = @ \ {u}]
  <2>1. q \in SendingType /\ q.pc = "sending"
    BY <1>3, RequestCases DEF PublishMessage
  <2>2. \A s \in Requests :
            request'[s] = request[s] \/ (s = r /\ request'[s] = z)
    BY <1>3 DEF PublishMessage, TypeOK
  <2>3. z.copy = q.copy /\ z.left = q.left \ {u}
    BY <2>1 DEF SendingType
  <2>4. ASSUME NEW c, c = q.copy  PROVE  Published(u, c)'
    <3>1. events' = [events EXCEPT ![u] = Append(@, e)]
      BY <1>3 DEF PublishMessage, Publish
    <3>2. events[u] \in Seq(EventType) /\ events'[u] = Append(events[u], e)
      BY <3>1 DEF TypeOK
    <3>3. e.kind \in {"in", "out"} /\ e.copy = q.copy
      OBVIOUS
    <3>. HIDE DEF e
    <3>4. Len(events[u]) + 1 \in 1 .. Len(events'[u])
          /\ events'[u][Len(events[u]) + 1] = e
      BY <3>2
    <3>. QED  BY <2>4, <3>3, <3>4 DEF Published
  <2>5. UNCHANGED << cached, told >>
    BY <1>3 DEF PublishMessage, idempotent
  <2>. HIDE DEF e, z
  <2>. QED  BY <1>0, <2>1, <2>2, <2>3, <2>4, <2>5 DEF ToldPublished
<1>4. ASSUME NEW r \in Requests, Answer(r)
      PROVE  ToldPublished'
  <2>. DEFINE m == request[r].msg
              c == request[r].copy
  <2>1. m \in Messages /\ request[r].left = {} /\ request[r].pc = "sending"
    BY <1>4, RequestCases DEF Answer, SendingType
  <2>2. \A u \in Members : Published(u, c)
    BY <2>1 DEF ToldPublished
  <2>3. /\ cached' = [cached EXCEPT ![m] = c]
        /\ told' = [told EXCEPT ![m] = @ \cup {c}]
        /\ request' = [request EXCEPT ![r] = Idle]
    BY <1>4 DEF Answer
  <2>4. /\ \A n \in Messages : cached'[n] \in {cached[n], c}
        /\ \A n \in Messages : told'[n] \subseteq told[n] \cup {c}
        /\ \A s \in Requests : request'[s] = request[s] \/ request'[s] = Idle
    BY <2>3 DEF TypeOK
  <2>. HIDE DEF m, c
  <2>. QED  BY <1>0, <2>2, <2>4 DEF ToldPublished, Idle
<1>5. ASSUME NEW r \in Requests, PublishFails(r)
      PROVE  ToldPublished'
  <2>1. \/ UNCHANGED << cached, told >>
        \/ /\ cached' = [cached EXCEPT ![request[r].msg] = Empty]
           /\ told' = [told EXCEPT ![request[r].msg] = @ \cup {Empty}]
    BY <1>5 DEF PublishFails
  <2>2. /\ cached' \in {cached, [cached EXCEPT ![request[r].msg] = Empty]}
        /\ told' \in {told, [told EXCEPT ![request[r].msg] = @ \cup {Empty}]}
    BY <2>1
  <2>5. cached \in [Messages -> Answers] /\ DOMAIN told = Messages
    BY DEF TypeOK
  <2>6. \A m \in Messages : cached'[m] \in {cached[m], Nothing, Empty}
    BY <2>2, <2>5
  <2>7. \A m \in Messages : told'[m] \subseteq told[m] \cup {cached[m], Empty}
    BY <2>2, <2>5
  <2>3. \A m \in Messages : Nothing \notin told'[m]
    BY NextInv1 DEF TypeOK
  <2>4. \A s \in Requests : request'[s] = request[s] \/ request'[s] = Idle
    BY <1>5 DEF PublishFails, TypeOK
  <2>. QED  BY <1>a, <2>3, <2>4, <2>6, <2>7 DEF Idle
<1>6. ASSUME NEW m \in Messages, CacheExpires(m)
      PROVE  ToldPublished'
  BY <1>6, <1>a DEF CacheExpires, TypeOK
<1>7. ASSUME UNCHANGED << cached, told >>,
             \A r \in Requests :
                request'[r] = request[r] \/ request'[r].pc # "sending"
      PROVE  ToldPublished'
  BY <1>0, <1>7 DEF ToldPublished
<1>8. ASSUME NEW r \in Requests, CrashRequest(r) \/ NoSuchMessage(r)
             \/ PublishReadOutbox(r)
      PROVE  ToldPublished'
  BY <1>7, <1>8 DEF CrashRequest, NoSuchMessage, PublishReadOutbox, idempotent,
                    Idle, TypeOK
<1>9. ASSUME NEW r \in Requests, NEW u \in Members, Read(r, u)
      PROVE  ToldPublished'
  BY <1>7, <1>9 DEF Read, idempotent, TypeOK
<1>10. ASSUME NEW r \in Requests, PublishReadInbox(r)
      PROVE  ToldPublished'
  BY <1>7, <1>10 DEF PublishReadInbox, idempotent, TypeOK
<1>11. ASSUME NEW m \in Messages, LockExpires(m)
       PROVE  ToldPublished'
  BY <1>7, <1>11 DEF LockExpires
<1>12. ASSUME NEW u \in Members, InsertInbox(u) \/ InsertOutbox(u)
              \/ InsertInboxFails(u) \/ CountUnread(u) \/ ClearUnread(u)
              \/ HandleReadInbox(u) \/ HandleReadOutbox(u) \/ CrashConsumer(u)
       PROVE  ToldPublished'
  BY <1>7, <1>12 DEF InsertInbox, InsertOutbox, InsertInboxFails, CountUnread,
                     ClearUnread, HandleReadInbox, HandleReadOutbox,
                     CrashConsumer, idempotent
<1>13. CASE UNCHANGED vars
  BY <1>7, <1>13 DEF vars
<1>. QED  BY <1>1, <1>2, <1>3, <1>4, <1>5, <1>6, <1>8, <1>9, <1>10, <1>11,
             <1>12, <1>13 DEF Next

\* The consumer writes a copy before it goes on, and after a restart it goes
\* back, never forward.
LEMMA NextHandledStored ==
    ASSUME Inv2, Unambiguous, HandledStored, [Next]_vars
    PROVE  HandledStored'
<1>. USE DEF Inv2, Inv1
<1>0. TypeOK /\ TypeOK' /\ failed \subseteq failed'
  BY NextInv1, FailedGrows
<1>l. \A v \in Members : next[v] \in Nat \ {0} /\ Len(events[v]) \in Nat
  BY <1>0 DEF TypeOK
<1>g. ASSUME rows \subseteq rows', NEW v, NEW c, Has(v, c)
      PROVE  Has(v, c)'
  BY <1>g DEF Has
<1>a. ASSUME UNCHANGED << rows, events, next, written >>
      PROVE  HandledStored'
  BY <1>0, <1>a DEF HandledStored, Has
<1>b. ASSUME NEW w \in Members, NEW e \in EventType, Publish(w, e),
             UNCHANGED << rows, next, written >>
      PROVE  HandledStored'
  <2>1. \A v \in Members : Len(events'[v]) \in Nat
           /\ Len(events'[v]) \in {Len(events[v]), Len(events[v]) + 1}
    <3>1. TAKE v \in Members
    <3>2. events[v] \in Seq(EventType) /\ events[w] \in Seq(EventType)
      BY <1>0 DEF TypeOK
    <3>3. events'[v] = IF v = w THEN Append(events[w], e) ELSE events[v]
      BY <1>0, <1>b DEF Publish, TypeOK
    <3>4. Len(Append(events[w], e)) = Len(events[w]) + 1 /\ Len(events[v]) \in Nat
      BY <3>2
    <3>5. CASE v = w
      BY <3>3, <3>4, <3>5
    <3>6. CASE v # w
      BY <3>3, <3>4, <3>6
    <3>. QED  BY <3>5, <3>6
  <2>2. \A v \in Members : \A i \in 1 .. Len(events[v]) :
           events'[v][i] = events[v][i]
    BY <1>0, <1>b, PublishEffect
  <2>3. \A v \in Members : written[v] # 0 => next[v] \in 1 .. Len(events[v])
    BY <1>0, HasEventIndex DEF WrittenCurrent
  <2>4. ASSUME NEW v \in Members, NEW i \in 1 .. Len(events'[v]),
               i < next[v] \/ (i = next[v] /\ written[v] # 0)
        PROVE  i \in 1 .. Len(events[v])
    BY <1>l, <2>1, <2>3, <2>4 DEF HandledStored
  <2>5. \A v \in Members : next[v] <= Len(events'[v]) + 1
    <3>1. TAKE v \in Members
    <3>2. next[v] <= Len(events[v]) + 1 /\ Len(events[v]) <= Len(events'[v])
      BY <1>l, <2>1 DEF HandledStored
    <3>. QED  BY <1>l, <2>1, <3>2
  <2>. QED  BY <1>0, <1>b, <2>2, <2>4, <2>5 DEF HandledStored, Has
\* The consumer of a partition: what counts as handled changes only there.
<1>c. ASSUME NEW u \in Members, rows \subseteq rows', UNCHANGED events,
             \A v \in Members : v # u => next'[v] = next[v]
                                         /\ written'[v] = written[v],
             next'[u] <= Len(events[u]) + 1,
             "write" \notin failed' =>
                \A i \in 1 .. Len(events[u]) :
                   /\ events[u][i].kind \in {"in", "out"}
                   /\ i < next'[u] \/ (i = next'[u] /\ written'[u] # 0)
                   => Has(u, events[u][i].copy) \/ Has(u, events[u][i].copy)'
      PROVE  HandledStored'
  <2>1. \A v, c : Has(v, c) => Has(v, c)'
    BY <1>c, <1>g
  <2>2. \A v \in Members : next'[v] <= Len(events'[v]) + 1
    BY <1>c DEF HandledStored
  <2>3. ASSUME "write" \notin failed', NEW v \in Members,
               NEW i \in 1 .. Len(events'[v]),
               events'[v][i].kind \in {"in", "out"},
               i < next'[v] \/ (i = next'[v] /\ written'[v] # 0)
        PROVE  Has(v, events[v][i].copy) \/ Has(v, events[v][i].copy)'
    BY <1>0, <1>c, <2>3 DEF HandledStored
  <2>4. ASSUME NEW v, NEW c, Has(v, c)'
        PROVE  \E x \in rows' : x.owner = v /\ x.copy = c
    BY <2>4 DEF Has
  <2>5. ASSUME "write" \notin failed', NEW v \in Members,
               NEW i \in 1 .. Len(events'[v]),
               events'[v][i].kind \in {"in", "out"},
               i < next'[v] \/ (i = next'[v] /\ written'[v] # 0)
        PROVE  \E x \in rows' : x.owner = v /\ x.copy = events'[v][i].copy
    BY <1>c, <2>3, <2>5 DEF Has
  <2>. QED  BY <2>2, <2>5 DEF HandledStored, Has
\* A step over an event: its copy is there, or it is about no message.
<1>d. ASSUME NEW u \in Members, Handled(u), UNCHANGED << rows, events >>,
             NEW k, HasEvent(u, k),
             written[u] # 0 \/ k \notin {"in", "out"} \/ "write" \in failed',
             \A v \in Members : v # u => written'[v] = written[v],
             written'[u] = 0
      PROVE  HandledStored'
  <2>1. next'[u] = next[u] + 1 /\ \A v \in Members : v # u => next'[v] = next[v]
    BY <1>0, <1>d DEF Handled, TypeOK
  <2>2. next[u] \in 1 .. Len(events[u]) /\ events[u][next[u]].kind = k
    BY <1>0, <1>d, HasEventIndex
  <2>3. ASSUME "write" \notin failed', NEW i \in 1 .. Len(events[u]),
               events[u][i].kind \in {"in", "out"}, i < next[u] + 1
        PROVE  Has(u, events[u][i].copy)
    <3>1. i < next[u] \/ i = next[u]
      BY <1>l, <2>3
    <3>2. i = next[u] => written[u] # 0
      BY <1>d, <2>2, <2>3
    <3>. QED  BY <1>0, <2>3, <3>1, <3>2 DEF HandledStored
  <2>4. next'[u] <= Len(events[u]) + 1
    BY <1>l, <2>1, <2>2
  <2>. QED  BY <1>c, <1>d, <2>1, <2>3, <2>4
<1>1. CASE Quiet
  BY <1>1, <1>a DEF Quiet
<1>2. ASSUME NEW r \in Requests, NEW m \in Messages, Send(r, m)
      PROVE  HandledStored'
  BY <1>2, <1>a DEF Send, kafka
<1>3. ASSUME NEW r \in Requests, NEW u \in Members, PublishMessage(r, u)
      PROVE  HandledStored'
  <2>. DEFINE q == request[r]
              e == [kind |-> IF u = Sender[q.msg] THEN "out" ELSE "in",
                    msg |-> q.msg, from |-> Sender[q.msg], copy |-> q.copy,
                    id |-> q.id]
  <2>1. q \in SendingType
    BY <1>0, <1>3, RequestCases DEF PublishMessage
  <2>2. e \in EventType
    BY <2>1, ConstantsAssumption DEF SendingType, EventType, MessageEventType
  <2>3. Publish(u, e) /\ UNCHANGED << rows, next, written >>
    BY <1>3 DEF PublishMessage, kafka
  <2>. HIDE DEF e, q
  <2>. QED  BY <1>b, <2>2, <2>3
<1>4. ASSUME NEW r \in Requests, NEW u \in Members, Read(r, u)
      PROVE  HandledStored'
  BY <1>4, <1>a DEF Read, kafka
<1>5. ASSUME NEW r \in Requests, PublishReadInbox(r)
      PROVE  HandledStored'
  <2>. DEFINE q == request[r]
              e == [kind |-> "readInbox", maxId |-> q.maxId,
                    unread |-> q.unread, readInbox |-> q.readInbox]
  <2>1. q \in ReadingType
    BY <1>0, <1>5, RequestCases DEF PublishReadInbox
  <2>2. e \in EventType /\ q.user \in Members
    BY <2>1 DEF ReadingType, EventType, ReadInboxType
  <2>3. (Publish(q.user, e) \/ UNCHANGED events)
        /\ UNCHANGED << rows, next, written >>
    BY <1>5 DEF PublishReadInbox, kafka
  <2>. HIDE DEF e, q
  <2>. QED  BY <1>a, <1>b, <2>2, <2>3
<1>6. ASSUME NEW r \in Requests, PublishReadOutbox(r)
      PROVE  HandledStored'
  <2>. DEFINE q == request[r]
              e == [kind |-> "readOutbox", reader |-> q.user, copy |-> q.copy]
  <2>1. q \in TellingType
    BY <1>0, <1>6, RequestCases DEF PublishReadOutbox
  <2>2. e \in EventType /\ q.from \in Members
    BY <2>1 DEF TellingType, EventType, ReadOutboxType
  <2>3. (Publish(q.from, e) \/ UNCHANGED events)
        /\ UNCHANGED << rows, next, written >>
    BY <1>6 DEF PublishReadOutbox, kafka
  <2>. HIDE DEF e, q
  <2>. QED  BY <1>a, <1>b, <2>2, <2>3
\* A copy is written: the dialog is due.
<1>7. ASSUME NEW u \in Members, rows \subseteq rows',
             UNCHANGED << events, next >>,
             HasEvent(u, "in") \/ HasEvent(u, "out"),
             \A v \in Members : v # u => written'[v] = written[v],
             "write" \in failed' \/ Has(u, Current(u).copy)'
      PROVE  HandledStored'
  <2>1. events[u][next[u]].copy = Current(u).copy
    BY DEF Current
  <2>2. "write" \notin failed' =>
            \E x \in rows' : x.owner = u /\ x.copy = events[u][next[u]].copy
    BY <1>7 DEF Has, Current
  <2>3. ASSUME "write" \notin failed', NEW i \in 1 .. Len(events[u]),
               events[u][i].kind \in {"in", "out"},
               i < next[u] \/ i = next[u]
        PROVE  Has(u, events[u][i].copy) \/ Has(u, events[u][i].copy)'
    <3>1. CASE i < next[u]
      BY <1>0, <2>3, <3>1 DEF HandledStored
    <3>2. CASE i = next[u]
      BY <1>7, <2>2, <2>3, <3>2 DEF Has
    <3>. QED  BY <2>3, <3>1, <3>2
  <2>4. next'[u] <= Len(events[u]) + 1
    BY <1>7 DEF HandledStored
  <2>. QED  BY <1>c, <1>7, <2>3, <2>4
<1>8. ASSUME NEW u \in Members, InsertInbox(u)
      PROVE  HandledStored'
  <2>. DEFINE x == CopyOfStored(u, boxId[u] + 1)
  <2>1. rows' = rows \cup {x} /\ UNCHANGED << events, next >>
        /\ \A v \in Members : v # u => written'[v] = written[v]
    BY <1>0, <1>8 DEF InsertInbox, kafka, TypeOK
  <2>2. x.owner = u /\ x.copy = events[u][next[u]].copy
    BY DEF CopyOfStored, Current
  <2>. HIDE DEF x
  <2>3. Has(u, Current(u).copy)'
    BY <2>1, <2>2 DEF Has, Current
  <2>4. HasEvent(u, "in")
    BY <1>8 DEF InsertInbox
  <2>. QED  BY <1>7, <2>1, <2>3, <2>4
<1>9. ASSUME NEW u \in Members, InsertOutbox(u)
      PROVE  HandledStored'
  <2>. DEFINE x == CopyOfStored(u, Current(u).id)
  <2>1. /\ UNCHANGED << events, next >>
        /\ \A v \in Members : v # u => written'[v] = written[v]
        /\ \/ rows' = IF RowsWith(u, Current(u).id) # {} THEN rows
                      ELSE rows \cup {x}
           \/ Fail("write") /\ UNCHANGED rows
    BY <1>0, <1>9 DEF InsertOutbox, kafka, TypeOK
  <2>2. x.owner = u /\ x.copy = events[u][next[u]].copy
    BY DEF CopyOfStored, Current
  <2>. HIDE DEF x
  <2>3. HasEvent(u, "out")
    BY <1>9 DEF InsertOutbox
  <2>4. rows \subseteq rows'
    BY <2>1
  <2>5. << Current(u).id, Current(u).copy >> \in Known(u)
    BY <1>0, <2>3, HasEventIndex DEF KnownEvents, Known, Current
  <2>6. \A y \in RowsWith(u, Current(u).id) : y.copy = Current(u).copy
    <3>1. TAKE y \in RowsWith(u, Current(u).id)
    <3>2. y \in rows /\ y.owner = u /\ y.id = Current(u).id
      BY DEF RowsWith
    <3>3. << y.id, y.copy >> \in Known(u)
      BY <3>2 DEF KnownRows, Known
    <3>. QED  BY <2>5, <3>2, <3>3 DEF Unambiguous
  <2>7. "write" \in failed' \/ Has(u, Current(u).copy)'
    <3>1. CASE Fail("write")
      BY <3>1 DEF Fail
    <3>2. CASE RowsWith(u, Current(u).id) # {} /\ rows' = rows
      BY <2>1, <2>6, <3>2 DEF Has, RowsWith, Current
    <3>3. CASE rows' = rows \cup {x}
      BY <2>1, <2>2, <3>3 DEF Has, Current
    <3>. QED  BY <2>1, <3>1, <3>2, <3>3
  <2>. QED  BY <1>7, <2>1, <2>3, <2>4, <2>7
<1>10. ASSUME NEW u \in Members, InsertInboxFails(u)
       PROVE  HandledStored'
  <2>1. /\ Handled(u) /\ HasEvent(u, "in") /\ written[u] = 0
        /\ UNCHANGED << rows, events, written >> /\ "write" \in failed'
    BY <1>10 DEF InsertInboxFails, Fail
  <2>. QED  BY <1>d, <2>1
<1>11. ASSUME NEW u \in Members, CountUnread(u) \/ ClearUnread(u)
       PROVE  HandledStored'
  <2>1. /\ Handled(u) /\ written[u] # 0 /\ UNCHANGED << rows, events >>
        /\ written' = [written EXCEPT ![u] = 0]
        /\ HasEvent(u, "in") \/ HasEvent(u, "out")
    BY <1>11 DEF CountUnread, ClearUnread
  <2>2. written'[u] = 0 /\ \A v \in Members : v # u => written'[v] = written[v]
    BY <1>0, <2>1 DEF TypeOK
  <2>. QED  BY <1>d, <2>1, <2>2
<1>12. ASSUME NEW u \in Members, HandleReadInbox(u) \/ HandleReadOutbox(u)
       PROVE  HandledStored'
  <2>1. /\ Handled(u) /\ UNCHANGED << rows, events, written >>
        /\ HasEvent(u, "readInbox") \/ HasEvent(u, "readOutbox")
    BY <1>12 DEF HandleReadInbox, HandleReadOutbox
  <2>2. written[u] = 0
    BY <2>1 DEF WrittenCurrent, HasEvent
  <2>. QED  BY <1>d, <2>1, <2>2
<1>13. ASSUME NEW u \in Members, CrashConsumer(u)
       PROVE  HandledStored'
  <2>1. PICK k \in committed[u] .. next[u] - 1 : next' = [next EXCEPT ![u] = k + 1]
    BY <1>13 DEF CrashConsumer
  <2>2. committed[u] \in Nat
    BY <1>0 DEF TypeOK
  <2>7. k + 1 <= next[u] /\ k \in Nat
    BY <1>l, <2>1, <2>2
  <2>8. next'[u] = k + 1 /\ \A v \in Members : v # u => next'[v] = next[v]
    BY <1>0, <2>1 DEF TypeOK
  <2>3. next'[u] = k + 1 /\ k + 1 <= next[u] /\ k \in Nat
        /\ \A v \in Members : v # u => next'[v] = next[v]
    BY <2>7, <2>8
  <2>4. /\ UNCHANGED << rows, events >> /\ written'[u] = 0
        /\ \A v \in Members : v # u => written'[v] = written[v]
    BY <1>0, <1>13 DEF CrashConsumer, TypeOK
  <2>5. next'[u] <= Len(events[u]) + 1
    BY <1>l, <2>3 DEF HandledStored
  <2>6. ASSUME "write" \notin failed', NEW i \in 1 .. Len(events[u]),
               events[u][i].kind \in {"in", "out"}, i < next'[u]
        PROVE  Has(u, events[u][i].copy)
    <3>1. i < next[u]
      BY <1>l, <2>3, <2>6
    <3>. QED  BY <1>0, <2>6, <3>1 DEF HandledStored
  <2>. QED  BY <1>c, <2>3, <2>4, <2>5, <2>6
<1>. QED  BY <1>1, <1>2, <1>3, <1>4, <1>5, <1>6, <1>8, <1>9, <1>10, <1>11,
             <1>12, <1>13, StepCases

\* A message that its client was told is sent is in every member's box or in
\* the part of the member's partition that is still to be handled, wherever
\* handlers and consumers end and start again, unless the database refused a
\* write: an answer is given after everybody's event was published, and an
\* event counts as handled after its copy was written.
THEOREM NothingToldIsLost == Spec => []NotLost
<1>1. Init => Inv4
  BY InitInv4
<1>2. Inv4 /\ [Next]_vars => Inv4'
  BY NextInv2, NextUnambiguous, NextToldPublished, NextHandledStored
     DEF Inv4, Inv2
<1>3. Inv4 => NotLost
  <2>1. SUFFICES ASSUME Inv4, "write" \notin failed,
                        NEW m \in Messages, NEW c \in told[m] \ {Empty},
                        NEW u \in Members
                 PROVE  Has(u, c) \/ OnItsWay(u, c)
    BY DEF NotLost
  <2>2. PICK i \in 1 .. Len(events[u]) :
            events[u][i].kind \in {"in", "out"} /\ events[u][i].copy = c
    BY <2>1 DEF Inv4, ToldPublished, Published
  <2>3. next[u] \in Nat \ {0} /\ Len(events[u]) \in Nat
    BY <2>1 DEF Inv4, Inv2, Inv1, TypeOK
  <2>4. CASE i < next[u]
    BY <2>1, <2>2, <2>4 DEF Inv4, HandledStored
  <2>5. CASE i >= next[u]
    BY <2>2, <2>3, <2>5 DEF OnItsWay
  <2>. QED  BY <2>3, <2>4, <2>5
<1>. QED  BY <1>1, <1>2, <1>3, PTL DEF Spec

-----------------------------------------------------------------------------
(***************************************************************************)
(* A repeated request gets the answer of the first.                        *)
(***************************************************************************)

\* As long as nothing expires, one attempt at a time has the lock, none has it
\* once there is an answer, and all answers were this one.
OneAttempt ==
    "expire" \notin failed =>
        /\ \A r \in Requests : request[r].pc = "sending" =>
              lock[request[r].msg] = r /\ cached[request[r].msg] = Nothing
        /\ \A m \in Messages : told[m] \subseteq {cached[m]}

LEMMA NextOneAttempt ==
    ASSUME TypeOK, TypeOK', OneAttempt, [Next]_vars  PROVE  OneAttempt'
<1>1. ASSUME NEW r \in Requests, NEW m \in Messages, Send(r, m)
      PROVE  OneAttempt'
  <2>. DEFINE q == [pc |-> "sending", msg |-> m, copy |-> copies + 1,
                    id |-> boxId[Sender[m]] + 1, left |-> Members]
  <2>1. /\ lock[m] = Free /\ cached[m] = Nothing
        /\ lock' = [lock EXCEPT ![m] = r]
        /\ UNCHANGED << cached, told, failed >>
        /\ request' = [request EXCEPT ![r] = q]
    BY <1>1 DEF Send, Start, failures
  <2>2. \A s \in Requests : IF s = r THEN request'[s] = q
                                     ELSE request'[s] = request[s]
    BY <2>1 DEF TypeOK
  <2>3. q.msg = m
    OBVIOUS
  <2>4. lock'[m] = r /\ \A n \in Messages : n # m => lock'[n] = lock[n]
    BY <2>1 DEF TypeOK
  <2>5. \A s \in Requests : request[s].pc = "sending" =>
            request[s].msg \in Messages
    BY RequestCases DEF SendingType
  <2>6. Free \notin Requests
    BY ConstantsAssumption
  <2>. HIDE DEF q
  <2>. QED  BY <2>1, <2>2, <2>3, <2>4, <2>5, <2>6 DEF OneAttempt
<1>2. ASSUME NEW r \in Requests, NEW m \in Messages, SendAgain(r, m)
      PROVE  OneAttempt'
  BY <1>2 DEF SendAgain, OneAttempt, failures, TypeOK
<1>3. ASSUME NEW r \in Requests, NEW u \in Members, PublishMessage(r, u)
      PROVE  OneAttempt'
  <2>. DEFINE z == [request[r] EXCEPT !.left = @ \ {u}]
  <2>1. request[r] \in SendingType
    BY <1>3, RequestCases DEF PublishMessage
  <2>2. z.pc = "sending" /\ z.msg = request[r].msg /\ request[r].pc = "sending"
    BY <1>3, <2>1 DEF SendingType, PublishMessage
  <2>3. \A s \in Requests :
            request'[s] = request[s] \/ (s = r /\ request'[s] = z)
    BY <1>3 DEF PublishMessage, TypeOK
  <2>4. UNCHANGED << lock, cached, told, failed >>
    BY <1>3 DEF PublishMessage, idempotent, failures
  <2>. HIDE DEF z
  <2>. QED  BY <2>2, <2>3, <2>4 DEF OneAttempt
\* An attempt is over: it gives up the lock, which no other has.
<1>a. ASSUME NEW r \in Requests, request[r].pc = "sending",
             request' = [request EXCEPT ![r] = Idle],
             lock' = Released(r, request[r].msg), UNCHANGED failed \/ Fail("publish"),
             \/ UNCHANGED << cached, told >>
             \/ \E c : /\ cached' = [cached EXCEPT ![request[r].msg] = c]
                       /\ told' = [told EXCEPT ![request[r].msg] = @ \cup {c}]
      PROVE  OneAttempt'
  <2>. DEFINE m == request[r].msg
  <2>1. m \in Messages
    BY <1>a, RequestCases DEF SendingType
  <2>2. \A s \in Requests : IF s = r THEN request'[s] = Idle
                                     ELSE request'[s] = request[s]
    BY <1>a DEF TypeOK
  <2>3. \A n \in Messages : n # m =>
            lock'[n] = lock[n] /\ cached'[n] = cached[n] /\ told'[n] = told[n]
    BY <1>a DEF Released, TypeOK
  <2>4. "expire" \notin failed' => "expire" \notin failed
    BY <1>a DEF Fail
  <2>5. "expire" \notin failed => told[m] = {}
    <3>1. "expire" \notin failed => told[m] \subseteq {Nothing}
      BY <1>a, <2>1 DEF OneAttempt
    <3>2. Nothing \notin told[m]
      BY <2>1 DEF TypeOK
    <3>. QED  BY <3>1, <3>2
  <2>6. "expire" \notin failed => told'[m] \subseteq {cached'[m]}
    <3>1. CASE UNCHANGED << cached, told >>
      BY <2>5, <3>1
    <3>2. ASSUME NEW c, cached' = [cached EXCEPT ![m] = c],
                 told' = [told EXCEPT ![m] = @ \cup {c}]
          PROVE  <2>6
      <4>1. cached'[m] = c /\ told'[m] = told[m] \cup {c}
        BY <2>1, <3>2 DEF TypeOK
      <4>. QED  BY <2>5, <4>1
    <3>. QED  BY <1>a, <3>1, <3>2
  <2>7. ASSUME "expire" \notin failed, NEW s \in Requests, s # r,
               request[s].pc = "sending"
        PROVE  request[s].msg \in Messages /\ request[s].msg # m
    BY <1>a, <2>7, RequestCases DEF SendingType, OneAttempt
  <2>. HIDE DEF m
  <2>. QED  BY <2>2, <2>3, <2>4, <2>6, <2>7 DEF OneAttempt, Idle
<1>4. ASSUME NEW r \in Requests, Answer(r)
      PROVE  OneAttempt'
  BY <1>a, <1>4 DEF Answer, failures
<1>5. ASSUME NEW r \in Requests, PublishFails(r)
      PROVE  OneAttempt'
  BY <1>a, <1>5 DEF PublishFails
<1>6. ASSUME NEW m \in Messages, CacheExpires(m)
      PROVE  OneAttempt'
  BY <1>6 DEF CacheExpires, Fail, OneAttempt
<1>7. ASSUME NEW m \in Messages, LockExpires(m)
      PROVE  OneAttempt'
  <2>1. UNCHANGED << request, cached, told >>
        /\ \A n \in Messages : n # m => lock'[n] = lock[n]
    BY <1>7 DEF LockExpires, TypeOK
  <2>2. CASE Fail("expire")
    BY <2>2 DEF Fail, OneAttempt
  <2>3. CASE ~Busy(m) /\ UNCHANGED failures
    <3>1. lock[m] # Free
      BY <1>7 DEF LockExpires
    <3>2. ASSUME "expire" \notin failed, NEW s \in Requests,
                 request[s].pc = "sending"
          PROVE  request[s].msg \in Messages /\ request[s].msg # m
      BY <2>3, <3>1, <3>2, RequestCases DEF OneAttempt, Busy, SendingType
    <3>. QED  BY <2>1, <2>3, <3>2 DEF OneAttempt, failures
  <2>. QED  BY <1>7, <2>2, <2>3 DEF LockExpires
\* The other steps leave locks and answers alone.
<1>b. ASSUME UNCHANGED idempotent, failed \subseteq failed',
             \A s \in Requests :
                request'[s] = request[s] \/ request'[s].pc # "sending"
      PROVE  OneAttempt'
  BY <1>b DEF OneAttempt, idempotent
<1>c. failed \subseteq failed'
  BY FailedGrows
<1>8. ASSUME NEW r \in Requests, CrashRequest(r) \/ NoSuchMessage(r)
             \/ PublishReadOutbox(r)
      PROVE  OneAttempt'
  BY <1>b, <1>c, <1>8 DEF CrashRequest, NoSuchMessage, PublishReadOutbox, Idle,
                          TypeOK
<1>9. ASSUME NEW r \in Requests, NEW u \in Members, Read(r, u)
      PROVE  OneAttempt'
  BY <1>b, <1>c, <1>9 DEF Read, TypeOK
<1>10. ASSUME NEW r \in Requests, PublishReadInbox(r)
      PROVE  OneAttempt'
  BY <1>b, <1>c, <1>10 DEF PublishReadInbox, TypeOK
<1>11. ASSUME NEW u \in Members, InsertInbox(u) \/ InsertOutbox(u)
              \/ InsertInboxFails(u) \/ CountUnread(u) \/ ClearUnread(u)
              \/ HandleReadInbox(u) \/ HandleReadOutbox(u) \/ CrashConsumer(u)
       PROVE  OneAttempt'
  BY <1>b, <1>c, <1>11
     DEF InsertInbox, InsertOutbox, InsertInboxFails, CountUnread, ClearUnread,
         HandleReadInbox, HandleReadOutbox, CrashConsumer
<1>12. CASE UNCHANGED vars
  BY <1>b, <1>12 DEF vars, idempotent
<1>. QED  BY <1>1, <1>2, <1>3, <1>4, <1>5, <1>6, <1>7, <1>8, <1>9, <1>10, <1>11,
             <1>12 DEF Next

\* However often a client repeats a request, while an attempt is going on,
\* after one failed or broke off, or after one succeeded, it is given one
\* answer, unless the lock expires during an attempt or the answer expires.
THEOREM RepeatedSameAnswer == Spec => []SameAnswer
<1>1. Init => Inv1 /\ OneAttempt
  <2>1. Init => OneAttempt
    BY DEF Init, OneAttempt, Idle
  <2>. QED  BY <2>1, InitInv1
<1>2. Inv1 /\ OneAttempt /\ [Next]_vars => (Inv1 /\ OneAttempt)'
  BY NextInv1, NextOneAttempt DEF Inv1
<1>3. Inv1 /\ OneAttempt => SameAnswer
  <2>1. SUFFICES ASSUME OneAttempt, "expire" \notin failed, NEW m \in Messages
                 PROVE  Cardinality(told[m]) <= 1
    BY DEF SameAnswer
  <2>2. IsFiniteSet({cached[m]}) /\ Cardinality({cached[m]}) = 1
    BY FS_Singleton
  <2>3. told[m] \in SUBSET {cached[m]}
    BY <2>1 DEF OneAttempt
  <2>. QED  BY <2>2, <2>3, FS_Subset
<1>. QED  BY <1>1, <1>2, <1>3, PTL DEF Spec
=============================================================================
