------------------------- MODULE MessagingCopyProofs -------------------------
(***************************************************************************)
(* One conversation, for every number of members, messages, requests and   *)
(* failures: a message has one copy in a box however often it is repeated  *)
(* and handled, and a read mark stands for a message that was read.        *)
(***************************************************************************)
EXTENDS MessagingProofs

(***************************************************************************)
(* The steps by what they add.                                             *)
(***************************************************************************)

\* The event that a request publishes for u.
MessageEvent(q, u) ==
    [kind |-> IF u = Sender[q.msg] THEN "out" ELSE "in", msg |-> q.msg,
     from |-> Sender[q.msg], copy |-> q.copy, id |-> q.id]

\* An attempt as it starts.
Attempt(m) ==
    [pc |-> "sending", msg |-> m, copy |-> copies + 1, id |-> boxId[Sender[m]] + 1,
     left |-> Members]

\* The events of a partition are those it had, and at most one more at its end:
\* of a message, of a read mark of its member, or of a mark at the sender.
LEMMA NewEvent ==
    ASSUME Inv1, [Next]_vars, NEW u \in Members, NEW i \in 1 .. Len(events'[u])
    PROVE  \/ i \in 1 .. Len(events[u]) /\ events'[u][i] = events[u][i]
           \/ \E r \in Requests :
                /\ PublishMessage(r, u)
                /\ events'[u][i] = MessageEvent(request[r], u)
           \/ events'[u][i].kind = "readInbox"
           \/ \E r \in Requests :
                /\ request[r].pc = "telling" /\ request[r].from = u
                /\ events'[u][i] = [kind |-> "readOutbox", reader |-> request[r].user,
                                    copy |-> request[r].copy]
<1>. USE DEF Inv1
<1>1. CASE UNCHANGED events
  BY <1>1
<1>2. ASSUME NEW r \in Requests, NEW v \in Members, PublishMessage(r, v),
             i \notin 1 .. Len(events[u]) \/ events'[u][i] # events[u][i]
      PROVE  v = u /\ events'[u][i] = MessageEvent(request[r], u)
  <2>1. request[r] \in SendingType
    BY <1>2, RequestCases DEF PublishMessage
  <2>2. MessageEvent(request[r], v) \in EventType
    BY <2>1, ConstantsAssumption
       DEF MessageEvent, SendingType, EventType, MessageEventType
  <2>3. Publish(v, MessageEvent(request[r], v))
    BY <1>2 DEF PublishMessage, MessageEvent
  <2>. QED  BY <1>2, <2>2, <2>3, PublishEffect
<1>3. ASSUME NEW r \in Requests, PublishReadInbox(r),
             i \notin 1 .. Len(events[u]) \/ events'[u][i] # events[u][i]
      PROVE  events'[u][i].kind = "readInbox"
  <2>. DEFINE q == request[r]
              e == [kind |-> "readInbox", maxId |-> q.maxId,
                    unread |-> q.unread, readInbox |-> q.readInbox]
  <2>1. q \in ReadingType
    BY <1>3, RequestCases DEF PublishReadInbox
  <2>2. e \in EventType /\ q.user \in Members /\ e.kind = "readInbox"
    BY <2>1 DEF ReadingType, EventType, ReadInboxType
  <2>3. Publish(q.user, e) \/ UNCHANGED events
    BY <1>3 DEF PublishReadInbox
  <2>. HIDE DEF e
  <2>. QED  BY <1>3, <2>2, <2>3, PublishEffect
<1>4. ASSUME NEW r \in Requests, PublishReadOutbox(r),
             i \notin 1 .. Len(events[u]) \/ events'[u][i] # events[u][i]
      PROVE  /\ request[r].pc = "telling" /\ request[r].from = u
             /\ events'[u][i] = [kind |-> "readOutbox", reader |-> request[r].user,
                                 copy |-> request[r].copy]
  <2>. DEFINE q == request[r]
              e == [kind |-> "readOutbox", reader |-> q.user, copy |-> q.copy]
  <2>1. q \in TellingType /\ q.pc = "telling"
    BY <1>4, RequestCases DEF PublishReadOutbox
  <2>2. e \in EventType /\ q.from \in Members
    BY <2>1 DEF TellingType, EventType, ReadOutboxType
  <2>3. Publish(q.from, e) \/ UNCHANGED events
    BY <1>4 DEF PublishReadOutbox
  <2>. QED  BY <1>4, <2>1, <2>2, <2>3, PublishEffect
<1>5. \/ UNCHANGED events
      \/ \E r \in Requests : \/ \E v \in Members : PublishMessage(r, v)
                             \/ PublishReadInbox(r) \/ PublishReadOutbox(r)
  <2>1. Quiet => UNCHANGED events
    BY DEF Quiet
  <2>2. ASSUME NEW r \in Requests, NEW m \in Messages, Send(r, m)
        PROVE  UNCHANGED events
    BY <2>2 DEF Send
  <2>3. ASSUME NEW r \in Requests, NEW v \in Members, Read(r, v)
        PROVE  UNCHANGED events
    BY <2>3 DEF Read
  <2>4. ASSUME NEW v \in Members, InsertInbox(v) \/ InsertOutbox(v)
               \/ InsertInboxFails(v) \/ CountUnread(v) \/ ClearUnread(v)
               \/ HandleReadInbox(v) \/ HandleReadOutbox(v) \/ CrashConsumer(v)
        PROVE  UNCHANGED events
    BY <2>4 DEF InsertInbox, InsertOutbox, InsertInboxFails, CountUnread,
                ClearUnread, HandleReadInbox, HandleReadOutbox, CrashConsumer
  <2>. QED  BY <2>1, <2>2, <2>3, <2>4, StepCases
<1>. QED  BY <1>1, <1>2, <1>3, <1>4, <1>5

\* The copy x was made from the event e.
Stores(x, e) ==
    /\ e.kind \in {"in", "out"}
    /\ e.msg = x.msg /\ e.copy = x.copy /\ e.from = x.from
    /\ e.kind = "out" => e.id = x.id

\* A copy is added for the event in progress.
LEMMA NewRow ==
    ASSUME Inv1, [Next]_vars, NEW x \in rows'
    PROVE  \/ x \in rows
           \/ /\ x.owner \in Members /\ Stores(x, Current(x.owner))
              /\ next[x.owner] \in 1 .. Len(events[x.owner])
              /\ written[x.owner] = 0
              /\ InsertInbox(x.owner) \/ InsertOutbox(x.owner)
<1>. USE DEF Inv1
<1>1. CASE UNCHANGED rows
  BY <1>1
<1>2. ASSUME NEW u \in Members, InsertInbox(u)
      PROVE  \/ x \in rows
             \/ /\ x.owner = u /\ Stores(x, Current(u)) /\ written[u] = 0
                /\ next[u] \in 1 .. Len(events[u])
  <2>1. /\ rows' = rows \cup {CopyOfStored(u, boxId[u] + 1)}
        /\ HasEvent(u, "in") /\ written[u] = 0
    BY <1>2 DEF InsertInbox
  <2>2. next[u] \in 1 .. Len(events[u]) /\ Current(u).kind = "in"
    BY <2>1, CurrentCases
  <2>3. /\ CopyOfStored(u, boxId[u] + 1).owner = u
        /\ Stores(CopyOfStored(u, boxId[u] + 1), Current(u))
    BY <2>2 DEF CopyOfStored, Stores
  <2>. QED  BY <2>1, <2>2, <2>3
<1>3. ASSUME NEW u \in Members, InsertOutbox(u)
      PROVE  \/ x \in rows
             \/ /\ x.owner = u /\ Stores(x, Current(u)) /\ written[u] = 0
                /\ next[u] \in 1 .. Len(events[u])
  <2>1. /\ rows' = rows \/ rows' = rows \cup {CopyOfStored(u, Current(u).id)}
        /\ HasEvent(u, "out") /\ written[u] = 0
    BY <1>3 DEF InsertOutbox
  <2>2. next[u] \in 1 .. Len(events[u]) /\ Current(u).kind = "out"
    BY <2>1, CurrentCases
  <2>3. /\ CopyOfStored(u, Current(u).id).owner = u
        /\ Stores(CopyOfStored(u, Current(u).id), Current(u))
    BY <2>2 DEF CopyOfStored, Stores
  <2>. QED  BY <2>1, <2>2, <2>3
<1>4. UNCHANGED rows \/ \E u \in Members : InsertInbox(u) \/ InsertOutbox(u)
  <2>1. Quiet => UNCHANGED rows
    BY DEF Quiet
  <2>2. ASSUME NEW r \in Requests,
               \/ \E m \in Messages : Send(r, m)
               \/ \E v \in Members : PublishMessage(r, v) \/ Read(r, v)
               \/ PublishReadInbox(r) \/ PublishReadOutbox(r)
        PROVE  UNCHANGED rows
    BY <2>2 DEF Send, PublishMessage, Read, PublishReadInbox, PublishReadOutbox
  <2>3. ASSUME NEW v \in Members, InsertInboxFails(v) \/ CountUnread(v) \/ ClearUnread(v)
               \/ HandleReadInbox(v) \/ HandleReadOutbox(v) \/ CrashConsumer(v)
        PROVE  UNCHANGED rows
    BY <2>3 DEF InsertInboxFails, CountUnread, ClearUnread, HandleReadInbox,
                HandleReadOutbox, CrashConsumer
  <2>. QED  BY <2>1, <2>2, <2>3, StepCases
<1>. QED  BY <1>1, <1>2, <1>3, <1>4

\* A request that is sending was sending before, or has just taken its numbers;
\* one that tells of a read message was, or its reader is just noted.
LEMMA NewRequest ==
    ASSUME Inv1, [Next]_vars, NEW r \in Requests
    PROVE  /\ request'[r].pc = "sending" =>
                \/ /\ request[r].pc = "sending"
                   /\ request'[r].msg = request[r].msg
                   /\ request'[r].copy = request[r].copy
                   /\ request'[r].id = request[r].id
                   /\ request'[r].left \subseteq request[r].left
                \/ \E m \in Messages : Send(r, m) /\ request'[r] = Attempt(m)
           /\ request'[r].pc = "telling" =>
                \/ request'[r] = request[r]
                \/ \E x \in rows :
                     /\ request'[r].copy = x.copy /\ request'[r].from = x.from
                     /\ x.copy \in readBy'[request'[r].user]
<1>. USE DEF Inv1
<1>1. CASE request'[r] = request[r] \/ request'[r] = Idle
  BY <1>1 DEF Idle
<1>2. ASSUME NEW s \in Requests, NEW m \in Messages, Send(s, m)
      PROVE  request'[r] = request[r] \/ (s = r /\ request'[r] = Attempt(m))
  BY <1>2 DEF Send, TypeOK, Attempt
<1>3. ASSUME NEW s \in Requests, NEW u \in Members, PublishMessage(s, u),
             request'[r] # request[r]
      PROVE  /\ request[r].pc = "sending" /\ request'[r].pc = "sending"
             /\ request'[r].msg = request[r].msg
             /\ request'[r].copy = request[r].copy
             /\ request'[r].id = request[r].id
             /\ request'[r].left \subseteq request[r].left
  <2>1. request[s].pc = "sending"
        /\ request' = [request EXCEPT ![s] = [request[s] EXCEPT !.left = @ \ {u}]]
    BY <1>3 DEF PublishMessage
  <2>2. s = r /\ request'[r] = [request[r] EXCEPT !.left = @ \ {u}]
    BY <1>3, <2>1 DEF TypeOK
  <2>3. request[r] \in SendingType
    BY <2>1, <2>2, RequestCases
  <2>. QED  BY <2>1, <2>2, <2>3 DEF SendingType
<1>4. ASSUME NEW s \in Requests, NEW u \in Members, Read(s, u)
      PROVE  request'[r] = request[r] \/ request'[r].pc = "reading"
  BY <1>4 DEF Read, TypeOK
<1>5. ASSUME NEW s \in Requests, PublishReadInbox(s), request'[r] # request[r]
      PROVE  /\ request'[r].pc = "telling"
             /\ \E x \in rows :
                  /\ request'[r].copy = x.copy /\ request'[r].from = x.from
                  /\ x.copy \in readBy'[request'[r].user]
  <2>1. PICK x \in RowsWith(request[s].user, request[s].maxId) :
           /\ request' = [request EXCEPT ![s] =
                 [pc |-> "telling", user |-> request[s].user,
                  from |-> x.from, copy |-> x.copy]]
           /\ readBy' = [readBy EXCEPT ![request[s].user] = @ \cup {x.copy}]
    BY <1>5 DEF PublishReadInbox
  <2>2. s = r /\ request'[r] = [pc |-> "telling", user |-> request[s].user,
                                from |-> x.from, copy |-> x.copy]
    BY <1>5, <2>1 DEF TypeOK
  <2>3. request[s].user \in Members
    BY <1>5, RequestCases DEF PublishReadInbox, ReadingType
  <2>4. x.copy \in readBy'[request[s].user]
    BY <2>1, <2>3 DEF TypeOK
  <2>5. x \in rows
    BY <2>1 DEF RowsWith
  <2>. QED  BY <2>2, <2>4, <2>5
<1>6. ASSUME NEW s \in Requests, PublishReadOutbox(s)
      PROVE  request'[r] = request[r] \/ request'[r] = Idle
  BY <1>6 DEF PublishReadOutbox, TypeOK
<1>7. ASSUME NEW u \in Members, InsertInbox(u) \/ InsertOutbox(u)
             \/ InsertInboxFails(u) \/ CountUnread(u) \/ ClearUnread(u)
             \/ HandleReadInbox(u) \/ HandleReadOutbox(u) \/ CrashConsumer(u)
      PROVE  UNCHANGED request
  BY <1>7 DEF InsertInbox, InsertOutbox, InsertInboxFails, CountUnread,
              ClearUnread, HandleReadInbox, HandleReadOutbox, CrashConsumer
<1>8. CASE Quiet
  BY <1>1, <1>8 DEF Quiet
<1>9. CASE \E s \in Requests : \E m \in Messages : Send(s, m)
  <2>1. PICK s \in Requests, m \in Messages : Send(s, m)
    BY <1>9
  <2>2. CASE request'[r] = request[r]
    BY <1>1, <2>2
  <2>3. CASE request'[r] # request[r]
    <3>1. s = r /\ request'[r] = Attempt(m)
      BY <1>2, <2>1, <2>3
    <3>2. request'[r].pc = "sending"
      BY <3>1 DEF Attempt
    <3>. QED  BY <2>1, <3>1, <3>2
  <2>. QED  BY <2>2, <2>3
<1>10. CASE \E s \in Requests : \E u \in Members : PublishMessage(s, u) \/ Read(s, u)
  BY <1>1, <1>3, <1>4, <1>10
<1>11. CASE \E s \in Requests : PublishReadInbox(s) \/ PublishReadOutbox(s)
  BY <1>1, <1>5, <1>6, <1>11
<1>12. CASE UNCHANGED request
  BY <1>1, <1>12
<1>. QED
  BY <1>7, <1>8, <1>9, <1>10, <1>11, <1>12, StepCases

-----------------------------------------------------------------------------
(***************************************************************************)
(* Read marks.                                                             *)
(***************************************************************************)

\* What tells that u sent the copy c: a message in a box, an event, a request.
AuthorInRows(c, u) == \E x \in rows : x.copy = c /\ x.from = u
AuthorInEvents(c, u) ==
    \E v \in Members : \E i \in 1 .. Len(events[v]) :
        /\ events[v][i].kind # "readInbox" /\ events[v][i].copy = c
        /\ IF events[v][i].kind = "readOutbox" THEN u = v ELSE u = events[v][i].from
AuthorInRequests(c, u) ==
    \E r \in Requests :
        \/ /\ request[r].pc = "sending" /\ request[r].copy = c
           /\ Sender[request[r].msg] = u
        \/ request[r].pc = "telling" /\ request[r].copy = c /\ request[r].from = u

Author(c, u) == AuthorInRows(c, u) \/ AuthorInEvents(c, u) \/ AuthorInRequests(c, u)

\* A copy has one author, and none before its number is taken.
OneAuthor ==
    /\ \A c, u : Author(c, u) => c \in Nat /\ c <= copies
    /\ \A c, u, v : Author(c, u) /\ Author(c, v) => u = v

\* What tells of a copy that was read names a member who has read it.
HeardOf ==
    /\ \A r \in Requests : request[r].pc = "telling" =>
          request[r].copy \in readBy[request[r].user]
    /\ \A u \in Members : \A i \in 1 .. Len(events[u]) :
          events[u][i].kind = "readOutbox" =>
             events[u][i].copy \in readBy[events[u][i].reader]

ReadInv == Inv1 /\ OneAuthor /\ HeardOf /\ ReadMarkReal

\* What was read stays read.
LEMMA ReadByGrows ==
    ASSUME TypeOK, [Next]_vars, NEW u \in Members
    PROVE  readBy[u] \subseteq readBy'[u]
<1>1. ASSUME NEW r \in Requests, PublishReadInbox(r)
      PROVE  readBy[u] \subseteq readBy'[u]
  BY <1>1 DEF PublishReadInbox, TypeOK
<1>2. ASSUME NEW r \in Requests,
             \/ \E m \in Messages : Send(r, m) \/ SendAgain(r, m)
             \/ \E v \in Members : PublishMessage(r, v) \/ Read(r, v)
             \/ Answer(r) \/ PublishFails(r) \/ CrashRequest(r)
             \/ NoSuchMessage(r) \/ PublishReadOutbox(r)
      PROVE  UNCHANGED readBy
  BY <1>2 DEF Send, SendAgain, PublishMessage, Read, Answer, PublishFails, CrashRequest,
              NoSuchMessage, PublishReadOutbox, history
<1>3. ASSUME NEW m \in Messages, LockExpires(m) \/ CacheExpires(m)
      PROVE  UNCHANGED readBy
  BY <1>3 DEF LockExpires, CacheExpires, history
<1>4. ASSUME NEW v \in Members, InsertInbox(v) \/ InsertOutbox(v)
             \/ InsertInboxFails(v) \/ CountUnread(v) \/ ClearUnread(v)
             \/ HandleReadInbox(v) \/ HandleReadOutbox(v) \/ CrashConsumer(v)
      PROVE  UNCHANGED readBy
  BY <1>4 DEF InsertInbox, InsertOutbox, InsertInboxFails, CountUnread, ClearUnread,
              HandleReadInbox, HandleReadOutbox, CrashConsumer, history
<1>5. CASE UNCHANGED vars
  BY <1>5 DEF vars
<1>. QED  BY <1>1, <1>2, <1>3, <1>4, <1>5 DEF Next

\* Only an attempt that starts takes a number.
LEMMA CopiesTaken ==
    ASSUME [Next]_vars
    PROVE  UNCHANGED copies \/ \E r \in Requests : \E m \in Messages : Send(r, m)
<1>1. ASSUME NEW r \in Requests,
             \/ \E m \in Messages : SendAgain(r, m)
             \/ \E v \in Members : PublishMessage(r, v) \/ Read(r, v)
             \/ Answer(r) \/ PublishFails(r) \/ CrashRequest(r)
             \/ NoSuchMessage(r) \/ PublishReadInbox(r) \/ PublishReadOutbox(r)
      PROVE  UNCHANGED copies
  BY <1>1 DEF SendAgain, PublishMessage, Read, Answer, PublishFails, CrashRequest,
              NoSuchMessage, PublishReadInbox, PublishReadOutbox, ids
<1>2. ASSUME NEW m \in Messages, LockExpires(m) \/ CacheExpires(m)
      PROVE  UNCHANGED copies
  BY <1>2 DEF LockExpires, CacheExpires, ids
<1>3. ASSUME NEW v \in Members, InsertInbox(v) \/ InsertOutbox(v)
             \/ InsertInboxFails(v) \/ CountUnread(v) \/ ClearUnread(v)
             \/ HandleReadInbox(v) \/ HandleReadOutbox(v) \/ CrashConsumer(v)
      PROVE  UNCHANGED copies
  BY <1>3 DEF InsertInbox, InsertOutbox, InsertInboxFails, CountUnread, ClearUnread,
              HandleReadInbox, HandleReadOutbox, CrashConsumer, ids
<1>4. CASE UNCHANGED vars
  BY <1>4 DEF vars
<1>. QED  BY <1>1, <1>2, <1>3, <1>4 DEF Next

\* An author is named by what named it before, but for the attempt that has
\* just taken the copy's number.
LEMMA NextOneAuthor ==
    ASSUME Inv1, OneAuthor, [Next]_vars
    PROVE  OneAuthor'
<1>. USE DEF Inv1
<1>0. TypeOK' /\ copies \in Nat
  BY NextInv1 DEF TypeOK
<1>1. ASSUME NEW c, NEW u, AuthorInRows(c, u)'
      PROVE  Author(c, u)
  <2>1. PICK x \in rows' : x.copy = c /\ x.from = u
    BY <1>1 DEF AuthorInRows
  <2>2. CASE x \in rows
    BY <2>1, <2>2 DEF Author, AuthorInRows
  <2>3. CASE x \notin rows
    <3>. DEFINE v == x.owner
    <3>1. v \in Members /\ Stores(x, events[v][next[v]]) /\ next[v] \in 1 .. Len(events[v])
      BY <2>3, NewRow DEF Current
    <3>2. /\ events[v][next[v]].kind \in {"in", "out"}
          /\ events[v][next[v]].copy = c /\ events[v][next[v]].from = u
      BY <2>1, <3>1 DEF Stores
    <3>. HIDE DEF v
    <3>. QED  BY <3>1, <3>2 DEF Author, AuthorInEvents
  <2>. QED  BY <2>2, <2>3
<1>2. ASSUME NEW c, NEW u, AuthorInEvents(c, u)'
      PROVE  Author(c, u)
  <2>0. PICK v \in Members : \E i \in 1 .. Len(events'[v]) :
           /\ events'[v][i].kind # "readInbox" /\ events'[v][i].copy = c
           /\ IF events'[v][i].kind = "readOutbox" THEN u = v ELSE u = events'[v][i].from
    BY <1>2 DEF AuthorInEvents
  <2>1. PICK i \in 1 .. Len(events'[v]) :
           /\ events'[v][i].kind # "readInbox" /\ events'[v][i].copy = c
           /\ IF events'[v][i].kind = "readOutbox" THEN u = v ELSE u = events'[v][i].from
    BY <2>0
  <2>2. CASE i \in 1 .. Len(events[v]) /\ events'[v][i] = events[v][i]
    BY <2>1, <2>2 DEF Author, AuthorInEvents
  <2>3. ASSUME NEW r \in Requests, PublishMessage(r, v),
               events'[v][i] = MessageEvent(request[r], v)
        PROVE  Author(c, u)
    BY <2>1, <2>3 DEF PublishMessage, MessageEvent, Author, AuthorInRequests
  <2>4. ASSUME NEW r \in Requests, request[r].pc = "telling", request[r].from = v,
               events'[v][i] = [kind |-> "readOutbox", reader |-> request[r].user,
                                copy |-> request[r].copy]
        PROVE  Author(c, u)
    BY <2>1, <2>4 DEF Author, AuthorInRequests
  <2>. QED  BY <2>1, <2>2, <2>3, <2>4, NewEvent
<1>3. ASSUME NEW c, NEW u, AuthorInRequests(c, u)',
             ~ \E r \in Requests : \E m \in Messages :
                  Send(r, m) /\ request'[r] = Attempt(m) /\ c = copies + 1 /\ u = Sender[m]
      PROVE  Author(c, u)
  <2>1. PICK r \in Requests :
          \/ /\ request'[r].pc = "sending" /\ request'[r].copy = c
             /\ Sender[request'[r].msg] = u
          \/ request'[r].pc = "telling" /\ request'[r].copy = c /\ request'[r].from = u
    BY <1>3 DEF AuthorInRequests
  <2>2. CASE /\ request'[r].pc = "sending" /\ request'[r].copy = c
             /\ Sender[request'[r].msg] = u
    <3>1. ~ \E m \in Messages : Send(r, m) /\ request'[r] = Attempt(m)
      BY <1>3, <2>2 DEF Attempt
    <3>2. /\ request[r].pc = "sending" /\ request[r].copy = c
          /\ Sender[request[r].msg] = u
      BY <2>2, <3>1, NewRequest
    <3>. QED  BY <3>2 DEF Author, AuthorInRequests
  <2>3. CASE request'[r].pc = "telling" /\ request'[r].copy = c /\ request'[r].from = u
    <3>1. request'[r] = request[r] \/ \E x \in rows : x.copy = c /\ x.from = u
      BY <2>3, NewRequest
    <3>. QED  BY <2>3, <3>1 DEF Author, AuthorInRequests, AuthorInRows
  <2>. QED  BY <2>1, <2>2, <2>3
<1>4. CASE \E r \in Requests : \E m \in Messages : Send(r, m)
  <2>1. PICK r \in Requests, m \in Messages : Send(r, m)
    BY <1>4
  <2>2. copies' = copies + 1 /\ \A s \in Requests : s # r => request'[s] = request[s]
    BY <2>1 DEF Send, TypeOK
  <2>3. ASSUME NEW s \in Requests, NEW n \in Messages, Send(s, n),
               request'[s] = Attempt(n)
        PROVE  n = m
    <3>1. request[s].pc = "idle" /\ request'[s].pc = "sending" /\ request'[s].msg = n
      BY <2>3 DEF Send, Attempt
    <3>2. s = r
      BY <2>2, <3>1
    <3>3. request'[r] = Attempt(m)
      BY <2>1 DEF Send, Attempt, TypeOK
    <3>. QED  BY <3>1, <3>2, <3>3 DEF Attempt
  <2>4. ASSUME NEW c, NEW u, Author(c, u)'
        PROVE  Author(c, u) \/ (c = copies + 1 /\ u = Sender[m])
    BY <1>1, <1>2, <1>3, <2>3, <2>4 DEF Author
  <2>5. ASSUME NEW c, NEW u, Author(c, u)  PROVE c \in Nat /\ c <= copies
    BY <2>5 DEF OneAuthor
  <2>6. \A c, u : Author(c, u)' => c \in Nat /\ c <= copies'
    BY <1>0, <2>2, <2>4, <2>5
  <2>7. ASSUME NEW c, NEW u, NEW v, Author(c, u)', Author(c, v)'
        PROVE  u = v
    <3>1. CASE c = copies + 1
      BY <1>0, <2>4, <2>5, <2>7, <3>1
    <3>2. CASE c # copies + 1
      BY <2>4, <2>7, <3>2 DEF OneAuthor
    <3>. QED  BY <3>1, <3>2
  <2>. QED  BY <2>6, <2>7 DEF OneAuthor
<1>5. CASE ~ \E r \in Requests : \E m \in Messages : Send(r, m)
  <2>1. copies' = copies
    BY <1>5, CopiesTaken
  <2>2. ASSUME NEW c, NEW u, Author(c, u)'  PROVE Author(c, u)
    BY <1>1, <1>2, <1>3, <1>5, <2>2 DEF Author
  <2>. QED  BY <2>1, <2>2 DEF OneAuthor
<1>. QED  BY <1>4, <1>5

\* Who tells of a copy tells of one that the named member has read.
LEMMA NextHeardOf ==
    ASSUME Inv1, HeardOf, [Next]_vars
    PROVE  HeardOf'
<1>. USE DEF Inv1
<1>0. TypeOK'
  BY NextInv1
<1>1. ASSUME NEW r \in Requests, request'[r].pc = "telling"
      PROVE  request'[r].copy \in readBy'[request'[r].user]
  <2>1. CASE request'[r] = request[r]
    <3>1. request[r].user \in Members
      BY <1>1, <2>1, RequestCases DEF TellingType
    <3>. QED  BY <1>1, <2>1, <3>1, ReadByGrows DEF HeardOf
  <2>2. CASE request'[r] # request[r]
    BY <1>1, <2>2, NewRequest
  <2>. QED  BY <2>1, <2>2
<1>2. ASSUME NEW u \in Members, NEW i \in 1 .. Len(events'[u]),
             events'[u][i].kind = "readOutbox"
      PROVE  events'[u][i].copy \in readBy'[events'[u][i].reader]
  <2>1. CASE i \in 1 .. Len(events[u]) /\ events'[u][i] = events[u][i]
    <3>1. events[u][i].reader \in Members
      BY <1>2, <2>1, EventCases DEF ReadOutboxType
    <3>. QED  BY <1>2, <2>1, <3>1, ReadByGrows DEF HeardOf
  <2>2. ASSUME NEW r \in Requests, request[r].pc = "telling",
               events'[u][i] = [kind |-> "readOutbox", reader |-> request[r].user,
                                copy |-> request[r].copy]
        PROVE  events'[u][i].copy \in readBy'[events'[u][i].reader]
    <3>1. request[r].user \in Members /\ request[r].copy \in readBy[request[r].user]
      BY <2>2, RequestCases DEF TellingType, HeardOf
    <3>. QED  BY <2>2, <3>1, ReadByGrows
  <2>3. ASSUME NEW r \in Requests, events'[u][i] = MessageEvent(request[r], u)
        PROVE  FALSE
    BY <1>2, <2>3 DEF MessageEvent
  <2>. QED  BY <1>2, <2>1, <2>2, <2>3, NewEvent
<1>. QED  BY <1>1, <1>2 DEF HeardOf

\* The mark of a dialog changes only by an event of a reader.
LEMMA NewMark ==
    ASSUME Inv1, [Next]_vars, NEW u \in Members
    PROVE  \/ dialogs'[u].readOutbox = dialogs[u].readOutbox
           \/ /\ HasEvent(u, "readOutbox")
              /\ \E x \in Marked(u, Current(u)) : dialogs'[u].readOutbox = x.id
<1>. USE DEF Inv1
<1>0. TypeOK'
  BY NextInv1
<1>1. CASE UNCHANGED dialogs
  BY <1>1
<1>2. ASSUME NEW v \in Members, NEW d, Write(v, d),
             d \in [top : Nat, unread : Nat, readInbox : Nat, readOutbox : Nat],
             d.readOutbox = dialogs[v].readOutbox
      PROVE  dialogs'[u].readOutbox = dialogs[u].readOutbox
  BY <1>2, WriteEffect
<1>3. \A v \in Members : dialogs[v] \in [top : Nat, unread : Nat, readInbox : Nat,
                                         readOutbox : Nat]
  BY BoxTypes
<1>4. ASSUME NEW v \in Members, CountUnread(v) \/ ClearUnread(v)
      PROVE  dialogs'[u].readOutbox = dialogs[u].readOutbox
  <2>1. /\ written[v] \in Nat /\ dialogs[v].unread + 1 \in Nat
        /\ dialogs[v] \in [top : Nat, unread : Nat, readInbox : Nat, readOutbox : Nat]
    <3>1. written \in [Members -> Nat]
      BY Zenon DEF TypeOK
    <3>2. dialogs[v] \in [top : Nat, unread : Nat, readInbox : Nat, readOutbox : Nat]
      BY <1>3
    <3>. QED  BY <3>1, <3>2
  <2>2. /\ [dialogs[v] EXCEPT !.top = written[v], !.unread = @ + 1]
              \in [top : Nat, unread : Nat, readInbox : Nat, readOutbox : Nat]
        /\ [dialogs[v] EXCEPT !.top = written[v], !.unread = @ + 1].readOutbox
              = dialogs[v].readOutbox
    <3>1. ASSUME NEW d \in [top : Nat, unread : Nat, readInbox : Nat, readOutbox : Nat],
                 NEW n \in Nat
          PROVE  /\ [d EXCEPT !.top = written[v], !.unread = n]
                       \in [top : Nat, unread : Nat, readInbox : Nat, readOutbox : Nat]
                 /\ [d EXCEPT !.top = written[v], !.unread = n].readOutbox = d.readOutbox
      BY <2>1, <3>1
    <3>. QED  BY <2>1, <3>1
  <2>3. /\ [dialogs[v] EXCEPT !.top = written[v], !.unread = 0]
              \in [top : Nat, unread : Nat, readInbox : Nat, readOutbox : Nat]
        /\ [dialogs[v] EXCEPT !.top = written[v], !.unread = 0].readOutbox
              = dialogs[v].readOutbox
    BY <1>3, <2>1
  <2>4. CASE CountUnread(v)
    <3>1. Write(v, [dialogs[v] EXCEPT !.top = written[v], !.unread = @ + 1])
      BY <2>4 DEF CountUnread
    <3>. QED  BY <1>2, <2>2, <3>1
  <2>5. CASE ClearUnread(v)
    <3>1. Write(v, [dialogs[v] EXCEPT !.top = written[v], !.unread = 0])
      BY <2>5 DEF ClearUnread
    <3>. QED  BY <1>2, <2>3, <3>1
  <2>. QED  BY <1>4, <2>4, <2>5
<1>5. ASSUME NEW v \in Members, HandleReadInbox(v)
      PROVE  dialogs'[u].readOutbox = dialogs[u].readOutbox
  BY <1>5, ReadInboxEffect
<1>6. ASSUME NEW v \in Members, HandleReadOutbox(v),
             dialogs'[u].readOutbox # dialogs[u].readOutbox
      PROVE  /\ HasEvent(u, "readOutbox")
             /\ \E x \in Marked(u, Current(u)) : dialogs'[u].readOutbox = x.id
  <2>1. PICK x \in Marked(v, Current(v)) :
           Write(v, [dialogs[v] EXCEPT !.readOutbox = x.id])
    BY <1>6 DEF HandleReadOutbox
  <2>2. u = v /\ dialogs'[u] = [dialogs[v] EXCEPT !.readOutbox = x.id]
    BY <1>6, <2>1, WriteEffect
  <2>3. dialogs'[u].readOutbox = x.id
    BY <1>3, <2>2
  <2>. QED  BY <1>6, <2>1, <2>2, <2>3 DEF HandleReadOutbox
<1>7. \/ UNCHANGED dialogs
      \/ \E v \in Members : CountUnread(v) \/ ClearUnread(v) \/ HandleReadInbox(v)
                            \/ HandleReadOutbox(v)
  <2>1. Quiet => UNCHANGED dialogs
    BY DEF Quiet
  <2>2. ASSUME NEW r \in Requests,
               \/ \E m \in Messages : Send(r, m)
               \/ \E v \in Members : PublishMessage(r, v) \/ Read(r, v)
               \/ PublishReadInbox(r) \/ PublishReadOutbox(r)
        PROVE  UNCHANGED dialogs
    BY <2>2 DEF Send, PublishMessage, Read, PublishReadInbox, PublishReadOutbox
  <2>3. ASSUME NEW v \in Members, InsertInbox(v) \/ InsertOutbox(v)
               \/ InsertInboxFails(v) \/ CrashConsumer(v)
        PROVE  UNCHANGED dialogs
    BY <2>3 DEF InsertInbox, InsertOutbox, InsertInboxFails, CrashConsumer
  <2>. QED  BY <2>1, <2>2, <2>3, StepCases
<1>. QED  BY <1>1, <1>4, <1>5, <1>6, <1>7

\* The conversation stays what it is.
LEMMA PeerTypeKept ==
    ASSUME [Next]_vars  PROVE UNCHANGED PeerType
BY DEF Next, vars, Send, SendAgain, PublishMessage, Read, Answer, PublishFails,
       CrashRequest, NoSuchMessage, PublishReadInbox, PublishReadOutbox, LockExpires,
       CacheExpires, InsertInbox, InsertOutbox, InsertInboxFails, CountUnread,
       ClearUnread, HandleReadInbox, HandleReadOutbox, CrashConsumer

\* The copy an event names was sent by the member in whose partition it is.
LEMMA NextReadMark ==
    ASSUME ReadInv, [Next]_vars
    PROVE  ReadMarkReal'
<1>. USE DEF ReadInv, Inv1
<1>0. rows \subseteq rows' /\ UNCHANGED PeerType
  BY RowsGrow, PeerTypeKept
<1>1. SUFFICES ASSUME NEW u \in Members, dialogs'[u].readOutbox # 0
               PROVE  \E x \in RowsWith(u, dialogs[u].readOutbox)' :
                         /\ x.from = u
                         /\ \E v \in Members : /\ PeerType = "user" => v # u
                                               /\ x.copy \in readBy'[v]
  BY <1>0 DEF ReadMarkReal
<1>2. CASE dialogs'[u].readOutbox = dialogs[u].readOutbox
  <2>1. PICK x \in RowsWith(u, dialogs[u].readOutbox), v \in Members :
            x.from = u /\ (PeerType = "user" => v # u) /\ x.copy \in readBy[v]
    BY <1>1, <1>2 DEF ReadMarkReal
  <2>2. x \in RowsWith(u, dialogs[u].readOutbox)'
    BY <1>0, <1>2, <2>1 DEF RowsWith
  <2>. QED  BY <2>1, <2>2, ReadByGrows
<1>3. CASE dialogs'[u].readOutbox # dialogs[u].readOutbox
  <2>. DEFINE e == Current(u)
  <2>1. PICK x \in Marked(u, e) : /\ HasEvent(u, "readOutbox")
                                  /\ dialogs'[u].readOutbox = x.id
    BY <1>3, NewMark
  <2>2. /\ x \in rows /\ x.owner = u /\ x.copy = e.copy
        /\ PeerType = "user" => e.reader # u
    BY <2>1 DEF Marked
  <2>3. /\ next[u] \in 1 .. Len(events[u]) /\ e.kind = "readOutbox"
        /\ e.reader \in Members /\ e = events[u][next[u]]
    BY <2>1, CurrentCases DEF ReadOutboxType, Current
  <2>4. e.copy \in readBy'[e.reader]
    BY <2>3, ReadByGrows DEF HeardOf
  <2>5. Author(x.copy, u) /\ Author(x.copy, x.from)
    BY <2>2, <2>3 DEF Author, AuthorInEvents, AuthorInRows
  <2>6. x.from = u
    BY <2>5 DEF OneAuthor
  <2>7. x \in RowsWith(u, dialogs[u].readOutbox)'
    BY <1>0, <2>1, <2>2 DEF RowsWith
  <2>. HIDE DEF e
  <2>. QED  BY <2>2, <2>3, <2>4, <2>6, <2>7
<1>. QED  BY <1>2, <1>3

\* The mark up to which others have read a member's messages is one of the
\* member's own messages, and a member has read up to it; between two users it
\* is the other.
THEOREM ReadMarksAreReal == Spec => []ReadMarkReal
<1>1. Init => ReadInv
  <2>. SUFFICES ASSUME Init  PROVE ReadInv
    OBVIOUS
  <2>1. /\ rows = {} /\ \A u \in Members : events[u] = << >> /\ dialogs[u].readOutbox = 0
        /\ \A r \in Requests : request[r].pc = "idle"
    BY DEF Init, Idle
  <2>2. \A c, u : ~Author(c, u)
    BY <2>1 DEF Author, AuthorInRows, AuthorInEvents, AuthorInRequests
  <2>3. HeardOf /\ ReadMarkReal
    BY <2>1 DEF HeardOf, ReadMarkReal
  <2>. QED  BY <2>2, <2>3, InitInv1 DEF ReadInv, OneAuthor
<1>2. ReadInv /\ [Next]_vars => ReadInv'
  BY NextInv1, NextOneAuthor, NextHeardOf, NextReadMark DEF ReadInv
<1>3. ReadInv => ReadMarkReal
  BY DEF ReadInv
<1>. QED  BY <1>1, <1>2, <1>3, PTL DEF Spec

-----------------------------------------------------------------------------
(***************************************************************************)
(* One copy in a box.                                                      *)
(***************************************************************************)

\* The event k of u's partition brings the message m; r is sending m.
Brings(u, k, m) ==
    /\ k \in 1 .. Len(events[u]) /\ events[u][k].kind \in {"in", "out"}
    /\ events[u][k].msg = m
Sends(r, m) == request[r].pc = "sending" /\ request[r].msg = m

\* The numbers c and i were taken for m by an attempt that goes on or that
\* published an event.
Taken(m, c, i) ==
    \/ \E r \in Requests : Sends(r, m) /\ request[r].copy = c /\ request[r].id = i
    \/ \E u \in Members : \E k : /\ Brings(u, k, m)
                                 /\ events[u][k].copy = c /\ events[u][k].id = i

\* The attempts to send m are one, as far as anything is left of them: they
\* took the same numbers, an answer is kept of them unless one goes on, and a
\* member gets one event, none before the request has published it.
AttemptOf(m) ==
    /\ \A c, i, d, j : Taken(m, c, i) /\ Taken(m, d, j) => c = d /\ i = j
    /\ \/ \A c, i : ~Taken(m, c, i)
       \/ cached[m] # Nothing
       \/ \E r \in Requests : Sends(r, m)
    /\ \A u \in Members : \A k, l : Brings(u, k, m) /\ Brings(u, l, m) => k = l
    /\ \A r \in Requests : Sends(r, m) =>
          \A u \in request[r].left : \A k : ~Brings(u, k, m)

\* No attempt broke off, and no lock or answer expired.
Smooth == failed \cap {"publish", "request", "expire"} = {}

OnlyAttempt == Smooth => \A m \in Messages : AttemptOf(m)

\* An event tells who sent its message, and is of its kind.
EventsTrue ==
    \A u \in Members : \A k : \A m \in Messages : Brings(u, k, m) =>
        /\ events[u][k].from = Sender[m]
        /\ events[u][k].kind = "out" <=> u = Sender[m]

\* A copy was made from an event of its box's partition.
RowsStored ==
    \A x \in rows : /\ x.owner \in Members
                    /\ \E k \in 1 .. Len(events[x.owner]) : Stores(x, events[x.owner][k])

\* As long as no consumer goes back, the event of a copy is not handled again.
HandledOnce ==
    Smooth /\ "consumer" \notin failed =>
        /\ \A x \in rows : \A k : Brings(x.owner, k, x.msg) =>
              k < next[x.owner] \/ (k = next[x.owner] /\ written[x.owner] # 0)
        /\ \A x, y \in rows : x.owner = y.owner /\ x.msg = y.msg => x = y

CopyInv == Inv1 /\ OneAttempt /\ OnlyAttempt /\ EventsTrue /\ RowsStored /\ HandledOnce

\* An event that brings a message was there, or a request has just published it.
LEMMA NewBrings ==
    ASSUME Inv1, [Next]_vars, NEW u \in Members, NEW k, NEW m, Brings(u, k, m)'
    PROVE  \/ Brings(u, k, m) /\ events'[u][k] = events[u][k]
           \/ \E r \in Requests :
                /\ PublishMessage(r, u) /\ Sends(r, m)
                /\ events'[u][k] = MessageEvent(request[r], u)
<1>1. k \in 1 .. Len(events'[u]) /\ events'[u][k].kind \in {"in", "out"}
      /\ events'[u][k].msg = m
  BY DEF Brings
<1>2. CASE k \in 1 .. Len(events[u]) /\ events'[u][k] = events[u][k]
  BY <1>1, <1>2 DEF Brings
<1>3. ASSUME NEW r \in Requests, PublishMessage(r, u),
             events'[u][k] = MessageEvent(request[r], u)
      PROVE  Sends(r, m)
  BY <1>1, <1>3 DEF PublishMessage, MessageEvent, Sends
<1>4. events'[u][k].kind # "readInbox"
  BY <1>1
<1>5. ASSUME NEW r \in Requests,
             events'[u][k] = [kind |-> "readOutbox", reader |-> request[r].user,
                              copy |-> request[r].copy]
      PROVE  FALSE
  BY <1>1, <1>5
<1>6. CASE \E r \in Requests : /\ PublishMessage(r, u)
                               /\ events'[u][k] = MessageEvent(request[r], u)
  BY <1>3, <1>6
<1>7. k \in 1 .. Len(events'[u])
  BY <1>1
<1>8. \/ k \in 1 .. Len(events[u]) /\ events'[u][k] = events[u][k]
      \/ \E r \in Requests : /\ PublishMessage(r, u)
                             /\ events'[u][k] = MessageEvent(request[r], u)
      \/ events'[u][k].kind = "readInbox"
      \/ \E r \in Requests :
           /\ request[r].pc = "telling" /\ request[r].from = u
           /\ events'[u][k] = [kind |-> "readOutbox", reader |-> request[r].user,
                               copy |-> request[r].copy]
  BY <1>7, NewEvent
<1>. QED  BY <1>2, <1>4, <1>5, <1>6, <1>8

\* What brought a message brings it.
LEMMA BringsStays ==
    ASSUME Inv1, [Next]_vars, NEW u \in Members, NEW k, NEW m, Brings(u, k, m)
    PROVE  Brings(u, k, m)' /\ events'[u][k] = events[u][k]
BY EventsGrow DEF Brings

\* A request that sends m did so before, with the same numbers, or starts.
LEMMA NewSends ==
    ASSUME Inv1, [Next]_vars, NEW r \in Requests, NEW m \in Messages, Sends(r, m)'
    PROVE  \/ /\ Sends(r, m)
              /\ request'[r].copy = request[r].copy /\ request'[r].id = request[r].id
              /\ request'[r].left \subseteq request[r].left
           \/ Send(r, m)
<1>1. request'[r].pc = "sending" /\ request'[r].msg = m
  BY DEF Sends
<1>2. ASSUME NEW n \in Messages, Send(r, n), request'[r] = Attempt(n)
      PROVE  n = m
  BY <1>1, <1>2 DEF Attempt
<1>. QED  BY <1>1, <1>2, NewRequest DEF Sends

\* Unless it breaks off, an attempt goes on until an answer is kept.
LEMMA SendersStay ==
    ASSUME Inv1, [Next]_vars, Smooth', NEW m \in Messages
    PROVE  \/ cached'[m] # Nothing
           \/ /\ cached'[m] = cached[m]
              /\ \A r \in Requests : Sends(r, m) => Sends(r, m)'
<1>. USE DEF Inv1
<1>a. ASSUME UNCHANGED cached,
             \A s \in Requests : request'[s] = request[s] \/ request[s].pc # "sending"
      PROVE  /\ cached'[m] = cached[m]
             /\ \A s \in Requests : Sends(s, m) => Sends(s, m)'
  BY <1>a DEF Sends
<1>1. ASSUME NEW r \in Requests, NEW n \in Messages, Send(r, n) \/ SendAgain(r, n)
      PROVE  /\ cached'[m] = cached[m]
             /\ \A s \in Requests : Sends(s, m) => Sends(s, m)'
  BY <1>a, <1>1 DEF Send, SendAgain, TypeOK
<1>2. ASSUME NEW r \in Requests, NEW u \in Members, PublishMessage(r, u)
      PROVE  /\ cached'[m] = cached[m]
             /\ \A s \in Requests : Sends(s, m) => Sends(s, m)'
  <2>1. request[r] \in SendingType
    BY <1>2, RequestCases DEF PublishMessage
  <2>2. \A s \in Requests : request'[s] = request[s] \/
            (s = r /\ request'[s] = [request[r] EXCEPT !.left = @ \ {u}])
    BY <1>2 DEF PublishMessage, TypeOK
  <2>3. /\ [request[r] EXCEPT !.left = @ \ {u}].pc = request[r].pc
        /\ [request[r] EXCEPT !.left = @ \ {u}].msg = request[r].msg
    BY <2>1 DEF SendingType
  <2>4. \A s \in Requests : Sends(s, m) => Sends(s, m)'
    BY <2>2, <2>3 DEF Sends
  <2>. QED  BY <1>2, <2>4 DEF PublishMessage, idempotent
<1>3. ASSUME NEW r \in Requests, Answer(r)
      PROVE  \/ cached'[m] # Nothing
             \/ /\ cached'[m] = cached[m]
                /\ \A s \in Requests : Sends(s, m) => Sends(s, m)'
  <2>1. request[r] \in SendingType
    BY <1>3, RequestCases DEF Answer
  <2>2. cached' = [cached EXCEPT ![request[r].msg] = request[r].copy]
        /\ request' = [request EXCEPT ![r] = Idle]
    BY <1>3 DEF Answer
  <2>3. CASE request[r].msg = m
    <3>1. cached'[m] = request[r].copy
      BY <2>2, <2>3 DEF TypeOK
    <3>2. request[r].copy # Nothing
      BY <2>1, ConstantsAssumption DEF SendingType, Copies, Nothing
    <3>. QED  BY <3>1, <3>2
  <2>4. CASE request[r].msg # m
    BY <2>2, <2>4 DEF TypeOK, Sends
  <2>. QED  BY <2>3, <2>4
<1>4. ASSUME NEW r \in Requests, PublishFails(r) \/ CrashRequest(r)
      PROVE  FALSE
  BY <1>4 DEF PublishFails, CrashRequest, Fail, Smooth
<1>5. ASSUME NEW n \in Messages, CacheExpires(n)
      PROVE  FALSE
  BY <1>5 DEF CacheExpires, Fail, Smooth
<1>6. ASSUME NEW r \in Requests, NoSuchMessage(r) \/ PublishReadInbox(r)
             \/ PublishReadOutbox(r) \/ \E u \in Members : Read(r, u)
      PROVE  /\ cached'[m] = cached[m]
             /\ \A s \in Requests : Sends(s, m) => Sends(s, m)'
  <2>1. /\ UNCHANGED cached /\ request[r].pc # "sending"
        /\ \A s \in Requests : s # r => request'[s] = request[s]
    BY <1>6 DEF NoSuchMessage, PublishReadInbox, PublishReadOutbox, Read, idempotent,
                TypeOK
  <2>. QED  BY <1>a, <2>1
<1>7. ASSUME NEW n \in Messages, LockExpires(n)
      PROVE  /\ cached'[m] = cached[m]
             /\ \A s \in Requests : Sends(s, m) => Sends(s, m)'
  BY <1>a, <1>7 DEF LockExpires
<1>8. ASSUME NEW u \in Members, InsertInbox(u) \/ InsertOutbox(u)
             \/ InsertInboxFails(u) \/ CountUnread(u) \/ ClearUnread(u)
             \/ HandleReadInbox(u) \/ HandleReadOutbox(u) \/ CrashConsumer(u)
      PROVE  /\ cached'[m] = cached[m]
             /\ \A s \in Requests : Sends(s, m) => Sends(s, m)'
  BY <1>a, <1>8
     DEF InsertInbox, InsertOutbox, InsertInboxFails, CountUnread, ClearUnread,
         HandleReadInbox, HandleReadOutbox, CrashConsumer, idempotent
<1>9. CASE UNCHANGED vars
  BY <1>a, <1>9 DEF vars
<1>. QED  BY <1>1, <1>2, <1>3, <1>4, <1>5, <1>6, <1>7, <1>8, <1>9 DEF Next

\* One attempt at a time goes past DoIdempotent, and none after an answer.
LEMMA NextOnlyAttempt ==
    ASSUME Inv1, OneAttempt, OnlyAttempt, [Next]_vars
    PROVE  OnlyAttempt'
<1>. SUFFICES ASSUME Smooth', NEW m \in Messages
              PROVE  AttemptOf(m)'
  BY DEF OnlyAttempt
<1>1. Smooth /\ "expire" \notin failed
  BY FailedGrows DEF Smooth
<1>2. AttemptOf(m)
  BY <1>1 DEF OnlyAttempt
<1>3. \A r, s \in Requests : Sends(r, m) /\ Sends(s, m) => r = s
  BY <1>1 DEF OneAttempt, Sends
<1>4. ASSUME NEW r \in Requests, Send(r, m)
      PROVE  AttemptOf(m)'
  <2>1. cached[m] = Nothing /\ lock[m] = Free /\ UNCHANGED events
    BY <1>4 DEF Send, Start
  <2>2. \A s \in Requests : ~Sends(s, m)
    BY <1>1, <2>1, ConstantsAssumption DEF OneAttempt, Sends
  <2>3. \A c, i : ~Taken(m, c, i)
    BY <1>2, <2>1, <2>2 DEF AttemptOf
  <2>4. \A u \in Members : \A k : ~Brings(u, k, m)
    BY <2>3 DEF Taken
  <2>5. \A u \in Members : \A k : ~Brings(u, k, m)'
    BY <2>1, <2>4 DEF Brings
  <2>6. \A s \in Requests : Sends(s, m)' <=> s = r
    BY <1>4, <2>2 DEF Send, Sends, Inv1, TypeOK
  <2>7. \A c, i : Taken(m, c, i)' => request'[r].copy = c /\ request'[r].id = i
    BY <2>5, <2>6 DEF Taken
  <2>8. request'[r].left = Members
    BY <1>4 DEF Send, Inv1, TypeOK
  <2>. QED  BY <2>5, <2>6, <2>7, <2>8 DEF AttemptOf
<1>5. ASSUME \A r \in Requests : ~Send(r, m), NEW c, NEW i, Taken(m, c, i)'
      PROVE  Taken(m, c, i)
  <2>1. ASSUME NEW r \in Requests, Sends(r, m)', request'[r].copy = c, request'[r].id = i
        PROVE  Taken(m, c, i)
    BY <1>5, <2>1, NewSends DEF Taken
  <2>2. ASSUME NEW u \in Members, NEW k, Brings(u, k, m)',
               events'[u][k].copy = c, events'[u][k].id = i
        PROVE  Taken(m, c, i)
    <3>1. CASE Brings(u, k, m) /\ events'[u][k] = events[u][k]
      BY <2>2, <3>1 DEF Taken
    <3>2. ASSUME NEW r \in Requests, Sends(r, m),
                 events'[u][k] = MessageEvent(request[r], u)
          PROVE  Taken(m, c, i)
      BY <2>2, <3>2 DEF Taken, MessageEvent
    <3>. QED  BY <2>2, <3>1, <3>2, NewBrings
  <2>. QED  BY <1>5, <2>1, <2>2 DEF Taken
<1>6. ASSUME \A r \in Requests : ~Send(r, m)
      PROVE  \/ \A c, i : ~Taken(m, c, i)'
             \/ cached'[m] # Nothing
             \/ \E r \in Requests : Sends(r, m)'
  BY <1>2, <1>5, <1>6, SendersStay DEF AttemptOf
<1>7. ASSUME \A r \in Requests : ~Send(r, m),
             NEW q \in Requests, NEW v \in Members, PublishMessage(q, v), Sends(q, m)
      PROVE  AttemptOf(m)'
  <2>1. v \in request[q].left /\ \A k : ~Brings(v, k, m)
    BY <1>2, <1>7 DEF PublishMessage, AttemptOf
  <2>2. \E e : Publish(v, e) /\ request' = [request EXCEPT ![q].left = @ \ {v}]
    BY <1>7 DEF PublishMessage
  <2>3. \A k : Brings(v, k, m)' => k = Len(events[v]) + 1
    <3>1. ASSUME NEW k, Brings(v, k, m)'
          PROVE  k = Len(events[v]) + 1
      <4>1. k \notin 1 .. Len(events[v])
        <5>1. ASSUME k \in 1 .. Len(events[v])  PROVE FALSE
          <6>1. events'[v][k] = events[v][k]
            BY <5>1, EventsGrow
          <6>2. Brings(v, k, m)
            BY <3>1, <5>1, <6>1 DEF Brings
          <6>. QED  BY <2>1, <6>2
        <5>. QED  BY <5>1
      <4>2. k \in 1 .. Len(events'[v]) /\ Len(events[v]) \in Nat
            /\ Len(events'[v]) = Len(events[v]) + 1
        BY <2>2, <3>1 DEF Brings, Publish, Inv1, TypeOK
      <4>. QED  BY <4>1, <4>2
    <3>. QED  BY <3>1
  <2>4. \A u \in Members : u # v => events'[u] = events[u]
    BY <2>2 DEF Publish, Inv1, TypeOK
  <2>5. \A u \in Members : u # v => \A k : Brings(u, k, m)' => Brings(u, k, m)
    BY <2>4 DEF Brings
  <2>6. \A u \in Members : \A k, l : Brings(u, k, m)' /\ Brings(u, l, m)' => k = l
    BY <1>2, <2>3, <2>5 DEF AttemptOf
  <2>7. ASSUME NEW s \in Requests, Sends(s, m)'
        PROVE  s = q /\ request'[s].left = request[q].left \ {v}
    <3>1. s = q
      BY <1>3, <1>7, <2>7, NewSends
    <3>2. request[q] \in SendingType
      BY <1>7, RequestCases DEF Sends, Inv1
    <3>3. request'[q] = [request[q] EXCEPT !.left = @ \ {v}]
      BY <2>2 DEF Inv1, TypeOK
    <3>. QED  BY <3>1, <3>2, <3>3 DEF SendingType
  <2>8. request[q].left \subseteq Members
    BY <1>7, RequestCases DEF Sends, Inv1, SendingType
  <2>9. ASSUME NEW s \in Requests, Sends(s, m)', NEW u \in request'[s].left, NEW k
        PROVE  ~Brings(u, k, m)'
    <3>1. u \in request[q].left /\ u # v /\ u \in Members
      BY <2>7, <2>8, <2>9
    <3>. QED  BY <1>2, <1>7, <2>5, <3>1 DEF AttemptOf
  <2>10. \A c, i, d, j : Taken(m, c, i)' /\ Taken(m, d, j)' => c = d /\ i = j
    BY <1>2, <1>5, <1>7 DEF AttemptOf
  <2>. QED  BY <1>6, <1>7, <2>6, <2>9, <2>10 DEF AttemptOf
<1>8. ASSUME \A r \in Requests : ~Send(r, m),
             \A q \in Requests : \A v \in Members : ~(PublishMessage(q, v) /\ Sends(q, m))
      PROVE  AttemptOf(m)'
  <2>1. \A u \in Members : \A k : Brings(u, k, m)' => Brings(u, k, m)
    BY <1>8, NewBrings
  <2>2. \A u \in Members : \A k, l : Brings(u, k, m)' /\ Brings(u, l, m)' => k = l
    BY <1>2, <2>1 DEF AttemptOf
  <2>3. ASSUME NEW s \in Requests, Sends(s, m)', NEW u \in request'[s].left, NEW k
        PROVE  ~Brings(u, k, m)'
    <3>1. Sends(s, m) /\ u \in request[s].left
      BY <1>8, <2>3, NewSends
    <3>2. u \in Members
      BY <3>1, RequestCases DEF Sends, Inv1, SendingType
    <3>. QED  BY <1>2, <2>1, <3>1, <3>2 DEF AttemptOf
  <2>4. \A c, i, d, j : Taken(m, c, i)' /\ Taken(m, d, j)' => c = d /\ i = j
    BY <1>2, <1>5, <1>8 DEF AttemptOf
  <2>. QED  BY <1>6, <1>8, <2>2, <2>3, <2>4 DEF AttemptOf
<1>. QED  BY <1>4, <1>7, <1>8

\* An event is written by the request of its message.
LEMMA NextEventsTrue ==
    ASSUME Inv1, EventsTrue, [Next]_vars
    PROVE  EventsTrue'
<1>. SUFFICES ASSUME NEW u \in Members, NEW k, NEW m \in Messages, Brings(u, k, m)'
              PROVE  /\ events'[u][k].from = Sender[m]
                     /\ events'[u][k].kind = "out" <=> u = Sender[m]
  BY DEF EventsTrue
<1>1. CASE Brings(u, k, m) /\ events'[u][k] = events[u][k]
  BY <1>1 DEF EventsTrue
<1>2. ASSUME NEW r \in Requests, Sends(r, m), events'[u][k] = MessageEvent(request[r], u)
      PROVE  /\ events'[u][k].from = Sender[m]
             /\ events'[u][k].kind = "out" <=> u = Sender[m]
  BY <1>2 DEF Sends, MessageEvent
<1>. QED  BY <1>1, <1>2, NewBrings

\* A copy keeps its event.
LEMMA NextRowsStored ==
    ASSUME Inv1, RowsStored, [Next]_vars
    PROVE  RowsStored'
<1>. SUFFICES ASSUME NEW x \in rows'
              PROVE  /\ x.owner \in Members
                     /\ \E k \in 1 .. Len(events'[x.owner]) : Stores(x, events'[x.owner][k])
  BY DEF RowsStored
<1>1. x.owner \in Members /\ \E k \in 1 .. Len(events[x.owner]) :
                                Stores(x, events[x.owner][k])
  <2>1. CASE x \in rows
    BY <2>1 DEF RowsStored
  <2>2. CASE x \notin rows
    BY <2>2, NewRow DEF Current
  <2>. QED  BY <2>1, <2>2
<1>. QED  BY <1>1, EventsGrow

\* A consumer that does not start again goes on with the event, or to the next.
LEMMA Progress ==
    ASSUME Inv1, [Next]_vars, "consumer" \notin failed', NEW u \in Members
    PROVE  \/ next'[u] = next[u] /\ (written[u] # 0 => written'[u] # 0)
           \/ next'[u] = next[u] + 1
<1>. USE DEF Inv1
<1>1. CASE UNCHANGED << next, written >>
  BY <1>1
<1>2. ASSUME NEW v \in Members, InsertInbox(v) \/ InsertOutbox(v)
      PROVE  UNCHANGED next /\ (written[u] # 0 => written'[u] # 0)
  BY <1>2 DEF InsertInbox, InsertOutbox, kafka, TypeOK
<1>3. ASSUME NEW v \in Members, InsertInboxFails(v) \/ CountUnread(v) \/ ClearUnread(v)
             \/ HandleReadInbox(v) \/ HandleReadOutbox(v)
      PROVE  \/ next'[u] = next[u] /\ (written[u] # 0 => written'[u] # 0)
             \/ next'[u] = next[u] + 1
  <2>1. next' = [next EXCEPT ![v] = @ + 1]
        /\ (UNCHANGED written \/ written' = [written EXCEPT ![v] = 0])
    BY <1>3 DEF InsertInboxFails, CountUnread, ClearUnread, HandleReadInbox,
                HandleReadOutbox, Handled
  <2>. QED  BY <2>1 DEF TypeOK
<1>4. ASSUME NEW v \in Members, CrashConsumer(v)
      PROVE  FALSE
  BY <1>4 DEF CrashConsumer, Fail
<1>5. CASE Quiet
  BY <1>1, <1>5 DEF Quiet
<1>6. ASSUME NEW r \in Requests,
             \/ \E m \in Messages : Send(r, m)
             \/ \E v \in Members : PublishMessage(r, v) \/ Read(r, v)
             \/ PublishReadInbox(r) \/ PublishReadOutbox(r)
      PROVE  UNCHANGED << next, written >>
  BY <1>6 DEF Send, PublishMessage, Read, PublishReadInbox, PublishReadOutbox, kafka
<1>. QED  BY <1>1, <1>2, <1>3, <1>4, <1>5, <1>6, StepCases

\* A step adds one copy at most.
LEMMA OneNewRow ==
    ASSUME Inv1, [Next]_vars, NEW x \in rows', NEW y \in rows', x \notin rows, y \notin rows
    PROVE  x = y
<1>1. InsertInbox(x.owner) \/ InsertOutbox(x.owner)
  BY NewRow
<1>2. \E z : rows' = rows \cup {z}
  BY <1>1 DEF InsertInbox, InsertOutbox
<1>. QED  BY <1>2

\* A consumer inserts a copy once for an event, and there is one event.
LEMMA NextHandledOnce ==
    ASSUME CopyInv, OnlyAttempt', [Next]_vars
    PROVE  HandledOnce'
<1>. USE DEF CopyInv
<1>. SUFFICES ASSUME Smooth', "consumer" \notin failed'
              PROVE  HandledOnce'
  BY DEF HandledOnce
<1>1. Smooth /\ "consumer" \notin failed
  BY FailedGrows DEF Smooth
<1>2. TypeOK'
  BY NextInv1 DEF Inv1
<1>3. ASSUME NEW x \in rows'
      PROVE  x.owner \in Members /\ x.msg \in Messages
  BY <1>2, <1>3 DEF TypeOK, RowType
<1>4. ASSUME NEW x \in rows', x \notin rows
      PROVE  /\ Brings(x.owner, next[x.owner], x.msg) /\ written[x.owner] = 0
             /\ next'[x.owner] = next[x.owner] /\ written'[x.owner] # 0
  <2>. DEFINE u == x.owner
  <2>1. /\ u \in Members /\ Stores(x, Current(u)) /\ next[u] \in 1 .. Len(events[u])
        /\ written[u] = 0 /\ (InsertInbox(u) \/ InsertOutbox(u))
    BY <1>4, NewRow
  <2>2. Brings(u, next[u], x.msg)
    BY <2>1 DEF Brings, Stores, Current
  <2>3. ASSUME InsertInbox(u)  PROVE next'[u] = next[u] /\ written'[u] # 0
    <3>. HIDE DEF u
    <3>1. boxId[u] + 1 # 0 /\ next' = next /\ written' = [written EXCEPT ![u] = boxId[u] + 1]
      BY <2>1, <2>3 DEF InsertInbox, kafka, Inv1, TypeOK
    <3>. QED  BY <2>1, <3>1 DEF Inv1, TypeOK
  <2>4. ASSUME InsertOutbox(u)  PROVE next'[u] = next[u] /\ written'[u] # 0
    <3>1. Current(u).id \in Nat \ {0}
      BY <2>1, <2>4, CurrentCases DEF InsertOutbox, Inv1, MessageEventType
    <3>. HIDE DEF u
    <3>2. next' = next /\ written' = [written EXCEPT ![u] = Current(u).id]
      BY <2>4 DEF InsertOutbox, kafka
    <3>3. written'[u] = Current(u).id
      BY <2>1, <3>2 DEF Inv1, TypeOK
    <3>. QED  BY <3>1, <3>2, <3>3
  <2>5. next'[u] = next[u] /\ written'[u] # 0
    BY <2>1, <2>3, <2>4
  <2>6. written[u] = 0
    BY <2>1
  <2>. QED  BY <2>2, <2>5, <2>6 DEF u
<1>5. ASSUME NEW x \in rows, NEW k, Brings(x.owner, k, x.msg)'
      PROVE  Brings(x.owner, k, x.msg)
  <2>1. PICK l : Brings(x.owner, l, x.msg)
    BY DEF RowsStored, Brings, Stores
  <2>2. x.owner \in Members /\ x.msg \in Messages
    BY DEF Inv1, TypeOK, RowType
  <2>3. Brings(x.owner, l, x.msg)'
    BY <2>1, <2>2, BringsStays
  <2>4. l = k
    BY <1>5, <2>2, <2>3 DEF OnlyAttempt, AttemptOf
  <2>. QED  BY <2>1, <2>4
<1>6. ASSUME NEW x \in rows', NEW k, Brings(x.owner, k, x.msg)'
      PROVE  k < next'[x.owner] \/ (k = next'[x.owner] /\ written'[x.owner] # 0)
  <2>1. CASE x \in rows
    <3>1. k < next[x.owner] \/ (k = next[x.owner] /\ written[x.owner] # 0)
      BY <1>1, <1>5, <1>6, <2>1 DEF HandledOnce
    <3>2. x.owner \in Members /\ next[x.owner] \in Nat
      BY <1>3 DEF Inv1, TypeOK
    <3>3. k \in Nat
      BY <1>6 DEF Brings
    <3>. QED  BY <3>1, <3>2, <3>3, Progress
  <2>2. CASE x \notin rows
    <3>1. PICK l : l = next[x.owner]
      OBVIOUS
    <3>2. Brings(x.owner, l, x.msg)'
      BY <1>3, <1>4, <2>2, <3>1, BringsStays
    <3>3. k = l
      BY <1>3, <1>6, <3>2 DEF OnlyAttempt, AttemptOf
    <3>. QED  BY <1>4, <2>2, <3>1, <3>3
  <2>. QED  BY <2>1, <2>2
<1>7. ASSUME NEW x \in rows, NEW y \in rows', x.owner = y.owner, x.msg = y.msg,
             y \notin rows
      PROVE  FALSE
  <2>1. PICK l : Brings(x.owner, l, x.msg)
    BY DEF RowsStored, Brings, Stores
  <2>2. Brings(x.owner, next[x.owner], x.msg) /\ written[x.owner] = 0
    BY <1>4, <1>7
  <2>3. next[x.owner] \in Nat
    BY <1>3, <1>7 DEF Inv1, TypeOK
  <2>. QED  BY <1>1, <2>2, <2>3 DEF HandledOnce
<1>8. ASSUME NEW x \in rows', NEW y \in rows', x.owner = y.owner, x.msg = y.msg
      PROVE  x = y
  <2>1. CASE x \in rows /\ y \in rows
    BY <1>1, <1>8, <2>1 DEF HandledOnce
  <2>2. CASE x \notin rows /\ y \notin rows
    BY <2>2, OneNewRow
  <2>. QED  BY <1>7, <1>8, <2>1, <2>2
<1>. QED  BY <1>6, <1>8 DEF HandledOnce

\* Copies of which all are the same are one at most.
LEMMA AtMostOne ==
    ASSUME NEW S, \A x, y \in S : x = y
    PROVE  Cardinality(S) <= 1
<1>1. CASE S = {}
  <2>1. Cardinality({}) = 0
    BY FS_EmptySet
  <2>. QED  BY <1>1, <2>1
<1>2. CASE S # {}
  <2>1. PICK x : S = {x}
    BY <1>2
  <2>2. Cardinality({x}) = 1
    BY FS_Singleton
  <2>. QED  BY <2>1, <2>2
<1>. QED  BY <1>1, <1>2

\* However often a message is repeated, there is one copy of it in its sender's
\* box, unless an attempt broke off or a lock or an answer expired, also when
\* consumers handle events again; and one in every box, unless one did.
THEOREM OneCopyPerMessage == Spec => []OneCopy
<1>1. Init => CopyInv
  <2>. SUFFICES ASSUME Init  PROVE CopyInv
    OBVIOUS
  <2>1. /\ rows = {} /\ \A u \in Members : events[u] = << >>
        /\ \A r \in Requests : request[r].pc = "idle"
    BY DEF Init, Idle
  <2>2. \A u \in Members : \A k, m : ~Brings(u, k, m)
    BY <2>1 DEF Brings
  <2>3. \A m, c, i : ~Taken(m, c, i)
    BY <2>1, <2>2 DEF Taken, Sends
  <2>4. OnlyAttempt
    BY <2>1, <2>2, <2>3 DEF OnlyAttempt, AttemptOf, Sends
  <2>5. EventsTrue /\ RowsStored /\ HandledOnce
    BY <2>1, <2>2 DEF EventsTrue, RowsStored, HandledOnce
  <2>6. OneAttempt
    BY DEF Init, OneAttempt, Idle
  <2>. QED  BY <2>4, <2>5, <2>6, InitInv1 DEF CopyInv
<1>2. CopyInv /\ [Next]_vars => CopyInv'
  <2>. SUFFICES ASSUME CopyInv, [Next]_vars  PROVE CopyInv'
    OBVIOUS
  <2>1. Inv1' /\ TypeOK /\ TypeOK'
    BY NextInv1 DEF CopyInv, Inv1
  <2>2. OneAttempt' /\ OnlyAttempt'
    BY <2>1, NextOneAttempt, NextOnlyAttempt DEF CopyInv
  <2>3. EventsTrue' /\ RowsStored'
    BY NextEventsTrue, NextRowsStored DEF CopyInv
  <2>. QED  BY <2>1, <2>2, <2>3, NextHandledOnce DEF CopyInv
<1>3. CopyInv => OneCopy
  <2>. SUFFICES ASSUME CopyInv, NEW m \in Messages
                PROVE  /\ Smooth => Cardinality(CopiesIn(Sender[m], m)) <= 1
                       /\ Smooth /\ "consumer" \notin failed =>
                             \A u \in Members : Cardinality(CopiesIn(u, m)) <= 1
    BY DEF OneCopy, Smooth
  <2>1. ASSUME Smooth, NEW x \in CopiesIn(Sender[m], m), NEW y \in CopiesIn(Sender[m], m)
        PROVE  x = y
    <3>. DEFINE u == Sender[m]
    <3>1. /\ x \in RowType /\ y \in RowType /\ u \in Members
          /\ x.owner = u /\ y.owner = u /\ x.msg = m /\ y.msg = m
          /\ x \in rows /\ y \in rows
      BY ConstantsAssumption DEF CopiesIn, CopyInv, Inv1, TypeOK
    <3>. HIDE DEF u
    <3>2. ASSUME NEW z \in rows, z.owner = u, z.msg = m
          PROVE  z.from = u /\ Taken(m, z.copy, z.id)
      <4>1. PICK k \in 1 .. Len(events[u]) : Stores(z, events[u][k])
        BY <3>2 DEF CopyInv, RowsStored
      <4>2. Brings(u, k, m)
        BY <3>2, <4>1 DEF Brings, Stores
      <4>3. events[u][k].from = u /\ events[u][k].kind = "out"
        BY <3>1, <4>2 DEF CopyInv, EventsTrue, u
      <4>4. events[u][k].copy = z.copy /\ events[u][k].id = z.id /\ z.from = u
        BY <4>1, <4>3 DEF Stores
      <4>. QED  BY <3>1, <4>2, <4>4 DEF Taken
    <3>3. x.from = y.from /\ x.copy = y.copy /\ x.id = y.id
      BY <2>1, <3>1, <3>2 DEF CopyInv, OnlyAttempt, AttemptOf
    <3>. QED  BY <3>1, <3>3 DEF RowType
  <2>2. ASSUME Smooth, "consumer" \notin failed, NEW u \in Members,
               NEW x \in CopiesIn(u, m), NEW y \in CopiesIn(u, m)
        PROVE  x = y
    BY <2>2 DEF CopiesIn, CopyInv, HandledOnce
  <2>. QED  BY <2>1, <2>2, AtMostOne
<1>. QED  BY <1>1, <1>2, <1>3, PTL DEF Spec
=============================================================================
