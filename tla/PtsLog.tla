------------------------------- MODULE PtsLog -------------------------------
(***************************************************************************)
(* The pts log of one user: who numbers and stores the updates of the      *)
(* table user_pts_updates, and who reads them.                             *)
(*                                                                         *)
(* Handlers of the msg service, one goroutine for each request of the user *)
(* (Requests), and the inbox consumers, one for each Kafka partition that  *)
(* carries events about the user (Partitions: "user" for events keyed by   *)
(* the user, "chat" for those keyed by a chat), take numbers from the      *)
(* counter in Redis and insert rows into the table.  Taking a number and   *)
(* inserting its row are separate calls to separate stores, and an insert  *)
(* that fails is only logged.  The user's devices read the counter         *)
(* (getState) and the table (getDifference).                               *)
(*                                                                         *)
(* A consumer that restarts handles again the events whose offsets are not *)
(* committed.  Messages, dialogs and pushes are the subject of Messaging.  *)
(***************************************************************************)
EXTENDS Integers, Sequences, FiniteSets

CONSTANTS
    Requests,      \* bound: the user's requests in progress at a time
    Devices,
    Kinds,         \* the user's requests, a subset of RequestKinds
    Incoming,      \* events caused by others, a subset of IncomingKinds
    Sizes,         \* how many messages a deletion concerns
    V3,            \* values of the flag -usev3, a subset of BOOLEAN
    Limit,         \* entries of a difference, 5000 in the code
    MaxPts,        \* bound: the counter
    MaxEvents,     \* bound: events of a partition
    MaxFaults      \* bound: inserts, calls and consumers that fail

\* Handlers of the msg service that number updates for the user who calls.
RequestKinds == {
    "send", "edit", "read",
    "delete",          \* deleteMessages, unpinAllMessages, updatePinnedMessage
    "deleteHistory",
    "clearHistory",    \* deleteHistory with just_clear
    "readContents" }   \* readMessageContents: takes numbers, stores nothing

\* Events that others cause; "one" stands for those whose handler numbers one
\* update (readOutboxHistory, updatePinnedMessage, updateHistoryReaded, ...).
IncomingKinds == {
    "newMessage", "migrateTo", "editIn", "one", "deleteIn",
    "deleteHistory", "clearHistory" }

\* Events that the user's own requests cause.
SelfKinds == { "outbox", "outboxV3", "editOut", "readInbox", "readInboxV3" }

Partitions == { "user", "chat" }
Workers == Requests \cup Partitions
Histories == { "deleteHistory", "clearHistory" }
Many == Histories \cup { "delete", "deleteIn", "readContents" }

ASSUME ConstantsAssumption ==
    /\ Kinds \subseteq RequestKinds /\ Incoming \subseteq IncomingKinds
    /\ Sizes \subseteq Nat \ {0} /\ V3 \subseteq BOOLEAN
    /\ Requests \cap Partitions = {}
    /\ Limit \in Nat \ {0}
    /\ MaxPts \in Nat /\ MaxEvents \in Nat /\ MaxFaults \in Nat

VARIABLES
    kUseV3,        \* the flag of the msg service
    pts,           \* the user's counter in Redis
    rows,          \* user_pts_updates
    kind,          \* [Workers -> what the handler was started for, or "idle"]
    todo,          \* [Workers -> Seq(rows the handler has still to insert)]
    events,        \* [Partitions -> Seq(events)], what Kafka keeps
    next,          \* [Partitions -> index of the event to handle next]
    committed,     \* [Partitions -> how many events are committed as handled]
    faults,
    base,          \* [Devices -> pts of the last getState]
    dpts,          \* [Devices -> pts of the device's state]
    got,           \* [Devices -> rows the device was given]
    overtaken      \* history: [Devices -> numbers passed before their insert]

service == << kind, todo >>
kafka == << events, next, committed >>
devices == << base, dpts, got, overtaken >>
vars == << kUseV3, pts, rows, kind, todo, events, next, committed, faults,
           base, dpts, got, overtaken >>

Row(p, n, k) == [pts |-> p, count |-> n, kind |-> k]
Event(k, n) == [kind |-> k, size |-> n]

\* A mutant: a deleted history takes a number for each message only.
TakenForMessages(k, n) == n

\* How many numbers a handler takes for n messages ...
Taken(k, n) == IF k \in Histories THEN n + 1 ELSE n

\* ... and the rows it then inserts, in this order, when p is the last number.
\* Deleting a history leaves p itself without a row.
Inserts(k, n, p) ==
    CASE k = "deleteHistory" ->
            << Row(p - 2, n - 1, "delete"), Row(p - 1, 1, "read") >>
      [] k = "clearHistory" ->
            << Row(p - 2, n - 1, "delete"), Row(p - 1, 1, "read"),
               Row(p, 1, "edit") >>
      [] k = "readContents" -> << >>
      [] OTHER -> << Row(p, n, k) >>

\* The inbox does not store an update that counts for nothing.
InboxInserts(k, n, p) ==
    IF k \in Histories /\ n = 1 THEN Tail(Inserts(k, n, p))
                                ELSE Inserts(k, n, p)

SizesOf(k) == IF k \in Many THEN Sizes ELSE {1}

PartitionsOf(k) ==
    CASE k = "deleteHistory" -> Partitions
      [] k \in {"deleteIn", "one"} -> Partitions
      [] OTHER -> {"user"}

-----------------------------------------------------------------------------
Init ==
    /\ kUseV3 \in V3
    /\ pts = 0 /\ rows = {} /\ faults = 0
    /\ kind = [w \in Workers |-> "idle"]
    /\ todo = [w \in Workers |-> << >>]
    /\ events = [p \in Partitions |-> << >>]
    /\ next = [p \in Partitions |-> 1]
    /\ committed = [p \in Partitions |-> 0]
    /\ base = [d \in Devices |-> 0]
    /\ dpts = [d \in Devices |-> 0]
    /\ got = [d \in Devices |-> {}]
    /\ overtaken = [d \in Devices |-> {}]

Fault == faults < MaxFaults /\ faults' = faults + 1

-----------------------------------------------------------------------------
(***************************************************************************)
(* The msg service.                                                        *)
(***************************************************************************)

\* With -usev3 these leave the number to the consumer.
LeftToInbox(k) == kUseV3 /\ k \in {"send", "read"}

\* The handler takes its numbers, all in one call; a call that fails leaves
\* nothing that getDifference could return and is left out.
TakeNumbers(r) ==
    /\ kind[r] = "idle"
    /\ \E k \in Kinds :
         /\ kind' = [kind EXCEPT ![r] = k]
         /\ \/ /\ LeftToInbox(k)
               /\ UNCHANGED << pts, todo >>
            \/ /\ ~LeftToInbox(k)
               /\ \E n \in SizesOf(k) :
                    /\ pts + Taken(k, n) <= MaxPts
                    /\ pts' = pts + Taken(k, n)
                    /\ todo' = [todo EXCEPT ![r] = Inserts(k, n, pts')]
    /\ UNCHANGED << kUseV3, rows, kafka, faults, devices >>

\* What a request tells the user's own partition.
SelfEvent(k) ==
    CASE k = "send" -> IF kUseV3 THEN "outboxV3" ELSE "outbox"
      [] k = "read" -> IF kUseV3 THEN "readInboxV3" ELSE "readInbox"
      [] k = "edit" -> "editOut"

\* The rows are inserted: the handler sends its event and answers.
FinishRequest(r) ==
    /\ kind[r] # "idle" /\ todo[r] = << >>
    /\ kind' = [kind EXCEPT ![r] = "idle"]
    /\ \/ /\ kind[r] \in {"send", "edit", "read"}
          /\ Len(events["user"]) < MaxEvents
          /\ events' = [events EXCEPT !["user"] =
                            Append(@, Event(SelfEvent(kind[r]), 1))]
          /\ UNCHANGED faults
       \/ /\ kind[r] \in {"send", "edit", "read"}
          /\ Fault
          /\ UNCHANGED events
       \/ /\ kind[r] \notin {"send", "edit", "read"}
          /\ UNCHANGED << events, faults >>
    /\ UNCHANGED << kUseV3, pts, rows, todo, next, committed, devices >>

\* AddToPtsQueueE, also in the consumers; an error is logged and forgotten.
InsertRow(w) ==
    /\ todo[w] # << >> /\ kind[w] # "migrateTo"
    /\ \/ rows' = rows \cup {Head(todo[w])} /\ UNCHANGED faults
       \/ Fault /\ UNCHANGED rows
    /\ todo' = [todo EXCEPT ![w] = Tail(@)]
    /\ UNCHANGED << kUseV3, pts, kind, kafka, devices >>

\* The process of a handler ends.
CrashRequest(r) ==
    /\ kind[r] # "idle"
    /\ Fault
    /\ kind' = [kind EXCEPT ![r] = "idle"]
    /\ todo' = [todo EXCEPT ![r] = << >>]
    /\ UNCHANGED << kUseV3, pts, rows, kafka, devices >>

-----------------------------------------------------------------------------
(***************************************************************************)
(* The inbox consumers.                                                    *)
(***************************************************************************)

\* Another user's request concerns this one.
Arrive(p) ==
    /\ Len(events[p]) < MaxEvents
    /\ \E k \in Incoming : \E n \in SizesOf(k) :
         /\ p \in PartitionsOf(k)
         /\ events' = [events EXCEPT ![p] = Append(@, Event(k, n))]
    /\ UNCHANGED << kUseV3, pts, rows, service, next, committed, faults,
                    devices >>

HasEvent(p) == kind[p] = "idle" /\ next[p] <= Len(events[p])

Current(p) == events[p][next[p]]

\* The msg service has numbered and stored the update already.
AlreadyStored(k) == k \in {"outbox", "editOut", "readInbox"}

\* The event needs no number, or its handler fails before it takes one; the
\* error is dropped by the Kafka handler.
SkipEvent(p) ==
    /\ HasEvent(p)
    /\ \/ AlreadyStored(Current(p).kind) /\ UNCHANGED faults
       \/ Fault
    /\ next' = [next EXCEPT ![p] = @ + 1]
    /\ UNCHANGED << kUseV3, pts, rows, service, events, committed, devices >>

\* The handler takes its numbers.  For an edited message that the user does
\* not have it takes one and stores nothing.
HandleEvent(p) ==
    /\ HasEvent(p) /\ ~AlreadyStored(Current(p).kind)
    /\ LET k == Current(p).kind
           n == Current(p).size
       IN  /\ pts + Taken(k, n) <= MaxPts
           /\ pts' = pts + Taken(k, n)
           /\ kind' = [kind EXCEPT ![p] = k]
           /\ \/ todo' = [todo EXCEPT ![p] = InboxInserts(k, n, pts')]
              \/ k = "editIn" /\ UNCHANGED todo
    /\ UNCHANGED << kUseV3, rows, kafka, faults, devices >>

\* A mutant: the two updates of a migration share the number.
NumberReadOfMigratedOnce(p) ==
    /\ kind[p] = "migrateTo"
    /\ todo' = [todo EXCEPT ![p] = << Row(pts, 1, "read") >> \o @]
    /\ kind' = [kind EXCEPT ![p] = "newMessage"]
    /\ UNCHANGED << kUseV3, pts, rows, kafka, faults, devices >>

\* The message that tells of a chat's migration has its number; the update
\* that marks the chat read gets the next, and its row goes in first.
NumberReadOfMigrated(p) ==
    /\ kind[p] = "migrateTo"
    /\ pts < MaxPts
    /\ pts' = pts + 1
    /\ todo' = [todo EXCEPT ![p] = << Row(pts', 1, "read") >> \o @]
    /\ kind' = [kind EXCEPT ![p] = "newMessage"]
    /\ UNCHANGED << kUseV3, rows, kafka, faults, devices >>

FinishEvent(p) ==
    /\ kind[p] \notin {"idle", "migrateTo"} /\ todo[p] = << >>
    /\ kind' = [kind EXCEPT ![p] = "idle"]
    /\ next' = [next EXCEPT ![p] = @ + 1]
    /\ UNCHANGED << kUseV3, pts, rows, todo, events, committed, faults,
                    devices >>

Commit(p) ==
    /\ committed[p] < next[p] - 1
    /\ committed' = [committed EXCEPT ![p] = next[p] - 1]
    /\ UNCHANGED << kUseV3, pts, rows, service, events, next, faults, devices >>

\* A mutant: the offset that was committed is taken for the next one.
CrashConsumerOffByOne(p) ==
    /\ Fault
    /\ kind' = [kind EXCEPT ![p] = "idle"]
    /\ todo' = [todo EXCEPT ![p] = << >>]
    /\ next' = [next EXCEPT ![p] = committed[p]]
    /\ UNCHANGED << kUseV3, pts, rows, events, committed, devices >>

\* The consumer restarts, or its partition moves to another one.
CrashConsumer(p) ==
    /\ Fault
    /\ kind' = [kind EXCEPT ![p] = "idle"]
    /\ todo' = [todo EXCEPT ![p] = << >>]
    /\ next' = [next EXCEPT ![p] = committed[p] + 1]
    /\ UNCHANGED << kUseV3, pts, rows, events, committed, devices >>

-----------------------------------------------------------------------------
(***************************************************************************)
(* The devices.                                                            *)
(***************************************************************************)

\* Rows that handlers have still to insert.
Pending(w) == { todo[w][i] : i \in 1 .. Len(todo[w]) }
AllPending == UNION { Pending(w) : w \in Workers }
PendingPts == { e.pts : e \in AllPending }

\* updates.getState: the counter; a counter that was never used is advanced.
GetState(d) ==
    /\ pts' = IF pts = 0 THEN 1 ELSE pts
    /\ pts' <= MaxPts
    /\ base' = [base EXCEPT ![d] = pts']
    /\ dpts' = [dpts EXCEPT ![d] = pts']
    /\ got' = [got EXCEPT ![d] = {}]
    /\ overtaken' = [overtaken EXCEPT ![d] = {}]
    /\ UNCHANGED << kUseV3, rows, service, kafka, faults >>

RowsAfter(p) == { r \in rows : r.pts > p }

\* SelectByGtPts: the first Limit rows, by number.
Selections(S) ==
    { R \in SUBSET S :
        /\ Cardinality(R) =
             IF Cardinality(S) < Limit THEN Cardinality(S) ELSE Limit
        /\ \A r \in R, s \in S \ R : r.pts <= s.pts }

\* Mutants: the state of the answer is the counter; the state asked for.
IsCurrentPts(q, R, p) == q = pts
IsOwnPts(q, R, p) == q = p

\* The state of the answer: the greatest number among the rows.
IsLastPts(q, R, p) ==
    IF R = {} THEN q = p
    ELSE (\E r \in R : q = r.pts) /\ (\A r \in R : r.pts <= q)

\* updates.getDifference, a slice or all of it.
GetDifference(d) ==
    /\ \E R \in Selections(RowsAfter(dpts[d])) :
       \E q \in dpts[d] .. pts :
         /\ IsLastPts(q, R, dpts[d])
         /\ dpts' = [dpts EXCEPT ![d] = q]
         /\ got' = [got EXCEPT ![d] = @ \cup R]
         /\ overtaken' = [overtaken EXCEPT ![d] =
                @ \cup { n \in PendingPts : dpts[d] < n /\ n <= q }]
    /\ UNCHANGED << kUseV3, pts, rows, service, kafka, faults, base >>

-----------------------------------------------------------------------------
Next ==
    \/ \E r \in Requests : TakeNumbers(r) \/ FinishRequest(r) \/ CrashRequest(r)
    \/ \E w \in Workers : InsertRow(w)
    \/ \E p \in Partitions :
         \/ Arrive(p) \/ SkipEvent(p) \/ HandleEvent(p)
         \/ NumberReadOfMigrated(p) \/ FinishEvent(p)
         \/ Commit(p) \/ CrashConsumer(p)
    \/ \E d \in Devices : GetState(d) \/ GetDifference(d)

Spec == Init /\ [][Next]_vars

\* Handlers go on, and devices ask again.
Fairness ==
    /\ \A w \in Workers : WF_vars(InsertRow(w))
    /\ \A r \in Requests : WF_vars(FinishRequest(r))
    /\ \A p \in Partitions :
         /\ WF_vars(HandleEvent(p)) /\ WF_vars(FinishEvent(p))
         /\ WF_vars(NumberReadOfMigrated(p))
    /\ \A d \in Devices : WF_vars(GetDifference(d))

LiveSpec == Spec /\ Fairness

-----------------------------------------------------------------------------
(***************************************************************************)
(* Properties.                                                             *)
(***************************************************************************)
RowKinds == RequestKinds \cup IncomingKinds \cup SelfKinds

RowType == [pts : Int, count : Nat, kind : RowKinds]
EventType == [kind : IncomingKinds \cup SelfKinds, size : Nat \ {0}]

\* Every variable has its type, counters stay within what was handed out.
TypeOK ==
    /\ kUseV3 \in BOOLEAN
    /\ pts \in Nat /\ faults \in Nat
    /\ rows \subseteq RowType
    /\ kind \in [Workers -> RowKinds \cup {"idle"}]
    /\ todo \in [Workers -> Seq(RowType)]
    /\ events \in [Partitions -> Seq(EventType)]
    /\ next \in [Partitions -> Nat \ {0}]
    /\ committed \in [Partitions -> Nat]
    /\ base \in [Devices -> Nat] /\ dpts \in [Devices -> Nat]
    /\ got \in [Devices -> SUBSET rows]
    /\ overtaken \in [Devices -> SUBSET Int]

\* Two updates share no number: a row covers count numbers that end with pts.
Apart(a, b) == a.pts <= b.pts - b.count \/ b.pts <= a.pts - a.count

\* No two rows of the table share a number, whatever is delivered twice, fails
\* or restarts: handlers of several rows divide the numbers they have taken
\* without touching those of others, and an event handled again takes new ones.
NumberedOnce == \A r, s \in rows : r # s => Apart(r, s)

\* The log as UpdateLog describes it.
UL == INSTANCE UpdateLog WITH
        counter <- pts, open <- PendingPts, log <- rows, pos <- dpts

\* getDifference passes over a stored update only if its row was inserted
\* after a later number was read: slices and the state they return leave
\* nothing out.  (A history of one message is excluded, see the README.)
OnlyOvertaken == UL!OnlyOvertakenMissed

\* The handlers, the consumers and the devices together implement the abstract
\* log: numbers are taken, published once or given up, and read in order.
ImplementsUpdateLog == UL!Spec

\* A device that keeps asking reaches the end of the log.
CatchesUp ==
    \A d \in Devices : <>[](\A r \in rows : r.pts <= dpts[d])

\* "Write sender's user_pts_updates before RPC return to guarantee
\* getDifference completeness for the sender": no row that was stored is
\* passed over.  The code does not keep this.
DifferenceComplete ==
    \A d \in Devices : \A r \in rows :
        (base[d] < r.pts /\ r.pts <= dpts[d]) => r \in got[d]
=============================================================================
