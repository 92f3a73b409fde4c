# teamgram-server: a TLA+ development

A formal model of the parts of this server whose correctness depends on the
order of events: what is modelled, what TLC checks, what TLAPS proves, and
what is left. Paths are relative to `src/`; `sess/` stands for
`app/interface/session/internal/sess/`.

## 1. The system

teamgram-server implements the server side of Telegram's MTProto API. A
client's packet takes this way:

    client -- TCP/WS --> gnetway --gRPC--> session --gRPC--> bff --gRPC--> msg, biz, authsession, ...
                            ^                 ^                              |
                            |                 +----- sync <---- Kafka <------+
                            +---- gRPC -------+

* **gnetway** (`app/interface/gnetway`) keeps the connections, decrypts
  packets, runs the key exchange and forwards packets, openings and closings of
  connections to the session server that owns the auth key (consistent hashing).
* **session** (`app/interface/session`) keeps the MTProto sessions. Per
  permanent auth key there is one `MainAuthWrapper` with two goroutines:
  `runLoop` takes events from `sessionDataChan` (packets, connections, pushes),
  results from `rpcDataChan` and a one-second ticker; `rpcRunLoop` executes the
  requests that `runLoop` puts into `rpcQueue`. All session state belongs to
  `runLoop`.
* **bff** (`app/bff`) holds the API's handlers: stateless, calling the services.
* **msg, inbox** (`app/messenger/msg`) store sent messages for the sender
  (outbox) and, through Kafka, for the receivers (inbox), allocate `pts` and
  emit updates; **updates** (`app/service/biz/updates`) answers `getState` and
  `getDifference` from the stored updates; **sync** (`app/messenger/sync`)
  pushes updates to the session servers on which **status**
  (`app/service/status`) says the user is online.
* **authsession**, **idgen**, **user/chat/dialog/message/code**, **media/dfs**
  and **admin** store what their names say.

### Inventory

| component | state | operations | what is hard | what makes it correct |
|---|---|---|---|---|
| MTProto session (`sess/session*.go`) | inbound window, outgoing queue, waiting results, gateway, connection and session state | packets, service messages, RPC requests, results, pushes, ticks | duplicates, containers, lost or half-confirmed sendings, deferred results against their time-out, full windows | a request is executed once, is answered, and its answer is kept until acknowledged |
| wrapper (`sess/main_auth_wrapper.go`) | auth state and user, three session lists, main updates session, online expiry, channels | runLoop, rpcRunLoop, auth results, start and stop | results out of order, a late event after stop, a stale session pointer | one user per key; only a logged-in user's requests run; online status follows the sessions |
| registry (`sess/main_auth_wrapper_manager.go`) | map from key to wrapper | Get, Alloc, Delete, OnShardingCB, Drain | deletion by key while a new wrapper exists | a running wrapper is reachable |
| message ids (`sess/msg_id.go`) | a sequence counter | nextMessageId | wrap within a millisecond | unique and increasing |
| HTTP queue (`sess/session_http_queue.go`) | waiting HTTP responses | Push, Pop, PopTimeoutList | a response channel used after its time-out | each response channel is used once |
| gnetway (`app/interface/gnetway`) | connections, handshake state, key cache | handshake steps, forward, close | interleaved closings and reopenings | a session's gateway knows its connection |
| msg / inbox / pts (`app/messenger/msg`) | messages, dialogs, pts, idempotency keys | send, deliver, read, edit, delete | partial failure, Kafka redelivery, repeated requests, pts before row, counts carried through events | a message is stored once and not lost, a dialog's counts are those of its box, every update is seen by getDifference |
| updates (`app/service/biz/updates`) | reads the pts log | getState, getDifference | reads between allocation and insertion | no update is skipped |
| sync (`app/messenger/sync`) | a client with channels and goroutines for each session server | push, follow etcd's list | full channels, servers that leave, calls that time out, Kafka redelivery | an accepted push is lost only with its server, the consumer does not stop |
| status (`app/service/status`) | online entries with expiry | setOnline, setOffline, get | old owner's offline after new owner's online | an online session has an entry |
| authsession (`app/service/authsession`) | keys, bindings, salts, auth users | bind, set, query | cache against store | a temporary key acts for one permanent key |
| idgen (`app/service/idgen`) | sequences | nextId, nextNSeq | segments | unique ids |
| biz services, bff, media, dfs, admin | rows, files | CRUD | little ordering of their own | - |

`PROJECT.json` lists every component with its status, and under `hazards` the
places where a test would hardly reach.

## 2. The modules

| module | models |
|---|---|
| `Session` | one session: queues, packet handling, both goroutines, time, sending |
| `WrapperRegistry` | the wrappers of one key on several servers: registry, calls, loops, online status, sharding, Drain, crashes, time |
| `UpdateLog` | abstract: what a user's devices are promised by a numbered log of updates |
| `PtsLog` | the log in the code: who numbers and stores a user's updates, who reads them; implements `UpdateLog` |
| `Messaging` | one conversation: idempotent sending, copies and dialogs of every member, reading |
| `SyncPush` | the fan-out of updates: handlers, the clients of the session servers, the list of servers |
| `MCSession`, `MCWrapperRegistry`, `MCPtsLog`, `MCMessaging`, `MCSyncPush` | their instances for TLC |
| `SessionProofs`, `WrapperRegistryProofs`, `WrapperStatusProofs`, `UpdateLogProofs`, `PtsLogProofs`, `MessagingProofs`, `MessagingCopyProofs`, `SyncPushProofs` | the theorems and their proofs |

A request passes through them in this order. `Session` takes it from the
client and executes it once; if it sends a message, `Messaging` stores the
copies and `PtsLog` the numbered updates; `SyncPush` carries the updates to the
session servers that the status service names, where `WrapperRegistry` finds or
makes the wrapper that takes them and `Session` queues them for the client.
The modules do not share variables: each takes of its neighbours what crosses
the interface (a request, an event in Kafka, an entry of the status service),
so that each can be checked with interesting bounds and proved by itself.
`PtsLog` and `UpdateLog` are composed by refinement.

### Session

The *state* is that of `session` and its queues, with the wrapper's queues that
carry its requests:

| variable | code |
|---|---|
| `inQueue`, `minMsgId`, `maxMsgId` | `sessionInboundQueue`; the list is sorted and holds an id once, so it is a function from ids to state bytes |
| `outQueue` | `sessionOutgoingQueue`; entries are appended with fresh server msg_ids, so a set ordered by `mid` is the list |
| `pendingQueue` | `sessionRpcResultWaitingQueue`, as the number of waits per id |
| `gatewayId`, `connState`, `sessionState`, `firstMsgId`, `canSync`, `listState` | the fields of `session` and `SessionList` |
| `tmpRpcApiMessageList`, `rpcQueue`, `rpcDataChan` | the fields of `MainAuthWrapper` |
| `handling`, `todo` | the control state of `runLoop` inside `onSessionMessageData` |
| `late` | results another service has promised to push |
| `dispatched`, `answers`, `acked`, `shed`, `forgotten`, `deferred` | history, read by properties only |

An *action* is one event of `runLoop` or one request of `rpcRunLoop`. A packet
may carry several messages, and `rpcRunLoop` runs meanwhile, so its handler is a
run of actions: `OnSessionData` (checks, new_session_created), one action per
message, `EndOfPacket` (the deferred function: hand over the requests, send,
shrink). `handling` keeps every other event of `runLoop` out in between.

*Sending* (`sendQueueToGateway`) is a set of outcomes: each container reaches
the client or not, and its sending is confirmed or not, in any combination, since
gnetway answers `BoolTrue` when it has submitted the write
(`app/interface/gnetway/internal/server/gnet/gateway.sendDataToGateway_handler.go:54-78`).
Entries are updated, and those that need no acknowledgement removed, when the
sending is confirmed; such an entry may never arrive. *Time* is two bits per queue entry (never sent,
waiting for an acknowledgement, waited long enough) and the choice whether a
deferred result or an idle connection times out at a tick.

The client is arbitrary: any packet of `Packets`, any number of times, in any
order, with any acknowledgement of what has reached it.

### WrapperRegistry

`Session` looks inside one session; `WrapperRegistry` looks at what surrounds
it: who creates and ends the `MainAuthWrapper` of a permanent key, and what the
status service is told meanwhile. The two do not share variables: here a packet
is only what it does to the wrapper (`Requests`: nothing, becoming the updates
session, an RPC request, a logout, destroying other sessions).

| variable | code |
|---|---|
| `authMgr` | the key's entry in each server's `MainAuthWrapperManager.authMgr` |
| `phase`, `draining` | `Server.Destroy` and `Drain`: before, with the mutex, stopping, waiting; ended |
| `sharding`, `shardingList`, `members` | `OnShardingCB` and `RpcShardingManager`; etcd's list of servers |
| `home`, `running`, `pc`, `rpcPc` | a wrapper, its flag, and where its two goroutines are |
| `sessionDataChan`, `rpcQueue`, `rpcDataChan`, `ticker` | what `runLoop` selects from |
| `connState`, `gatewayId`, `isGeneric` | the fields of its sessions, by session id |
| `mainUpdatesSession`, `destroyed` | the pointer, as a session id; once that session is destroyed, the state the pointer still shows |
| `onlineAge`, `status` | `onlineExpired` as the time since it was set; the key's field in the status service's hash |
| `calls` | gRPC handlers between their steps: looked up, allocated, first event put |
| `killed`, `displaced`, `unnoticed` | history, read by properties only |

An *action* is what one goroutine does between two points at which another can
be seen: a handler's lookup, its allocation (after a call to authsession, which
may fail), each event it puts; one turn of `runLoop`'s select; the deletion
from the registry and the stop, which `changeAuthState` and `onTimer` do one
after the other; the steps of `OnShardingCB` and of `Drain` inside and outside
the mutex. `MuFree` stands for the mutex, which only these two hold across a
step. `runLoop` looks at `running` once per turn, so a wrapper that is stopped
while it waits in select handles one event more.

*Servers* join, leave and learn of it at different times (`Update`), are drained
or crash with their wrappers wherever they are, and come back empty. *Time*
passes in units of 15 s, the greatest common divisor of the code's 45 s (renew)
and 90 s (expire); in each unit every ticker fires once. The consistent hash is
a ranking of the servers (`Rank`): all that matters is that servers with the
same list agree. Sessions fall quiet at any tick.

### UpdateLog and PtsLog

`PtsLog` follows the numbers (`pts`) of one user's updates. `UpdateLog` says
what its readers are promised, in seven variables: numbers are handed out in
order, some stay open for entries to come; an entry is published under an open
number, or the number is given up; a device is given what follows its position.

| variable of `PtsLog` | code | of `UpdateLog` |
|---|---|---|
| `pts` | the user's counter in Redis (`NextPtsId`, `NextNPtsId`, `GetNextIdList`) | `counter` |
| `rows` | the table `user_pts_updates` | `log` |
| `todo` | the rows a handler has computed and not yet inserted | `open`, as their numbers |
| `kind` | what a handler of msg (`Requests`) or an inbox consumer (`Partitions`: the partition of events keyed by the user, and of those keyed by a chat) is doing | |
| `events`, `next`, `committed` | the partition in Kafka, the consumer's position, the committed offset | |
| `kUseV3` | the flag `-usev3`, which leaves numbering and storing a sent or read message to the consumer | |
| `base`, `dpts`, `got` | a device: pts of its last getState, its state's pts, the rows it was given | `base`, `pos`, `got` |
| `overtaken` | history: numbers that were open when the device went past them | `overtaken` |

*Actions.* `TakeNumbers` is a handler's call to the id generator, `InsertRow`
its call to the database: two stores, two steps. `FinishRequest` publishes the
event for the user's own partition. A consumer skips what the handler has
stored already (`SkipEvent`) or numbers and stores (`HandleEvent`), for a
migrated chat a second update afterwards (`NumberReadOfMigrated`). An insert
that fails is only logged: `InsertRow` may drop its row. `CrashRequest` and
`CrashConsumer` end a handler anywhere; the consumer goes back to the committed
offset and handles events again with new numbers. `GetState` and
`GetDifference` are those of `biz/updates`: a slice of `Limit` rows and the pts
of its last row as the state.

How many numbers each handler takes, and how it divides them among its rows, is
the part that differs between the handlers (`Taken`, `Inserts`,
`InboxInserts`); the kinds that differ in name only are one kind.

### Messaging

`Messaging` is a conversation of two users or a chat.

| variable | code |
|---|---|
| `request` | a handler of `sendMessageV2` or `readHistoryV2`: the event it publishes next |
| `lock`, `cached` | `DoIdempotent` (`dao.go`): the lock of 5 s, the answer kept for 90 s, both by sender and random id |
| `copies`, `boxId` | `dialogMessageId` and each member's message id, from the id generator |
| `rows`, `dialogs` | the tables `messages` and `dialogs` |
| `events`, `next`, `committed`, `written` | each member's partition; `written` is the id of the copy whose dialog the consumer writes next |
| `told`, `readBy`, `reads`, `faults`, `failed` | history, and what bounds the runs |

*Sending.* `Send` takes the lock and the numbers, `PublishMessage` puts one
event for a member, `Answer` keeps the answer and gives it to the client,
`SendAgain` gives the kept one. If Kafka refuses an event (`PublishFails`), a
handler between two users fails; in a chat it goes on to answer, with nothing
in it, and keeps that. The consumer writes the copy (`InsertInbox`,
`InsertOutbox`: a sender's copy has its box id from the handler, and a row with
that id stays; a recipient's copy takes a new id each time and is stored again) and then the dialog (`CountUnread`, `ClearUnread`).

*Reading* takes the unread count and the read mark from the dialog as the
handler sees it (`Read`), looks the message up, publishes the event for the
reader's own dialog (`PublishReadInbox`) and the one for the message's sender
(`PublishReadOutbox`), which the consumers apply later (`HandleReadInbox`,
`HandleReadOutbox`). The query with which the consumer counts what was read
returns no error; if it fails, the old count is stored with the new mark.

*Failures* are steps of their own kind and are recorded in `failed`, so that
each property says which of them it does not survive.

### SyncPush

`SyncPush` is the sync service with its default client.

| variable | code |
|---|---|
| `status`, `listed` | the status service's entries, etcd's list of session servers |
| `events`, `next`, `committed` | each user's partition |
| `left`, `putting` | a handler (`pushUpdatesToSession` and its kin): targets it has still to push to; the push it puts into a channel |
| `sessionServers`, `made` | the map of `dao.SessionClient` from servers to clients; clients are numbered as they are made |
| `sessionChan`, `turn` | the channels of a client (`RoutineSize` of `ChanSize` places) and `sessionChanNum`, which takes turns |
| `calling` | the push with which a goroutine calls the server |
| `unavailable`, `cancelled`, `ended` | the flag that a connection error sets, the client's context, goroutines that have returned |
| `due`, `update` | calls of watch's `update()`: at the start ("first") and by etcd's listener |
| `accepted`, `arrivals`, `handled`, `refused`, `outdated` | history, read by properties only |

*A push* goes from `Handle` (ask the status service; a failed call counts as an
empty list) over `PickPush` (find the client, choose the channel) and `PutPush`
(wait for a place) to a goroutine's `TakePush` and one of three ends: the call
returns, is refused (by the server, or on the way to it by the circuit breaker or
a cancelled context, which do not count as errors of the connection), or fails,
after the server executed it or before, and then marks the client. Go ranges over a map of targets, so
they are pushed in any order.

*The list.* `ReadList` is what precedes the lock in `update()`, `ApplyList` what
happens under it, `CloseClient` the cancellation five seconds later: `Close`
waits for channels of which there is always at least one, so it never ends
sooner. The first call of `update()` is not registered as a listener and runs
beside the listener's. An empty list is ignored; a client that cannot be made
leaves the old map (`ApplyFails`). The flag `unavailable` is never taken back:
a server that restarts at its address keeps a client that drops its pushes
until the list has changed without it.

`Restart` is a crash of sync: channels and clients are gone, and each partition
is handled again from some offset between the last known commit and the last
event that was handled to its end. Pushes of committed events that were in the
channels are lost then, and `accepted` starts anew: `LostOnlyWithClient` speaks
of the time between two restarts.

## 3. What the runs check

All constants are small. The bounds in guards are, in `Session`, `MaxInputs`
(packets, pushes and connection events); in `WrapperRegistry`, `MaxInputs` and
`MaxCalls` (calls, and calls in progress), `MaxRing` (servers that join or
leave), `MaxEnds` (drains and crashes), `MaxLost` (failed calls of the status
service) and the set `Wrappers`; in `PtsLog`, `MaxPts` (the counter),
`MaxEvents` (of a partition), `MaxFaults` (inserts, calls and consumers that
fail) and the set `Requests`; in `Messaging`, `MaxCopies` (attempts that reach
the id generator), `MaxReads`, `MaxEvents`, `MaxFaults` and `Requests`; in
`SyncPush`, `MaxEvents`, `MaxMoves` (changes of a status entry or of the list),
`MaxClients` and `MaxFaults`. Capacities (`maxQueueSize`, 400, and the container
size, 16, of a session; 5000 rows of a difference; 16 places and 100 goroutines
of a sync client) are parameters, so that full queues, several containers and
several slices occur with one to three entries.

| run | instance | shows |
|---|---|---|
| `mixed` | `Session`: 7 ids of every kind, alone and in containers, a getDifference whose result may be deferred, 2 gateways, queues of 2, 3 events | `ExecutedOnce`: only the window's forgetting lets a request run twice. `NoOrphanRequest`: a request that the window marks as processing, and whose repetitions are ignored, is on its way or answered. `OneAnswer`. `AnswerKept`: an answer leaves `outQueue` only by acknowledgement or overflow. `TypeOK`, and `IndInv`, the invariant of the proofs |
| `live` | 2 ids, fairness | `RequestAnswered`: also when the result is deferred for ever. `QueueDelivered`: while the session is online, what the client has to acknowledge reaches it, although confirmed sendings may be lost |
| `status` (violation) | as `mixed`, 1 gateway, nothing deferred | `StatusHonest` fails, see findings |
| `shutdown` | `WrapperRegistry`: 1 server that drains, crashes, restarts, loses the key; 2 wrappers, 2 calls at a time, logout | `RegisteredRuns`: the registry never hands out a wrapper that is stopping. `OneServing`: one wrapper serves the key, but for a wrapper that deleted its successor's entry. `TypeOK`, and `RegistryInv`, the invariant of the proofs |
| `entry` | 1 wrapper, 2 sessions, 4 packets, closes, destroy_session; 45 s and 90 s in units of 15 s | `NoGhost`: a wrapper that ends by itself leaves no status entry, but for a stale or another pointer. `NeverLapses`: the entry of an online wrapper does not expire, unless its process dies or a call of the status service fails |
| `online` | 1 server that loses the key, 2 wrappers, one failed call of the status service, fairness | `OnlineAgain`: a wrapper that stays online returns to the status service, whoever deletes its entry and whichever call failed. `WrapperEnds`: a stopped wrapper's goroutines both end, also when `rpcDataChan` is full, unless more results are due than it has room for |
| `drain` (violation) | 1 server, 1 drain | `DrainCleansStatus` fails, see findings |
| `pts` | `PtsLog`: both values of the flag, one of each way to number and store, a request, an event of each partition, a device, one failure, slices of one row, fairness | `NumberedOnce`: two rows share no number. `OnlyOvertaken`: a device is not given a row only if a later number was read before its insertion. `CatchesUp`: a device reaches the end. `ImplementsUpdateLog`: all this is a behaviour of `UpdateLog`. `TypeOK` |
| `race` (violation) | 2 concurrent sends | `DifferenceComplete` fails, see findings |
| `history` (violation) | a message is sent, a history of one message is deleted | `DifferenceComplete` fails, see findings |
| `send` | `Messaging`: 2 users, or 2 members of a chat; each sends a message, any number of times; 2 requests at a time, two readHistory (one in a chat), one failure of any kind | `OneCopy`, `SameAnswer`: repeated requests store one message and get one answer. `NotLost`: what was answered is in every box or on its way. `UnreadNotTooHigh`: a dialog claims no more unread messages than there are, unless the query that counts failed. `ReadMarkReal`: what a sender sees as read, somebody has read. `TypeOK` |
| `push` | `SyncPush`: 2 keys of a user on one server, 2 servers of which one may leave, 1 goroutine and 1 place, 2 events of 3 kinds, one failure or restart, fairness | `LostOnlyWithClient`: between restarts, an accepted push is lost only with its client. `AtMostOncePerHandling`: sync itself repeats nothing. `FollowsList`: when watch rests, the clients are those of the list. `ConsumerGoesOn`: the events of a user are handled to the last unless the handler waits at a closed client. `QueuesDrain`. `TypeOK` |

In `mixed` the gateways are symmetric, in `shutdown` the wrappers, and in `send`
the requests and the two members together with their messages: nothing orders them, and only safety is
checked there. `send` and `push` do not check
for deadlock: when the bounds of requests, events and failures are used up and
everything is handled, nothing is left to do.

### Why the bounds are enough

*Session.* Each property is about one id against the window, its copies and the
ids that displace it, so a window of two places, the ids of a container that
displace it and one repetition reach every case (`forgotten`, `shed`, `acked` and
`deferred` all become nonempty). *WrapperRegistry.* Every property is about one
wrapper and the one that replaces it. The channels have one place, so that full
channels occur with two events. So has `rpcDataChan` in
`online` (4096 in the code), with up to two requests: full, with a result still
to come and nobody to take it, both goroutines wait for ever (`ResultsOverflow`),
and `WrapperEnds` excepts this and no more.

*PtsLog.* Two rows collide, or overtake each other, between two writers: a
request and a consumer, or the two consumers. Deletions of two messages make
handlers of several rows; one failure is a row that is not inserted, a handler
that ends, or an event that is handled twice. *Messaging.* A count is wrong by
one event that comes between two others; with three events a member receives,
sends and reads in any order, with a message or a failure in between, and between
two users a second reading overtakes the first one's events. Two
attempts of one message, or two messages, are what `OneCopy` and `SameAnswer`
are about. *SyncPush.* Two keys make a channel of one place full, with a push
in the call, one in the channel and one waiting; one change of the list closes
a client, and the first `update()` overlaps with the listener's. No
run has more than one goroutine of a client: they share nothing but the flag.

The safety properties that section 4 lists are proved for every value of the
constants, so for them the instances only show that the cases happen.

### Fairness

`HandleMessage`, `EndOfPacket` and `RpcRunLoop` are weakly fair: a goroutine in
a handler runs on, and calls return. `TakeResult` and `OnTimerTimeout` are
strongly fair: Go's `select` chooses uniformly among the ready channels, so a
ready one is not passed over for ever, and the clock makes every wait of 30
seconds end. `QueueDelivered` also assumes the clock and a link that may lose
confirmed sendings, any number of them, but not every copy of an entry: if the
ticker sends the oldest entry that has not arrived again and again, one sending
arrives (`FairLink`). That every entry gets its turn, is sent again when its wait
is over and is not dropped before, is for the code to show. In
`WrapperRegistry` both goroutines of a wrapper, time, and the rest of a critical
section (`Evict`, `DrainUnlock`) are weakly fair; calls, servers and the client
are not. Events are bounded, so that weak fairness is enough for the ticker.

In `PtsLog` a handler that has begun goes on, a consumer takes its next event,
and a device asks again: a client that is behind does. In `SyncPush` handlers
and the goroutines of clients go on, a call returns, is refused or times out
(the client sets a time-out for each), and `update()` runs to its end; that
etcd's list or a key's status changes is not assumed. `Messaging` has no
liveness property: what arrives is what its consumers reach, which `PtsLog` and
`SyncPush` ask of theirs.

### Findings

1. `status`: `Shrink` sets `minMsgId` to the id it has just dropped
   (`sess/session_inbound_queue.go:299`), and `onMsgsStateReq` answers "nothing is
   known" only below it. For the id that was dropped last, which was received and
   whose request was executed, it answers 2, of which the comment in lines 80-83
   says that the other party "has certainly not received a message like that".
   A client that believes this sends the request again, and the window takes it
   for a new one.
2. `drain`: the gRPC server still serves while `Drain` runs
   (`app/interface/session/internal/server/server.go:57-59`), so a call in progress
   allocates a wrapper after the registry was emptied. `Drain` neither stops it
   nor cleans its entry (`sess/main_auth_wrapper_manager.go:91-110`).
3. `race`: without `-usev3` a handler takes the number of its update
   (`app/messenger/msg/internal/dao/outbox.go:697`) long before it inserts the
   row (line 761). Of two sends of a user, the later number may be stored and
   read first; the earlier row is then in no difference, although it was written
   before the request returned, which the comment in lines 758-759 takes for
   enough. `OnlyOvertaken` says that nothing else is missed.
4. `history`: `deleteUserHistory` stores the deletion of n messages with the
   count n-1 under the last but one of n+1 numbers
   (`app/messenger/msg/msg/internal/core/msg.deleteHistory_handler.go:142`). With
   one message it counts for nothing under the number of the update before it,
   and a device that has that update never gets the deletion.

What the properties had to except is worth knowing too.

* A wrapper evicted by `OnShardingCB` while it is about to call
  `DeleteByAuthKeyId` deletes the entry of its successor, so that two wrappers
  serve one key (`displaced`); the exit of `runLoop` looks only at the updates
  session, which may not be the session that set the key online, or may be a
  destroyed one that was made anew under the same id and is never replaced,
  since `onSetMainUpdatesSession` compares ids.
* `runLoop` waits for `rpcRunLoop` when it exits and takes no more results, so a
  stopped wrapper with more results on their way than `rpcDataChan` has room for
  never ends (`ResultsOverflow`).
* A query that fails while a reading is applied leaves the old unread count with
  the new mark (`app/messenger/msg/inbox/internal/core/inbox.readInboxHistory_handler.go:42-47`;
  `UnreadNotTooHigh` excepts it).
* `SessionSendDataToSession` and the push handlers discard
  `ErrDataChannelFull` and answer `BoolTrue`
  (`app/interface/session/internal/core/session.sendDataToSession_handler.go:48-61`);
  only `SessionCloseSession` returns it.
* In a chat an event that Kafka does not take leaves an empty answer, which
  `DoIdempotent` keeps: the client is told nothing failed (`NotLost` excepts
  `Empty`). A recipient's copy is stored again when its event is handled again
  (`OneCopy` excepts consumers that restart; the code has a TODO).
* A handler of sync that waits at a full channel of a client that is closed
  meanwhile may wait for ever, and with it its partition (`Stuck`).

Two observations that no property is about: `onMsgsAllInfo` looks for the server
msg_ids that the client misses among the entries' request ids
(`sess/session_service_messages_about_messages.go:693`; `OnMsgsAck` compares
`msg.MsgId`), so the messages of the comment in line 689 are sent again by the
timer only; and `SessionList.state` never becomes `SessionListStateNormal`, so
that pushes are never held back during a getDifference.

## 4. What is proved

Every theorem holds for all values of the constants that the assumptions of its
module allow; the assumptions are types and what the code's configuration
guarantees, and TLC evaluates them in every run. None of the safety properties
is inductive alone; each section says which invariant carries it.

### SessionProofs

* `TypeCorrect`: `Spec => []TypeOK`.
* `Invariance`: `Spec => []IndInv`, from which
* `RequestsExecutedOnce`, `AnswersKept`, `RequestsNotLost`: the safety
  properties `ExecutedOnce`, `AnswerKept`, `NoOrphanRequest`.
* `AnsweredOnlyOnce`: `OneAnswer`, with an invariant of its own, `AnsweredOnce`.

The assumptions: msg_ids are naturals below the first server msg_id, packets are
what `checkContainer` lets through, the bounds are naturals.

* `ExecutedOnce` needs `Registered`: a dispatched request is still in the window
  with a state other than `NONE`, or was forgotten; only then is a copy a
  duplicate.
* `AnswerKept` needs `QueuedAnswers` (the entries that wait for an
  acknowledgement are exactly the rpc_results; those that need none never have
  the id of an answered request, so `Remove` by client id cannot take an answer)
  and `UniqueMids` (an acknowledged server msg_id names one entry).
* `NoOrphanRequest` needs `RpcOnly`, that only requests travel through the RPC
  queues, and the argument that a request leaves one queue only into the next,
  into the waiting list, or into an answer.
* `OneAnswer` is about the answers that are still to come. An answer is owed
  (`Owes`) at a place: the request waits in `tmpRpcApiMessageList` or `rpcQueue`,
  its result in `rpcDataChan`, or another service has promised it (`late`).
  `AnswerSettled` says that it is owed at one place at most, that none is owed
  when one was given, and that either way the window knows the id, so that
  `onRpcRequest` drops a repetition. Every step moves what is owed and copies
  none (`OwesMoves`), only a message the window does not know adds to it
  (`OwedByRequest`), and an answer ends it (`OwedUntilGiven`).

The proofs do not go through `Next` once per property. Lemmas `WindowStep` and
`RpcStep` show that every action has one of a few effects on the window and on
the RPC queues; the properties are then shown for the effects. Sending, in all
its outcomes, is dealt with once (`SendKeeps`, `ResendKeeps`).

### WrapperRegistryProofs

* `RegistryInvariance`: `Spec => []RegistryInv`, from which
* `RegisteredWrappersRun`: `RegisteredRuns`.
* `OneWrapperServes`: `OneServing`, from `ServingInv`.

`Drain` stops the wrappers of a list it made while it held the mutex, so
`DrainList` says that the list is the registry until the mutex is released, that
nothing on it is registered afterwards, and that `OnShardingCB` and `Drain` never
hold the mutex both; `ControlTypes` types what the argument touches. Lemmas deal
with the actions by what they do to the registry: those that leave it alone and
move one wrapper's control (`LoopKeepsRegistry`), those that touch neither
(`OthersKeepRegistry`), and the few that write it, one by one. The ranking of the
servers is not used.

For `OneServing` it is enough that a wrapper that goes on serving is the one in
the registry (`ServingRegistered`): a wrapper is only made when nothing is
registered, and `displaced` notes the one way in which an entry is deleted
without its wrapper. `EndedProcesses` covers restarts: a process that has ended
left no wrapper behind, and no call of it goes on to make one.

### WrapperStatusProofs

* `TypeCorrect`: `TypeOK`; no more than `ChanCap` events wait for a wrapper.
* `EndedWrapperIsOffline`, `EntryRenewedInTime`: `NoGhost`, `NeverLapses`, from
  `StatusInv`.

`EntryInv` relates the entry to the wrapper that wrote it, as long as no call of
the status service has failed. `onlineAge`, the wrapper's own idea of how old its
entry is, is the age of the entry up to `RenewAge`; while its updates session is
online the wrapper is in its loop, and at `RenewAge` its ticker has a tick for
it. Time does not pass over a tick that is not taken, so with the assumption
`RenewAge < ExpireAge`, in the code 45 s and 90 s, the entry never gets as old as
it may. When the wrapper ends, `Settled` says whose entry it left: if the updates
session is the only one that was ever generic and no session was destroyed, then
the exit of `runLoop` finds that session online and deletes the entry.
`UpdatesSession` says that this session exists.

The proof found an exception that the run is too small to show: a wrapper whose
process dies need not stop `running`, and its entry expires. `NeverLapses` now
says so.

### UpdateLogProofs and PtsLogProofs

* `UpdateLogProofs!OnlyOvertakenIsMissed`: the promise of the abstract log. A
  device's position is never beyond the counter, and the open numbers it has
  passed are known to be overtaken (`LogInv`).
* `TypeCorrect`, `NumbersAreUnique`: `TypeOK`, `NumberedOnce`. The rows, stored
  or still to be inserted, lie within the numbers handed out and are pairwise
  disjoint (`Numbered`). What a handler divides among its rows is exactly what it
  took: lemmas `InsertsDivide`, `InboxInsertsDivide`.
* `LogImplemented`: `Spec => ImplementsUpdateLog`, the refinement. The steps are
  first sorted by what they do to numbers and rows (`Steps`: new numbers, a new
  entry, fewer pending rows, or a device's step), and each sort is a step of
  `UpdateLog`.
* `OnlyOvertakenIsMissed`: hence `OnlyOvertaken` holds of the code.
* `DifferenceCompleteWithOneWriter`: with one writer `DifferenceComplete` holds:
  its rows go in in order (`InOrder`), so nothing is overtaken.

The second and third group carry an assumption in the theorem.
`NoHistoryOfOne` excludes the deletion of a history of one message, whose row
takes no number of its own (finding 4). `OneWriter` is a user with `-usev3` who
only sends and reads messages, and to whom only others' messages, edits and
deletions of a chat's history come: then the consumer of the user's partition
alone numbers and stores. What finding 3 breaks is exactly this.

### MessagingProofs

* `TypeCorrect`: `TypeOK`; in particular no count is negative.
* `UnreadIsNotTooHigh`: `UnreadNotTooHigh`. Ids are handed out once and in order
  (`IdsHandedOut`), rows are only added, and so what a read request or its event
  carries stays a bound for what is in the box (`Honest`): the count as the
  handler saw it is at most the number of unseen messages after the mark it saw,
  which splits at the new mark (`CountSplit`). Once a query of the consumer has
  failed nothing is claimed: then the old count is stored with the new mark.
* `NothingToldIsLost`: `NotLost`. Ids name one copy (`Unambiguous`); an answer
  tells of a copy whose event every member's partition has (`ToldPublished`);
  an event that was handled has left its copy unless a write failed
  (`HandledStored`), and a consumer that restarts goes back, never forward.
* `RepeatedSameAnswer`: `SameAnswer`. While nothing has expired, one attempt at a
  time holds the lock, and none once there is an answer (`OneAttempt`).

### MessagingCopyProofs

* `ReadMarksAreReal`: `ReadMarkReal`. A copy has one author, wherever it is spoken
  of: in a row, an event or a request (`OneAuthor`), since the id generator
  hands out its number once. A request or an event that is to tell an author of a
  reading names a member who has read that copy (`HeardOf`), and what was read
  stays read (`ReadByGrows`).
* `OneCopyPerMessage`: `OneCopy`. As long as no attempt broke off and nothing
  expired (`Smooth`), all that is left of a message's attempts, requests and
  events, carries the same numbers; an answer is kept unless one of them goes
  on; and a member's partition has one event of the message (`OnlyAttempt`).
  Rows come from events (`RowsStored`), and while no consumer goes back the event
  of a row is behind the consumer or is the one it is at, with its row written
  (`HandledOnce`), so that no row is made twice. The sender's event carries the
  id of its row (`EventsTrue`), and a row that has it is left alone, so in the
  sender's box it is also one when the consumer does go back.

### SyncPushProofs

* `TypeCorrect`: `TypeOK`, with the capacity of the channels.
* `FollowsTheList`: `FollowsList`. What `update()` has read is what is listed
  unless the listener will call it again (`ReadsRight`), and a client is closed
  only after the new map is in place.
* `NoRetries`: `AtMostOncePerHandling`. A push is at one place of a client's
  channels and calls (`OnePlace`), belongs to the event that was started last if
  its handler still has it, and on its way has been executed less often than its
  event was handled (`Counted`).
* `KeepsAccepted`: `LostOnlyWithClient`, from `OnePlace`: a call that ends ends
  for its own push and for no other.

### Only model-checked

The liveness properties: `RequestAnswered`, `QueueDelivered`, `OnlineAgain`,
`WrapperEnds`, `CatchesUp`, `ConsumerGoesOn` and `QueuesDrain`. ENABLED, and with
it fairness, is out of the prover's reach. Every invariant and every action
property that a passing run checks is a theorem.

## 5. What is not modelled

*In the session:* HTTP long polling; sequence numbers; the salts (a refused packet
is one action); the contents of service messages; `msg_detailed_info` and
`bad_msg_notification`, which are sent directly and change no state;
`invokeAfterMsg`, whose wrapper calls the inner request at once.
`onSyncSessionData` differs from `onSyncData` in nothing the model sees. Of the
wrapper only its scheduling of one session is in `Session`.

*Around the session:* the Android push session, which a registered device of
token type 7 adds beside the updates session; `resetAuth`, which empties a list
when another temporary key appears; the authorization state but for its ends;
the other devices of a user, which share the expiry of the status hash and so
can keep an entry of this key longer; key and salt caches. `shutdown`, `entry`
and `online` have one server, which may lose and regain the key; the module
allows several.

*Messages:* albums, blocked recipients, messages to oneself, drafts, mentions and
hashtags; what edits, deletions and pins do to messages and dialogs (their
numbers and rows are in `PtsLog`). Hence the rewriting of a dialog after a
deletion, which reads and writes without a lock, is among the hazards without a
property.

*The log of updates:* the per-session log (seq and date), the contents of
updates, and the merging of a difference's updates of one kind. A call of the id
generator that fails leaves nothing that a reader could miss and is left out.

*Sync:* the streaming client, which is not the default; broadcasts, which nothing
calls; `pushUpdatesIfNot`, which is not implemented. The server to which an
rpc_result goes is where its key was when it was asked for. The committed offset
is chosen at a restart.

*Other components.* Server msg_ids depend on the clock of each process. The HTTP
queue and the HTTP server are a second transport for what `Session` models.
gnetway, authsession, media, dfs and the admin server are transport, files or
rows behind a cache. bff and the biz services mostly validate, read and write
single rows; what has an order of its own (dialogs, counters, the log) is in
`Messaging` and `PtsLog`. The bulk of the repository by lines is generated:
protobuf messages, codecs, gRPC stubs and data access objects, which hold no
control to model; the share of lines that the models stand for is therefore
small.

## 6. Where to go on

1. The authorization state of a wrapper: the results of sign-in requests, which
   are applied in the order in which they return, and `resetAuth`.
2. An abstract request/reply service that `Session` implements while its window
   forgets nothing.
3. Deletion of messages in `Messaging`, with the dialogs that it rewrites.
4. The HTTP queue, whose response channels outlive the handlers that wait for
   them; server msg_ids.
5. Proofs of liveness need another prover; what could still be proved here is
   the refinement of item 2, whose steps the lemmas `WindowStep`, `RpcStep` and
   `OwesMoves` already sort, and that two servers do not both serve a key once
   their lists of servers agree.
