------------------------------ MODULE SyncPush ------------------------------
(***************************************************************************)
(* The fan-out of updates by the sync service.                             *)
(*                                                                         *)
(* Events come through Kafka, keyed by user.  The handler of an event asks *)
(* the status service which auth keys of the user are online on which      *)
(* session servers, and puts one push for each into a channel of the       *)
(* client for that server.  A client (struct Session) has Routines         *)
(* channels of ChanSize places, each emptied by a goroutine that calls the *)
(* server.  A second party, watch, follows the list of session servers in  *)
(* etcd, makes clients for new servers and closes those of servers that    *)
(* are gone.                                                               *)
(*                                                                         *)
(* This is the client used by default, not the streaming one.  What a push *)
(* does on the session server is the subject of WrapperRegistry.           *)
(***************************************************************************)
EXTENDS Integers, Sequences, FiniteSets, Functions

CONSTANTS
    Users,         \* each with the Kafka partition that its events go to
    Keys,          \* auth keys
    Owner,         \* [Keys -> Users]
    Origins,       \* keys whose requests and results are pushed
    Servers,       \* session servers
    RoutineSize,   \* goroutines of a client, 100 in the configuration
    ChanSize,      \* places of a channel, 16 in the configuration
    Kinds,         \* a subset of EventKinds
    StartStatus,   \* where the keys may be at the start
    StartList,     \* which servers may be listed at the start
    Nowhere,       \* no server, or no key
    MaxEvents,     \* bound: events of a user
    MaxMoves,      \* bound: changes of the status and of the list of servers
    MaxClients,    \* bound: clients made between two restarts
    MaxFaults      \* bound: failed calls, restarts of sync

EventKinds == {
    "user",        \* sync.pushUpdates
    "notMe",       \* sync.updatesNotMe
    "me",          \* sync.updatesMe
    "result" }     \* sync.pushRpcResult

ASSUME ConstantsAssumption ==
    /\ Owner \in [Keys -> Users] /\ Origins \subseteq Keys
    /\ IsFiniteSet(Servers)
    /\ RoutineSize \in Nat \ {0} /\ ChanSize \in Nat \ {0}
    /\ Kinds \subseteq EventKinds
    /\ StartStatus \subseteq [Keys -> Servers \cup {Nowhere}]
    /\ StartList \subseteq SUBSET Servers
    /\ Nowhere \notin Servers /\ Nowhere \notin Keys
    /\ MaxEvents \in Nat /\ MaxMoves \in Nat /\ MaxClients \in Nat
    /\ MaxFaults \in Nat

VARIABLES
    status,          \* [Keys -> Servers or Nowhere], the status service
    listed,          \* the session servers that etcd lists
    events,          \* [Users -> Seq(events)], what Kafka keeps
    next,            \* [Users -> index of the event to handle next]
    committed,       \* [Users -> events committed when sync was last started]
    left,            \* [Users -> pushes the handler has still to make]
    putting,         \* [Users -> at most one push it is putting into a channel]
    made,            \* how many clients this sync process has made
    sessionServers,  \* [Servers -> client, or 0]
    sessionChan,     \* [Clients -> [Routines -> Seq(pushes)]]
    calling,         \* [Clients -> [Routines -> set of at most one push]]
    turn,            \* [Clients -> sessionChanNum modulo RoutineSize]
    unavailable,     \* clients marked after a connection error
    cancelled,       \* clients whose context is cancelled
    ended,           \* << client, routine >>: goroutines that have returned
    due, update,     \* calls of watch's update(): wanted, and in progress
    moves, faults,
    accepted,        \* history: [Clients -> pushes put into its channels]
    arrivals,        \* history: [Pushes -> how often the server executed it]
    handled,         \* history: [Users -> Seq(how often an event was handled)]
    refused,         \* history: pushes whose call failed but was not put down to
                     \*          the connection
    outdated         \* history: whether the last update() failed or was overtaken

Clients == 1 .. MaxClients
Routines == 1 .. RoutineSize
Watchers == { "first", "listener" }

\* A push: the nr-th event of a user, for one key, on the server it was on.
Pushes == [user : Users, nr : 1 .. MaxEvents, key : Keys, server : Servers]

\* An event's key is its origin, or the one it is for.
EventType == [kind : Kinds, key : Keys, server : Servers \cup {Nowhere}]

kafka == << events, next, committed >>
handlers == << left, putting, handled >>
clients == << made, sessionChan, calling, turn, unavailable, cancelled, ended >>
watch == << due, update, sessionServers, outdated >>
world == << status, listed, moves >>
history == << accepted, arrivals, refused >>
vars == << world, kafka, handlers, clients, watch, faults, history >>

Still == [pc |-> "idle", values |-> {}, removed |-> {}]

Init ==
    /\ status \in StartStatus /\ listed \in StartList
    /\ events = [u \in Users |-> << >>]
    /\ next = [u \in Users |-> 1]
    /\ committed = [u \in Users |-> 0]
    /\ left = [u \in Users |-> {}]
    /\ putting = [u \in Users |-> {}]
    /\ made = 0
    /\ sessionServers = [s \in Servers |-> 0]
    /\ sessionChan = [c \in Clients |-> [i \in Routines |-> << >>]]
    /\ calling = [c \in Clients |-> [i \in Routines |-> {}]]
    /\ turn = [c \in Clients |-> 0]
    /\ unavailable = {} /\ cancelled = {} /\ ended = {}
    /\ due = {"first"}
    /\ update = [w \in Watchers |-> Still]
    /\ moves = 0 /\ faults = 0
    /\ accepted = [c \in Clients |-> {}]
    /\ arrivals = [p \in Pushes |-> 0]
    /\ handled = [u \in Users |-> << >>]
    /\ refused = {}
    /\ outdated = FALSE

-----------------------------------------------------------------------------
(***************************************************************************)
(* The world: other services, etcd, Kafka.                                 *)
(***************************************************************************)

\* A session comes online, goes offline or appears on another server.
Move(k) ==
    /\ moves < MaxMoves
    /\ moves' = moves + 1
    /\ \E s \in Servers \cup {Nowhere} :
         s # status[k] /\ status' = [status EXCEPT ![k] = s]
    /\ UNCHANGED << listed, kafka, handlers, clients, watch, faults, history >>

\* A session server joins or leaves; watch's listener is called.
ListChanges ==
    /\ moves < MaxMoves
    /\ moves' = moves + 1
    /\ \E s \in Servers :
         listed' = IF s \in listed THEN listed \ {s} ELSE listed \cup {s}
    /\ due' = due \cup {"listener"}
    /\ UNCHANGED << status, update, sessionServers, outdated, kafka, handlers,
                    clients, faults, history >>

\* Another service asks for a push.  pushRpcResult names the server that the
\* key's request came through, which the key may have left when the event is
\* handled; updatesMe may name one.
Ask(u) ==
    /\ Len(events[u]) < MaxEvents
    /\ \E e \in EventType :
         /\ e.key \in Origins /\ Owner[e.key] = u
         /\ e.server \in IF e.kind = "result" THEN Servers \cap {status[e.key]}
                         ELSE IF e.kind = "me" THEN {status[e.key], Nowhere}
                         ELSE {Nowhere}
         /\ events' = [events EXCEPT ![u] = Append(@, e)]
    /\ handled' = [handled EXCEPT ![u] = Append(@, 0)]
    /\ UNCHANGED << next, committed, left, putting, world, clients, watch,
                    faults, history >>

-----------------------------------------------------------------------------
(***************************************************************************)
(* The handlers.                                                           *)
(***************************************************************************)
Handling(u) == left[u] # {} \/ putting[u] # {}

Returned(u) == IF Handling(u) THEN next[u] - 2 ELSE next[u] - 1

\* For whom the event is: one key on a named server, or every key of the user
\* that is online, but for the key whose request caused it.
Targets(u, e) ==
    LET To(k, s) == [user |-> u, nr |-> next[u], key |-> k, server |-> s]
        Online == { k \in Keys : Owner[k] = u /\ status[k] # Nowhere }
    IN  IF e.kind \in { "me", "result" } /\ e.server # Nowhere
          THEN { To(e.key, e.server) }
          ELSE { To(k, status[k]) : k \in
                    IF e.kind = "notMe" THEN Online \ {e.key} ELSE Online }

\* The handler starts.  If the status service cannot be asked it goes on with
\* an empty list.
Handle(u) ==
    /\ ~Handling(u)
    /\ next[u] <= Len(events[u])
    /\ \/ left' = [left EXCEPT ![u] = Targets(u, events[u][next[u]])]
          /\ UNCHANGED faults
       \/ /\ faults < MaxFaults /\ faults' = faults + 1
          /\ events[u][next[u]].server = Nowhere
          /\ UNCHANGED left
    /\ next' = [next EXCEPT ![u] = @ + 1]
    /\ handled' = [handled EXCEPT ![u][next[u]] = @ + 1]
    /\ UNCHANGED << events, committed, putting, world, clients, watch, history >>

\* Dao.PushUpdatesToSession and Session.PushUpdates, up to the channel: a push
\* for a server that is not known or is marked unavailable is given up.
PickPush(u) ==
    /\ putting[u] = {}
    /\ \E p \in left[u] :
         LET c == sessionServers[p.server]
         IN  /\ left' = [left EXCEPT ![u] = @ \ {p}]
             /\ \/ /\ c = 0 \/ c \in unavailable
                   /\ UNCHANGED << putting, turn >>
                \/ /\ c # 0 /\ c \notin unavailable
                   /\ turn' = [turn EXCEPT ![c] = (@ + 1) % RoutineSize]
                   /\ putting' = [putting EXCEPT ![u] =
                            {[push |-> p, client |-> c, routine |-> turn'[c] + 1]}]
    /\ UNCHANGED << handled, kafka, world, made, sessionChan, calling,
                    unavailable, cancelled, ended, watch, faults, history >>

\* A mutant of PutPush: nobody waits.
PutAtOnce(u) ==
    /\ \E q \in putting[u] :
         /\ sessionChan' =
               [sessionChan EXCEPT ![q.client][q.routine] = Append(@, q.push)]
         /\ putting' = [putting EXCEPT ![u] = {}]
         /\ accepted' = [accepted EXCEPT ![q.client] = @ \cup {q.push}]
    /\ UNCHANGED << left, handled, kafka, world, made, calling, turn,
                    unavailable, cancelled, ended, watch, faults, arrivals,
                    refused >>

\* A mutant of PutPush: what finds no room is dropped.
PutOrDrop(u) ==
    /\ \E q \in putting[u] :
         /\ IF Len(sessionChan[q.client][q.routine]) < ChanSize
              THEN sessionChan' =
                     [sessionChan EXCEPT ![q.client][q.routine] = Append(@, q.push)]
              ELSE UNCHANGED sessionChan
         /\ putting' = [putting EXCEPT ![u] = {}]
         /\ accepted' = [accepted EXCEPT ![q.client] = @ \cup {q.push}]
    /\ UNCHANGED << left, handled, kafka, world, made, calling, turn,
                    unavailable, cancelled, ended, watch, faults, arrivals,
                    refused >>

\* The handler waits until the channel has room, whatever happens meanwhile to
\* the client.
PutPush(u) ==
    /\ \E q \in putting[u] :
         /\ Len(sessionChan[q.client][q.routine]) < ChanSize
         /\ sessionChan' =
               [sessionChan EXCEPT ![q.client][q.routine] = Append(@, q.push)]
         /\ putting' = [putting EXCEPT ![u] = {}]
         /\ accepted' = [accepted EXCEPT ![q.client] = @ \cup {q.push}]
    /\ UNCHANGED << left, handled, kafka, world, made, calling, turn,
                    unavailable, cancelled, ended, watch, faults, arrivals,
                    refused >>

-----------------------------------------------------------------------------
(***************************************************************************)
(* The goroutines of a client (Session.process).                           *)
(***************************************************************************)
Runs(c, i) == << c, i >> \notin ended /\ calling[c][i] = {}

\* A mutant of TakePush: the goroutines of a marked client rest.
TakeUnlessMarked(c, i) ==
    /\ Runs(c, i)
    /\ sessionChan[c][i] # << >> /\ c \notin unavailable
    /\ sessionChan' = [sessionChan EXCEPT ![c][i] = Tail(@)]
    /\ calling' = [calling EXCEPT ![c][i] = {Head(sessionChan[c][i])}]
    /\ UNCHANGED << made, turn, unavailable, cancelled, ended, handlers, kafka,
                    world, watch, faults, history >>

\* A goroutine takes a push and drops it if the client is marked, or calls.
TakePush(c, i) ==
    /\ Runs(c, i)
    /\ sessionChan[c][i] # << >>
    /\ sessionChan' = [sessionChan EXCEPT ![c][i] = Tail(@)]
    /\ IF c \in unavailable
         THEN UNCHANGED calling
         ELSE calling' = [calling EXCEPT ![c][i] = {Head(sessionChan[c][i])}]
    /\ UNCHANGED << made, turn, unavailable, cancelled, ended, handlers, kafka,
                    world, watch, faults, history >>

\* Once the client is cancelled select takes either branch.
EndRoutine(c, i) ==
    /\ Runs(c, i)
    /\ c \in cancelled
    /\ ended' = ended \cup {<< c, i >>}
    /\ UNCHANGED << made, sessionChan, calling, turn, unavailable, cancelled,
                    handlers, kafka, world, watch, faults, history >>

Fault == faults < MaxFaults /\ faults' = faults + 1

\* The server executes the push and its answer comes back.
CallReturns(c, i) ==
    /\ \E p \in calling[c][i] : arrivals' = [arrivals EXCEPT ![p] = @ + 1]
    /\ calling' = [calling EXCEPT ![c][i] = {}]
    /\ UNCHANGED << made, sessionChan, turn, unavailable, cancelled, ended,
                    handlers, kafka, world, watch, faults, accepted, refused >>

\* The server answers with an error of its own, or the client's side does: the
\* circuit breaker, or a context that was cancelled.  The client is not marked.
CallRefused(c, i) ==
    /\ Fault
    /\ \E p \in calling[c][i] : refused' = refused \cup {p}
    /\ calling' = [calling EXCEPT ![c][i] = {}]
    /\ UNCHANGED << made, sessionChan, turn, unavailable, cancelled, ended,
                    handlers, kafka, world, watch, accepted, arrivals >>

\* A mutant of CallFails: what timed out is tried again.
CallFailsAndRetries(c, i) ==
    /\ Fault
    /\ \E p \in calling[c][i] :
         arrivals' \in {arrivals, [arrivals EXCEPT ![p] = @ + 1]}
    /\ UNCHANGED << made, calling, unavailable, sessionChan, turn, cancelled,
                    ended, handlers, kafka, world, watch, accepted, refused >>

\* A mutant of CallFails: the goroutine returns.
CallFailsAndEnds(c, i) ==
    /\ Fault
    /\ \E p \in calling[c][i] :
         arrivals' \in {arrivals, [arrivals EXCEPT ![p] = @ + 1]}
    /\ calling' = [calling EXCEPT ![c][i] = {}]
    /\ ended' = ended \cup {<< c, i >>}
    /\ UNCHANGED << made, unavailable, sessionChan, turn, cancelled,
                    handlers, kafka, world, watch, accepted, refused >>

\* The call times out, after the server executed it or before, or there is no
\* connection.  The mark stays for as long as the client does.
CallFails(c, i) ==
    /\ Fault
    /\ \E p \in calling[c][i] :
         arrivals' \in {arrivals, [arrivals EXCEPT ![p] = @ + 1]}
    /\ calling' = [calling EXCEPT ![c][i] = {}]
    /\ unavailable' = unavailable \cup {c}
    /\ UNCHANGED << made, sessionChan, turn, cancelled, ended, handlers, kafka,
                    world, watch, accepted, refused >>

-----------------------------------------------------------------------------
(***************************************************************************)
(* Following the list of session servers (Dao.watch).                      *)
(***************************************************************************)

\* update() reads the list; an empty one is taken for a mistake.
ReadList(w) ==
    /\ w \in due /\ update[w] = Still
    /\ due' = due \ {w}
    /\ IF listed = {}
         THEN UNCHANGED update
         ELSE update' = [update EXCEPT ![w] =
                    [pc |-> "read", values |-> listed, removed |-> {}]]
    /\ UNCHANGED << sessionServers, outdated, handlers, kafka, world, clients,
                    faults, history >>

Known == { s \in Servers : sessionServers[s] # 0 }

\* A mutant of NewMap: servers that are gone stay in it.
MapWithGone(values, new, client) ==
    [s \in Servers |-> IF s \in new THEN client[s] ELSE sessionServers[s]]

NewMap(values, new, client) ==
    [s \in Servers |-> IF s \in new THEN client[s]
                       ELSE IF s \in values THEN sessionServers[s] ELSE 0]

\* update() with these clients still to close, one after the other.
Closing(removed) ==
    IF removed = {} THEN Still
    ELSE [pc |-> "closing", values |-> {}, removed |-> removed]

\* Under the lock: clients for the servers that are new, the others are kept.
\* The first call of update() may come behind one of the listener's.
ApplyList(w) ==
    /\ update[w].pc = "read"
    /\ LET values == update[w].values
           new == values \ Known
           removed == { sessionServers[s] : s \in Known \ values }
           last == made + Cardinality(new)
       IN  /\ last <= MaxClients
           /\ made' = last
           /\ \E client \in Bijection(new, made + 1 .. last) :
                sessionServers' = NewMap(values, new, client)
           /\ update' = [update EXCEPT ![w] = Closing(removed)]
           /\ outdated' = (w = "first" /\ values # listed)
    /\ UNCHANGED << due, sessionChan, calling, turn, unavailable, cancelled,
                    ended, handlers, kafka, world, faults, history >>

\* No client can be made for a new server: update() returns, nothing changed.
ApplyFails(w) ==
    /\ Fault
    /\ update[w].pc = "read" /\ update[w].values \ Known # {}
    /\ update' = [update EXCEPT ![w] = Still]
    /\ outdated' = TRUE
    /\ UNCHANGED << due, sessionServers, handlers, kafka, world, clients, history >>

\* Close waits for 5 s, also if the channels are empty before, and cancels.
CloseClient(w) ==
    /\ \E c \in update[w].removed :
         /\ cancelled' = cancelled \cup {c}
         /\ update' = [update EXCEPT ![w] = Closing(@.removed \ {c})]
    /\ UNCHANGED << due, sessionServers, outdated, made, sessionChan, calling,
                    turn, unavailable, ended, handlers, kafka, world, faults,
                    history >>

\* The sync process ends and is started again: Kafka delivers what is not
\* committed, where commits trail behind the handlers that have returned.
Restart ==
    /\ Fault
    /\ committed' \in [Users -> 0 .. MaxEvents]
    /\ \A u \in Users : committed'[u] \in committed[u] .. Returned(u)
    /\ next' = [u \in Users |-> committed'[u] + 1]
    /\ left' = [u \in Users |-> {}]
    /\ putting' = [u \in Users |-> {}]
    /\ made' = 0
    /\ sessionServers' = [s \in Servers |-> 0]
    /\ sessionChan' = [c \in Clients |-> [i \in Routines |-> << >>]]
    /\ calling' = [c \in Clients |-> [i \in Routines |-> {}]]
    /\ turn' = [c \in Clients |-> 0]
    /\ unavailable' = {} /\ cancelled' = {} /\ ended' = {}
    /\ due' = {"first"}
    /\ update' = [w \in Watchers |-> Still]
    /\ outdated' = FALSE
    /\ accepted' = [c \in Clients |-> {}]
    /\ UNCHANGED << world, events, handled, arrivals, refused >>

-----------------------------------------------------------------------------
Next ==
    \/ \E k \in Keys : Move(k)
    \/ ListChanges
    \/ \E u \in Users :
         Ask(u) \/ Handle(u) \/ PickPush(u) \/ PutPush(u)
    \/ \E c \in Clients, i \in Routines :
         \/ TakePush(c, i) \/ EndRoutine(c, i)
         \/ CallReturns(c, i) \/ CallRefused(c, i) \/ CallFails(c, i)
    \/ \E w \in Watchers :
         ReadList(w) \/ ApplyList(w) \/ ApplyFails(w) \/ CloseClient(w)
    \/ Restart

Spec == Init /\ [][Next]_vars

\* Goroutines go on, calls return or time out, and the five seconds pass.
Fairness ==
    /\ \A u \in Users :
         WF_vars(Handle(u)) /\ WF_vars(PickPush(u)) /\ WF_vars(PutPush(u))
    /\ \A c \in Clients, i \in Routines :
         /\ WF_vars(TakePush(c, i))
         /\ WF_vars(CallReturns(c, i) \/ CallRefused(c, i) \/ CallFails(c, i))
    /\ \A w \in Watchers :
         WF_vars(ReadList(w)) /\ WF_vars(ApplyList(w)) /\ WF_vars(CloseClient(w))

LiveSpec == Spec /\ Fairness

-----------------------------------------------------------------------------
(***************************************************************************)
(* Properties.                                                             *)
(***************************************************************************)
PutType == [push : Pushes, client : Clients, routine : Routines]
UpdateType == [pc : {"idle", "read", "closing"}, values : SUBSET Servers,
               removed : SUBSET Clients]

\* Types, and that a channel holds no more than it has places.
TypeOK ==
    /\ status \in [Keys -> Servers \cup {Nowhere}] /\ listed \subseteq Servers
    /\ events \in [Users -> Seq(EventType)]
    /\ next \in [Users -> Nat \ {0}] /\ committed \in [Users -> Nat]
    /\ left \in [Users -> SUBSET Pushes]
    /\ putting \in [Users -> SUBSET PutType]
    /\ made \in 0 .. MaxClients
    /\ sessionServers \in [Servers -> 0 .. MaxClients]
    /\ sessionChan \in [Clients -> [Routines -> Seq(Pushes)]]
    /\ \A c \in Clients, i \in Routines : Len(sessionChan[c][i]) <= ChanSize
    /\ calling \in [Clients -> [Routines -> SUBSET Pushes]]
    /\ turn \in [Clients -> 0 .. RoutineSize - 1]
    /\ unavailable \subseteq Clients /\ cancelled \subseteq Clients
    /\ ended \subseteq Clients \X Routines
    /\ due \subseteq Watchers /\ update \in [Watchers -> UpdateType]
    /\ moves \in Nat /\ faults \in Nat
    /\ accepted \in [Clients -> SUBSET Pushes]
    /\ arrivals \in [Pushes -> Nat]
    /\ handled \in [Users -> Seq(Nat)]
    /\ refused \subseteq Pushes
    /\ outdated \in BOOLEAN

InChannels(c, p) ==
    \E i \in Routines :
        p \in Range(sessionChan[c][i]) \/ p \in calling[c][i]

\* Between two restarts of sync, a push that a client has accepted reaches the
\* server, is on its way, was refused, or is lost with its client: after a
\* connection error, or because the server left and five seconds were not
\* enough.  Nothing else loses one, in particular not a full channel or the
\* other goroutines.  What the channels hold when sync ends is gone, also if
\* its events are committed: Restart forgets what was accepted.
LostOnlyWithClient ==
    \A c \in Clients : \A p \in accepted[c] :
        \/ arrivals[p] > 0 \/ InChannels(c, p) \/ p \in refused
        \/ c \in unavailable \/ c \in cancelled

\* A server executes a push at most as often as the event was handled, although
\* calls time out whose answer is only late: sync never tries again by itself,
\* only Kafka does.
AtMostOncePerHandling ==
    \A p \in Pushes :
        arrivals[p] <= IF p.nr \in DOMAIN handled[p.user]
                         THEN handled[p.user][p.nr] ELSE 0

\* When watch has done what is wanted of it there is a client for each listed
\* server and for no other, unless the last update() could make no client or
\* the first one came behind the listener's; an empty list counts for nothing.
FollowsList ==
    (due = {} /\ (\A w \in Watchers : update[w].pc # "read")
        /\ listed # {} /\ ~outdated)
    => Known = listed

\* A handler that waits at a channel whose goroutines are to end.
Stuck(u) == \E q \in putting[u] : q.client \in cancelled

\* The events of a user are all handled in the end, whatever the servers do,
\* unless the handler waits at a full channel of a client that was closed after
\* the handler looked it up: the goroutine may be gone for good.
ConsumerGoesOn ==
    \A u \in Users :
        \/ []<>(~Handling(u) /\ next[u] > Len(events[u]))
        \/ <>[]Stuck(u)

Drained(c) ==
    \A i \in Routines : sessionChan[c][i] = << >> /\ calling[c][i] = {}

\* The channels of a client that is not closed drain, whichever calls fail.
QueuesDrain == \A c \in Clients : []<>(Drained(c) \/ c \in cancelled)
=============================================================================
