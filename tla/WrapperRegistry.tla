--------------------------- MODULE WrapperRegistry ---------------------------
(***************************************************************************)
(* The life of the MainAuthWrappers of one permanent auth key on the       *)
(* session servers, and the online status they keep for its user.          *)
(*                                                                         *)
(* On each server a MainAuthWrapperManager maps the key to its wrapper.    *)
(* gRPC handlers look the wrapper up, or allocate it, and put events into  *)
(* its sessionDataChan.  The wrapper's runLoop handles the events, the     *)
(* results of rpcRunLoop and a ticker; a wrapper ends when it stops itself *)
(* (all sessions closed, key logged out) or when its manager stops it (the *)
(* key moved to another server, the server is drained).  While its updates *)
(* session is online a wrapper keeps an entry in the status service.       *)
(*                                                                         *)
(* All these run concurrently: an action is what one of them does between  *)
(* two points at which another can be seen.  The user stays the same and   *)
(* the client is not an Android client (androidPushSession is nil); what   *)
(* the sessions do with their messages is the subject of module Session.   *)
(***************************************************************************)
EXTENDS Integers, Sequences, FiniteSets

CONSTANTS
    Servers,       \* session servers
    Rank,          \* the key's owner is the member of lowest rank
    Wrappers,      \* bound: the wrappers that can be allocated
    Sessions,      \* session ids of the client
    Gateways,      \* gateway servers
    Inputs,        \* what calls may bring, a subset of AllInputs
    None,
    ChanCap,       \* capacity of sessionDataChan, 4096 in the code
    RpcCap,        \* capacity of rpcDataChan, 4096 in the code
    RenewAge,      \* age at which setOnline writes again: 45 s
    ExpireAge,     \* age at which the status entry expires: 90 s
    MaxInputs,     \* bound: calls of gateways and of sync
    MaxCalls,      \* bound: calls in progress
    MaxRing,       \* bound: changes of the set of servers
    MaxEnds,       \* bound: servers that are drained or crash
    MaxLost        \* bound: calls of the status service that fail

\* What a packet asks for.
Requests == { "none",      \* nothing that matters here
              "main",      \* updates.getState, getDifference, account.updateStatus
              "rpc",       \* another RPC request
              "logout",    \* auth.logOut
              "destroy" }  \* destroy_session for every other session

\* Besides packets: a packet with ConnType 1, a connection without a packet, a
\* push, the push that resets the authorization, the end of a connection.
AllInputs == Requests \cup { "new", "create", "sync", "reset", "closed" }

ASSUME ConstantsAssumption ==
    /\ Rank \in [Servers -> Nat]
    /\ \A s, t \in Servers : Rank[s] = Rank[t] => s = t
    /\ Inputs \subseteq AllInputs
    /\ None \notin Servers \cup Wrappers \cup Sessions \cup Gateways \cup Nat
    /\ None \notin [by : Wrappers, age : Nat]
    /\ ChanCap \in Nat \ {0} /\ RpcCap \in Nat \ {0}
    /\ RenewAge \in Nat \ {0} /\ ExpireAge \in Nat /\ RenewAge < ExpireAge
    /\ MaxInputs \in Nat /\ MaxCalls \in Nat /\ MaxRing \in Nat
    /\ MaxEnds \in Nat /\ MaxLost \in Nat

VARIABLES
    authMgr,          \* per server: the registered wrapper, or None
    phase,            \* per server: its process, and how far Drain is
    sharding,         \* per server: how far OnShardingCB is
    draining,         \* per server: the wrapper that Drain waits for
    members,          \* the servers known to etcd
    shardingList,     \* per server: the members it knows of
    home,             \* per wrapper: its server
    running,          \* per wrapper: the flag Stop clears
    pc,               \* per wrapper: where runLoop is
    rpcPc,            \* per wrapper: where rpcRunLoop is
    sessionDataChan, rpcQueue, rpcDataChan,
    ticker,           \* per wrapper: a tick is ready
    connState,        \* per wrapper and session
    gatewayId,        \* per wrapper and session
    isGeneric,        \* per wrapper: its sessions with isGeneric set
    mainUpdatesSession,  \* per wrapper: the id of that session, or None
    destroyed,        \* connState of that session once it was destroyed
    onlineAge,        \* per wrapper: time since setOnline wrote, None if offline
    status,           \* the status service's entry for the key
    calls,            \* gRPC calls in progress
    inputs, changes, ends, lost,  \* how much of each bound is used
    \* History; no action reads it.
    killed,           \* wrappers that ended with their process
    displaced,        \* servers where a wrapper deleted another one's entry
    unnoticed         \* an event was dropped and its caller told otherwise

registry == << authMgr, phase, sharding, draining >>
ring     == << members, shardingList >>
loop     == << home, running, pc >>
chans    == << sessionDataChan, rpcQueue, rpcDataChan >>
sess     == << connState, gatewayId, isGeneric, mainUpdatesSession, destroyed >>
online   == << onlineAge, status, lost >>
used     == << inputs, changes, ends >>
hist     == << killed, displaced, unnoticed >>
vars     == << registry, ring, loop, rpcPc, chans, ticker, sess, online, calls,
               used, hist >>

ConnStates == { "absent", "online", "offline", "close" }

Events == [kind : {"new", "data", "closed", "sync", "reset"},
           sess : Sessions, gw : Gateways, req : Requests]

\* The key's place in the consistent hash of the servers S.
Owner(S) == CHOOSE s \in S : \A t \in S : Rank[s] <= Rank[t]

\* Nobody holds the manager's mutex across a step.
MuFree(s) == sharding[s] # "locked" /\ phase[s] # "drain"

Alive(w) == pc[w] \in { "top", "select", "delete", "stop" }

MainOnline(w) ==
    /\ mainUpdatesSession[w] # None
    /\ IF destroyed[w] # "no" THEN destroyed[w] = "online"
                              ELSE connState[w][mainUpdatesSession[w]] = "online"

-----------------------------------------------------------------------------
(* The online status.  A failed call of the status service is ignored.      *)

\* A mutant: what is online is not written again.
SetOnlineDueOnce(w) == onlineAge[w] = None

SetOnlineDue(w) == onlineAge[w] = None \/ onlineAge[w] >= RenewAge

setOnline(w) ==
    IF SetOnlineDue(w)
    THEN /\ onlineAge' = [onlineAge EXCEPT ![w] = 0]
         /\ \/ status' = [by |-> w, age |-> 0] /\ UNCHANGED lost
            \/ lost < MaxLost /\ lost' = lost + 1 /\ UNCHANGED status
    ELSE UNCHANGED online

\* StatusSetSessionOffline deletes the entry of the key, whoever wrote it.
StatusSetSessionOffline ==
    \/ status' = None /\ UNCHANGED lost
    \/ lost < MaxLost /\ lost' = lost + 1 /\ UNCHANGED status

delOnline(w) ==
    /\ StatusSetSessionOffline
    /\ onlineAge' = [onlineAge EXCEPT ![w] = None]

\* trySetOffline, once connState and destroyed have their new values.
trySetOffline(w) ==
    IF MainOnline(w)' THEN UNCHANGED online ELSE delOnline(w)

-----------------------------------------------------------------------------
(* The manager's operations on the key, and the gRPC handlers.              *)

NewWrapper(w, s) ==
    /\ home' = [home EXCEPT ![w] = s]
    /\ running' = [running EXCEPT ![w] = TRUE]
    /\ pc' = [pc EXCEPT ![w] = "top"]
    /\ rpcPc' = [rpcPc EXCEPT ![w] = "idle"]

\* A mutant: the registry is not looked at again under the mutex.
AllocWithoutCheck(w, s) ==
    /\ NewWrapper(w, s)
    /\ authMgr' = [authMgr EXCEPT ![s] = w]

\* AllocMainAuthWrapper when no wrapper is registered.
AllocNew(w, s) ==
    /\ authMgr[s] = None
    /\ NewWrapper(w, s)
    /\ authMgr' = [authMgr EXCEPT ![s] = w]

\* DeleteByAuthKeyId, called by w.
DeleteByAuthKeyId(w) ==
    /\ authMgr' = [authMgr EXCEPT ![home[w]] = None]
    /\ displaced' = IF authMgr[home[w]] \in {w, None} THEN displaced
                    ELSE displaced \cup {home[w]}

Event(k, x, g, r) == [kind |-> k, sess |-> x, gw |-> g, req |-> r]

\* What a call puts into the channel.  ConnType 1 means that the packet is the
\* first of its connection.
EventsOf(i, x, g) ==
    CASE i = "new" -> << Event("new", x, g, "none"), Event("data", x, g, "none") >>
      [] i = "create" -> << Event("new", x, g, "none") >>
      [] i \in Requests -> << Event("data", x, g, i) >>
      [] OTHER -> << Event(i, x, g, "none") >>

Handler(id, s, op, target, events) ==
    [id |-> id, server |-> s, op |-> op, target |-> target, events |-> events]

\* The handler c once it knows its wrapper, or has put its first event.
WithTarget(c, w) == Handler(c.id, c.server, c.op, w, c.events)
WithoutFirst(c) == Handler(c.id, c.server, c.op, c.target, Tail(c.events))

Serving(s) == phase[s] \in { "up", "drain", "stop", "wait" }

\* A handler starts with GetMainAuthWrapper.
Call(s, op, events) ==
    /\ Serving(s) /\ MuFree(s)
    /\ inputs < MaxInputs /\ Cardinality(calls) < MaxCalls
    /\ inputs' = inputs + 1
    /\ calls' = calls \cup { Handler(inputs + 1, s, op, authMgr[s], events) }
    /\ UNCHANGED << registry, ring, loop, rpcPc, chans, ticker, sess, online,
                    changes, ends, lost, hist >>

SessionSendDataToSession(s) ==
    \E i \in Inputs \ {"closed"}, x \in Sessions, g \in Gateways :
        Call(s, "send", EventsOf(i, x, g))

\* A close for a key without a wrapper is answered at once.
SessionCloseSession(s) ==
    /\ authMgr[s] # None /\ "closed" \in Inputs
    /\ \E x \in Sessions, g \in Gateways :
            Call(s, "close", EventsOf("closed", x, g))

\* Between Get and Alloc the handler fetches the key's state, which may fail.
AllocMainAuthWrapper(c) ==
    /\ c.target = None /\ MuFree(c.server)
    /\ \/ /\ authMgr[c.server] # None
          /\ calls' = (calls \ {c}) \cup { WithTarget(c, authMgr[c.server]) }
          /\ UNCHANGED << authMgr, loop, rpcPc >>
       \/ \E w \in Wrappers :
            /\ pc[w] = "free"
            /\ AllocNew(w, c.server)
            /\ calls' = (calls \ {c}) \cup { WithTarget(c, w) }
    /\ UNCHANGED << phase, sharding, draining, ring, chans, ticker, sess, online,
                    used, hist >>

FetchFails(c) ==
    /\ c.target = None
    /\ calls' = calls \ {c}
    /\ UNCHANGED << registry, ring, loop, rpcPc, chans, ticker, sess, online,
                    used, hist >>

\* A mutant: the channel takes whatever comes.
NeverFull(w) == FALSE

Full(w) == Len(sessionDataChan[w]) >= ChanCap

\* An event is put into the channel, or dropped when the channel is full;
\* only closeSession tells its caller.
Enqueue(c) ==
    LET full == Full(c.target)
    IN  /\ c.target # None
        /\ sessionDataChan' = IF full THEN sessionDataChan
                              ELSE [sessionDataChan EXCEPT
                                      ![c.target] = Append(@, Head(c.events))]
        /\ calls' = (calls \ {c}) \cup
                      IF Len(c.events) = 1 THEN {}
                      ELSE { WithoutFirst(c) }
        /\ unnoticed' = (unnoticed \/ (full /\ c.op # "close"))
        /\ UNCHANGED << registry, ring, loop, rpcPc, rpcQueue, rpcDataChan, ticker,
                        sess, online, used, killed, displaced >>

-----------------------------------------------------------------------------
(* runLoop.  It looks at running before each select, so that a wrapper that *)
(* is stopped inside select handles one event more.                         *)

\* After a handler: into changeAuthState's DeleteByAuthKeyId and Stop, which
\* onTimer calls as well, or to the loop's condition.  A Stop that comes
\* between the two is the same as one that comes before the handler.
Continue(w, stops) ==
    pc' = [pc EXCEPT ![w] = IF stops THEN "delete"
                            ELSE IF running[w] THEN "select" ELSE "top"]

\* The first look at running.
EnterSelect(w) ==
    /\ pc[w] = "top" /\ running[w]
    /\ pc' = [pc EXCEPT ![w] = "select"]
    /\ UNCHANGED << registry, ring, home, running, rpcPc, chans, ticker, sess,
                    online, calls, used, hist >>

\* onSessionConnNew and what the packet asks for.
Absorb(w, e) ==
    LET x == e.sess
        back == connState[w][x] # "online" /\ x \in isGeneric[w]
        gone == IF e.req = "destroy" THEN Sessions \ {x} ELSE {}
        replaced == e.req = "main" /\ mainUpdatesSession[w] # x
    IN  /\ connState' = [connState EXCEPT ![w] =
                [y \in Sessions |-> IF y = x THEN "online"
                                    ELSE IF y \in gone THEN "absent" ELSE @[y]]]
        /\ gatewayId' = [gatewayId EXCEPT ![w] =
                [y \in Sessions |-> IF y = x THEN e.gw
                                    ELSE IF y \in gone THEN None ELSE @[y]]]
        /\ isGeneric' = [isGeneric EXCEPT ![w] =
                (@ \cup IF e.req = "main" THEN {x} ELSE {}) \ gone]
        \* A destroyed session stays the updates session; one that is made
        \* anew under the same id does not take its place.
        /\ mainUpdatesSession' = IF replaced
                                 THEN [mainUpdatesSession EXCEPT ![w] = x]
                                 ELSE mainUpdatesSession
        /\ destroyed' = [destroyed EXCEPT ![w] =
                IF replaced THEN "no"
                ELSE IF @ = "no" /\ mainUpdatesSession[w] \in gone
                        /\ connState[w][mainUpdatesSession[w]] # "absent"
                     THEN connState[w][mainUpdatesSession[w]] ELSE @]
        /\ IF back \/ e.req = "main" THEN setOnline(w) ELSE UNCHANGED online

OnSessionData(w, e) ==
    /\ e.kind \in {"new", "data"}
    /\ Absorb(w, e)
    /\ rpcQueue' = IF e.req \in {"main", "rpc", "logout"}
                   THEN [rpcQueue EXCEPT ![w] =
                            Append(@, [sess |-> e.sess, req |-> e.req])]
                   ELSE rpcQueue
    /\ Continue(w, FALSE)

\* onSessionConnClose; a close through another gateway is not for this session.
OnSessionClosed(w, e) ==
    /\ e.kind = "closed"
    /\ IF gatewayId[w][e.sess] = e.gw
       THEN /\ gatewayId' = [gatewayId EXCEPT ![w][e.sess] = None]
            /\ connState' = [connState EXCEPT ![w][e.sess] = "offline"]
            /\ UNCHANGED << isGeneric, mainUpdatesSession, destroyed >>
            /\ IF e.sess \in isGeneric[w] THEN trySetOffline(w) ELSE UNCHANGED online
       ELSE UNCHANGED << sess, online >>
    /\ UNCHANGED rpcQueue
    /\ Continue(w, FALSE)

\* A push changes nothing here, unless it resets the authorization.
OnSyncData(w, e) ==
    /\ e.kind \in {"sync", "reset"}
    /\ UNCHANGED << sess, online, rpcQueue >>
    /\ Continue(w, e.kind = "reset")

TakeEvent(w) ==
    /\ pc[w] = "select" /\ sessionDataChan[w] # << >>
    /\ LET e == Head(sessionDataChan[w])
       IN  OnSessionData(w, e) \/ OnSessionClosed(w, e) \/ OnSyncData(w, e)
    /\ sessionDataChan' = [sessionDataChan EXCEPT ![w] = Tail(@)]
    /\ UNCHANGED << registry, ring, home, running, rpcPc, rpcDataChan, ticker,
                    calls, used, hist >>

\* The result of auth.logOut, whatever it is, ends the wrapper, unless its
\* session was destroyed meanwhile.
TakeResult(w) ==
    /\ pc[w] = "select" /\ rpcDataChan[w] # << >>
    /\ LET r == Head(rpcDataChan[w])
       IN  Continue(w, r.req = "logout" /\ connState[w][r.sess] # "absent")
    /\ rpcDataChan' = [rpcDataChan EXCEPT ![w] = Tail(@)]
    /\ UNCHANGED << registry, ring, home, running, rpcPc, sessionDataChan, rpcQueue,
                    ticker, sess, online, calls, used, hist >>

\* onTimer of the sessions: those in quiet are past their closeDate.
QuietSessions(w, quiet) ==
    /\ connState' = [connState EXCEPT ![w] =
            [x \in Sessions |->
                IF x \notin quiet THEN @[x]
                ELSE IF @[x] = "online" THEN "offline" ELSE "close"]]
    /\ UNCHANGED << gatewayId, isGeneric, mainUpdatesSession, destroyed >>

\* A mutant: the status is not renewed while the updates session is online.
StatusNotRenewed(w, leaving) ==
    IF leaving # {} THEN trySetOffline(w) ELSE UNCHANGED online

\* The calls of trySetOffline by the generic sessions that go offline, and
\* the renewal after them.
StatusAtTick(w, leaving) ==
    IF MainOnline(w)' THEN setOnline(w)
    ELSE IF leaving # {} THEN delOnline(w) ELSE UNCHANGED online

OnTimer(w) ==
    /\ pc[w] = "select" /\ ticker[w]
    /\ ticker' = [ticker EXCEPT ![w] = FALSE]
    /\ \E quiet \in SUBSET { x \in Sessions :
                                connState[w][x] \in {"online", "offline"} } :
          /\ QuietSessions(w, quiet)
          /\ StatusAtTick(w, { x \in quiet \cap isGeneric[w] :
                                  connState[w][x] = "online" })
    /\ Continue(w, \A x \in Sessions : connState'[w][x] \in {"absent", "close"})
    /\ UNCHANGED << registry, ring, home, running, rpcPc, chans, calls, used, hist >>

DeleteSelf(w) ==
    /\ pc[w] = "delete" /\ MuFree(home[w])
    /\ DeleteByAuthKeyId(w)
    /\ pc' = [pc EXCEPT ![w] = "stop"]
    /\ UNCHANGED << phase, sharding, draining, ring, home, running, rpcPc, chans,
                    ticker, sess, online, calls, used, killed, unnoticed >>

StopSelf(w) ==
    /\ pc[w] = "stop"
    /\ running' = [running EXCEPT ![w] = FALSE]
    /\ pc' = [pc EXCEPT ![w] = "top"]
    /\ UNCHANGED << registry, ring, home, rpcPc, chans, ticker, sess, online,
                    calls, used, hist >>

\* A mutant: the entry is left to expire.
LeaveEntry(w) == UNCHANGED online

\* delOnline in the deferred function of runLoop.
EntryAtExit(w) == IF MainOnline(w) THEN delOnline(w) ELSE UNCHANGED online

\* The deferred function closes rpcQueue and waits for rpcRunLoop.
ExitLoop(w) ==
    /\ pc[w] = "top" /\ ~running[w]
    /\ EntryAtExit(w)
    /\ pc' = [pc EXCEPT ![w] = "closing"]
    /\ UNCHANGED << registry, ring, home, running, rpcPc, chans, ticker, sess,
                    calls, used, hist >>

Finish(w) ==
    /\ pc[w] = "closing" /\ rpcPc[w] = "gone"
    /\ pc' = [pc EXCEPT ![w] = "gone"]
    /\ UNCHANGED << registry, ring, home, running, rpcPc, chans, ticker, sess,
                    online, calls, used, hist >>

(* rpcRunLoop *)

\* A request is executed and its result waits for room in rpcDataChan.
RpcExecute(w) ==
    /\ rpcPc[w] = "idle" /\ rpcQueue[w] # << >>
    /\ Len(rpcDataChan[w]) < RpcCap
    /\ rpcDataChan' = [rpcDataChan EXCEPT ![w] = Append(@, Head(rpcQueue[w]))]
    /\ rpcQueue' = [rpcQueue EXCEPT ![w] = Tail(@)]
    /\ UNCHANGED << registry, ring, loop, rpcPc, sessionDataChan, ticker, sess,
                    online, calls, used, hist >>

\* A mutant: the queue is closed only after runLoop has waited.
RpcQueueClosedLate(w) == pc[w] = "gone"

RpcQueueClosed(w) == pc[w] \in {"closing", "gone"}

\* Pop returns nil once the queue is closed and empty.
RpcExit(w) ==
    /\ rpcPc[w] = "idle" /\ rpcQueue[w] = << >> /\ RpcQueueClosed(w)
    /\ rpcPc' = [rpcPc EXCEPT ![w] = "gone"]
    /\ UNCHANGED << registry, ring, loop, chans, ticker, sess, online, calls,
                    used, hist >>

-----------------------------------------------------------------------------
(* The set of servers, and OnShardingCB.                                    *)

\* A server registers with etcd, after a restart with an empty registry.
Join(s) ==
    /\ s \notin members /\ phase[s] \in {"up", "down", "drained"}
    /\ changes < MaxRing
    /\ changes' = changes + 1
    /\ members' = members \cup {s}
    /\ phase' = [phase EXCEPT ![s] = "up"]
    /\ shardingList' = IF phase[s] = "up" THEN shardingList
                       ELSE [shardingList EXCEPT ![s] = members']
    /\ UNCHANGED << authMgr, sharding, draining, loop, rpcPc, chans, ticker, sess,
                    online, calls, inputs, ends, hist >>

\* Its lease expires, whether it has ended or not.
Leave(s) ==
    /\ s \in members /\ changes < MaxRing
    /\ changes' = changes + 1
    /\ members' = members \ {s}
    /\ UNCHANGED << registry, shardingList, loop, rpcPc, chans, ticker, sess,
                    online, calls, inputs, ends, hist >>

\* The listener of RpcShardingManager.Start; it calls back only if a server
\* was removed.
Update(s) ==
    /\ Serving(s) /\ sharding[s] = "idle" /\ shardingList[s] # members
    /\ shardingList' = [shardingList EXCEPT ![s] = members]
    /\ sharding' = IF shardingList[s] \ members = {} THEN sharding
                   ELSE [sharding EXCEPT ![s] = "called"]
    /\ UNCHANGED << authMgr, phase, draining, members, loop, rpcPc, chans, ticker,
                    sess, online, calls, used, hist >>

ShardingVIsListenOn(s) ==
    shardingList[s] # {} /\ Owner(shardingList[s]) = s

\* OnShardingCB takes the mutex, then sets the status offline ...
OnShardingCB(s) ==
    /\ sharding[s] = "called" /\ phase[s] # "drain"
    /\ IF authMgr[s] # None /\ ~ShardingVIsListenOn(s)
       THEN /\ StatusSetSessionOffline
            /\ sharding' = [sharding EXCEPT ![s] = "locked"]
       ELSE /\ UNCHANGED << status, lost >>
            /\ sharding' = [sharding EXCEPT ![s] = "idle"]
    /\ UNCHANGED << authMgr, phase, draining, ring, loop, rpcPc, chans, ticker,
                    sess, onlineAge, calls, used, hist >>

\* A mutant: the entry of the registry is left to the wrapper.
EvictOnlyStops(s) ==
    /\ sharding[s] = "locked"
    /\ sharding' = [sharding EXCEPT ![s] = "idle"]
    /\ running' = [running EXCEPT ![authMgr[s]] = FALSE]
    /\ UNCHANGED << authMgr, phase, draining, ring, home, pc, rpcPc, chans, ticker,
                    sess, online, calls, used, hist >>

\* ... deletes the entry of the registry and stops the wrapper.
Evict(s) ==
    /\ sharding[s] = "locked"
    /\ sharding' = [sharding EXCEPT ![s] = "idle"]
    /\ authMgr' = [authMgr EXCEPT ![s] = None]
    /\ running' = [running EXCEPT ![authMgr[s]] = FALSE]
    /\ UNCHANGED << phase, draining, ring, home, pc, rpcPc, chans, ticker, sess,
                    online, calls, used, hist >>

-----------------------------------------------------------------------------
(* Server.Destroy drains the wrappers, then stops the gRPC server.          *)

DrainLock(s) ==
    /\ phase[s] = "up" /\ MuFree(s) /\ ends < MaxEnds
    /\ ends' = ends + 1
    /\ phase' = [phase EXCEPT ![s] = "drain"]
    /\ draining' = [draining EXCEPT ![s] = authMgr[s]]
    /\ IF authMgr[s] # None THEN StatusSetSessionOffline
                            ELSE UNCHANGED << status, lost >>
    /\ UNCHANGED << authMgr, sharding, ring, loop, rpcPc, chans, ticker, sess,
                    onlineAge, calls, inputs, changes, hist >>

\* A mutant: the drained wrappers stay registered.
DrainUnlockKept(s) ==
    /\ phase[s] = "drain"
    /\ phase' = [phase EXCEPT ![s] = "stop"]
    /\ UNCHANGED << authMgr, sharding, draining, ring, loop, rpcPc, chans, ticker,
                    sess, online, calls, used, hist >>

DrainUnlock(s) ==
    /\ phase[s] = "drain"
    /\ phase' = [phase EXCEPT ![s] = "stop"]
    /\ authMgr' = [authMgr EXCEPT ![s] = None]
    /\ UNCHANGED << sharding, draining, ring, loop, rpcPc, chans, ticker, sess,
                    online, calls, used, hist >>

DrainStop(s) ==
    /\ phase[s] = "stop"
    /\ phase' = [phase EXCEPT ![s] = "wait"]
    /\ running' = IF draining[s] = None THEN running
                  ELSE [running EXCEPT ![draining[s]] = FALSE]
    /\ UNCHANGED << authMgr, sharding, draining, ring, home, pc, rpcPc, chans,
                    ticker, sess, online, calls, used, hist >>

\* A process ends, with its wrappers wherever they are.
EndProcess(s, p) ==
    LET ws == { w \in Wrappers : home[w] = s /\ pc[w] # "gone" }
    IN  /\ phase' = [phase EXCEPT ![s] = p]
        /\ authMgr' = [authMgr EXCEPT ![s] = None]
        /\ sharding' = [sharding EXCEPT ![s] = "idle"]
        /\ draining' = [draining EXCEPT ![s] = None]
        /\ pc' = [w \in Wrappers |-> IF w \in ws THEN "gone" ELSE pc[w]]
        /\ rpcPc' = [w \in Wrappers |-> IF w \in ws THEN "gone" ELSE rpcPc[w]]
        /\ calls' = { c \in calls : c.server # s }
        /\ killed' = killed \cup ws
        /\ UNCHANGED << ring, home, running, chans, ticker, sess, online, inputs,
                        changes, displaced, unnoticed >>

\* Drain waits for both loops, but no longer than its time-out.
DrainDone(s) ==
    /\ phase[s] = "wait"
    /\ draining[s] # None => pc[draining[s]] = "gone"
    /\ EndProcess(s, "drained")
    /\ UNCHANGED ends

DrainTimeout(s) ==
    /\ phase[s] = "wait" /\ draining[s] # None /\ pc[draining[s]] # "gone"
    /\ EndProcess(s, "down")
    /\ UNCHANGED ends

Crash(s) ==
    /\ Serving(s) /\ ends < MaxEnds
    /\ ends' = ends + 1
    /\ EndProcess(s, "down")

-----------------------------------------------------------------------------
(* Time passes in units of 15 s; in each of them every ticker fires.  The    *)
(* entry expires by the TTL of its user's hash, which has no other device.  *)

TimePasses ==
    /\ \A w \in Wrappers : Alive(w) => ~ticker[w]
    /\ ticker' = [w \in Wrappers |-> Alive(w)]
    /\ onlineAge' = [w \in Wrappers |->
            IF onlineAge[w] = None \/ onlineAge[w] = RenewAge THEN onlineAge[w]
            ELSE onlineAge[w] + 1]
    /\ status' = IF status = None \/ status.age + 1 >= ExpireAge THEN None
                 ELSE [status EXCEPT !.age = @ + 1]
    /\ UNCHANGED << registry, ring, loop, rpcPc, chans, sess, lost, calls, used, hist >>

Init ==
    /\ authMgr = [s \in Servers |-> None]
    /\ phase = [s \in Servers |-> "up"]
    /\ sharding = [s \in Servers |-> "idle"]
    /\ draining = [s \in Servers |-> None]
    /\ members = Servers
    /\ shardingList = [s \in Servers |-> Servers]
    /\ home = [w \in Wrappers |-> None]
    /\ running = [w \in Wrappers |-> FALSE]
    /\ pc = [w \in Wrappers |-> "free"]
    /\ rpcPc = [w \in Wrappers |-> "none"]
    /\ sessionDataChan = [w \in Wrappers |-> << >>]
    /\ rpcQueue = [w \in Wrappers |-> << >>]
    /\ rpcDataChan = [w \in Wrappers |-> << >>]
    /\ ticker = [w \in Wrappers |-> FALSE]
    /\ connState = [w \in Wrappers |-> [x \in Sessions |-> "absent"]]
    /\ gatewayId = [w \in Wrappers |-> [x \in Sessions |-> None]]
    /\ isGeneric = [w \in Wrappers |-> {}]
    /\ mainUpdatesSession = [w \in Wrappers |-> None]
    /\ destroyed = [w \in Wrappers |-> "no"]
    /\ onlineAge = [w \in Wrappers |-> None]
    /\ status = None
    /\ calls = {}
    /\ inputs = 0 /\ changes = 0 /\ ends = 0 /\ lost = 0
    /\ killed = {} /\ displaced = {} /\ unnoticed = FALSE

RunLoop(w) ==
    \/ EnterSelect(w) \/ TakeEvent(w) \/ TakeResult(w) \/ OnTimer(w)
    \/ DeleteSelf(w) \/ StopSelf(w) \/ ExitLoop(w) \/ Finish(w)

RpcRunLoop(w) == RpcExecute(w) \/ RpcExit(w)

Drain(s) == DrainLock(s) \/ DrainUnlock(s) \/ DrainStop(s) \/ DrainDone(s)
            \/ DrainTimeout(s)

Next ==
    \/ \E s \in Servers :
          \/ SessionSendDataToSession(s) \/ SessionCloseSession(s)
          \/ Join(s) \/ Leave(s) \/ Update(s) \/ OnShardingCB(s) \/ Evict(s)
          \/ Drain(s) \/ Crash(s)
    \/ \E c \in calls : AllocMainAuthWrapper(c) \/ FetchFails(c) \/ Enqueue(c)
    \/ \E w \in Wrappers : RunLoop(w) \/ RpcRunLoop(w)
    \/ TimePasses

Spec == Init /\ [][Next]_vars

\* Goroutines run, calls return, and time passes.  Events are bounded, so that
\* they cannot keep runLoop from its ticker.
LiveSpec ==
    /\ Spec
    /\ WF_vars(TimePasses)
    /\ \A w \in Wrappers : WF_vars(RunLoop(w)) /\ WF_vars(RpcRunLoop(w))
    /\ \A s \in Servers : WF_vars(Evict(s)) /\ WF_vars(DrainUnlock(s))

-----------------------------------------------------------------------------
(* Properties                                                               *)

\* The types of the registry and of the wrappers' control.
ControlTypes ==
    /\ authMgr \in [Servers -> Wrappers \cup {None}]
    /\ phase \in [Servers -> {"up", "drain", "stop", "wait", "drained", "down"}]
    /\ sharding \in [Servers -> {"idle", "called", "locked"}]
    /\ draining \in [Servers -> Wrappers \cup {None}]
    /\ home \in [Wrappers -> Servers \cup {None}]
    /\ running \in [Wrappers -> BOOLEAN]
    /\ pc \in [Wrappers -> {"free", "top", "select", "delete", "stop", "closing",
                             "gone"}]
    /\ \A c \in calls : c.server \in Servers

\* The types of the variables; sessionDataChan keeps within its capacity
\* (main_auth_wrapper.go:139).
TypeOK ==
    /\ ControlTypes
    /\ members \subseteq Servers /\ shardingList \in [Servers -> SUBSET Servers]
    /\ rpcPc \in [Wrappers -> {"none", "idle", "gone"}]
    /\ \A w \in Wrappers :
          /\ sessionDataChan[w] \in Seq(Events) /\ Len(sessionDataChan[w]) <= ChanCap
          /\ rpcQueue[w] \in Seq([sess : Sessions, req : Requests])
          /\ rpcDataChan[w] \in Seq([sess : Sessions, req : Requests])
    /\ ticker \in [Wrappers -> BOOLEAN]
    /\ connState \in [Wrappers -> [Sessions -> ConnStates]]
    /\ gatewayId \in [Wrappers -> [Sessions -> Gateways \cup {None}]]
    /\ isGeneric \in [Wrappers -> SUBSET Sessions]
    /\ mainUpdatesSession \in [Wrappers -> Sessions \cup {None}]
    /\ destroyed \in [Wrappers -> (ConnStates \ {"absent"}) \cup {"no"}]
    /\ onlineAge \in [Wrappers -> (0 .. RenewAge) \cup {None}]
    /\ status = None \/ status \in [by : Wrappers, age : 0 .. ExpireAge]
    /\ \A c \in calls : c.target \in Wrappers \cup {None} /\ c.events \in Seq(Events)
    /\ inputs \in 0 .. MaxInputs /\ changes \in 0 .. MaxRing
    /\ ends \in 0 .. MaxEnds /\ lost \in 0 .. MaxLost
    /\ killed \subseteq Wrappers /\ displaced \subseteq Servers
    /\ unnoticed \in BOOLEAN

\* The registry hands out no wrapper that is stopping or of another server:
\* whoever ends a wrapper deletes its entry first (OnShardingCB, Drain,
\* changeAuthState, onTimer), and nothing puts it back.
RegisteredRuns ==
    \A s \in Servers : authMgr[s] # None =>
        /\ home[authMgr[s]] = s
        /\ running[authMgr[s]]
        /\ pc[authMgr[s]] \in {"top", "select", "delete"}

\* Whoever stops a wrapper under the mutex knows which one is registered:
\* Drain's list is the registry while it holds the mutex
\* (main_auth_wrapper_manager.go:93-107), and what it lists is never
\* registered again.
DrainList(s) ==
    /\ ~(sharding[s] = "locked" /\ phase[s] = "drain")
    /\ phase[s] = "drain" => draining[s] = authMgr[s]
    /\ phase[s] \in {"stop", "wait"} /\ draining[s] # None =>
          \A t \in Servers : authMgr[t] # draining[s]
    /\ draining[s] # None => pc[draining[s]] # "free"

\* The invariant of the proofs.
RegistryInv ==
    /\ ControlTypes
    /\ RegisteredRuns
    /\ \A s \in Servers : DrainList(s)

\* Wrappers that go on serving the key.
ServingWrappers(s) ==
    { w \in Wrappers : home[w] = s /\ running[w] /\ pc[w] \in {"top", "select"} }

\* A server has one wrapper for the key at a time, however calls race with its
\* end: only DeleteByAuthKeyId of a wrapper that was replaced before
\* (main_auth_wrapper_manager.go:46) and Drain leave one behind that serves
\* although it is not registered.
OneServing ==
    \A s \in Servers : Cardinality(ServingWrappers(s)) <= 1
                       \/ s \in displaced \/ phase[s] # "up"

\* A wrapper that has ended by itself leaves no entry in the status service
\* unless the exit of runLoop looked at the wrong session: another one than
\* the updates session was generic and wrote the entry, or the updates session
\* was destroyed and made anew.
NoGhost ==
    status # None /\ pc[status.by] \in {"closing", "gone"} =>
        \/ status.by \in killed
        \/ isGeneric[status.by] # {mainUpdatesSession[status.by]}
        \/ destroyed[status.by] # "no"
        \/ lost > 0

\* Renewal at 45 s is early enough for the expiry at 90 s: an entry expires
\* only if its wrapper ends or its process does, its updates session is
\* offline, or a call of the status service failed.
NeverLapses ==
    [][TimePasses /\ status # None /\ status' = None =>
          \/ ~running[status.by]
          \/ status.by \in killed
          \/ ~MainOnline(status.by)
          \/ lost > 0]_vars

\* A wrapper whose updates session stays online is in the status service again
\* and again, although OnShardingCB, Drain and the exit of a wrapper on another
\* server delete the key's entry without looking whose it is.
OnlineAgain ==
    \A w \in Wrappers :
        <>[](running[w] /\ MainOnline(w)) => []<>(status # None /\ status.by = w)

\* runLoop has left its loop, and there are more results to come than
\* rpcDataChan has room for: rpcRunLoop waits for room that nobody makes, and
\* runLoop waits for rpcRunLoop.
ResultsOverflow(w) ==
    pc[w] = "closing" /\ Len(rpcQueue[w]) + Len(rpcDataChan[w]) > RpcCap

\* A wrapper that is stopped ends, both goroutines of it, with requests queued
\* and with results nobody takes any more, as long as rpcDataChan has room for
\* those results (main_auth_wrapper.go:601-605, 702).
WrapperEnds ==
    \A w \in Wrappers : pc[w] # "free" /\ ~running[w] ~>
        pc[w] = "gone" \/ ResultsOverflow(w)

\* "ErrDataChannelFull ... lets the caller perceive the backpressure"
\* (main_auth_wrapper.go:34).
BackpressurePerceived == ~unnoticed

\* Drain "cleans the Gateway in status" (main_auth_wrapper_manager.go:98) and
\* waits for the wrappers: a drained server is not in the status service.
DrainCleansStatus ==
    \A s \in Servers : phase[s] = "drained" /\ status # None => home[status.by] # s
=============================================================================
