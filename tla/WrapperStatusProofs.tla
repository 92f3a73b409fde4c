------------------------- MODULE WrapperStatusProofs -------------------------
(***************************************************************************)
(* The types of WrapperRegistry, and the entry of the status service: it   *)
(* is renewed in time, and a wrapper that ends takes it along.             *)
(***************************************************************************)
EXTENDS WrapperRegistryProofs, SequenceTheorems

(***************************************************************************)
(* Types.                                                                  *)
(***************************************************************************)

RingTypes ==
    /\ members \subseteq Servers /\ shardingList \in [Servers -> SUBSET Servers]
    /\ inputs \in 0 .. MaxInputs /\ changes \in 0 .. MaxRing /\ ends \in 0 .. MaxEnds

Results == [sess : Sessions, req : Requests]

LoopTypes ==
    /\ rpcPc \in [Wrappers -> {"none", "idle", "gone"}]
    /\ sessionDataChan \in [Wrappers -> Seq(Events)]
    /\ \A w \in Wrappers : Len(sessionDataChan[w]) <= ChanCap
    /\ rpcQueue \in [Wrappers -> Seq(Results)]
    /\ rpcDataChan \in [Wrappers -> Seq(Results)]
    /\ ticker \in [Wrappers -> BOOLEAN]

SessTypes ==
    /\ connState \in [Wrappers -> [Sessions -> ConnStates]]
    /\ gatewayId \in [Wrappers -> [Sessions -> Gateways \cup {None}]]
    /\ isGeneric \in [Wrappers -> SUBSET Sessions]
    /\ mainUpdatesSession \in [Wrappers -> Sessions \cup {None}]
    /\ destroyed \in [Wrappers -> (ConnStates \ {"absent"}) \cup {"no"}]

OnlineTypes ==
    /\ onlineAge \in [Wrappers -> (0 .. RenewAge) \cup {None}]
    /\ status = None \/ status \in [by : Wrappers, age : 0 .. ExpireAge]
    /\ lost \in 0 .. MaxLost

\* A call in progress still has an event to put into a channel.
CallTypes ==
    \A c \in calls :
        /\ c.target \in Wrappers \cup {None}
        /\ c.events \in Seq(Events) /\ c.events # << >>

HistTypes ==
    /\ killed \subseteq Wrappers /\ displaced \subseteq Servers
    /\ unnoticed \in BOOLEAN

\* A wrapper has a server from the moment it is allocated.
Homes == \A w \in Wrappers : pc[w] # "free" => home[w] \in Servers

Types ==
    /\ RingTypes /\ LoopTypes /\ SessTypes /\ OnlineTypes /\ CallTypes /\ HistTypes
    /\ Homes

TypeInv == RegistryInv /\ Types

\* What a step leaves alone keeps its type.
LEMMA KeptTypes ==
    ASSUME Types
    PROVE  /\ UNCHANGED << members, shardingList, inputs, changes, ends >> => RingTypes'
           /\ UNCHANGED << rpcPc, sessionDataChan, rpcQueue, rpcDataChan, ticker >>
                => LoopTypes'
           /\ UNCHANGED << connState, gatewayId, isGeneric, mainUpdatesSession,
                           destroyed >> => SessTypes'
           /\ UNCHANGED << onlineAge, status, lost >> => OnlineTypes'
           /\ calls' \subseteq calls => CallTypes'
           /\ UNCHANGED << killed, displaced, unnoticed >> => HistTypes'
           /\ UNCHANGED << home, pc >> => Homes'
BY DEF Types, RingTypes, LoopTypes, SessTypes, OnlineTypes, CallTypes, HistTypes, Homes

\* A wrapper sets its status online, or offline, or leaves it.
LEMMA OnlineKeepsTypes ==
    ASSUME OnlineTypes, NEW w \in Wrappers,
           setOnline(w) \/ delOnline(w) \/ UNCHANGED online
    PROVE  OnlineTypes'
BY ConstantsAssumption
   DEF OnlineTypes, setOnline, SetOnlineDue, delOnline, StatusSetSessionOffline, online

\* OnShardingCB and Drain delete the entry, or fail to.
LEMMA OfflineKeepsTypes ==
    ASSUME OnlineTypes, UNCHANGED onlineAge,
           StatusSetSessionOffline \/ UNCHANGED << status, lost >>
    PROVE  OnlineTypes'
BY ConstantsAssumption DEF OnlineTypes, StatusSetSessionOffline

\* What a call puts into the channel is one or two events.
LEMMA EventsOfType ==
    ASSUME NEW i \in AllInputs, NEW x \in Sessions, NEW g \in Gateways
    PROVE  EventsOf(i, x, g) \in Seq(Events) /\ EventsOf(i, x, g) # << >>
<1>1. ASSUME NEW k \in {"new", "data", "closed", "sync", "reset"},
             NEW r \in Requests
      PROVE  Event(k, x, g, r) \in Events
  BY DEF Event, Events
<1>2. "none" \in Requests
  BY DEF Requests
<1>3. CASE i = "new"
  BY <1>1, <1>2, <1>3 DEF EventsOf
<1>4. CASE i = "create"
  BY <1>1, <1>2, <1>4 DEF EventsOf
<1>5. CASE i \in Requests
  <2>1. i \notin {"new", "create"}
    BY <1>5 DEF Requests
  <2>2. EventsOf(i, x, g) = << Event("data", x, g, i) >>
    BY <1>5, <2>1 DEF EventsOf
  <2>. QED  BY <1>1, <1>5, <2>2
<1>6. CASE i \in {"sync", "reset", "closed"}
  <2>1. i \notin {"new", "create"} /\ i \notin Requests
    BY <1>6 DEF Requests
  <2>2. EventsOf(i, x, g) = << Event(i, x, g, "none") >>
    BY <2>1 DEF EventsOf
  <2>. QED  BY <1>1, <1>2, <1>6, <2>2
<1>. QED  BY <1>3, <1>4, <1>5, <1>6 DEF AllInputs

\* The gRPC handlers: the only ones that fill a sessionDataChan, when it has
\* room.
LEMMA CallsKeepTypes ==
    ASSUME TypeInv,
           \/ \E s \in Servers : SessionSendDataToSession(s) \/ SessionCloseSession(s)
           \/ \E c \in calls : AllocMainAuthWrapper(c) \/ FetchFails(c) \/ Enqueue(c)
    PROVE  Types'
<1>. Types /\ ControlTypes /\ RegistryInv
  BY DEF TypeInv, RegistryInv
<1>1. ASSUME NEW s \in Servers, SessionSendDataToSession(s) \/ SessionCloseSession(s)
      PROVE  Types'
  <2>1. PICK op \in {"send", "close"}, evs \in Seq(Events) \ {<< >>} :
             Call(s, op, evs)
    <3>1. CASE SessionSendDataToSession(s)
      <4>1. PICK i \in Inputs \ {"closed"}, x \in Sessions, g \in Gateways :
                 Call(s, "send", EventsOf(i, x, g))
        BY <3>1 DEF SessionSendDataToSession
      <4>2. i \in AllInputs
        BY ConstantsAssumption
      <4>3. EventsOf(i, x, g) \in Seq(Events) /\ EventsOf(i, x, g) # << >>
        BY <4>2, EventsOfType
      <4>. QED  BY <4>1, <4>3
    <3>2. CASE SessionCloseSession(s)
      <4>1. PICK x \in Sessions, g \in Gateways :
                 Call(s, "close", EventsOf("closed", x, g))
        BY <3>2 DEF SessionCloseSession
      <4>2. /\ EventsOf("closed", x, g) \in Seq(Events)
            /\ EventsOf("closed", x, g) # << >>
        BY EventsOfType DEF AllInputs
      <4>. QED  BY <4>1, <4>2
    <3>. QED  BY <1>1, <3>1, <3>2
  <2>2. RingTypes'
    BY <2>1, ConstantsAssumption DEF Call, ring, Types, RingTypes
  <2>3. CallTypes'
    BY <2>1 DEF Call, Handler, Types, CallTypes, ControlTypes
  <2>. QED
    BY <2>1, <2>2, <2>3, KeptTypes DEF Call, loop, chans, sess, online, hist, Types
<1>2. ASSUME NEW c \in calls, FetchFails(c)
      PROVE  Types'
  BY <1>2, KeptTypes
     DEF FetchFails, ring, used, loop, chans, sess, online, hist, Types
<1>3. ASSUME NEW c \in calls, Enqueue(c)
      PROVE  Types'
  <2>1. /\ c.target \in Wrappers
        /\ c.events \in Seq(Events) /\ c.events # << >>
    BY <1>3 DEF Enqueue, Types, CallTypes
  <2>2. Head(c.events) \in Events /\ Tail(c.events) \in Seq(Events)
    BY <2>1
  <2>3. LoopTypes'
    <3>1. CASE Full(c.target)
      BY <1>3, <3>1, KeptTypes DEF Enqueue
    <3>2. CASE ~Full(c.target)
      <4>1. /\ UNCHANGED << rpcPc, rpcQueue, rpcDataChan, ticker >>
            /\ sessionDataChan' = [sessionDataChan EXCEPT ![c.target] =
                                      Append(sessionDataChan[c.target], Head(c.events))]
        BY <1>3, <3>2 DEF Enqueue
      <4>2. Len(sessionDataChan[c.target]) < ChanCap
        BY <2>1, <3>2, ConstantsAssumption DEF Full, Types, LoopTypes
      <4>. QED
        BY <2>1, <2>2, <4>1, <4>2, ConstantsAssumption DEF Types, LoopTypes
    <3>. QED  BY <3>1, <3>2
  <2>4. CallTypes'
    <3>1. ASSUME Len(c.events) # 1  PROVE Tail(c.events) # << >>
      <4>1. Len(c.events) \in Nat \ {0} /\ Len(Tail(c.events)) = Len(c.events) - 1
        <5>1. Len(c.events) \in Nat \ {0}
          BY <2>1, EmptySeq
        <5>2. Len(Tail(c.events)) = Len(c.events) - 1
          BY <2>1, HeadTailProperties
        <5>. QED  BY <5>1, <5>2
      <4>2. Len(Tail(c.events)) # 0
        BY <3>1, <4>1
      <4>3. Len(<< >>) = 0
        OBVIOUS
      <4>. QED  BY <4>2, <4>3
    <3>2. /\ WithoutFirst(c).target = c.target
          /\ WithoutFirst(c).events = Tail(c.events)
      BY DEF WithoutFirst, Handler
    <3>3. calls' \subseteq calls \cup IF Len(c.events) = 1 THEN {} ELSE { WithoutFirst(c) }
      BY <1>3 DEF Enqueue
    <3>. QED  BY <2>1, <2>2, <3>1, <3>2, <3>3 DEF Types, CallTypes
  <2>5. HistTypes'
    BY <1>3 DEF Enqueue, Full, Types, HistTypes
  <2>. QED
    BY <1>3, <2>3, <2>4, <2>5, KeptTypes
       DEF Enqueue, ring, used, loop, sess, online, Types
<1>4. ASSUME NEW c \in calls, AllocMainAuthWrapper(c)
      PROVE  Types'
  <2>1. c.server \in Servers
    BY DEF ControlTypes
  <2>2. ASSUME NEW w \in Wrappers, calls' = (calls \ {c}) \cup { WithTarget(c, w) }
        PROVE  CallTypes'
    BY <2>2 DEF WithTarget, Handler, Types, CallTypes
  <2>3. UNCHANGED << members, shardingList, inputs, changes, ends, sessionDataChan,
                     rpcQueue, rpcDataChan, ticker, connState, gatewayId, isGeneric,
                     mainUpdatesSession, destroyed, onlineAge, status, lost, killed,
                     displaced, unnoticed >>
    BY <1>4 DEF AllocMainAuthWrapper, ring, used, chans, sess, online, hist
  <2>4. CASE /\ authMgr[c.server] # None
             /\ calls' = (calls \ {c}) \cup { WithTarget(c, authMgr[c.server]) }
             /\ UNCHANGED << authMgr, loop, rpcPc >>
    <3>1. authMgr[c.server] \in Wrappers
      BY <2>1, <2>4 DEF ControlTypes
    <3>. QED  BY <2>2, <2>3, <2>4, <3>1, KeptTypes DEF loop, Types
  <2>5. ASSUME NEW w \in Wrappers, pc[w] = "free", AllocNew(w, c.server),
               calls' = (calls \ {c}) \cup { WithTarget(c, w) }
        PROVE  Types'
    <3>1. LoopTypes' /\ Homes'
      BY <2>1, <2>3, <2>5
         DEF AllocNew, NewWrapper, Types, LoopTypes, Homes, ControlTypes
    <3>. QED  BY <2>2, <2>3, <2>5, <3>1, KeptTypes DEF Types
  <2>. QED  BY <1>4, <2>4, <2>5 DEF AllocMainAuthWrapper
<1>. QED  BY <1>1, <1>2, <1>3, <1>4

\* What a packet does to the sessions.
LEMMA AbsorbKeepsTypes ==
    ASSUME SessTypes, OnlineTypes, NEW w \in Wrappers, NEW e \in Events, Absorb(w, e)
    PROVE  SessTypes' /\ OnlineTypes'
<1>. DEFINE x == e.sess
            gone == IF e.req = "destroy" THEN Sessions \ {x} ELSE {}
            replaced == e.req = "main" /\ mainUpdatesSession[w] # x
            newConn == [y \in Sessions |-> IF y = x THEN "online"
                                           ELSE IF y \in gone THEN "absent"
                                           ELSE connState[w][y]]
            newGw == [y \in Sessions |-> IF y = x THEN e.gw
                                         ELSE IF y \in gone THEN None
                                         ELSE gatewayId[w][y]]
            newGen == (isGeneric[w] \cup IF e.req = "main" THEN {x} ELSE {}) \ gone
            newDestr == IF replaced THEN "no"
                        ELSE IF /\ destroyed[w] = "no" /\ mainUpdatesSession[w] \in gone
                                /\ connState[w][mainUpdatesSession[w]] # "absent"
                             THEN connState[w][mainUpdatesSession[w]]
                             ELSE destroyed[w]
<1>1. /\ connState' = [connState EXCEPT ![w] = newConn]
      /\ gatewayId' = [gatewayId EXCEPT ![w] = newGw]
      /\ isGeneric' = [isGeneric EXCEPT ![w] = newGen]
      /\ mainUpdatesSession' = IF replaced
                               THEN [mainUpdatesSession EXCEPT ![w] = x]
                               ELSE mainUpdatesSession
      /\ destroyed' = [destroyed EXCEPT ![w] = newDestr]
      /\ setOnline(w) \/ UNCHANGED online
  BY DEF Absorb, SessTypes
<1>2. x \in Sessions /\ e.gw \in Gateways
  BY DEF Events
<1>3. newConn \in [Sessions -> ConnStates]
  BY <1>2 DEF SessTypes, ConnStates
<1>4. newGw \in [Sessions -> Gateways \cup {None}]
  BY <1>2 DEF SessTypes
<1>5. newGen \in SUBSET Sessions
  BY <1>2 DEF SessTypes
<1>6. newDestr \in (ConnStates \ {"absent"}) \cup {"no"}
  <2>1. mainUpdatesSession[w] \in gone => mainUpdatesSession[w] \in Sessions
    OBVIOUS
  <2>. QED  BY <2>1 DEF SessTypes
<1>. HIDE DEF newConn, newGw, newGen, newDestr, gone, replaced, x
<1>7. SessTypes'
  BY <1>1, <1>2, <1>3, <1>4, <1>5, <1>6 DEF SessTypes
<1>. QED  BY <1>1, <1>7, OnlineKeepsTypes

\* runLoop and rpcRunLoop.
LEMMA LoopsKeepTypes ==
    ASSUME TypeInv, NEW w \in Wrappers, RunLoop(w) \/ RpcRunLoop(w)
    PROVE  Types'
<1>. Types /\ ControlTypes
  BY DEF TypeInv, RegistryInv
<1>1. ASSUME NEW p \in {"top", "select", "delete", "stop", "closing", "gone"},
             pc' = [pc EXCEPT ![w] = p], pc[w] # "free", UNCHANGED home
      PROVE  Homes'
  BY <1>1 DEF Types, Homes, ControlTypes
<1>2. ASSUME NEW b \in BOOLEAN, Continue(w, b)
      PROVE  \E p \in {"top", "select", "delete"} : pc' = [pc EXCEPT ![w] = p]
  BY <1>2 DEF Continue
<1>3. CASE EnterSelect(w)
  <2>1. Homes'
    BY <1>1, <1>3 DEF EnterSelect
  <2>. QED
    BY <1>3, <2>1, KeptTypes
       DEF EnterSelect, ring, used, chans, sess, online, hist, Types
<1>4. CASE TakeEvent(w)
  <2>. DEFINE e == Head(sessionDataChan[w])
  <2>1. /\ sessionDataChan[w] # << >>
        /\ sessionDataChan' = [sessionDataChan EXCEPT ![w] = Tail(sessionDataChan[w])]
        /\ UNCHANGED << members, shardingList, inputs, changes, ends, rpcPc,
                        rpcDataChan, ticker, calls, killed, displaced, unnoticed >>
        /\ pc[w] = "select" /\ UNCHANGED home
        /\ OnSessionData(w, e) \/ OnSessionClosed(w, e) \/ OnSyncData(w, e)
    BY <1>4 DEF TakeEvent, ring, used, hist
  <2>2. /\ e \in Events /\ Tail(sessionDataChan[w]) \in Seq(Events)
        /\ Len(Tail(sessionDataChan[w])) <= ChanCap
    <3>1. sessionDataChan[w] \in Seq(Events) /\ Len(sessionDataChan[w]) <= ChanCap
      BY DEF Types, LoopTypes
    <3>2. /\ e \in Events /\ Tail(sessionDataChan[w]) \in Seq(Events)
          /\ Len(Tail(sessionDataChan[w])) = Len(sessionDataChan[w]) - 1
      BY <2>1, <3>1, HeadTailProperties
    <3>3. Len(sessionDataChan[w]) \in Nat
      BY <3>1, LenProperties
    <3>. QED  BY <3>1, <3>2, <3>3, ConstantsAssumption
  <2>. HIDE DEF e
  <2>3. Homes'
    BY <1>1, <2>1 DEF OnSessionData, OnSessionClosed, OnSyncData, Continue
  <2>4. rpcQueue' \in [Wrappers -> Seq(Results)]
    <3>1. UNCHANGED rpcQueue
          \/ rpcQueue' = [rpcQueue EXCEPT ![w] =
                             Append(rpcQueue[w], [sess |-> e.sess, req |-> e.req])]
      BY <2>1 DEF OnSessionData, OnSessionClosed, OnSyncData
    <3>2. [sess |-> e.sess, req |-> e.req] \in Results
      BY <2>2 DEF Events, Results
    <3>3. rpcQueue[w] \in Seq(Results)
      BY DEF Types, LoopTypes
    <3>4. Append(rpcQueue[w], [sess |-> e.sess, req |-> e.req]) \in Seq(Results)
      BY <3>2, <3>3, AppendProperties
    <3>. QED  BY <3>1, <3>4 DEF Types, LoopTypes
  <2>5. LoopTypes'
    BY <2>1, <2>2, <2>4 DEF Types, LoopTypes
  <2>6. SessTypes' /\ OnlineTypes'
    <3>1. CASE OnSessionData(w, e)
      BY <2>2, <3>1, AbsorbKeepsTypes DEF OnSessionData, Types
    <3>2. CASE OnSessionClosed(w, e)
      <4>1. OnlineTypes'
        BY <3>2, OnlineKeepsTypes
           DEF OnSessionClosed, trySetOffline, Types, online
      <4>2. CASE gatewayId[w][e.sess] # e.gw
        <5>1. UNCHANGED sess
          BY <3>2, <4>2 DEF OnSessionClosed
        <5>. QED  BY <4>1, <5>1, KeptTypes DEF sess
      <4>3. CASE gatewayId[w][e.sess] = e.gw
        <5>1. e.sess \in Sessions
          BY <2>2 DEF Events
        <5>2. /\ gatewayId' = [gatewayId EXCEPT ![w] =
                                  [gatewayId[w] EXCEPT ![e.sess] = None]]
              /\ connState' = [connState EXCEPT ![w] =
                                  [connState[w] EXCEPT ![e.sess] = "offline"]]
              /\ UNCHANGED << isGeneric, mainUpdatesSession, destroyed >>
          BY <3>2, <4>3 DEF OnSessionClosed
        <5>3. /\ [gatewayId[w] EXCEPT ![e.sess] = None]
                    \in [Sessions -> Gateways \cup {None}]
              /\ [connState[w] EXCEPT ![e.sess] = "offline"] \in [Sessions -> ConnStates]
          BY <5>1 DEF Types, SessTypes, ConnStates
        <5>4. SessTypes'
          BY <5>2, <5>3 DEF Types, SessTypes
        <5>. QED  BY <4>1, <5>4
      <4>. QED  BY <4>2, <4>3
    <3>3. CASE OnSyncData(w, e)
      BY <3>3, KeptTypes DEF OnSyncData, sess, online
    <3>. QED  BY <2>1, <3>1, <3>2, <3>3
  <2>. QED  BY <2>1, <2>3, <2>5, <2>6, KeptTypes DEF Types
<1>5. CASE TakeResult(w)
  <2>1. Homes'
    BY <1>1, <1>5 DEF TakeResult, Continue
  <2>2. LoopTypes'
    <3>1. /\ rpcDataChan[w] # << >> /\ rpcDataChan[w] \in Seq(Results)
          /\ rpcDataChan' = [rpcDataChan EXCEPT ![w] = Tail(rpcDataChan[w])]
          /\ UNCHANGED << rpcPc, sessionDataChan, rpcQueue, ticker >>
      BY <1>5 DEF TakeResult, Types, LoopTypes
    <3>2. Tail(rpcDataChan[w]) \in Seq(Results)
      BY <3>1
    <3>. QED  BY <3>1, <3>2 DEF Types, LoopTypes
  <2>. QED
    BY <1>5, <2>1, <2>2, KeptTypes
       DEF TakeResult, ring, used, sess, online, hist, Types
<1>6. CASE OnTimer(w)
  <2>1. PICK quiet \in SUBSET Sessions :
             /\ QuietSessions(w, quiet)
             /\ StatusAtTick(w, { x \in quiet \cap isGeneric[w] :
                                     connState[w][x] = "online" })
    BY <1>6 DEF OnTimer
  <2>2. Homes'
    BY <1>1, <1>6 DEF OnTimer, Continue
  <2>3. LoopTypes'
    BY <1>6 DEF OnTimer, chans, Types, LoopTypes
  <2>4. SessTypes'
    <3>. DEFINE new == [x \in Sessions |->
                  IF x \notin quiet THEN connState[w][x]
                  ELSE IF connState[w][x] = "online" THEN "offline" ELSE "close"]
    <3>1. connState' = [connState EXCEPT ![w] = new]
      BY <2>1 DEF QuietSessions, Types, SessTypes
    <3>2. new \in [Sessions -> ConnStates]
      BY DEF Types, SessTypes, ConnStates
    <3>. QED  BY <2>1, <3>1, <3>2 DEF QuietSessions, Types, SessTypes
  <2>5. OnlineTypes'
    BY <2>1, OnlineKeepsTypes DEF StatusAtTick, Types
  <2>. QED
    BY <1>6, <2>2, <2>3, <2>4, <2>5, KeptTypes DEF OnTimer, ring, used, hist, Types
<1>7. CASE DeleteSelf(w)
  <2>1. Homes'
    BY <1>1, <1>7 DEF DeleteSelf
  <2>2. HistTypes'
    <3>1. home[w] \in Servers
      BY <1>7 DEF DeleteSelf, Types, Homes
    <3>. QED  BY <1>7, <3>1 DEF DeleteSelf, DeleteByAuthKeyId, Types, HistTypes
  <2>. QED
    BY <1>7, <2>1, <2>2, KeptTypes
       DEF DeleteSelf, ring, used, chans, sess, online, Types
<1>8. CASE StopSelf(w)
  <2>1. Homes'
    BY <1>1, <1>8 DEF StopSelf
  <2>. QED
    BY <1>8, <2>1, KeptTypes DEF StopSelf, ring, used, chans, sess, online, hist, Types
<1>9. CASE ExitLoop(w)
  <2>1. Homes'
    BY <1>1, <1>9 DEF ExitLoop
  <2>2. OnlineTypes'
    BY <1>9, OnlineKeepsTypes DEF ExitLoop, EntryAtExit, Types
  <2>. QED
    BY <1>9, <2>1, <2>2, KeptTypes DEF ExitLoop, ring, used, chans, sess, hist, Types
<1>10. CASE Finish(w)
  <2>1. Homes'
    BY <1>1, <1>10 DEF Finish
  <2>. QED
    BY <1>10, <2>1, KeptTypes DEF Finish, ring, used, chans, sess, online, hist, Types
<1>11. CASE RpcExecute(w)
  <2>1. LoopTypes'
    <3>1. /\ rpcQueue[w] # << >> /\ rpcQueue[w] \in Seq(Results)
          /\ rpcDataChan[w] \in Seq(Results)
          /\ rpcDataChan' = [rpcDataChan EXCEPT ![w] =
                                Append(rpcDataChan[w], Head(rpcQueue[w]))]
          /\ rpcQueue' = [rpcQueue EXCEPT ![w] = Tail(rpcQueue[w])]
          /\ UNCHANGED << rpcPc, sessionDataChan, ticker >>
      BY <1>11 DEF RpcExecute, Types, LoopTypes
    <3>2. Tail(rpcQueue[w]) \in Seq(Results) /\ Head(rpcQueue[w]) \in Results
      BY <3>1
    <3>. QED  BY <3>1, <3>2 DEF Types, LoopTypes
  <2>. QED
    BY <1>11, <2>1, KeptTypes DEF RpcExecute, ring, used, loop, sess, online, hist, Types
<1>12. CASE RpcExit(w)
  <2>1. LoopTypes'
    BY <1>12 DEF RpcExit, chans, Types, LoopTypes
  <2>. QED
    BY <1>12, <2>1, KeptTypes DEF RpcExit, ring, used, loop, sess, online, hist, Types
<1>. QED
  BY <1>3, <1>4, <1>5, <1>6, <1>7, <1>8, <1>9, <1>10, <1>11, <1>12
     DEF RunLoop, RpcRunLoop

\* The set of servers, and the actions of the managers.
LEMMA ServersKeepTypes ==
    ASSUME TypeInv, NEW s \in Servers,
           \/ Join(s) \/ Leave(s) \/ Update(s) \/ OnShardingCB(s) \/ Evict(s)
           \/ Drain(s) \/ Crash(s)
    PROVE  Types'
<1>. Types /\ ControlTypes
  BY DEF TypeInv, RegistryInv
<1>. USE DEF ring, used, loop, chans, sess, online, hist
<1>1. CASE Join(s) \/ Leave(s)
  <2>1. RingTypes'
    BY <1>1, ConstantsAssumption DEF Join, Leave, Types, RingTypes
  <2>. QED  BY <1>1, <2>1, KeptTypes DEF Join, Leave, Types
<1>2. CASE Update(s)
  <2>1. RingTypes'
    BY <1>2 DEF Update, Types, RingTypes
  <2>. QED  BY <1>2, <2>1, KeptTypes DEF Update, Types
<1>3. CASE OnShardingCB(s)
  <2>1. OnlineTypes'
    BY <1>3, OfflineKeepsTypes DEF OnShardingCB, Types
  <2>. QED  BY <1>3, <2>1, KeptTypes DEF OnShardingCB, Types
<1>4. CASE Evict(s)
  BY <1>4, KeptTypes DEF Evict, Types
<1>5. CASE DrainLock(s)
  <2>1. OnlineTypes'
    BY <1>5, OfflineKeepsTypes DEF DrainLock, Types
  <2>2. RingTypes'
    BY <1>5, ConstantsAssumption DEF DrainLock, Types, RingTypes
  <2>. QED  BY <1>5, <2>1, <2>2, KeptTypes DEF DrainLock, Types
<1>6. CASE DrainUnlock(s)
  BY <1>6, KeptTypes DEF DrainUnlock, Types
<1>7. CASE DrainStop(s)
  BY <1>7, KeptTypes DEF DrainStop, Types
<1>8. ASSUME NEW p \in {"drained", "down"}, EndProcess(s, p),
             UNCHANGED ends \/ (ends < MaxEnds /\ ends' = ends + 1)
      PROVE  Types'
  <2>1. /\ pc' \in [Wrappers -> {pc[w] : w \in Wrappers} \cup {"gone"}]
        /\ rpcPc' = [w \in Wrappers |-> IF home[w] = s /\ pc[w] # "gone" THEN "gone"
                                        ELSE rpcPc[w]]
        /\ \A w \in Wrappers : pc'[w] # "free" => pc[w] # "free" \/ home[w] = s
        /\ calls' \subseteq calls
        /\ killed' \subseteq killed \cup Wrappers
        /\ UNCHANGED << members, shardingList, inputs, changes, home, sessionDataChan,
                        rpcQueue, rpcDataChan, ticker, connState, gatewayId, isGeneric,
                        mainUpdatesSession, destroyed, onlineAge, status, lost,
                        displaced, unnoticed >>
    BY <1>8 DEF EndProcess
  <2>2. RingTypes'
    BY <1>8, <2>1, ConstantsAssumption DEF Types, RingTypes
  <2>3. LoopTypes'
    BY <2>1 DEF Types, LoopTypes
  <2>4. HistTypes'
    BY <2>1 DEF Types, HistTypes
  <2>5. Homes'
    BY <2>1 DEF Types, Homes
  <2>. QED  BY <2>1, <2>2, <2>3, <2>4, <2>5, KeptTypes DEF Types
<1>. QED
  BY <1>1, <1>2, <1>3, <1>4, <1>5, <1>6, <1>7, <1>8
     DEF Drain, DrainDone, DrainTimeout, Crash

\* Time passes no further than the ages can tell apart.
LEMMA TimeKeepsTypes ==
    ASSUME TypeInv, TimePasses
    PROVE  Types'
<1>. Types /\ ControlTypes
  BY DEF TypeInv, RegistryInv
<1>1. LoopTypes'
  BY DEF TimePasses, chans, Alive, Types, LoopTypes
<1>2. OnlineTypes'
  <2>1. onlineAge' \in [Wrappers -> (0 .. RenewAge) \cup {None}]
    BY ConstantsAssumption DEF TimePasses, Types, OnlineTypes
  <2>2. status' = None \/ status' \in [by : Wrappers, age : 0 .. ExpireAge]
    <3>1. CASE status = None \/ status.age + 1 >= ExpireAge
      BY <3>1 DEF TimePasses
    <3>2. CASE status # None /\ ~(status.age + 1 >= ExpireAge)
      <4>1. status' = [status EXCEPT !.age = status.age + 1]
        BY <3>2 DEF TimePasses
      <4>2. status \in [by : Wrappers, age : 0 .. ExpireAge]
        BY <3>2 DEF Types, OnlineTypes
      <4>. QED  BY <3>2, <4>1, <4>2, ConstantsAssumption
    <3>. QED  BY <3>1, <3>2
  <2>. QED  BY <2>1, <2>2 DEF TimePasses, Types, OnlineTypes
<1>. QED
  BY <1>1, <1>2, KeptTypes DEF TimePasses, ring, used, loop, sess, hist, Types

\* Every step keeps the types.
LEMMA NextKeepsTypes ==
    ASSUME TypeInv, [Next]_vars
    PROVE  TypeInv'
<1>1. RegistryInv'
  BY NextKeepsRegistry DEF TypeInv
<1>2. CASE UNCHANGED vars
  BY <1>1, <1>2, KeptTypes
     DEF vars, ring, used, loop, chans, sess, online, hist, TypeInv, Types
<1>. QED
  BY <1>1, <1>2, CallsKeepTypes, LoopsKeepTypes, ServersKeepTypes, TimeKeepsTypes
     DEF Next, TypeInv

\* The types hold initially and are kept.
LEMMA TypeInvariance == Spec => []TypeInv
<1>1. Init => TypeInv
  <2>. SUFFICES ASSUME Init  PROVE TypeInv
    OBVIOUS
  <2>1. RegistryInv
    BY ConstantsAssumption DEF Init, RegistryInv, ControlTypes, RegisteredRuns, DrainList
  <2>2. RingTypes /\ OnlineTypes
    BY ConstantsAssumption DEF Init, RingTypes, OnlineTypes
  <2>3. CallTypes /\ HistTypes /\ Homes
    BY DEF Init, CallTypes, HistTypes, Homes
  <2>4. LoopTypes
    <3>1. << >> \in Seq(Events) /\ << >> \in Seq(Results) /\ Len(<< >>) = 0
      BY EmptySeq
    <3>. QED  BY <3>1, ConstantsAssumption DEF Init, LoopTypes
  <2>5. SessTypes
    BY DEF Init, SessTypes, ConnStates
  <2>. QED  BY <2>1, <2>2, <2>3, <2>4, <2>5 DEF TypeInv, Types
<1>. QED  BY <1>1, NextKeepsTypes, PTL DEF Spec

\* Every variable keeps its type; no more than ChanCap events wait for a
\* wrapper (main_auth_wrapper.go:139).
THEOREM TypeCorrect == Spec => []TypeOK
<1>1. TypeInv => TypeOK
  BY DEF TypeInv, RegistryInv, Types, RingTypes, LoopTypes, Results, SessTypes,
         OnlineTypes, CallTypes, HistTypes, TypeOK
<1>. QED  BY <1>1, TypeInvariance, PTL

-----------------------------------------------------------------------------
(***************************************************************************)
(* The entry of the status service, while no call of the service failed.   *)
(***************************************************************************)

\* The updates session that was not destroyed is generic and present.
UpdatesSession ==
    \A w \in Wrappers : mainUpdatesSession[w] # None /\ destroyed[w] = "no" =>
        /\ mainUpdatesSession[w] \in isGeneric[w]
        /\ connState[w][mainUpdatesSession[w]] # "absent"

\* If only the updates session could have written the entry, it is online.
Settled(w) ==
    isGeneric[w] = {mainUpdatesSession[w]} /\ destroyed[w] = "no" => MainOnline(w)

\* The entry is as old as its wrapper takes it to be; if its updates session is
\* online, the wrapper still looks at its ticker, and a tick is ready when the
\* entry is due; and a wrapper that has ended left it only in the cases of
\* NoGhost.
EntryOf(w) ==
    /\ pc[w] # "free"
    /\ onlineAge[w] = IF status.age < RenewAge THEN status.age ELSE RenewAge
    /\ running[w] /\ MainOnline(w) /\ w \notin killed =>
          /\ Alive(w) /\ status.age <= RenewAge
          /\ status.age = RenewAge => ticker[w]
    /\ Settled(w)
    /\ pc[w] \in {"closing", "gone"} =>
          \/ w \in killed
          \/ isGeneric[w] # {mainUpdatesSession[w]}
          \/ destroyed[w] # "no"

EntryInv == lost = 0 /\ status # None => EntryOf(status.by)

StatusInv == TypeInv /\ UpdatesSession /\ EntryInv

\* A step that leaves the sessions and the ages alone: the entry stays or is
\* deleted, and its wrapper goes on or is stopped.
LEMMA OthersKeepEntry ==
    ASSUME StatusInv,
           UNCHANGED << ticker, sess, onlineAge >>,
           \/ UNCHANGED << status, lost >>
           \/ StatusSetSessionOffline,
           killed \subseteq killed',
           \A w \in Wrappers : pc[w] # "free" =>
              /\ pc'[w] # "free"
              /\ running'[w] => running[w]
              /\ Alive(w) => Alive(w)' \/ w \in killed'
              /\ pc'[w] \in {"closing", "gone"} =>
                    pc[w] \in {"closing", "gone"} \/ w \in killed'
    PROVE  UpdatesSession' /\ EntryInv'
<1>1. UpdatesSession'
  BY DEF StatusInv, UpdatesSession, sess
<1>2. ASSUME lost' = 0, status' # None  PROVE EntryOf(status.by)' /\ status' = status
  <2>1. UNCHANGED << status, lost >>
    BY <1>2 DEF StatusSetSessionOffline, StatusInv, TypeInv, Types, OnlineTypes
  <2>2. EntryOf(status.by) /\ status.by \in Wrappers
    BY <1>2, <2>1 DEF StatusInv, EntryInv, TypeInv, Types, OnlineTypes
  <2>. QED  BY <2>1, <2>2 DEF EntryOf, Settled, MainOnline, sess
<1>3. EntryInv'
  BY <1>2 DEF EntryInv
<1>. QED  BY <1>1, <1>3

\* A wrapper that writes the entry writes it anew before it is due.
LEMMA SetOnlineFresh ==
    ASSUME StatusInv, NEW w \in Wrappers, pc[w] # "free", setOnline(w),
           lost' = 0, status' # None, status'.by = w
    PROVE  /\ status'.age < RenewAge
           /\ onlineAge'[w] = status'.age
<1>1. onlineAge \in [Wrappers -> (0 .. RenewAge) \cup {None}] /\ lost \in Nat
  BY DEF StatusInv, TypeInv, Types, OnlineTypes
<1>2. CASE SetOnlineDue(w)
  <2>1. status' = [by |-> w, age |-> 0] /\ onlineAge'[w] = 0
    BY <1>1, <1>2 DEF setOnline
  <2>. QED  BY <2>1, ConstantsAssumption
<1>3. CASE ~SetOnlineDue(w)
  <2>1. UNCHANGED online /\ onlineAge[w] # None /\ ~(onlineAge[w] >= RenewAge)
    BY <1>3 DEF setOnline, SetOnlineDue
  <2>2. EntryOf(w) /\ status.age \in Nat
    BY <2>1 DEF online, StatusInv, EntryInv, TypeInv, Types, OnlineTypes
  <2>3. onlineAge[w] = IF status.age < RenewAge THEN status.age ELSE RenewAge
    BY <2>2 DEF EntryOf
  <2>. QED  BY <1>1, <2>1, <2>2, <2>3, ConstantsAssumption DEF online
<1>. QED  BY <1>2, <1>3

\* What a handler of runLoop does: the wrapper writes the entry, or deletes it,
\* or leaves it, and then its updates session did not come online.
LEMMA HandlersKeepEntry ==
    ASSUME StatusInv, NEW w \in Wrappers,
           pc[w] = "select",
           NEW p \in {"top", "select", "delete"}, pc' = [pc EXCEPT ![w] = p],
           UNCHANGED << running, killed >>,
           \A v \in Wrappers \ {w} :
              UNCHANGED << connState[v], isGeneric[v], mainUpdatesSession[v],
                           destroyed[v], ticker[v] >>,
           \/ setOnline(w) /\ Settled(w)'
           \/ delOnline(w)
           \/ /\ UNCHANGED online
              /\ MainOnline(w)' => MainOnline(w) /\ UNCHANGED ticker[w]
              /\ Settled(w) => Settled(w)'
    PROVE  EntryInv'
<1>1. /\ onlineAge \in [Wrappers -> (0 .. RenewAge) \cup {None}] /\ lost \in Nat
      /\ status = None \/ status \in [by : Wrappers, age : 0 .. ExpireAge]
      /\ pc \in [Wrappers -> {"free", "top", "select", "delete", "stop", "closing",
                              "gone"}]
  BY ConstantsAssumption
     DEF StatusInv, TypeInv, Types, OnlineTypes, RegistryInv, ControlTypes
<1>2. SUFFICES ASSUME lost' = 0, status' # None  PROVE EntryOf(status.by)'
  BY DEF EntryInv
<1>3. pc'[w] = p
  BY <1>1
<1>4. ~delOnline(w)
  BY <1>1, <1>2 DEF delOnline, StatusSetSessionOffline
<1>5. CASE status'.by = w
  <2>1. CASE setOnline(w) /\ Settled(w)'
    <3>1. status'.age < RenewAge /\ onlineAge'[w] = status'.age
      BY <1>2, <1>5, <2>1, SetOnlineFresh
    <3>2. status'.age \in Nat
      BY <1>1, <1>2, <2>1 DEF setOnline, online
    <3>. QED
      BY <1>3, <1>5, <2>1, <3>1, <3>2, ConstantsAssumption DEF EntryOf, Alive
  <2>2. CASE /\ UNCHANGED online
             /\ MainOnline(w)' => MainOnline(w) /\ UNCHANGED ticker[w]
             /\ Settled(w) => Settled(w)'
    <3>1. EntryOf(w)
      BY <1>2, <1>5, <2>2 DEF online, StatusInv, EntryInv
    <3>. QED
      BY <1>3, <1>5, <2>2, <3>1 DEF EntryOf, Alive, online
  <2>. QED  BY <1>4, <2>1, <2>2
<1>6. CASE status'.by # w
  <2>1. UNCHANGED << status, lost >> /\ \A v \in Wrappers \ {w} : onlineAge'[v] = onlineAge[v]
    BY <1>1, <1>2, <1>4, <1>6 DEF setOnline, online
  <2>2. EntryOf(status.by) /\ status.by \in Wrappers \ {w}
    BY <1>1, <1>2, <1>6, <2>1 DEF StatusInv, EntryInv
  <2>3. pc'[status.by] = pc[status.by]
    BY <1>1, <2>2
  <2>. QED
    BY <2>1, <2>2, <2>3 DEF EntryOf, Settled, MainOnline, Alive
<1>. QED  BY <1>5, <1>6

\* A packet: whatever puts the updates session online writes the entry.
LEMMA PacketKeepsEntry ==
    ASSUME StatusInv, NEW w \in Wrappers, NEW e \in Events, Absorb(w, e),
           UNCHANGED ticker
    PROVE  /\ UpdatesSession'
           /\ \A v \in Wrappers \ {w} :
                 UNCHANGED << connState[v], isGeneric[v], mainUpdatesSession[v],
                              destroyed[v], ticker[v] >>
           /\ \/ setOnline(w) /\ Settled(w)'
              \/ /\ UNCHANGED online
                 /\ MainOnline(w)' => MainOnline(w) /\ UNCHANGED ticker[w]
                 /\ Settled(w) => Settled(w)'
<1>. DEFINE x == e.sess
            main == mainUpdatesSession[w]
            gone == IF e.req = "destroy" THEN Sessions \ {x} ELSE {}
            back == connState[w][x] # "online" /\ x \in isGeneric[w]
            replaced == e.req = "main" /\ main # x
<1>1. /\ connState \in [Wrappers -> [Sessions -> ConnStates]]
      /\ isGeneric \in [Wrappers -> SUBSET Sessions]
      /\ mainUpdatesSession \in [Wrappers -> Sessions \cup {None}]
      /\ destroyed \in [Wrappers -> (ConnStates \ {"absent"}) \cup {"no"}]
      /\ x \in Sessions /\ None \notin Sessions
  BY ConstantsAssumption DEF StatusInv, TypeInv, Types, SessTypes, Events
<1>2. /\ \A v \in Wrappers \ {w} :
            UNCHANGED << connState[v], isGeneric[v], mainUpdatesSession[v],
                         destroyed[v], ticker[v] >>
      /\ \A y \in Sessions : connState'[w][y] = IF y = x THEN "online"
                                                ELSE IF y \in gone THEN "absent"
                                                ELSE connState[w][y]
      /\ isGeneric'[w] = (isGeneric[w] \cup IF e.req = "main" THEN {x} ELSE {}) \ gone
      /\ mainUpdatesSession'[w] = IF replaced THEN x ELSE main
      /\ destroyed'[w] = IF replaced THEN "no"
                         ELSE IF destroyed[w] = "no" /\ main \in gone
                                 /\ connState[w][main] # "absent"
                              THEN connState[w][main] ELSE destroyed[w]
      /\ IF back \/ e.req = "main" THEN setOnline(w) ELSE UNCHANGED online
  BY <1>1 DEF Absorb
<1>3. e.req = "main" => gone = {}
  OBVIOUS
<1>4. main # None /\ destroyed[w] = "no" =>
          main \in isGeneric[w] /\ connState[w][main] # "absent"
  BY DEF StatusInv, UpdatesSession
<1>5. MainOnline(w) <=> main # None /\ IF destroyed[w] # "no" THEN destroyed[w] = "online"
                                       ELSE connState[w][main] = "online"
  BY DEF MainOnline
<1>6. MainOnline(w)' <=>
          /\ mainUpdatesSession'[w] # None
          /\ IF destroyed'[w] # "no" THEN destroyed'[w] = "online"
             ELSE connState'[w][mainUpdatesSession'[w]] = "online"
  BY DEF MainOnline
<1>7. UpdatesSession'
  <2>1. ASSUME mainUpdatesSession'[w] # None, destroyed'[w] = "no"
        PROVE  /\ mainUpdatesSession'[w] \in isGeneric'[w]
               /\ connState'[w][mainUpdatesSession'[w]] # "absent"
    <3>1. CASE e.req = "main"
      BY <1>1, <1>2, <1>3, <2>1, <3>1
    <3>2. CASE e.req # "main"
      <4>1. mainUpdatesSession'[w] = main /\ main \in Sessions /\ ~replaced
        BY <1>1, <1>2, <2>1, <3>2
      <4>2. destroyed[w] = "no" /\ main \notin gone
        BY <1>1, <1>2, <1>4, <2>1, <4>1 DEF ConnStates
      <4>. QED  BY <1>1, <1>2, <1>4, <4>1, <4>2
    <3>. QED  BY <3>1, <3>2
  <2>2. ASSUME NEW v \in Wrappers \ {w}, mainUpdatesSession'[v] # None,
               destroyed'[v] = "no"
        PROVE  /\ mainUpdatesSession'[v] \in isGeneric'[v]
               /\ connState'[v][mainUpdatesSession'[v]] # "absent"
    BY <1>2, <2>2 DEF StatusInv, UpdatesSession
  <2>. QED  BY <2>1, <2>2 DEF UpdatesSession
<1>8. CASE e.req = "main"
  BY <1>1, <1>2, <1>3, <1>6, <1>7, <1>8 DEF Settled
<1>9. CASE e.req # "main"
  <2>1. mainUpdatesSession'[w] = main /\ ~replaced /\ isGeneric'[w] = isGeneric[w] \ gone
    BY <1>2, <1>9
  <2>2. isGeneric'[w] = {main} /\ destroyed'[w] = "no" /\ x \in isGeneric[w]
            => MainOnline(w)'
    BY <1>1, <1>2, <1>6, <2>1
  <2>3. CASE back
    BY <1>2, <1>7, <2>1, <2>2, <2>3 DEF Settled
  <2>4. CASE ~back
    <3>1. MainOnline(w)' => MainOnline(w)
      <4>1. CASE destroyed'[w] # "no"
        BY <1>2, <1>5, <1>6, <2>1, <4>1
      <4>2. CASE destroyed'[w] = "no" /\ main # None
        <5>1. destroyed[w] = "no" /\ main \notin gone /\ main \in Sessions
          BY <1>1, <1>2, <1>4, <2>1, <4>2 DEF ConnStates
        <5>. QED  BY <1>1, <1>2, <1>4, <1>5, <1>6, <2>1, <2>4, <5>1
      <4>. QED  BY <1>6, <2>1, <4>1, <4>2
    <3>2. ASSUME Settled(w), isGeneric'[w] = {main}, destroyed'[w] = "no"
          PROVE  MainOnline(w)'
      <4>1. CASE x \in isGeneric[w]
        BY <2>2, <3>2, <4>1
      <4>2. CASE x \notin isGeneric[w]
        <5>1. main \in Sessions /\ main # x /\ main \notin gone
          BY <1>1, <2>1, <3>2, <4>2
        <5>2. gone = {} /\ isGeneric[w] = {main} /\ destroyed[w] = "no"
          BY <1>1, <1>2, <2>1, <3>2, <5>1
        <5>3. MainOnline(w)
          BY <3>2, <5>2 DEF Settled
        <5>. QED  BY <1>1, <1>2, <1>5, <1>6, <2>1, <5>1, <5>2, <5>3
      <4>. QED  BY <4>1, <4>2
    <3>3. UNCHANGED online
      BY <1>2, <1>9, <2>4
    <3>4. Settled(w) => Settled(w)'
      BY <2>1, <3>2 DEF Settled
    <3>. QED  BY <1>2, <1>7, <3>1, <3>3, <3>4
  <2>. QED  BY <2>3, <2>4
<1>. QED  BY <1>8, <1>9

\* The end of a connection: the updates session takes the entry along.
LEMMA ClosedKeepsEntry ==
    ASSUME StatusInv, NEW w \in Wrappers, NEW e \in Events, OnSessionClosed(w, e),
           UNCHANGED ticker
    PROVE  /\ UpdatesSession'
           /\ \A v \in Wrappers \ {w} :
                 UNCHANGED << connState[v], isGeneric[v], mainUpdatesSession[v],
                              destroyed[v], ticker[v] >>
           /\ \/ delOnline(w)
              \/ /\ UNCHANGED online
                 /\ MainOnline(w)' => MainOnline(w) /\ UNCHANGED ticker[w]
                 /\ Settled(w) => Settled(w)'
<1>. DEFINE x == e.sess
<1>1. /\ connState \in [Wrappers -> [Sessions -> ConnStates]]
      /\ mainUpdatesSession \in [Wrappers -> Sessions \cup {None}]
      /\ x \in Sessions /\ None \notin Sessions
  BY ConstantsAssumption DEF StatusInv, TypeInv, Types, SessTypes, Events
<1>2. CASE UNCHANGED << sess, online >>
  BY <1>2 DEF sess, StatusInv, UpdatesSession, Settled, MainOnline
<1>3. CASE ~UNCHANGED << sess, online >>
  <2>1. /\ connState' = [connState EXCEPT ![w] = [connState[w] EXCEPT ![x] = "offline"]]
        /\ UNCHANGED << isGeneric, mainUpdatesSession, destroyed >>
        /\ IF x \in isGeneric[w] THEN trySetOffline(w) ELSE UNCHANGED online
    BY <1>3 DEF OnSessionClosed
  <2>2. /\ \A v \in Wrappers \ {w} : connState'[v] = connState[v]
        /\ \A y \in Sessions :
              connState'[w][y] = IF y = x THEN "offline" ELSE connState[w][y]
    BY <1>1, <2>1
  <2>3. UpdatesSession'
    BY <1>1, <2>1, <2>2 DEF StatusInv, UpdatesSession
  <2>4. MainOnline(w)' => MainOnline(w)
    BY <1>1, <2>1, <2>2 DEF MainOnline
  <2>5. CASE x \in isGeneric[w] /\ ~MainOnline(w)'
    BY <2>1, <2>2, <2>3, <2>5 DEF trySetOffline
  <2>6. CASE x \notin isGeneric[w] \/ MainOnline(w)'
    <3>1. UNCHANGED online
      BY <2>1, <2>6 DEF trySetOffline
    <3>2. Settled(w) => Settled(w)'
      BY <1>1, <2>1, <2>2, <2>6 DEF Settled, MainOnline
    <3>. QED  BY <2>1, <2>2, <2>3, <2>4, <3>1, <3>2
  <2>. QED  BY <2>5, <2>6
<1>. QED  BY <1>2, <1>3

\* runLoop and rpcRunLoop.
LEMMA LoopsKeepEntry ==
    ASSUME StatusInv, NEW w \in Wrappers, RunLoop(w) \/ RpcRunLoop(w)
    PROVE  UpdatesSession' /\ EntryInv'
<1>1. /\ pc \in [Wrappers -> {"free", "top", "select", "delete", "stop", "closing",
                              "gone"}]
      /\ running \in [Wrappers -> BOOLEAN]
      /\ ticker \in [Wrappers -> BOOLEAN]
      /\ connState \in [Wrappers -> [Sessions -> ConnStates]]
      /\ isGeneric \in [Wrappers -> SUBSET Sessions]
      /\ mainUpdatesSession \in [Wrappers -> Sessions \cup {None}]
  BY DEF StatusInv, TypeInv, RegistryInv, ControlTypes, Types, LoopTypes, SessTypes
<1>. USE DEF registry, hist
<1>2. CASE EnterSelect(w)
  BY <1>1, <1>2, OthersKeepEntry DEF EnterSelect, Alive, online
<1>3. CASE TakeEvent(w)
  <2>. DEFINE e == Head(sessionDataChan[w])
  <2>1. /\ OnSessionData(w, e) \/ OnSessionClosed(w, e) \/ OnSyncData(w, e)
        /\ pc[w] = "select" /\ sessionDataChan[w] # << >>
        /\ UNCHANGED << running, killed, ticker >>
    BY <1>3 DEF TakeEvent
  <2>2. e \in Events
    <3>1. sessionDataChan[w] \in Seq(Events)
      BY DEF StatusInv, TypeInv, Types, LoopTypes
    <3>. QED  BY <2>1, <3>1, HeadTailProperties
  <2>. HIDE DEF e
  <2>3. PICK p \in {"top", "select", "delete"} : pc' = [pc EXCEPT ![w] = p]
    BY <2>1 DEF OnSessionData, OnSessionClosed, OnSyncData, Continue
  <2>4. CASE OnSessionData(w, e)
    <3>1. Absorb(w, e)
      BY <2>4 DEF OnSessionData
    <3>. QED  BY <2>1, <2>2, <2>3, <3>1, PacketKeepsEntry, HandlersKeepEntry
  <2>5. CASE OnSessionClosed(w, e)
    BY <2>1, <2>2, <2>3, <2>5, ClosedKeepsEntry, HandlersKeepEntry
  <2>6. CASE OnSyncData(w, e)
    <3>1. UNCHANGED << sess, onlineAge, status, lost >>
      BY <2>6 DEF OnSyncData, online
    <3>. QED  BY <1>1, <2>1, <2>3, <3>1, OthersKeepEntry DEF Alive
  <2>. QED  BY <2>1, <2>4, <2>5, <2>6
<1>4. CASE TakeResult(w)
  <2>1. PICK p \in {"top", "select", "delete"} : pc' = [pc EXCEPT ![w] = p]
    BY <1>4 DEF TakeResult, Continue
  <2>2. UNCHANGED << sess, onlineAge, status, lost, ticker, running, killed >>
    BY <1>4 DEF TakeResult, online
  <2>3. pc[w] = "select"
    BY <1>4 DEF TakeResult
  <2>. QED  BY <1>1, <2>1, <2>2, <2>3, OthersKeepEntry DEF Alive
<1>5. CASE OnTimer(w)
  <2>1. PICK quiet \in SUBSET Sessions :
             /\ QuietSessions(w, quiet)
             /\ StatusAtTick(w, { x \in quiet \cap isGeneric[w] :
                                     connState[w][x] = "online" })
    BY <1>5 DEF OnTimer
  <2>. DEFINE leaving == { x \in quiet \cap isGeneric[w] : connState[w][x] = "online" }
  <2>2. PICK p \in {"top", "select", "delete"} : pc' = [pc EXCEPT ![w] = p]
    BY <1>5 DEF OnTimer, Continue
  <2>3. /\ pc[w] = "select" /\ UNCHANGED << running, killed >>
        /\ ticker' = [ticker EXCEPT ![w] = FALSE]
    BY <1>5 DEF OnTimer
  <2>4. /\ UNCHANGED << isGeneric, mainUpdatesSession, destroyed >>
        /\ \A v \in Wrappers \ {w} : connState'[v] = connState[v]
        /\ \A y \in Sessions : connState'[w][y] =
              IF y \notin quiet THEN connState[w][y]
              ELSE IF connState[w][y] = "online" THEN "offline" ELSE "close"
    BY <1>1, <2>1 DEF QuietSessions
  <2>5. \A v \in Wrappers \ {w} :
            UNCHANGED << connState[v], isGeneric[v], mainUpdatesSession[v],
                         destroyed[v], ticker[v] >>
    BY <1>1, <2>3, <2>4
  <2>6. UpdatesSession'
    BY <1>1, <2>4, ConstantsAssumption DEF StatusInv, UpdatesSession
  <2>7. \/ setOnline(w) /\ Settled(w)'
        \/ delOnline(w)
        \/ /\ UNCHANGED online
           /\ MainOnline(w)' => MainOnline(w) /\ UNCHANGED ticker[w]
           /\ Settled(w) => Settled(w)'
    <3>1. CASE MainOnline(w)'
      BY <2>1, <3>1 DEF StatusAtTick, Settled
    <3>2. CASE ~MainOnline(w)' /\ leaving # {}
      BY <2>1, <3>2 DEF StatusAtTick
    <3>3. CASE ~MainOnline(w)' /\ leaving = {}
      <4>1. UNCHANGED online
        BY <2>1, <3>3 DEF StatusAtTick
      <4>2. ASSUME isGeneric[w] = {mainUpdatesSession[w]}, destroyed[w] = "no",
                   MainOnline(w)
            PROVE  FALSE
        <5>1. /\ mainUpdatesSession[w] \in Sessions
              /\ connState[w][mainUpdatesSession[w]] = "online"
              /\ mainUpdatesSession[w] \in isGeneric[w]
          BY <1>1, <4>2 DEF MainOnline
        <5>2. mainUpdatesSession[w] \notin quiet
          BY <3>3, <5>1
        <5>. QED  BY <2>4, <3>3, <4>2, <5>1, <5>2 DEF MainOnline
      <4>3. Settled(w) => Settled(w)'
        BY <2>4, <4>2 DEF Settled
      <4>. QED  BY <3>3, <4>1, <4>3
    <3>. QED  BY <3>1, <3>2, <3>3
  <2>. QED  BY <2>2, <2>3, <2>5, <2>6, <2>7, HandlersKeepEntry
<1>6. CASE DeleteSelf(w)
  BY <1>1, <1>6, OthersKeepEntry DEF DeleteSelf, Alive, online
<1>7. CASE StopSelf(w)
  BY <1>1, <1>7, OthersKeepEntry DEF StopSelf, Alive, online
<1>8. CASE ExitLoop(w)
  <2>1. /\ pc[w] = "top" /\ ~running[w] /\ EntryAtExit(w)
        /\ pc' = [pc EXCEPT ![w] = "closing"]
        /\ UNCHANGED << running, ticker, sess, killed >>
    BY <1>8 DEF ExitLoop
  <2>2. UpdatesSession'
    BY <2>1 DEF StatusInv, UpdatesSession, sess
  <2>3. ASSUME lost' = 0, status' # None  PROVE EntryOf(status.by)' /\ status' = status
    <3>1. ~MainOnline(w) /\ UNCHANGED online
      BY <2>1, <2>3
         DEF EntryAtExit, delOnline, StatusSetSessionOffline, StatusInv, TypeInv, Types,
             OnlineTypes
    <3>2. EntryOf(status.by) /\ status.by \in Wrappers
      BY <2>3, <3>1 DEF online, StatusInv, EntryInv, TypeInv, Types, OnlineTypes
    <3>3. CASE status.by = w
      BY <1>1, <2>1, <3>1, <3>2, <3>3 DEF EntryOf, Settled, MainOnline, sess, online
    <3>4. CASE status.by # w
      <4>1. pc'[status.by] = pc[status.by]
        BY <1>1, <2>1, <3>2, <3>4
      <4>. QED
        BY <2>1, <3>1, <3>2, <4>1 DEF EntryOf, Settled, MainOnline, Alive, sess, online
    <3>. QED  BY <3>1, <3>3, <3>4 DEF online
  <2>. QED  BY <2>2, <2>3 DEF EntryInv
<1>9. CASE Finish(w)
  BY <1>1, <1>9, OthersKeepEntry DEF Finish, Alive, online
<1>10. CASE RpcRunLoop(w)
  BY <1>10, OthersKeepEntry DEF RpcRunLoop, RpcExecute, RpcExit, Alive, online, loop
<1>. QED
  BY <1>2, <1>3, <1>4, <1>5, <1>6, <1>7, <1>8, <1>9, <1>10 DEF RunLoop

\* The handlers, the managers and the end of a process.
LEMMA OthersKeepStatus ==
    ASSUME StatusInv,
           \/ \E s \in Servers :
                 \/ SessionSendDataToSession(s) \/ SessionCloseSession(s)
                 \/ Join(s) \/ Leave(s) \/ Update(s) \/ OnShardingCB(s) \/ Evict(s)
                 \/ Drain(s) \/ Crash(s)
           \/ \E c \in calls : AllocMainAuthWrapper(c) \/ FetchFails(c) \/ Enqueue(c)
    PROVE  UpdatesSession' /\ EntryInv'
<1>1. /\ pc \in [Wrappers -> {"free", "top", "select", "delete", "stop", "closing",
                              "gone"}]
      /\ running \in [Wrappers -> BOOLEAN]
      /\ \A s \in Servers : draining[s] # None => draining[s] \in Wrappers
  BY DEF StatusInv, TypeInv, RegistryInv, ControlTypes
<1>. USE DEF online, loop, hist, registry
<1>2. ASSUME NEW s \in Servers, SessionSendDataToSession(s) \/ SessionCloseSession(s)
      PROVE  UpdatesSession' /\ EntryInv'
  BY <1>2, OthersKeepEntry DEF SessionSendDataToSession, SessionCloseSession, Call, Alive
<1>3. ASSUME NEW c \in calls, FetchFails(c) \/ Enqueue(c)
      PROVE  UpdatesSession' /\ EntryInv'
  BY <1>3, OthersKeepEntry DEF FetchFails, Enqueue, Alive
<1>4. ASSUME NEW c \in calls, AllocMainAuthWrapper(c)
      PROVE  UpdatesSession' /\ EntryInv'
  <2>1. UNCHANGED << ticker, sess, onlineAge, status, lost, killed >>
    BY <1>4 DEF AllocMainAuthWrapper
  <2>2. \A v \in Wrappers : pc[v] # "free" =>
            pc'[v] = pc[v] /\ running'[v] = running[v]
    BY <1>1, <1>4 DEF AllocMainAuthWrapper, AllocNew, NewWrapper
  <2>. QED  BY <2>1, <2>2, OthersKeepEntry DEF Alive
<1>5. ASSUME NEW s \in Servers, Join(s) \/ Leave(s) \/ Update(s) \/ OnShardingCB(s)
      PROVE  UpdatesSession' /\ EntryInv'
  BY <1>5, OthersKeepEntry DEF Join, Leave, Update, OnShardingCB, Alive
<1>6. ASSUME NEW s \in Servers, Evict(s)
      PROVE  UpdatesSession' /\ EntryInv'
  <2>1. /\ UNCHANGED << ticker, sess, onlineAge, status, lost, killed, pc >>
        /\ running' = [running EXCEPT ![authMgr[s]] = FALSE]
    BY <1>6 DEF Evict
  <2>2. \A v \in Wrappers : running'[v] => running[v]
    BY <1>1, <2>1
  <2>. QED  BY <2>1, <2>2, OthersKeepEntry DEF Alive
<1>7. ASSUME NEW s \in Servers, DrainLock(s) \/ DrainUnlock(s)
      PROVE  UpdatesSession' /\ EntryInv'
  BY <1>7, OthersKeepEntry DEF DrainLock, DrainUnlock, Alive
<1>8. ASSUME NEW s \in Servers, DrainStop(s)
      PROVE  UpdatesSession' /\ EntryInv'
  <2>1. /\ UNCHANGED << ticker, sess, onlineAge, status, lost, killed, pc >>
        /\ running' = IF draining[s] = None THEN running
                      ELSE [running EXCEPT ![draining[s]] = FALSE]
    BY <1>8 DEF DrainStop
  <2>2. \A v \in Wrappers : running'[v] => running[v]
    BY <1>1, <2>1
  <2>. QED  BY <2>1, <2>2, OthersKeepEntry DEF Alive
<1>9. ASSUME NEW s \in Servers, NEW p \in {"drained", "down"}, EndProcess(s, p)
      PROVE  UpdatesSession' /\ EntryInv'
  <2>. DEFINE ws == { w \in Wrappers : home[w] = s /\ pc[w] # "gone" }
  <2>1. /\ UNCHANGED << ticker, sess, onlineAge, status, lost, running >>
        /\ pc' = [w \in Wrappers |-> IF w \in ws THEN "gone" ELSE pc[w]]
        /\ killed' = killed \cup ws
    BY <1>9 DEF EndProcess
  <2>. HIDE DEF ws
  <2>2. \A v \in Wrappers : pc[v] # "free" =>
              /\ pc'[v] # "free"
              /\ running'[v] => running[v]
              /\ Alive(v) => Alive(v)' \/ v \in killed'
              /\ pc'[v] \in {"closing", "gone"} =>
                    pc[v] \in {"closing", "gone"} \/ v \in killed'
    BY <2>1 DEF Alive
  <2>. QED  BY <2>1, <2>2, OthersKeepEntry
<1>. QED
  BY <1>2, <1>3, <1>4, <1>5, <1>6, <1>7, <1>8, <1>9
     DEF Drain, DrainDone, DrainTimeout, Crash

\* Time passes only when every live wrapper has taken its last tick, so that no
\* entry that is renewed grows older than RenewAge.
LEMMA TimeKeepsEntry ==
    ASSUME StatusInv, TimePasses
    PROVE  UpdatesSession' /\ EntryInv'
<1>1. UNCHANGED << running, pc, sess, lost, killed >>
  BY DEF TimePasses, loop, hist
<1>2. UpdatesSession'
  BY <1>1 DEF StatusInv, UpdatesSession, sess
<1>3. ASSUME lost' = 0, status' # None  PROVE EntryOf(status.by)'
  <2>1. /\ status # None /\ status'.by = status.by /\ status'.age = status.age + 1
        /\ status.by \in Wrappers /\ status.age \in Nat
    <3>1. status # None /\ status' = [status EXCEPT !.age = status.age + 1]
      BY <1>3 DEF TimePasses
    <3>2. status \in [by : Wrappers, age : 0 .. ExpireAge]
      BY <3>1 DEF StatusInv, TypeInv, Types, OnlineTypes
    <3>. QED  BY <3>1, <3>2
  <2>. DEFINE w == status.by
  <2>2. EntryOf(w)
    BY <1>1, <1>3, <2>1 DEF StatusInv, EntryInv
  <2>3. onlineAge[w] = IF status.age < RenewAge THEN status.age ELSE RenewAge
    BY <2>2 DEF EntryOf
  <2>4. onlineAge'[w] = IF onlineAge[w] = None \/ onlineAge[w] = RenewAge
                        THEN onlineAge[w] ELSE onlineAge[w] + 1
    BY <2>1 DEF TimePasses
  <2>5. onlineAge'[w] = IF status'.age < RenewAge THEN status'.age ELSE RenewAge
    BY <2>1, <2>3, <2>4, ConstantsAssumption
  <2>6. ASSUME running[w], MainOnline(w), w \notin killed
        PROVE  Alive(w) /\ status'.age <= RenewAge /\ ticker'[w]
    <3>1. /\ Alive(w) /\ status.age <= RenewAge
          /\ status.age = RenewAge => ticker[w]
      BY <2>2, <2>6 DEF EntryOf
    <3>2. ~ticker[w] /\ ticker'[w]
      BY <2>1, <3>1 DEF TimePasses
    <3>. QED  BY <2>1, <3>1, <3>2, ConstantsAssumption
  <2>. QED
    BY <1>1, <2>1, <2>2, <2>5, <2>6 DEF EntryOf, Settled, MainOnline, Alive, sess
<1>4. EntryInv'
  BY <1>3 DEF EntryInv
<1>. QED  BY <1>2, <1>4

\* Every step keeps the invariant.
LEMMA NextKeepsStatus ==
    ASSUME StatusInv, [Next]_vars
    PROVE  StatusInv'
<1>1. TypeInv'
  BY NextKeepsTypes DEF StatusInv
<1>2. UpdatesSession' /\ EntryInv'
  <2>1. CASE UNCHANGED vars
    BY <2>1, OthersKeepEntry DEF vars, loop, online, hist, Alive
  <2>. QED
    BY <2>1, LoopsKeepEntry, OthersKeepStatus, TimeKeepsEntry DEF Next
<1>. QED  BY <1>1, <1>2 DEF StatusInv

LEMMA StatusInvariance == Spec => []StatusInv
<1>1. Init => UpdatesSession /\ EntryInv
  BY DEF Init, UpdatesSession, EntryInv
<1>2. Spec => []TypeInv
  BY TypeInvariance
<1>3. TypeInv /\ UpdatesSession /\ EntryInv => StatusInv
  BY DEF StatusInv
<1>. QED  BY <1>1, <1>2, <1>3, NextKeepsStatus, PTL DEF Spec

\* A wrapper that has ended by itself is not in the status service, unless the
\* exit of runLoop looked at a session that had not written the entry.
THEOREM EndedWrapperIsOffline == Spec => []NoGhost
<1>1. StatusInv => NoGhost
  BY DEF StatusInv, TypeInv, Types, OnlineTypes, EntryInv, EntryOf, NoGhost
<1>. QED  BY <1>1, StatusInvariance, PTL

\* The entry of a wrapper whose updates session stays online does not expire:
\* the tick at 45 s finds it due and writes it before the 90 s are over.
THEOREM EntryRenewedInTime == Spec => NeverLapses
<1>1. ASSUME StatusInv, TimePasses, status # None, status' = None,
             running[status.by], status.by \notin killed, MainOnline(status.by)
      PROVE  lost > 0
  <2>. SUFFICES ASSUME ~(lost > 0)  PROVE FALSE
    OBVIOUS
  <2>1. /\ status.by \in Wrappers /\ status.age \in Nat /\ lost = 0
    BY <1>1 DEF StatusInv, TypeInv, Types, OnlineTypes
  <2>2. EntryOf(status.by)
    BY <1>1, <2>1 DEF StatusInv, EntryInv
  <2>3. /\ Alive(status.by) /\ status.age <= RenewAge
        /\ status.age = RenewAge => ticker[status.by]
    BY <1>1, <2>2 DEF EntryOf
  <2>4. ~ticker[status.by]
    BY <1>1, <2>1, <2>3 DEF TimePasses
  <2>5. status.age + 1 >= ExpireAge
    <3>1. CASE ~(status.age + 1 >= ExpireAge)
      <4>1. status' = [status EXCEPT !.age = status.age + 1]
        BY <1>1, <3>1 DEF TimePasses
      <4>2. status' \in [by : Wrappers, age : Nat]
        BY <1>1, <2>1, <4>1 DEF StatusInv, TypeInv, Types, OnlineTypes
      <4>. QED  BY <1>1, <4>2, ConstantsAssumption
    <3>. QED  BY <3>1
  <2>. QED  BY <2>1, <2>3, <2>4, <2>5, ConstantsAssumption
<1>2. StatusInv /\ [Next]_vars =>
         [TimePasses /\ status # None /\ status' = None =>
            \/ ~running[status.by] \/ status.by \in killed
            \/ ~MainOnline(status.by) \/ lost > 0]_vars
  BY <1>1
<1>. QED  BY <1>2, StatusInvariance, PTL DEF Spec, NeverLapses
=============================================================================
