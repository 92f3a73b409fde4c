------------------------ MODULE WrapperRegistryProofs ------------------------
(***************************************************************************)
(* The registry hands out only wrappers that run, and one wrapper at a     *)
(* time serves the key: for every number of servers, wrappers, sessions    *)
(* and calls.                                                              *)
(***************************************************************************)
EXTENDS WrapperRegistry, FiniteSetTheorems, TLAPS

\* What an action that is none of the manager's does to the registry: nothing;
\* and a registered wrapper stays in its loop.
LEMMA LoopKeepsRegistry ==
    ASSUME RegistryInv,
           NEW w \in Wrappers,
           UNCHANGED << authMgr, phase, sharding, draining, home, running >>,
           NEW p \in {"top", "select", "delete", "stop", "closing", "gone"},
           pc' = [pc EXCEPT ![w] = p],
           pc[w] # "free",
           \/ p \in {"top", "select", "delete"}
           \/ \A s \in Servers : authMgr[s] # w,
           \A c \in calls' : c.server \in Servers
    PROVE  RegistryInv'
BY ConstantsAssumption DEF RegistryInv, ControlTypes, RegisteredRuns, DrainList

\* Actions that touch neither the registry nor the control of a wrapper.
LEMMA OthersKeepRegistry ==
    ASSUME RegistryInv,
           UNCHANGED << registry, loop >>,
           \A c \in calls' : c.server \in Servers
    PROVE  RegistryInv'
BY DEF RegistryInv, ControlTypes, RegisteredRuns, DrainList, registry, loop

\* The gRPC handlers: a wrapper that is allocated is one that was free.
LEMMA CallsKeepRegistry ==
    ASSUME RegistryInv,
           \/ \E s \in Servers : SessionSendDataToSession(s) \/ SessionCloseSession(s)
           \/ \E c \in calls : AllocMainAuthWrapper(c) \/ FetchFails(c) \/ Enqueue(c)
    PROVE  RegistryInv'
<1>1. ASSUME NEW s \in Servers, SessionSendDataToSession(s) \/ SessionCloseSession(s)
      PROVE  RegistryInv'
  <2>1. PICK op, evs : Call(s, op, evs)
    BY <1>1 DEF SessionSendDataToSession, SessionCloseSession
  <2>2. \A c \in calls' : c.server \in Servers
    BY <2>1 DEF Call, Handler, RegistryInv, ControlTypes
  <2>. QED  BY <2>1, <2>2, OthersKeepRegistry DEF Call
<1>2. ASSUME NEW c \in calls, FetchFails(c) \/ Enqueue(c)
      PROVE  RegistryInv'
  <2>1. \A d \in calls' : d.server \in Servers
    BY <1>2 DEF FetchFails, Enqueue, WithoutFirst, Handler, RegistryInv, ControlTypes
  <2>. QED  BY <1>2, <2>1, OthersKeepRegistry DEF FetchFails, Enqueue, loop
<1>3. ASSUME NEW c \in calls, AllocMainAuthWrapper(c)
      PROVE  RegistryInv'
  <2>1. c.server \in Servers
    BY DEF RegistryInv, ControlTypes
  <2>2. \A d \in calls' : d.server \in Servers
    BY <1>3, <2>1 DEF AllocMainAuthWrapper, WithTarget, Handler, RegistryInv, ControlTypes
  <2>3. CASE UNCHANGED << authMgr, loop, rpcPc >>
    BY <1>3, <2>2, <2>3, OthersKeepRegistry
       DEF AllocMainAuthWrapper, registry, loop
  <2>4. ASSUME NEW w \in Wrappers, pc[w] = "free", AllocNew(w, c.server)
        PROVE  RegistryInv'
    <3>1. /\ authMgr[c.server] = None
          /\ authMgr' = [authMgr EXCEPT ![c.server] = w]
          /\ home' = [home EXCEPT ![w] = c.server]
          /\ running' = [running EXCEPT ![w] = TRUE]
          /\ pc' = [pc EXCEPT ![w] = "top"]
          /\ UNCHANGED << phase, sharding, draining >>
          /\ phase[c.server] # "drain" /\ sharding[c.server] # "locked"
      BY <1>3, <2>4 DEF AllocMainAuthWrapper, AllocNew, NewWrapper, MuFree
    <3>2. ControlTypes /\ RegisteredRuns /\ \A s \in Servers : DrainList(s)
      BY DEF RegistryInv
    <3>3. ControlTypes'
      BY <2>1, <2>2, <3>1, <3>2 DEF ControlTypes
    <3>4. ASSUME NEW s \in Servers, authMgr'[s] # None
          PROVE  /\ home'[authMgr'[s]] = s
                 /\ running'[authMgr'[s]]
                 /\ pc'[authMgr'[s]] \in {"top", "select", "delete"}
      <4>1. CASE s = c.server
        BY <2>1, <3>1, <3>2, <4>1 DEF ControlTypes
      <4>2. CASE s # c.server
        <5>1. authMgr'[s] = authMgr[s] /\ authMgr[s] \in Wrappers
          BY <2>1, <3>1, <3>2, <3>4, <4>2 DEF ControlTypes
        <5>2. authMgr[s] # w
          BY <2>4, <3>2, <3>4, <5>1 DEF RegisteredRuns
        <5>. QED
          BY <3>1, <3>2, <3>4, <5>1, <5>2 DEF ControlTypes, RegisteredRuns
      <4>. QED  BY <4>1, <4>2
    <3>5. RegisteredRuns'
      BY <3>4 DEF RegisteredRuns
    <3>6. ASSUME NEW s \in Servers  PROVE DrainList(s)'
      BY <2>1, <2>4, <3>1, <3>2, ConstantsAssumption DEF ControlTypes, DrainList
    <3>. QED  BY <3>3, <3>5, <3>6 DEF RegistryInv
  <2>. QED  BY <1>3, <2>3, <2>4 DEF AllocMainAuthWrapper
<1>. QED  BY <1>1, <1>2, <1>3

\* runLoop and rpcRunLoop: a wrapper leaves the registry before it stops.
LEMMA LoopsKeepRegistry ==
    ASSUME RegistryInv, NEW w \in Wrappers, RunLoop(w) \/ RpcRunLoop(w)
    PROVE  RegistryInv'
<1>1. pc \in [Wrappers -> {"free", "top", "select", "delete", "stop", "closing",
                           "gone"}]
  BY DEF RegistryInv, ControlTypes
<1>2. CASE EnterSelect(w)
  BY <1>2, LoopKeepsRegistry DEF EnterSelect, registry, RegistryInv, ControlTypes
<1>3. CASE TakeEvent(w)
  <2>1. PICK p \in {"top", "select", "delete"} : pc' = [pc EXCEPT ![w] = p]
    BY <1>3 DEF TakeEvent, OnSessionData, OnSessionClosed, OnSyncData, Continue
  <2>. QED
    BY <1>3, <2>1, LoopKeepsRegistry DEF TakeEvent, registry, RegistryInv, ControlTypes
<1>4. CASE TakeResult(w)
  <2>1. PICK p \in {"top", "select", "delete"} : pc' = [pc EXCEPT ![w] = p]
    BY <1>4 DEF TakeResult, Continue
  <2>. QED
    BY <1>4, <2>1, LoopKeepsRegistry DEF TakeResult, registry, RegistryInv, ControlTypes
<1>5. CASE OnTimer(w)
  <2>1. PICK p \in {"top", "select", "delete"} : pc' = [pc EXCEPT ![w] = p]
    BY <1>5 DEF OnTimer, Continue
  <2>. QED
    BY <1>5, <2>1, LoopKeepsRegistry DEF OnTimer, registry, RegistryInv, ControlTypes
<1>6. CASE DeleteSelf(w)
  <2>. USE <1>6, ConstantsAssumption
       DEF DeleteSelf, DeleteByAuthKeyId, MuFree, RegistryInv
  <2>1. ControlTypes'
    BY DEF ControlTypes
  <2>2. RegisteredRuns'
    BY DEF ControlTypes, RegisteredRuns
  <2>3. ASSUME NEW s \in Servers  PROVE DrainList(s)'
    BY DEF ControlTypes, DrainList
  <2>. QED  BY <2>1, <2>2, <2>3
<1>7. CASE StopSelf(w)
  BY <1>7, ConstantsAssumption
     DEF StopSelf, registry, RegistryInv, ControlTypes, RegisteredRuns, DrainList
<1>8. CASE ExitLoop(w)
  BY <1>8, LoopKeepsRegistry, ConstantsAssumption
     DEF ExitLoop, registry, RegistryInv, ControlTypes, RegisteredRuns, DrainList
<1>9. CASE Finish(w)
  <2>1. \A s \in Servers : authMgr[s] # w
    BY <1>9, ConstantsAssumption DEF Finish, RegistryInv, RegisteredRuns
  <2>. QED
    BY <1>9, <2>1, LoopKeepsRegistry DEF Finish, registry, RegistryInv, ControlTypes
<1>10. CASE RpcRunLoop(w)
  BY <1>10, OthersKeepRegistry
     DEF RpcRunLoop, RpcExecute, RpcExit, RegistryInv, ControlTypes
<1>. QED
  BY <1>2, <1>3, <1>4, <1>5, <1>6, <1>7, <1>8, <1>9, <1>10 DEF RunLoop

\* The set of servers changes, and OnShardingCB evicts.
LEMMA ShardingKeepsRegistry ==
    ASSUME RegistryInv, NEW s \in Servers,
           Join(s) \/ Leave(s) \/ Update(s) \/ OnShardingCB(s) \/ Evict(s)
    PROVE  RegistryInv'
<1>1. CASE Join(s)
  BY <1>1 DEF Join, loop, RegistryInv, ControlTypes, RegisteredRuns, DrainList
<1>2. CASE Leave(s)
  BY <1>2, OthersKeepRegistry DEF Leave, RegistryInv, ControlTypes
<1>3. CASE Update(s)
  BY <1>3 DEF Update, loop, RegistryInv, ControlTypes, RegisteredRuns, DrainList
<1>4. CASE OnShardingCB(s)
  BY <1>4 DEF OnShardingCB, loop, RegistryInv, ControlTypes, RegisteredRuns, DrainList
<1>5. CASE Evict(s)
  <2>. USE <1>5, ConstantsAssumption DEF Evict, RegistryInv
  <2>1. ControlTypes'
    BY DEF ControlTypes
  <2>2. RegisteredRuns'
    BY DEF ControlTypes, RegisteredRuns
  <2>3. ASSUME NEW t \in Servers  PROVE DrainList(t)'
    BY DEF ControlTypes, DrainList
  <2>. QED  BY <2>1, <2>2, <2>3
<1>. QED  BY <1>1, <1>2, <1>3, <1>4, <1>5

\* Drain, and the end of a process.
LEMMA EndsKeepRegistry ==
    ASSUME RegistryInv, NEW s \in Servers, Drain(s) \/ Crash(s)
    PROVE  RegistryInv'
<1>1. CASE DrainLock(s)
  BY <1>1 DEF DrainLock, MuFree, loop, RegistryInv, ControlTypes, RegisteredRuns, DrainList
<1>2. CASE DrainUnlock(s)
  BY <1>2, ConstantsAssumption
     DEF DrainUnlock, loop, RegistryInv, ControlTypes, RegisteredRuns, DrainList
<1>3. CASE DrainStop(s)
  BY <1>3, ConstantsAssumption
     DEF DrainStop, RegistryInv, ControlTypes, RegisteredRuns, DrainList
<1>4. ASSUME NEW p \in {"drained", "down"}, EndProcess(s, p)
      PROVE  RegistryInv'
  BY <1>4, ConstantsAssumption
     DEF EndProcess, RegistryInv, ControlTypes, RegisteredRuns, DrainList
<1>. QED
  BY <1>1, <1>2, <1>3, <1>4 DEF Drain, DrainDone, DrainTimeout, Crash

\* Every step keeps the invariant.
LEMMA NextKeepsRegistry ==
    ASSUME RegistryInv, [Next]_vars
    PROVE  RegistryInv'
<1>1. CASE TimePasses
  BY <1>1, OthersKeepRegistry DEF TimePasses, RegistryInv, ControlTypes
<1>2. CASE UNCHANGED vars
  BY <1>2, OthersKeepRegistry DEF vars, RegistryInv, ControlTypes
<1>. QED
  BY <1>1, <1>2, CallsKeepRegistry, LoopsKeepRegistry, ShardingKeepsRegistry,
     EndsKeepRegistry DEF Next

\* The invariant holds initially and is kept.
THEOREM RegistryInvariance == Spec => []RegistryInv
<1>1. Init => RegistryInv
  BY ConstantsAssumption DEF Init, RegistryInv, ControlTypes, RegisteredRuns, DrainList
<1>. QED  BY <1>1, NextKeepsRegistry, PTL DEF Spec

\* A caller never gets a wrapper from the registry that is already stopping or
\* that belongs to another server (GetMainAuthWrapper).
THEOREM RegisteredWrappersRun == Spec => []RegisteredRuns
<1>1. RegistryInv => RegisteredRuns
  BY DEF RegistryInv
<1>. QED  BY <1>1, RegistryInvariance, PTL

-----------------------------------------------------------------------------
(***************************************************************************)
(* One wrapper serves the key.                                             *)
(***************************************************************************)

\* A wrapper that goes on serving is the registered one, unless a wrapper has
\* deleted another's entry or Drain has emptied the registry.
ServingRegistered ==
    \A s \in Servers : s \notin displaced /\ phase[s] \in {"up", "drain"} =>
        \A w \in ServingWrappers(s) : w = authMgr[s]

\* A process that has ended left no wrapper behind and answers no call, so that
\* the server starts with nothing when it joins again.
EndedProcesses ==
    /\ \A s \in Servers : phase[s] \in {"down", "drained"} =>
          \A w \in Wrappers : home[w] = s => pc[w] = "gone"
    /\ \A c \in calls : Serving(c.server)

ServingInv == RegistryInv /\ ServingRegistered /\ EndedProcesses

\* A step that ends no process and registers nothing: no wrapper starts to
\* serve, and an entry is deleted only with its wrapper or noted in displaced.
LEMMA FewerServing ==
    ASSUME ServingInv,
           UNCHANGED << phase, home >>,
           \A s \in Servers :
              ServingWrappers(s)' \subseteq ServingWrappers(s),
           displaced \subseteq displaced',
           \A s \in Servers : \/ authMgr'[s] = authMgr[s]
                              \/ s \in displaced'
                              \/ phase[s] \notin {"up", "drain"}
                              \/ ServingWrappers(s)' \subseteq {authMgr'[s]},
           \A w \in Wrappers : pc[w] = "gone" => pc'[w] = "gone",
           \A c \in calls' : Serving(c.server)
    PROVE  ServingRegistered' /\ EndedProcesses'
<1>1. ServingRegistered'
  BY DEF ServingInv, ServingRegistered
<1>2. EndedProcesses'
  BY DEF ServingInv, EndedProcesses, Serving
<1>. QED  BY <1>1, <1>2

\* Steps that leave the registry and the wrappers' control alone.
LEMMA OthersKeepServing ==
    ASSUME ServingInv,
           UNCHANGED << authMgr, phase, home, running, pc, displaced >>,
           \A c \in calls' : Serving(c.server)
    PROVE  ServingRegistered' /\ EndedProcesses'
BY FewerServing DEF ServingWrappers

\* The gRPC handlers: a handler allocates only where nothing is registered.
LEMMA CallsKeepServing ==
    ASSUME ServingInv,
           \/ \E s \in Servers : SessionSendDataToSession(s) \/ SessionCloseSession(s)
           \/ \E c \in calls : AllocMainAuthWrapper(c) \/ FetchFails(c) \/ Enqueue(c)
    PROVE  ServingRegistered' /\ EndedProcesses'
<1>1. \A d \in calls : Serving(d.server) /\ d.server \in Servers
  BY DEF ServingInv, EndedProcesses, RegistryInv, ControlTypes
<1>2. ASSUME NEW s \in Servers, SessionSendDataToSession(s) \/ SessionCloseSession(s)
      PROVE  ServingRegistered' /\ EndedProcesses'
  <2>1. PICK op, evs : Call(s, op, evs)
    BY <1>2 DEF SessionSendDataToSession, SessionCloseSession
  <2>2. \A c \in calls' : Serving(c.server)
    BY <1>1, <2>1 DEF Call, Handler
  <2>. QED  BY <2>1, <2>2, OthersKeepServing DEF Call, registry, loop, hist
<1>3. ASSUME NEW c \in calls, FetchFails(c) \/ Enqueue(c)
      PROVE  ServingRegistered' /\ EndedProcesses'
  <2>1. \A d \in calls' : Serving(d.server)
    BY <1>1, <1>3 DEF FetchFails, Enqueue, WithoutFirst, Handler
  <2>. QED
    BY <1>3, <2>1, OthersKeepServing DEF FetchFails, Enqueue, registry, loop, hist
<1>4. ASSUME NEW c \in calls, AllocMainAuthWrapper(c)
      PROVE  ServingRegistered' /\ EndedProcesses'
  <2>1. \A d \in calls' : Serving(d.server)
    BY <1>1, <1>4 DEF AllocMainAuthWrapper, WithTarget, Handler
  <2>2. CASE UNCHANGED << authMgr, loop, rpcPc >>
    BY <1>4, <2>1, <2>2, OthersKeepServing DEF AllocMainAuthWrapper, loop, hist
  <2>3. ASSUME NEW w \in Wrappers, pc[w] = "free", AllocNew(w, c.server)
        PROVE  ServingRegistered' /\ EndedProcesses'
    <3>1. /\ authMgr[c.server] = None
          /\ authMgr' = [authMgr EXCEPT ![c.server] = w]
          /\ home' = [home EXCEPT ![w] = c.server]
          /\ running' = [running EXCEPT ![w] = TRUE]
          /\ pc' = [pc EXCEPT ![w] = "top"]
          /\ UNCHANGED << phase, displaced >>
          /\ c.server \in Servers /\ Serving(c.server)
      BY <1>1, <1>4, <2>3 DEF AllocMainAuthWrapper, AllocNew, NewWrapper, hist
    <3>2. ControlTypes /\ ServingRegistered /\ EndedProcesses
      BY DEF ServingInv, RegistryInv
    <3>3. ASSUME NEW s \in Servers, s \notin displaced', phase'[s] \in {"up", "drain"},
                 NEW v \in ServingWrappers(s)'
          PROVE  v = authMgr'[s]
      <4>1. CASE v = w
        BY <3>1, <3>2, <3>3, <4>1 DEF ServingWrappers, ControlTypes
      <4>2. CASE v # w
        <5>1. v \in ServingWrappers(s)
          BY <3>1, <3>2, <3>3, <4>2 DEF ServingWrappers, ControlTypes
        <5>2. v = authMgr[s] /\ v \in Wrappers
          BY <3>1, <3>2, <3>3, <5>1 DEF ServingRegistered, ServingWrappers
        <5>3. s # c.server
          BY <3>1, <5>2, ConstantsAssumption
        <5>. QED  BY <3>1, <3>2, <5>2, <5>3 DEF ControlTypes
      <4>. QED  BY <4>1, <4>2
    <3>4. ASSUME NEW s \in Servers, phase'[s] \in {"down", "drained"},
                 NEW v \in Wrappers, home'[v] = s
          PROVE  pc'[v] = "gone"
      <4>1. v # w
        BY <3>1, <3>2, <3>4 DEF ControlTypes, Serving
      <4>. QED  BY <3>1, <3>2, <3>4, <4>1 DEF ControlTypes, EndedProcesses
    <3>5. ServingRegistered'
      BY <3>3 DEF ServingRegistered
    <3>6. EndedProcesses'
      BY <2>1, <3>1, <3>4 DEF EndedProcesses, Serving
    <3>. QED  BY <3>5, <3>6
  <2>. QED  BY <1>4, <2>2, <2>3 DEF AllocMainAuthWrapper
<1>. QED  BY <1>2, <1>3, <1>4

\* The loops: a wrapper goes on serving, or leaves the registry and stops.
LEMMA LoopsKeepServing ==
    ASSUME ServingInv, NEW w \in Wrappers, RunLoop(w) \/ RpcRunLoop(w)
    PROVE  ServingRegistered' /\ EndedProcesses'
<1>1. /\ pc \in [Wrappers -> {"free", "top", "select", "delete", "stop", "closing",
                              "gone"}]
      /\ running \in [Wrappers -> BOOLEAN]
      /\ authMgr \in [Servers -> Wrappers \cup {None}]
      /\ home \in [Wrappers -> Servers \cup {None}]
      /\ \A c \in calls : Serving(c.server)
  BY DEF ServingInv, EndedProcesses, RegistryInv, ControlTypes
<1>2. ASSUME UNCHANGED << authMgr, phase, home, running, displaced, calls >>,
             pc[w] \in {"top", "select", "closing"},
             NEW p \in {"top", "select", "delete", "closing", "gone"},
             pc' = [pc EXCEPT ![w] = p],
             pc[w] = "closing" => p = "gone"
      PROVE  ServingRegistered' /\ EndedProcesses'
  <2>1. \A s \in Servers : ServingWrappers(s)' \subseteq ServingWrappers(s)
    BY <1>1, <1>2 DEF ServingWrappers
  <2>. QED  BY <1>1, <1>2, <2>1, FewerServing
<1>3. CASE EnterSelect(w)
  BY <1>2, <1>3 DEF EnterSelect, registry, hist
<1>4. CASE TakeEvent(w)
  <2>1. PICK p \in {"top", "select", "delete"} : pc' = [pc EXCEPT ![w] = p]
    BY <1>4 DEF TakeEvent, OnSessionData, OnSessionClosed, OnSyncData, Continue
  <2>. QED  BY <1>2, <1>4, <2>1 DEF TakeEvent, registry, hist
<1>5. CASE TakeResult(w)
  <2>1. PICK p \in {"top", "select", "delete"} : pc' = [pc EXCEPT ![w] = p]
    BY <1>5 DEF TakeResult, Continue
  <2>. QED  BY <1>2, <1>5, <2>1 DEF TakeResult, registry, hist
<1>6. CASE OnTimer(w)
  <2>1. PICK p \in {"top", "select", "delete"} : pc' = [pc EXCEPT ![w] = p]
    BY <1>6 DEF OnTimer, Continue
  <2>. QED  BY <1>2, <1>6, <2>1 DEF OnTimer, registry, hist
<1>7. CASE DeleteSelf(w)
  <2>1. /\ pc[w] = "delete" /\ pc' = [pc EXCEPT ![w] = "stop"]
        /\ authMgr' = [authMgr EXCEPT ![home[w]] = None]
        /\ displaced' = IF authMgr[home[w]] \in {w, None} THEN displaced
                        ELSE displaced \cup {home[w]}
        /\ UNCHANGED << phase, home, running, calls >>
    BY <1>7 DEF DeleteSelf, DeleteByAuthKeyId
  <2>2. ASSUME NEW s \in Servers
        PROVE  /\ ServingWrappers(s)' \subseteq ServingWrappers(s)
               /\ \/ authMgr'[s] = authMgr[s]
                  \/ s \in displaced'
                  \/ phase[s] \notin {"up", "drain"}
                  \/ ServingWrappers(s)' \subseteq {authMgr'[s]}
    <3>1. ServingWrappers(s)' \subseteq ServingWrappers(s) \ {w}
      BY <1>1, <2>1 DEF ServingWrappers
    <3>2. CASE s = home[w] /\ authMgr[s] \in {w, None} /\ s \notin displaced
      BY <3>1, <3>2, ConstantsAssumption
         DEF ServingInv, ServingRegistered, ServingWrappers
    <3>3. CASE s # home[w] \/ authMgr[s] \notin {w, None} \/ s \in displaced
      BY <1>1, <2>1, <3>1, <3>3
    <3>. QED  BY <3>1, <3>2, <3>3
  <2>. QED  BY <1>1, <2>1, <2>2, FewerServing
<1>8. CASE StopSelf(w)
  <2>1. \A s \in Servers : ServingWrappers(s)' \subseteq ServingWrappers(s)
    BY <1>1, <1>8 DEF StopSelf, ServingWrappers
  <2>. QED
    BY <1>1, <1>8, <2>1, FewerServing DEF StopSelf, registry, hist
<1>9. CASE ExitLoop(w)
  BY <1>2, <1>9 DEF ExitLoop, registry, hist
<1>10. CASE Finish(w)
  BY <1>2, <1>10 DEF Finish, registry, hist
<1>11. CASE RpcRunLoop(w)
  BY <1>1, <1>11, OthersKeepServing
     DEF RpcRunLoop, RpcExecute, RpcExit, registry, loop, hist
<1>. QED
  BY <1>3, <1>4, <1>5, <1>6, <1>7, <1>8, <1>9, <1>10, <1>11 DEF RunLoop

\* The set of servers: OnShardingCB deletes and stops at once.
LEMMA ShardingKeepsServing ==
    ASSUME ServingInv, NEW s \in Servers,
           Join(s) \/ Leave(s) \/ Update(s) \/ OnShardingCB(s) \/ Evict(s)
    PROVE  ServingRegistered' /\ EndedProcesses'
<1>1. ControlTypes /\ \A c \in calls : Serving(c.server)
  BY DEF ServingInv, EndedProcesses, RegistryInv
<1>2. CASE Join(s)
  <2>1. /\ phase[s] \in {"up", "down", "drained"}
        /\ phase' = [phase EXCEPT ![s] = "up"]
        /\ UNCHANGED << authMgr, home, running, pc, calls, displaced >>
    BY <1>2 DEF Join, loop, hist
  <2>2. ServingRegistered'
    <3>1. ASSUME NEW t \in Servers, t \notin displaced', phase'[t] \in {"up", "drain"},
                 NEW w \in ServingWrappers(t)'
          PROVE  w = authMgr'[t]
      <4>1. w \in ServingWrappers(t) /\ pc[w] # "gone" /\ home[w] = t /\ w \in Wrappers
        BY <2>1, <3>1 DEF ServingWrappers
      <4>2. phase[t] \in {"up", "drain"}
        BY <1>1, <2>1, <3>1, <4>1 DEF ControlTypes, ServingInv, EndedProcesses
      <4>. QED  BY <2>1, <3>1, <4>1, <4>2 DEF ServingInv, ServingRegistered
    <3>. QED  BY <3>1 DEF ServingRegistered
  <2>3. EndedProcesses'
    BY <1>1, <2>1 DEF ControlTypes, ServingInv, EndedProcesses, Serving
  <2>. QED  BY <2>2, <2>3
<1>3. CASE Leave(s)
  BY <1>1, <1>3, OthersKeepServing DEF Leave, registry, loop, hist
<1>4. CASE Update(s)
  BY <1>1, <1>4, OthersKeepServing DEF Update, loop, hist
<1>5. CASE OnShardingCB(s)
  BY <1>1, <1>5, OthersKeepServing DEF OnShardingCB, loop, hist
<1>6. CASE Evict(s)
  <2>1. /\ authMgr' = [authMgr EXCEPT ![s] = None]
        /\ running' = [running EXCEPT ![authMgr[s]] = FALSE]
        /\ UNCHANGED << phase, home, pc, calls, displaced >>
    BY <1>6 DEF Evict, hist
  <2>2. ASSUME NEW t \in Servers
        PROVE  /\ ServingWrappers(t)' \subseteq ServingWrappers(t)
               /\ \/ authMgr'[t] = authMgr[t]
                  \/ t \in displaced'
                  \/ phase[t] \notin {"up", "drain"}
                  \/ ServingWrappers(t)' \subseteq {authMgr'[t]}
    <3>1. ServingWrappers(t)' \subseteq ServingWrappers(t) \ {authMgr[s]}
      BY <1>1, <2>1 DEF ControlTypes, ServingWrappers
    <3>. QED
      BY <1>1, <2>1, <3>1 DEF ControlTypes, ServingInv, ServingRegistered
  <2>. QED  BY <1>1, <2>1, <2>2, FewerServing
<1>. QED  BY <1>2, <1>3, <1>4, <1>5, <1>6

\* Drain, and the end of a process: nothing is claimed of a server from the
\* moment Drain gives up the mutex, and its wrappers end with the process.
LEMMA EndsKeepServing ==
    ASSUME ServingInv, NEW s \in Servers, Drain(s) \/ Crash(s)
    PROVE  ServingRegistered' /\ EndedProcesses'
<1>1. ControlTypes /\ ServingRegistered /\ EndedProcesses
  BY DEF ServingInv, RegistryInv
<1>2. ASSUME NEW p \in {"drain", "stop", "wait"}, phase' = [phase EXCEPT ![s] = p],
             phase[s] \in {"up", "drain", "stop"},
             p = "drain" => phase[s] = "up",
             UNCHANGED << home, pc, calls, displaced >>,
             authMgr' = authMgr \/ (p = "stop" /\ authMgr' = [authMgr EXCEPT ![s] = None]),
             \A w \in Wrappers : running'[w] => running[w]
      PROVE  ServingRegistered' /\ EndedProcesses'
  <2>1. \A t \in Servers : ServingWrappers(t)' \subseteq ServingWrappers(t)
    BY <1>2 DEF ServingWrappers
  <2>2. ServingRegistered'
    BY <1>1, <1>2, <2>1 DEF ControlTypes, ServingRegistered
  <2>3. EndedProcesses'
    BY <1>1, <1>2 DEF ControlTypes, EndedProcesses, Serving
  <2>. QED  BY <2>2, <2>3
<1>3. CASE DrainLock(s)
  BY <1>2, <1>3 DEF DrainLock, loop, hist
<1>4. CASE DrainUnlock(s)
  BY <1>2, <1>4 DEF DrainUnlock, loop, hist
<1>5. CASE DrainStop(s)
  <2>1. \A w \in Wrappers : running'[w] => running[w]
    BY <1>1, <1>5 DEF DrainStop, ControlTypes
  <2>. QED  BY <1>2, <1>5, <2>1 DEF DrainStop, hist
<1>6. ASSUME NEW p \in {"drained", "down"}, EndProcess(s, p)
      PROVE  ServingRegistered' /\ EndedProcesses'
  <2>1. /\ phase' = [phase EXCEPT ![s] = p]
        /\ authMgr' = [authMgr EXCEPT ![s] = None]
        /\ calls' = { c \in calls : c.server # s }
        /\ UNCHANGED << home, running, displaced >>
        /\ \A w \in Wrappers : /\ home[w] = s => pc'[w] = "gone"
                               /\ home[w] # s => pc'[w] = pc[w]
    BY <1>6 DEF EndProcess
  <2>2. ServingRegistered'
    BY <1>1, <2>1 DEF ControlTypes, ServingRegistered, ServingWrappers
  <2>3. EndedProcesses'
    BY <1>1, <2>1 DEF ControlTypes, EndedProcesses, Serving
  <2>. QED  BY <2>2, <2>3
<1>. QED
  BY <1>3, <1>4, <1>5, <1>6 DEF Drain, DrainDone, DrainTimeout, Crash

\* Every step keeps the invariant.
LEMMA NextKeepsServing ==
    ASSUME ServingInv, [Next]_vars
    PROVE  ServingInv'
<1>1. RegistryInv'
  BY NextKeepsRegistry DEF ServingInv
<1>2. CASE TimePasses \/ UNCHANGED vars
  <2>1. /\ UNCHANGED << authMgr, phase, home, running, pc, displaced, calls >>
        /\ \A c \in calls : Serving(c.server)
    BY <1>2 DEF TimePasses, vars, registry, loop, hist, ServingInv, EndedProcesses
  <2>. QED  BY <1>1, <2>1, OthersKeepServing DEF ServingInv
<1>. QED
  BY <1>1, <1>2, CallsKeepServing, LoopsKeepServing, ShardingKeepsServing,
     EndsKeepServing DEF Next, ServingInv

\* While a server is up one wrapper at a time serves the key, however calls
\* race with its end, unless a wrapper has deleted another's entry.
THEOREM OneWrapperServes == Spec => []OneServing
<1>1. Init => ServingInv
  <2>1. Init => RegistryInv
    BY ConstantsAssumption DEF Init, RegistryInv, ControlTypes, RegisteredRuns, DrainList
  <2>. QED
    BY <2>1 DEF Init, ServingInv, ServingRegistered, EndedProcesses, ServingWrappers
<1>2. ServingInv => OneServing
  <2>1. ASSUME ServingInv, NEW s \in Servers, s \notin displaced, phase[s] = "up"
        PROVE  Cardinality(ServingWrappers(s)) <= 1
    <3>1. ServingWrappers(s) \subseteq {authMgr[s]}
      BY <2>1 DEF ServingInv, ServingRegistered
    <3>2. IsFiniteSet({authMgr[s]}) /\ Cardinality({authMgr[s]}) = 1
      BY FS_Singleton
    <3>3. /\ IsFiniteSet(ServingWrappers(s))
          /\ Cardinality(ServingWrappers(s)) <= Cardinality({authMgr[s]})
      BY <3>1, <3>2, FS_Subset
    <3>. QED  BY <3>2, <3>3
  <2>. QED  BY <2>1 DEF OneServing
<1>. QED  BY <1>1, <1>2, NextKeepsServing, PTL DEF Spec
=============================================================================
