--------------------------- MODULE SyncPushProofs ---------------------------
(***************************************************************************)
(* The fan-out of updates for every number of users, servers, goroutines   *)
(* and places: what a client accepts is lost only with it, no push is      *)
(* executed more often than its event was handled, and the clients follow  *)
(* the list of servers.                                                    *)
(***************************************************************************)
EXTENDS SyncPush, FiniteSetTheorems, SequenceTheorems, TLAPS

-----------------------------------------------------------------------------
(***************************************************************************)
(* Types.                                                                  *)
(***************************************************************************)

\* Kafka keeps no more events than the bound, each with a count of how often
\* it was handled, and the next one to handle is one of them or the one after.
Numbered ==
    \A u \in Users :
        /\ Len(events[u]) <= MaxEvents
        /\ Len(handled[u]) = Len(events[u])
        /\ next[u] <= Len(events[u]) + 1

Inv1 == TypeOK /\ Numbered

\* What TypeOK says of single variables.
LEMMA ChannelTypes ==
    ASSUME TypeOK
    PROVE  /\ sessionChan \in [Clients -> [Routines -> Seq(Pushes)]]
           /\ calling \in [Clients -> [Routines -> SUBSET Pushes]]
           /\ left \in [Users -> SUBSET Pushes]
           /\ putting \in [Users -> SUBSET PutType]
           /\ accepted \in [Clients -> SUBSET Pushes]
           /\ arrivals \in [Pushes -> Nat]
           /\ turn \in [Clients -> 0 .. RoutineSize - 1]
           /\ sessionServers \in [Servers -> 0 .. MaxClients]
           /\ update \in [Watchers -> UpdateType]
           /\ made \in 0 .. MaxClients
BY Zenon DEF TypeOK

LEMMA CallingExcept ==
    ASSUME TypeOK, NEW c \in Clients, NEW i \in Routines, NEW S \in SUBSET Pushes
    PROVE  [calling EXCEPT ![c][i] = S] \in [Clients -> [Routines -> SUBSET Pushes]]
<1>1. [calling[c] EXCEPT ![i] = S] \in [Routines -> SUBSET Pushes]
  BY ChannelTypes
<1>. QED  BY <1>1, ChannelTypes

LEMMA QueueTypes ==
    ASSUME TypeOK, NEW u \in Users
    PROVE  /\ events[u] \in Seq(EventType) /\ Len(events[u]) \in Nat
           /\ handled[u] \in Seq(Nat) /\ Len(handled[u]) \in Nat
           /\ next[u] \in Nat \ {0} /\ committed[u] \in Nat
<1>1. /\ events[u] \in Seq(EventType) /\ handled[u] \in Seq(Nat)
      /\ next[u] \in Nat \ {0} /\ committed[u] \in Nat
  BY DEF TypeOK
<1>. QED  BY <1>1

LEMMA CountType ==
    ASSUME NEW s \in Seq(Nat), NEW i \in 1 .. Len(s), NEW n \in Nat
    PROVE  [s EXCEPT ![i] = n] \in Seq(Nat) /\ Len([s EXCEPT ![i] = n]) = Len(s)
           /\ \A j \in 1 .. Len(s) : [s EXCEPT ![i] = n][j] = IF j = i THEN n ELSE s[j]
BY ExceptSeq

LEMMA InitInv1 == Init => Inv1
<1>. SUFFICES ASSUME Init PROVE Inv1
  OBVIOUS
<1>1. Still \in UpdateType
  BY DEF Still, UpdateType
<1>2. Numbered
  BY ConstantsAssumption DEF Init, Numbered
<1>3. /\ events \in [Users -> Seq(EventType)] /\ handled \in [Users -> Seq(Nat)]
      /\ next \in [Users -> Nat \ {0}] /\ committed \in [Users -> Nat]
      /\ left \in [Users -> SUBSET Pushes]
      /\ putting \in [Users -> SUBSET PutType]
  BY DEF Init
<1>4. /\ sessionChan \in [Clients -> [Routines -> Seq(Pushes)]]
      /\ \A c \in Clients, i \in Routines : sessionChan[c][i] = << >>
      /\ calling \in [Clients -> [Routines -> SUBSET Pushes]]
      /\ accepted \in [Clients -> SUBSET Pushes]
  BY DEF Init
<1>5. /\ made \in 0 .. MaxClients /\ sessionServers \in [Servers -> 0 .. MaxClients]
      /\ turn \in [Clients -> 0 .. RoutineSize - 1]
      /\ arrivals \in [Pushes -> Nat]
      /\ update \in [Watchers -> UpdateType]
  BY <1>1, ConstantsAssumption DEF Init
<1>6. \A c \in Clients, i \in Routines : Len(sessionChan[c][i]) <= ChanSize
  BY <1>4, ConstantsAssumption
<1>7. /\ status \in [Keys -> Servers \cup {Nowhere}] /\ listed \subseteq Servers
      /\ unavailable \subseteq Clients /\ cancelled \subseteq Clients
      /\ ended \subseteq Clients \X Routines /\ due \subseteq Watchers
      /\ moves \in Nat /\ faults \in Nat /\ refused \subseteq Pushes
      /\ outdated \in BOOLEAN
  BY ConstantsAssumption DEF Init, Watchers
<1>. QED  BY <1>2, <1>3, <1>4, <1>5, <1>6, <1>7 DEF Inv1, TypeOK

LEMMA TargetsType ==
    ASSUME Inv1, NEW u \in Users, next[u] <= Len(events[u])
    PROVE  \A p \in Targets(u, events[u][next[u]]) :
              p \in Pushes /\ p.user = u /\ p.nr = next[u]
<1>. DEFINE e == events[u][next[u]]
            To(k, s) == [user |-> u, nr |-> next[u], key |-> k, server |-> s]
<1>1. next[u] \in 1 .. MaxEvents /\ e \in EventType
  BY QueueTypes, ConstantsAssumption DEF Inv1, Numbered
<1>2. \A k \in Keys, s \in Servers :
         To(k, s) \in Pushes /\ To(k, s).user = u /\ To(k, s).nr = next[u]
  BY <1>1 DEF Pushes
<1>3. status \in [Keys -> Servers \cup {Nowhere}]
  BY DEF Inv1, TypeOK
<1>4. e.key \in Keys /\ e.server \in Servers \cup {Nowhere}
  BY <1>1 DEF EventType
<1>. HIDE DEF e
<1>5. ASSUME NEW p \in Targets(u, e)
      PROVE  \E k \in Keys, s \in Servers : p = To(k, s)
  BY <1>3, <1>4 DEF Targets
<1>. QED  BY <1>2, <1>5 DEF e

\* A goroutine of a client is chosen by the counter.
LEMMA TurnType ==
    ASSUME NEW t \in 0 .. RoutineSize - 1
    PROVE  (t + 1) % RoutineSize \in 0 .. RoutineSize - 1
           /\ ((t + 1) % RoutineSize) + 1 \in Routines
<1>1. \A n \in Nat \ {0} : \A m \in Nat : m % n \in 0 .. n - 1
  OBVIOUS
<1>. QED  BY <1>1, ConstantsAssumption DEF Routines

\* After the list is taken over update() only closes clients.
LEMMA ClosingType ==
    ASSUME NEW removed \in SUBSET Clients
    PROVE  Closing(removed) \in UpdateType /\ Closing(removed).pc # "read"
BY DEF Closing, UpdateType, Still

\* The list is taken over with a client for each of its servers and no other.
LEMMA ApplyTypes ==
    ASSUME TypeOK, NEW w \in Watchers, ApplyList(w)
    PROVE  /\ made' \in 0 .. MaxClients
           /\ sessionServers' \in [Servers -> 0 .. MaxClients]
           /\ update' \in [Watchers -> UpdateType] /\ outdated' \in BOOLEAN
           /\ update[w].pc = "read" /\ update'[w].pc # "read"
           /\ Known' = update[w].values
           /\ outdated' = (w = "first" /\ update[w].values # listed)
           /\ \A v \in Watchers : v # w => update'[v] = update[v]
           /\ UNCHANGED << due, listed >>
<1>. DEFINE values == update[w].values
            new == values \ Known
            removed == { sessionServers[s] : s \in Known \ values }
            last == made + Cardinality(new)
<1>1. update[w] \in UpdateType /\ made \in Nat
      /\ sessionServers \in [Servers -> 0 .. MaxClients]
  BY ChannelTypes, ConstantsAssumption
<1>2. values \subseteq Servers /\ new \subseteq values
  BY <1>1 DEF UpdateType
<1>3. /\ last <= MaxClients /\ made' = last
      /\ update[w].pc = "read"
      /\ update' = [update EXCEPT ![w] = Closing(removed)]
      /\ outdated' = (w = "first" /\ values # listed)
      /\ UNCHANGED << due, listed >>
  BY DEF ApplyList, world
<1>4. PICK client \in Bijection(new, made + 1 .. last) :
        sessionServers' = NewMap(values, new, client)
  BY DEF ApplyList
<1>5. client \in [new -> made + 1 .. last]
  BY DEF Bijection, Injection, Surjection
<1>6. last \in Nat /\ made + 1 .. last \subseteq 1 .. MaxClients
  <2>1. IsFiniteSet(new)
    BY <1>2, FS_Subset, ConstantsAssumption
  <2>2. Cardinality(new) \in Nat
    BY <2>1, FS_CardinalityType
  <2>. HIDE DEF new
  <2>. QED  BY <1>1, <1>3, <2>2, ConstantsAssumption
<1>. HIDE DEF new, last
<1>7. \A s \in new : client[s] \in 1 .. MaxClients
  BY <1>5, <1>6
<1>8. sessionServers' \in [Servers -> 0 .. MaxClients]
  BY <1>1, <1>4, <1>7, ConstantsAssumption DEF NewMap
<1>9. Known' = values
  <2>1. \A s \in Servers : s \in values /\ s \notin new => sessionServers[s] # 0
    BY DEF new, Known
  <2>2. \A s \in Servers : sessionServers'[s] # 0 <=> s \in values
    BY <1>1, <1>2, <1>4, <1>7, <2>1 DEF NewMap
  <2>. QED  BY <1>2, <2>2 DEF Known
<1>10. removed \subseteq Clients
  <2>1. \A s \in Servers : sessionServers[s] # 0 => sessionServers[s] \in 1 .. MaxClients
    BY <1>1
  <2>. QED  BY <2>1 DEF Known, Clients
<1>. HIDE DEF removed
<1>11. Closing(removed) \in UpdateType /\ Closing(removed).pc # "read"
  BY <1>10, ClosingType
<1>12. update' \in [Watchers -> UpdateType] /\ update'[w].pc # "read"
       /\ \A v \in Watchers : v # w => update'[v] = update[v]
  BY <1>3, <1>11, ChannelTypes
<1>. QED  BY <1>1, <1>3, <1>6, <1>8, <1>9, <1>12, ConstantsAssumption

LEMMA NextInv1 == ASSUME Inv1, [Next]_vars  PROVE  Inv1'
<1>. USE DEF Inv1
<1>1. ASSUME NEW k \in Keys, Move(k)  PROVE  Inv1'
  BY <1>1 DEF Move, TypeOK, Numbered, kafka, handlers, clients, watch, history
<1>2. CASE ListChanges
  <2>1. listed' \subseteq Servers /\ due' \subseteq Watchers /\ moves' \in Nat
    BY <1>2 DEF ListChanges, TypeOK, Watchers
  <2>. QED  BY <1>2, <2>1 DEF ListChanges, TypeOK, Numbered, kafka, handlers,
                clients, history
<1>3. ASSUME NEW u \in Users, Ask(u)  PROVE  Inv1'
  <2>1. PICK e \in EventType :
          /\ events' = [events EXCEPT ![u] = Append(@, e)]
          /\ handled' = [handled EXCEPT ![u] = Append(@, 0)]
    BY <1>3 DEF Ask
  <2>2. events' \in [Users -> Seq(EventType)] /\ handled' \in [Users -> Seq(Nat)]
    BY <2>1 DEF TypeOK
  <2>3. ASSUME NEW v \in Users
        PROVE  /\ Len(events'[v]) <= MaxEvents
               /\ Len(handled'[v]) = Len(events'[v])
               /\ next[v] <= Len(events'[v]) + 1
    <3>1. /\ events[v] \in Seq(EventType) /\ handled[v] \in Seq(Nat)
          /\ Len(events[v]) \in Nat /\ next[v] \in Nat
      BY QueueTypes
    <3>2. CASE v = u
      <4>1. /\ events'[v] = Append(events[v], e)
            /\ handled'[v] = Append(handled[v], 0)
        BY <2>1, <3>2 DEF TypeOK
      <4>2. /\ Len(events'[v]) = Len(events[v]) + 1
            /\ Len(handled'[v]) = Len(handled[v]) + 1
        BY <3>1, <4>1
      <4>3. Len(events[v]) < MaxEvents
        BY <1>3, <3>2 DEF Ask
      <4>4. /\ Len(handled[v]) = Len(events[v]) /\ next[v] <= Len(events[v]) + 1
            /\ Len(events[v]) < MaxEvents
        BY <3>2, <4>3 DEF Numbered
      <4>. HIDE DEF Inv1
      <4>. QED  BY <3>1, <4>2, <4>4, ConstantsAssumption
    <3>3. CASE v # u
      BY <2>1, <3>3 DEF TypeOK, Numbered
    <3>. QED  BY <3>2, <3>3
  <2>. QED  BY <1>3, <2>2, <2>3 DEF Ask, TypeOK, Numbered, world, clients, watch,
                history
<1>4. ASSUME NEW u \in Users, Handle(u)  PROVE  Inv1'
  <2>1. left' \in [Users -> SUBSET Pushes]
    <3>1. Targets(u, events[u][next[u]]) \in SUBSET Pushes
      BY <1>4, TargetsType DEF Handle
    <3>2. \/ left' = left
          \/ left' = [left EXCEPT ![u] = Targets(u, events[u][next[u]])]
      BY <1>4 DEF Handle
    <3>. QED  BY <3>1, <3>2, ChannelTypes
  <2>2. next' \in [Users -> Nat \ {0}]
    BY <1>4 DEF Handle, TypeOK
  <2>3. faults' \in Nat
    BY <1>4 DEF Handle, TypeOK
  <2>4. /\ next[u] \in 1 .. Len(handled[u]) /\ handled[u] \in Seq(Nat)
        /\ handled[u][next[u]] + 1 \in Nat
    BY <1>4, QueueTypes DEF Handle, Numbered
  <2>5. DEFINE h == [handled[u] EXCEPT ![next[u]] = handled[u][next[u]] + 1]
  <2>6. h \in Seq(Nat) /\ Len(h) = Len(handled[u])
    BY <2>4, CountType
  <2>7. handled' = [handled EXCEPT ![u] = h]
    BY <1>4 DEF Handle
  <2>. HIDE DEF h
  <2>8. handled' \in [Users -> Seq(Nat)]
        /\ \A v \in Users : Len(handled'[v]) = Len(handled[v])
    BY <2>6, <2>7 DEF TypeOK
  <2>9. ASSUME NEW v \in Users  PROVE  next'[v] <= Len(events[v]) + 1
    <3>1. /\ next[u] <= Len(events[u]) /\ next' = [next EXCEPT ![u] = @ + 1]
          /\ next \in [Users -> Nat \ {0}] /\ next[v] <= Len(events[v]) + 1
      BY <1>4 DEF Handle, Numbered, TypeOK
    <3>2. next'[v] = IF v = u THEN next[v] + 1 ELSE next[v]
      BY <3>1
    <3>. QED  BY <3>1, <3>2, QueueTypes
  <2>. QED  BY <1>4, <2>1, <2>2, <2>3, <2>8, <2>9
            DEF Handle, TypeOK, Numbered, world, clients, watch, history
<1>5. ASSUME NEW u \in Users, PickPush(u)  PROVE  Inv1'
  <2>1. PICK p \in left[u] :
          LET c == sessionServers[p.server]
          IN  /\ left' = [left EXCEPT ![u] = @ \ {p}]
              /\ \/ UNCHANGED << putting, turn >>
                 \/ /\ c # 0
                    /\ turn' = [turn EXCEPT ![c] = (@ + 1) % RoutineSize]
                    /\ putting' = [putting EXCEPT ![u] =
                           {[push |-> p, client |-> c, routine |-> turn'[c] + 1]}]
    BY <1>5 DEF PickPush
  <2>. DEFINE c == sessionServers[p.server]
  <2>2. p \in Pushes /\ left' \in [Users -> SUBSET Pushes]
    BY <2>1, ChannelTypes
  <2>3. p.server \in Servers
    BY <2>2 DEF Pushes
  <2>4. ASSUME c # 0, turn' = [turn EXCEPT ![c] = (@ + 1) % RoutineSize],
               putting' = [putting EXCEPT ![u] =
                   {[push |-> p, client |-> c, routine |-> turn'[c] + 1]}]
        PROVE  /\ turn' \in [Clients -> 0 .. RoutineSize - 1]
               /\ putting' \in [Users -> SUBSET PutType]
    <3>1. c \in Clients
      BY <2>3, <2>4, ChannelTypes DEF Clients
    <3>2. turn[c] \in 0 .. RoutineSize - 1
          /\ turn'[c] = (turn[c] + 1) % RoutineSize
      BY <2>4, <3>1, ChannelTypes
    <3>3. turn'[c] \in 0 .. RoutineSize - 1 /\ turn'[c] + 1 \in Routines
      BY <3>2, TurnType
    <3>4. [push |-> p, client |-> c, routine |-> turn'[c] + 1] \in PutType
      BY <2>2, <3>1, <3>3 DEF PutType
    <3>. HIDE DEF c
    <3>5. turn' \in [Clients -> 0 .. RoutineSize - 1]
      BY <2>4, <3>2, <3>3, ChannelTypes
    <3>. QED  BY <2>4, <3>4, <3>5, ChannelTypes
  <2>5. /\ turn' \in [Clients -> 0 .. RoutineSize - 1]
        /\ putting' \in [Users -> SUBSET PutType]
    BY <2>1, <2>4, ChannelTypes
  <2>. QED  BY <1>5, <2>2, <2>5
            DEF PickPush, TypeOK, Numbered, kafka, world, watch, history
<1>6. ASSUME NEW u \in Users, PutPush(u)  PROVE  Inv1'
  <2>1. PICK q \in putting[u] :
          /\ Len(sessionChan[q.client][q.routine]) < ChanSize
          /\ sessionChan' =
                [sessionChan EXCEPT ![q.client][q.routine] = Append(@, q.push)]
          /\ putting' = [putting EXCEPT ![u] = {}]
          /\ accepted' = [accepted EXCEPT ![q.client] = @ \cup {q.push}]
    BY <1>6 DEF PutPush
  <2>2. q \in PutType
    BY ChannelTypes
  <2>3. q.client \in Clients /\ q.routine \in Routines /\ q.push \in Pushes
    BY <2>2 DEF PutType
  <2>4. /\ sessionChan' \in [Clients -> [Routines -> Seq(Pushes)]]
        /\ putting' \in [Users -> SUBSET PutType]
        /\ accepted' \in [Clients -> SUBSET Pushes]
    BY <2>1, <2>3, ChannelTypes
  <2>5. ASSUME NEW c \in Clients, NEW i \in Routines
        PROVE  Len(sessionChan'[c][i]) <= ChanSize
    <3>1. sessionChan[c][i] \in Seq(Pushes) /\ Len(sessionChan[c][i]) <= ChanSize
      BY DEF TypeOK
    <3>2. CASE c = q.client /\ i = q.routine
      <4>1. sessionChan'[c][i] = Append(sessionChan[c][i], q.push)
        BY <2>1, <2>3, <3>2, ChannelTypes
      <4>2. /\ Len(sessionChan'[c][i]) = Len(sessionChan[c][i]) + 1
            /\ Len(sessionChan[c][i]) < ChanSize /\ Len(sessionChan[c][i]) \in Nat
        BY <2>1, <3>1, <3>2, <4>1
      <4>3. ChanSize \in Nat
        BY ConstantsAssumption, Zenon
      <4>. QED  BY ONLY <4>2, <4>3
    <3>3. CASE ~(c = q.client /\ i = q.routine)
      <4>1. sessionChan'[c][i] = sessionChan[c][i]
        BY <2>1, <2>3, <3>3, ChannelTypes
      <4>. QED  BY <3>1, <4>1
    <3>. QED  BY <3>2, <3>3
  <2>. QED  BY <1>6, <2>4, <2>5
            DEF PutPush, TypeOK, Numbered, kafka, world, watch
<1>7. ASSUME NEW c \in Clients, NEW i \in Routines, TakePush(c, i)
      PROVE  Inv1'
  <2>1. sessionChan[c][i] \in Seq(Pushes) /\ sessionChan[c][i] # << >>
    BY <1>7, ChannelTypes DEF TakePush
  <2>2. /\ Head(sessionChan[c][i]) \in Pushes
        /\ Tail(sessionChan[c][i]) \in Seq(Pushes)
        /\ Len(Tail(sessionChan[c][i])) <= Len(sessionChan[c][i])
    BY <2>1
  <2>3. sessionChan' = [sessionChan EXCEPT ![c][i] = Tail(@)]
    BY <1>7 DEF TakePush
  <2>4. sessionChan' \in [Clients -> [Routines -> Seq(Pushes)]]
    BY <2>2, <2>3, ChannelTypes
  <2>5. ASSUME NEW d \in Clients, NEW j \in Routines
        PROVE  Len(sessionChan'[d][j]) <= ChanSize
    <3>1. Len(sessionChan[d][j]) <= ChanSize /\ Len(sessionChan[d][j]) \in Nat
      BY ChannelTypes DEF TypeOK
    <3>2. CASE d = c /\ j = i
      <4>1. sessionChan'[d][j] = Tail(sessionChan[d][j])
        BY <2>3, <3>2, ChannelTypes
      <4>2. Len(Tail(sessionChan[d][j])) \in Nat
            /\ Len(Tail(sessionChan[d][j])) <= Len(sessionChan[d][j])
        BY <2>1, <2>2, <3>2
      <4>. QED  BY <3>1, <4>1, <4>2, ConstantsAssumption
    <3>3. CASE ~(d = c /\ j = i)
      <4>1. sessionChan'[d][j] = sessionChan[d][j]
        BY <2>3, <3>3, ChannelTypes
      <4>. QED  BY <3>1, <4>1
    <3>. QED  BY <3>2, <3>3
  <2>6. calling' \in [Clients -> [Routines -> SUBSET Pushes]]
    <3>1. {Head(sessionChan[c][i])} \in SUBSET Pushes
      BY <2>2
    <3>2. \/ calling' = calling
          \/ calling' = [calling EXCEPT ![c][i] = {Head(sessionChan[c][i])}]
      BY <1>7 DEF TakePush
    <3>3. [calling EXCEPT ![c][i] = {Head(sessionChan[c][i])}]
            \in [Clients -> [Routines -> SUBSET Pushes]]
      BY <3>1, CallingExcept
    <3>. QED  BY <3>2, <3>3, ChannelTypes
  <2>. QED  BY <1>7, <2>4, <2>5, <2>6
            DEF TakePush, TypeOK, Numbered, handlers, kafka, world, watch, history
<1>8. ASSUME NEW c \in Clients, NEW i \in Routines, EndRoutine(c, i)
      PROVE  Inv1'
  <2>1. ended' \subseteq Clients \X Routines
    BY <1>8 DEF EndRoutine, TypeOK
  <2>. QED  BY <1>8, <2>1 DEF EndRoutine, TypeOK, Numbered, handlers, kafka,
                world, watch, history
<1>9. ASSUME NEW c \in Clients, NEW i \in Routines,
             CallReturns(c, i) \/ CallRefused(c, i) \/ CallFails(c, i)
      PROVE  Inv1'
  <2>1. calling' \in [Clients -> [Routines -> SUBSET Pushes]]
    <3>1. calling' = [calling EXCEPT ![c][i] = {}]
      BY <1>9 DEF CallReturns, CallRefused, CallFails
    <3>. QED  BY <3>1, CallingExcept
  <2>2. \A p \in calling[c][i] : p \in Pushes
    BY ChannelTypes
  <2>3. arrivals' \in [Pushes -> Nat]
    <3>1. \/ arrivals' = arrivals
          \/ \E p \in calling[c][i] : arrivals' = [arrivals EXCEPT ![p] = @ + 1]
      BY <1>9 DEF CallReturns, CallRefused, CallFails
    <3>2. ASSUME NEW p \in Pushes
          PROVE  [arrivals EXCEPT ![p] = @ + 1] \in [Pushes -> Nat]
      BY ChannelTypes
    <3>. QED  BY <2>2, <3>1, <3>2, ChannelTypes
  <2>4. refused' \subseteq Pushes /\ unavailable' \subseteq Clients /\ faults' \in Nat
    BY <1>9, <2>2 DEF CallReturns, CallRefused, CallFails, Fault, TypeOK
  <2>. QED  BY <1>9, <2>1, <2>3, <2>4
            DEF CallReturns, CallRefused, CallFails, TypeOK, Numbered, handlers,
                kafka, world, watch
<1>10. ASSUME NEW w \in Watchers, ReadList(w)  PROVE  Inv1'
  <2>1. listed \subseteq Servers /\ due' \subseteq Watchers
    BY <1>10 DEF ReadList, TypeOK
  <2>2. [pc |-> "read", values |-> listed, removed |-> {}] \in UpdateType
    BY <2>1 DEF UpdateType, TypeOK
  <2>3. update' \in [Watchers -> UpdateType]
    BY <1>10, <2>2, ChannelTypes DEF ReadList
  <2>. QED  BY <1>10, <2>1, <2>3
            DEF ReadList, TypeOK, Numbered, handlers, kafka, world, clients, history
<1>11. ASSUME NEW w \in Watchers, ApplyList(w)  PROVE  Inv1'
  <2>1. /\ made' \in 0 .. MaxClients
        /\ sessionServers' \in [Servers -> 0 .. MaxClients]
        /\ update' \in [Watchers -> UpdateType] /\ outdated' \in BOOLEAN
    BY <1>11, ApplyTypes
  <2>. QED  BY <1>11, <2>1
            DEF ApplyList, TypeOK, Numbered, handlers, kafka, world, history
<1>12. ASSUME NEW w \in Watchers, ApplyFails(w)  PROVE  Inv1'
  <2>1. Still \in UpdateType
    BY DEF Still, UpdateType
  <2>2. update' \in [Watchers -> UpdateType] /\ faults' \in Nat
    BY <1>12, <2>1 DEF ApplyFails, Fault, TypeOK
  <2>. QED  BY <1>12, <2>2
            DEF ApplyFails, TypeOK, Numbered, handlers, kafka, world, clients, history
<1>13. ASSUME NEW w \in Watchers, CloseClient(w)  PROVE  Inv1'
  <2>1. PICK c \in update[w].removed :
          /\ cancelled' = cancelled \cup {c}
          /\ update' = [update EXCEPT ![w] = Closing(@.removed \ {c})]
    BY <1>13 DEF CloseClient
  <2>2. update[w] \in UpdateType
    BY ChannelTypes
  <2>3. c \in Clients /\ Closing(update[w].removed \ {c}) \in UpdateType
    BY <2>2, ClosingType DEF UpdateType
  <2>4. update' \in [Watchers -> UpdateType]
    BY <2>1, <2>3, ChannelTypes
  <2>5. cancelled' \subseteq Clients
    BY <2>1, <2>3 DEF TypeOK
  <2>. QED  BY <1>13, <2>4, <2>5
            DEF CloseClient, TypeOK, Numbered, handlers, kafka, world, history
<1>14. CASE Restart
  <2>1. /\ next' \in [Users -> Nat \ {0}] /\ committed' \in [Users -> Nat]
        /\ \A u \in Users : next'[u] <= Len(events[u]) + 1
    <3>1. committed' \in [Users -> 0 .. MaxEvents]
          /\ next' = [u \in Users |-> committed'[u] + 1]
      BY <1>14 DEF Restart
    <3>2. ASSUME NEW u \in Users  PROVE  committed'[u] <= Len(events[u])
      <4>1. committed'[u] \in committed[u] .. Returned(u)
        BY <1>14 DEF Restart
      <4>. QED  BY <4>1, QueueTypes DEF Returned, Numbered
    <3>3. \A u \in Users : committed'[u] \in Nat /\ Len(events[u]) \in Nat
      BY <3>1, QueueTypes, ConstantsAssumption
    <3>. QED  BY <3>1, <3>2, <3>3
  <2>2. Still \in UpdateType /\ faults' \in Nat
    BY <1>14 DEF Still, UpdateType, Restart, Fault, TypeOK
  <2>3. /\ left' \in [Users -> SUBSET Pushes]
        /\ putting' \in [Users -> SUBSET PutType]
        /\ accepted' \in [Clients -> SUBSET Pushes]
        /\ calling' \in [Clients -> [Routines -> SUBSET Pushes]]
        /\ sessionChan' \in [Clients -> [Routines -> Seq(Pushes)]]
        /\ \A c \in Clients, i \in Routines : sessionChan'[c][i] = << >>
    BY <1>14 DEF Restart
  <2>4. \A c \in Clients, i \in Routines : Len(sessionChan'[c][i]) <= ChanSize
    BY <2>3, ConstantsAssumption
  <2>5. /\ made' \in 0 .. MaxClients /\ sessionServers' \in [Servers -> 0 .. MaxClients]
        /\ turn' \in [Clients -> 0 .. RoutineSize - 1]
        /\ update' \in [Watchers -> UpdateType] /\ due' \subseteq Watchers
    BY <1>14, <2>2, ConstantsAssumption DEF Restart, Watchers
  <2>6. /\ unavailable' \subseteq Clients /\ cancelled' \subseteq Clients
        /\ ended' \subseteq Clients \X Routines /\ outdated' \in BOOLEAN
        /\ UNCHANGED << status, listed, moves, events, handled, arrivals, refused >>
    BY <1>14 DEF Restart, world
  <2>. QED  BY <2>1, <2>2, <2>3, <2>4, <2>5, <2>6 DEF TypeOK, Numbered
<1>15. CASE UNCHANGED vars
  BY <1>15 DEF vars, world, kafka, handlers, clients, watch, history, TypeOK, Numbered
<1>. QED  BY <1>1, <1>2, <1>3, <1>4, <1>5, <1>6, <1>7, <1>8, <1>9, <1>10, <1>11,
             <1>12, <1>13, <1>14, <1>15 DEF Next

\* Types: channels hold no more than they have places, whoever puts and takes.
THEOREM TypeCorrect == Spec => []TypeOK
<1>1. Inv1 => TypeOK
  BY DEF Inv1
<1>. QED  BY InitInv1, NextInv1, <1>1, PTL DEF Spec

-----------------------------------------------------------------------------
(***************************************************************************)
(* The clients follow the list of servers.                                 *)
(***************************************************************************)

\* What the listener has read is what is listed, unless it is called again,
\* and update() closes clients only when it has put the map in place.
ReadsRight ==
    /\ "listener" \notin due /\ update["listener"].pc = "read"
         => update["listener"].values = listed
    /\ \A w \in Watchers : update[w].pc = "read" => update[w].removed = {}

Inv2 == Inv1 /\ ReadsRight /\ FollowsList

\* Steps outside of watch leave all this alone.
LEMMA WatchStill ==
    ASSUME ReadsRight, FollowsList, UNCHANGED << watch, listed >>
    PROVE  ReadsRight' /\ FollowsList'
BY DEF watch, ReadsRight, FollowsList, Known

LEMMA NextFollows == ASSUME Inv2, [Next]_vars  PROVE  ReadsRight' /\ FollowsList'
<1>. USE DEF Inv2
<1>. TypeOK
  BY DEF Inv1
<1>1. ASSUME UNCHANGED << watch, listed >>  PROVE  ReadsRight' /\ FollowsList'
  BY <1>1, WatchStill
<1>2. CASE \/ \E k \in Keys : Move(k)
           \/ \E u \in Users : Ask(u) \/ Handle(u) \/ PickPush(u) \/ PutPush(u)
           \/ \E c \in Clients, i \in Routines :
                 \/ TakePush(c, i) \/ EndRoutine(c, i)
                 \/ CallReturns(c, i) \/ CallRefused(c, i) \/ CallFails(c, i)
           \/ UNCHANGED vars
  <2>1. UNCHANGED << watch, listed >>
    BY <1>2 DEF Move, Ask, Handle, PickPush, PutPush, TakePush, EndRoutine,
                CallReturns, CallRefused, CallFails, vars, world
  <2>. QED  BY <2>1, <1>1
<1>3. CASE ListChanges
  BY <1>3 DEF ListChanges, ReadsRight, FollowsList
<1>4. ASSUME NEW w \in Watchers, ReadList(w)  PROVE  ReadsRight' /\ FollowsList'
  <2>1. update \in [Watchers -> UpdateType] /\ "listener" \in Watchers
        /\ update[w] = Still /\ listed' = listed /\ due' = due \ {w}
        /\ UNCHANGED sessionServers /\ outdated' = outdated
    BY <1>4, ChannelTypes DEF ReadList, Watchers, world
  <2>2. CASE listed = {}
    BY <1>4, <2>1, <2>2 DEF ReadList, ReadsRight, FollowsList, Still
  <2>3. CASE listed # {}
    <3>1. update' = [update EXCEPT ![w] =
                       [pc |-> "read", values |-> listed, removed |-> {}]]
      BY <1>4, <2>3 DEF ReadList
    <3>2. update'[w].pc = "read" /\ update'[w].values = listed
          /\ update'[w].removed = {}
      BY <2>1, <3>1
    <3>3. \A v \in Watchers : v # w => update'[v] = update[v]
      BY <2>1, <3>1
    <3>4. FollowsList'
      BY <3>2 DEF FollowsList
    <3>. QED  BY <2>1, <3>2, <3>3, <3>4 DEF ReadsRight
  <2>. QED  BY <2>2, <2>3
<1>5. ASSUME NEW w \in Watchers, ApplyList(w)  PROVE  ReadsRight' /\ FollowsList'
  <2>1. /\ update[w].pc = "read" /\ update'[w].pc # "read"
        /\ Known' = update[w].values
        /\ outdated' = (w = "first" /\ update[w].values # listed)
        /\ \A v \in Watchers : v # w => update'[v] = update[v]
        /\ due' = due /\ listed' = listed
    BY <1>5, ApplyTypes
  <2>2. ReadsRight'
    BY <2>1 DEF ReadsRight, Watchers
  <2>3. FollowsList'
    BY <2>1 DEF ReadsRight, FollowsList, Watchers
  <2>. QED  BY <2>2, <2>3
<1>6. ASSUME NEW w \in Watchers, ApplyFails(w)  PROVE  ReadsRight' /\ FollowsList'
  <2>1. /\ update' = [update EXCEPT ![w] = Still] /\ outdated' = TRUE
        /\ update \in [Watchers -> UpdateType] /\ listed' = listed /\ due' = due
    BY <1>6, ChannelTypes DEF ApplyFails, world
  <2>2. \A v \in Watchers : update'[v] = IF v = w THEN Still ELSE update[v]
    BY <2>1
  <2>. QED  BY <2>1, <2>2 DEF ReadsRight, FollowsList, Still, Watchers
<1>7. ASSUME NEW w \in Watchers, CloseClient(w)  PROVE  ReadsRight' /\ FollowsList'
  <2>1. PICK c \in update[w].removed :
          update' = [update EXCEPT ![w] = Closing(@.removed \ {c})]
    BY <1>7 DEF CloseClient
  <2>2. update \in [Watchers -> UpdateType] /\ update[w].pc # "read"
    BY ChannelTypes DEF ReadsRight
  <2>3. update'[w].pc # "read"
        /\ \A v \in Watchers : v # w => update'[v] = update[v]
    <3>1. update[w].removed \ {c} \in SUBSET Clients
      BY <2>2 DEF UpdateType
    <3>. QED  BY <2>1, <2>2, <3>1, ClosingType
  <2>4. /\ UNCHANGED << due, sessionServers, outdated >> /\ listed' = listed
    BY <1>7 DEF CloseClient, world
  <2>. QED  BY <2>2, <2>3, <2>4 DEF ReadsRight, FollowsList, Known, Watchers
<1>8. CASE Restart
  <2>1. due' = {"first"} /\ update' = [w \in Watchers |-> Still]
    BY <1>8 DEF Restart
  <2>. QED  BY <2>1 DEF ReadsRight, FollowsList, Still, Watchers
<1>. QED  BY <1>2, <1>3, <1>4, <1>5, <1>6, <1>7, <1>8 DEF Next

LEMMA InitFollows == Init => ReadsRight /\ FollowsList
BY DEF Init, ReadsRight, FollowsList, Still, Watchers

\* Whatever order the first call of update() and the listener's come in, and
\* whatever fails: once no call is wanted or in progress, and unless the last
\* one failed or was overtaken, there is a client for each listed server and
\* for no other.
THEOREM FollowsTheList == Spec => []FollowsList
<1>1. Init => Inv2
  BY InitInv1, InitFollows DEF Inv2
<1>2. Inv2 /\ [Next]_vars => Inv2'
  BY NextInv1, NextFollows DEF Inv2
<1>3. Inv2 => FollowsList
  BY DEF Inv2
<1>. QED  BY <1>1, <1>2, <1>3, PTL DEF Spec

-----------------------------------------------------------------------------
(***************************************************************************)
(* Where a push is: still to make, being put, or with a goroutine, and     *)
(* never at two places.                                                    *)
(***************************************************************************)
Places(c, i) == Range(sessionChan[c][i]) \cup calling[c][i]

\* A goroutine calls for one push at a time, which has left its channel, and
\* nothing is twice in a channel or with two goroutines.
OnePlace ==
    \A c \in Clients, i \in Routines :
        /\ IsInjective(sessionChan[c][i])
        /\ \A p, q \in calling[c][i] : p = q
        /\ Range(sessionChan[c][i]) \cap calling[c][i] = {}
        /\ \A d \in Clients, j \in Routines :
             (\E p \in Places(c, i) : p \in Places(d, j)) => c = d /\ i = j

\* The handler's pushes are of the event it started last and of no other, the
\* one it is putting into a channel is none it has still to make.
Handlers ==
    \A u \in Users :
        /\ \A p \in left[u] : p.user = u /\ p.nr = next[u] - 1
        /\ \A q \in putting[u] :
             /\ q.push.user = u /\ q.push.nr = next[u] - 1
             /\ q.push \notin left[u]
             /\ \A r \in putting[u] : q = r

\* What the goroutines have is of earlier events, or of this one and no longer
\* with the handler.
Gone(p) ==
    /\ p.nr < next[p.user] /\ p \notin left[p.user]
    /\ \A q \in putting[p.user] : q.push # p

With == \A c \in Clients, i \in Routines : \A p \in Places(c, i) : Gone(p)

\* On its way to the server.
Pending(p) ==
    \/ p \in left[p.user] \/ \E q \in putting[p.user] : q.push = p
    \/ \E c \in Clients, i \in Routines : p \in Places(c, i)

Count(p) == IF p.nr \in DOMAIN handled[p.user] THEN handled[p.user][p.nr] ELSE 0

\* A push on its way was not yet executed for the handling that made it.
Counted ==
    \A p \in Pushes :
        /\ arrivals[p] <= Count(p)
        /\ Pending(p) => arrivals[p] < Count(p)

Once == OnePlace /\ Handlers /\ With /\ Counted

\* What enters a queue and what leaves it.
LEMMA AppendOnce ==
    ASSUME NEW S, NEW s \in Seq(S), NEW x \in S
    PROVE  /\ Range(Append(s, x)) = Range(s) \cup {x}
           /\ IsInjective(s) /\ x \notin Range(s) => IsInjective(Append(s, x))
<1>. DEFINE t == Append(s, x)
<1>1. /\ DOMAIN s = 1 .. Len(s) /\ DOMAIN t = 1 .. Len(s) + 1 /\ Len(s) \in Nat
      /\ \A n \in 1 .. Len(s) : t[n] = s[n]
      /\ t[Len(s) + 1] = x
  OBVIOUS
<1>. HIDE DEF t
<1>2. Range(t) = Range(s) \cup {x}
  BY <1>1 DEF Range
<1>3. ASSUME IsInjective(s), x \notin Range(s)  PROVE  IsInjective(t)
  <2>1. \A m, n \in 1 .. Len(s) : s[m] = s[n] => m = n
    BY <1>1, <1>3 DEF IsInjective
  <2>2. \A n \in 1 .. Len(s) : s[n] # x
    BY <1>1, <1>3 DEF Range
  <2>. QED  BY <1>1, <2>1, <2>2 DEF IsInjective
<1>. QED  BY <1>2, <1>3 DEF t

LEMMA TailOnce ==
    ASSUME NEW S, NEW s \in Seq(S), s # << >>
    PROVE  /\ Range(s) = {Head(s)} \cup Range(Tail(s))
           /\ IsInjective(s) => /\ IsInjective(Tail(s))
                                /\ Head(s) \notin Range(Tail(s))
<1>. DEFINE t == Tail(s)
<1>1. /\ DOMAIN s = 1 .. Len(s) /\ DOMAIN t = 1 .. Len(s) - 1
      /\ Len(s) \in Nat \ {0}
      /\ \A n \in 1 .. Len(s) - 1 : t[n] = s[n + 1]
      /\ Head(s) = s[1]
  OBVIOUS
<1>. HIDE DEF t
<1>2. Range(s) = {s[1]} \cup Range(t)
  <2>1. ASSUME NEW n \in 1 .. Len(s)  PROVE  s[n] \in {s[1]} \cup Range(t)
    <3>1. CASE n = 1
      BY <3>1
    <3>2. CASE n # 1
      <4>1. n - 1 \in 1 .. Len(s) - 1 /\ t[n - 1] = s[n]
        BY <1>1, <3>2
      <4>. QED  BY <1>1, <4>1 DEF Range
    <3>. QED  BY <3>1, <3>2
  <2>2. \A n \in 1 .. Len(s) - 1 : t[n] \in Range(s)
    <3>1. \A n \in 1 .. Len(s) - 1 : n + 1 \in 1 .. Len(s)
      BY <1>1
    <3>. QED  BY <1>1, <3>1 DEF Range
  <2>3. s[1] \in Range(s)
    BY <1>1 DEF Range
  <2>4. \A x \in Range(s) : \E n \in 1 .. Len(s) : x = s[n]
    BY <1>1 DEF Range
  <2>5. \A x \in Range(t) : \E n \in 1 .. Len(s) - 1 : x = t[n]
    BY <1>1 DEF Range
  <2>. QED  BY <2>1, <2>2, <2>3, <2>4, <2>5
<1>3. ASSUME IsInjective(s)  PROVE  IsInjective(t) /\ s[1] \notin Range(t)
  <2>1. \A m, n \in 1 .. Len(s) : s[m] = s[n] => m = n
    BY <1>1, <1>3 DEF IsInjective
  <2>2. \A m, n \in 1 .. Len(s) - 1 : t[m] = t[n] => m = n
    BY <1>1, <2>1
  <2>3. \A n \in 1 .. Len(s) - 1 : t[n] # s[1]
    BY <1>1, <2>1
  <2>. QED  BY <1>1, <2>2, <2>3 DEF IsInjective, Range
<1>. QED  BY <1>1, <1>2, <1>3 DEF t

\* As long as the handlers make no pushes, pushes only leave places.
LEMMA FewerPlaces ==
    ASSUME Handlers, With, UNCHANGED << left, putting, next >>,
           \A c \in Clients, i \in Routines : Places(c, i)' \subseteq Places(c, i)
    PROVE  /\ Handlers' /\ With'
           /\ \A p \in Pushes : Pending(p)' => Pending(p)
BY DEF Handlers, With, Gone, Pending

\* Steps that move no push.
LEMMA PlacesStill ==
    ASSUME OnePlace, UNCHANGED << sessionChan, calling >>
    PROVE  OnePlace' /\ \A c \in Clients, i \in Routines : Places(c, i)' = Places(c, i)
BY DEF OnePlace, Places

LEMMA OnceStill ==
    ASSUME Once, UNCHANGED << sessionChan, calling, left, putting, next, arrivals,
                              handled >>
    PROVE  Once'
<1>1. OnePlace' /\ \A c \in Clients, i \in Routines : Places(c, i)' = Places(c, i)
  BY PlacesStill DEF Once
<1>2. Handlers' /\ With' /\ \A p \in Pushes : Pending(p)' => Pending(p)
  BY <1>1, FewerPlaces DEF Once
<1>3. Counted'
  BY <1>2 DEF Once, Counted, Count
<1>. QED  BY <1>1, <1>2, <1>3 DEF Once

LEMMA PlacesType ==
    ASSUME TypeOK, NEW c \in Clients, NEW i \in Routines
    PROVE  Places(c, i) \subseteq Pushes
<1>1. sessionChan[c][i] \in Seq(Pushes) /\ calling[c][i] \in SUBSET Pushes
  BY ChannelTypes
<1>. QED  BY <1>1 DEF Places, Range

LEMMA CountNat ==
    ASSUME handled \in [Users -> Seq(Nat)], NEW p \in Pushes
    PROVE  Count(p) \in Nat
<1>1. handled[p.user] \in Seq(Nat)
  BY DEF Pushes
<1>. QED  BY <1>1 DEF Count

\* Pushes that only leave do not come to be at two places.
LEMMA PlacesApart ==
    ASSUME OnePlace,
           \A c \in Clients, i \in Routines : Places(c, i)' \subseteq Places(c, i),
           \A c \in Clients, i \in Routines :
               /\ IsInjective(sessionChan'[c][i])
               /\ \A p, q \in calling'[c][i] : p = q
               /\ Range(sessionChan'[c][i]) \cap calling'[c][i] = {}
    PROVE  OnePlace'
<1>1. ASSUME NEW c \in Clients, NEW i \in Routines,
             NEW d \in Clients, NEW j \in Routines,
             NEW p \in Places(c, i)', p \in Places(d, j)'
      PROVE  c = d /\ i = j
  <2>1. p \in Places(c, i) /\ p \in Places(d, j)
    BY <1>1
  <2>. QED  BY <2>1 DEF OnePlace
<1>. QED  BY <1>1 DEF OnePlace

LEMMA AskOnce ==
    ASSUME Inv1, Once, NEW u \in Users, Ask(u)
    PROVE  Once'
<1>1. /\ handled' = [handled EXCEPT ![u] = Append(@, 0)]
      /\ UNCHANGED << sessionChan, calling, left, putting, next, arrivals >>
  BY DEF Ask, clients, history
<1>2. ASSUME NEW p \in Pushes  PROVE  Count(p)' = Count(p)
  <2>1. p.user \in Users /\ p.nr \in Nat \ {0} /\ handled[p.user] \in Seq(Nat)
    BY QueueTypes, ConstantsAssumption DEF Pushes, Inv1
  <2>2. CASE p.user = u
    <3>1. handled'[p.user] = Append(handled[p.user], 0)
      BY <1>1, <2>1, <2>2 DEF Inv1, TypeOK
    <3>. HIDE DEF Inv1
    <3>. QED  BY <2>1, <3>1 DEF Count
  <2>3. CASE p.user # u
    BY <1>1, <2>1, <2>3 DEF Inv1, TypeOK, Count
  <2>. QED  BY <2>2, <2>3
<1>3. OnePlace' /\ \A c \in Clients, i \in Routines : Places(c, i)' = Places(c, i)
  BY <1>1, PlacesStill DEF Once
<1>4. Handlers' /\ With' /\ \A p \in Pushes : Pending(p)' => Pending(p)
  BY <1>1, <1>3, FewerPlaces DEF Once
<1>5. Counted'
  BY <1>1, <1>2, <1>4 DEF Once, Counted
<1>. QED  BY <1>3, <1>4, <1>5 DEF Once

LEMMA HandleOnce ==
    ASSUME Inv1, Once, NEW u \in Users, Handle(u)
    PROVE  Once'
<1>. DEFINE n == next[u]
<1>1. /\ left[u] = {} /\ putting[u] = {} /\ n <= Len(events[u])
      /\ left' \in {left, [left EXCEPT ![u] = Targets(u, events[u][n])]}
      /\ next' = [next EXCEPT ![u] = @ + 1]
      /\ handled' = [handled EXCEPT ![u][next[u]] = @ + 1]
      /\ UNCHANGED << sessionChan, calling, putting, arrivals >>
  BY DEF Handle, Handling, clients, history
<1>2. /\ n \in 1 .. Len(handled[u]) /\ n \in Nat
      /\ handled \in [Users -> Seq(Nat)] /\ next \in [Users -> Nat \ {0}]
      /\ left \in [Users -> SUBSET Pushes] /\ arrivals \in [Pushes -> Nat]
  <2>1. /\ handled \in [Users -> Seq(Nat)] /\ next \in [Users -> Nat \ {0}]
        /\ left \in [Users -> SUBSET Pushes] /\ arrivals \in [Pushes -> Nat]
    BY DEF Inv1, TypeOK
  <2>2. Len(handled[u]) = Len(events[u]) /\ Len(events[u]) \in Nat
    BY QueueTypes DEF Inv1, Numbered
  <2>. QED  BY <1>1, <2>1, <2>2
<1>3. /\ \A v \in Users : v # u => left'[v] = left[v] /\ next'[v] = next[v]
      /\ next'[u] = n + 1
      /\ \A p \in left'[u] : p \in Pushes /\ p.user = u /\ p.nr = n
  BY <1>1, <1>2, TargetsType
<1>4. OnePlace' /\ \A c \in Clients, i \in Routines : Places(c, i)' = Places(c, i)
  BY <1>1, PlacesStill DEF Once
<1>5. Handlers'
  <2>1. ASSUME NEW v \in Users, v # u
        PROVE  /\ \A p \in left'[v] : p.user = v /\ p.nr = next'[v] - 1
               /\ \A q \in putting'[v] :
                    /\ q.push.user = v /\ q.push.nr = next'[v] - 1
                    /\ q.push \notin left'[v]
                    /\ \A r \in putting'[v] : q = r
    BY <1>1, <1>3, <2>1 DEF Once, Handlers
  <2>2. (\A p \in left'[u] : p.user = u /\ p.nr = next'[u] - 1) /\ putting'[u] = {}
    BY <1>1, <1>2, <1>3
  <2>. QED  BY <2>1, <2>2 DEF Handlers
<1>6. With'
  <2>1. ASSUME NEW c \in Clients, NEW i \in Routines, NEW p \in Places(c, i)
        PROVE  Gone(p)'
    <3>1. p \in Pushes /\ p.user \in Users /\ p.nr \in Nat /\ Gone(p)
      <4>1. p \in Pushes
        BY PlacesType DEF Inv1
      <4>. QED  BY <4>1, ConstantsAssumption DEF Pushes, Once, With
    <3>2. CASE p.user = u
      BY <1>1, <1>2, <1>3, <3>1, <3>2 DEF Gone
    <3>3. CASE p.user # u
      BY <1>1, <1>3, <3>1, <3>3 DEF Gone
    <3>. QED  BY <3>2, <3>3
  <2>. QED  BY <1>4, <2>1 DEF With
<1>7. Counted'
  <2>1. ASSUME NEW p \in Pushes
        PROVE  Count(p)' = IF p.user = u /\ p.nr = n THEN Count(p) + 1 ELSE Count(p)
    <3>1. p.user \in Users /\ handled[p.user] \in Seq(Nat)
      BY <1>2 DEF Pushes
    <3>2. CASE p.user = u
      <4>1. handled'[u] = [handled[u] EXCEPT ![n] = handled[u][n] + 1]
        BY <1>1, <1>2
      <4>2. /\ DOMAIN handled'[u] = DOMAIN handled[u] /\ n \in DOMAIN handled[u]
            /\ \A m \in DOMAIN handled[u] :
                  handled'[u][m] = IF m = n THEN handled[u][m] + 1 ELSE handled[u][m]
        BY <1>2, <4>1
      <4>. QED  BY <3>2, <4>2 DEF Count
    <3>3. CASE p.user # u
      <4>1. handled'[p.user] = handled[p.user]
        BY <1>1, <1>2, <3>1, <3>3
      <4>. QED  BY <3>3, <4>1 DEF Count
    <3>. QED  BY <3>2, <3>3
  <2>2. ASSUME NEW p \in Pushes  PROVE  Count(p) \in Nat /\ arrivals[p] \in Nat
    BY <1>2, CountNat
  <2>3. ASSUME NEW p \in Pushes, Pending(p)'
        PROVE  Pending(p) \/ (p.user = u /\ p.nr = n)
    <3>1. p.user \in Users
      BY DEF Pushes
    <3>2. CASE p \in left'[p.user]
      BY <1>3, <3>1, <3>2 DEF Pending
    <3>3. CASE p \notin left'[p.user]
      BY <1>1, <1>4, <2>3, <3>3 DEF Pending
    <3>. QED  BY <3>2, <3>3
  <2>4. ASSUME NEW p \in Pushes
        PROVE  /\ arrivals[p] <= Count(p)'
               /\ Pending(p)' => arrivals[p] < Count(p)'
    <3>1. arrivals[p] <= Count(p) /\ (Pending(p) => arrivals[p] < Count(p))
      BY DEF Once, Counted
    <3>. HIDE DEF n
    <3>. QED  BY <2>1, <2>2, <2>3, <3>1
  <2>. QED  BY <1>1, <2>4 DEF Counted
<1>. QED  BY <1>4, <1>5, <1>6, <1>7 DEF Once

LEMMA PickOnce ==
    ASSUME Inv1, Once, NEW u \in Users, PickPush(u)
    PROVE  Once'
<1>1. PICK p \in left[u] :
        /\ left' = [left EXCEPT ![u] = @ \ {p}]
        /\ \/ putting' = putting
           \/ \E q : q.push = p /\ putting' = [putting EXCEPT ![u] = {q}]
  <2>1. ASSUME NEW p, NEW c, NEW i
        PROVE  [push |-> p, client |-> c, routine |-> i].push = p
    OBVIOUS
  <2>. QED  BY <2>1, Zenon DEF PickPush
<1>2. /\ putting[u] = {}
      /\ UNCHANGED << sessionChan, calling, next, arrivals, handled >>
      /\ left \in [Users -> SUBSET Pushes] /\ putting \in [Users -> SUBSET PutType]
  <2>1. putting[u] = {}
        /\ UNCHANGED << sessionChan, calling, next, arrivals, handled >>
    BY Zenon DEF PickPush, kafka, history
  <2>. QED  BY <2>1, ChannelTypes DEF Inv1
<1>3. /\ \A v \in Users : v # u => left'[v] = left[v] /\ putting'[v] = putting[v]
      /\ left'[u] = left[u] \ {p}
      /\ \A q \in putting'[u] : q.push = p /\ \A r \in putting'[u] : q = r
  BY <1>1, <1>2
<1>4. OnePlace' /\ \A c \in Clients, i \in Routines : Places(c, i)' = Places(c, i)
  BY <1>2, PlacesStill DEF Once
<1>5. p \in Pushes /\ p.user = u /\ p.nr = next[u] - 1
  BY <1>2 DEF Once, Handlers
<1>6. Handlers'
  <2>1. ASSUME NEW v \in Users
        PROVE  /\ \A x \in left'[v] : x.user = v /\ x.nr = next'[v] - 1
               /\ \A q \in putting'[v] :
                    /\ q.push.user = v /\ q.push.nr = next'[v] - 1
                    /\ q.push \notin left'[v]
                    /\ \A r \in putting'[v] : q = r
    <3>1. CASE v = u
      BY <1>2, <1>3, <1>5, <3>1 DEF Once, Handlers
    <3>2. CASE v # u
      BY <1>2, <1>3, <3>2 DEF Once, Handlers
    <3>. QED  BY <3>1, <3>2
  <2>. QED  BY <2>1 DEF Handlers
<1>7. With'
  <2>1. ASSUME NEW c \in Clients, NEW i \in Routines, NEW x \in Places(c, i)
        PROVE  Gone(x)'
    <3>1. x.user \in Users /\ Gone(x)
      <4>1. x \in Pushes
        BY PlacesType DEF Inv1
      <4>. QED  BY <4>1 DEF Pushes, Once, With
    <3>2. CASE x.user = u
      BY <1>2, <1>3, <3>1, <3>2 DEF Gone
    <3>3. CASE x.user # u
      BY <1>2, <1>3, <3>1, <3>3 DEF Gone
    <3>. QED  BY <3>2, <3>3
  <2>. QED  BY <1>4, <2>1 DEF With
<1>8. Counted'
  <2>1. ASSUME NEW x \in Pushes, Pending(x)'  PROVE  Pending(x)
    <3>1. x.user \in Users
      BY DEF Pushes
    <3>2. p \in left[u] /\ p.user = u
      BY <1>5
    <3>3. CASE x.user = u
      BY <1>3, <1>4, <2>1, <3>2, <3>3 DEF Pending
    <3>4. CASE x.user # u
      BY <1>3, <1>4, <2>1, <3>1, <3>4 DEF Pending
    <3>. QED  BY <3>3, <3>4
  <2>. QED  BY <1>2, <2>1 DEF Once, Counted, Count
<1>. QED  BY <1>4, <1>6, <1>7, <1>8 DEF Once

LEMMA PutOnce ==
    ASSUME Inv1, Once, NEW u \in Users, PutPush(u)
    PROVE  Once'
<1>1. PICK q \in putting[u] :
        /\ sessionChan' =
              [sessionChan EXCEPT ![q.client][q.routine] = Append(@, q.push)]
        /\ putting' = [putting EXCEPT ![u] = {}]
  BY DEF PutPush
<1>2. q \in PutType /\ sessionChan \in [Clients -> [Routines -> Seq(Pushes)]]
      /\ putting \in [Users -> SUBSET PutType]
      /\ UNCHANGED << calling, left, next, arrivals, handled >>
  BY ChannelTypes DEF Inv1, PutPush, kafka
<1>3. q.client \in Clients /\ q.routine \in Routines /\ q.push \in Pushes
  BY <1>2 DEF PutType
<1>. DEFINE c == q.client
            i == q.routine
            x == q.push
            This(d, j) == d = c /\ j = i
<1>4. /\ sessionChan[c][i] \in Seq(Pushes)
      /\ sessionChan'[c][i] = Append(sessionChan[c][i], x)
      /\ \A d \in Clients, j \in Routines :
            ~This(d, j) => sessionChan'[d][j] = sessionChan[d][j]
  BY <1>1, <1>2, <1>3
<1>5. /\ x.user = u /\ x.nr = next[u] - 1 /\ x \notin left[u]
      /\ \A r \in putting[u] : q = r
  BY DEF Once, Handlers
<1>6. \A d \in Clients, j \in Routines : x \notin Places(d, j)
  BY <1>5 DEF Once, With, Gone
<1>. HIDE DEF c, i, x
<1>7. /\ Places(c, i)' = Places(c, i) \cup {x}
      /\ \A d \in Clients, j \in Routines : ~This(d, j) => Places(d, j)' = Places(d, j)
      /\ Range(sessionChan'[c][i]) = Range(sessionChan[c][i]) \cup {x}
      /\ IsInjective(sessionChan[c][i]) => IsInjective(sessionChan'[c][i])
  <2>1. x \notin Range(sessionChan[c][i])
    BY <1>3, <1>6 DEF Places, c, i
  <2>2. x \in Pushes
    BY <1>3 DEF x
  <2>. QED  BY <1>2, <1>4, <2>1, <2>2, AppendOnce DEF Places
<1>8. ASSUME NEW d \in Clients, NEW j \in Routines, NEW p, p \in Places(d, j)'
       PROVE  p \in Places(d, j) \/ (This(d, j) /\ p = x)
  <2>1. CASE This(d, j)
    BY <1>2, <1>7, <1>8, <2>1 DEF Places
  <2>2. CASE ~This(d, j)
    BY <1>7, <1>8, <2>2
  <2>. QED  BY <2>1, <2>2
<1>9. OnePlace'
  <2>1. ASSUME NEW d \in Clients, NEW j \in Routines
        PROVE  /\ IsInjective(sessionChan'[d][j])
               /\ \A p, r \in calling'[d][j] : p = r
               /\ Range(sessionChan'[d][j]) \cap calling'[d][j] = {}
    <3>1. CASE This(d, j)
      BY <1>2, <1>6, <1>7, <3>1 DEF Once, OnePlace, Places
    <3>2. CASE ~This(d, j)
      BY <1>2, <1>4, <3>2 DEF Once, OnePlace
    <3>. QED  BY <3>1, <3>2
  <2>2. ASSUME NEW d \in Clients, NEW j \in Routines,
               NEW e \in Clients, NEW k \in Routines,
               NEW p \in Places(d, j)', p \in Places(e, k)'
        PROVE  d = e /\ j = k
    <3>. \A a \in Clients, b \in Routines :
            p \in Places(a, b)' => p \in Places(a, b) \/ (This(a, b) /\ p = x)
      BY <1>8
    <3>1. \/ p \in Places(d, j) \/ (This(d, j) /\ p = x)
      OBVIOUS
    <3>2. \/ p \in Places(e, k) \/ (This(e, k) /\ p = x)
      BY <2>2
    <3>. QED  BY <1>6, <3>1, <3>2 DEF Once, OnePlace
  <2>. QED  BY <2>1, <2>2 DEF OnePlace
<1>10. Handlers'
  BY <1>1, <1>2 DEF Once, Handlers
<1>11. With'
  <2>1. ASSUME NEW d \in Clients, NEW j \in Routines, NEW p \in Places(d, j)
        PROVE  Gone(p)'
    <3>1. Gone(p) /\ p \in Pushes
      BY PlacesType DEF Once, With, Inv1
    <3>2. p.user \in Users
      BY <3>1 DEF Pushes
    <3>. QED  BY <1>1, <1>2, <3>1, <3>2 DEF Gone
  <2>2. Gone(x)'
    <3>1. next[u] \in Nat
      BY QueueTypes DEF Inv1
    <3>. QED  BY <1>1, <1>2, <1>5, <3>1 DEF Gone
  <2>. QED  BY <1>7, <2>1, <2>2 DEF With
<1>12. Counted'
  <2>1. Pending(x)
    BY <1>5 DEF Pending, x
  <2>2. ASSUME NEW p \in Pushes, Pending(p)'  PROVE  Pending(p)
    <3>1. p.user \in Users /\ putting'[p.user] \subseteq putting[p.user]
      BY <1>1, <1>2 DEF Pushes
    <3>2. ASSUME NEW d \in Clients, NEW j \in Routines, p \in Places(d, j)'
          PROVE  Pending(p)
      BY <1>8, <2>1, <3>2 DEF Pending
    <3>3. CASE ~\E d \in Clients, j \in Routines : p \in Places(d, j)'
      BY <1>2, <2>2, <3>1, <3>3 DEF Pending
    <3>. QED  BY <3>2, <3>3
  <2>. QED  BY <1>2, <2>2 DEF Once, Counted, Count
<1>. QED  BY <1>9, <1>10, <1>11, <1>12 DEF Once

\* What is taken leaves the channel for good.
LEMMA TakeStep ==
    ASSUME Inv1, Once, NEW c \in Clients, NEW i \in Routines, TakePush(c, i)
    PROVE  /\ sessionChan[c][i] \in Seq(Pushes) /\ sessionChan[c][i] # << >>
           /\ calling[c][i] = {}
           /\ sessionChan'[c][i] = Tail(sessionChan[c][i])
           /\ calling'[c][i] = IF c \in unavailable THEN {}
                               ELSE {Head(sessionChan[c][i])}
           /\ \A d \in Clients, j \in Routines : ~(d = c /\ j = i) =>
                  /\ sessionChan'[d][j] = sessionChan[d][j]
                  /\ calling'[d][j] = calling[d][j]
           /\ \A d \in Clients, j \in Routines : Places(d, j)' \subseteq Places(d, j)
<1>1. /\ sessionChan \in [Clients -> [Routines -> Seq(Pushes)]]
      /\ calling \in [Clients -> [Routines -> SUBSET Pushes]]
      /\ sessionChan[c][i] # << >> /\ calling[c][i] = {}
      /\ sessionChan' = [sessionChan EXCEPT ![c][i] = Tail(@)]
      /\ calling' = IF c \in unavailable THEN calling
                    ELSE [calling EXCEPT ![c][i] = {Head(sessionChan[c][i])}]
  BY ChannelTypes DEF TakePush, Runs, Inv1
<1>2. sessionChan'[c][i] = Tail(sessionChan[c][i])
      /\ sessionChan[c][i] \in Seq(Pushes)
  BY <1>1
<1>3. calling'[c][i] = IF c \in unavailable THEN {} ELSE {Head(sessionChan[c][i])}
  BY <1>1
<1>4. \A d \in Clients, j \in Routines : ~(d = c /\ j = i) =>
         sessionChan'[d][j] = sessionChan[d][j] /\ calling'[d][j] = calling[d][j]
  BY <1>1
<1>5. ASSUME NEW d \in Clients, NEW j \in Routines
      PROVE  Places(d, j)' \subseteq Places(d, j)
  <2>1. CASE d = c /\ j = i
    <3>1. Range(sessionChan[d][j])
            = {Head(sessionChan[d][j])} \cup Range(Tail(sessionChan[d][j]))
      BY <1>1, <1>2, <2>1, TailOnce
    <3>. QED  BY <1>2, <1>3, <2>1, <3>1 DEF Places
  <2>2. CASE ~(d = c /\ j = i)
    BY <1>4, <2>2 DEF Places
  <2>. QED  BY <2>1, <2>2
<1>. QED  BY <1>1, <1>2, <1>3, <1>4, <1>5

LEMMA TakeOnce ==
    ASSUME Inv1, Once, NEW c \in Clients, NEW i \in Routines, TakePush(c, i)
    PROVE  Once'
<1>. DEFINE s == sessionChan[c][i]
<1>1. UNCHANGED << left, putting, next, arrivals, handled >>
  BY DEF TakePush, handlers, kafka, history
<1>2. /\ \A d \in Clients, j \in Routines : Places(d, j)' \subseteq Places(d, j)
      /\ s \in Seq(Pushes) /\ s # << >> /\ sessionChan'[c][i] = Tail(s)
      /\ calling'[c][i] \in {{}, {Head(s)}}
      /\ \A d \in Clients, j \in Routines : ~(d = c /\ j = i) =>
             sessionChan'[d][j] = sessionChan[d][j] /\ calling'[d][j] = calling[d][j]
  BY TakeStep
<1>3. IsInjective(Tail(s)) /\ Head(s) \notin Range(Tail(s))
  BY <1>2, TailOnce DEF Once, OnePlace
<1>4. OnePlace'
  <2>1. ASSUME NEW d \in Clients, NEW j \in Routines
        PROVE  /\ IsInjective(sessionChan'[d][j])
               /\ \A p, q \in calling'[d][j] : p = q
               /\ Range(sessionChan'[d][j]) \cap calling'[d][j] = {}
    <3>1. CASE d = c /\ j = i
      BY <1>2, <1>3, <3>1
    <3>2. CASE ~(d = c /\ j = i)
      BY <1>2, <3>2 DEF Once, OnePlace
    <3>. QED  BY <3>1, <3>2
  <2>. QED  BY <1>2, <2>1, PlacesApart DEF Once
<1>5. Handlers' /\ With' /\ \A p \in Pushes : Pending(p)' => Pending(p)
  BY <1>1, <1>2, FewerPlaces DEF Once
<1>6. Counted'
  BY <1>1, <1>5 DEF Once, Counted, Count
<1>. QED  BY <1>4, <1>5, <1>6 DEF Once

\* However a call ends, its push is nowhere any more.
LEMMA CallStep ==
    ASSUME Inv1, Once, NEW c \in Clients, NEW i \in Routines,
           CallReturns(c, i) \/ CallRefused(c, i) \/ CallFails(c, i)
    PROVE  \E p \in Pushes :
             /\ calling[c][i] = {p} /\ calling'[c][i] = {}
             /\ arrivals' \in {arrivals, [arrivals EXCEPT ![p] = @ + 1]}
             /\ UNCHANGED << sessionChan, left, putting, next, handled >>
             /\ \A d \in Clients, j \in Routines :
                    ~(d = c /\ j = i) => calling'[d][j] = calling[d][j]
<1>1. PICK p \in calling[c][i] : arrivals' \in {arrivals, [arrivals EXCEPT ![p] = @ + 1]}
  BY DEF CallReturns, CallRefused, CallFails
<1>2. calling[c][i] = {p}
  BY DEF Once, OnePlace
<1>3. /\ calling \in [Clients -> [Routines -> SUBSET Pushes]]
      /\ calling' = [calling EXCEPT ![c][i] = {}]
      /\ UNCHANGED << sessionChan, left, putting, next, handled >>
  BY ChannelTypes DEF CallReturns, CallRefused, CallFails, Inv1, handlers, kafka
<1>4. p \in Pushes
  BY <1>3
<1>. QED  BY <1>1, <1>2, <1>3, <1>4

LEMMA CallOnce ==
    ASSUME Inv1, Once, NEW c \in Clients, NEW i \in Routines,
           CallReturns(c, i) \/ CallRefused(c, i) \/ CallFails(c, i)
    PROVE  Once'
<1>1. PICK p \in Pushes :
        /\ calling[c][i] = {p} /\ calling'[c][i] = {}
        /\ arrivals' \in {arrivals, [arrivals EXCEPT ![p] = @ + 1]}
        /\ UNCHANGED << sessionChan, left, putting, next, handled >>
        /\ \A d \in Clients, j \in Routines :
               ~(d = c /\ j = i) => calling'[d][j] = calling[d][j]
  BY CallStep
<1>2. \A d \in Clients, j \in Routines : Places(d, j)' \subseteq Places(d, j)
  BY <1>1 DEF Places
<1>3. OnePlace'
  <2>1. ASSUME NEW d \in Clients, NEW j \in Routines
        PROVE  /\ IsInjective(sessionChan'[d][j])
               /\ \A x, y \in calling'[d][j] : x = y
               /\ Range(sessionChan'[d][j]) \cap calling'[d][j] = {}
    BY <1>1 DEF Once, OnePlace
  <2>. QED  BY <1>2, <2>1, PlacesApart DEF Once
<1>4. Handlers' /\ With' /\ \A x \in Pushes : Pending(x)' => Pending(x)
  BY <1>1, <1>2, FewerPlaces DEF Once
<1>5. Pending(p) /\ ~Pending(p)'
  <2>1. p \in Places(c, i) /\ p.user \in Users
    BY <1>1 DEF Places, Pushes
  <2>2. Pending(p) /\ Gone(p)
    BY <2>1 DEF Pending, Once, With
  <2>3. p \notin left'[p.user] /\ \A q \in putting'[p.user] : q.push # p
    BY <1>1, <2>1, <2>2 DEF Gone
  <2>4. \A d \in Clients, j \in Routines : p \notin Places(d, j)'
    <3>1. ASSUME NEW d \in Clients, NEW j \in Routines, p \in Places(d, j)'
          PROVE  FALSE
      <4>1. d = c /\ j = i
        BY <1>2, <2>1, <3>1 DEF Once, OnePlace
      <4>2. Range(sessionChan[c][i]) \cap calling[c][i] = {}
        BY DEF Once, OnePlace
      <4>. QED  BY <1>1, <3>1, <4>1, <4>2 DEF Places
    <3>. QED  BY <3>1
  <2>. QED  BY <2>2, <2>3, <2>4 DEF Pending
<1>6. Counted'
  <2>1. ASSUME NEW x \in Pushes
        PROVE  /\ arrivals'[x] <= Count(x)
               /\ Pending(x)' => arrivals'[x] < Count(x)
    <3>1. arrivals[x] \in Nat /\ Count(x) \in Nat /\ arrivals \in [Pushes -> Nat]
      BY ChannelTypes, CountNat DEF Inv1, TypeOK
    <3>2. arrivals[x] <= Count(x) /\ (Pending(x) => arrivals[x] < Count(x))
      BY DEF Once, Counted
    <3>3. CASE x = p
      <4>1. arrivals'[x] \in {arrivals[x], arrivals[x] + 1}
        BY <1>1, <3>1, <3>3
      <4>. QED  BY <1>5, <3>1, <3>2, <3>3, <4>1
    <3>4. CASE x # p
      <4>1. arrivals'[x] = arrivals[x]
        BY <1>1, <3>1, <3>4
      <4>. QED  BY <1>4, <3>2, <4>1
    <3>. QED  BY <3>3, <3>4
  <2>. QED  BY <1>1, <2>1 DEF Counted, Count
<1>. QED  BY <1>3, <1>4, <1>6 DEF Once

LEMMA RestartOnce ==
    ASSUME Inv1, Once, Restart
    PROVE  Once'
<1>1. /\ \A u \in Users : left'[u] = {} /\ putting'[u] = {}
      /\ \A c \in Clients, i \in Routines :
             sessionChan'[c][i] = << >> /\ calling'[c][i] = {}
      /\ UNCHANGED << arrivals, handled >>
  BY DEF Restart
<1>2. \A c \in Clients, i \in Routines : Places(c, i)' = {}
  BY <1>1 DEF Places, Range
<1>3. IsInjective(<< >>)
  BY DEF IsInjective
<1>4. OnePlace' /\ Handlers' /\ With'
  BY <1>1, <1>2, <1>3 DEF OnePlace, Handlers, With
<1>5. \A p \in Pushes : ~Pending(p)'
  BY <1>1, <1>2 DEF Pending, Pushes
<1>6. Counted'
  BY <1>1, <1>5 DEF Once, Counted, Count
<1>. QED  BY <1>4, <1>6 DEF Once

LEMMA InitOnce == Init => Once
<1>. SUFFICES ASSUME Init PROVE Once
  OBVIOUS
<1>1. /\ \A u \in Users : left[u] = {} /\ putting[u] = {} /\ handled[u] = << >>
      /\ \A c \in Clients, i \in Routines :
             sessionChan[c][i] = << >> /\ calling[c][i] = {}
      /\ \A p \in Pushes : arrivals[p] = 0
  BY DEF Init
<1>2. \A c \in Clients, i \in Routines : Places(c, i) = {}
  BY <1>1 DEF Places, Range
<1>3. IsInjective(<< >>)
  BY DEF IsInjective
<1>4. OnePlace /\ Handlers /\ With
  BY <1>1, <1>2, <1>3 DEF OnePlace, Handlers, With
<1>5. \A p \in Pushes : p.user \in Users /\ ~Pending(p)
  BY <1>1, <1>2 DEF Pending, Pushes
<1>6. \A p \in Pushes : arrivals[p] = 0 /\ Count(p) = 0
  BY <1>1, <1>5 DEF Count
<1>7. Counted
  BY <1>5, <1>6 DEF Counted
<1>. QED  BY <1>4, <1>7 DEF Once

LEMMA NextOnce == ASSUME Inv1, Once, [Next]_vars  PROVE  Once'
<1>1. CASE \/ \E k \in Keys : Move(k)
           \/ ListChanges
           \/ \E c \in Clients, i \in Routines : EndRoutine(c, i)
           \/ \E w \in Watchers :
                 ReadList(w) \/ ApplyList(w) \/ ApplyFails(w) \/ CloseClient(w)
           \/ UNCHANGED vars
  <2>1. UNCHANGED << sessionChan, calling, left, putting, next, arrivals, handled >>
    BY <1>1 DEF Move, ListChanges, EndRoutine, ReadList, ApplyList, ApplyFails,
                CloseClient, vars, kafka, handlers, clients, history
  <2>. QED  BY <2>1, OnceStill
<1>2. ASSUME NEW u \in Users, Ask(u) \/ Handle(u) \/ PickPush(u) \/ PutPush(u)
      PROVE  Once'
  BY <1>2, AskOnce, HandleOnce, PickOnce, PutOnce
<1>3. ASSUME NEW c \in Clients, NEW i \in Routines,
             \/ TakePush(c, i)
             \/ CallReturns(c, i) \/ CallRefused(c, i) \/ CallFails(c, i)
      PROVE  Once'
  BY <1>3, TakeOnce, CallOnce
<1>4. CASE Restart
  BY <1>4, RestartOnce
<1>. QED  BY <1>1, <1>2, <1>3, <1>4 DEF Next

\* However calls time out after the server has executed them, clients are
\* marked and closed, and sync is restarted: a server executes a push no more
\* often than the event was handled.
THEOREM NoRetries == Spec => []AtMostOncePerHandling
<1>1. Init => Inv1 /\ Once
  BY InitInv1, InitOnce
<1>2. Inv1 /\ Once /\ [Next]_vars => (Inv1 /\ Once)'
  BY NextInv1, NextOnce
<1>3. Once => AtMostOncePerHandling
  BY DEF Once, Counted, Count, AtMostOncePerHandling
<1>. QED  BY <1>1, <1>2, <1>3, PTL DEF Spec

-----------------------------------------------------------------------------
(***************************************************************************)
(* What a client has accepted.                                             *)
(***************************************************************************)
Excused(c, p) ==
    arrivals[p] > 0 \/ p \in refused \/ c \in unavailable \/ c \in cancelled

LEMMA NotLost ==
    LostOnlyWithClient
      => \A c \in Clients : \A p \in accepted[c] :
            Excused(c, p) \/ \E i \in Routines : p \in Places(c, i)
BY Zenon DEF LostOnlyWithClient, InChannels, Excused, Places

LEMMA NotLostNext ==
    ASSUME \A c \in Clients : \A p \in accepted'[c] :
               Excused(c, p)' \/ \E i \in Routines : p \in Places(c, i)'
    PROVE  LostOnlyWithClient'
BY Zenon DEF LostOnlyWithClient, InChannels, Excused, Places

\* An accepted push stays so, and an excuse lasts.
LEMMA StillNotLost ==
    ASSUME LostOnlyWithClient, UNCHANGED accepted,
           \A c \in Clients : \A p \in accepted[c] : Excused(c, p) => Excused(c, p)',
           \A c \in Clients, i \in Routines : \A p \in accepted[c] :
               p \in Places(c, i) => Excused(c, p)' \/ p \in Places(c, i)'
    PROVE  LostOnlyWithClient'
<1>1. \A c \in Clients : \A p \in accepted[c] :
         Excused(c, p) \/ \E i \in Routines : p \in Places(c, i)
  BY NotLost
<1>2. \A c \in Clients : \A p \in accepted'[c] :
         Excused(c, p)' \/ \E i \in Routines : p \in Places(c, i)'
  BY <1>1
<1>. QED  BY <1>2, NotLostNext

LEMMA NextNotLost ==
    ASSUME Inv1, Once, LostOnlyWithClient, [Next]_vars
    PROVE  LostOnlyWithClient'
<1>1. CASE \/ \E k \in Keys : Move(k)
           \/ ListChanges
           \/ \E u \in Users : Ask(u) \/ Handle(u) \/ PickPush(u)
           \/ \E c \in Clients, i \in Routines : EndRoutine(c, i)
           \/ \E w \in Watchers :
                 ReadList(w) \/ ApplyList(w) \/ ApplyFails(w) \/ CloseClient(w)
           \/ UNCHANGED vars
  <2>1. UNCHANGED << sessionChan, calling, accepted, arrivals, refused, unavailable >>
        /\ cancelled \subseteq cancelled'
    BY <1>1 DEF Move, ListChanges, Ask, Handle, PickPush, EndRoutine, ReadList,
                ApplyList, ApplyFails, CloseClient, vars, clients, history
  <2>. QED  BY <2>1, StillNotLost DEF Excused, Places
<1>2. ASSUME NEW u \in Users, PutPush(u)  PROVE  LostOnlyWithClient'
  <2>1. PICK q \in putting[u] :
          /\ sessionChan' =
                [sessionChan EXCEPT ![q.client][q.routine] = Append(@, q.push)]
          /\ accepted' = [accepted EXCEPT ![q.client] = @ \cup {q.push}]
    BY <1>2 DEF PutPush
  <2>2. /\ q \in PutType /\ sessionChan \in [Clients -> [Routines -> Seq(Pushes)]]
        /\ accepted \in [Clients -> SUBSET Pushes]
        /\ UNCHANGED << calling, arrivals, refused, unavailable, cancelled >>
    BY <1>2, ChannelTypes DEF Inv1, PutPush
  <2>3. q.client \in Clients /\ q.routine \in Routines /\ q.push \in Pushes
    BY <2>2 DEF PutType
  <2>4. ASSUME NEW c \in Clients, NEW i \in Routines
        PROVE  Places(c, i)' = Places(c, i) \cup
                   (IF c = q.client /\ i = q.routine THEN {q.push} ELSE {})
    <3>1. CASE c = q.client /\ i = q.routine
      <4>1. sessionChan'[c][i] = Append(sessionChan[c][i], q.push)
            /\ sessionChan[c][i] \in Seq(Pushes)
        BY <2>1, <2>2, <2>3, <3>1
      <4>2. Range(sessionChan'[c][i]) = Range(sessionChan[c][i]) \cup {q.push}
        BY <2>3, <4>1, AppendOnce
      <4>. QED  BY <2>2, <3>1, <4>2 DEF Places
    <3>2. CASE ~(c = q.client /\ i = q.routine)
      <4>1. sessionChan'[c][i] = sessionChan[c][i]
        BY <2>1, <2>2, <2>3, <3>2
      <4>. QED  BY <2>2, <3>2, <4>1 DEF Places
    <3>. QED  BY <3>1, <3>2
  <2>5. ASSUME NEW c \in Clients, NEW p \in accepted'[c]
        PROVE  Excused(c, p)' \/ \E i \in Routines : p \in Places(c, i)'
    <3>1. CASE c = q.client /\ p = q.push
      BY <2>3, <2>4, <3>1
    <3>2. CASE ~(c = q.client /\ p = q.push)
      <4>1. p \in accepted[c]
        BY <2>1, <2>2, <2>3, <3>2
      <4>2. Excused(c, p) \/ \E i \in Routines : p \in Places(c, i)
        BY <4>1, NotLost
      <4>. QED  BY <2>2, <2>4, <4>2 DEF Excused
    <3>. QED  BY <3>1, <3>2
  <2>. QED  BY <2>5, NotLostNext
<1>3. ASSUME NEW c \in Clients, NEW i \in Routines, TakePush(c, i)
      PROVE  LostOnlyWithClient'
  <2>1. /\ sessionChan[c][i] \in Seq(Pushes) /\ sessionChan[c][i] # << >>
        /\ calling[c][i] = {}
        /\ sessionChan'[c][i] = Tail(sessionChan[c][i])
        /\ calling'[c][i] = IF c \in unavailable THEN {}
                            ELSE {Head(sessionChan[c][i])}
        /\ \A d \in Clients, j \in Routines : ~(d = c /\ j = i) =>
               sessionChan'[d][j] = sessionChan[d][j] /\ calling'[d][j] = calling[d][j]
    BY <1>3, TakeStep
  <2>2. UNCHANGED << accepted, arrivals, refused, unavailable, cancelled >>
    BY <1>3 DEF TakePush, history
  <2>3. Range(sessionChan[c][i])
          = {Head(sessionChan[c][i])} \cup Range(Tail(sessionChan[c][i]))
    BY <2>1, TailOnce
  <2>4. ASSUME NEW d \in Clients, NEW j \in Routines, NEW p \in Places(d, j)
        PROVE  d \in unavailable \/ p \in Places(d, j)'
    <3>1. CASE d = c /\ j = i
      BY <2>1, <2>3, <3>1 DEF Places
    <3>2. CASE ~(d = c /\ j = i)
      BY <2>1, <3>2 DEF Places
    <3>. QED  BY <3>1, <3>2
  <2>. QED  BY <2>2, <2>4, StillNotLost DEF Excused
<1>4. ASSUME NEW c \in Clients, NEW i \in Routines,
             CallReturns(c, i) \/ CallRefused(c, i) \/ CallFails(c, i)
      PROVE  LostOnlyWithClient'
  <2>1. PICK p \in Pushes :
          /\ calling[c][i] = {p} /\ calling'[c][i] = {}
          /\ arrivals' \in {arrivals, [arrivals EXCEPT ![p] = @ + 1]}
          /\ UNCHANGED sessionChan
          /\ \A d \in Clients, j \in Routines :
                 ~(d = c /\ j = i) => calling'[d][j] = calling[d][j]
    BY <1>4, CallStep
  <2>2. /\ UNCHANGED << accepted, cancelled >>
        /\ refused \subseteq refused' /\ unavailable \subseteq unavailable'
        /\ arrivals \in [Pushes -> Nat] /\ accepted \in [Clients -> SUBSET Pushes]
    BY <1>4, ChannelTypes DEF CallReturns, CallRefused, CallFails, Inv1
  <2>3. \A x \in Pushes : arrivals[x] > 0 => arrivals'[x] > 0
    BY <2>1, <2>2
  <2>4. Excused(c, p)'
    <3>1. \/ arrivals' = [arrivals EXCEPT ![p] = @ + 1]
          \/ p \in refused' \/ c \in unavailable'
      BY <1>4, <2>1 DEF CallReturns, CallRefused, CallFails
    <3>2. arrivals' = [arrivals EXCEPT ![p] = @ + 1] => arrivals'[p] > 0
      BY <2>1, <2>2
    <3>. QED  BY <3>1, <3>2 DEF Excused
  <2>5. \A d \in Clients : \A x \in accepted[d] : Excused(d, x) => Excused(d, x)'
    BY <2>2, <2>3 DEF Excused
  <2>6. ASSUME NEW d \in Clients, NEW j \in Routines, NEW x \in Places(d, j)
        PROVE  Excused(d, x)' \/ x \in Places(d, j)'
    <3>1. CASE d = c /\ j = i
      BY <2>1, <2>4, <3>1 DEF Places
    <3>2. CASE ~(d = c /\ j = i)
      BY <2>1, <3>2 DEF Places
    <3>. QED  BY <3>1, <3>2
  <2>. QED  BY <2>2, <2>5, <2>6, StillNotLost
<1>5. CASE Restart
  <2>1. \A c \in Clients : accepted'[c] = {}
    BY <1>5 DEF Restart
  <2>. QED  BY <2>1 DEF LostOnlyWithClient
<1>. QED  BY <1>1, <1>2, <1>3, <1>4, <1>5 DEF Next

\* A push that was put into a channel is executed, refused by the server, or
\* still there, unless its client is marked or closed: neither full channels
\* nor the number of goroutines loses one.
THEOREM KeepsAccepted == Spec => []LostOnlyWithClient
<1>1. Init => Inv1 /\ Once /\ LostOnlyWithClient
  <2>1. Init => LostOnlyWithClient
    BY DEF Init, LostOnlyWithClient
  <2>. QED  BY <2>1, InitInv1, InitOnce
<1>2. Inv1 /\ Once /\ LostOnlyWithClient /\ [Next]_vars
        => (Inv1 /\ Once /\ LostOnlyWithClient)'
  BY NextInv1, NextOnce, NextNotLost
<1>. QED  BY <1>1, <1>2, PTL DEF Spec
=============================================================================
