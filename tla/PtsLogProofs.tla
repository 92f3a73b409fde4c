---------------------------- MODULE PtsLogProofs ----------------------------
(***************************************************************************)
(* The pts log for every number of requests, devices and messages: its     *)
(* rows share no numbers, it implements UpdateLog, and with -usev3 a user  *)
(* who only sends, reads and receives misses nothing.                      *)
(***************************************************************************)
EXTENDS PtsLog, TLAPS

Idle == \A w \in Workers : kind[w] = "idle" => todo[w] = << >>

\* Every row of a handler lies within the numbers after lo, up to hi ...
Within(t, lo, hi) ==
    \A i \in 1 .. Len(t) : lo <= t[i].pts - t[i].count /\ t[i].pts <= hi

\* ... and they divide them.
Divided(t) == \A i, j \in 1 .. Len(t) : i # j => Apart(t[i], t[j])

\* Rows, stored or to come, lie within what was handed out and are disjoint.
Numbered ==
    /\ \A r \in rows : 0 <= r.pts - r.count /\ r.pts <= pts
    /\ \A w \in Workers : Within(todo[w], 0, pts) /\ Divided(todo[w])
    /\ \A w \in Workers : \A i \in 1 .. Len(todo[w]) :
          \A r \in rows : Apart(r, todo[w][i])
    /\ \A v, w \in Workers : v # w =>
          \A i \in 1 .. Len(todo[v]), j \in 1 .. Len(todo[w]) :
              Apart(todo[v][i], todo[w][j])
    /\ NumberedOnce

Inv == TypeOK /\ Idle /\ Numbered

-----------------------------------------------------------------------------
(***************************************************************************)
(* What handlers insert.                                                   *)
(***************************************************************************)

\* A handler takes at least one number.
LEMMA TakesSome ==
    ASSUME NEW k, NEW n \in Nat \ {0}
    PROVE  Taken(k, n) \in Nat \ {0}
BY DEF Taken

\* The rows of a handler are rows, within the numbers it took, and divide them.
LEMMA InsertsDivide ==
    ASSUME NEW k \in RowKinds, NEW n \in Nat \ {0}, NEW p \in Int
    PROVE  /\ Inserts(k, n, p) \in Seq(RowType)
           /\ Within(Inserts(k, n, p), p - Taken(k, n), p)
           /\ Divided(Inserts(k, n, p))
           /\ \A i \in 1 .. Len(Inserts(k, n, p)) :
                 Inserts(k, n, p)[i].count >= 1
                     \/ (k \in Histories /\ n = 1 /\ i = 1)
<1>. DEFINE s == Inserts(k, n, p)
<1>. DEFINE a == Row(p - 2, n - 1, "delete")
            b == Row(p - 1, 1, "read")
            c == Row(p, 1, "edit")
            e == Row(p, n, k)
<1>1. /\ a \in RowType /\ a.pts = p - 2 /\ a.count = n - 1
      /\ b \in RowType /\ b.pts = p - 1 /\ b.count = 1
      /\ c \in RowType /\ c.pts = p /\ c.count = 1
      /\ e \in RowType /\ e.pts = p /\ e.count = n
  BY DEF Row, RowType, RowKinds, RequestKinds, IncomingKinds
<1>2. CASE k = "deleteHistory"
  <2>1. s = << a, b >> /\ Taken(k, n) = n + 1
    BY <1>2 DEF Inserts, Taken, Histories
  <2>. HIDE DEF s, a, b
  <2>2. s \in Seq(RowType) /\ Len(s) = 2 /\ s[1] = a /\ s[2] = b
    BY <1>1, <2>1
  <2>3. k \in Histories
    BY <1>2 DEF Histories
  <2>. QED  BY <1>1, <2>1, <2>2, <2>3 DEF Within, Divided, Apart, s
<1>3. CASE k = "clearHistory"
  <2>1. s = << a, b, c >> /\ Taken(k, n) = n + 1
    BY <1>3 DEF Inserts, Taken, Histories
  <2>. HIDE DEF s, a, b, c
  <2>2. s \in Seq(RowType) /\ Len(s) = 3 /\ s[1] = a /\ s[2] = b /\ s[3] = c
    BY <1>1, <2>1
  <2>3. k \in Histories
    BY <1>3 DEF Histories
  <2>. QED  BY <1>1, <2>1, <2>2, <2>3 DEF Within, Divided, Apart, s
<1>4. CASE k = "readContents"
  <2>1. s = << >> /\ Taken(k, n) = n
    BY <1>4 DEF Inserts, Taken, Histories
  <2>. QED  BY <2>1 DEF Within, Divided
<1>5. CASE k \notin {"deleteHistory", "clearHistory", "readContents"}
  <2>1. s = << e >> /\ Taken(k, n) = n
    BY <1>5 DEF Inserts, Taken, Histories
  <2>. HIDE DEF s, e
  <2>2. s \in Seq(RowType) /\ Len(s) = 1 /\ s[1] = e
    BY <1>1, <2>1
  <2>. QED  BY <1>1, <2>1, <2>2 DEF Within, Divided, s
<1>. QED  BY <1>2, <1>3, <1>4, <1>5

\* The inbox inserts these, or all but the first.
LEMMA InboxInsertsDivide ==
    ASSUME NEW k \in RowKinds, NEW n \in Nat \ {0}, NEW p \in Int
    PROVE  /\ InboxInserts(k, n, p) \in Seq(RowType)
           /\ Within(InboxInserts(k, n, p), p - Taken(k, n), p)
           /\ Divided(InboxInserts(k, n, p))
           /\ \A i \in 1 .. Len(InboxInserts(k, n, p)) :
                 InboxInserts(k, n, p)[i].count >= 1
<1>. DEFINE s == Inserts(k, n, p)
<1>1. /\ s \in Seq(RowType)
      /\ Within(s, p - Taken(k, n), p)
      /\ Divided(s)
      /\ \A i \in 1 .. Len(s) :
            s[i].count >= 1 \/ (k \in Histories /\ n = 1 /\ i = 1)
  BY InsertsDivide
<1>2. CASE k \in Histories /\ n = 1
  <2>1. s # << >>
    BY <1>2 DEF Inserts, Histories
  <2>2. /\ InboxInserts(k, n, p) = Tail(s)
        /\ Tail(s) \in Seq(RowType)
        /\ Len(Tail(s)) = Len(s) - 1
        /\ \A i \in 1 .. Len(Tail(s)) :
              i + 1 \in 1 .. Len(s) /\ i + 1 # 1 /\ Tail(s)[i] = s[i + 1]
    BY <1>1, <1>2, <2>1 DEF InboxInserts
  <2>. HIDE DEF s
  <2>. QED  BY <1>1, <2>2 DEF Within, Divided
<1>3. CASE ~(k \in Histories /\ n = 1)
  BY <1>1, <1>3 DEF InboxInserts
<1>. QED  BY <1>2, <1>3

-----------------------------------------------------------------------------
(***************************************************************************)
(* Types.                                                                  *)
(***************************************************************************)
LEMMA Sized ==
    ASSUME NEW k, NEW n \in SizesOf(k)
    PROVE  n \in Nat \ {0}
BY ConstantsAssumption DEF SizesOf

LEMMA InitInv == Init => Inv
<1>. SUFFICES ASSUME Init PROVE Inv
  OBVIOUS
<1>1. TypeOK
  BY ConstantsAssumption DEF Init, TypeOK
<1>2. Idle /\ Numbered
  BY DEF Init, Idle, Numbered, Within, Divided, NumberedOnce
<1>. QED  BY <1>1, <1>2 DEF Inv

\* What the current event of a partition is.
LEMMA CurrentType ==
    ASSUME TypeOK, NEW p \in Partitions, HasEvent(p)
    PROVE  Current(p) \in EventType
BY DEF TypeOK, HasEvent, Current

LEMMA PendingRows ==
    ASSUME TypeOK
    PROVE  AllPending \subseteq RowType
<1>1. SUFFICES ASSUME NEW w \in Workers PROVE Pending(w) \subseteq RowType
  BY DEF AllPending
<1>2. todo[w] \in Seq(RowType)
  BY DEF TypeOK
<1>. QED  BY <1>2 DEF Pending

LEMMA TakeNumbersType ==
    ASSUME TypeOK, NEW r \in Requests, TakeNumbers(r)
    PROVE  TypeOK'
<1>1. r \in Workers
  BY DEF Workers
<1>2. PICK k \in Kinds :
        /\ kind' = [kind EXCEPT ![r] = k]
        /\ \/ UNCHANGED << pts, todo >>
           \/ \E m \in SizesOf(k) :
                /\ pts' = pts + Taken(k, m)
                /\ todo' = [todo EXCEPT ![r] = Inserts(k, m, pts')]
  BY DEF TakeNumbers
<1>3. k \in RowKinds
  BY ConstantsAssumption DEF RowKinds
<1>4. kind' \in [Workers -> RowKinds \cup {"idle"}]
  BY <1>1, <1>2, <1>3 DEF TypeOK
<1>5. pts' \in Nat /\ todo' \in [Workers -> Seq(RowType)]
  <2>1. ASSUME NEW n \in SizesOf(k),
               pts' = pts + Taken(k, n),
               todo' = [todo EXCEPT ![r] = Inserts(k, n, pts')]
        PROVE  pts' \in Nat /\ todo' \in [Workers -> Seq(RowType)]
    <3>1. Taken(k, n) \in Nat
      BY Sized, TakesSome
    <3>2. pts' \in Int /\ pts' \in Nat
      BY <2>1, <3>1 DEF TypeOK
    <3>3. Inserts(k, n, pts') \in Seq(RowType)
      BY <1>3, <3>2, Sized, InsertsDivide
    <3>. QED  BY <2>1, <3>2, <3>3 DEF TypeOK
  <2>. QED  BY <1>2, <2>1 DEF TypeOK
<1>. QED  BY <1>4, <1>5 DEF TakeNumbers, TypeOK, kafka, devices

LEMMA FinishRequestType ==
    ASSUME TypeOK, NEW r \in Requests, FinishRequest(r)
    PROVE  TypeOK'
<1>1. kind' \in [Workers -> RowKinds \cup {"idle"}]
  BY DEF FinishRequest, TypeOK, Workers
<1>2. faults' \in Nat
  BY DEF FinishRequest, Fault, TypeOK
<1>3. events' \in [Partitions -> Seq(EventType)]
  <2>1. ASSUME kind[r] \in {"send", "edit", "read"},
               events' = [events EXCEPT !["user"] =
                              Append(@, Event(SelfEvent(kind[r]), 1))]
        PROVE  events' \in [Partitions -> Seq(EventType)]
    <3>1. Event(SelfEvent(kind[r]), 1) \in EventType
      BY <2>1 DEF Event, SelfEvent, EventType, SelfKinds
    <3>2. "user" \in Partitions /\ events["user"] \in Seq(EventType)
      BY DEF TypeOK, Partitions
    <3>3. Append(events["user"], Event(SelfEvent(kind[r]), 1)) \in Seq(EventType)
      BY <3>1, <3>2
    <3>. QED  BY <2>1, <3>3 DEF TypeOK
  <2>. QED  BY <2>1 DEF FinishRequest, TypeOK
<1>. QED  BY <1>1, <1>2, <1>3 DEF FinishRequest, TypeOK, devices

LEMMA InsertRowType ==
    ASSUME TypeOK, NEW w \in Workers, InsertRow(w)
    PROVE  TypeOK'
<1>1. /\ Head(todo[w]) \in RowType
      /\ Tail(todo[w]) \in Seq(RowType)
  BY DEF InsertRow, TypeOK
<1>2. todo' \in [Workers -> Seq(RowType)]
  BY <1>1 DEF InsertRow, TypeOK
<1>3. rows' \subseteq RowType /\ rows \subseteq rows' /\ faults' \in Nat
  BY <1>1 DEF InsertRow, Fault, TypeOK
<1>4. got' \in [Devices -> SUBSET rows']
  BY <1>3 DEF InsertRow, TypeOK, devices
<1>. QED  BY <1>2, <1>3, <1>4 DEF InsertRow, TypeOK, kafka, devices

LEMMA CrashRequestType ==
    ASSUME TypeOK, NEW r \in Requests, CrashRequest(r)
    PROVE  TypeOK'
<1>1. << >> \in Seq(RowType)
  OBVIOUS
<1>. QED  BY <1>1 DEF CrashRequest, Fault, TypeOK, Workers, kafka, devices

LEMMA ArriveType ==
    ASSUME TypeOK, NEW p \in Partitions, Arrive(p)
    PROVE  TypeOK'
<1>0. PICK k \in Incoming : \E n \in SizesOf(k) :
        events' = [events EXCEPT ![p] = Append(@, Event(k, n))]
  BY DEF Arrive
<1>1. PICK n \in SizesOf(k) :
        events' = [events EXCEPT ![p] = Append(@, Event(k, n))]
  BY <1>0
<1>2. Event(k, n) \in EventType
  BY Sized, ConstantsAssumption DEF Event, EventType
<1>3. Append(events[p], Event(k, n)) \in Seq(EventType)
  BY <1>2 DEF TypeOK
<1>4. events' \in [Partitions -> Seq(EventType)]
  BY <1>1, <1>3 DEF TypeOK
<1>. QED  BY <1>4 DEF Arrive, TypeOK, service, devices

LEMMA SkipEventType ==
    ASSUME TypeOK, NEW p \in Partitions, SkipEvent(p)
    PROVE  TypeOK'
BY DEF SkipEvent, Fault, TypeOK, service, devices

LEMMA HandleEventType ==
    ASSUME TypeOK, NEW p \in Partitions, HandleEvent(p)
    PROVE  TypeOK'
<1>. DEFINE k == Current(p).kind
            n == Current(p).size
<1>1. k \in RowKinds /\ n \in Nat \ {0}
  BY CurrentType DEF HandleEvent, EventType, RowKinds
<1>2. pts' = pts + Taken(k, n)
  BY DEF HandleEvent
<1>. HIDE DEF k, n
<1>3. pts' \in Nat
  BY <1>1, <1>2, TakesSome DEF TypeOK
<1>4. InboxInserts(k, n, pts') \in Seq(RowType)
  BY <1>1, <1>3, InboxInsertsDivide
<1>5. todo' \in [Workers -> Seq(RowType)]
  BY <1>4 DEF HandleEvent, TypeOK, k, n
<1>6. kind' \in [Workers -> RowKinds \cup {"idle"}]
  BY <1>1 DEF HandleEvent, TypeOK, k
<1>. QED  BY <1>3, <1>5, <1>6 DEF HandleEvent, TypeOK, kafka, devices

LEMMA NumberReadOfMigratedType ==
    ASSUME TypeOK, NEW p \in Partitions, NumberReadOfMigrated(p)
    PROVE  TypeOK'
<1>1. Row(pts', 1, "read") \in RowType /\ pts' \in Nat
  BY DEF NumberReadOfMigrated, TypeOK, Row, RowType, RowKinds, RequestKinds
<1>2. p \in Workers /\ todo[p] \in Seq(RowType)
  BY DEF TypeOK, Workers
<1>3. << Row(pts', 1, "read") >> \o todo[p] \in Seq(RowType)
  BY <1>1, <1>2
<1>4. todo' \in [Workers -> Seq(RowType)]
  BY <1>3 DEF NumberReadOfMigrated, TypeOK
<1>. QED  BY <1>1, <1>4 DEF NumberReadOfMigrated, TypeOK, kafka, devices,
                            RowKinds, IncomingKinds

LEMMA ConsumerStepType ==
    ASSUME TypeOK, NEW p \in Partitions,
           FinishEvent(p) \/ Commit(p) \/ CrashConsumer(p)
    PROVE  TypeOK'
<1>1. CASE FinishEvent(p)
  <2>1. next' \in [Partitions -> Nat \ {0}]
    BY <1>1 DEF FinishEvent, TypeOK
  <2>2. kind' \in [Workers -> RowKinds \cup {"idle"}]
    BY <1>1 DEF FinishEvent, TypeOK
  <2>. QED  BY <1>1, <2>1, <2>2 DEF FinishEvent, TypeOK, devices
<1>2. CASE Commit(p)
  BY <1>2 DEF Commit, TypeOK, service, devices
<1>3. CASE CrashConsumer(p)
  <2>1. << >> \in Seq(RowType)
    OBVIOUS
  <2>2. next' \in [Partitions -> Nat \ {0}]
    BY <1>3 DEF CrashConsumer, TypeOK
  <2>3. todo' \in [Workers -> Seq(RowType)]
    BY <1>3, <2>1 DEF CrashConsumer, TypeOK
  <2>4. kind' \in [Workers -> RowKinds \cup {"idle"}]
    BY <1>3 DEF CrashConsumer, TypeOK
  <2>5. faults' \in Nat
    BY <1>3 DEF CrashConsumer, Fault, TypeOK
  <2>. QED  BY <1>3, <2>2, <2>3, <2>4, <2>5 DEF CrashConsumer, TypeOK, devices
<1>. QED  BY <1>1, <1>2, <1>3

LEMMA DeviceType ==
    ASSUME TypeOK, NEW d \in Devices, GetState(d) \/ GetDifference(d)
    PROVE  TypeOK'
<1>1. CASE GetState(d)
  <2>1. pts' \in Nat
    BY <1>1 DEF GetState, TypeOK
  <2>. QED  BY <1>1, <2>1 DEF GetState, TypeOK, service, kafka
<1>2. CASE GetDifference(d)
  <2>1. PICK R \in Selections(RowsAfter(dpts[d])), q \in dpts[d] .. pts :
          /\ dpts' = [dpts EXCEPT ![d] = q]
          /\ got' = [got EXCEPT ![d] = @ \cup R]
          /\ overtaken' = [overtaken EXCEPT ![d] =
                 @ \cup { n \in PendingPts : dpts[d] < n /\ n <= q }]
    BY <1>2 DEF GetDifference
  <2>2. R \subseteq rows
    BY DEF Selections, RowsAfter
  <2>3. PendingPts \subseteq Int
    BY PendingRows DEF PendingPts, RowType
  <2>4. /\ got' \in [Devices -> SUBSET rows]
        /\ dpts' \in [Devices -> Nat]
    BY <2>1, <2>2 DEF TypeOK
  <2>5. overtaken' \in [Devices -> SUBSET Int]
    BY <2>1, <2>3 DEF TypeOK
  <2>. QED  BY <1>2, <2>4, <2>5 DEF GetDifference, TypeOK, service, kafka
<1>. QED  BY <1>1, <1>2

LEMMA StutterInv == Inv /\ UNCHANGED vars => Inv'
BY DEF Inv, TypeOK, Idle, Numbered, NumberedOnce, Within, Divided, vars

LEMMA NextType == TypeOK /\ Next => TypeOK'
BY TakeNumbersType, FinishRequestType, CrashRequestType, InsertRowType,
   ArriveType, SkipEventType, HandleEventType, NumberReadOfMigratedType,
   ConsumerStepType, DeviceType DEF Next

\* Type correctness of the pts log: the counter only holds what was handed
\* out, a consumer's position is always that of an event, restarts included.
THEOREM TypeCorrect == Spec => []TypeOK
<1>1. Init => TypeOK
  BY InitInv DEF Inv
<1>2. TypeOK /\ UNCHANGED vars => TypeOK'
  BY DEF TypeOK, vars
<1>. QED  BY <1>1, <1>2, NextType, PTL DEF Spec

-----------------------------------------------------------------------------
(***************************************************************************)
(* Numbers.                                                                *)
(***************************************************************************)

LEMMA RowNumbers ==
    ASSUME NEW a \in RowType
    PROVE  a.pts \in Int /\ a.count \in Nat
BY DEF RowType

\* A row beyond a number is disjoint from one up to it.
LEMMA Beyond ==
    ASSUME NEW a \in RowType, NEW b \in RowType, NEW p \in Nat,
           a.pts <= p, p <= b.pts - b.count
    PROVE  Apart(a, b) /\ Apart(b, a)
BY RowNumbers DEF Apart

\* A handler's rows change: those it keeps and those it adds are disjoint, and
\* those it adds lie beyond what was handed out.
LEMMA NewRows ==
    ASSUME Inv, TypeOK', NEW w \in Workers, NEW t \in Seq(RowType),
           todo' = [todo EXCEPT ![w] = t],
           UNCHANGED rows,
           pts <= pts',
           \A i \in 1 .. Len(t) :
               \/ pts <= t[i].pts - t[i].count /\ t[i].pts <= pts'
               \/ \E j \in 1 .. Len(todo[w]) : t[i] = todo[w][j],
           Divided(t)
    PROVE  Numbered'
<1>1. /\ pts \in Nat /\ pts' \in Nat /\ rows \subseteq RowType
      /\ todo \in [Workers -> Seq(RowType)]
  BY DEF Inv, TypeOK
<1>2. todo'[w] = t /\ \A v \in Workers : v # w => todo'[v] = todo[v]
  BY <1>1
<1>3. \A v \in Workers : \A i \in 1 .. Len(todo[v]) :
         /\ todo[v][i] \in RowType
         /\ 0 <= todo[v][i].pts - todo[v][i].count
         /\ todo[v][i].pts <= pts
  BY <1>1 DEF Inv, Numbered, Within
<1>4. \A i \in 1 .. Len(t) : t[i] \in RowType
  OBVIOUS
<1>5. (\A r \in rows : 0 <= r.pts - r.count /\ r.pts <= pts)'
  BY <1>1 DEF Inv, Numbered, RowType
<1>6. (\A v \in Workers : Within(todo[v], 0, pts) /\ Divided(todo[v]))'
  <2>1. SUFFICES ASSUME NEW v \in Workers
                 PROVE  Within(todo'[v], 0, pts') /\ Divided(todo'[v])
    BY DEF Within, Divided, Apart
  <2>2. CASE v = w
    <3>1. SUFFICES ASSUME NEW i \in 1 .. Len(t)
                   PROVE  0 <= t[i].pts - t[i].count /\ t[i].pts <= pts'
      BY <1>2, <2>2 DEF Within
    <3>2. t[i] \in RowType
      BY <1>4
    <3>3. CASE pts <= t[i].pts - t[i].count /\ t[i].pts <= pts'
      BY <1>1, <3>2, <3>3, RowNumbers
    <3>4. CASE \E j \in 1 .. Len(todo[w]) : t[i] = todo[w][j]
      <4>1. PICK j \in 1 .. Len(todo[w]) : t[i] = todo[w][j]
        BY <3>4
      <4>2. 0 <= todo[w][j].pts - todo[w][j].count /\ todo[w][j].pts <= pts
        BY <1>3
      <4>. QED  BY <1>1, <3>2, <4>1, <4>2, RowNumbers
    <3>. QED  BY <3>3, <3>4
  <2>3. CASE v # w
    <3>1. Divided(todo[v]) /\ Within(todo[v], 0, pts) /\ todo'[v] = todo[v]
      BY <1>2, <1>3, <2>3 DEF Inv, Numbered
    <3>2. \A i \in 1 .. Len(todo[v]) : todo[v][i].pts \in Int
      BY <1>3 DEF RowType
    <3>. QED  BY <1>1, <3>1, <3>2 DEF Within
  <2>. QED  BY <2>2, <2>3
<1>7. \A v \in Workers : \A i \in 1 .. Len(todo'[v]) :
         \A r \in rows : Apart(r, todo'[v][i])
  <2>1. SUFFICES ASSUME NEW v \in Workers, NEW i \in 1 .. Len(todo'[v]),
                        NEW r \in rows
                 PROVE  Apart(r, todo'[v][i])
    OBVIOUS
  <2>2. CASE v = w /\ pts <= t[i].pts - t[i].count
    <3>1. r.pts <= pts /\ r \in RowType
      BY <1>1 DEF Inv, Numbered
    <3>2. t[i] \in RowType /\ todo'[v][i] = t[i]
      BY <1>2, <1>4, <2>2
    <3>. QED  BY <1>1, <2>2, <3>1, <3>2, Beyond
  <2>3. CASE v = w /\ \E j \in 1 .. Len(todo[w]) : t[i] = todo[w][j]
    BY <1>2, <2>3 DEF Inv, Numbered
  <2>4. CASE v # w
    BY <1>2, <2>4 DEF Inv, Numbered
  <2>. QED  BY <1>2, <2>2, <2>3, <2>4
<1>8. \A u, v \in Workers : u # v =>
         \A i \in 1 .. Len(todo'[u]), j \in 1 .. Len(todo'[v]) :
             Apart(todo'[u][i], todo'[v][j])
  <2>1. ASSUME NEW v \in Workers, v # w,
               NEW i \in 1 .. Len(t), NEW j \in 1 .. Len(todo[v])
        PROVE  Apart(t[i], todo[v][j]) /\ Apart(todo[v][j], t[i])
    <3>1. CASE pts <= t[i].pts - t[i].count
      <4>1. t[i] \in RowType
        BY <1>4
      <4>2. todo[v][j] \in RowType /\ todo[v][j].pts <= pts
        BY <1>3
      <4>. QED  BY <1>1, <3>1, <4>1, <4>2, Beyond
    <3>2. CASE \E m \in 1 .. Len(todo[w]) : t[i] = todo[w][m]
      BY <2>1, <3>2 DEF Inv, Numbered
    <3>. QED  BY <3>1, <3>2
  <2>2. SUFFICES ASSUME NEW u \in Workers, NEW v \in Workers, u # v,
                        NEW i \in 1 .. Len(todo'[u]), NEW j \in 1 .. Len(todo'[v])
                 PROVE  Apart(todo'[u][i], todo'[v][j])
    OBVIOUS
  <2>3. CASE u = w
    BY <1>2, <2>1, <2>2, <2>3
  <2>4. CASE v = w
    BY <1>2, <2>1, <2>2, <2>4
  <2>5. CASE u # w /\ v # w
    BY <1>2, <2>2, <2>5 DEF Inv, Numbered
  <2>. QED  BY <2>3, <2>4, <2>5
<1>9. NumberedOnce'
  BY DEF Inv, Numbered, NumberedOnce, Apart
<1>. QED  BY <1>5, <1>6, <1>7, <1>8, <1>9 DEF Numbered, Apart

\* A handler's first row becomes a row of the table.
LEMMA RowStored ==
    ASSUME Inv, TypeOK', NEW w \in Workers,
           todo[w] # << >>,
           todo' = [todo EXCEPT ![w] = Tail(@)],
           rows' = rows \cup {Head(todo[w])},
           UNCHANGED pts
    PROVE  Numbered'
<1>. DEFINE e == Head(todo[w])
<1>1. /\ pts \in Nat /\ rows \subseteq RowType
      /\ todo \in [Workers -> Seq(RowType)]
  BY DEF Inv, TypeOK
<1>2. /\ 1 \in 1 .. Len(todo[w]) /\ e = todo[w][1] /\ e \in RowType
      /\ Len(Tail(todo[w])) = Len(todo[w]) - 1
      /\ \A i \in 1 .. Len(Tail(todo[w])) :
            i + 1 \in 1 .. Len(todo[w]) /\ Tail(todo[w])[i] = todo[w][i + 1]
  BY <1>1
<1>. HIDE DEF e
<1>3. \A v \in Workers : \A i \in 1 .. Len(todo'[v]) :
         \E j \in 1 .. Len(todo[v]) :
             todo'[v][i] = todo[v][j] /\ (v = w => j # 1 /\ j = i + 1)
                                      /\ (v # w => j = i)
  <2>1. SUFFICES ASSUME NEW v \in Workers, NEW i \in 1 .. Len(todo'[v])
                 PROVE  \E j \in 1 .. Len(todo[v]) :
                          /\ todo'[v][i] = todo[v][j]
                          /\ v = w => j # 1 /\ j = i + 1
                          /\ v # w => j = i
    OBVIOUS
  <2>2. CASE v = w
    <3>1. todo'[v] = Tail(todo[w])
      BY <1>1, <2>2
    <3>2. i \in 1 .. Len(Tail(todo[w]))
      BY <3>1
    <3>3. i + 1 \in 1 .. Len(todo[w]) /\ Tail(todo[w])[i] = todo[w][i + 1]
      BY <1>2, <3>2
    <3>4. i + 1 # 1
      OBVIOUS
    <3>5. i + 1 \in 1 .. Len(todo[v]) /\ todo'[v][i] = todo[v][i + 1]
      BY <2>2, <3>1, <3>3
    <3>. QED  BY <2>2, <3>4, <3>5
  <2>3. CASE v # w
    BY <1>1, <2>3
  <2>. QED  BY <2>2, <2>3
<1>4. (\A r \in rows : 0 <= r.pts - r.count /\ r.pts <= pts)'
  BY <1>2 DEF Inv, Numbered, Within, e
<1>5. (\A v \in Workers : Within(todo[v], 0, pts) /\ Divided(todo[v]))'
  <2>1. SUFFICES ASSUME NEW v \in Workers
                 PROVE  Within(todo'[v], 0, pts) /\ Divided(todo'[v])
    BY DEF Within, Divided, Apart
  <2>2. Within(todo[v], 0, pts) /\ Divided(todo[v])
    BY DEF Inv, Numbered
  <2>3. Within(todo'[v], 0, pts)
    BY <1>3, <2>2 DEF Within
  <2>4. Divided(todo'[v])
    BY <1>3, <2>2 DEF Divided
  <2>. QED  BY <2>3, <2>4
<1>6. \A v \in Workers : \A i \in 1 .. Len(todo'[v]) :
         \A r \in rows' : Apart(r, todo'[v][i])
  <2>1. SUFFICES ASSUME NEW v \in Workers, NEW i \in 1 .. Len(todo'[v])
                 PROVE  /\ Apart(e, todo'[v][i])
                        /\ \A r \in rows : Apart(r, todo'[v][i])
    BY DEF e
  <2>2. PICK j \in 1 .. Len(todo[v]) :
          todo'[v][i] = todo[v][j] /\ (v = w => j # 1)
    BY <1>3
  <2>3. \A r \in rows : Apart(r, todo'[v][i])
    BY <2>2 DEF Inv, Numbered
  <2>4. Apart(e, todo'[v][i])
    BY <1>2, <2>2 DEF Inv, Numbered, Divided
  <2>. QED  BY <2>3, <2>4
<1>7. \A u, v \in Workers : u # v =>
         \A i \in 1 .. Len(todo'[u]), j \in 1 .. Len(todo'[v]) :
             Apart(todo'[u][i], todo'[v][j])
  BY <1>3 DEF Inv, Numbered
<1>8. NumberedOnce'
  <2>1. \A r \in rows : Apart(r, e) /\ Apart(e, r)
    BY <1>1, <1>2 DEF Inv, Numbered, Apart, RowType
  <2>. QED  BY <2>1 DEF Inv, Numbered, NumberedOnce, e, Apart
<1>. QED  BY <1>4, <1>5, <1>6, <1>7, <1>8 DEF Numbered, Apart

LEMMA SameNumbers ==
    Numbered /\ UNCHANGED << pts, rows, todo >> => Numbered'
BY DEF Numbered, NumberedOnce, Within, Divided, Apart

\* A handler that had no rows takes numbers for some.
LEMMA RowsNumbered ==
    ASSUME Inv, TypeOK', NEW w \in Workers, NEW t \in Seq(RowType),
           kind[w] = "idle",
           todo' = [todo EXCEPT ![w] = t],
           UNCHANGED rows,
           pts <= pts',
           Within(t, pts, pts'),
           Divided(t)
    PROVE  Numbered'
BY NewRows DEF Within

\* A handler gives up.
LEMMA RowsDropped ==
    ASSUME Inv, TypeOK', NEW w \in Workers,
           todo' = [todo EXCEPT ![w] = << >>],
           UNCHANGED << rows, pts >>
    PROVE  Numbered'
<1>1. /\ << >> \in Seq(RowType) /\ Len(<< >>) = 0 /\ Divided(<< >>)
      /\ pts <= pts'
  BY DEF Divided, Inv, TypeOK
<1>2. \A i \in 1 .. Len(<< >>) : FALSE
  OBVIOUS
<1>. QED  BY <1>1, <1>2, NewRows

LEMMA TakeNumbersInv ==
    ASSUME Inv, NEW r \in Requests, TakeNumbers(r)
    PROVE  Inv'
<1>1. TypeOK' /\ r \in Workers /\ pts \in Nat /\ pts' \in Nat
  BY TakeNumbersType DEF Inv, TypeOK, Workers
<1>2. PICK k \in Kinds :
        /\ kind' = [kind EXCEPT ![r] = k]
        /\ \/ UNCHANGED << pts, todo >>
           \/ \E m \in SizesOf(k) :
                /\ pts' = pts + Taken(k, m)
                /\ todo' = [todo EXCEPT ![r] = Inserts(k, m, pts')]
  BY DEF TakeNumbers
<1>3. k \in RowKinds /\ k # "idle"
  BY ConstantsAssumption DEF RowKinds, RequestKinds
<1>4. Idle'
  BY <1>1, <1>2, <1>3 DEF Inv, Idle, TypeOK
<1>5. Numbered'
  <2>1. CASE UNCHANGED << pts, todo >>
    BY <2>1, SameNumbers DEF TakeNumbers, Inv
  <2>2. ASSUME NEW m \in SizesOf(k),
               pts' = pts + Taken(k, m),
               todo' = [todo EXCEPT ![r] = Inserts(k, m, pts')]
        PROVE  Numbered'
    <3>1. m \in Nat \ {0} /\ Taken(k, m) \in Nat
      BY Sized, TakesSome
    <3>2. pts <= pts' /\ pts' - Taken(k, m) = pts /\ pts' \in Int
      BY <1>1, <2>2, <3>1
    <3>3. /\ Inserts(k, m, pts') \in Seq(RowType)
          /\ Within(Inserts(k, m, pts'), pts' - Taken(k, m), pts')
          /\ Divided(Inserts(k, m, pts'))
      BY <1>3, <3>1, <3>2, InsertsDivide
    <3>4. Within(Inserts(k, m, pts'), pts, pts')
      BY <3>2, <3>3
    <3>5. kind[r] = "idle" /\ UNCHANGED rows
      BY DEF TakeNumbers
    <3>. QED  BY <1>1, <2>2, <3>2, <3>3, <3>4, <3>5, RowsNumbered
  <2>. QED  BY <1>2, <2>1, <2>2
<1>. QED  BY <1>1, <1>4, <1>5 DEF Inv

LEMMA HandleEventInv ==
    ASSUME Inv, NEW p \in Partitions, HandleEvent(p)
    PROVE  Inv'
<1>1. TypeOK' /\ p \in Workers /\ pts \in Nat /\ pts' \in Nat
  BY HandleEventType DEF Inv, TypeOK, Workers
<1>. DEFINE k == Current(p).kind
            n == Current(p).size
            s == InboxInserts(k, n, pts')
<1>2. k \in RowKinds /\ n \in Nat \ {0} /\ k # "idle"
  BY CurrentType DEF Inv, HandleEvent, EventType, RowKinds, IncomingKinds, SelfKinds
<1>3. /\ pts' = pts + Taken(k, n)
      /\ kind' = [kind EXCEPT ![p] = k]
      /\ kind[p] = "idle"
      /\ UNCHANGED rows
      /\ todo' = [todo EXCEPT ![p] = s] \/ UNCHANGED todo
  BY DEF HandleEvent, HasEvent
<1>. HIDE DEF k, n
<1>4. Taken(k, n) \in Nat
  BY <1>2, TakesSome
<1>5. pts <= pts' /\ pts' - Taken(k, n) = pts /\ pts' \in Int
  BY <1>1, <1>3, <1>4
<1>6. s \in Seq(RowType) /\ Within(s, pts' - Taken(k, n), pts') /\ Divided(s)
  BY <1>2, <1>5, InboxInsertsDivide
<1>. HIDE DEF s
<1>7. Idle'
  BY <1>1, <1>2, <1>3 DEF Inv, Idle, TypeOK
<1>8. Numbered'
  <2>1. CASE todo' = [todo EXCEPT ![p] = s]
    <3>1. Within(s, pts, pts')
      BY <1>5, <1>6
    <3>. QED  BY <1>1, <1>3, <1>5, <1>6, <2>1, <3>1, RowsNumbered
  <2>2. CASE UNCHANGED todo
    <3>1. todo[p] = << >> /\ todo' = [todo EXCEPT ![p] = << >>]
      BY <1>1, <1>3, <2>2 DEF Inv, Idle, TypeOK
    <3>2. << >> \in Seq(RowType) /\ Within(<< >>, pts, pts') /\ Divided(<< >>)
      BY DEF Within, Divided
    <3>. QED  BY <1>1, <1>3, <1>5, <3>1, <3>2, RowsNumbered
  <2>. QED  BY <1>3, <2>1, <2>2
<1>. QED  BY <1>1, <1>7, <1>8 DEF Inv

LEMMA NumberReadOfMigratedInv ==
    ASSUME Inv, NEW p \in Partitions, NumberReadOfMigrated(p)
    PROVE  Inv'
<1>. DEFINE e == Row(pts', 1, "read")
            s == todo[p]
            t == << e >> \o s
<1>1. /\ TypeOK' /\ p \in Workers /\ pts \in Nat /\ pts' = pts + 1
      /\ todo' = [todo EXCEPT ![p] = t]
      /\ UNCHANGED rows
      /\ kind' = [kind EXCEPT ![p] = "newMessage"]
  BY NumberReadOfMigratedType DEF Inv, TypeOK, Workers, NumberReadOfMigrated
<1>2. e \in RowType /\ e.pts = pts' /\ e.count = 1
  BY <1>1 DEF Row, RowType, RowKinds, RequestKinds
<1>3. s \in Seq(RowType)
  BY <1>1 DEF Inv, TypeOK
<1>4. Within(s, 0, pts) /\ Divided(s)
  BY <1>1 DEF Inv, Numbered
<1>. HIDE DEF e, s
<1>5. /\ t \in Seq(RowType) /\ Len(t) = Len(s) + 1 /\ Len(s) \in Nat
      /\ t[1] = e
      /\ \A i \in 1 .. Len(t) : i # 1 => i - 1 \in 1 .. Len(s) /\ t[i] = s[i - 1]
  BY <1>2, <1>3
<1>. HIDE DEF t
<1>6. \A i \in 1 .. Len(s) : s[i] \in RowType /\ Apart(e, s[i]) /\ Apart(s[i], e)
  <2>1. SUFFICES ASSUME NEW i \in 1 .. Len(s)
                 PROVE  s[i] \in RowType /\ Apart(e, s[i]) /\ Apart(s[i], e)
    OBVIOUS
  <2>2. s[i] \in RowType /\ s[i].pts <= pts
    BY <1>3, <1>4 DEF Within
  <2>3. pts <= e.pts - e.count
    BY <1>1, <1>2
  <2>. QED  BY <1>1, <1>2, <2>2, <2>3, Beyond
<1>7. Divided(t)
  <2>1. SUFFICES ASSUME NEW i \in 1 .. Len(t), NEW j \in 1 .. Len(t), i # j
                 PROVE  Apart(t[i], t[j])
    BY DEF Divided
  <2>2. CASE i = 1
    BY <1>5, <1>6, <2>1, <2>2
  <2>3. CASE j = 1
    BY <1>5, <1>6, <2>1, <2>3
  <2>4. CASE i # 1 /\ j # 1
    <3>1. /\ i - 1 \in 1 .. Len(s) /\ t[i] = s[i - 1]
          /\ j - 1 \in 1 .. Len(s) /\ t[j] = s[j - 1]
          /\ i - 1 # j - 1
      BY <1>5, <2>1, <2>4
    <3>. QED  BY <1>4, <3>1 DEF Divided
  <2>. QED  BY <2>2, <2>3, <2>4
<1>8. \A i \in 1 .. Len(t) :
         \/ pts <= t[i].pts - t[i].count /\ t[i].pts <= pts'
         \/ \E j \in 1 .. Len(todo[p]) : t[i] = todo[p][j]
  <2>1. SUFFICES ASSUME NEW i \in 1 .. Len(t)
                 PROVE  \/ pts <= t[i].pts - t[i].count /\ t[i].pts <= pts'
                        \/ \E j \in 1 .. Len(todo[p]) : t[i] = todo[p][j]
    OBVIOUS
  <2>2. CASE i = 1
    BY <1>1, <1>2, <1>5, <2>2
  <2>3. CASE i # 1
    BY <1>5, <2>3 DEF s
  <2>. QED  BY <2>2, <2>3
<1>9. Numbered'
  <2>1. pts <= pts'
    BY <1>1
  <2>. QED  BY <1>1, <1>5, <1>7, <1>8, <2>1, NewRows
<1>10. Idle'
  BY <1>1 DEF Inv, Idle, TypeOK
<1>. QED  BY <1>1, <1>9, <1>10 DEF Inv

LEMMA InsertRowInv ==
    ASSUME Inv, NEW w \in Workers, InsertRow(w)
    PROVE  Inv'
<1>1. TypeOK'
  BY InsertRowType DEF Inv
<1>2. /\ todo[w] # << >> /\ UNCHANGED << pts, kind >>
      /\ todo' = [todo EXCEPT ![w] = Tail(@)]
      /\ rows' = rows \cup {Head(todo[w])} \/ UNCHANGED rows
  BY DEF InsertRow
<1>3. Idle'
  BY <1>2 DEF Inv, Idle, TypeOK
<1>4. Numbered'
  <2>1. CASE rows' = rows \cup {Head(todo[w])}
    BY <1>1, <1>2, <2>1, RowStored
  <2>2. CASE UNCHANGED rows
    <3>. DEFINE s == todo[w]
                t == Tail(s)
    <3>1. s \in Seq(RowType) /\ Divided(s) /\ pts \in Nat
      BY DEF Inv, TypeOK, Numbered
    <3>. HIDE DEF s
    <3>2. /\ t \in Seq(RowType) /\ Len(t) = Len(s) - 1
          /\ \A i \in 1 .. Len(t) : i + 1 \in 1 .. Len(s) /\ t[i] = s[i + 1]
      BY <1>2, <3>1 DEF s
    <3>. HIDE DEF t
    <3>3. Divided(t)
      BY <3>1, <3>2 DEF Divided
    <3>4. /\ todo' = [todo EXCEPT ![w] = t]
          /\ \A i \in 1 .. Len(t) : \E j \in 1 .. Len(todo[w]) : t[i] = todo[w][j]
      BY <1>2, <3>2 DEF s, t
    <3>5. pts <= pts'
      BY <1>2, <3>1
    <3>. QED  BY <1>1, <2>2, <3>2, <3>3, <3>4, <3>5, NewRows
  <2>. QED  BY <1>2, <2>1, <2>2
<1>. QED  BY <1>1, <1>3, <1>4 DEF Inv

LEMMA CrashInv ==
    ASSUME Inv,
           \/ \E r \in Requests : CrashRequest(r)
           \/ \E p \in Partitions : CrashConsumer(p)
    PROVE  Inv'
<1>1. TypeOK'
  BY CrashRequestType, ConsumerStepType DEF Inv
<1>2. PICK w \in Workers :
        /\ todo' = [todo EXCEPT ![w] = << >>]
        /\ kind' = [kind EXCEPT ![w] = "idle"]
        /\ UNCHANGED << pts, rows >>
  BY DEF CrashRequest, CrashConsumer, Workers
<1>3. Idle'
  BY <1>2 DEF Inv, Idle, TypeOK
<1>4. Numbered'
  BY <1>1, <1>2, RowsDropped
<1>. QED  BY <1>1, <1>3, <1>4 DEF Inv

\* Steps that touch neither the table nor what is to go into it; getState may
\* advance the counter.
LEMMA OthersInv ==
    ASSUME Inv,
           \/ \E r \in Requests : FinishRequest(r)
           \/ \E p \in Partitions :
                 Arrive(p) \/ SkipEvent(p) \/ FinishEvent(p) \/ Commit(p)
           \/ \E d \in Devices : GetState(d) \/ GetDifference(d)
    PROVE  Inv'
<1>1. TypeOK'
  BY FinishRequestType, ArriveType, SkipEventType, ConsumerStepType, DeviceType
     DEF Inv
<1>2. UNCHANGED << rows, todo >>
  BY DEF FinishRequest, Arrive, SkipEvent, FinishEvent, Commit, GetState,
         GetDifference, service
<1>3. pts' = pts \/ (pts = 0 /\ pts' = 1)
  BY DEF FinishRequest, Arrive, SkipEvent, FinishEvent, Commit, GetState,
         GetDifference
<1>4. Numbered'
  <2>1. pts <= pts' /\ pts \in Nat /\ pts' \in Nat
    BY <1>1, <1>3 DEF Inv, TypeOK
  <2>2. \A r \in rows : r.pts \in Int
    BY RowNumbers DEF Inv, TypeOK
  <2>3. \A w \in Workers : \A i \in 1 .. Len(todo[w]) : todo[w][i].pts \in Int
    <3>1. \A w \in Workers : todo[w] \in Seq(RowType)
      BY DEF Inv, TypeOK
    <3>2. \A w \in Workers : \A i \in 1 .. Len(todo[w]) : todo[w][i] \in RowType
      BY <3>1
    <3>. QED  BY <3>2, RowNumbers
  <2>4. \A w \in Workers : Within(todo[w], 0, pts')
    BY <2>1, <2>3 DEF Inv, Numbered, Within
  <2>5. \A r \in rows : 0 <= r.pts - r.count /\ r.pts <= pts'
    BY <2>1, <2>2 DEF Inv, Numbered
  <2>. QED  BY <1>2, <2>4, <2>5 DEF Inv, Numbered, NumberedOnce, Apart, Within, Divided
<1>5. Idle'
  <2>1. CASE UNCHANGED kind
    BY <1>2, <2>1 DEF Inv, Idle
  <2>2. CASE \E r \in Requests : FinishRequest(r)
    BY <1>2, <2>2 DEF Inv, Idle, FinishRequest, TypeOK
  <2>3. CASE \E p \in Partitions : FinishEvent(p)
    BY <1>2, <2>3 DEF Inv, Idle, FinishEvent, TypeOK
  <2>. QED  BY <2>1, <2>2, <2>3 DEF Arrive, SkipEvent, Commit, GetState,
               GetDifference, service
<1>. QED  BY <1>1, <1>4, <1>5 DEF Inv

LEMMA NextInv == Inv /\ Next => Inv'
BY TakeNumbersInv, HandleEventInv, NumberReadOfMigratedInv, InsertRowInv,
   CrashInv, OthersInv DEF Next

LEMMA SpecInv == Spec => []Inv
BY InitInv, NextInv, StutterInv, PTL DEF Spec

\* No two rows share a number, for any number of requests, of messages that
\* one deletes and of failures: handlers insert within what they took, and
\* nobody takes what another one has.
THEOREM NumbersAreUnique == Spec => []NumberedOnce
<1>1. Inv => NumberedOnce
  BY DEF Inv, Numbered
<1>. QED  BY <1>1, SpecInv, PTL

-----------------------------------------------------------------------------
(***************************************************************************)
(* The log as a set of rows stored and a set of rows to come.              *)
(***************************************************************************)

\* A history of one message, deleted by its owner, makes a row for nothing
\* that has the number of the update before it.
NoHistoryOfOne == 1 \notin Sizes \/ Kinds \cap Histories = {}

Positive == \A e \in rows \cup AllPending : e.count >= 1

PendingOfOthers(w) == UNION { Pending(v) : v \in Workers \ {w} }

Elements(t) == { t[i] : i \in 1 .. Len(t) }

LEMMA PendingSplit ==
    ASSUME NEW w \in Workers
    PROVE  AllPending = PendingOfOthers(w) \cup Pending(w)
BY DEF AllPending, PendingOfOthers

LEMMA PendingChanged ==
    ASSUME TypeOK, NEW w \in Workers, NEW t,
           todo' = [todo EXCEPT ![w] = t]
    PROVE  AllPending' = PendingOfOthers(w) \cup Elements(t)
<1>1. todo'[w] = t /\ \A v \in Workers \ {w} : todo'[v] = todo[v]
  BY DEF TypeOK
<1>2. Pending(w)' = Elements(t)
  BY <1>1 DEF Pending, Elements
<1>3. \A v \in Workers \ {w} : Pending(v)' = Pending(v)
  BY <1>1 DEF Pending
<1>. QED  BY <1>2, <1>3 DEF AllPending, PendingOfOthers

\* No two rows, stored or to come, end with the same number.
LEMMA Distinct ==
    ASSUME Inv, Positive
    PROVE  /\ \A e, f \in rows \cup AllPending : e.pts = f.pts => e = f
           /\ rows \cap AllPending = {}
           /\ \A e \in rows \cup AllPending : e \in RowType /\ e.pts <= pts
<1>1. \A e \in rows \cup AllPending :
        e \in RowType /\ e.count >= 1 /\ e.pts \in Int /\ e.count \in Nat
  BY PendingRows, RowNumbers DEF Inv, TypeOK, Positive
<1>2. \A e, f \in rows \cup AllPending : Apart(e, f) => e.pts # f.pts
  BY <1>1 DEF Apart
<1>3. \A e \in AllPending :
        \E w \in Workers : \E i \in 1 .. Len(todo[w]) : e = todo[w][i]
  BY DEF AllPending, Pending
<1>4. ASSUME NEW r \in rows, NEW e \in AllPending
      PROVE  r.pts # e.pts
  BY <1>2, <1>3 DEF Inv, Numbered
<1>5. ASSUME NEW e \in AllPending, NEW f \in AllPending, e.pts = f.pts
      PROVE  e = f
  <2>1. PICK v \in Workers : \E i \in 1 .. Len(todo[v]) : e = todo[v][i]
    BY <1>3
  <2>2. PICK i \in 1 .. Len(todo[v]) : e = todo[v][i]
    BY <2>1
  <2>3. PICK w \in Workers : \E j \in 1 .. Len(todo[w]) : f = todo[w][j]
    BY <1>3
  <2>4. PICK j \in 1 .. Len(todo[w]) : f = todo[w][j]
    BY <2>3
  <2>5. CASE v # w
    <3>1. Apart(e, f)
      BY <2>2, <2>4, <2>5 DEF Inv, Numbered
    <3>. QED  BY <1>2, <1>5, <3>1
  <2>6. CASE v = w /\ i # j
    <3>1. Divided(todo[v])
      BY DEF Inv, Numbered
    <3>2. Apart(e, f)
      BY <2>2, <2>4, <2>6, <3>1 DEF Divided
    <3>. QED  BY <1>2, <1>5, <3>2
  <2>7. CASE v = w /\ i = j
    BY <2>2, <2>4, <2>7
  <2>. QED  BY <2>5, <2>6, <2>7
<1>6. ASSUME NEW r \in rows, NEW s \in rows, r.pts = s.pts
      PROVE  r = s
  BY <1>2, <1>6 DEF Inv, Numbered, NumberedOnce
<1>7. \A e \in rows \cup AllPending : e.pts <= pts
  BY <1>3 DEF Inv, Numbered, Within
<1>. QED  BY <1>1, <1>4, <1>5, <1>6, <1>7

LEMMA NotApartFromItself ==
    ASSUME Inv, Positive, NEW e \in rows \cup AllPending
    PROVE  ~Apart(e, e)
BY PendingRows, RowNumbers DEF Inv, TypeOK, Positive, Apart

\* A handler adds rows for numbers it takes.
NewNumbers ==
    \E N \in SUBSET RowType :
       /\ AllPending' = AllPending \cup N
       /\ \A e \in N : e.count >= 1 /\ pts < e.pts /\ e.pts <= pts'
       /\ pts < pts'
       /\ UNCHANGED << rows, devices >>

NewEntry ==
    \E e \in AllPending \ rows :
       /\ rows' = rows \cup {e}
       /\ AllPending' = AllPending \ {e}
       /\ UNCHANGED << pts, devices >>

FewerPending ==
    /\ AllPending' \subseteq AllPending
    /\ UNCHANGED << pts, rows, devices >>

\* Rows t of which each is new or the handler's already, the latter all kept.
LEMMA NewNumbersTaken ==
    ASSUME Inv, NEW w \in Workers, NEW t \in Seq(RowType),
           todo' = [todo EXCEPT ![w] = t],
           pts' \in Nat, pts < pts',
           UNCHANGED << rows, devices >>,
           Pending(w) \subseteq Elements(t),
           \A e \in Elements(t) \ Pending(w) :
               e.count >= 1 /\ pts <= e.pts - e.count /\ e.pts <= pts'
    PROVE  NewNumbers
<1>. DEFINE N == Elements(t) \ Pending(w)
<1>1. N \subseteq RowType
  BY DEF Elements
<1>2. AllPending' = AllPending \cup N
  BY PendingSplit, PendingChanged DEF Inv
<1>3. \A e \in N : e.count >= 1 /\ pts < e.pts /\ e.pts <= pts'
  BY <1>1, RowNumbers DEF Inv, TypeOK
<1>. HIDE DEF N
<1>. QED  BY <1>1, <1>2, <1>3 DEF NewNumbers

\* The same for a handler that had none.
LEMMA FirstNumbersTaken ==
    ASSUME Inv, NEW w \in Workers, NEW t \in Seq(RowType),
           kind[w] = "idle",
           todo' = [todo EXCEPT ![w] = t],
           pts' \in Nat, pts < pts',
           UNCHANGED << rows, devices >>,
           Within(t, pts, pts'),
           \A i \in 1 .. Len(t) : t[i].count >= 1
    PROVE  NewNumbers
<1>1. Pending(w) = {}
  BY DEF Inv, Idle, Pending
<1>2. \A e \in Elements(t) : e.count >= 1 /\ pts <= e.pts - e.count /\ e.pts <= pts'
  BY DEF Elements, Within
<1>. QED  BY <1>1, <1>2, NewNumbersTaken

LEMMA TakeNumbersStep ==
    ASSUME NoHistoryOfOne, Inv, NEW r \in Requests, TakeNumbers(r)
    PROVE  NewNumbers \/ FewerPending
<1>1. r \in Workers /\ pts \in Nat /\ pts' \in Nat /\ kind[r] = "idle"
  BY TakeNumbersType DEF Inv, TypeOK, Workers, TakeNumbers
<1>2. UNCHANGED << rows, devices >>
  BY DEF TakeNumbers
<1>3. PICK k \in Kinds :
        \/ UNCHANGED << pts, todo >>
        \/ \E m \in SizesOf(k) :
             /\ pts' = pts + Taken(k, m)
             /\ todo' = [todo EXCEPT ![r] = Inserts(k, m, pts')]
  BY DEF TakeNumbers
<1>4. CASE UNCHANGED << pts, todo >>
  BY <1>2, <1>4 DEF FewerPending, AllPending, Pending
<1>5. ASSUME NEW m \in SizesOf(k),
             pts' = pts + Taken(k, m),
             todo' = [todo EXCEPT ![r] = Inserts(k, m, pts')]
      PROVE  NewNumbers
  <2>1. k \in RowKinds
    BY ConstantsAssumption DEF RowKinds
  <2>2. m \in Nat \ {0} /\ Taken(k, m) \in Nat \ {0}
    BY Sized, TakesSome
  <2>3. pts < pts' /\ pts' - Taken(k, m) = pts /\ pts' \in Int
    BY <1>1, <1>5, <2>2
  <2>4. ~(k \in Histories /\ m = 1)
    BY DEF NoHistoryOfOne, SizesOf, Many
  <2>5. /\ Inserts(k, m, pts') \in Seq(RowType)
        /\ Within(Inserts(k, m, pts'), pts' - Taken(k, m), pts')
        /\ \A i \in 1 .. Len(Inserts(k, m, pts')) :
              Inserts(k, m, pts')[i].count >= 1
    BY <2>1, <2>2, <2>3, <2>4, InsertsDivide
  <2>6. Within(Inserts(k, m, pts'), pts, pts')
    BY <2>3, <2>5
  <2>. QED  BY <1>1, <1>2, <1>5, <2>3, <2>5, <2>6, FirstNumbersTaken
<1>. QED  BY <1>3, <1>4, <1>5

LEMMA HandleEventStep ==
    ASSUME Inv, NEW p \in Partitions, HandleEvent(p)
    PROVE  NewNumbers
<1>1. p \in Workers /\ pts \in Nat /\ pts' \in Nat /\ kind[p] = "idle"
  BY HandleEventType DEF Inv, TypeOK, Workers, HandleEvent, HasEvent
<1>. DEFINE k == Current(p).kind
            n == Current(p).size
            s == InboxInserts(k, n, pts')
<1>2. k \in RowKinds /\ n \in Nat \ {0}
  BY CurrentType DEF Inv, HandleEvent, EventType, RowKinds
<1>3. /\ pts' = pts + Taken(k, n)
      /\ UNCHANGED << rows, devices >>
      /\ todo' = [todo EXCEPT ![p] = s] \/ UNCHANGED todo
  BY DEF HandleEvent
<1>. HIDE DEF k, n
<1>4. Taken(k, n) \in Nat \ {0}
  BY <1>2, TakesSome
<1>5. pts < pts' /\ pts' - Taken(k, n) = pts /\ pts' \in Int
  BY <1>1, <1>3, <1>4
<1>6. /\ s \in Seq(RowType) /\ Within(s, pts' - Taken(k, n), pts')
      /\ \A i \in 1 .. Len(s) : s[i].count >= 1
  BY <1>2, <1>5, InboxInsertsDivide
<1>. HIDE DEF s
<1>7. CASE todo' = [todo EXCEPT ![p] = s]
  <2>1. Within(s, pts, pts')
    BY <1>5, <1>6
  <2>. QED  BY <1>1, <1>3, <1>5, <1>6, <1>7, <2>1, FirstNumbersTaken
<1>8. CASE UNCHANGED todo
  <2>1. todo[p] = << >> /\ todo' = [todo EXCEPT ![p] = << >>]
    BY <1>1, <1>8 DEF Inv, Idle, TypeOK
  <2>2. << >> \in Seq(RowType) /\ Within(<< >>, pts, pts')
    BY DEF Within
  <2>3. \A i \in 1 .. Len(<< >>) : << >>[i].count >= 1
    OBVIOUS
  <2>. QED  BY <1>1, <1>3, <1>5, <2>1, <2>2, <2>3, FirstNumbersTaken
<1>. QED  BY <1>3, <1>7, <1>8

LEMMA NumberReadOfMigratedStep ==
    ASSUME Inv, NEW p \in Partitions, NumberReadOfMigrated(p)
    PROVE  NewNumbers
<1>. DEFINE e == Row(pts', 1, "read")
            s == todo[p]
            t == << e >> \o s
<1>1. /\ p \in Workers /\ pts \in Nat /\ pts' = pts + 1
      /\ todo' = [todo EXCEPT ![p] = t]
      /\ UNCHANGED << rows, devices >>
  BY DEF Inv, TypeOK, Workers, NumberReadOfMigrated
<1>2. e \in RowType /\ e.pts = pts' /\ e.count = 1
  BY <1>1 DEF Row, RowType, RowKinds, RequestKinds
<1>3. s \in Seq(RowType)
  BY <1>1 DEF Inv, TypeOK
<1>. HIDE DEF e, s
<1>4. /\ t \in Seq(RowType) /\ Len(t) = Len(s) + 1 /\ Len(s) \in Nat
      /\ t[1] = e
      /\ \A i \in 1 .. Len(t) : i # 1 => i - 1 \in 1 .. Len(s) /\ t[i] = s[i - 1]
      /\ \A i \in 1 .. Len(s) : i + 1 \in 1 .. Len(t) /\ t[i + 1] = s[i]
  BY <1>2, <1>3
<1>. HIDE DEF t
<1>5. Pending(p) \subseteq Elements(t)
  <2>1. SUFFICES ASSUME NEW i \in 1 .. Len(s) PROVE s[i] \in Elements(t)
    BY DEF Pending, s
  <2>2. i + 1 \in 1 .. Len(t) /\ t[i + 1] = s[i]
    BY <1>4
  <2>. QED  BY <2>2 DEF Elements
<1>6. Elements(t) \ Pending(p) \subseteq {e}
  <2>1. SUFFICES ASSUME NEW i \in 1 .. Len(t), t[i] # e PROVE t[i] \in Pending(p)
    BY DEF Elements
  <2>2. i - 1 \in 1 .. Len(s) /\ t[i] = s[i - 1]
    BY <1>4, <2>1
  <2>. QED  BY <2>2 DEF Pending, s
<1>7. pts' \in Nat /\ pts < pts' /\ pts <= e.pts - e.count /\ e.pts <= pts' /\ e.count >= 1
  BY <1>1, <1>2
<1>. QED  BY <1>1, <1>4, <1>5, <1>6, <1>7, NewNumbersTaken

LEMMA InsertRowStep ==
    ASSUME Inv, Positive, NEW w \in Workers, InsertRow(w)
    PROVE  NewEntry \/ FewerPending
<1>. DEFINE s == todo[w]
            e == Head(s)
            t == Tail(s)
<1>1. /\ s # << >> /\ UNCHANGED << pts, devices >>
      /\ todo' = [todo EXCEPT ![w] = t]
      /\ rows' = rows \cup {e} \/ UNCHANGED rows
      /\ s \in Seq(RowType)
  BY DEF InsertRow, Inv, TypeOK
<1>. HIDE DEF s
<1>2. /\ 1 \in 1 .. Len(s) /\ e = s[1] /\ Len(t) = Len(s) - 1
      /\ \A i \in 1 .. Len(t) : i + 1 \in 1 .. Len(s) /\ i + 1 # 1 /\ t[i] = s[i + 1]
      /\ \A i \in 1 .. Len(s) : i # 1 => i - 1 \in 1 .. Len(t) /\ s[i] = t[i - 1]
  BY <1>1
<1>. HIDE DEF e, t
<1>3. Pending(w) = Elements(t) \cup {e}
  <2>1. \A i \in 1 .. Len(s) : s[i] = e \/ s[i] \in Elements(t)
    <3>1. SUFFICES ASSUME NEW i \in 1 .. Len(s), i # 1 PROVE s[i] \in Elements(t)
      BY <1>2
    <3>2. i - 1 \in 1 .. Len(t) /\ s[i] = t[i - 1]
      BY <1>2, <3>1
    <3>. QED  BY <3>2 DEF Elements
  <2>2. \A i \in 1 .. Len(t) : t[i] \in Pending(w)
    <3>1. SUFFICES ASSUME NEW i \in 1 .. Len(t) PROVE t[i] \in Pending(w)
      OBVIOUS
    <3>2. i + 1 \in 1 .. Len(s) /\ t[i] = s[i + 1]
      BY <1>2
    <3>. QED  BY <3>2 DEF Pending, s
  <2>3. e \in Pending(w)
    BY <1>2 DEF Pending, s
  <2>4. Pending(w) \subseteq Elements(t) \cup {e}
    BY <2>1 DEF Pending, s
  <2>5. Elements(t) \subseteq Pending(w)
    BY <2>2 DEF Elements
  <2>. QED  BY <2>3, <2>4, <2>5
<1>4. AllPending' = PendingOfOthers(w) \cup Elements(t)
  BY <1>1, PendingChanged DEF Inv
<1>5. AllPending = PendingOfOthers(w) \cup Elements(t) \cup {e}
  BY <1>3, PendingSplit
<1>6. e \notin Elements(t)
  <2>1. SUFFICES ASSUME NEW i \in 1 .. Len(t), e = t[i] PROVE FALSE
    BY DEF Elements
  <2>3. Divided(s)
    BY DEF Inv, Numbered, s
  <2>4. i + 1 \in 1 .. Len(s) /\ t[i] = s[i + 1] /\ i + 1 # 1
    BY <1>2
  <2>2. Apart(e, e)
    BY <1>2, <2>1, <2>3, <2>4 DEF Divided
  <2>. QED  BY <1>5, <2>2, NotApartFromItself
<1>7. e \notin PendingOfOthers(w)
  <2>1. SUFFICES ASSUME NEW v \in Workers, v # w,
                        NEW i \in 1 .. Len(todo[v]), e = todo[v][i]
                 PROVE  FALSE
    BY DEF PendingOfOthers, Pending
  <2>2. 1 \in 1 .. Len(todo[w]) /\ e = todo[w][1]
    BY <1>2 DEF s
  <2>3. Apart(todo[w][1], todo[v][i])
    BY <2>1, <2>2 DEF Inv, Numbered
  <2>. QED  BY <1>5, <2>1, <2>2, <2>3, NotApartFromItself
<1>8. CASE rows' = rows \cup {e}
  <2>1. AllPending' = AllPending \ {e}
    BY <1>4, <1>5, <1>6, <1>7
  <2>2. e \in AllPending \ rows
    BY <1>5, Distinct
  <2>. QED  BY <1>1, <1>8, <2>1, <2>2 DEF NewEntry
<1>9. CASE UNCHANGED rows
  BY <1>1, <1>4, <1>5, <1>9 DEF FewerPending
<1>. QED  BY <1>1, <1>8, <1>9

LEMMA CrashStep ==
    ASSUME Inv,
           \/ \E r \in Requests : CrashRequest(r)
           \/ \E p \in Partitions : CrashConsumer(p)
    PROVE  FewerPending
<1>1. PICK w \in Workers :
        /\ todo' = [todo EXCEPT ![w] = << >>]
        /\ UNCHANGED << pts, rows, devices >>
  BY DEF CrashRequest, CrashConsumer, Workers, devices
<1>2. Elements(<< >>) = {}
  BY DEF Elements
<1>3. AllPending' = PendingOfOthers(w) \cup Elements(<< >>)
  BY <1>1, PendingChanged DEF Inv
<1>. QED  BY <1>1, <1>2, <1>3, PendingSplit DEF FewerPending

LEMMA OthersStep ==
    ASSUME \/ \E r \in Requests : FinishRequest(r)
           \/ \E p \in Partitions :
                 Arrive(p) \/ SkipEvent(p) \/ FinishEvent(p) \/ Commit(p)
    PROVE  FewerPending
BY DEF FinishRequest, Arrive, SkipEvent, FinishEvent, Commit, service,
       FewerPending, AllPending, Pending

\* What a step does to the two sets.
LEMMA Steps ==
    ASSUME NoHistoryOfOne, Inv, Positive, Next
    PROVE  \/ NewNumbers \/ NewEntry \/ FewerPending
           \/ \E d \in Devices : GetState(d) \/ GetDifference(d)
BY TakeNumbersStep, HandleEventStep, NumberReadOfMigratedStep, InsertRowStep,
   CrashStep, OthersStep DEF Next

-----------------------------------------------------------------------------
(***************************************************************************)
(* The refinement.                                                         *)
(***************************************************************************)

\* A device is never beyond what was handed out.
StepInv ==
    /\ Inv /\ Positive
    /\ \A d \in Devices : dpts[d] <= pts

LEMMA InitStepInv == Init => StepInv
<1>. SUFFICES ASSUME Init PROVE StepInv
  OBVIOUS
<1>1. AllPending = {}
  BY DEF Init, AllPending, Pending
<1>. QED  BY <1>1, InitInv DEF StepInv, Positive, Init

\* A difference is what follows the device's position, up to the new one.
LEMMA DifferenceIsWhole ==
    ASSUME Inv, Positive, NEW d \in Devices, GetDifference(d)
    PROVE  \E q \in dpts[d] .. pts :
             /\ q = dpts[d] \/ \E r \in rows : q = r.pts
             /\ dpts' = [dpts EXCEPT ![d] = q]
             /\ got' = [got EXCEPT ![d] =
                    @ \cup { e \in rows : dpts[d] < e.pts /\ e.pts <= q }]
             /\ overtaken' = [overtaken EXCEPT ![d] =
                    @ \cup { n \in PendingPts : dpts[d] < n /\ n <= q }]
<1>1. PICK R \in Selections(RowsAfter(dpts[d])), q \in dpts[d] .. pts :
        /\ IsLastPts(q, R, dpts[d])
        /\ dpts' = [dpts EXCEPT ![d] = q]
        /\ got' = [got EXCEPT ![d] = @ \cup R]
        /\ overtaken' = [overtaken EXCEPT ![d] =
               @ \cup { n \in PendingPts : dpts[d] < n /\ n <= q }]
  BY DEF GetDifference
<1>2. dpts[d] \in Nat /\ q \in Int /\ \A r \in rows : r.pts \in Int
  BY RowNumbers DEF Inv, TypeOK
<1>3. /\ R \subseteq rows
      /\ \A r \in R : dpts[d] < r.pts
      /\ \A s \in rows \ R : dpts[d] < s.pts => \A r \in R : r.pts <= s.pts
  BY <1>2 DEF Selections, RowsAfter
<1>4. \A r \in R : r.pts <= q
  BY <1>1 DEF IsLastPts
<1>5. ASSUME NEW s \in rows, dpts[d] < s.pts, s.pts <= q
      PROVE  s \in R
  <2>1. SUFFICES ASSUME s \notin R PROVE FALSE
    OBVIOUS
  <2>2. CASE R = {}
    BY <1>1, <1>2, <1>5, <2>2 DEF IsLastPts
  <2>3. CASE R # {}
    <3>1. PICK r \in R : q = r.pts
      BY <1>1, <2>3 DEF IsLastPts
    <3>2. s.pts = r.pts
      BY <1>2, <1>3, <1>5, <2>1, <3>1
    <3>. QED  BY <1>3, <2>1, <3>2, Distinct
  <2>. QED  BY <2>2, <2>3
<1>6. R = { e \in rows : dpts[d] < e.pts /\ e.pts <= q }
  BY <1>3, <1>4, <1>5
<1>7. q = dpts[d] \/ \E r \in rows : q = r.pts
  BY <1>1, <1>3 DEF IsLastPts
<1>. QED  BY <1>1, <1>6, <1>7

LEMMA NextStepInv ==
    ASSUME NoHistoryOfOne, StepInv, Next
    PROVE  StepInv'
<1>1. Inv' /\ Inv /\ Positive
  BY NextInv DEF StepInv
<1>2. /\ pts \in Nat /\ pts' \in Nat
      /\ dpts \in [Devices -> Nat] /\ \A d \in Devices : dpts[d] <= pts
  BY <1>1 DEF StepInv, Inv, TypeOK
<1>3. CASE NewNumbers
  <2>1. Positive'
    BY <1>3 DEF NewNumbers, StepInv, Positive
  <2>2. \A d \in Devices : dpts'[d] <= pts'
    BY <1>2, <1>3 DEF NewNumbers, devices
  <2>. QED  BY <1>1, <2>1, <2>2 DEF StepInv
<1>4. CASE NewEntry
  BY <1>1, <1>4 DEF NewEntry, StepInv, Positive, devices
<1>5. CASE FewerPending
  BY <1>1, <1>5 DEF FewerPending, StepInv, Positive, devices
<1>6. ASSUME NEW d \in Devices, GetState(d)
      PROVE  StepInv'
  <2>1. Positive'
    BY <1>1, <1>6 DEF GetState, service, Positive, AllPending, Pending
  <2>2. pts <= pts' /\ dpts' = [dpts EXCEPT ![d] = pts']
    BY <1>2, <1>6 DEF GetState
  <2>3. \A c \in Devices : dpts'[c] <= pts'
    BY <1>2, <2>2
  <2>. QED  BY <1>1, <2>1, <2>3 DEF StepInv
<1>7. ASSUME NEW d \in Devices, GetDifference(d)
      PROVE  StepInv'
  <2>1. Positive'
    BY <1>1, <1>7 DEF GetDifference, service, Positive, AllPending, Pending
  <2>2. PICK q \in dpts[d] .. pts : dpts' = [dpts EXCEPT ![d] = q]
    BY <1>7 DEF GetDifference
  <2>3. pts' = pts
    BY <1>7 DEF GetDifference
  <2>4. \A c \in Devices : dpts'[c] <= pts'
    BY <1>2, <2>2, <2>3
  <2>. QED  BY <1>1, <2>1, <2>4 DEF StepInv
<1>. QED  BY <1>1, <1>3, <1>4, <1>5, <1>6, <1>7, Steps

LEMMA Simulation ==
    ASSUME NoHistoryOfOne, StepInv, Next
    PROVE  UL!Next \/ UNCHANGED UL!vars
<1>1. Inv' /\ Inv /\ Positive
  BY NextInv DEF StepInv
<1>2. pts \in Nat /\ pts' \in Nat /\ dpts \in [Devices -> Nat]
  BY <1>1 DEF Inv, TypeOK
<1>3. CASE NewNumbers
  <2>1. PICK N \in SUBSET RowType :
          /\ AllPending' = AllPending \cup N
          /\ \A e \in N : e.count >= 1 /\ pts < e.pts /\ e.pts <= pts'
    BY <1>3 DEF NewNumbers
  <2>2. PendingPts' = PendingPts \cup { e.pts : e \in N }
    BY <2>1 DEF PendingPts
  <2>3. \A e \in N : e.pts \in pts + 1 .. pts'
    BY <1>2, <2>1, RowNumbers
  <2>4. PendingPts' \ PendingPts \subseteq pts + 1 .. pts'
    BY <2>2, <2>3
  <2>5. pts' > pts /\ UNCHANGED << rows, base, dpts, got, overtaken >>
    BY <1>2, <1>3 DEF NewNumbers, devices
  <2>. QED  BY <1>2, <2>2, <2>4, <2>5 DEF UL!Next, UL!Reserve
<1>4. CASE NewEntry
  <2>1. PICK e \in AllPending \ rows :
          rows' = rows \cup {e} /\ AllPending' = AllPending \ {e}
    BY <1>4 DEF NewEntry
  <2>2. PendingPts' = PendingPts \ {e.pts}
    BY <1>1, <2>1, Distinct DEF PendingPts
  <2>3. e \in rows' \ rows /\ e.pts \in PendingPts
    BY <2>1 DEF PendingPts
  <2>4. UNCHANGED << pts, base, dpts, got, overtaken >>
    BY <1>4 DEF NewEntry, devices
  <2>. QED  BY <2>1, <2>2, <2>3, <2>4 DEF UL!Next, UL!Publish
<1>5. CASE FewerPending
  <2>1. PendingPts' \subseteq PendingPts
    BY <1>5 DEF FewerPending, PendingPts
  <2>2. UNCHANGED << pts, rows, base, dpts, got, overtaken >>
    BY <1>5 DEF FewerPending, devices
  <2>. QED  BY <2>1, <2>2 DEF UL!Next, UL!Abandon
<1>6. ASSUME NEW d \in Devices, GetState(d)
      PROVE  UL!Next
  <2>1. pts' >= pts
    BY <1>2, <1>6 DEF GetState
  <2>2. UNCHANGED << rows, PendingPts >>
    BY <1>6 DEF GetState, service, PendingPts, AllPending, Pending
  <2>3. UL!Join(d)
    BY <1>2, <1>6, <2>1, <2>2 DEF GetState, UL!Join
  <2>. QED  BY <2>3 DEF UL!Next
<1>7. ASSUME NEW d \in Devices, GetDifference(d)
      PROVE  UL!Next
  <2>1. UNCHANGED << pts, rows, base, PendingPts >>
    BY <1>7 DEF GetDifference, service, PendingPts, AllPending, Pending
  <2>2. UL!Fetch(d)
    BY <1>1, <1>7, <2>1, DifferenceIsWhole DEF UL!Fetch, UL!Between
  <2>. QED  BY <2>2 DEF UL!Next
<1>. QED  BY <1>1, <1>3, <1>4, <1>5, <1>6, <1>7, Steps

\* The handlers, the consumers and getDifference implement the abstract log,
\* unless a history of one message may be deleted.
THEOREM LogImplemented ==
    ASSUME NoHistoryOfOne
    PROVE  Spec => ImplementsUpdateLog
<1>1. Init => UL!Init
  <2>1. ASSUME Init PROVE PendingPts = {}
    BY <2>1 DEF Init, PendingPts, AllPending, Pending
  <2>. QED  BY <2>1 DEF Init, UL!Init
<1>2. StepInv /\ Next => StepInv' /\ [UL!Next]_(UL!vars)
  BY NextStepInv, Simulation
<1>3. StepInv /\ UNCHANGED vars => StepInv' /\ [UL!Next]_(UL!vars)
  <2>. SUFFICES ASSUME StepInv, UNCHANGED vars
                PROVE  StepInv' /\ UNCHANGED UL!vars
    OBVIOUS
  <2>1. Inv'
    BY StutterInv DEF StepInv
  <2>2. UNCHANGED << AllPending, PendingPts >>
    BY DEF vars, AllPending, PendingPts, Pending
  <2>. QED  BY <2>1, <2>2 DEF vars, StepInv, Positive, UL!vars
<1>. QED  BY InitStepInv, <1>1, <1>2, <1>3, PTL DEF Spec, ImplementsUpdateLog, UL!Spec

\* UpdateLogProofs, of the log as it is here.
ULP == INSTANCE UpdateLogProofs WITH
        counter <- pts, open <- PendingPts, log <- rows, pos <- dpts

\* What the abstract log promises holds of the code: getDifference passes over
\* a stored update only if its row went in after a later number was read.
THEOREM OnlyOvertakenIsMissed ==
    ASSUME NoHistoryOfOne
    PROVE  Spec => []OnlyOvertaken
<1>1. ULP!Spec => []ULP!OnlyOvertakenMissed
  BY ULP!OnlyOvertakenIsMissed
<1>2. UL!Spec <=> ULP!Spec
  BY DEF UL!Spec, ULP!Spec, UL!Init, ULP!Init, UL!Next, ULP!Next, UL!vars,
         ULP!vars, UL!Reserve, ULP!Reserve, UL!Publish, ULP!Publish,
         UL!Abandon, ULP!Abandon, UL!Join, ULP!Join, UL!Fetch, ULP!Fetch,
         UL!Between, ULP!Between
<1>3. OnlyOvertaken <=> ULP!OnlyOvertakenMissed
  BY DEF OnlyOvertaken, UL!OnlyOvertakenMissed, ULP!OnlyOvertakenMissed
<1>. QED  BY LogImplemented, <1>1, <1>2, <1>3, PTL DEF ImplementsUpdateLog

-----------------------------------------------------------------------------
(***************************************************************************)
(* One writer: with -usev3, and as long as the user only sends, reads and  *)
(* receives messages, the consumer of the user's partition alone numbers   *)
(* and stores.                                                             *)
(***************************************************************************)
OneWriter ==
    /\ V3 = {TRUE}
    /\ Kinds \subseteq { "send", "read", "readContents" }
    /\ Incoming \subseteq { "newMessage", "editIn", "clearHistory" }

OneWriterEvents == { "newMessage", "editIn", "clearHistory", "outboxV3", "readInboxV3" }

Increasing(t) == \A i, j \in 1 .. Len(t) : i < j => t[i].pts < t[j].pts

\* Nobody but the consumer of the user's partition has rows to insert ...
OneWriterControl ==
    /\ kUseV3 = TRUE
    /\ \A r \in Requests : kind[r] \in Kinds \cup {"idle"} /\ todo[r] = << >>
    /\ kind["chat"] = "idle" /\ events["chat"] = << >>
    /\ kind["user"] # "migrateTo"
    /\ \A i \in 1 .. Len(events["user"]) :
          events["user"][i].kind \in OneWriterEvents

\* ... which are in order, beyond those stored and where every device is.
InOrder ==
    /\ Increasing(todo["user"])
    /\ \A i \in 1 .. Len(todo["user"]) : \A r \in rows : r.pts < todo["user"][i].pts
    /\ \A i \in 1 .. Len(todo["user"]) : \A d \in Devices :
          todo["user"][i].pts <= base[d] \/ dpts[d] < todo["user"][i].pts
    /\ DifferenceComplete

OneWriterInv == StepInv /\ OneWriterControl /\ InOrder

LEMMA OneWriterHasNoHistoryOfOne ==
    ASSUME OneWriter
    PROVE  NoHistoryOfOne
BY DEF OneWriter, NoHistoryOfOne, Histories

LEMMA InitOneWriter ==
    ASSUME OneWriter
    PROVE  Init => OneWriterInv
<1>. SUFFICES ASSUME Init PROVE OneWriterInv
  OBVIOUS
<1>1. OneWriterControl
  BY DEF Init, OneWriter, OneWriterControl, Workers, Partitions
<1>2. InOrder
  BY DEF Init, InOrder, Increasing, Workers, Partitions, DifferenceComplete
<1>. QED  BY <1>1, <1>2, InitStepInv DEF OneWriterInv

LEMMA OnlyUserPending ==
    ASSUME Inv, OneWriterControl
    PROVE  AllPending = Pending("user")
<1>1. \A w \in Workers : w # "user" => todo[w] = << >>
  BY DEF Workers, Partitions, Inv, Idle, OneWriterControl
<1>2. \A w \in Workers : w # "user" => Pending(w) = {}
  BY <1>1 DEF Pending
<1>3. "user" \in Workers
  BY DEF Workers, Partitions
<1>. QED  BY <1>2, <1>3 DEF AllPending

\* What the consumer inserts is in order.
LEMMA InsertsIncrease ==
    ASSUME NEW k \in OneWriterEvents, NEW n \in Nat \ {0}, NEW p \in Int
    PROVE  Increasing(InboxInserts(k, n, p))
<1>. DEFINE s == InboxInserts(k, n, p)
            a == Row(p - 2, n - 1, "delete")
            b == Row(p - 1, 1, "read")
            c == Row(p, 1, "edit")
            e == Row(p, n, k)
<1>1. a.pts = p - 2 /\ b.pts = p - 1 /\ c.pts = p
  BY DEF Row
<1>2. CASE k = "clearHistory" /\ n = 1
  <2>1. s = << b, c >>
    BY <1>2 DEF InboxInserts, Inserts, Histories
  <2>. HIDE DEF s, b, c
  <2>2. Len(s) = 2 /\ s[1] = b /\ s[2] = c
    BY <2>1
  <2>. QED  BY <1>1, <2>2 DEF Increasing, s
<1>3. CASE k = "clearHistory" /\ n # 1
  <2>1. s = << a, b, c >>
    BY <1>3 DEF InboxInserts, Inserts, Histories
  <2>. HIDE DEF s, a, b, c
  <2>2. Len(s) = 3 /\ s[1] = a /\ s[2] = b /\ s[3] = c
    BY <2>1
  <2>. QED  BY <1>1, <2>2 DEF Increasing, s
<1>4. CASE k # "clearHistory"
  <2>1. s = << e >>
    BY <1>4 DEF InboxInserts, Inserts, Histories, OneWriterEvents
  <2>. HIDE DEF s, e
  <2>2. Len(s) = 1
    BY <2>1
  <2>. QED  BY <2>2 DEF Increasing, s
<1>. QED  BY <1>2, <1>3, <1>4

LEMMA NextOneWriterControl ==
    ASSUME OneWriter, Inv, OneWriterControl, Next
    PROVE  OneWriterControl'
<1>0. /\ "user" \in Partitions /\ "chat" \in Partitions
      /\ "user" \notin Requests /\ "chat" \notin Requests
      /\ \A p \in Partitions : p = "user" \/ p = "chat"
      /\ kind \in [Workers -> RowKinds \cup {"idle"}]
      /\ todo \in [Workers -> Seq(RowType)]
      /\ events \in [Partitions -> Seq(EventType)]
      /\ next \in [Partitions -> Nat \ {0}]
  BY ConstantsAssumption DEF Partitions, Inv, TypeOK
<1>1. ASSUME NEW r \in Requests, TakeNumbers(r) PROVE OneWriterControl'
  <2>1. PICK k \in Kinds :
          /\ kind' = [kind EXCEPT ![r] = k]
          /\ \/ UNCHANGED todo
             \/ ~LeftToInbox(k) /\ \E n \in SizesOf(k) :
                  todo' = [todo EXCEPT ![r] = Inserts(k, n, pts')]
    BY <1>1 DEF TakeNumbers
  <2>2. Inserts("readContents", 1, 1) = << >> /\ \A n, q : Inserts("readContents", n, q) = << >>
    BY DEF Inserts
  <2>3. ~LeftToInbox(k) => k = "readContents"
    BY DEF LeftToInbox, OneWriter, OneWriterControl
  <2>4. todo' = todo \/ todo' = [todo EXCEPT ![r] = << >>]
    BY <2>1, <2>2, <2>3
  <2>5. UNCHANGED << kUseV3, events >>
    BY <1>1 DEF TakeNumbers, kafka
  <2>6. \A q \in Requests : kind'[q] \in Kinds \cup {"idle"} /\ todo'[q] = << >>
    BY <1>0, <2>1, <2>4 DEF OneWriterControl, Workers
  <2>7. kind'["chat"] = kind["chat"] /\ kind'["user"] = kind["user"]
    BY <1>0, <2>1
  <2>. QED  BY <2>5, <2>6, <2>7 DEF OneWriterControl
<1>2. ASSUME NEW r \in Requests, FinishRequest(r) PROVE OneWriterControl'
  <2>1. kind' = [kind EXCEPT ![r] = "idle"] /\ UNCHANGED << kUseV3, todo >>
    BY <1>2 DEF FinishRequest
  <2>2. \A q \in Requests : kind'[q] \in Kinds \cup {"idle"} /\ todo'[q] = << >>
    BY <1>0, <2>1 DEF OneWriterControl, Workers
  <2>3. kind'["chat"] = kind["chat"] /\ kind'["user"] = kind["user"]
    BY <1>0, <2>1
  <2>4. CASE UNCHANGED events
    BY <2>1, <2>2, <2>3, <2>4 DEF OneWriterControl
  <2>5. CASE /\ kind[r] \in {"send", "edit", "read"}
             /\ events' = [events EXCEPT !["user"] =
                              Append(@, Event(SelfEvent(kind[r]), 1))]
    <3>. DEFINE e == Event(SelfEvent(kind[r]), 1)
    <3>1. kind[r] \in {"send", "read"} /\ kUseV3 = TRUE
      BY <2>5 DEF OneWriter, OneWriterControl
    <3>2. e.kind \in OneWriterEvents
      BY <3>1 DEF Event, SelfEvent, OneWriterEvents
    <3>. HIDE DEF e
    <3>3. events'["user"] = Append(events["user"], e) /\ events'["chat"] = events["chat"]
      BY <1>0, <2>5 DEF e
    <3>4. \A i \in 1 .. Len(events'["user"]) :
             events'["user"][i] = e \/ (i \in 1 .. Len(events["user"])
                                          /\ events'["user"][i] = events["user"][i])
      BY <1>0, <3>3
    <3>. QED  BY <2>1, <2>2, <2>3, <3>2, <3>3, <3>4 DEF OneWriterControl
  <2>. QED  BY <1>2, <2>4, <2>5 DEF FinishRequest
<1>3. ASSUME NEW r \in Requests, CrashRequest(r) PROVE OneWriterControl'
  <2>1. /\ kind' = [kind EXCEPT ![r] = "idle"] /\ todo' = [todo EXCEPT ![r] = << >>]
        /\ UNCHANGED << kUseV3, events >>
    BY <1>3 DEF CrashRequest, kafka
  <2>2. \A q \in Requests : kind'[q] \in Kinds \cup {"idle"} /\ todo'[q] = << >>
    BY <1>0, <2>1 DEF OneWriterControl, Workers
  <2>3. kind'["chat"] = kind["chat"] /\ kind'["user"] = kind["user"]
    BY <1>0, <2>1
  <2>. QED  BY <2>1, <2>2, <2>3 DEF OneWriterControl
<1>4. ASSUME NEW w \in Workers, InsertRow(w) PROVE OneWriterControl'
  <2>1. /\ todo[w] # << >> /\ todo' = [todo EXCEPT ![w] = Tail(@)]
        /\ UNCHANGED << kUseV3, kind, events >>
    BY <1>4 DEF InsertRow, kafka
  <2>2. \A q \in Requests : todo'[q] = << >>
    BY <1>0, <2>1 DEF OneWriterControl, Workers
  <2>. QED  BY <2>1, <2>2 DEF OneWriterControl
<1>5. ASSUME NEW p \in Partitions, Arrive(p) PROVE OneWriterControl'
  <2>1. PICK k \in Incoming : \E m \in SizesOf(k) :
          p \in PartitionsOf(k) /\ events' = [events EXCEPT ![p] = Append(@, Event(k, m))]
    BY <1>5 DEF Arrive
  <2>2. PICK m : p \in PartitionsOf(k) /\ events' = [events EXCEPT ![p] = Append(@, Event(k, m))]
    BY <2>1
  <2>3. p = "user" /\ k \in OneWriterEvents
    BY <2>2 DEF PartitionsOf, OneWriter, OneWriterEvents
  <2>. DEFINE e == Event(k, m)
  <2>4. e.kind \in OneWriterEvents
    BY <2>3 DEF Event
  <2>. HIDE DEF e
  <2>5. events'["user"] = Append(events["user"], e) /\ events'["chat"] = events["chat"]
    BY <1>0, <2>2, <2>3 DEF e
  <2>6. \A i \in 1 .. Len(events'["user"]) :
           events'["user"][i] = e \/ (i \in 1 .. Len(events["user"])
                                        /\ events'["user"][i] = events["user"][i])
    BY <1>0, <2>5
  <2>7. UNCHANGED << kUseV3, kind, todo >>
    BY <1>5 DEF Arrive, service
  <2>. QED  BY <2>4, <2>5, <2>6, <2>7 DEF OneWriterControl
<1>6. ASSUME NEW p \in Partitions, SkipEvent(p) \/ Commit(p) PROVE OneWriterControl'
  BY <1>6 DEF SkipEvent, Commit, service, OneWriterControl
<1>7. ASSUME NEW p \in Partitions, HandleEvent(p) PROVE OneWriterControl'
  <2>1. p = "user" /\ next[p] \in 1 .. Len(events[p])
    BY <1>0, <1>7 DEF HandleEvent, HasEvent, OneWriterControl
  <2>2. Current(p).kind \in OneWriterEvents
    BY <2>1 DEF Current, OneWriterControl
  <2>3. /\ kind' = [kind EXCEPT ![p] = Current(p).kind]
        /\ UNCHANGED << kUseV3, events >>
    BY <1>7 DEF HandleEvent, kafka
  <2>5. \A r \in Requests : todo'[r] = todo[r]
    <3>1. PICK t : UNCHANGED todo \/ todo' = [todo EXCEPT ![p] = t]
      BY <1>7 DEF HandleEvent
    <3>. QED  BY <1>0, <2>1, <3>1 DEF Workers
  <2>4. kind'["user"] # "migrateTo" /\ kind'["chat"] = kind["chat"]
        /\ \A r \in Requests : kind'[r] = kind[r]
    BY <1>0, <2>1, <2>2, <2>3 DEF OneWriterEvents, Workers
  <2>. QED  BY <2>3, <2>4, <2>5 DEF OneWriterControl
<1>8. ASSUME NEW p \in Partitions, NumberReadOfMigrated(p) PROVE OneWriterControl'
  BY <1>0, <1>8 DEF NumberReadOfMigrated, OneWriterControl
<1>9. ASSUME NEW p \in Partitions, FinishEvent(p) \/ CrashConsumer(p)
      PROVE OneWriterControl'
  <2>1. /\ kind' = [kind EXCEPT ![p] = "idle"] /\ UNCHANGED << kUseV3, events >>
        /\ todo' = todo \/ todo' = [todo EXCEPT ![p] = << >>]
    BY <1>9 DEF FinishEvent, CrashConsumer
  <2>2. ASSUME NEW r \in Requests PROVE kind'[r] = kind[r] /\ todo'[r] = todo[r]
    <3>1. r # p /\ r \in Workers
      BY <1>0 DEF Workers
    <3>. QED  BY <1>0, <2>1, <3>1
  <2>3. kind'["chat"] = "idle" /\ kind'["user"] # "migrateTo"
    BY <1>0, <2>1 DEF OneWriterControl, Workers
  <2>. QED  BY <2>1, <2>2, <2>3 DEF OneWriterControl
<1>10. ASSUME NEW d \in Devices, GetState(d) \/ GetDifference(d) PROVE OneWriterControl'
  BY <1>10 DEF GetState, GetDifference, service, kafka, OneWriterControl
<1>. QED  BY <1>1, <1>2, <1>3, <1>4, <1>5, <1>6, <1>7, <1>8, <1>9, <1>10 DEF Next

LEMMA SameOrder ==
    ASSUME InOrder, UNCHANGED << rows, base, dpts, got >>,
           todo'["user"] = todo["user"]
    PROVE  InOrder'
BY DEF InOrder, Increasing, DifferenceComplete

\* The consumer takes numbers for rows in order, or gives up.
LEMMA OrderedRows ==
    ASSUME StepInv, InOrder, UNCHANGED << rows, base, dpts, got >>,
           Increasing(todo'["user"]),
           \A i \in 1 .. Len(todo'["user"]) : pts < todo'["user"][i].pts,
           todo'["user"] \in Seq(RowType)
    PROVE  InOrder'
<1>1. pts \in Nat /\ \A r \in rows : r.pts \in Int /\ r.pts <= pts
  BY RowNumbers DEF StepInv, Inv, TypeOK, Numbered
<1>2. \A d \in Devices : dpts[d] \in Nat /\ dpts[d] <= pts
  BY DEF StepInv, Inv, TypeOK
<1>3. ASSUME NEW i \in 1 .. Len(todo'["user"])
      PROVE  /\ \A r \in rows : r.pts < todo'["user"][i].pts
             /\ \A d \in Devices : dpts[d] < todo'["user"][i].pts
  <2>1. todo'["user"][i].pts \in Int /\ pts < todo'["user"][i].pts
    BY RowNumbers
  <2>. QED  BY <1>1, <1>2, <2>1
<1>. QED  BY <1>3 DEF InOrder, Increasing, DifferenceComplete

LEMMA InsertRowInOrder ==
    ASSUME OneWriterInv, NEW w \in Workers, InsertRow(w)
    PROVE  InOrder'
<1>1. w = "user" /\ todo \in [Workers -> Seq(RowType)]
  BY DEF OneWriterInv, OneWriterControl, StepInv, Inv, TypeOK, Idle, Workers,
         Partitions, InsertRow
<1>. DEFINE s == todo["user"]
            t == Tail(s)
            e == Head(s)
<1>2. /\ s \in Seq(RowType) /\ s # << >>
      /\ todo'["user"] = t
      /\ UNCHANGED << base, dpts, got >>
      /\ rows' = rows \cup {e} \/ UNCHANGED rows
  BY <1>1 DEF InsertRow, devices
<1>3. InOrder
  BY DEF OneWriterInv
<1>. HIDE DEF s
<1>4. /\ 1 \in 1 .. Len(s) /\ e = s[1] /\ Len(t) = Len(s) - 1
      /\ \A i \in 1 .. Len(t) : i + 1 \in 1 .. Len(s) /\ 1 < i + 1 /\ t[i] = s[i + 1]
  BY <1>2
<1>. HIDE DEF t, e
<1>5. Increasing(t) /\ \A i \in 1 .. Len(t) : e.pts < t[i].pts
  <2>1. \A i \in 1 .. Len(t) : e.pts < t[i].pts
    BY <1>3, <1>4 DEF InOrder, Increasing, s
  <2>2. ASSUME NEW i \in 1 .. Len(t), NEW j \in 1 .. Len(t), i < j
        PROVE  t[i].pts < t[j].pts
    <3>1. /\ i + 1 \in 1 .. Len(s) /\ j + 1 \in 1 .. Len(s)
          /\ t[i] = s[i + 1] /\ t[j] = s[j + 1] /\ i + 1 < j + 1
      BY <1>4, <2>2
    <3>. QED  BY <1>3, <3>1 DEF InOrder, Increasing, s
  <2>. QED  BY <2>1, <2>2 DEF Increasing
<1>6. \A i \in 1 .. Len(t) :
        /\ \A r \in rows : r.pts < t[i].pts
        /\ \A d \in Devices : t[i].pts <= base[d] \/ dpts[d] < t[i].pts
  BY <1>3, <1>4 DEF InOrder, s
<1>7. \A d \in Devices : e.pts <= base[d] \/ dpts[d] < e.pts
  BY <1>3, <1>4 DEF InOrder, s
<1>8. DifferenceComplete'
  <2>1. e.pts \in Int /\ base \in [Devices -> Nat] /\ dpts \in [Devices -> Nat]
    BY <1>2, <1>4, RowNumbers DEF OneWriterInv, StepInv, Inv, TypeOK
  <2>2. \A d \in Devices : ~(base[d] < e.pts /\ e.pts <= dpts[d])
    BY <1>7, <2>1
  <2>3. \A r \in rows' : r \in rows \/ r = e
    BY <1>2
  <2>. QED  BY <1>2, <1>3, <2>2, <2>3 DEF InOrder, DifferenceComplete
<1>. QED  BY <1>2, <1>5, <1>6, <1>8 DEF InOrder

LEMMA HandleEventInOrder ==
    ASSUME OneWriterInv, NEW p \in Partitions, HandleEvent(p)
    PROVE  InOrder'
<1>1. /\ p = "user" /\ p \in Workers
      /\ next[p] \in 1 .. Len(events[p]) /\ kind[p] = "idle"
      /\ todo \in [Workers -> Seq(RowType)] /\ todo[p] = << >>
      /\ pts \in Nat /\ Inv
  BY DEF OneWriterInv, OneWriterControl, StepInv, Inv, TypeOK, Idle, Workers,
         Partitions, HandleEvent, HasEvent
<1>. DEFINE k == Current(p).kind
            n == Current(p).size
            s == InboxInserts(k, n, pts')
<1>2. k \in OneWriterEvents
  BY <1>1 DEF Current, OneWriterInv, OneWriterControl
<1>3. k \in RowKinds /\ n \in Nat \ {0}
  BY <1>1, CurrentType DEF Inv, HandleEvent, EventType, RowKinds
<1>4. /\ pts' = pts + Taken(k, n)
      /\ UNCHANGED << rows, base, dpts, got >>
      /\ todo' = [todo EXCEPT ![p] = s] \/ UNCHANGED todo
  BY DEF HandleEvent, devices
<1>. HIDE DEF k, n
<1>5. Taken(k, n) \in Nat \ {0}
  BY <1>3, TakesSome
<1>6. pts' - Taken(k, n) = pts /\ pts' \in Int
  BY <1>1, <1>4, <1>5
<1>7. /\ s \in Seq(RowType) /\ Within(s, pts' - Taken(k, n), pts')
      /\ \A i \in 1 .. Len(s) : s[i].count >= 1
  BY <1>3, <1>6, InboxInsertsDivide
<1>8. Increasing(s)
  BY <1>2, <1>3, <1>6, InsertsIncrease
<1>. HIDE DEF s
<1>9. \A i \in 1 .. Len(s) : pts < s[i].pts
  <2>1. SUFFICES ASSUME NEW i \in 1 .. Len(s) PROVE pts < s[i].pts
    OBVIOUS
  <2>2. s[i].pts \in Int /\ s[i].count \in Nat /\ s[i].count >= 1
        /\ pts <= s[i].pts - s[i].count
    BY <1>6, <1>7, RowNumbers DEF Within
  <2>. QED  BY <1>1, <2>2
<1>10. CASE todo' = [todo EXCEPT ![p] = s]
  <2>1. todo'["user"] = s
    BY <1>1, <1>10
  <2>. QED  BY <1>4, <1>7, <1>8, <1>9, <2>1, OrderedRows DEF OneWriterInv
<1>11. CASE UNCHANGED todo
  BY <1>1, <1>4, <1>11, SameOrder DEF OneWriterInv
<1>. QED  BY <1>4, <1>10, <1>11

LEMMA GetStateInOrder ==
    ASSUME OneWriterInv, NEW d \in Devices, GetState(d)
    PROVE  InOrder'
<1>1. /\ UNCHANGED << rows, todo >>
      /\ base' = [base EXCEPT ![d] = pts'] /\ dpts' = [dpts EXCEPT ![d] = pts']
      /\ got' = [got EXCEPT ![d] = {}]
      /\ pts' = IF pts = 0 THEN 1 ELSE pts
  BY DEF GetState, service
<1>2. /\ pts \in Nat /\ base \in [Devices -> Nat] /\ dpts \in [Devices -> Nat]
      /\ got \in [Devices -> SUBSET rows]
      /\ "user" \in Workers /\ todo["user"] \in Seq(RowType)
  BY DEF OneWriterInv, StepInv, Inv, TypeOK, Workers, Partitions
<1>3. \A i \in 1 .. Len(todo["user"]) :
        todo["user"][i].pts \in Int /\ todo["user"][i].pts <= pts
  BY <1>2, RowNumbers DEF OneWriterInv, StepInv, Inv, Numbered, Within
<1>4. pts <= pts' /\ pts' \in Nat
  BY <1>1, <1>2
<1>5. base'[d] = pts' /\ dpts'[d] = pts'
      /\ \A c \in Devices : c # d =>
            base'[c] = base[c] /\ dpts'[c] = dpts[c] /\ got'[c] = got[c]
  BY <1>1, <1>2
<1>6. \A i \in 1 .. Len(todo["user"]) : todo["user"][i].pts <= base'[d]
  BY <1>3, <1>4, <1>5, <1>2
<1>7. \A r \in rows : r.pts \in Int /\ ~(base'[d] < r.pts /\ r.pts <= dpts'[d])
  BY <1>4, <1>5, RowNumbers DEF OneWriterInv, StepInv, Inv, TypeOK
<1>8. InOrder
  BY DEF OneWriterInv
<1>9. \A i \in 1 .. Len(todo["user"]) : \A c \in Devices :
        todo["user"][i].pts <= base'[c] \/ dpts'[c] < todo["user"][i].pts
  BY <1>5, <1>6, <1>8 DEF InOrder
<1>10. DifferenceComplete'
  BY <1>1, <1>5, <1>7, <1>8 DEF InOrder, DifferenceComplete
<1>. QED  BY <1>1, <1>8, <1>9, <1>10 DEF InOrder, Increasing

LEMMA GetDifferenceInOrder ==
    ASSUME OneWriterInv, NEW d \in Devices, GetDifference(d)
    PROVE  InOrder'
<1>1. UNCHANGED << rows, todo, base >>
  BY DEF GetDifference, service
<1>2. PICK q \in dpts[d] .. pts :
        /\ q = dpts[d] \/ \E r \in rows : q = r.pts
        /\ dpts' = [dpts EXCEPT ![d] = q]
        /\ got' = [got EXCEPT ![d] =
               @ \cup { e \in rows : dpts[d] < e.pts /\ e.pts <= q }]
  BY DifferenceIsWhole DEF OneWriterInv, StepInv
<1>3. /\ dpts \in [Devices -> Nat] /\ base \in [Devices -> Nat]
      /\ got \in [Devices -> SUBSET rows]
      /\ \A r \in rows : r.pts \in Int
  BY RowNumbers DEF OneWriterInv, StepInv, Inv, TypeOK
<1>4. InOrder
  BY DEF OneWriterInv
<1>5. /\ dpts'[d] = q
      /\ got'[d] = got[d] \cup { e \in rows : dpts[d] < e.pts /\ e.pts <= q }
      /\ \A c \in Devices : c # d => dpts'[c] = dpts[c] /\ got'[c] = got[c]
  BY <1>2, <1>3
<1>6. \A i \in 1 .. Len(todo["user"]) :
        todo["user"][i].pts <= base[d] \/ q < todo["user"][i].pts
  BY <1>2, <1>4 DEF InOrder
<1>7. \A i \in 1 .. Len(todo["user"]) : \A c \in Devices :
        todo["user"][i].pts <= base[c] \/ dpts'[c] < todo["user"][i].pts
  BY <1>4, <1>5, <1>6 DEF InOrder
<1>8. ASSUME NEW r \in rows, base[d] < r.pts, r.pts <= q
      PROVE  r \in got'[d]
  <2>1. CASE r.pts <= dpts[d]
    BY <1>4, <1>5, <1>8, <2>1 DEF InOrder, DifferenceComplete
  <2>2. CASE dpts[d] < r.pts
    BY <1>5, <1>8, <2>2
  <2>3. r.pts \in Int /\ dpts[d] \in Nat
    BY <1>3
  <2>. QED  BY <2>1, <2>2, <2>3
<1>9. DifferenceComplete'
  BY <1>1, <1>4, <1>5, <1>8 DEF InOrder, DifferenceComplete
<1>. QED  BY <1>1, <1>4, <1>7, <1>9 DEF InOrder, Increasing

LEMMA OthersInOrder ==
    ASSUME OneWriterInv,
           \/ \E r \in Requests : TakeNumbers(r) \/ FinishRequest(r) \/ CrashRequest(r)
           \/ \E p \in Partitions :
                 \/ Arrive(p) \/ SkipEvent(p) \/ NumberReadOfMigrated(p)
                 \/ FinishEvent(p) \/ Commit(p) \/ CrashConsumer(p)
    PROVE  InOrder'
<1>0. /\ "user" \in Workers /\ "user" \notin Requests
      /\ \A p \in Partitions : p = "user" \/ p = "chat"
      /\ todo \in [Workers -> Seq(RowType)]
  BY ConstantsAssumption
     DEF Partitions, Workers, OneWriterInv, StepInv, Inv, TypeOK
<1>1. UNCHANGED << rows, base, dpts, got >>
  BY DEF TakeNumbers, FinishRequest, CrashRequest, Arrive, SkipEvent,
         NumberReadOfMigrated, FinishEvent, Commit, CrashConsumer, devices
<1>2. CASE todo'["user"] = todo["user"]
  BY <1>1, <1>2, SameOrder DEF OneWriterInv
<1>3. CASE todo'["user"] = << >>
  <2>1. Increasing(<< >>) /\ Len(<< >>) = 0 /\ << >> \in Seq(RowType)
    BY DEF Increasing
  <2>2. \A i \in 1 .. Len(<< >>) : pts < << >>[i].pts
    OBVIOUS
  <2>. QED  BY <1>1, <1>3, <2>1, <2>2, OrderedRows DEF OneWriterInv
<1>4. todo'["user"] \in { todo["user"], << >> }
  <2>1. ASSUME NEW r \in Requests, TakeNumbers(r) PROVE todo'["user"] = todo["user"]
    <3>1. PICK t : todo' = todo \/ todo' = [todo EXCEPT ![r] = t]
      BY <2>1 DEF TakeNumbers
    <3>. QED  BY <1>0, <3>1
  <2>2. ASSUME NEW r \in Requests, FinishRequest(r) \/ CrashRequest(r)
        PROVE  todo'["user"] = todo["user"]
    BY <1>0, <2>2 DEF FinishRequest, CrashRequest
  <2>3. ASSUME NEW p \in Partitions,
               Arrive(p) \/ SkipEvent(p) \/ FinishEvent(p) \/ Commit(p)
        PROVE  todo'["user"] = todo["user"]
    BY <2>3 DEF Arrive, SkipEvent, FinishEvent, Commit, service
  <2>4. ASSUME NEW p \in Partitions, NumberReadOfMigrated(p) PROVE FALSE
    BY <1>0, <2>4 DEF NumberReadOfMigrated, OneWriterInv, OneWriterControl
  <2>5. ASSUME NEW p \in Partitions, CrashConsumer(p)
        PROVE  todo'["user"] \in { todo["user"], << >> }
    <3>1. todo' = [todo EXCEPT ![p] = << >>]
      BY <2>5 DEF CrashConsumer
    <3>. QED  BY <1>0, <3>1
  <2>. QED  BY <2>1, <2>2, <2>3, <2>4, <2>5
<1>. QED  BY <1>2, <1>3, <1>4

\* With -usev3 a user who sends, reads and receives messages misses nothing:
\* whatever is redelivered, fails or restarts, no row is passed over.
THEOREM DifferenceCompleteWithOneWriter ==
    ASSUME OneWriter
    PROVE  Spec => []DifferenceComplete
<1>1. Init => OneWriterInv
  BY InitOneWriter
<1>2. OneWriterInv /\ Next => OneWriterInv'
  <2>. SUFFICES ASSUME OneWriterInv, Next PROVE OneWriterInv'
    OBVIOUS
  <2>2. StepInv'
    BY OneWriterHasNoHistoryOfOne, NextStepInv DEF OneWriterInv
  <2>3. OneWriterControl'
    BY NextOneWriterControl DEF OneWriterInv, StepInv
  <2>4. InOrder'
    BY InsertRowInOrder, HandleEventInOrder, GetStateInOrder,
       GetDifferenceInOrder, OthersInOrder DEF Next
  <2>. QED  BY <2>2, <2>3, <2>4 DEF OneWriterInv
<1>3. OneWriterInv /\ UNCHANGED vars => OneWriterInv'
  <2>. SUFFICES ASSUME OneWriterInv, UNCHANGED vars PROVE OneWriterInv'
    OBVIOUS
  <2>2. Inv' /\ InOrder' /\ OneWriterControl'
    BY StutterInv, SameOrder DEF OneWriterInv, StepInv, OneWriterControl, vars
  <2>3. UNCHANGED AllPending
    BY DEF vars, AllPending, Pending
  <2>. QED  BY <2>2, <2>3 DEF OneWriterInv, StepInv, Positive, vars
<1>4. OneWriterInv => DifferenceComplete
  BY DEF OneWriterInv, InOrder
<1>. QED  BY <1>1, <1>2, <1>3, <1>4, PTL DEF Spec
=============================================================================
