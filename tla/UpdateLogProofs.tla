--------------------------- MODULE UpdateLogProofs ---------------------------
(***************************************************************************)
(* The promise of the abstract log, for every number of devices.           *)
(***************************************************************************)
EXTENDS UpdateLog, TLAPS

\* Numbers that are open and that a device has passed are known to be.
LogInv ==
    /\ counter \in Nat /\ open \subseteq Int
    /\ \A e \in log : e.pts \in Int
    /\ base \in [Devices -> Nat] /\ pos \in [Devices -> Nat]
    /\ got \in [Devices -> SUBSET log]
    /\ overtaken \in [Devices -> SUBSET Int]
    /\ \A n \in open : n <= counter
    /\ \A d \in Devices :
         /\ pos[d] <= counter
         /\ Between(open, base[d], pos[d]) \subseteq overtaken[d]
    /\ OnlyOvertakenMissed

LEMMA InitLogInv == Init => LogInv
BY DEF Init, LogInv, OnlyOvertakenMissed, Between

LEMMA ReserveLogInv == LogInv /\ Reserve => LogInv'
<1>. SUFFICES ASSUME LogInv, Reserve PROVE LogInv'
  OBVIOUS
<1>1. open' \subseteq open \cup (counter + 1 .. counter')
  BY DEF Reserve
<1>2. counter \in Nat /\ counter' \in Nat /\ counter < counter' /\ open' \subseteq Int
  BY <1>1 DEF LogInv, Reserve
<1>3. \A n \in open' : n <= counter' /\ (n \in open \/ n > counter)
  BY <1>1, <1>2 DEF LogInv
<1>4. ASSUME NEW d \in Devices
      PROVE  /\ pos[d] <= counter'
             /\ Between(open', base[d], pos[d]) \subseteq overtaken[d]
  <2>1. pos[d] \in Nat /\ pos[d] <= counter
    BY DEF LogInv
  <2>2. Between(open', base[d], pos[d]) \subseteq Between(open, base[d], pos[d])
    <3>1. \A n \in open' : n <= pos[d] => n \in open
      BY <1>2, <1>3, <2>1
    <3>. QED  BY <3>1 DEF Between
  <2>. QED  BY <1>2, <2>1, <2>2 DEF LogInv
<1>. QED  BY <1>2, <1>3, <1>4 DEF LogInv, Reserve, OnlyOvertakenMissed

LEMMA PublishLogInv == LogInv /\ Publish => LogInv'
<1>. SUFFICES ASSUME LogInv, Publish PROVE LogInv'
  OBVIOUS
<1>1. PICK e \in log' \ log :
        e.pts \in open /\ log' = log \cup {e} /\ open' = open \ {e.pts}
  BY DEF Publish
<1>2. got' \in [Devices -> SUBSET log']
  BY <1>1 DEF LogInv, Publish
<1>3. OnlyOvertakenMissed'
  <2>1. \A d \in Devices :
           base[d] < e.pts /\ e.pts <= pos[d] => e.pts \in overtaken[d]
    BY <1>1 DEF LogInv, Between
  <2>. QED  BY <1>1, <2>1 DEF LogInv, Publish, OnlyOvertakenMissed
<1>. QED  BY <1>1, <1>2, <1>3 DEF LogInv, Publish, Between

LEMMA AbandonLogInv == LogInv /\ Abandon => LogInv'
BY DEF LogInv, Abandon, Between, OnlyOvertakenMissed

LEMMA JoinLogInv ==
    ASSUME LogInv, NEW d \in Devices, Join(d)
    PROVE  LogInv'
<1>1. counter \in Nat /\ counter' \in Nat /\ counter <= counter'
  BY DEF LogInv, Join
<1>2. /\ base' \in [Devices -> Nat] /\ pos' \in [Devices -> Nat]
      /\ got' \in [Devices -> SUBSET log']
      /\ overtaken' \in [Devices -> SUBSET Int]
  BY <1>1 DEF LogInv, Join
<1>3. \A n \in open' : n <= counter'
  BY <1>1 DEF LogInv, Join
<1>4. ASSUME NEW c \in Devices
      PROVE  /\ pos'[c] <= counter'
             /\ Between(open', base'[c], pos'[c]) \subseteq overtaken'[c]
             /\ \A e \in log : base'[c] < e.pts /\ e.pts <= pos'[c] =>
                   e \in got'[c] \/ e.pts \in overtaken'[c]
  <2>1. CASE c = d
    <3>1. base'[c] = counter' /\ pos'[c] = counter' /\ open' \subseteq Int
      BY <2>1 DEF LogInv, Join
    <3>2. Between(open', base'[c], pos'[c]) = {}
      <4>1. \A n \in open' : ~(base'[c] < n /\ n <= pos'[c])
        BY <1>1, <3>1
      <4>. QED  BY <4>1 DEF Between
    <3>3. \A e \in log : e.pts \in Int
      BY DEF LogInv
    <3>. QED  BY <1>1, <3>1, <3>2, <3>3
  <2>2. CASE c # d
    <3>1. /\ base'[c] = base[c] /\ pos'[c] = pos[c] /\ got'[c] = got[c]
          /\ overtaken'[c] = overtaken[c] /\ open' = open
          /\ pos[c] \in Nat
      BY <2>2 DEF LogInv, Join
    <3>. QED  BY <1>1, <3>1 DEF LogInv, OnlyOvertakenMissed
  <2>. QED  BY <2>1, <2>2
<1>. QED  BY <1>1, <1>2, <1>3, <1>4 DEF LogInv, Join, OnlyOvertakenMissed

LEMMA FetchLogInv ==
    ASSUME LogInv, NEW d \in Devices, Fetch(d)
    PROVE  LogInv'
<1>1. PICK q \in pos[d] .. counter :
        /\ pos' = [pos EXCEPT ![d] = q]
        /\ got' = [got EXCEPT ![d] =
               @ \cup { e \in log : pos[d] < e.pts /\ e.pts <= q }]
        /\ overtaken' = [overtaken EXCEPT ![d] = @ \cup Between(open, pos[d], q)]
  BY DEF Fetch
<1>2. q \in Nat /\ pos[d] <= q /\ q <= counter
  BY <1>1 DEF LogInv
<1>3. /\ pos' \in [Devices -> Nat]
      /\ got' \in [Devices -> SUBSET log]
  BY <1>1, <1>2 DEF LogInv
<1>4. overtaken' \in [Devices -> SUBSET Int]
  BY <1>1 DEF LogInv, Between
<1>5. ASSUME NEW c \in Devices
      PROVE  /\ pos'[c] <= counter
             /\ Between(open, base[c], pos'[c]) \subseteq overtaken'[c]
             /\ \A e \in log : base[c] < e.pts /\ e.pts <= pos'[c] =>
                   e \in got'[c] \/ e.pts \in overtaken'[c]
  <2>1. CASE c = d
    <3>1. /\ pos'[c] = q
          /\ got'[c] = got[d] \cup { e \in log : pos[d] < e.pts /\ e.pts <= q }
          /\ overtaken'[c] = overtaken[d] \cup Between(open, pos[d], q)
      BY <1>1, <2>1 DEF LogInv
    <3>2. Between(open, base[d], q) \subseteq
             Between(open, base[d], pos[d]) \cup Between(open, pos[d], q)
      <4>1. open \subseteq Int /\ pos[d] \in Nat
        BY DEF LogInv
      <4>2. \A n \in Int : n <= pos[d] \/ pos[d] < n
        BY <4>1
      <4>. QED  BY <4>1, <4>2 DEF Between
    <3>3. Between(open, base[d], pos[d]) \subseteq overtaken[d]
      BY DEF LogInv
    <3>4. ASSUME NEW e \in log, base[d] < e.pts, e.pts <= q
          PROVE  e \in got'[c] \/ e.pts \in overtaken'[c]
      <4>1. e.pts \in Int /\ pos[d] \in Nat
        BY DEF LogInv
      <4>2. CASE e.pts <= pos[d]
        BY <3>1, <3>4, <4>2 DEF LogInv, OnlyOvertakenMissed
      <4>3. CASE pos[d] < e.pts
        BY <3>1, <3>4, <4>3
      <4>. QED  BY <4>1, <4>2, <4>3
    <3>. QED  BY <1>2, <2>1, <3>1, <3>2, <3>3, <3>4
  <2>2. CASE c # d
    BY <1>1, <2>2 DEF LogInv, OnlyOvertakenMissed
  <2>. QED  BY <2>1, <2>2
<1>. QED  BY <1>3, <1>4, <1>5 DEF LogInv, Fetch, OnlyOvertakenMissed

\* A device misses only what was still open when it went past.
THEOREM OnlyOvertakenIsMissed == Spec => []OnlyOvertakenMissed
<1>1. LogInv /\ UNCHANGED vars => LogInv'
  BY DEF LogInv, OnlyOvertakenMissed, Between, vars
<1>2. LogInv /\ Next => LogInv'
  BY ReserveLogInv, PublishLogInv, AbandonLogInv, JoinLogInv, FetchLogInv DEF Next
<1>3. LogInv => OnlyOvertakenMissed
  BY DEF LogInv
<1>. QED  BY InitLogInv, <1>1, <1>2, <1>3, PTL DEF Spec
=============================================================================
