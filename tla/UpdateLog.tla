------------------------------ MODULE UpdateLog ------------------------------
(***************************************************************************)
(* What a user's devices are promised by the numbered log of updates that  *)
(* updates.getState and updates.getDifference read.                        *)
(*                                                                         *)
(* Numbers are handed out in order.  A number may be reserved for an entry *)
(* that is published later, or may stay without an entry for ever.  A      *)
(* device asks for what follows its position, is given every entry up to   *)
(* some later one, and goes on from there.  So it can miss one kind of     *)
(* entry only: an entry whose number was reserved but not published when   *)
(* the device went past it.                                                *)
(***************************************************************************)
EXTENDS Integers

CONSTANT Devices

VARIABLES
    counter,       \* the last number handed out
    open,          \* numbers reserved for an entry that is not published yet
    log,           \* entries published, records with a number pts
    base,          \* [Devices -> Nat], where the device started
    pos,           \* [Devices -> Nat], the device's position
    got,           \* [Devices -> SUBSET log], what it was given
    overtaken      \* [Devices -> SUBSET Nat], numbers open when it passed them

vars == << counter, open, log, base, pos, got, overtaken >>

Init ==
    /\ counter = 0 /\ open = {} /\ log = {}
    /\ base = [d \in Devices |-> 0]
    /\ pos = [d \in Devices |-> 0]
    /\ got = [d \in Devices |-> {}]
    /\ overtaken = [d \in Devices |-> {}]

\* Numbers are handed out, some of them for entries to come.
Reserve ==
    /\ counter' \in Nat /\ counter' > counter
    /\ open \subseteq open' /\ open' \ open \subseteq counter + 1 .. counter'
    /\ UNCHANGED << log, base, pos, got, overtaken >>

Publish ==
    /\ \E e \in log' \ log :
         /\ e.pts \in open
         /\ log' = log \cup {e}
         /\ open' = open \ {e.pts}
    /\ UNCHANGED << counter, base, pos, got, overtaken >>

\* Whoever was to publish the entries has failed.
Abandon ==
    /\ open' \subseteq open
    /\ UNCHANGED << counter, log, base, pos, got, overtaken >>

\* The device starts afresh from the present, for which a number may be taken.
Join(d) ==
    /\ counter' \in Nat /\ counter' >= counter
    /\ base' = [base EXCEPT ![d] = counter']
    /\ pos' = [pos EXCEPT ![d] = counter']
    /\ got' = [got EXCEPT ![d] = {}]
    /\ overtaken' = [overtaken EXCEPT ![d] = {}]
    /\ UNCHANGED << open, log >>

Between(S, p, q) == { n \in S : p < n /\ n <= q }

Fetch(d) ==
    /\ \E q \in pos[d] .. counter :
         /\ pos' = [pos EXCEPT ![d] = q]
         /\ got' = [got EXCEPT ![d] =
                @ \cup { e \in log : pos[d] < e.pts /\ e.pts <= q }]
         /\ overtaken' = [overtaken EXCEPT ![d] =
                @ \cup Between(open, pos[d], q)]
    /\ UNCHANGED << counter, open, log, base >>

Next ==
    \/ Reserve \/ Publish \/ Abandon
    \/ \E d \in Devices : Join(d) \/ Fetch(d)

Spec == Init /\ [][Next]_vars

\* An entry below a device's position has been given to it unless the entry
\* was still to be published when the device went past.
OnlyOvertakenMissed ==
    \A d \in Devices : \A e \in log :
        (base[d] < e.pts /\ e.pts <= pos[d]) =>
            e \in got[d] \/ e.pts \in overtaken[d]
=============================================================================
