----------------------------- MODULE MCSyncPush -----------------------------
(***************************************************************************)
(* A small instance of SyncPush for TLC: the keys of one user, online on   *)
(* one of two servers.                                                     *)
(***************************************************************************)
EXTENDS SyncPush, TLC

CONSTANTS u1, s1

OneUser == [k \in Keys |-> u1]
OnOneServer == { [k \in Keys |-> s1] }
Complete == { Servers }
=============================================================================
