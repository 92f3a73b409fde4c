----------------------------- MODULE MCMessaging ----------------------------
(***************************************************************************)
(* Small instances of Messaging for TLC.                                   *)
(***************************************************************************)
EXTENDS Messaging, TLC

CONSTANTS a, b, m1, m2

\* Two users, or two members of a chat; each sends a message.
Users == { a, b }
Texts == { m1, m2 }
SenderOf == (m1 :> a) @@ (m2 :> b)

\* Between two users a later mark does not keep an earlier one from being set:
\* there two readings may overtake each other.
ReadsOf == "user" :> 2 @@ "chat" :> 1

AllFailures == FailureKinds

\* The users are exchanged together with their messages, so that SenderOf
\* stays what it is.
Exchanged == (a :> b) @@ (b :> a) @@ (m1 :> m2) @@ (m2 :> m1)
Symmetry == Permutations(Requests) \cup { Exchanged }
=============================================================================
