------------------------------ MODULE MCSession ------------------------------
(***************************************************************************)
(* Small instances of Session for TLC.                                     *)
(***************************************************************************)
EXTENDS Session, TLC

Single(id) == [outer |-> id, container |-> FALSE, inner |-> << id >>]
Container(id, ids) == [outer |-> id, container |-> TRUE, inner |-> ids]

\* A message of every kind that the window leaves out; 5 and 4, 6 and 4 come
\* together, and the result of 1 may be deferred.
MixedKind == 1 :> "getDifference" @@ 2 :> "resendReq" @@ 3 :> "allInfo" @@
             4 :> "answerNow" @@ 5 :> "bind" @@ 6 :> "ignored" @@ 7 :> "ack"
MixedPackets ==
    { Single(1), Single(2), Single(3), Single(7), Container(7, << 5, 4 >>),
      Container(7, << 6, 4 >>) }
Symmetry == Permutations(Gateways)

\* A request alone.
LiveKind == 1 :> "getDifference" @@ 2 :> "service"
LivePackets == { Container(2, << 1 >>), Single(2) }
=============================================================================
