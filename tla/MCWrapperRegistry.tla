-------------------------- MODULE MCWrapperRegistry --------------------------
(***************************************************************************)
(* Small instances of WrapperRegistry for TLC.                             *)
(***************************************************************************)
EXTENDS WrapperRegistry, TLC

\* s1 owns the key unless it has left.
MCRank == [s \in Servers |-> IF s = CHOOSE t \in Servers : TRUE THEN 0 ELSE 1]

\* Any wrapper that is free may be the next one allocated.
WrapperSymmetry == Permutations(Wrappers)
=============================================================================
