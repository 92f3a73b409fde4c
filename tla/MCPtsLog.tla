------------------------------ MODULE MCPtsLog ------------------------------
(***************************************************************************)
(* Small instances of PtsLog for TLC.                                      *)
(***************************************************************************)
EXTENDS PtsLog, TLC

\* One of each way to number and to store; the others differ in name only.
SomeKinds == { "send", "deleteHistory", "readContents" }
SomeIncoming == { "newMessage", "migrateTo", "editIn", "deleteIn" }
Flags == BOOLEAN

\* The flag as it is by default.
ByDefault == { FALSE }
=============================================================================
