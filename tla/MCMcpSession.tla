---------------------------- MODULE MCMcpSession ----------------------------
(***************************************************************************)
(* Two workers and a vault of one preview for TLC: a preview is evicted    *)
(* between two looks at it, applied by both workers at once, and applied   *)
(* again after somebody deleted the file it had created.                   *)
(***************************************************************************)
EXTENDS McpSession, TLC

\* A record is created; a board that is there is written, after a look at the record.
MCRequest ==
  {[kind |-> "record", changes |-> "f" :> "create", reads |-> {"f"}],
   [kind |-> "board", changes |-> "g" :> "put", reads |-> {"f", "g"}]}

\* A branch is checked out that has another board, and no record.
MCOthers == {[written |-> {"g"}, deleted |-> {"f"}]}
=============================================================================
