----------------------------- MODULE MCProgress -----------------------------
(***************************************************************************)
(* Two tickets and two operation ids for TLC.  The first id stands for two *)
(* different entries; the last entry goes on where one of them stops.      *)
(***************************************************************************)
EXTENDS Progress, TLC

CONSTANTS t1, t2, c1, c2

\* Enough for the first client to preview, apply and apply again.
MCTurns == c1 :> 3 @@ c2 :> 2

Step(id, ticket, from, to) ==
  [id |-> id, ticket |-> ticket, kind |-> "transition", from |-> from, to |-> to]

Started == Step("op1", t1, "unknown", "in_progress")
Blocked == Step("op1", t2, "unknown", "blocked")
Completed1 == Step("op2", t1, "in_progress", "complete")
Noted == [id |-> "op3", ticket |-> t2, kind |-> "note", from |-> "note", to |-> "note"]

MCEntry == {Started, Blocked, Completed1, Noted}

Appending(entries) == [op |-> "append", entries |-> entries]

MCRequest ==
  { Appending(<<Started>>), Appending(<<Blocked>>), Appending(<<Started, Completed1>>),
    [op |-> "bootstrap", entries |-> <<>>],
    [op |-> "replace", entries |-> <<Noted>>] }
=============================================================================
