---------------------------- MODULE MCPublication ----------------------------
(***************************************************************************)
(* The two halves of one batch for TLC: how it is judged (Discovery) and   *)
(* how it is published and rolled back (Rollback).  Neither looks at the   *)
(* state of the other, so a behaviour is one of the first, with no         *)
(* transaction under way, or one of the second, of a store that is given.  *)
(***************************************************************************)
EXTENDS MCDiscovery, MCRollback

\* A transaction that is over.
AtRest ==
  /\ txn = CHOOSE t \in Transaction : TRUE
  /\ file = [t \in Target |-> [body |-> txn.prior[t], node |-> NoNode, rev |-> 0, by |-> "store"]]
  /\ clock = 1 /\ step = 1 /\ pc = "done" /\ outcome = "none"
  /\ temporary = NoNode /\ current = Unknown
  /\ receipts = <<>> /\ affected = {}
  /\ looked = [t \in Target |-> 0] /\ identified = [t \in Target |-> 0]
  /\ budget = [edits |-> 0, faults |-> 0]

BatchInit ==
  \/ judging = TRUE /\ Found /\ AtRest
  \/ judging = FALSE /\ Init /\ store = Chain

BatchNext ==
  \/ judging /\ Judge /\ UNCHANGED <<judging, vars>>
  \/ ~ judging /\ Next /\ UNCHANGED <<judging, store>>

BatchSpec == BatchInit /\ [][BatchNext]_<<judging, store, vars>>
=============================================================================
