----------------------------- MODULE MCRollback -----------------------------
(***************************************************************************)
(* Two targets for TLC: replaced together, one created or deleted, moved   *)
(* from one to the other, and one of them left as it is.                   *)
(***************************************************************************)
EXTENDS Rollback, TLC

CONSTANTS a, b, old, new, other

MCTransaction ==
  { [order |-> <<a, b>>, prior |-> a :> pw[1] @@ b :> pw[2], written |-> a :> pw[3] @@ b :> pw[4]] :
      pw \in { <<old, old, new, new>>,    \* both replaced
               <<Gone, old, new, Gone>>,  \* created, then deleted
               <<old, Gone, Gone, new>>,  \* deleted, then created
               <<old, old, old, new>> } } \* one unchanged

Symmetry == Permutations(Node)
=============================================================================
