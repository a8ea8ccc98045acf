------------------------------ MODULE MCMutation ------------------------------
(***************************************************************************)
(* Small stores for TLC.  Identity 1 may sit at paths 11 and 21 (accepted  *)
(* and provisional), identity 2 at path 12.                                *)
(***************************************************************************)
EXTENDS Mutation, TLC

MCIdentity == {1, 2}
MCPath == {11, 12, 21}
MCIdOf == [p \in MCPath |-> IF p = 12 THEN 2 ELSE 1]
PairIdOf == 11 :> 1 @@ 12 :> 2

Body(text, rel, sup) == [body |-> text, rel |-> rel, sup |-> sup]

Plain == Body("plain", {}, {})
Edited == Body("edited", {}, {})
Cites1 == Body("plain", {1}, {})
Supersedes1 == Body("plain", {}, {1})
Supersedes2 == Body("plain", {}, {2})

MCDoc == {Plain, Edited, Cites1, Supersedes1, Supersedes2}

Replace(p, doc) == p :> [op |-> "replace", doc |-> doc]
Create(p, doc) == p :> [op |-> "create", doc |-> doc]
Delete(p) == p :> [op |-> "delete", doc |-> Absent]

MCStart == { 11 :> Plain @@ 12 :> Plain @@ 21 :> Absent }

\* Also stores with a reference and with an identity that two records claim.
MCStarts ==
  MCStart \cup { 11 :> Plain @@ 12 :> Cites1 @@ 21 :> Absent,
                 11 :> Plain @@ 12 :> Supersedes1 @@ 21 :> Plain }

\* Rewrites of one record, references that close a cycle together, a
\* reference and the deletion of its target, a second claim of an identity,
\* and a move of a record in one batch.
MCRequest ==
  { Replace(11, Edited), Replace(11, Supersedes2), Replace(12, Supersedes1),
    Replace(12, Cites1), Delete(11), Create(21, Plain), Delete(11) @@ Create(21, Plain) }

\* Two records where edits and crashes multiply the states: one writer deletes what the other
\* comes to refer to, so that each locks the other's target.
PairPath == {11, 12}
PairStart == { 11 :> Plain @@ 12 :> Plain }
PairDoc == {Plain, Cites1}

CrossedRequest == { Delete(11), Replace(12, Cites1) }
=============================================================================
