----------------------------- MODULE MCDiscovery -----------------------------
(***************************************************************************)
(* Every store of three paths over a choice of bodies for TLC, and the     *)
(* same three beside a chain of supersessions.  Identity 1 may sit at      *)
(* paths 11 and 21, identity 2 at path 12, which the chain of 13 and 14    *)
(* leads back to.  References are identities, which several records may    *)
(* claim, and paths, which also alias an identity in one body; another     *)
(* body makes one reference twice.                                         *)
(***************************************************************************)
EXTENDS Discovery, TLC

MCIdentity == 1..4
Near == {11, 12, 21}
MCPath == Near \cup {13, 14}
MCIdOf == [p \in MCPath |-> IF p = 21 THEN 1 ELSE p - 10]

Citing(rel, sup) == [body |-> "plain", rel |-> rel, sup |-> sup]

NearDoc ==
  { Citing({}, {}), Citing({}, {1}), Citing({}, {2}), Citing({}, {11}),
    Citing({12}, {2}), Citing({2}, {2}), Citing({2}, {21}),
    [body |-> "edited", rel |-> {}, sup |-> {}] }

MCDoc == NearDoc \cup { Citing({}, {i}) : i \in {3, 4} }

\* 13 supersedes 14, which supersedes 12.
Chain == 11 :> Absent @@ 12 :> Citing({}, {}) @@ 21 :> Absent
           @@ 13 :> Citing({}, {4}) @@ 14 :> Citing({}, {2})

MCStart ==
  { [p \in MCPath |-> IF p \in Near THEN near[p] ELSE Absent] :
      near \in [Near -> NearDoc \cup {Absent}] } \cup {Chain}

To(doc, op) == [op |-> op, doc |-> doc]

\* One record rewritten, created or deleted, the same record moved, and the edge from 12 to 13
\* that closes the chain.
MCRequest ==
  { p :> To(doc, op) : p \in Near, doc \in NearDoc, op \in {"create", "replace"} }
    \cup { p :> To(Absent, "delete") : p \in Near }
    \cup { 11 :> To(Absent, "delete") @@ 21 :> To(doc, "create") : doc \in NearDoc }
    \cup { 12 :> To(Citing({}, {3}), "replace") }
=============================================================================
