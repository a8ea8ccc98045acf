---------------------------- MODULE MCSupersession ----------------------------
(***************************************************************************)
(* One writer and a chain of supersessions for TLC: 12 supersedes 13, 13   *)
(* supersedes 14.  The writer lets 14 supersede 11 and 11 supersede 12,    *)
(* plainly or while also naming the superseded record as a related one.    *)
(***************************************************************************)
EXTENDS Mutation, TLC

MCIdentity == {1, 2, 3, 4}
MCPath == {11, 12, 13, 14}
MCIdOf == [p \in MCPath |-> p - 10]

Superseding(rel, sup) == [body |-> "plain", rel |-> rel, sup |-> sup]

MCDoc ==
  {Superseding({}, {})} \cup { Superseding({}, {i}) : i \in MCIdentity }
    \cup { Superseding({10 + i}, {i}) : i \in {1, 2} }

MCStart ==
  { 11 :> Superseding({}, {}) @@ 12 :> Superseding({}, {3})
      @@ 13 :> Superseding({}, {4}) @@ 14 :> Superseding({}, {}) }

Rewrite(p, doc) == p :> [op |-> "replace", doc |-> doc]

\* A record may also name it by path, as a related ticket.
AliasedRequest ==
  { Rewrite(14, Superseding({11}, {1})), Rewrite(11, Superseding({12}, {2})) }

\* Supersession references form no cycle (validation.rs, "supersession
\* references must not form a cycle"): a store that has none gets none from
\* applied batches, however long the chain that the last edge closes.
NoSupersessionCycle ==
  Undisturbed => Cycles(Docs(files), Existing(Docs(files)), Path) = {}
=============================================================================
