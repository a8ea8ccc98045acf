------------------------------ MODULE MCTerminal ------------------------------
(***************************************************************************)
(* A project with an investigation inside another for TLC: a file of the   *)
(* project and one in the inner investigation.                             *)
(***************************************************************************)
EXTENDS Terminal, TLC

MCInvestigation == {"deep", "nested"}
MCProjectOf == [i \in MCInvestigation |-> "alpha"]
MCOverlap == {<<"deep", "nested">>}
MCScopeOf == "project.md" :> "alpha" @@ "note.md" :> "nested"
=============================================================================
